--------------------------- MODULE ScheduledTasks ---------------------------
(***************************************************************************)
(* The automatic scheduler: what is queued, who claims it and how it ends. *)
(*                                                                         *)
(* Every process runs three lanes.  The enqueue lane writes a row for each *)
(* task whose time has come; the general and the trading lane take one row *)
(* at a time.  The key of a row makes a task unique however many processes *)
(* and polls ask for it.  A row RUNNING for longer than ClaimTimeout can   *)
(* be claimed again, and no later write is fenced by the claim.            *)
(*                                                                         *)
(* OPENLIST is the daily batch that calls language models: it starts in    *)
(* its minute or not at all, and what was started is not started again.    *)
(* The other types are alike but for their keys and their times; one type  *)
(* stands for all that share both (DAILY: three research tasks, CANCEL:    *)
(* the two cancellations and the pre-open decision).                       *)
(***************************************************************************)
EXTENDS Naturals

CONSTANTS Servers,       \* processes with a scheduler
          Types,         \* the types of tasks that are enabled
          MaxTime,       \* clock readings are 0..MaxTime
          DayLength,     \* readings in a day
          TradingDays,   \* days on which the exchange is open
          StartMinute,   \* readings in the start minute of OPENLIST
          ClaimTimeout,  \* scheduler.claim_timeout_ms
          Interval,      \* readings between two reconciliations
          IntervalEnd,   \* time of day after which none is queued
          Slot,          \* time of day of every type but OPENLIST
          MaxVersion,    \* configurations are 1..MaxVersion
          OpenSlot,      \* time of day of OPENLIST, by configuration
          OpenOn,        \* configurations in which OPENLIST is enabled
          MaxFaults      \* bound on crashes and failing statements

AllTypes == {"DAILY", "OPENLIST", "PREFLIGHT", "CANCEL", "INTERVAL", "EOD"}
Versions == 1..MaxVersion
Times == 0..MaxTime

ASSUME TasksAssumption ==
  /\ Types \subseteq AllTypes
  /\ MaxTime \in Nat /\ MaxVersion \in Nat \ {0} /\ MaxFaults \in Nat
  /\ DayLength \in Nat \ {0} /\ Interval \in Nat \ {0} /\ IntervalEnd \in Nat
  /\ StartMinute \in Nat \ {0} /\ ClaimTimeout \in Nat \ {0}
  /\ Slot \in [AllTypes -> Nat] /\ OpenSlot \in [Versions -> Nat]
  /\ OpenOn \subseteq Versions

VARIABLES
  now,      \* the clock
  version,  \* the configuration each process has loaded
  rows,     \* scheduled_task_runs, by type and key
  poll,     \* the enqueue lane of each process: what it still has to queue
  lane,     \* the general and the trading lane of each process
  batches,  \* how many OPENLIST batches have started on each day
  faults

vars == <<now, version, rows, poll, lane, batches, faults>>

Fault == faults < MaxFaults /\ faults' = faults + 1

-----------------------------------------------------------------------------
(* Times and keys.                                                         *)

Day(t) == t \div DayLength
Days == {Day(t) : t \in Times}
DailyAt(t, slot) == Day(t) * DayLength + slot

ScheduledAt(type, t, v) ==
  CASE type = "INTERVAL" -> t - (t % Interval)
    [] type = "OPENLIST" -> DailyAt(t, OpenSlot[v])
    [] OTHER             -> DailyAt(t, Slot[type])

\* Daily tasks are known by their date, a preflight also by the configuration,
\* an interval by its time.
Key(type, t, v) ==
  [type |-> type, day |-> Day(t),
   tag |-> CASE type = "PREFLIGHT" -> v
             [] type = "INTERVAL"  -> ScheduledAt(type, t, v)
             [] OTHER              -> 0]

Keys == {Key(type, t, v) : type \in Types, t \in Times, v \in Versions}
Dues == {ScheduledAt(type, t, v) : type \in Types, t \in Times, v \in Versions}

WithinScheduledMinute(t, at) == at <= t /\ t < at + StartMinute

\* Is it time to queue the task?  OPENLIST does not catch up; the trading tasks
\* need an open day, the intervals the hours of its session.
IsDue(type, t, v) ==
  LET at == ScheduledAt(type, t, v)
  IN  CASE type = "OPENLIST" -> v \in OpenOn /\ WithinScheduledMinute(t, at)
        [] type = "DAILY"    -> at <= t
        [] type = "INTERVAL" -> /\ Day(t) \in TradingDays
                                /\ DailyAt(t, Slot[type]) <= t /\ t <= DailyAt(t, IntervalEnd)
        [] OTHER             -> Day(t) \in TradingDays /\ at <= t

DueTypes(t, v) == {type \in Types : IsDue(type, t, v)}

\* The order in which one poll queues them.
Turn == [DAILY |-> 1, OPENLIST |-> 2, PREFLIGHT |-> 3, CANCEL |-> 4, INTERVAL |-> 5, EOD |-> 6]

-----------------------------------------------------------------------------
Lanes == Servers \X {"general", "trading"}
General == {"DAILY", "OPENLIST"}

Serves(l, type) == (type \in General) <=> (l[2] = "general")

Ended == {"SUCCEEDED", "FAILED", "SKIPPED"}
NoRow == [status |-> "NONE", due |-> 0, attempts |-> 0, startedAt |-> 0]
Idle == [step |-> "idle"]
NoPoll == [at |-> 0, version |-> 1, left |-> {}]

Init ==
  /\ now = 0
  /\ version = [s \in Servers |-> 1]
  /\ rows = [k \in Keys |-> NoRow]
  /\ poll = [s \in Servers |-> NoPoll]
  /\ lane = [l \in Lanes |-> Idle]
  /\ batches = [d \in Days |-> 0]
  /\ faults = 0

Tick ==
  /\ now < MaxTime /\ now' = now + 1
  /\ UNCHANGED <<version, rows, poll, lane, batches, faults>>

\* A process loads a newer configuration, between any two of its steps.
Reload(s, v) ==
  /\ version[s] < v
  /\ version' = [version EXCEPT ![s] = v]
  /\ UNCHANGED <<now, rows, poll, lane, batches, faults>>

-----------------------------------------------------------------------------
(* The enqueue lane.                                                       *)

\* One poll reads the clock and the configuration once...
EnqueueDueTasks(s) ==
  /\ poll[s].left = {} /\ DueTypes(now, version[s]) # {}
  /\ poll' = [poll EXCEPT ![s] = [at |-> now, version |-> version[s],
                                  left |-> DueTypes(now, version[s])]]
  /\ UNCHANGED <<now, version, rows, lane, batches, faults>>

\* ...then inserts row by row: nothing where the key exists already.
Enqueue(s, type) ==
  LET p == poll[s]
      k == Key(type, p.at, p.version)
  IN  /\ type \in p.left /\ \A other \in p.left : Turn[type] <= Turn[other]
      /\ poll' = [poll EXCEPT ![s] = IF p.left = {type} THEN NoPoll
                                     ELSE [p EXCEPT !.left = @ \ {type}]]
      /\ rows' = IF rows[k].status # "NONE" THEN rows
                 ELSE [rows EXCEPT ![k] = [NoRow EXCEPT
                         !.status = "QUEUED", !.due = ScheduledAt(type, p.at, p.version)]]
      /\ UNCHANGED <<now, version, lane, batches, faults>>

\* The first error ends the poll, whatever is left.
EnqueueFails(s) ==
  /\ poll[s].left # {} /\ Fault
  /\ poll' = [poll EXCEPT ![s] = NoPoll]
  /\ UNCHANGED <<now, version, rows, lane, batches>>

-----------------------------------------------------------------------------
(* The general and the trading lane.                                       *)

Stale(row, at) == row.status = "RUNNING" /\ row.startedAt + ClaimTimeout < at

\* Mutant: a row whose owner is gone waits for its owner.
ClaimableOnlyQueued(row, at) == row.status = "QUEUED" /\ row.due <= at

Claimable(row, at) ==
  /\ row.status = "QUEUED" \/ Stale(row, at)
  /\ row.due <= at

\* The transaction reads the earliest row that can be claimed (of rows due at the
\* same time, any)...
FindNextDue(l, k) ==
  /\ lane[l].step = "idle"
  /\ Serves(l, k.type) /\ Claimable(rows[k], now)
  /\ \A j \in Keys : Serves(l, j.type) /\ Claimable(rows[j], now)
                       => rows[k].due <= rows[j].due
  /\ lane' = [lane EXCEPT ![l] = [step |-> "found", key |-> k, at |-> now,
                                  attempt |-> 0,
                                  queued |-> rows[k].status = "QUEUED"]]
  /\ UNCHANGED <<now, version, rows, poll, batches, faults>>

\* Mutants: the row is updated by its id; the age of the claim is not checked again.
StillClaimableById(row, w) == TRUE
StillClaimableAnyAge(row, w) ==
  IF w.queued THEN row.status = "QUEUED" ELSE row.status = "RUNNING"

\* ...and updates it if it still is as it was found.
StillClaimable(row, w) ==
  IF w.queued THEN row.status = "QUEUED" ELSE Stale(row, w.at)

ClaimedRows(w) ==
  [rows EXCEPT ![w.key].status = "RUNNING", ![w.key].startedAt = w.at,
               ![w.key].attempts = @ + 1]

Claim(l) ==
  LET w == lane[l]
  IN  /\ w.step = "found"
      /\ IF StillClaimable(rows[w.key], w)
         THEN /\ rows' = ClaimedRows(w)
              /\ lane' = [lane EXCEPT ![l].step = "claimed",
                                      ![l].attempt = rows[w.key].attempts + 1]
         ELSE /\ lane' = [lane EXCEPT ![l] = Idle]
              /\ UNCHANGED rows
      /\ UNCHANGED <<now, version, poll, batches, faults>>

\* The transaction fails, or it commits and the answer is lost.
ClaimFails(l) ==
  LET w == lane[l]
  IN  /\ w.step = "found" /\ Fault
      /\ \/ StillClaimable(rows[w.key], w) /\ rows' = ClaimedRows(w)
         \/ UNCHANGED rows
      /\ lane' = [lane EXCEPT ![l] = Idle]
      /\ UNCHANGED <<now, version, poll, batches>>

\* Mutant: a batch may be started again.
SkipsNotStarted(w, t, v) ==
  \/ v \notin OpenOn
  \/ w.key # Key("OPENLIST", t, v) \/ rows[w.key].due # ScheduledAt("OPENLIST", t, v)
  \/ ~WithinScheduledMinute(t, ScheduledAt("OPENLIST", t, v))

\* openListScheduledRunSkipReason: disabled, obsolete, missed or started already.
Skips(w, t, v) ==
  \/ v \notin OpenOn
  \/ w.key # Key("OPENLIST", t, v) \/ rows[w.key].due # ScheduledAt("OPENLIST", t, v)
  \/ ~WithinScheduledMinute(t, ScheduledAt("OPENLIST", t, v))
  \/ w.attempt > 1

\* execute, up to the call of the handler.
Execute(l) ==
  LET w == lane[l]
  IN  /\ w.step = "claimed"
      /\ IF w.key.type # "OPENLIST"
         THEN /\ lane' = [lane EXCEPT ![l].step = "running"]
              /\ UNCHANGED batches
         ELSE IF Skips(w, now, version[l[1]])
         THEN /\ lane' = [lane EXCEPT ![l].step = "skipping"]
              /\ UNCHANGED batches
         ELSE /\ lane' = [lane EXCEPT ![l].step = "running"]
              /\ batches' = [batches EXCEPT ![Day(now)] = @ + 1]
      /\ UNCHANGED <<now, version, rows, poll, faults>>

\* The handler returns, or the task is skipped, and the row is written by its id.
Finish(l, status) ==
  LET w == lane[l]
  IN  /\ \/ w.step = "running" /\ status \in {"SUCCEEDED", "FAILED"}
         \/ w.step = "skipping" /\ status = "SKIPPED"
      /\ rows' = [rows EXCEPT ![w.key].status = status]
      /\ lane' = [lane EXCEPT ![l] = Idle]
      /\ UNCHANGED <<now, version, poll, batches, faults>>

\* The write fails (a process that shuts down loses its success this way): the
\* row keeps RUNNING and its time.
FinishFails(l) ==
  /\ lane[l].step \in {"running", "skipping"} /\ Fault
  /\ lane' = [lane EXCEPT ![l] = Idle]
  /\ UNCHANGED <<now, version, rows, poll, batches>>

Crash(s) ==
  /\ Fault
  /\ poll' = [poll EXCEPT ![s] = NoPoll]
  /\ lane' = [l \in Lanes |-> IF l[1] = s THEN Idle ELSE lane[l]]
  /\ UNCHANGED <<now, version, rows, batches>>

PollStep(s) == EnqueueDueTasks(s) \/ \E type \in Types : Enqueue(s, type)

LaneStep(l) ==
  \/ \E k \in Keys : FindNextDue(l, k)
  \/ Claim(l)
  \/ Execute(l)
  \/ \E status \in Ended : Finish(l, status)

Next ==
  \/ Tick
  \/ \E s \in Servers : PollStep(s) \/ EnqueueFails(s) \/ Crash(s)
  \/ \E s \in Servers, v \in Versions : Reload(s, v)
  \/ \E l \in Lanes : LaneStep(l) \/ ClaimFails(l) \/ FinishFails(l)

\* The lanes poll for ever and the handlers return; the clock goes on.
Fairness ==
  /\ WF_vars(Tick)
  /\ \A s \in Servers : WF_vars(PollStep(s))
  /\ \A l \in Lanes : WF_vars(LaneStep(l))

Spec == Init /\ [][Next]_vars
FairSpec == Spec /\ Fairness

-----------------------------------------------------------------------------
(* Properties.                                                             *)

Found == [step: {"found", "claimed", "running", "skipping"}, key: Keys, at: Times,
          attempt: Nat, queued: BOOLEAN]
Rows == [status: {"NONE", "QUEUED", "RUNNING"} \union Ended, due: Dues \union {0},
         attempts: Nat, startedAt: Times]

\* The clock, the journal, the polls and the lanes stay within their types.
TypeOK ==
  /\ now \in Times /\ version \in [Servers -> Versions] /\ faults \in Nat
  /\ rows \in [Keys -> Rows]
  /\ poll \in [Servers -> [at: Times, version: Versions, left: SUBSET Types]]
  /\ lane \in [Lanes -> {Idle} \union Found]
  /\ batches \in [Days -> Nat]

\* "OpenList starts one round a day" (README): whatever is queued twice, crashes, is
\* claimed again or overtaken by a new configuration, no day sees two batches begin.
OneBatchPerDay == \A d \in Days : batches[d] <= 1

Holds(l, k) == lane[l].step \in {"claimed", "running", "skipping"} /\ lane[l].key = k

\* Two lanes work on one task only if the later one read the clock more than
\* ClaimTimeout after the earlier one: no task is given away twice within a claim.
ExclusiveClaims ==
  \A l, m \in Lanes, k \in Keys :
    l # m /\ Holds(l, k) /\ Holds(m, k)
      => \/ lane[l].at + ClaimTimeout < lane[m].at
         \/ lane[m].at + ClaimTimeout < lane[l].at

\* The journal of a task that was claimed once is final: what its lane wrote at the
\* end stays, although nothing checks who writes.
EndsOnce ==
  [][\A k \in Keys : rows[k].status \in Ended /\ rows[k].attempts = 1
                       => rows'[k] = rows[k]]_vars

\* "...are marked SKIPPED and call no model any more" (README): if a claim lasts at
\* least the start minute, a batch begins only while its task is RUNNING, also when
\* the lane that begins it was overtaken.
NoBatchOnEndedTask ==
  [][\A l \in Lanes : ClaimTimeout >= StartMinute /\ lane[l].step = "claimed"
       /\ lane[l].key.type = "OPENLIST" /\ lane'[l].step = "running"
       => rows[lane[l].key].status = "RUNNING"]_vars

-----------------------------------------------------------------------------
(* Why the safety properties hold: an invariant that every step preserves.  *)

Busy(l) == lane[l].step # "idle"

\* What a lane has in hand was due and existed when it read its clock.
BusyLanes ==
  \A l \in Lanes : Busy(l) =>
    LET k == lane[l].key
    IN  /\ rows[k].status # "NONE" /\ rows[k].due <= lane[l].at
        /\ lane[l].at <= now

\* The row of a lane that holds a task was claimed at least as often, and as late.
Holders ==
  \A l \in Lanes, k \in Keys : Holds(l, k) =>
    /\ rows[k].status # "QUEUED"
    /\ 1 <= lane[l].attempt /\ lane[l].attempt <= rows[k].attempts
    /\ lane[l].at <= rows[k].startedAt
    /\ lane[l].attempt < rows[k].attempts => lane[l].at + ClaimTimeout < rows[k].startedAt

\* Two lanes that hold a task hold different claims of it, in their order.
Succession ==
  \A l, m \in Lanes, k \in Keys : l # m /\ Holds(l, k) /\ Holds(m, k) =>
    \/ lane[l].attempt < lane[m].attempt /\ lane[l].at + ClaimTimeout < lane[m].at
    \/ lane[m].attempt < lane[l].attempt /\ lane[m].at + ClaimTimeout < lane[l].at

\* Attempts count claims, and a first claim that has ended is in nobody's hands.
Journal ==
  \A k \in Keys :
    /\ rows[k].status \in {"NONE", "QUEUED"} <=> rows[k].attempts = 0
    /\ rows[k].startedAt <= now
    /\ rows[k].status \in Ended /\ rows[k].attempts = 1 => \A l \in Lanes : ~Holds(l, k)

\* Where a batch has begun, the first claim of the day's task is spent.
BatchSpent ==
  \A k \in Keys : k.type = "OPENLIST" /\ batches[k.day] > 0 =>
    /\ rows[k].attempts > 0
    /\ \A l \in Lanes : ~(Holds(l, k) /\ lane[l].step = "claimed" /\ lane[l].attempt = 1)

\* Together, with the types and the promise itself, they are inductive.
IndInv ==
  /\ TypeOK /\ OneBatchPerDay
  /\ BusyLanes /\ Holders /\ Succession /\ Journal /\ BatchSpent

\* The claim of the row is not over when the model's time is.
Late(k) == rows[k].status = "RUNNING" /\ rows[k].startedAt + ClaimTimeout >= MaxTime

\* A task that was queued ends, also when its process stops or the end of its work
\* is not recorded: it is claimed again.
EveryTaskEnds ==
  \A k \in Keys : rows[k].status = "QUEUED" ~> rows[k].status \in Ended \/ Late(k)
=============================================================================
