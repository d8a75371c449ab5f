------------------------- MODULE ReconciliationRuns -------------------------
(***************************************************************************)
(* The queue of reconciliation runs and what a run does to the day and to  *)
(* the two kill switches.                                                  *)
(*                                                                         *)
(* Runs of four kinds share the queue.  CHECK (MANUAL, INTERVAL,           *)
(* DASHBOARD) and EOD compare the ledger with snapshots of the provider;   *)
(* EOD also cancels the open orders before and closes the day after;       *)
(* PREFLIGHT opens the day; CANCEL only cancels orders.  Each server       *)
(* process has one reconciliation lane.  A claim is a lease: its owner may *)
(* be overtaken while it still works, and every write to the run is fenced *)
(* by the claim, the writes to the switches and to the day are not.        *)
(*                                                                         *)
(* A snapshot is the time at which the provider took it.  What a comparison*)
(* finds is an input: nothing, valuations only, or a fault of the ledger.  *)
(***************************************************************************)
EXTENDS Naturals, Sequences

CONSTANTS Workers,      \* server processes
          MaxRuns,      \* runs are numbered 1..MaxRuns
          RunTypes,     \* the kinds of runs that are queued
          MaxTime,      \* snapshots are taken at 1..MaxTime
          MaxAttempts,  \* ValuationMaxAttempts, at most 5
          MaxFaults,    \* bound on crashes, failing calls and early lease ends
          MaxSwitches,  \* bound on what operators do to the switches
          NoWorker

ASSUME RunsAssumption ==
  /\ MaxRuns \in Nat /\ MaxTime \in Nat /\ MaxFaults \in Nat /\ MaxSwitches \in Nat
  /\ MaxAttempts \in Nat \ {0}
  /\ RunTypes \subseteq {"CHECK", "EOD", "PREFLIGHT", "CANCEL"}
  /\ NoWorker \notin Workers

VARIABLES
  runs,       \* trading_reconciliation_runs, by id
  lane,       \* the reconciliation lane of each process
  session,    \* trading_daily_sessions.status of the day
  dbKill,     \* trading_runtime_controls KILL_SWITCH
  bridgeKill, \* runtime_state kill_switch of the Bridge
  killOp,     \* the operator's SetKillSwitch call between its two writes
  disturbed,  \* runs during or after which an operator opened a switch
  switches, faults

killVars == <<dbKill, bridgeKill>>
operatorVars == <<killOp, disturbed, switches>>
vars == <<runs, lane, session, killVars, operatorVars, faults>>

Ids == 1..MaxRuns
Types == {"CHECK", "EOD", "PREFLIGHT", "CANCEL"}
Compares(type) == type \in {"CHECK", "EOD"}
Terminal == {"SUCCEEDED", "FAILED"}
DiffKinds == {"NONE", "VALUATION", "FAULT"}
Attempts == Seq([at: Nat, diffs: DiffKinds])

LaneSteps == {"idle", "preflight", "cancel", "comparing", "compared", "sync",
              "haltDb", "haltBridge", "end", "close"}

\* verdict: what the lane will write; safe: the latches it has set since it began
\* to halt; error: it halts in failReconciliation.
Idle == [step |-> "idle", run |-> 0, attempts |-> <<>>, count |-> 0,
         verdict |-> "RUNNING", safe |-> {}, error |-> FALSE]

NoRun == [type |-> "CHECK", status |-> "NONE", token |-> NoWorker, live |-> FALSE,
          attempts |-> <<>>]

TypeOf(w) == runs[lane[w].run].type
Fault == faults < MaxFaults /\ faults' = faults + 1
Go(w, change) == lane' = [lane EXCEPT ![w] = change]
Step(w, step) == [lane[w] EXCEPT !.step = step]

Init ==
  /\ runs = [r \in Ids |-> NoRun]
  /\ lane = [w \in Workers |-> Idle]
  /\ session = "NONE"
  /\ dbKill = TRUE /\ bridgeKill = TRUE /\ killOp = "NONE"
  /\ disturbed = {} /\ switches = 0 /\ faults = 0

-----------------------------------------------------------------------------
(* The queue.                                                              *)

\* QueueReconciliation: ids are given out in order; a run with the key of an
\* earlier one (same kind, same minute) is that run and changes nothing.
QueueReconciliation(r, type) ==
  /\ runs[r].status = "NONE" /\ \A q \in Ids : q < r => runs[q].status # "NONE"
  /\ runs' = [runs EXCEPT ![r].type = type, ![r].status = "QUEUED"]
  /\ UNCHANGED <<lane, session, killVars, operatorVars, faults>>

\* Mutants: an expired run is left to its owner; the newest run is claimed first.
ClaimableOnlyQueued(r) == runs[r].status = "QUEUED"

Claimable(r) ==
  \/ runs[r].status = "QUEUED"
  \/ runs[r].status = "RUNNING" /\ ~runs[r].live

Precedes(q, r) == q < r

FirstStep(type) ==
  CASE type = "PREFLIGHT"         -> "preflight"
    [] type \in {"CANCEL", "EOD"} -> "cancel"
    [] OTHER                      -> "comparing"

\* TradingReconciliationRuns.Claim under the account lock: nothing while a lease
\* runs, else the first run that waits or whose lease is over.
Claim(w, r) ==
  /\ lane[w].step = "idle"
  /\ \A q \in Ids : ~(runs[q].status = "RUNNING" /\ runs[q].live)
  /\ Claimable(r) /\ \A q \in Ids : Precedes(q, r) => ~Claimable(q)
  /\ runs' = [runs EXCEPT ![r].status = "RUNNING", ![r].token = w, ![r].live = TRUE]
  /\ Go(w, [Idle EXCEPT !.step = FirstStep(runs[r].type), !.run = r,
                        !.attempts = runs[r].attempts])
  /\ UNCHANGED <<session, killVars, operatorVars, faults>>

\* Mutant: the run is updated by its id.
OwnsById(w) == TRUE

\* The condition of UpdateClaim.
Owns(w) ==
  LET run == runs[lane[w].run]
  IN  run.status = "RUNNING" /\ run.token = w /\ run.live

Working(w, r) == lane[w].run = r /\ lane[w].step # "idle" /\ runs[r].token = w

\* The deadline passes: unobserved when nobody works on the run (any more), and
\* a fault when its owner does, whose context ends ten seconds earlier.
LeaseEnds(r) ==
  /\ runs[r].status = "RUNNING" /\ runs[r].live
  /\ IF \E w \in Workers : Working(w, r) THEN Fault ELSE UNCHANGED faults
  /\ runs' = [runs EXCEPT ![r].live = FALSE]
  /\ UNCHANGED <<lane, session, killVars, operatorVars>>

-----------------------------------------------------------------------------
(* PREFLIGHT and CANCEL: one call, then the run ends with its outcome.     *)

\* Ready or not, the day's row is written; an error before that leaves it alone.
Preflight(w) ==
  /\ lane[w].step = "preflight"
  /\ \/ /\ session' = "READY"
        /\ Go(w, [Step(w, "end") EXCEPT !.verdict = "SUCCEEDED"])
     \/ /\ session' \in {"BLOCKED", session}
        /\ Go(w, [Step(w, "end") EXCEPT !.verdict = "FAILED"])
  /\ UNCHANGED <<runs, killVars, operatorVars, faults>>

\* CancelOpenOrders, some of whose calls may fail.
CancelOpenOrders(w) ==
  /\ lane[w].step = "cancel"
  /\ IF TypeOf(w) = "EOD"
     THEN Go(w, Step(w, "comparing")) \/ Go(w, [Step(w, "haltDb") EXCEPT !.error = TRUE])
     ELSE \E verdict \in Terminal : Go(w, [Step(w, "end") EXCEPT !.verdict = verdict])
  /\ UNCHANGED <<runs, session, killVars, operatorVars, faults>>

-----------------------------------------------------------------------------
(* performReconciliation.                                                  *)

\* Any error on the way (busy, config changed, Bridge, snapshot, recovery event,
\* differences that cannot be stored, time over).
PerformFails(w) ==
  /\ \/ lane[w].step \in {"comparing", "sync"}
     \/ lane[w].step = "haltDb" /\ ~lane[w].error
  /\ Go(w, [Step(w, "haltDb") EXCEPT !.error = TRUE])
  /\ dbKill' \in {dbKill, TRUE}            \* ACCOUNT_MISMATCH does not wait
  /\ UNCHANGED <<runs, session, bridgeKill, operatorVars, faults>>

\* Mutant: a snapshot that was seen before confirms too.
ConfirmsRepeated(w, at) == \A k \in DOMAIN lane[w].attempts : lane[w].attempts[k].at <= at

Confirms(w, at) == \A k \in DOMAIN lane[w].attempts : lane[w].attempts[k].at < at

\* A fresh snapshot is compared with the ledger; one that an earlier attempt,
\* of this or a previous owner, has already seen or outdated is an error.
Compare(w, at, diffs) ==
  /\ lane[w].step = "comparing"
  /\ Confirms(w, at)
  /\ Go(w, [Step(w, "compared") EXCEPT !.attempts = Append(@, [at |-> at, diffs |-> diffs]),
                                       !.count = @ + 1])
  /\ UNCHANGED <<runs, session, killVars, operatorVars, faults>>

LastDiffs(w) == lane[w].attempts[Len(lane[w].attempts)].diffs

\* What follows the checkpoint: only valuations are compared again, up to the limit.
AfterCompare(w) ==
  CASE LastDiffs(w) = "NONE" -> "sync"
    [] LastDiffs(w) = "VALUATION" /\ lane[w].count < MaxAttempts -> "comparing"
    [] OTHER -> "haltDb"

LostClaim(w) == IF TypeOf(w) = "EOD" THEN [Step(w, "close") EXCEPT !.verdict = "RUNNING"]
                                     ELSE Idle

\* The evidence is stored before anything is decided on it, or the claim is lost.
Checkpoint(w) ==
  /\ lane[w].step = "compared"
  /\ IF Owns(w)
     THEN /\ runs' = [runs EXCEPT ![lane[w].run].attempts = lane[w].attempts]
          /\ Go(w, Step(w, AfterCompare(w)))
     ELSE /\ Go(w, LostClaim(w))
          /\ UNCHANGED runs
  /\ UNCHANGED <<session, killVars, operatorVars, faults>>

CheckpointFails(w) ==
  /\ lane[w].step = "compared"
  /\ Fault
  /\ Go(w, [Step(w, "haltDb") EXCEPT !.error = TRUE])
  /\ UNCHANGED <<runs, session, killVars, operatorVars>>

\* syncPositionCycles: no differences, the cycles follow the provider's positions.
SyncPositionCycles(w) ==
  /\ lane[w].step = "sync"
  /\ Go(w, [Step(w, "end") EXCEPT !.verdict = "SUCCEEDED"])
  /\ UNCHANGED <<runs, session, killVars, operatorVars, faults>>

-----------------------------------------------------------------------------
(* haltForReconciliation: both latches are tried whatever the first says.  *)

HaltDb(w) ==
  /\ lane[w].step = "haltDb"
  /\ \/ dbKill' = TRUE /\ Go(w, [Step(w, "haltBridge") EXCEPT !.safe = {"db"}])
        /\ UNCHANGED faults
     \/ dbKill' \in {dbKill, TRUE} /\ Go(w, [Step(w, "haltBridge") EXCEPT !.safe = {}])
        /\ Fault
  /\ UNCHANGED <<runs, session, bridgeKill, operatorVars>>

\* Mutant: FAILED is written whether or not both latches were confirmed.
VerdictUnconditional(safe) == "FAILED"

\* A latch that is not confirmed keeps the run RUNNING, a barrier to new orders.
Verdict(safe) == IF safe = {"db", "bridge"} THEN "FAILED" ELSE "RUNNING"

\* A difference whose halt is not confirmed goes on as an error, halting once more.
HaltBridge(w) ==
  /\ lane[w].step = "haltBridge"
  /\ \E safe \in {lane[w].safe, lane[w].safe \union {"bridge"}} :
       /\ IF "bridge" \in safe THEN bridgeKill' = TRUE /\ UNCHANGED faults
                               ELSE bridgeKill' \in {bridgeKill, TRUE} /\ Fault
       /\ IF Verdict(safe) = "FAILED" \/ lane[w].error
          THEN Go(w, [Step(w, "end") EXCEPT !.safe = safe, !.verdict = Verdict(safe)])
          ELSE Go(w, [Step(w, "haltDb") EXCEPT !.error = TRUE])
  /\ UNCHANGED <<runs, session, dbKill, operatorVars>>

-----------------------------------------------------------------------------
(* The end of a run, and of the day.                                       *)

After(w) == IF TypeOf(w) = "EOD" THEN Step(w, "close") ELSE Idle

\* FinishClaim, UpdateClaim of failReconciliation: the claim's owner writes.
End(w) ==
  /\ lane[w].step = "end"
  /\ IF Owns(w)
     THEN /\ runs' = [runs EXCEPT ![lane[w].run].status = lane[w].verdict,
                                  ![lane[w].run].attempts = lane[w].attempts]
          /\ Go(w, After(w))
     ELSE /\ Go(w, LostClaim(w))
          /\ UNCHANGED runs
  /\ UNCHANGED <<session, killVars, operatorVars, faults>>

\* The write fails: a comparison that had come to its end fails instead.
EndFails(w) ==
  /\ lane[w].step = "end"
  /\ Fault
  /\ IF Compares(TypeOf(w)) /\ ~lane[w].error
     THEN Go(w, [Step(w, "haltDb") EXCEPT !.error = TRUE])
     ELSE Go(w, LostClaim(w))
  /\ UNCHANGED <<runs, session, killVars, operatorVars>>

\* Mutant: a run that ended without an error closes the day, differences or not.
ReconciledIfNoError(w) == ~lane[w].error

Reconciled(w) == lane[w].verdict = "SUCCEEDED"

\* closeTradingDay: no claim is needed; open orders may be left (an input).
CloseTradingDay(w) ==
  /\ lane[w].step = "close"
  /\ IF session = "NONE" THEN UNCHANGED session
     ELSE \/ Reconciled(w) /\ session' = "CLOSED"
          \/ session' = "BLOCKED"
  /\ Go(w, Idle)
  /\ UNCHANGED <<runs, killVars, operatorVars, faults>>

Crash(w) ==
  /\ lane[w].step # "idle"
  /\ Fault
  /\ Go(w, Idle)
  /\ UNCHANGED <<runs, session, killVars, operatorVars>>

-----------------------------------------------------------------------------
(* Operators and the Runner.                                               *)

Switch == switches < MaxSwitches /\ switches' = switches + 1

UnderWay == {r \in Ids : runs[r].status \in {"RUNNING", "FAILED"}}
Disturb(on) == disturbed' = IF on THEN disturbed ELSE disturbed \union UnderWay

\* SetKillSwitch writes the database, no questions asked, ...
SetKillSwitch(on) ==
  /\ killOp = "NONE" /\ Switch
  /\ dbKill' = on /\ Disturb(on)
  /\ killOp' = IF on THEN "ON" ELSE "OFF"
  /\ UNCHANGED <<runs, lane, session, bridgeKill, faults>>

\* ... then the Bridge, which refuses to open before account and token are
\* verified (an input), and may not answer.
SetKillSwitchBridge ==
  /\ killOp # "NONE"
  /\ \/ bridgeKill' = (killOp = "ON") /\ Disturb(killOp = "ON")
     \/ UNCHANGED <<bridgeKill, disturbed>>
  /\ killOp' = "NONE"
  /\ UNCHANGED <<runs, lane, session, dbKill, switches, faults>>

\* _fail_closed of the Runner.
FailClosed ==
  /\ ~bridgeKill
  /\ bridgeKill' = TRUE
  /\ UNCHANGED <<runs, lane, session, dbKill, killOp, disturbed, switches, faults>>

-----------------------------------------------------------------------------
\* One step of a lane that works on a run.
LaneWork(w) ==
  \/ Preflight(w) \/ CancelOpenOrders(w)
  \/ (\E at \in 1..MaxTime, diffs \in DiffKinds : Compare(w, at, diffs))
  \/ PerformFails(w) \/ Checkpoint(w) \/ CheckpointFails(w) \/ SyncPositionCycles(w)
  \/ HaltDb(w) \/ HaltBridge(w) \/ End(w) \/ EndFails(w) \/ CloseTradingDay(w)

LaneStep(w) == LaneWork(w) \/ (\E r \in Ids : Claim(w, r)) \/ Crash(w)

ControlStep == (\E on \in BOOLEAN : SetKillSwitch(on)) \/ SetKillSwitchBridge \/ FailClosed

Next ==
  \/ \E r \in Ids : LeaseEnds(r) \/ (\E type \in RunTypes : QueueReconciliation(r, type))
  \/ \E w \in Workers : LaneStep(w)
  \/ ControlStep

Spec == Init /\ [][Next]_vars

\* The lanes are loops that never stop, and time passes.
Fairness ==
  /\ \A w \in Workers : WF_vars(LaneWork(w))
  /\ WF_vars(\E w \in Workers, r \in Ids : Claim(w, r))
  /\ \A r \in Ids : WF_vars(LeaseEnds(r) /\ UNCHANGED faults)

FairSpec == Spec /\ Fairness

-----------------------------------------------------------------------------
(* Properties.                                                             *)

Runs == [type: Types, status: {"NONE", "QUEUED", "RUNNING"} \union Terminal,
         token: Workers \union {NoWorker}, live: BOOLEAN, attempts: Attempts]

Lanes == [step: LaneSteps, run: Ids \union {0}, attempts: Attempts, count: Nat,
          verdict: {"RUNNING"} \union Terminal, safe: SUBSET {"db", "bridge"},
          error: BOOLEAN]

\* Every stored and remembered value is one the schema and the code can hold.
TypeOK ==
  /\ runs \in [Ids -> Runs] /\ lane \in [Workers -> Lanes]
  /\ \A w \in Workers : lane[w].step # "idle" => lane[w].run \in Ids
  /\ session \in {"NONE", "READY", "BLOCKED", "CLOSED"}
  /\ dbKill \in BOOLEAN /\ bridgeKill \in BOOLEAN /\ killOp \in {"NONE", "ON", "OFF"}
  /\ disturbed \subseteq Ids /\ switches \in Nat /\ faults \in Nat

Ended(r) == runs[r].status \in Terminal

\* Runs are started in order and never side by side, live or not: a process that
\* finds an unfinished run takes that one up before it begins another, so that
\* RUNNING, on which every order waits, always means one and the same run.
OneAfterTheOther ==
  \A q, r \in Ids : q < r /\ runs[r].status \in {"RUNNING"} \union Terminal => Ended(q)

\* A run ends once: an owner that was overtaken, or comes back after its lease,
\* can neither end it again nor change the evidence it ended with.
EndedRunsStay == [][\A r \in Ids : Ended(r) => runs'[r] = runs[r]]_vars

\* A comparison that FAILED has closed both switches, and they are still closed
\* unless an operator opened one meanwhile: however the failure came about, with
\* halts that fail, are repeated, or are left to the next owner of the run.
FailedMeansHalted ==
  \A r \in Ids : Compares(runs[r].type) /\ runs[r].status = "FAILED" /\ r \notin disturbed
                 => dbKill /\ bridgeKill

\* A comparison SUCCEEDED on the strength of a snapshot that found no difference
\* and is newer than every snapshot the run has looked at, under any owner.
SuccessIsConfirmed ==
  \A r \in Ids : Compares(runs[r].type) /\ runs[r].status = "SUCCEEDED" =>
    LET attempts == runs[r].attempts
        last     == Len(attempts)
    IN  /\ last > 0 /\ attempts[last].diffs = "NONE"
        /\ \A k \in 1..(last - 1) : attempts[k].at < attempts[last].at

\* The day is closed only after an end-of-day run succeeded; neither differences
\* nor failed cancellations nor a lost claim close it.
ClosedAfterReconciliation ==
  session = "CLOSED" => \E r \in Ids : runs[r].type = "EOD" /\ runs[r].status = "SUCCEEDED"

\* The queue as its users see it.
Queue == INSTANCE SerialQueue WITH
  created <- {r \in Ids : runs[r].status # "NONE"},
  ended   <- {r \in Ids : Ended(r)}

ImplementsSerialQueue == Queue!Spec

\* Every queued run ends, the latches of a failing one having been set at last,
\* provided that processes stop and calls fail only finitely often.
EveryRunEnds == \A r \in Ids : runs[r].status = "QUEUED" ~> Ended(r)

\* reconciliation_confirmation.go: "Never widen tolerances, synthesize totals or
\* retry a cash/quantity/fee/order fault".
FaultsAreNotRetried ==
  \A r \in Ids : runs[r].status = "SUCCEEDED" =>
    \A k \in DOMAIN runs[r].attempts : runs[r].attempts[k].diffs # "FAULT"

-----------------------------------------------------------------------------
(* The inductive invariant behind the theorems of                          *)
(* ReconciliationRuns_proofs.                                              *)

InOrder == \A q, r \in Ids : q < r /\ runs[r].status # "NONE" => runs[q].status # "NONE"

\* A lane is where its kind of run can be, and its run exists.
LaneRuns ==
  \A w \in Workers : lane[w].step # "idle" =>
    /\ runs[lane[w].run].status # "NONE"
    /\ lane[w].step = "preflight" => TypeOf(w) = "PREFLIGHT"
    /\ lane[w].step = "cancel" => TypeOf(w) \in {"CANCEL", "EOD"}

Rising(attempts) ==
  \A j, k \in DOMAIN attempts : j < k => attempts[j].at < attempts[k].at

EvidenceRises ==
  /\ \A r \in Ids : Rising(runs[r].attempts)
  /\ \A w \in Workers : Rising(lane[w].attempts)

Clean(attempts) == Len(attempts) > 0 /\ attempts[Len(attempts)].diffs = "NONE"

\* A comparison on its way to SUCCEEDED remembers a clean last snapshot.
SuccessToCome ==
  \A w \in Workers :
    /\ lane[w].step = "compared" => Len(lane[w].attempts) > 0
    /\ lane[w].step = "sync" => Clean(lane[w].attempts)
    /\ lane[w].step = "end" /\ lane[w].verdict = "SUCCEEDED" /\ Compares(TypeOf(w))
         => Clean(lane[w].attempts)

\* An owner on its way to FAILED has set the latches it counts as safe.
HaltToCome ==
  \A w \in Workers :
    /\ lane[w].step # "idle" /\ Owns(w)
    /\ Compares(TypeOf(w)) /\ lane[w].run \notin disturbed
    => /\ lane[w].step = "haltBridge" /\ "db" \in lane[w].safe => dbKill
       /\ lane[w].step = "end" /\ lane[w].verdict = "FAILED" => dbKill /\ bridgeKill

IndInv ==
  /\ TypeOK /\ InOrder /\ OneAfterTheOther /\ LaneRuns
  /\ EvidenceRises /\ SuccessToCome /\ SuccessIsConfirmed
  /\ HaltToCome /\ FailedMeansHalted
=============================================================================
