---------------------------- MODULE DecisionRuns ----------------------------
(***************************************************************************)
(* Decision runs: what to buy, decided by a trading agent.                 *)
(*                                                                         *)
(* A run is queued for a moment, its AsOf, and is decided later, maybe     *)
(* more than once: a worker claims it under a lease, the agent reads the   *)
(* recommendations, the blogger's record, prices and daily bars through    *)
(* the program's tools, one call after another, and the worker stores the  *)
(* intents of its answer.  Meanwhile the clock, the configuration and the  *)
(* tables that the tools read go on.  A worker may stop for longer than    *)
(* its lease, for good if its process has died, and may then go on:        *)
(* nothing but the fences of the database keeps it from writing.           *)
(*                                                                         *)
(* Time is counted in ticks, DayLength to a day; ticks are the minutes     *)
(* that the code truncates AsOf to.  One blogger, one security per event;  *)
(* a row that is written at a tick is committed at that tick.              *)
(***************************************************************************)
EXTENDS Naturals, Sequences, SequencesExt, FiniteSetsExt

CONSTANTS Deciders,
          EventIds, NextId, \* ids of recommendation_events: there at first, and the next one
          Triggers,      \* trigger types: "PRE_OPEN" needs an open day
          Moments,       \* that decisions are asked for
          DayLength,
          FirstTick, LastTick, \* bounds of the clock
          Opening, Closing, \* the session, in ticks of a day
          OpenDays,      \* the trading calendar
          Fresh,         \* how far from now a real-time quote serves, in ticks
          Lease,         \* of a claim
          Lookback,      \* recommendation_lookback_days
          MaxRuns, MaxWrites, \* bounds
          NoDecision

ASSUME DecisionAssumption ==
  /\ NextId \in Nat /\ EventIds \subseteq 1..(NextId - 1) /\ OpenDays \subseteq Nat
  /\ Moments \subseteq Nat
  /\ DayLength \in Nat \ {0} /\ FirstTick \in Nat /\ LastTick \in Nat
  /\ Opening \in Nat /\ Closing \in Nat /\ Fresh \in Nat /\ Lease \in Nat
  /\ Lookback \in Nat \ {0} /\ MaxRuns \in Nat /\ MaxWrites \in Nat
  /\ NoDecision \notin Nat

VARIABLES
  clock,
  settings,  \* the configuration: its version, and whether trading is live
  runs,      \* trading_agent_runs, by id
  stored,    \* facts in the tables that the tools read
  decider,   \* what each worker is doing
  intents,   \* trading_intents
  writes

vars == <<clock, settings, runs, stored, decider, intents, writes>>

Day(t) == t \div DayLength
OfDay(t) == t % DayLength
Trading(t) == Day(t) \in OpenDays
PreviousOpen(t) == {d \in OpenDays : d < Day(t)}

\* A fact: when it was last written, and the day that it is about: the date of a
\* recommendation, the exit date of a metric, the day of a bar or of a quote.  A
\* plan is written with its event and goes with it: it has its id.  When a security
\* was listed, and the days since, are read as they are at any moment.
EventFact(e, at, day) == [kind |-> "EVENT", id |-> e, at |-> at, day |-> day]
PlanFact(e, at, day) == [kind |-> "PLAN", id |-> e, at |-> at, day |-> day]
ListingFact == [kind |-> "LISTING", id |-> 0, at |-> 0, day |-> 0]
MetricFact(at, day) == [kind |-> "METRIC", id |-> 0, at |-> at, day |-> day]
BarFact(at, day) == [kind |-> "BAR", id |-> 0, at |-> at, day |-> day]
QuoteFact(at) == [kind |-> "QUOTE", id |-> 0, at |-> at, day |-> Day(at)]
Of(kind) == {f \in stored : f.kind = kind}

Idle == [run |-> NoDecision, token |-> 0, step |-> "idle", cursor |-> 0,
         page |-> {}, found |-> {}, basis |-> {}, shadow |-> FALSE]

Init ==
  /\ clock = FirstTick
  /\ settings = [version |-> 0, live |-> TRUE]
  /\ runs = <<>>
  /\ \E recommended \in SUBSET EventIds :
       stored = {BarFact(d * DayLength, d) : d \in PreviousOpen(FirstTick)}
                  \union {EventFact(e, FirstTick - 1, Day(FirstTick) - 1) : e \in recommended}
                  \union {PlanFact(e, FirstTick - 1, Day(FirstTick) - 1) : e \in recommended}
  /\ decider = [w \in Deciders |-> Idle]
  /\ intents = {}
  /\ writes = 0

Run(w) == runs[decider[w].run]
AsOf(w) == Run(w).asOf
At(w, step) == decider[w].step = step
Becomes(w, new) == decider' = [decider EXCEPT ![w] = new]

-----------------------------------------------------------------------------
(* The world: time, the configuration, and the tables.                     *)

Tick ==
  /\ clock < LastTick /\ clock' = clock + 1
  /\ UNCHANGED <<settings, runs, stored, decider, intents, writes>>

Write == writes < MaxWrites /\ writes' = writes + 1

\* A document's analysis, in one transaction: the plans it had go, and their events
\* with them, and a new event with its plan may come.
Recommend ==
  /\ Write
  /\ \E gone \in SUBSET {f.id : f \in Of("EVENT")}, day \in {Day(clock), Day(clock) - 1} :
       LET kept == {f \in stored : f.kind \in {"EVENT", "PLAN"} => f.id \notin gone} IN
       \/ stored' = kept
       \/ stored' = kept \union {EventFact(NextId + writes, clock, day),
                                PlanFact(NextId + writes, clock, day)}
  /\ UNCHANGED <<clock, settings, runs, decider, intents>>

\* Another document says the same: the event is as of now, with the plan it had.
Restate ==
  /\ Write
  /\ \E f \in Of("EVENT") :
       stored' = (stored \ {f}) \union {EventFact(f.id, clock, f.day)}
  /\ UNCHANGED <<clock, settings, runs, decider, intents>>

\* An evaluation replaces the metric; it may exit on this day's bar.
Evaluate ==
  /\ Write
  /\ \E day \in {Day(clock), Day(clock) - 1} :
       stored' = (stored \ Of("METRIC")) \union {MetricFact(clock, day)}
  /\ UNCHANGED <<clock, settings, runs, decider, intents>>

\* The synchronisation stores a day's bar, on that day while it goes on or later.
SyncBar ==
  /\ Write
  /\ \E day \in {d \in OpenDays : d <= Day(clock)} \ {f.day : f \in Of("BAR")} :
       stored' = stored \union {BarFact(clock, day)}
  /\ UNCHANGED <<clock, settings, runs, decider, intents>>

\* A new configuration is loaded: a kill switch, SHADOW as the provider, or both gone.
Reload ==
  /\ Write
  /\ settings' = [version |-> settings.version + 1, live |-> ~settings.live]
  /\ UNCHANGED <<clock, runs, stored, decider, intents>>

-----------------------------------------------------------------------------
(* Queueing and claiming.                                                  *)

RunKey(trigger, asOf, dry) == <<trigger, asOf, dry>>
KeyOf(r) == RunKey(r.trigger, r.asOf, r.dry)

\* The same trigger, minute and mode is the same run, whoever asks.
StartRun(trigger, asOf, dryAsked) ==
  LET dry == dryAsked \/ ~settings.live IN
  /\ Len(runs) < MaxRuns
  /\ trigger = "PRE_OPEN" => Trading(asOf)
  /\ \A r \in ToSet(runs) : KeyOf(r) # RunKey(trigger, asOf, dry)
  /\ runs' = Append(runs, [trigger |-> trigger, asOf |-> asOf, dry |-> dry, status |-> "QUEUED",
                           version |-> settings.version, token |-> 0, deadline |-> 0])
  /\ UNCHANGED <<clock, settings, stored, decider, intents, writes>>

Claimable(r) == r.status = "QUEUED" \/ (r.status = "RUNNING" /\ r.deadline < clock)

\* The first run that is queued or whose lease is over.
ProcessNextDecision(w) ==
  /\ At(w, "idle")
  /\ \E n \in DOMAIN runs :
       /\ Claimable(runs[n]) /\ \A k \in 1..(n - 1) : ~Claimable(runs[k])
       /\ runs' = [runs EXCEPT ![n].status = "RUNNING", ![n].token = @ + 1,
                               ![n].deadline = clock + Lease]
       /\ Becomes(w, [Idle EXCEPT !.run = n, !.token = runs[n].token + 1, !.step = "config"])
  /\ UNCHANGED <<clock, settings, stored, intents, writes>>

\* Mutant: whoever holds the run may end it.
HoldsByStatus(w, strictly) == Run(w).status = "RUNNING"

\* The fence of every end of a claim; the transaction asks for time to be left.
Holds(w, strictly) ==
  /\ Run(w).status = "RUNNING" /\ Run(w).token = decider[w].token
  /\ Run(w).deadline > clock \/ (~strictly /\ Run(w).deadline = clock)

FinishClaim(w, status) ==
  runs' = IF Holds(w, FALSE) THEN [runs EXCEPT ![decider[w].run].status = status] ELSE runs

\* A failed call, a refused answer or a lost claim: FAILED if the run is still held.
Fails(w) ==
  /\ ~At(w, "idle")
  /\ FinishClaim(w, "FAILED")
  /\ Becomes(w, Idle)
  /\ UNCHANGED <<clock, settings, stored, intents, writes>>

\* A run queued under another configuration is refused; the mode of the rest of
\* the decision is the one read here.
CheckConfig(w) ==
  /\ At(w, "config")
  /\ Run(w).version = settings.version
  /\ Becomes(w, [decider[w] EXCEPT !.step = "scan", !.shadow = Run(w).dry \/ ~settings.live])
  /\ UNCHANGED <<clock, settings, runs, stored, intents, writes>>

-----------------------------------------------------------------------------
(* The agent's calls of the tools, each at its own moment.                 *)

\* Mutant: only the recommendation's date is bounded.
VisibleByDate(f, asOf) == f.day <= Day(asOf) /\ f.day + Lookback > Day(asOf)

\* What the recommendations tool shows for a moment.
Visible(f, asOf) ==
  /\ f.at <= asOf
  /\ f.day <= Day(asOf) /\ f.day + Lookback > Day(asOf)

Moves(w, step, facts) ==
  /\ Becomes(w, [decider[w] EXCEPT !.step = step, !.basis = @ \union facts])
  /\ UNCHANGED <<clock, settings, runs, stored, intents, writes>>

\* One page of the candidates, by descending id below the cursor, until one is empty.
ScanCandidates(w) ==
  /\ At(w, "scan")
  /\ LET rows == {f \in Of("EVENT") : Visible(f, AsOf(w))
                                      /\ (decider[w].cursor > 0 => f.id < decider[w].cursor)}
     IN \/ rows = {} /\ Moves(w, "market", {})
        \/ \E page \in SUBSET rows : \E last \in page :
             /\ \A f \in page : last.id <= f.id
             /\ \A f \in rows \ page : f.id < last.id
             /\ Becomes(w, [decider[w] EXCEPT !.step = "listing", !.cursor = last.id, !.page = page,
                                              !.basis = @ \union page])
             /\ UNCHANGED <<clock, settings, runs, stored, intents, writes>>

\* The rows of the page, one after another: the security's listing date and, if that
\* is recent, its days so far, as they are stored now; then the plan that the row
\* names, if it is still there.  What has no price limit yet may be left out.
CandidateItem(w) ==
  /\ At(w, "listing")
  /\ \E row \in decider[w].page :
       LET left == decider[w].page \ {row} IN
       /\ \A f \in left : f.id < row.id
       /\ \E shown \in BOOLEAN :
            Becomes(w, [decider[w] EXCEPT
              !.step = IF left = {} THEN "scan" ELSE "listing", !.page = left,
              !.basis = @ \union {ListingFact}
                          \union {p \in Of("PLAN") : shown /\ p.id = row.id},
              !.found = IF shown THEN @ \union {row.id} ELSE @])
  /\ UNCHANGED <<clock, settings, runs, stored, intents, writes>>

\* A moment of a session that is now, or nearly: real-time quotes are required.
Realtime(asOf) ==
  /\ Trading(asOf) /\ OfDay(asOf) \in Opening..Closing
  /\ clock <= asOf + Fresh /\ asOf <= clock

\* A quote of now, and never the last close in its stead; else the last close of
\* a day before.  Without a price nothing is bought.
MarketSnapshots(w) ==
  /\ At(w, "market")
  /\ LET closes == {f \in Of("BAR") : f.day < Day(AsOf(w))} IN
     \/ Realtime(AsOf(w)) /\ Moves(w, "history", {QuoteFact(clock)})
     \/ /\ ~Realtime(AsOf(w))
        /\ \E last \in closes : (\A f \in closes : f.day <= last.day) /\ Moves(w, "history", {last})
     \/ /\ Realtime(AsOf(w)) \/ closes = {}
        /\ Becomes(w, [decider[w] EXCEPT !.step = "answer", !.found = {}])
        /\ UNCHANGED <<clock, settings, runs, stored, intents, writes>>

\* Complete bars only, and only if the last of them is the last trading day's.
DailyHistory(w) ==
  /\ At(w, "history")
  /\ LET bars == {f \in Of("BAR") : f.day < Day(AsOf(w))}
         previous == PreviousOpen(AsOf(w))
     IN  IF previous # {} /\ \E f \in bars : f.day = Max(previous)
           THEN Moves(w, "record", bars)
           ELSE /\ Becomes(w, [decider[w] EXCEPT !.step = "answer", !.found = {}])
                /\ UNCHANGED <<clock, settings, runs, stored, intents, writes>>

\* The blogger's record, from evaluations that were over by then.
BloggerPerformance(w) ==
  /\ At(w, "record")
  /\ Moves(w, "answer", {f \in Of("METRIC") : f.at <= AsOf(w) /\ f.day < Day(AsOf(w))})

-----------------------------------------------------------------------------
(* The answer.                                                             *)

\* Before the opening an intent stands until the same moment, later for a while.
ValidUntil(asOf) ==
  IF OfDay(asOf) < Opening THEN Day(asOf) * DayLength + Opening ELSE asOf + 1
IntentKey(e, asOf) == <<e, Day(asOf), ValidUntil(asOf)>>

NewIntent(w, e) ==
  [key |-> IntentKey(e, AsOf(w)), run |-> decider[w].run, token |-> decider[w].token,
   basis |-> decider[w].basis, execution |-> IF decider[w].shadow THEN "SHADOW_READY" ELSE "READY"]

\* The strategy buys some of what it found, and some of its intents are valid.  One
\* transaction stores, under the fence, those that are not there yet, and ends the
\* run; what is refused makes the success a partial one.  An answer that is no
\* answer fails.
PersistIntents(w) ==
  /\ At(w, "answer") /\ Holds(w, TRUE)
  /\ \E valid \in SUBSET decider[w].found, status \in {"SUCCEEDED", "PARTIAL"} :
       /\ intents' = intents \union
            {NewIntent(w, e) : e \in {e \in valid : \A i \in intents : i.key # IntentKey(e, AsOf(w))}}
       /\ status = "PARTIAL" => valid # decider[w].found
       /\ FinishClaim(w, status)
  /\ Becomes(w, Idle)
  /\ UNCHANGED <<clock, settings, stored, writes>>

Next ==
  \/ Tick \/ Recommend \/ Restate \/ Evaluate \/ SyncBar \/ Reload
  \/ \E trigger \in Triggers, asOf \in {t \in Moments : t <= clock}, dry \in BOOLEAN : StartRun(trigger, asOf, dry)
  \/ \E w \in Deciders :
       \/ ProcessNextDecision(w) \/ CheckConfig(w) \/ ScanCandidates(w) \/ CandidateItem(w)
       \/ MarketSnapshots(w) \/ DailyHistory(w) \/ BloggerPerformance(w)
       \/ PersistIntents(w) \/ Fails(w)

Spec == Init /\ [][Next]_vars

-----------------------------------------------------------------------------
(* Properties.                                                             *)

\* What could be known at a moment: written by then, and about what was over by
\* then; a quote may be as old as a quote may be.
KnownAt(f, asOf) ==
  CASE f.kind = "EVENT"  -> f.at <= asOf /\ f.day <= Day(asOf)
    [] f.kind = "PLAN"   -> f.at <= asOf
    [] f.kind = "METRIC" -> f.at <= asOf /\ f.day < Day(asOf)
    [] f.kind = "BAR"    -> f.day < Day(asOf)
    [] f.kind = "QUOTE"  -> f.at <= asOf + Fresh
    [] OTHER -> FALSE

\* However late a run is claimed, how often its claim is lost and whatever is
\* written while the agent reads, an intent rests on no recommendation, plan,
\* evaluation or price that was not known at the moment the run decides for.  The
\* listing date of a security and its days since are read without such a bound
\* (tools.go:58-71), and are what the property excepts.
NoLookAhead ==
  \A i \in intents : \A f \in i.basis : f.kind # "LISTING" => KnownAt(f, runs[i.run].asOf)

\* All intents of a run are of the one claim that ended it, with success; a key
\* is decided once over all runs; and no intent of a run that was queued as dry
\* can be executed, whatever the configuration has become.
DecidedOnce ==
  \A i \in intents :
    /\ runs[i.run].status \in {"SUCCEEDED", "PARTIAL"} /\ i.token = runs[i.run].token
    /\ \A j \in intents : j.key = i.key => j = i
    /\ runs[i.run].dry => i.execution = "SHADOW_READY"

=============================================================================
