---------------------------- MODULE Parts_proofs ----------------------------
(***************************************************************************)
(* The parts that MCParts composes.  Decision runs: a decision rests on    *)
(* what was known at its moment, and is taken once, for any number of      *)
(* workers, runs, events and writes to the tables.  The security master:   *)
(* after a refresh that nothing disturbed the master is the provider's     *)
(* list, however many refreshes overlapped, failed or fell back before.    *)
(* The reports: what they count of the same rows is the same, whatever     *)
(* rows there are.                                                         *)
(***************************************************************************)
EXTENDS Parts, Integers, FiniteSetTheorems, SequenceTheorems, TLAPS

USE DecisionAssumption

-----------------------------------------------------------------------------
(* Types.                                                                  *)

Statuses == {"QUEUED", "RUNNING", "SUCCEEDED", "PARTIAL", "FAILED"}
RunRecords == [trigger: Triggers, asOf: Nat, dry: BOOLEAN, status: Statuses, version: Nat,
               token: Nat, deadline: Nat]
Facts == [kind: {"EVENT", "PLAN", "LISTING", "METRIC", "BAR", "QUOTE"}, id: Nat, at: Int, day: Int]
Steps == {"idle", "config", "scan", "listing", "market", "history", "record", "answer"}
DeciderRecords ==
  [run: Nat \union {NoDecision}, token: Nat, step: Steps, cursor: Nat,
   page: SUBSET Facts, found: SUBSET Nat, basis: SUBSET Facts, shadow: BOOLEAN]
IntentRecords ==
  [key: Nat \X Nat \X Nat, run: Nat, token: Nat, basis: SUBSET Facts,
   execution: {"SHADOW_READY", "READY"}]

TypeOK ==
  /\ clock \in Nat /\ writes \in Nat
  /\ settings \in [version: Nat, live: BOOLEAN]
  /\ runs \in Seq(RunRecords)
  /\ stored \subseteq Facts
  /\ decider \in [Deciders -> DeciderRecords]
  /\ intents \subseteq IntentRecords

-----------------------------------------------------------------------------
(* The inductive invariant.                                                *)

Busy(w) == ~At(w, "idle")

\* A worker that is not idle has a run.
RunsExist == \A w \in Deciders : Busy(w) => decider[w].run \in DOMAIN runs

\* A plan is not older than its event, and no older than what was read of it: its
\* event is written with it and later again, and another plan has another id.
RowKnown(row, asOf) ==
  /\ row.id < NextId + writes /\ row.at <= asOf
  /\ \A p \in stored : p.kind = "PLAN" /\ p.id = row.id => p.at <= row.at

PlansKnown ==
  /\ \A f \in stored : f.kind \in {"EVENT", "PLAN"} => RowKnown(f, clock)
  /\ \A w \in Deciders : Busy(w) => \A row \in decider[w].page : RowKnown(row, AsOf(w))

Known(f, asOf) == f.kind # "LISTING" => KnownAt(f, asOf)

\* What an agent has read so far was known at the moment of its run.
BasisKnown == \A w \in Deciders : Busy(w) => \A f \in decider[w].basis : Known(f, AsOf(w))

\* A worker past the configuration's check decides a dry run in the shadow.
DryIsShadow == \A w \in Deciders : Busy(w) /\ ~At(w, "config") /\ Run(w).dry => decider[w].shadow

IntentsHaveRuns == \A i \in intents : i.run \in DOMAIN runs

IndInv ==
  /\ TypeOK /\ RunsExist /\ PlansKnown /\ BasisKnown /\ DryIsShadow
  /\ IntentsHaveRuns /\ NoLookAhead /\ DecidedOnce

-----------------------------------------------------------------------------
(* What a step does to the runs and to one worker.                         *)

Over(r) == r.status \in {"SUCCEEDED", "PARTIAL", "FAILED"}

\* A run keeps its moment and its mode, and when it is over everything.
RunsKept ==
  /\ runs' \in Seq(RunRecords) /\ Len(runs) <= Len(runs')
  /\ \A n \in DOMAIN runs :
       /\ runs'[n].asOf = runs[n].asOf /\ runs'[n].dry = runs[n].dry
       /\ Over(runs[n]) => runs'[n] = runs[n]

OthersStay(w) == \A v \in Deciders \ {w} : decider'[v] = decider[v]

LEMMA IdleType == Idle \in DeciderRecords /\ Idle.step = "idle" /\ Idle.basis = {} /\ Idle.page = {}
  BY DEF Idle, DeciderRecords, Steps

LEMMA TimeFact == \A t \in Nat : Day(t) \in Nat /\ OfDay(t) \in Nat
  BY DEF Day, OfDay

LEMMA BecomesFact ==
  ASSUME TypeOK, NEW w \in Deciders, NEW new, Becomes(w, new)
  PROVE  decider'[w] = new /\ OthersStay(w) /\ (new \in DeciderRecords => decider' \in [Deciders -> DeciderRecords])
  BY DEF TypeOK, Becomes, OthersStay

\* Writing one run.
LEMMA WriteRun ==
  ASSUME TypeOK, NEW n \in DOMAIN runs, NEW r \in RunRecords,
         runs' = [runs EXCEPT ![n] = r],
         r.asOf = runs[n].asOf, r.dry = runs[n].dry, ~Over(runs[n])
  PROVE  RunsKept /\ Len(runs') = Len(runs) /\ runs'[n] = r
  <1>1. /\ runs \in Seq(RunRecords) /\ Len(runs) \in Nat /\ DOMAIN runs = 1..Len(runs)
        /\ \A k \in 1..Len(runs) : runs[k] \in RunRecords
    BY DEF TypeOK
  <1>2. runs' \in Seq(RunRecords) /\ Len(runs') = Len(runs)
    BY <1>1
  <1>3. \A k \in DOMAIN runs : runs'[k] = IF k = n THEN r ELSE runs[k]
    BY <1>1
  <1> QED
    BY <1>1, <1>2, <1>3 DEF RunsKept

LEMMA RunType ==
  ASSUME TypeOK, NEW n \in DOMAIN runs
  PROVE  runs[n] \in RunRecords /\ n \in Nat
  BY DEF TypeOK

\* The end of a claim.
LEMMA FinishFact ==
  ASSUME TypeOK, RunsExist, NEW w \in Deciders, Busy(w),
         NEW status \in {"SUCCEEDED", "PARTIAL", "FAILED"}, FinishClaim(w, status)
  PROVE  /\ RunsKept
         /\ Holds(w, FALSE) =>
              /\ runs'[decider[w].run].status = status
              /\ runs'[decider[w].run].token = decider[w].token
              /\ runs[decider[w].run].status = "RUNNING"
  <1> DEFINE n == decider[w].run
             r == [runs[n] EXCEPT !.status = status]
  <1>1. n \in DOMAIN runs /\ runs[n] \in RunRecords
    BY RunType DEF RunsExist
  <1>2. CASE Holds(w, FALSE)
    <2>1. runs' = [runs EXCEPT ![n].status = status] /\ runs[n].status = "RUNNING"
          /\ runs[n].token = decider[w].token
      BY <1>2 DEF FinishClaim, Holds, Run
    <2>2. r \in RunRecords /\ r.asOf = runs[n].asOf /\ r.dry = runs[n].dry
          /\ r.status = status /\ r.token = runs[n].token
      BY <1>1 DEF RunRecords, Statuses
    <2>3. runs' = [runs EXCEPT ![n] = r]
      BY <1>1, <2>1
    <2>4. ~Over(runs[n])
      BY <2>1 DEF Over
    <2> HIDE DEF r
    <2> QED
      BY <1>1, <2>1, <2>2, <2>3, <2>4, WriteRun
  <1>3. CASE ~Holds(w, FALSE)
    <2>1. runs' = runs
      BY <1>3 DEF FinishClaim
    <2>2. runs \in Seq(RunRecords) /\ Len(runs) \in Nat
      BY DEF TypeOK
    <2>3. RunsKept
      BY <2>1, <2>2 DEF RunsKept
    <2> QED
      BY <1>3, <2>3, Zenon
  <1> QED
    BY <1>2, <1>3

\* What a worker reads is kept as it was read, and the invariant's other parts do not
\* depend on what else a step changes.
LEMMA IntentsKeep ==
  ASSUME TypeOK, IntentsHaveRuns, NoLookAhead, DecidedOnce, RunsKept, UNCHANGED intents
  PROVE  IntentsHaveRuns' /\ NoLookAhead' /\ DecidedOnce'
  <1>1. \A n \in DOMAIN runs : n \in DOMAIN runs'
    BY DEF TypeOK, RunsKept
  <1>2. \A i \in intents : i.run \in DOMAIN runs /\ Over(runs[i.run])
    BY DEF IntentsHaveRuns, DecidedOnce, Over
  <1>3. \A i \in intents : runs'[i.run] = runs[i.run]
    BY <1>2 DEF RunsKept
  <1>4. IntentsHaveRuns' /\ DecidedOnce'
    BY <1>1, <1>2, <1>3 DEF IntentsHaveRuns, DecidedOnce
  <1>5. NoLookAhead'
    BY <1>3 DEF NoLookAhead, Known, KnownAt
  <1> QED
    BY <1>4, <1>5

LEMMA DecidersKeep ==
  ASSUME TypeOK, RunsExist, BasisKnown, DryIsShadow, RunsKept, NEW w, OthersStay(w),
         w \in Deciders /\ decider'[w].step # "idle" =>
           /\ decider'[w].run \in DOMAIN runs'
           /\ \A f \in decider'[w].basis : Known(f, runs'[decider'[w].run].asOf)
           /\ decider'[w].step # "config" /\ runs'[decider'[w].run].dry => decider'[w].shadow
  PROVE  RunsExist' /\ BasisKnown' /\ DryIsShadow'
  <1>1. ASSUME NEW v \in Deciders, v # w, decider'[v].step # "idle"
        PROVE  /\ decider'[v].run \in DOMAIN runs'
               /\ \A f \in decider'[v].basis : Known(f, runs'[decider'[v].run].asOf)
               /\ decider'[v].step # "config" /\ runs'[decider'[v].run].dry => decider'[v].shadow
    <2>1. decider'[v] = decider[v] /\ Busy(v)
      BY <1>1 DEF OthersStay, Busy, At
    <2>2. decider[v].run \in DOMAIN runs
      BY <2>1 DEF RunsExist
    <2>3. /\ decider[v].run \in DOMAIN runs'
          /\ runs'[decider[v].run].asOf = AsOf(v) /\ runs'[decider[v].run].dry = Run(v).dry
      BY <2>2 DEF RunsKept, TypeOK, AsOf, Run
    <2> QED
      BY <2>1, <2>3 DEF BasisKnown, DryIsShadow, At
  <1>2. \A v \in Deciders : decider'[v].step # "idle" =>
               /\ decider'[v].run \in DOMAIN runs'
               /\ \A f \in decider'[v].basis : Known(f, runs'[decider'[v].run].asOf)
               /\ decider'[v].step # "config" /\ runs'[decider'[v].run].dry => decider'[v].shadow
    BY <1>1
  <1> QED
    BY <1>2 DEF RunsExist, BasisKnown, DryIsShadow, Busy, At, AsOf, Run, Known, KnownAt

LEMMA PagesKeep ==
  ASSUME TypeOK, RunsExist, PlansKnown, RunsKept, UNCHANGED <<clock, stored, writes>>,
         NEW w, OthersStay(w),
         w \in Deciders /\ decider'[w].step # "idle" =>
           \A row \in decider'[w].page : RowKnown(row, runs'[decider'[w].run].asOf)
  PROVE  PlansKnown'
  <1>1. ASSUME NEW v \in Deciders, v # w, decider'[v].step # "idle",
               NEW row \in decider'[v].page
        PROVE  RowKnown(row, runs'[decider'[v].run].asOf)
    <2>1. decider'[v] = decider[v] /\ Busy(v)
      BY <1>1 DEF OthersStay, Busy, At
    <2>2. decider[v].run \in DOMAIN runs
      BY <2>1 DEF RunsExist
    <2>3. runs'[decider[v].run].asOf = AsOf(v)
      BY <2>2 DEF RunsKept, AsOf, Run
    <2> QED
      BY <1>1, <2>1, <2>3 DEF PlansKnown
  <1>2. \A f \in stored : f.kind \in {"EVENT", "PLAN"} => RowKnown(f, clock)
    BY DEF PlansKnown
  <1> QED
    BY <1>1, <1>2 DEF PlansKnown, RowKnown, Busy, At, AsOf, Run

-----------------------------------------------------------------------------
(* The steps.                                                              *)

\* Writing the tables: what is new has a new id, or is an event as of now.
LEMMA TablesKeep ==
  ASSUME TypeOK, PlansKnown, UNCHANGED <<runs, decider>>,
         clock' \in Nat, clock <= clock', writes' \in Nat, writes <= writes',
         \A f \in stored' \ stored :
           \/ f.kind \notin {"EVENT", "PLAN"}
           \/ f.id = NextId + writes /\ writes' = writes + 1 /\ f.at = clock
           \/ f.kind = "EVENT" /\ f.at = clock /\ \E e \in stored : e.kind = "EVENT" /\ e.id = f.id
  PROVE  PlansKnown'
  <1>0. /\ clock \in Nat /\ writes \in Nat /\ NextId \in Nat /\ stored \subseteq Facts
        /\ \A f \in stored : f.id \in Nat /\ f.at \in Int
    BY DEF TypeOK, Facts
  <1>1. ASSUME NEW p \in stored', p.kind = "PLAN"
        PROVE  \/ p \in stored /\ p.id < NextId + writes /\ p.at <= clock
               \/ p.id = NextId + writes /\ writes' = writes + 1 /\ p.at = clock
    <2>1. CASE p \in stored
      BY <1>1, <2>1 DEF PlansKnown, RowKnown
    <2>2. CASE p \notin stored
      BY <1>1, <2>2
    <2> QED
      BY <2>1, <2>2
  <1>2. ASSUME NEW row, NEW asOf \in Int, RowKnown(row, asOf), row.id \in Nat
        PROVE  /\ row.id < NextId + writes'
               /\ \A p \in stored' : p.kind = "PLAN" /\ p.id = row.id => p.at <= row.at
    <2>1. row.id < NextId + writes /\ row.id < NextId + writes'
      BY <1>0, <1>2 DEF RowKnown
    <2>2. ASSUME NEW p \in stored', p.kind = "PLAN", p.id = row.id PROVE p.at <= row.at
      <3>1. p \in stored
        BY <1>0, <1>1, <2>1, <2>2
      <3> QED
        BY <1>2, <2>2, <3>1 DEF RowKnown
    <2> QED
      BY <2>1, <2>2
  <1>3. ASSUME NEW f \in stored', f.kind \in {"EVENT", "PLAN"}
        PROVE  /\ f.id < NextId + writes' /\ f.at <= clock'
               /\ \A p \in stored' : p.kind = "PLAN" /\ p.id = f.id => p.at <= f.at
    <2>1. CASE f \in stored
      <3>1. RowKnown(f, clock) /\ f.at \in Int /\ f.id \in Nat
        BY <1>0, <1>3, <2>1 DEF PlansKnown
      <3>2. f.at <= clock'
        BY <1>0, <3>1 DEF RowKnown
      <3> QED
        BY <1>0, <1>2, <3>1, <3>2
    <2>2. CASE f.id = NextId + writes /\ writes' = writes + 1 /\ f.at = clock
      <3>1. f.id < NextId + writes' /\ f.at <= clock'
        BY <1>0, <2>2
      <3>2. \A p \in stored' : p.kind = "PLAN" => p.at <= clock
        BY <1>0, <1>1
      <3> QED
        BY <2>2, <3>1, <3>2
    <2>3. CASE f.kind = "EVENT" /\ f.at = clock /\ \E e \in stored : e.kind = "EVENT" /\ e.id = f.id
      <3>1. f.id < NextId + writes /\ f.id \in Nat
        BY <1>0, <2>3 DEF PlansKnown, RowKnown
      <3>2. f.id < NextId + writes' /\ f.at <= clock'
        BY <1>0, <2>3, <3>1
      <3>3. \A p \in stored' : p.kind = "PLAN" => p.at <= clock
        BY <1>0, <1>1
      <3> QED
        BY <2>3, <3>2, <3>3
    <2> QED
      BY <1>3, <2>1, <2>2, <2>3
  <1>4. ASSUME NEW w \in Deciders, Busy(w), NEW row \in decider[w].page
        PROVE  /\ row.id < NextId + writes' /\ row.at <= AsOf(w)
               /\ \A p \in stored' : p.kind = "PLAN" /\ p.id = row.id => p.at <= row.at
    <2>1. RowKnown(row, AsOf(w))
      BY <1>4 DEF PlansKnown
    <2>2. row.id \in Nat
      BY <1>4 DEF TypeOK, DeciderRecords, Facts
    <2>3. row.id < NextId + writes /\ row.id < NextId + writes'
      BY <1>0, <2>1, <2>2 DEF RowKnown
    <2>4. ASSUME NEW p \in stored', p.kind = "PLAN", p.id = row.id PROVE p.at <= row.at
      <3>1. p \in stored
        BY <1>0, <1>1, <2>2, <2>3, <2>4
      <3> QED
        BY <2>1, <2>4, <3>1 DEF RowKnown
    <2> QED
      BY <2>1, <2>3, <2>4 DEF RowKnown
  <1> QED
    BY <1>3, <1>4 DEF PlansKnown, RowKnown, Busy, At, AsOf, Run

LEMMA WorldKeeps ==
  ASSUME IndInv, UNCHANGED <<runs, decider, intents>>,
         (clock' = clock + 1 /\ writes' = writes) \/ (clock' = clock /\ writes' = writes + 1),
         settings' \in [version: Nat, live: BOOLEAN], stored' \subseteq Facts,
         \A f \in stored' \ stored :
           \/ f.kind \notin {"EVENT", "PLAN"}
           \/ f.id = NextId + writes /\ writes' = writes + 1 /\ f.at = clock
           \/ f.kind = "EVENT" /\ f.at = clock /\ \E e \in stored : e.kind = "EVENT" /\ e.id = f.id
  PROVE  IndInv'
  <1>1. TypeOK /\ clock \in Nat /\ writes \in Nat
    BY DEF IndInv, TypeOK
  <1>2. clock' \in Nat /\ clock <= clock' /\ writes' \in Nat /\ writes <= writes'
    BY <1>1
  <1>3. TypeOK'
    BY <1>1, <1>2 DEF TypeOK
  <1>4. PlansKnown'
    BY <1>1, <1>2, TablesKeep DEF IndInv
  <1> QED
    BY <1>3, <1>4
    DEF IndInv, RunsExist, BasisKnown, DryIsShadow, IntentsHaveRuns, NoLookAhead, DecidedOnce,
        Busy, At, AsOf, Run, Known, KnownAt

\* The world goes on: no run, worker or intent changes.
LEMMA WorldStep ==
  ASSUME IndInv, Tick \/ Recommend \/ Restate \/ Evaluate \/ SyncBar \/ Reload
  PROVE  IndInv'
  <1>0. UNCHANGED <<runs, decider, intents>>
    BY DEF Tick, Evaluate, SyncBar, Reload, Recommend, Restate
  <1>1. /\ TypeOK /\ clock \in Nat /\ writes \in Nat /\ settings \in [version: Nat, live: BOOLEAN]
        /\ stored \subseteq Facts /\ NextId \in Nat
    BY DEF IndInv, TypeOK
  <1>2. Day(clock) \in Nat /\ Day(clock) - 1 \in Int
    <2>1. Day(clock) \in Nat
      BY <1>1, TimeFact
    <2> QED
      BY <2>1
  <1>3. CASE Tick
    <2>1. clock' = clock + 1 /\ UNCHANGED <<settings, stored, writes>>
      BY <1>3 DEF Tick
    <2>2. stored' \subseteq Facts /\ stored' \ stored = {} /\ settings' \in [version: Nat, live: BOOLEAN]
      BY <1>1, <2>1
    <2>3. (clock' = clock + 1 /\ writes' = writes) \/ (clock' = clock /\ writes' = writes + 1)
      BY <2>1
    <2> QED
      BY <1>0, <2>2, <2>3, WorldKeeps
  <1>4. CASE Evaluate
    <2>1. PICK date \in {Day(clock), Day(clock) - 1} :
            stored' = (stored \ Of("METRIC")) \union {MetricFact(clock, date)}
      BY <1>4 DEF Evaluate
    <2>2. MetricFact(clock, date) \in Facts /\ MetricFact(clock, date).kind = "METRIC"
      BY <1>1, <1>2 DEF MetricFact, Facts
    <2>3. writes' = writes + 1 /\ UNCHANGED <<clock, settings>>
      BY <1>4 DEF Evaluate, Write
    <2>4. stored' \subseteq Facts /\ \A f \in stored' \ stored : f.kind \notin {"EVENT", "PLAN"}
      BY <1>1, <2>1, <2>2
    <2> QED
      BY <1>0, <1>1, <2>3, <2>4, WorldKeeps
  <1>5. CASE SyncBar
    <2>1. PICK date \in OpenDays : stored' = stored \union {BarFact(clock, date)}
      BY <1>5 DEF SyncBar
    <2>2. BarFact(clock, date) \in Facts /\ BarFact(clock, date).kind = "BAR"
      <3>1. date \in Nat /\ clock \in Nat
        BY <1>1, <2>1
      <3>2. date \in Int /\ clock \in Int /\ 0 \in Nat
        BY <3>1
      <3> QED
        BY <3>2 DEF BarFact, Facts
    <2>3. writes' = writes + 1 /\ UNCHANGED <<clock, settings>>
      BY <1>5 DEF SyncBar, Write
    <2>4. stored' \subseteq Facts /\ \A f \in stored' \ stored : f.kind \notin {"EVENT", "PLAN"}
      BY <1>1, <2>1, <2>2
    <2> QED
      BY <1>0, <1>1, <2>3, <2>4, WorldKeeps
  <1>6. CASE Reload
    <2>1. writes' = writes + 1 /\ UNCHANGED <<clock, stored>>
      BY <1>6 DEF Reload, Write
    <2>2. settings' \in [version: Nat, live: BOOLEAN]
      BY <1>1, <1>6 DEF Reload
    <2> QED
      BY <1>0, <1>1, <2>1, <2>2, WorldKeeps
  <1>7. CASE Recommend
    <2> DEFINE id == NextId + writes
    <2>1. PICK date \in {Day(clock), Day(clock) - 1} :
            \/ stored' \subseteq stored
            \/ \E kept \in SUBSET stored :
                 stored' = kept \union {EventFact(id, clock, date), PlanFact(id, clock, date)}
      BY <1>7 DEF Recommend
    <2>2. writes' = writes + 1 /\ UNCHANGED <<clock, settings>>
      BY <1>7 DEF Recommend, Write
    <2>3. \A f \in stored' \ stored : f = EventFact(id, clock, date) \/ f = PlanFact(id, clock, date)
      BY <2>1
    <2>4. id \in Nat /\ clock \in Int /\ date \in Int
      BY <1>1, <1>2
    <2>5. \A f \in {EventFact(id, clock, date), PlanFact(id, clock, date)} :
            f \in Facts /\ f.id = id /\ f.at = clock
      BY <2>4 DEF EventFact, PlanFact, Facts
    <2>6. stored' \subseteq Facts
      BY <1>1, <2>1, <2>5
    <2>7. \A f \in stored' \ stored : f.id = NextId + writes /\ f.at = clock
      BY <2>3, <2>5
    <2> QED
      BY <1>0, <1>1, <2>2, <2>6, <2>7, WorldKeeps
  <1>8. CASE Restate
    <2>1. PICK f \in Of("EVENT") :
            stored' = (stored \ {f}) \union {EventFact(f.id, clock, f.day)}
      BY <1>8 DEF Restate
    <2>2. writes' = writes + 1 /\ UNCHANGED <<clock, settings>>
      BY <1>8 DEF Restate, Write
    <2>3. f \in stored /\ f.kind = "EVENT" /\ f.id \in Nat /\ f.day \in Int /\ clock \in Int
      BY <1>1 DEF Of, Facts
    <2> DEFINE new == EventFact(f.id, clock, f.day)
    <2>4. new \in Facts /\ new.kind = "EVENT" /\ new.at = clock /\ new.id = f.id
      BY <2>3 DEF EventFact, Facts
    <2> HIDE DEF new
    <2>5. stored' = (stored \ {f}) \union {new}
      BY <2>1 DEF new
    <2>6. stored' \subseteq Facts /\ \A g \in stored' \ stored : g = new
      BY <1>1, <2>4, <2>5
    <2>7. \A g \in stored' \ stored :
            g.kind = "EVENT" /\ g.at = clock /\ \E e \in stored : e.kind = "EVENT" /\ e.id = g.id
      BY <2>3, <2>4, <2>6
    <2> QED
      BY <1>0, <1>1, <2>2, <2>6, <2>7, WorldKeeps
  <1> QED
    BY <1>3, <1>4, <1>5, <1>6, <1>7, <1>8

\* A run is queued behind the others.
LEMMA QueueStep ==
  ASSUME IndInv, NEW trigger \in Triggers, NEW asOf \in Moments, NEW dryAsked \in BOOLEAN,
         StartRun(trigger, asOf, dryAsked)
  PROVE  IndInv'
  <1> DEFINE r == [trigger |-> trigger, asOf |-> asOf, dry |-> dryAsked \/ ~settings.live,
                   status |-> "QUEUED", version |-> settings.version, token |-> 0, deadline |-> 0]
  <1>0. TypeOK
    BY DEF IndInv
  <1>1. r \in RunRecords
    BY <1>0 DEF RunRecords, Statuses, TypeOK
  <1>2. runs' = Append(runs, r) /\ UNCHANGED <<clock, settings, stored, decider, intents, writes>>
    BY DEF StartRun
  <1> HIDE DEF r
  <1>3. RunsKept
    BY <1>0, <1>1, <1>2 DEF RunsKept, TypeOK
  <1>4. TypeOK'
    BY <1>0, <1>2, <1>3 DEF TypeOK, RunsKept
  <1>5. IntentsHaveRuns' /\ NoLookAhead' /\ DecidedOnce'
    BY <1>2, <1>3, IntentsKeep DEF IndInv
  <1>6. RunsExist' /\ BasisKnown' /\ DryIsShadow'
    <2>1. ASSUME NEW w \in Deciders, decider'[w].step # "idle"
          PROVE  /\ decider'[w].run \in DOMAIN runs'
                 /\ \A f \in decider'[w].basis : Known(f, runs'[decider'[w].run].asOf)
                 /\ decider'[w].step # "config" /\ runs'[decider'[w].run].dry
                      => decider'[w].shadow
      <3>1. Busy(w) /\ decider'[w] = decider[w]
        BY <1>2, <2>1 DEF Busy, At
      <3>2. decider[w].run \in DOMAIN runs
        BY <3>1 DEF IndInv, RunsExist
      <3>3. /\ decider[w].run \in DOMAIN runs'
            /\ runs'[decider[w].run].asOf = AsOf(w) /\ runs'[decider[w].run].dry = Run(w).dry
        BY <1>0, <1>3, <3>2 DEF RunsKept, TypeOK, AsOf, Run
      <3> QED
        BY <3>1, <3>3 DEF IndInv, BasisKnown, DryIsShadow, At
    <2> QED
      BY <2>1 DEF RunsExist, BasisKnown, DryIsShadow, Busy, At, AsOf, Run, Known, KnownAt
  <1>7. PlansKnown'
    <2>1. OthersStay(0) /\ UNCHANGED <<clock, stored, writes, decider>>
      BY <1>2 DEF OthersStay
    <2>2. ASSUME NEW w \in Deciders, decider'[w].step # "idle", NEW row \in decider'[w].page
          PROVE  RowKnown(row, runs'[decider'[w].run].asOf)
      <3>1. Busy(w) /\ decider'[w] = decider[w]
        BY <1>2, <2>2 DEF Busy, At
      <3>2. decider[w].run \in DOMAIN runs
        BY <3>1 DEF IndInv, RunsExist
      <3>3. runs'[decider[w].run].asOf = AsOf(w)
        BY <1>3, <3>2 DEF RunsKept, AsOf, Run
      <3> QED
        BY <2>2, <3>1, <3>3 DEF IndInv, PlansKnown
    <2> QED
      BY <1>0, <1>3, <2>1, <2>2, PagesKeep DEF IndInv
  <1> QED
    BY <1>4, <1>5, <1>6, <1>7 DEF IndInv

\* A run is claimed, for the first time or after a lease.
LEMMA ClaimStep ==
  ASSUME IndInv, NEW w \in Deciders, ProcessNextDecision(w)
  PROVE  IndInv'
  <1>0. TypeOK
    BY DEF IndInv
  <1>1. PICK n \in DOMAIN runs :
          /\ Claimable(runs[n])
          /\ runs' = [runs EXCEPT ![n].status = "RUNNING", ![n].token = @ + 1,
                                  ![n].deadline = clock + Lease]
          /\ Becomes(w, [Idle EXCEPT !.run = n, !.token = runs[n].token + 1, !.step = "config"])
    BY DEF ProcessNextDecision
  <1> DEFINE r == [runs[n] EXCEPT !.status = "RUNNING", !.token = @ + 1,
                                  !.deadline = clock + Lease]
             new == [Idle EXCEPT !.run = n, !.token = runs[n].token + 1, !.step = "config"]
  <1>2. runs[n] \in RunRecords /\ n \in Nat /\ clock \in Nat /\ runs[n].token + 1 \in Nat
    <2>1. runs[n] \in RunRecords /\ n \in Nat /\ clock \in Nat
      BY <1>0, RunType DEF TypeOK
    <2> QED
      BY <2>1 DEF RunRecords
  <1>3. r \in RunRecords /\ r.asOf = runs[n].asOf /\ r.dry = runs[n].dry
    <2>1. clock + Lease \in Nat
      BY <1>2
    <2> QED
      BY <1>2, <2>1 DEF RunRecords, Statuses
  <1>4. ~Over(runs[n])
    BY <1>1 DEF Claimable, Over
  <1>5. runs' = [runs EXCEPT ![n] = r]
    BY <1>1
  <1>6. new \in DeciderRecords /\ new.run = n /\ new.step = "config" /\ new.basis = {} /\ new.page = {}
    BY <1>2, IdleType DEF Idle, DeciderRecords, Steps
  <1>7. Becomes(w, new)
    BY <1>1
  <1> HIDE DEF r, new
  <1>8. RunsKept /\ Len(runs') = Len(runs)
    BY <1>0, <1>3, <1>4, <1>5, WriteRun
  <1>9. decider'[w] = new /\ OthersStay(w) /\ decider' \in [Deciders -> DeciderRecords]
    BY <1>0, <1>6, <1>7, BecomesFact
  <1>10. UNCHANGED <<clock, settings, stored, intents, writes>>
    BY DEF ProcessNextDecision
  <1>11. TypeOK'
    BY <1>0, <1>8, <1>9, <1>10 DEF TypeOK, RunsKept
  <1>12. IntentsHaveRuns' /\ NoLookAhead' /\ DecidedOnce'
    BY <1>8, <1>10, IntentsKeep DEF IndInv
  <1>13. n \in DOMAIN runs'
    BY <1>0, <1>8 DEF TypeOK, RunsKept
  <1>14. RunsExist' /\ BasisKnown' /\ DryIsShadow'
    BY <1>6, <1>8, <1>9, <1>13, DecidersKeep DEF IndInv
  <1>15. PlansKnown'
    BY <1>0, <1>6, <1>8, <1>9, <1>10, PagesKeep DEF IndInv
  <1> QED
    BY <1>11, <1>12, <1>14, <1>15 DEF IndInv

\* A step of the agent or of its worker that leaves the tables alone.
LEMMA WorkStep ==
  ASSUME IndInv, NEW w \in Deciders, Busy(w), NEW new \in DeciderRecords, Becomes(w, new),
         UNCHANGED <<clock, settings, runs, stored, intents, writes>>,
         new.run = decider[w].run,
         \A f \in new.basis \ decider[w].basis : Known(f, AsOf(w)),
         \A row \in new.page \ decider[w].page : RowKnown(row, AsOf(w)),
         new.step # "config",
         Run(w).dry => new.shadow
  PROVE  IndInv'
  <1>0. TypeOK /\ decider[w].run \in DOMAIN runs
    BY DEF IndInv, RunsExist
  <1>1. decider'[w] = new /\ OthersStay(w) /\ decider' \in [Deciders -> DeciderRecords]
    BY <1>0, BecomesFact
  <1>2. RunsKept
    BY <1>0 DEF RunsKept, TypeOK
  <1>3. TypeOK'
    BY <1>0, <1>1 DEF TypeOK
  <1>4. IntentsHaveRuns' /\ NoLookAhead' /\ DecidedOnce'
    BY <1>2, IntentsKeep DEF IndInv
  <1>5. \A f \in new.basis : Known(f, AsOf(w))
    BY DEF IndInv, BasisKnown
  <1>6. RunsExist' /\ BasisKnown' /\ DryIsShadow'
    BY <1>0, <1>1, <1>2, <1>5, DecidersKeep DEF IndInv, AsOf, Run
  <1>7. PlansKnown'
    <2>1. \A row \in new.page : RowKnown(row, AsOf(w))
      BY DEF IndInv, PlansKnown
    <2> QED
      BY <1>0, <1>1, <1>2, <2>1, PagesKeep DEF IndInv, AsOf, Run
  <1> QED
    BY <1>3, <1>4, <1>6, <1>7 DEF IndInv

\* Each tool adds what was known at the run's moment.
LEMMA AgentStep ==
  ASSUME IndInv, NEW w \in Deciders,
         \/ CheckConfig(w) \/ ScanCandidates(w) \/ CandidateItem(w) \/ MarketSnapshots(w)
         \/ DailyHistory(w) \/ BloggerPerformance(w)
  PROVE  IndInv'
  <1> DEFINE d == decider[w]
  <1>0. /\ TypeOK /\ d \in DeciderRecords /\ stored \subseteq Facts /\ clock \in Nat
        /\ settings.live \in BOOLEAN
    BY DEF IndInv, TypeOK
  <1>1. Busy(w)
    BY DEF CheckConfig, ScanCandidates, CandidateItem, MarketSnapshots, DailyHistory,
           BloggerPerformance, Busy, At
  <1>2. d.run \in DOMAIN runs /\ Run(w) \in RunRecords
    BY <1>0, <1>1, RunType DEF IndInv, RunsExist, Run
  <1>3. AsOf(w) \in Nat /\ Run(w).dry \in BOOLEAN
    BY <1>2 DEF AsOf, RunRecords
  <1>4. ~At(w, "config") /\ Run(w).dry => d.shadow
    BY <1>1 DEF IndInv, DryIsShadow
  <1>5. ASSUME NEW step \in Steps \ {"config"}, NEW facts \in SUBSET Facts, ~At(w, "config"),
               \A f \in facts : Known(f, AsOf(w)), Moves(w, step, facts)
        PROVE  IndInv'
    <2> DEFINE new == [d EXCEPT !.step = step, !.basis = @ \union facts]
    <2>1. /\ new \in DeciderRecords /\ new.run = d.run /\ new.basis = d.basis \union facts
          /\ new.step = step /\ new.shadow = d.shadow /\ new.page = d.page
      BY <1>0 DEF DeciderRecords
    <2>2. Becomes(w, new) /\ UNCHANGED <<clock, settings, runs, stored, intents, writes>>
      BY <1>5 DEF Moves
    <2> HIDE DEF new
    <2>3. /\ \A f \in new.basis \ d.basis : Known(f, AsOf(w))
          /\ \A row \in new.page \ d.page : RowKnown(row, AsOf(w))
          /\ new.step # "config" /\ (Run(w).dry => new.shadow)
      BY <1>4, <1>5, <2>1
    <2> HIDE DEF d
    <2> QED
      BY <1>1, <2>1, <2>2, <2>3, WorkStep DEF d
  <1>6. ASSUME Becomes(w, [d EXCEPT !.step = "answer", !.found = {}]), ~At(w, "config"),
               UNCHANGED <<clock, settings, runs, stored, intents, writes>>
        PROVE  IndInv'
    <2> DEFINE new == [d EXCEPT !.step = "answer", !.found = {}]
    <2>1. /\ new \in DeciderRecords /\ new.run = d.run /\ new.basis = d.basis
          /\ new.step = "answer" /\ new.shadow = d.shadow /\ new.page = d.page
      BY <1>0 DEF DeciderRecords, Steps
    <2> HIDE DEF new
    <2>2. Becomes(w, new)
      BY <1>6 DEF new
    <2> HIDE DEF d
    <2> QED
      BY <1>1, <1>4, <1>6, <2>1, <2>2, WorkStep DEF d
  <1>7. CASE CheckConfig(w)
    <2> DEFINE new == [d EXCEPT !.step = "scan", !.shadow = Run(w).dry \/ ~settings.live]
    <2>1. /\ new \in DeciderRecords /\ new.run = d.run /\ new.basis = d.basis
          /\ new.page = d.page /\ new.step = "scan" /\ (Run(w).dry => new.shadow)
      BY <1>0, <1>3 DEF DeciderRecords, Steps
    <2>2. Becomes(w, new) /\ UNCHANGED <<clock, settings, runs, stored, intents, writes>>
      BY <1>7 DEF CheckConfig
    <2> HIDE DEF new, d
    <2> QED
      BY <1>1, <2>1, <2>2, WorkStep DEF d
  <1>8. CASE ScanCandidates(w)
    <2>1. ~At(w, "config") /\ ({} \in SUBSET Facts) /\ "market" \in Steps \ {"config"}
      BY <1>8 DEF ScanCandidates, At, Steps
    <2>2. CASE Moves(w, "market", {})
      BY <1>5, <2>1, <2>2
    <2> DEFINE rows == {f \in Of("EVENT") : /\ Visible(f, AsOf(w))
                                            /\ d.cursor > 0 => f.id < d.cursor}
    <2>3. ASSUME NEW page \in SUBSET rows, NEW last \in page,
                 Becomes(w, [d EXCEPT !.step = "listing", !.cursor = last.id, !.page = page,
                                      !.basis = @ \union page]),
                 UNCHANGED <<clock, settings, runs, stored, intents, writes>>
          PROVE  IndInv'
      <3> DEFINE new == [d EXCEPT !.step = "listing", !.cursor = last.id, !.page = page,
                                  !.basis = @ \union page]
      <3>1. /\ page \subseteq Facts /\ last.id \in Nat
            /\ \A f \in page : f \in stored /\ f.kind = "EVENT" /\ Visible(f, AsOf(w))
        <4>1. \A f \in rows : f \in stored /\ f.kind = "EVENT" /\ Visible(f, AsOf(w))
          BY DEF Of
        <4>2. page \subseteq Facts /\ last \in Facts
          <5>1. \A f \in rows : f \in Facts
            BY <1>0, <4>1
          <5> HIDE DEF rows, d
          <5> QED
            BY <2>3, <5>1
        <4>3. last.id \in Nat
          BY <4>2 DEF Facts
        <4> QED
          BY <4>1, <4>2, <4>3
      <3>2. /\ new \in DeciderRecords /\ new.run = d.run /\ new.basis = d.basis \union page
            /\ new.step = "listing" /\ new.shadow = d.shadow /\ new.page = page
        BY <1>0, <3>1 DEF DeciderRecords, Steps
      <3>3. \A f \in page : Known(f, AsOf(w))
        BY <3>1 DEF Known, KnownAt, Visible
      <3>4. \A f \in page : RowKnown(f, AsOf(w))
        BY <3>1 DEF IndInv, PlansKnown, RowKnown, Visible
      <3>5. Becomes(w, new)
        BY <2>3
      <3> HIDE DEF new, d
      <3> QED
        BY <1>1, <1>4, <2>1, <2>3, <3>2, <3>3, <3>4, <3>5, WorkStep DEF d
    <2>4. \/ Moves(w, "market", {})
          \/ \E page \in SUBSET rows : \E last \in page :
               /\ Becomes(w, [d EXCEPT !.step = "listing", !.cursor = last.id, !.page = page,
                                       !.basis = @ \union page])
               /\ UNCHANGED <<clock, settings, runs, stored, intents, writes>>
      BY <1>8 DEF ScanCandidates
    <2> QED
      BY <2>2, <2>3, <2>4
  <1>12. CASE CandidateItem(w)
    <2>1. PICK row \in d.page, shown \in BOOLEAN, step \in {"scan", "listing"} :
            Becomes(w, [d EXCEPT !.step = step, !.page = d.page \ {row},
              !.basis = @ \union {ListingFact} \union {p \in Of("PLAN") : shown /\ p.id = row.id},
              !.found = IF shown THEN @ \union {row.id} ELSE @])
      <3>1. PICK row \in d.page, shown \in BOOLEAN :
            Becomes(w, [d EXCEPT !.step = IF d.page \ {row} = {} THEN "scan" ELSE "listing",
              !.page = d.page \ {row},
              !.basis = @ \union {ListingFact} \union {p \in Of("PLAN") : shown /\ p.id = row.id},
              !.found = IF shown THEN @ \union {row.id} ELSE @])
        BY <1>12 DEF CandidateItem
      <3> DEFINE step == IF d.page \ {row} = {} THEN "scan" ELSE "listing"
      <3>2. step \in {"scan", "listing"}
        OBVIOUS
      <3> QED
        BY <3>1, <3>2
    <2> DEFINE read == {ListingFact} \union {p \in Of("PLAN") : shown /\ p.id = row.id}
               found == IF shown THEN d.found \union {row.id} ELSE d.found
               new == [d EXCEPT !.step = step, !.page = d.page \ {row},
                                !.basis = d.basis \union read, !.found = found]
    <2>2. row \in Facts /\ row.id \in Nat /\ RowKnown(row, AsOf(w)) /\ row.at \in Int
      <3>1. row \in Facts
        BY <1>0 DEF DeciderRecords
      <3>2. RowKnown(row, AsOf(w))
        BY <1>1 DEF IndInv, PlansKnown
      <3> QED
        BY <3>1, <3>2 DEF Facts
    <2>3. ListingFact \in Facts /\ ListingFact.kind = "LISTING"
      BY DEF ListingFact, Facts
    <2>4. read \subseteq Facts
      BY <1>0, <2>3 DEF Of
    <2>5. \A f \in read : Known(f, AsOf(w))
      <3>1. ASSUME NEW p \in stored, p.kind = "PLAN", p.id = row.id PROVE Known(p, AsOf(w))
        <4>1. p.at <= row.at /\ row.at <= AsOf(w) /\ p.at \in Int
          BY <1>0, <2>2, <3>1 DEF RowKnown, Facts
        <4> QED
          BY <1>3, <2>2, <3>1, <4>1 DEF Known, KnownAt
      <3> QED
        BY <2>3, <3>1 DEF Known, Of
    <2>6. found \in SUBSET Nat
      <3>1. d.found \in SUBSET Nat
        BY <1>0 DEF DeciderRecords
      <3> QED
        BY <2>2, <3>1
    <2>7. Becomes(w, new)
      <3>1. d.basis \union {ListingFact} \union {p \in Of("PLAN") : shown /\ p.id = row.id}
              = d.basis \union read
        OBVIOUS
      <3> QED
        BY <2>1, <3>1
    <2> HIDE DEF read, found
    <2>8. /\ new \in DeciderRecords /\ new.run = d.run /\ new.basis = d.basis \union read
          /\ new.step = step /\ new.shadow = d.shadow /\ new.page = d.page \ {row}
      BY <1>0, <2>4, <2>6 DEF DeciderRecords, Steps
    <2>9. UNCHANGED <<clock, settings, runs, stored, intents, writes>> /\ ~At(w, "config")
      BY <1>12 DEF CandidateItem, At
    <2>10. step # "config"
      OBVIOUS
    <2> HIDE DEF new, d
    <2>11. \A f \in new.basis \ d.basis : Known(f, AsOf(w))
      BY <2>5, <2>8
    <2>12. \A f \in new.page \ d.page : RowKnown(f, AsOf(w))
      BY <2>8
    <2> QED
      BY <1>1, <1>4, <2>7, <2>8, <2>9, <2>10, <2>11, <2>12, WorkStep DEF d
  <1>9. CASE MarketSnapshots(w)
    <2>1. ~At(w, "config") /\ "history" \in Steps \ {"config"}
      BY <1>9 DEF MarketSnapshots, At, Steps
    <2>2. CASE Realtime(AsOf(w)) /\ Moves(w, "history", {QuoteFact(clock)})
      <3>1. QuoteFact(clock) \in Facts /\ QuoteFact(clock).kind = "QUOTE"
            /\ QuoteFact(clock).at = clock
        BY <1>0, TimeFact DEF QuoteFact, Facts
      <3>2. Known(QuoteFact(clock), AsOf(w))
        BY <2>2, <3>1 DEF Known, KnownAt, Realtime
      <3> QED
        BY <1>5, <2>1, <2>2, <3>1, <3>2
    <2>3. ASSUME NEW last \in {f \in Of("BAR") : f.day < Day(AsOf(w))}, Moves(w, "history", {last})
          PROVE  IndInv'
      <3>1. last \in Facts /\ Known(last, AsOf(w))
        BY <1>0, <2>3 DEF Of, Known, KnownAt
      <3> QED
        BY <1>5, <2>1, <2>3, <3>1
    <2>4. \/ Realtime(AsOf(w)) /\ Moves(w, "history", {QuoteFact(clock)})
          \/ \E last \in {f \in Of("BAR") : f.day < Day(AsOf(w))} : Moves(w, "history", {last})
          \/ /\ Becomes(w, [d EXCEPT !.step = "answer", !.found = {}])
             /\ UNCHANGED <<clock, settings, runs, stored, intents, writes>>
      BY <1>9 DEF MarketSnapshots
    <2> QED
      BY <1>6, <2>1, <2>2, <2>3, <2>4
  <1>10. CASE DailyHistory(w)
    <2> DEFINE bars == {f \in Of("BAR") : f.day < Day(AsOf(w))}
    <2>1. ~At(w, "config") /\ "record" \in Steps \ {"config"}
      BY <1>10 DEF DailyHistory, At, Steps
    <2>2. bars \in SUBSET Facts /\ \A f \in bars : Known(f, AsOf(w))
      BY <1>0 DEF Of, Known, KnownAt
    <2>3. \/ Moves(w, "record", bars)
          \/ /\ Becomes(w, [d EXCEPT !.step = "answer", !.found = {}])
             /\ UNCHANGED <<clock, settings, runs, stored, intents, writes>>
      BY <1>10 DEF DailyHistory
    <2> QED
      BY <1>5, <1>6, <2>1, <2>2, <2>3
  <1>11. CASE BloggerPerformance(w)
    <2> DEFINE metrics == {f \in Of("METRIC") : f.at <= AsOf(w) /\ f.day < Day(AsOf(w))}
    <2>1. ~At(w, "config") /\ "answer" \in Steps \ {"config"}
      BY <1>11 DEF BloggerPerformance, At, Steps
    <2>2. metrics \in SUBSET Facts /\ \A f \in metrics : Known(f, AsOf(w))
      BY <1>0 DEF Of, Known, KnownAt
    <2>3. Moves(w, "answer", metrics)
      BY <1>11 DEF BloggerPerformance
    <2> QED
      BY <1>5, <2>1, <2>2, <2>3
  <1> QED
    BY <1>7, <1>8, <1>9, <1>10, <1>11, <1>12

\* A claim that ends without intents.
LEMMA FailStep ==
  ASSUME IndInv, NEW w \in Deciders, Fails(w)
  PROVE  IndInv'
  <1>0. TypeOK /\ Busy(w)
    BY DEF IndInv, Fails, Busy
  <1>1. RunsKept
    BY <1>0, FinishFact DEF IndInv, Fails
  <1>2. decider'[w] = Idle /\ OthersStay(w) /\ decider' \in [Deciders -> DeciderRecords]
    BY <1>0, IdleType, BecomesFact DEF Fails
  <1>3. UNCHANGED <<clock, settings, stored, intents, writes>>
    BY DEF Fails
  <1>4. TypeOK'
    BY <1>0, <1>1, <1>2, <1>3 DEF TypeOK, RunsKept
  <1>5. IntentsHaveRuns' /\ NoLookAhead' /\ DecidedOnce'
    BY <1>1, <1>3, IntentsKeep DEF IndInv
  <1>6. RunsExist' /\ BasisKnown' /\ DryIsShadow'
    BY <1>1, <1>2, IdleType, DecidersKeep DEF IndInv
  <1>7. PlansKnown'
    BY <1>0, <1>1, <1>2, <1>3, IdleType, PagesKeep DEF IndInv
  <1> QED
    BY <1>4, <1>5, <1>6, <1>7 DEF IndInv

\* The one claim that ends a run with success stores its intents.
LEMMA PersistStep ==
  ASSUME IndInv, NEW w \in Deciders, PersistIntents(w)
  PROVE  IndInv'
  <1> DEFINE n == decider[w].run
             Free(e) == \A i \in intents : i.key # IntentKey(e, AsOf(w))
  <1>0. TypeOK /\ Busy(w) /\ ~At(w, "config") /\ n \in DOMAIN runs
    BY DEF IndInv, PersistIntents, Busy, At, RunsExist
  <1>1. PICK valid \in SUBSET decider[w].found, status \in {"SUCCEEDED", "PARTIAL"} :
          /\ intents' = intents \union {NewIntent(w, e) : e \in {e \in valid : Free(e)}}
          /\ FinishClaim(w, status)
    BY DEF PersistIntents
  <1>2. Holds(w, FALSE)
    BY DEF PersistIntents, Holds
  <1>3. /\ RunsKept /\ runs[n].status = "RUNNING" /\ runs'[n].token = decider[w].token
        /\ runs'[n].status \in {"SUCCEEDED", "PARTIAL"}
    BY <1>0, <1>1, <1>2, FinishFact DEF IndInv
  <1>4. decider'[w] = Idle /\ OthersStay(w) /\ decider' \in [Deciders -> DeciderRecords]
    BY <1>0, IdleType, BecomesFact DEF PersistIntents
  <1>5. RunsExist' /\ BasisKnown' /\ DryIsShadow'
    BY <1>3, <1>4, IdleType, DecidersKeep DEF IndInv
  <1>6. /\ runs[n] \in RunRecords /\ n \in Nat /\ decider[w] \in DeciderRecords
        /\ AsOf(w) \in Nat /\ AsOf(w) = runs[n].asOf /\ Run(w) = runs[n]
    <2>1. runs[n] \in RunRecords /\ n \in Nat /\ decider[w] \in DeciderRecords
      BY <1>0, RunType DEF TypeOK
    <2> QED
      BY <2>1 DEF RunRecords, AsOf, Run
  <1>7. n \in DOMAIN runs' /\ runs'[n].asOf = AsOf(w) /\ runs'[n].dry = Run(w).dry
    BY <1>0, <1>3, <1>6 DEF RunsKept, TypeOK
  \* What a new intent is like.
  <1>8. ASSUME NEW e \in valid
        PROVE  /\ NewIntent(w, e) \in IntentRecords
               /\ NewIntent(w, e).key = IntentKey(e, AsOf(w)) /\ NewIntent(w, e).run = n
               /\ NewIntent(w, e).token = decider[w].token
               /\ \A f \in NewIntent(w, e).basis : Known(f, AsOf(w))
               /\ Run(w).dry => NewIntent(w, e).execution = "SHADOW_READY"
    <2>1. e \in Nat /\ decider[w].token \in Nat /\ decider[w].basis \in SUBSET Facts
      BY <1>6 DEF DeciderRecords
    <2>2. Day(AsOf(w)) \in Nat /\ ValidUntil(AsOf(w)) \in Nat
      <3>1. Day(AsOf(w)) \in Nat
        BY <1>6, TimeFact
      <3>2. Day(AsOf(w)) * DayLength + Opening \in Nat /\ AsOf(w) + 1 \in Nat
        BY <1>6, <3>1
      <3> QED
        BY <3>1, <3>2 DEF ValidUntil
    <2>3. IntentKey(e, AsOf(w)) \in Nat \X Nat \X Nat
      BY <2>1, <2>2 DEF IntentKey
    <2>4. NewIntent(w, e) \in IntentRecords
      BY <1>6, <2>1, <2>3 DEF NewIntent, IntentRecords
    <2>5. \A f \in decider[w].basis : Known(f, AsOf(w))
      BY <1>0 DEF IndInv, BasisKnown
    <2>6. Run(w).dry => decider[w].shadow
      BY <1>0 DEF IndInv, DryIsShadow
    <2> QED
      BY <2>4, <2>5, <2>6 DEF NewIntent
  \* The intents there were, none of them of this run.
  <1>9. \A i \in intents : /\ i.run \in DOMAIN runs /\ i.run \in DOMAIN runs' /\ i.run # n
                           /\ runs'[i.run] = runs[i.run]
    <2>1. \A i \in intents : i.run \in DOMAIN runs /\ Over(runs[i.run]) /\ i.run # n
      BY <1>3 DEF IndInv, IntentsHaveRuns, DecidedOnce, Over
    <2> QED
      BY <1>0, <1>3, <2>1 DEF RunsKept, TypeOK
  <1>10. ASSUME NEW i \in intents'
         PROVE  \/ i \in intents
                \/ \E e \in valid : i = NewIntent(w, e) /\ Free(e)
    BY <1>1, <1>10
  <1> HIDE DEF n, Free
  <1>11. TypeOK'
    <2>1. intents' \subseteq IntentRecords
      BY <1>0, <1>8, <1>10 DEF TypeOK
    <2>2. UNCHANGED <<clock, settings, stored, writes>>
      BY DEF PersistIntents
    <2> QED
      BY <1>0, <1>3, <1>4, <2>1, <2>2 DEF TypeOK, RunsKept
  <1>12. IntentsHaveRuns'
    BY <1>7, <1>8, <1>9, <1>10 DEF IntentsHaveRuns
  <1>13. NoLookAhead'
    <2> SUFFICES ASSUME NEW i \in intents', NEW f \in i.basis
                 PROVE  Known(f, runs'[i.run].asOf)
      BY DEF NoLookAhead, Known, KnownAt
    <2>1. CASE i \in intents
      <3>1. f.kind # "LISTING" => KnownAt(f, runs[i.run].asOf)
        BY <2>1 DEF IndInv, NoLookAhead
      <3>2. runs'[i.run] = runs[i.run]
        BY <1>9, <2>1
      <3> QED
        BY <3>1, <3>2 DEF Known
    <2>2. ASSUME NEW e \in valid, i = NewIntent(w, e) PROVE Known(f, runs'[i.run].asOf)
      BY <1>7, <1>8, <2>2
    <2> QED
      BY <1>10, <2>1, <2>2
  <1>14. DecidedOnce'
    <2>1. ASSUME NEW i \in intents'
          PROVE  /\ runs'[i.run].status \in {"SUCCEEDED", "PARTIAL"}
                 /\ i.token = runs'[i.run].token
                 /\ runs'[i.run].dry => i.execution = "SHADOW_READY"
      <3>1. CASE i \in intents
        BY <1>9, <3>1 DEF IndInv, DecidedOnce
      <3>2. ASSUME NEW e \in valid, i = NewIntent(w, e)
            PROVE  /\ runs'[i.run].status \in {"SUCCEEDED", "PARTIAL"}
                   /\ i.token = runs'[i.run].token
                   /\ runs'[i.run].dry => i.execution = "SHADOW_READY"
        BY <1>3, <1>7, <1>8, <3>2 DEF n
      <3> QED
        BY <1>10, <3>1, <3>2
    <2>2. ASSUME NEW i \in intents', NEW j \in intents', j.key = i.key PROVE j = i
      <3>1. CASE i \in intents /\ j \in intents
        BY <2>2, <3>1 DEF IndInv, DecidedOnce
      <3>2. ASSUME NEW e \in valid, NEW g \in valid, i = NewIntent(w, e), j = NewIntent(w, g)
            PROVE  j = i
        <4>1. IntentKey(e, AsOf(w)) = IntentKey(g, AsOf(w))
          BY <1>8, <2>2, <3>2
        <4> QED
          BY <3>2, <4>1 DEF IntentKey
      <3>3. ASSUME NEW e \in valid, NEW old \in intents, Free(e)
            PROVE  old.key # NewIntent(w, e).key
        BY <1>8, <3>3 DEF Free
      <3> QED
        BY <1>10, <2>2, <3>1, <3>2, <3>3
    <2> QED
      BY <2>1, <2>2 DEF DecidedOnce
  <1>15. PlansKnown'
    <2>1. UNCHANGED <<clock, stored, writes>>
      BY DEF PersistIntents
    <2> QED
      BY <1>0, <1>3, <1>4, <2>1, IdleType, PagesKeep DEF IndInv
  <1> QED
    BY <1>5, <1>11, <1>12, <1>13, <1>14, <1>15 DEF IndInv

-----------------------------------------------------------------------------
LEMMA InitInv == Init => IndInv
  <1> SUFFICES ASSUME Init PROVE IndInv
    OBVIOUS
  <1>1. PICK recommended \in SUBSET EventIds :
          stored = {BarFact(d * DayLength, d) : d \in PreviousOpen(FirstTick)}
                     \union {EventFact(e, FirstTick - 1, Day(FirstTick) - 1) : e \in recommended}
                     \union {PlanFact(e, FirstTick - 1, Day(FirstTick) - 1) : e \in recommended}
    BY DEF Init
  <1>2. \A d \in PreviousOpen(FirstTick) :
          LET f == BarFact(d * DayLength, d) IN f \in Facts /\ f.kind = "BAR"
    <2>1. \A d \in PreviousOpen(FirstTick) : d \in Nat /\ d * DayLength \in Nat
      BY DEF PreviousOpen
    <2> QED
      BY <2>1 DEF BarFact, Facts
  <1>3. FirstTick - 1 \in Int /\ Day(FirstTick) - 1 \in Int /\ FirstTick \in Nat /\ NextId \in Nat
    BY TimeFact
  <1>4. \A e \in EventIds : e \in Nat /\ e < NextId
    BY <1>3
  <1>5. ASSUME NEW e \in EventIds
        PROVE  LET f == EventFact(e, FirstTick - 1, Day(FirstTick) - 1)
                   p == PlanFact(e, FirstTick - 1, Day(FirstTick) - 1)
               IN  /\ f \in Facts /\ p \in Facts /\ f.id = e /\ p.id = e
                   /\ f.at = FirstTick - 1 /\ p.at = FirstTick - 1
    BY <1>3, <1>4 DEF EventFact, PlanFact, Facts
  <1>6. \A f \in stored :
          f \in Facts /\ (f.kind # "BAR" => f.id < NextId /\ f.at = FirstTick - 1)
    BY <1>1, <1>2, <1>4, <1>5
  <1>7. TypeOK
    BY <1>6, IdleType DEF Init, TypeOK
  <1>8. PlansKnown
    <2>1. \A f \in stored : f.kind \in {"EVENT", "PLAN"} =>
            f.id < NextId + writes /\ f.at = FirstTick - 1 /\ f.at <= clock
      BY <1>3, <1>6 DEF Init
    <2> QED
      BY <1>3, <2>1, IdleType DEF Init, PlansKnown, RowKnown, Busy, At
  <1> QED
    BY <1>7, <1>8, IdleType DEF Init, IndInv, RunsExist, BasisKnown, DryIsShadow, Busy, At,
                          IntentsHaveRuns, NoLookAhead, DecidedOnce

\* The inductive invariant holds in every reachable state.
THEOREM DecisionsInvariance == Spec => []IndInv
  <1>1. IndInv /\ [Next]_vars => IndInv'
    <2> SUFFICES ASSUME IndInv, [Next]_vars PROVE IndInv'
      OBVIOUS
    <2>1. CASE UNCHANGED vars
      BY <2>1 DEF vars, IndInv, TypeOK, RunsExist, PlansKnown, RowKnown, BasisKnown, DryIsShadow, IntentsHaveRuns,
                  NoLookAhead, DecidedOnce, Busy, At, AsOf, Run, Known, KnownAt
    <2> QED
      BY <2>1, WorldStep, QueueStep, ClaimStep, AgentStep, FailStep, PersistStep DEF Next
  <1> QED
    BY <1>1, InitInv, PTL DEF Spec

\* However late a run is claimed, how often its claim is lost and whatever is written
\* while the agent reads, its intents rest on nothing that was not known at its moment.
THEOREM NothingFromTheFuture == Spec => []NoLookAhead
  BY DecisionsInvariance, PTL DEF IndInv

\* The intents of a run are of the claim that ended it, a key is decided once, and a dry
\* run leaves nothing that can be executed.
THEOREM DecisionsAreFinal == Spec => []DecidedOnce
  BY DecisionsInvariance, PTL DEF IndInv

-----------------------------------------------------------------------------
(***************************************************************************)
(* The security master.                                                    *)
(***************************************************************************)
HIDE DecisionAssumption

MasterRow == [status : Master!Statuses, name : Names, active : BOOLEAN]

\* What the constants stand for: an asset type for every code, dates that are numbers,
\* variants that are names, and a value that is no row.
MasterConstants ==
  /\ \A c \in Codes : Kind[c] \in {"STOCK", "ETF", "SECTOR"}
  /\ AsOfDates \subseteq Nat
  /\ \A c \in Master!Sectors, n \in Names : Variants[c][n] \subseteq Names
  /\ NoRow \notin Master!ProviderRow /\ NoRow \notin MasterRow

-----------------------------------------------------------------------------
(* The inductive invariant.                                                *)

MasterColumns == {"status", "name", "active"}
RefreshFields == {"step", "asOf", "rows", "names", "calm"}

WellFormed(f) ==
  DOMAIN f = RefreshFields /\ f.step \in 0..8 /\ f.asOf \in Nat /\ f.rows \in Master!Rows(Codes)

TablesExist ==
  /\ provider \in Master!Rows(Codes)
  /\ day \in Nat /\ past \in Seq(Master!Rows(Codes)) /\ Len(past) = day - 1
  /\ DOMAIN refresh = Refreshers /\ \A r \in Refreshers : WellFormed(refresh[r])
  /\ \A c \in Codes : master[c] # NoRow => DOMAIN master[c] = MasterColumns
  /\ DOMAIN borne = Codes

\* A sector at the provider is listed.
SectorsListed == \A c \in Master!Sectors : provider[c] # NoRow => provider[c].status = "L"

\* Every name at the provider, in a refresh or stored has been borne.
NamesBorne ==
  \A c \in Codes : /\ Master!NamesOf(c, provider[c]) \subseteq borne[c]
                   /\ \A d \in 1..Len(past) : Master!NamesOf(c, past[d][c]) \subseteq borne[c]
                   /\ alias[c].on \subseteq borne[c]

FetchedBorne(f) ==
  \A c \in Codes, n \in Names : <<c, n>> \in f.names => n \in borne[c] /\ f.rows[c] # NoRow

\* The list of the code's row is behind the step.
Behind(c, step) == \E n \in 1..(step - 1) : Master!Lists[n][1] = Kind[c] /\ Master!Lists[n][2] = provider[c].status

\* While nothing changed, a refresh has the provider's rows of the lists behind it.
FetchedCurrent(f) ==
  f.calm =>
    /\ f.step \in 1..8 /\ f.asOf = day
    /\ \A c \in Codes :
         /\ f.rows[c] = IF provider[c] # NoRow /\ Behind(c, f.step) THEN provider[c] ELSE NoRow
         /\ f.rows[c] # NoRow => \A n \in Master!Aliases(c, provider[c]) : <<c, n>> \in f.names

CalmIsCurrent == \A r \in Refreshers : FetchedBorne(refresh[r]) /\ FetchedCurrent(refresh[r])

MasterInv == TablesExist /\ SectorsListed /\ NamesBorne /\ CalmIsCurrent /\ Master!MasterIsCurrent

-----------------------------------------------------------------------------
(* The lists.                                                              *)

LEMMA TheLists ==
  /\ DOMAIN Master!Lists = 1..7 /\ Len(Master!Lists) = 7
  /\ Master!Lists[1][1] = "STOCK" /\ Master!Lists[1][2] = "L"
  /\ Master!Lists[2][1] = "STOCK" /\ Master!Lists[2][2] = "D"
  /\ Master!Lists[3][1] = "STOCK" /\ Master!Lists[3][2] = "P"
  /\ Master!Lists[4][1] = "ETF" /\ Master!Lists[4][2] = "L"
  /\ Master!Lists[5][1] = "ETF" /\ Master!Lists[5][2] = "D"
  /\ Master!Lists[6][1] = "ETF" /\ Master!Lists[6][2] = "P"
  /\ Master!Lists[7][1] = "SECTOR" /\ Master!Lists[7][2] = "L"
  BY DEF Master!Lists

\* After the last list, the list of every row is behind.
LEMMA AllBehind ==
  ASSUME MasterConstants, TablesExist, SectorsListed, NEW c \in Codes, provider[c] # NoRow
  PROVE  Behind(c, 8)
  <1>1. provider[c].status \in {"L", "D", "P"} /\ Kind[c] \in {"STOCK", "ETF", "SECTOR"}
    BY DEF MasterConstants, TablesExist, Master!Rows, Master!ProviderRow, Master!Statuses
  <1>2. Kind[c] = "SECTOR" => provider[c].status = "L"
    BY DEF SectorsListed, Master!Sectors
  <1>3. \E n \in 1..7 : Master!Lists[n][1] = Kind[c] /\ Master!Lists[n][2] = provider[c].status
    <2>1. CASE Kind[c] = "STOCK"
      BY <1>1, <2>1, TheLists
    <2>2. CASE Kind[c] = "ETF"
      BY <1>1, <2>2, TheLists
    <2>3. CASE Kind[c] = "SECTOR"
      BY <1>2, <2>3, TheLists
    <2> QED  BY <1>1, <2>1, <2>2, <2>3
  <1> QED  BY <1>3 DEF Behind

\* The next list is behind after its step, and no other is.
LEMMA BehindNext ==
  ASSUME NEW c, NEW n \in 1..7
  PROVE  Behind(c, n + 1) <=> \/ Behind(c, n)
                              \/ Master!Lists[n][1] = Kind[c] /\ Master!Lists[n][2] = provider[c].status
  <1>1. 1..(n + 1 - 1) = 1..(n - 1) \union {n}
    OBVIOUS
  <1> QED  BY <1>1 DEF Behind

-----------------------------------------------------------------------------
(* Every step keeps the invariant.                                         *)

LEMMA MasterInit ==
  ASSUME MasterConstants, Master!Init
  PROVE  MasterInv
  <1>1. /\ Master!NoRefresh.step = 0 /\ Master!NoRefresh.rows = [c \in Codes |-> NoRow] /\ Master!NoRefresh.names = {}
        /\ DOMAIN Master!NoRefresh = RefreshFields
    BY DEF Master!NoRefresh, RefreshFields
  <1>2. ~Master!NoRefresh.calm
    BY DEF Master!NoRefresh
  <1>8. Master!NoRefresh.asOf = 0 /\ (<<>> \in Seq(Master!Rows(Codes)) /\ Len(<<>>) = 0)
    BY DEF Master!NoRefresh
  <1>3. TablesExist
    BY <1>1, <1>8 DEF Master!Init, TablesExist, WellFormed, Master!Rows
  <1>4. SectorsListed
    BY DEF Master!Init, SectorsListed, Master!Sectors
  <1>5. NamesBorne
    BY DEF Master!Init, NamesBorne, Master!NamesOf
  <1>6. CalmIsCurrent
    BY <1>1, <1>2 DEF Master!Init, CalmIsCurrent, FetchedBorne, FetchedCurrent
  <1>7. Master!MasterIsCurrent
    BY DEF Master!Init, Master!MasterIsCurrent
  <1> QED  BY <1>3, <1>4, <1>5, <1>6, <1>7 DEF MasterInv

\* What is asked of the master speaks of these alone.
judged == <<day, provider, master, alias, borne, fresh>>

LEMMA JudgedAlone ==
  ASSUME Master!MasterIsCurrent, UNCHANGED judged
  PROVE  Master!MasterIsCurrent'
  BY DEF judged, Master!MasterIsCurrent, Master!IsActiveSecurity, Master!Listed, Master!Candidates,
         Master!DirectMatches, Master!AliasMatches,
         Master!AssembleOne

\* What a refresh leaves alone as it goes on.
world == <<day, provider, past, master, alias, borne, fresh>>

OnlyRefresh(r) ==
  /\ DOMAIN refresh' = Refreshers /\ \A s \in Refreshers : s # r => refresh'[s] = refresh[s]
  /\ UNCHANGED world

LEMMA RefreshGoesOn ==
  ASSUME MasterInv, NEW r \in Refreshers, OnlyRefresh(r),
         WellFormed(refresh'[r]), FetchedBorne(refresh'[r]), FetchedCurrent(refresh'[r])
  PROVE  MasterInv'
  <1>1. TablesExist' /\ SectorsListed' /\ NamesBorne'
    BY DEF MasterInv, TablesExist, SectorsListed, NamesBorne, OnlyRefresh, world, WellFormed
  <1>2. CalmIsCurrent'
    BY DEF MasterInv, CalmIsCurrent, FetchedBorne, FetchedCurrent, Behind, OnlyRefresh, world
  <1>3. Master!MasterIsCurrent'
    BY JudgedAlone DEF MasterInv, judged, OnlyRefresh, world
  <1> QED  BY <1>1, <1>2, <1>3 DEF MasterInv

LEMMA BeginStep ==
  ASSUME MasterInv, NEW r \in Refreshers, NEW asOf \in Nat, Master!Begin(r, asOf)
  PROVE  MasterInv'
  <1> DEFINE f == refresh'[r]
  <1>1. OnlyRefresh(r)
    BY DEF Master!Begin, MasterInv, TablesExist, OnlyRefresh, world
  <1>2. /\ DOMAIN f = RefreshFields /\ f.step = 1 /\ f.asOf = asOf /\ f.names = {}
        /\ f.rows = [c \in Codes |-> NoRow] /\ (f.calm => asOf = day)
    BY DEF Master!Begin, MasterInv, TablesExist, Master!NoRefresh, RefreshFields
  <1>3. \A c : ~Behind(c, 1)
    BY DEF Behind
  <1> HIDE DEF f
  <1>4. WellFormed(f) /\ FetchedBorne(f)
    BY <1>2 DEF WellFormed, FetchedBorne, Master!Rows
  <1>5. FetchedCurrent(f)
    BY <1>2, <1>3 DEF FetchedCurrent
  <1> QED  BY <1>1, <1>4, <1>5, RefreshGoesOn DEF f

LEMMA FetchFailsStep ==
  ASSUME MasterInv, NEW r \in Refreshers, Master!FetchFails(r)
  PROVE  MasterInv'
  <1>1. WellFormed(Master!NoRefresh) /\ FetchedBorne(Master!NoRefresh)
    BY DEF Master!NoRefresh, WellFormed, RefreshFields, Master!Rows, FetchedBorne
  <1>2. FetchedCurrent(Master!NoRefresh)
    BY DEF Master!NoRefresh, FetchedCurrent
  <1>3. OnlyRefresh(r) /\ refresh'[r] = Master!NoRefresh
    BY DEF Master!FetchFails, MasterInv, TablesExist, OnlyRefresh, world
  <1> QED  BY <1>1, <1>2, <1>3, RefreshGoesOn

\* What a refresh has after a list of rows.
LEMMA AddsColumns ==
  ASSUME MasterInv, NEW r \in Refreshers, NEW rows, NEW calm, Master!Adds(r, rows, calm)
  PROVE  /\ DOMAIN refresh' = Refreshers /\ \A s \in Refreshers : s # r => refresh'[s] = refresh[s]
         /\ DOMAIN refresh'[r] = RefreshFields
         /\ refresh'[r].step = refresh[r].step + 1 /\ refresh'[r].asOf = refresh[r].asOf
         /\ refresh'[r].rows = [c \in Codes |-> IF rows[c] # NoRow THEN rows[c] ELSE refresh[r].rows[c]]
         /\ refresh'[r].names = refresh[r].names \union
              UNION {{c} \X Master!Aliases(c, rows[c]) : c \in {c \in Codes : rows[c] # NoRow}}
         /\ refresh'[r].calm => refresh[r].calm /\ calm
  <1>1. DOMAIN refresh = Refreshers /\ DOMAIN refresh[r] = RefreshFields
    BY DEF MasterInv, TablesExist, WellFormed
  <1> DEFINE codes == {c \in Codes : rows[c] # NoRow}
             more == UNION {{c} \X Master!Aliases(c, rows[c]) : c \in codes}
             all == [c \in Codes |-> IF c \in codes THEN rows[c] ELSE refresh[r].rows[c]]
             still == refresh[r].calm /\ calm
  <1>6. refresh' = [refresh EXCEPT ![r].step = @ + 1, ![r].rows = all, ![r].names = @ \union more,
                                  ![r].calm = still]
    BY DEF Master!Adds
  <1> HIDE DEF more, all, still
  <1>7. /\ DOMAIN refresh' = Refreshers /\ \A s \in Refreshers : s # r => refresh'[s] = refresh[s]
        /\ DOMAIN refresh'[r] = RefreshFields
        /\ refresh'[r].step = refresh[r].step + 1 /\ refresh'[r].asOf = refresh[r].asOf
        /\ refresh'[r].rows = all /\ refresh'[r].names = refresh[r].names \union more
        /\ refresh'[r].calm = still
    BY <1>1, <1>6 DEF RefreshFields
  <1>8. all = [c \in Codes |-> IF rows[c] # NoRow THEN rows[c] ELSE refresh[r].rows[c]]
    BY DEF all
  <1> QED  BY <1>7, <1>8, Zenon DEF more, still

LEMMA AddsWellFormed ==
  ASSUME MasterInv, NEW r \in Refreshers, NEW rows \in Master!Rows(Codes), NEW calm, Master!Adds(r, rows, calm),
         refresh[r].step \in 1..7, UNCHANGED world,
         \A c \in Codes : Master!NamesOf(c, rows[c]) \subseteq borne[c]
  PROVE  /\ OnlyRefresh(r) /\ WellFormed(refresh'[r]) /\ FetchedBorne(refresh'[r])
         /\ refresh'[r].step = refresh[r].step + 1 /\ refresh'[r].asOf = refresh[r].asOf
         /\ \A c \in Codes : refresh'[r].rows[c] = IF rows[c] # NoRow THEN rows[c] ELSE refresh[r].rows[c]
         /\ \A c \in Codes : rows[c] # NoRow =>
              \A n \in Master!Aliases(c, rows[c]) : <<c, n>> \in refresh'[r].names
         /\ refresh[r].names \subseteq refresh'[r].names
         /\ refresh'[r].calm => refresh[r].calm /\ calm
  <1> DEFINE f == refresh'[r]
  <1>1. /\ DOMAIN f = RefreshFields /\ f.step = refresh[r].step + 1 /\ f.asOf = refresh[r].asOf
        /\ f.rows = [c \in Codes |-> IF rows[c] # NoRow THEN rows[c] ELSE refresh[r].rows[c]]
        /\ f.names = refresh[r].names \union
             UNION {{c} \X Master!Aliases(c, rows[c]) : c \in {c \in Codes : rows[c] # NoRow}}
        /\ OnlyRefresh(r) /\ (f.calm => refresh[r].calm /\ calm)
    BY AddsColumns DEF OnlyRefresh
  <1> HIDE DEF f
  <1>2. refresh[r].rows \in Master!Rows(Codes)
    BY DEF MasterInv, TablesExist, WellFormed
  <1>3. WellFormed(f)
    <2>1. refresh[r].step \in 1..7 /\ refresh[r].asOf \in Nat
      BY DEF MasterInv, TablesExist, WellFormed
    <2>2. f.rows \in Master!Rows(Codes)
      <3>1. f.rows = [c \in Codes |-> IF rows[c] # NoRow THEN rows[c] ELSE refresh[r].rows[c]]
        BY <1>1
      <3> QED  BY <1>2, <3>1 DEF Master!Rows
    <2>3. DOMAIN f = RefreshFields /\ f.step = refresh[r].step + 1 /\ f.asOf = refresh[r].asOf
      BY <1>1
    <2>4. f.step \in 0..8
      BY <2>1, <2>3
    <2> QED  BY <2>1, <2>2, <2>3, <2>4 DEF WellFormed
  <1>4. ASSUME NEW c \in Codes, NEW n \in Names, <<c, n>> \in f.names
        PROVE  n \in borne[c] /\ f.rows[c] # NoRow
    <2>1. f.rows[c] = IF rows[c] # NoRow THEN rows[c] ELSE refresh[r].rows[c]
      BY <1>1
    <2>2. CASE <<c, n>> \in refresh[r].names
      BY <2>1, <2>2 DEF MasterInv, CalmIsCurrent, FetchedBorne
    <2>3. CASE <<c, n>> \in UNION {{d} \X Master!Aliases(d, rows[d]) : d \in {d \in Codes : rows[d] # NoRow}}
      BY <2>1, <2>3 DEF Master!NamesOf
    <2> QED  BY <1>1, <1>4, <2>2, <2>3
  <1>5. /\ \A c \in Codes : f.rows[c] = IF rows[c] # NoRow THEN rows[c] ELSE refresh[r].rows[c]
        /\ \A c \in Codes : rows[c] # NoRow => \A n \in Master!Aliases(c, rows[c]) : <<c, n>> \in f.names
        /\ refresh[r].names \subseteq f.names
    BY <1>1
  <1> QED  BY <1>1, <1>3, <1>4, <1>5 DEF FetchedBorne, f

\* A list of rows that have been borne; of a calm refresh, the provider's own.
LEMMA ListStep ==
  ASSUME MasterInv, NEW r \in Refreshers, NEW n \in 1..7, refresh[r].step = n,
         NEW rows \in Master!Rows(Codes), NEW calm, Master!Adds(r, rows, calm), UNCHANGED world,
         \A c \in Codes : Master!NamesOf(c, rows[c]) \subseteq borne[c],
         calm => \A c \in Codes : rows[c] = IF /\ Kind[c] = Master!Lists[n][1] /\ provider[c] # NoRow
                                               /\ provider[c].status = Master!Lists[n][2]
                                            THEN provider[c] ELSE NoRow
  PROVE  MasterInv'
  <1> DEFINE f == refresh'[r]
  <1>5. OnlyRefresh(r) /\ WellFormed(f) /\ FetchedBorne(f)
    BY AddsWellFormed
  <1>6. f.step = n + 1 /\ f.asOf = refresh[r].asOf /\ (f.calm => refresh[r].calm /\ calm)
    BY AddsWellFormed
  <1>7. /\ \A c \in Codes : f.rows[c] = IF rows[c] # NoRow THEN rows[c] ELSE refresh[r].rows[c]
        /\ \A c \in Codes : rows[c] # NoRow => \A m \in Master!Aliases(c, rows[c]) : <<c, m>> \in f.names
        /\ refresh[r].names \subseteq f.names
    BY AddsWellFormed
  <1> HIDE DEF f
  <1>8. FetchedCurrent(f)
    <2> SUFFICES ASSUME f.calm
                 PROVE  /\ f.step \in 1..8 /\ f.asOf = day
                        /\ \A c \in Codes :
                             /\ f.rows[c] = IF provider[c] # NoRow /\ Behind(c, f.step)
                                            THEN provider[c] ELSE NoRow
                             /\ f.rows[c] # NoRow =>
                                  \A m \in Master!Aliases(c, provider[c]) : <<c, m>> \in f.names
      BY DEF FetchedCurrent
    <2>1. FetchedCurrent(refresh[r]) /\ refresh[r].calm
      BY <1>6 DEF MasterInv, CalmIsCurrent
    <2>2. f.step \in 1..8 /\ f.asOf = day
      BY <1>6, <2>1 DEF FetchedCurrent
    <2>3. ASSUME NEW c \in Codes
          PROVE  /\ f.rows[c] = IF provider[c] # NoRow /\ Behind(c, f.step) THEN provider[c] ELSE NoRow
                 /\ f.rows[c] # NoRow => \A m \in Master!Aliases(c, provider[c]) : <<c, m>> \in f.names
      <3>1. Behind(c, f.step) <=> \/ Behind(c, n)
                                  \/ Master!Lists[n][1] = Kind[c] /\ Master!Lists[n][2] = provider[c].status
        BY <1>6, BehindNext
      <3>2. /\ refresh[r].rows[c] = IF provider[c] # NoRow /\ Behind(c, n) THEN provider[c] ELSE NoRow
            /\ refresh[r].rows[c] # NoRow =>
                 \A m \in Master!Aliases(c, provider[c]) : <<c, m>> \in refresh[r].names
        BY <2>1 DEF FetchedCurrent
      <3>3. rows[c] = IF /\ Kind[c] = Master!Lists[n][1] /\ provider[c] # NoRow
                         /\ provider[c].status = Master!Lists[n][2]
                      THEN provider[c] ELSE NoRow
        BY <1>6
      <3> QED  BY <1>7, <3>1, <3>2, <3>3
    <2> QED  BY <2>2, <2>3
  <1> QED  BY <1>5, <1>8, RefreshGoesOn DEF f

\* A list of the provider is of its rows.
LEMMA ListingRows ==
  ASSUME MasterInv, NEW kind, NEW status, NEW rows, rows = Master!Listing(provider, kind, status)
  PROVE  /\ rows \in Master!Rows(Codes)
         /\ \A c \in Codes : Master!NamesOf(c, rows[c]) \subseteq borne[c]
         /\ \A c \in Codes : rows[c] = IF Kind[c] = kind /\ provider[c] # NoRow /\ provider[c].status = status
                                        THEN provider[c] ELSE NoRow
  <1>1. \A c \in Codes : rows[c] = IF Kind[c] = kind /\ provider[c] # NoRow /\ provider[c].status = status
                                   THEN provider[c] ELSE NoRow
    BY DEF Master!Listing
  <1>2. rows \in Master!Rows(Codes)
    BY DEF Master!Listing, Master!Rows, MasterInv, TablesExist
  <1>3. \A c \in Codes : Master!NamesOf(c, rows[c]) \subseteq borne[c]
    BY <1>1 DEF MasterInv, NamesBorne, Master!NamesOf
  <1> QED  BY <1>1, <1>2, <1>3

LEMMA FetchStep ==
  ASSUME MasterInv, NEW r \in Refreshers, Master!Fetch(r)
  PROVE  MasterInv'
  <1> DEFINE calm == TRUE
  <1>1. PICK n \in 1..7 : n = refresh[r].step
    BY TheLists DEF Master!Fetch
  <1>2. PICK rows : rows = Master!Listing(provider, Master!Lists[n][1], Master!Lists[n][2])
    OBVIOUS
  <1>3. Master!Adds(r, rows, calm) /\ UNCHANGED world
    BY <1>1, <1>2 DEF Master!Fetch, world
  <1> HIDE DEF calm
  <1>4. /\ rows \in Master!Rows(Codes)
        /\ \A c \in Codes : Master!NamesOf(c, rows[c]) \subseteq borne[c]
        /\ \A c \in Codes : rows[c] = IF /\ Kind[c] = Master!Lists[n][1] /\ provider[c] # NoRow
                                          /\ provider[c].status = Master!Lists[n][2]
                                       THEN provider[c] ELSE NoRow
    BY <1>2, ListingRows
  <1> QED  BY <1>1, <1>3, <1>4, ListStep

\* The index of the day itself, or that of a day before: the names of that one were
\* borne, but the refresh is not calm.
LEMMA FetchSectorsStep ==
  ASSUME MasterInv, NEW r \in Refreshers, Master!FetchSectors(r)
  PROVE  MasterInv'
  <1>1. PICK n \in 1..7 : n = refresh[r].step /\ Master!Lists[n][1] = "SECTOR"
    BY TheLists DEF Master!FetchSectors
  <1>2. PICK date \in 1..refresh[r].asOf :
          /\ date <= day
          /\ Master!Adds(r, IF date = day THEN Master!Listing(provider, "SECTOR", "L") ELSE past[date],
                         date = day)
    BY DEF Master!FetchSectors
  <1>3. UNCHANGED world
    BY DEF Master!FetchSectors, world
  <1>4. n = 7
    BY <1>1, TheLists
  <1>5. CASE date = day
    <2> DEFINE calm == date = day
    <2>1. PICK rows : rows = Master!Listing(provider, "SECTOR", "L")
      OBVIOUS
    <2>2. Master!Adds(r, rows, calm)
      BY <1>2, <1>5, <2>1
    <2> HIDE DEF calm
    <2>3. /\ rows \in Master!Rows(Codes)
          /\ \A c \in Codes : Master!NamesOf(c, rows[c]) \subseteq borne[c]
          /\ \A c \in Codes : rows[c] = IF /\ Kind[c] = "SECTOR" /\ provider[c] # NoRow
                                            /\ provider[c].status = "L"
                                         THEN provider[c] ELSE NoRow
      BY <2>1, ListingRows
    <2>4. Master!Lists[n][1] = "SECTOR" /\ Master!Lists[n][2] = "L"
      BY <1>4, TheLists
    <2> QED  BY <1>1, <1>3, <2>2, <2>3, <2>4, ListStep
  <1>6. CASE date # day
    <2> DEFINE calm == date = day
    <2>1. PICK rows : rows = past[date]
      OBVIOUS
    <2>2. Master!Adds(r, rows, calm)
      BY <1>2, <1>6, <2>1
    <2>3. ~calm
      BY <1>6
    <2> HIDE DEF calm
    <2>4. date \in 1..Len(past)
      <3>1. day \in Nat /\ Len(past) = day - 1 /\ refresh[r].asOf \in Nat
        BY DEF MasterInv, TablesExist, WellFormed
      <3>2. date \in Int /\ 1 <= date
        BY <3>1
      <3>3. date < day
        BY <1>2, <1>6, <3>1, <3>2
      <3> QED  BY <3>1, <3>2, <3>3
    <2>5. /\ rows \in Master!Rows(Codes)
          /\ \A c \in Codes : Master!NamesOf(c, rows[c]) \subseteq borne[c]
      <3>1. past \in Seq(Master!Rows(Codes))
        BY DEF MasterInv, TablesExist
      <3>2. past[date] \in Master!Rows(Codes)
        BY <2>4, <3>1
      <3> QED  BY <2>1, <2>4, <3>2 DEF MasterInv, NamesBorne
    <2> QED  BY <1>1, <1>3, <2>2, <2>3, <2>5, ListStep
  <1> QED  BY <1>5, <1>6

-----------------------------------------------------------------------------
(* The provider changes: nothing is fresh, and no refresh is calm.         *)

LEMMA DisturbedStep ==
  ASSUME MasterInv, Master!Disturbed, UNCHANGED <<master, alias>>,
         provider' \in Master!Rows(Codes), DOMAIN borne' = Codes,
         day' \in Nat, past' \in Seq(Master!Rows(Codes)), Len(past') = day' - 1,
         SectorsListed',
         \A c \in Codes : /\ borne[c] \subseteq borne'[c]
                          /\ Master!NamesOf(c, provider'[c]) \subseteq borne'[c]
                          /\ \A d \in 1..Len(past') : Master!NamesOf(c, past'[d][c]) \subseteq borne'[c]
  PROVE  MasterInv'
  <1>1. ~fresh' /\ refresh' = [r \in Refreshers |-> [refresh[r] EXCEPT !.calm = FALSE]]
    BY DEF Master!Disturbed
  <1>2. \A r \in Refreshers : WellFormed(refresh[r])
    BY DEF MasterInv, TablesExist
  <1>3. \A r \in Refreshers :
          /\ DOMAIN refresh'[r] = RefreshFields /\ refresh'[r].step = refresh[r].step
          /\ refresh'[r].asOf = refresh[r].asOf
          /\ refresh'[r].rows = refresh[r].rows /\ refresh'[r].names = refresh[r].names
          /\ ~refresh'[r].calm
    BY <1>1, <1>2 DEF WellFormed, RefreshFields
  <1>4. TablesExist'
    BY <1>1, <1>2, <1>3 DEF MasterInv, TablesExist, WellFormed
  <1>5. NamesBorne'
    BY DEF MasterInv, NamesBorne
  <1>6. CalmIsCurrent'
    <2> SUFFICES ASSUME NEW r \in Refreshers
                 PROVE  FetchedBorne(refresh[r])' /\ FetchedCurrent(refresh[r])'
      BY DEF CalmIsCurrent
    <2>1. FetchedBorne(refresh[r])'
      BY <1>3 DEF MasterInv, CalmIsCurrent, FetchedBorne
    <2>2. FetchedCurrent(refresh[r])'
      BY <1>3 DEF FetchedCurrent
    <2> QED  BY <2>1, <2>2
  <1>7. Master!MasterIsCurrent'
    BY <1>1 DEF Master!MasterIsCurrent
  <1> QED  BY <1>4, <1>5, <1>6, <1>7 DEF MasterInv

LEMMA ChangeStep ==
  ASSUME MasterInv, NEW c \in Codes, Master!Change(c)
  PROVE  MasterInv'
  <1>1. PICK row \in Master!ProviderRow \union {NoRow} :
          /\ row # NoRow => Master!Possible(c, row)
          /\ provider' = [provider EXCEPT ![c] = row]
          /\ borne' = [borne EXCEPT ![c] = @ \union Master!NamesOf(c, row)]
    BY DEF Master!Change
  <1>2. Master!Disturbed /\ UNCHANGED <<day, past, master, alias>>
    BY DEF Master!Change
  <1>3. /\ provider \in Master!Rows(Codes) /\ DOMAIN borne = Codes
        /\ day' \in Nat /\ past' \in Seq(Master!Rows(Codes)) /\ Len(past') = day' - 1
    BY <1>2 DEF MasterInv, TablesExist
  <1>4. /\ provider' \in Master!Rows(Codes) /\ DOMAIN borne' = Codes
        /\ \A d \in Codes : /\ provider'[d] = IF d = c THEN row ELSE provider[d]
                            /\ borne'[d] = IF d = c THEN borne[d] \union Master!NamesOf(c, row) ELSE borne[d]
    BY <1>1, <1>3 DEF Master!Rows
  <1>5. SectorsListed'
    BY <1>1, <1>4 DEF MasterInv, SectorsListed, Master!Sectors, Master!Possible
  <1>6. \A d \in Codes : /\ borne[d] \subseteq borne'[d]
                         /\ Master!NamesOf(d, provider'[d]) \subseteq borne'[d]
                         /\ \A e \in 1..Len(past') : Master!NamesOf(d, past'[e][d]) \subseteq borne'[d]
    BY <1>2, <1>4 DEF MasterInv, NamesBorne
  <1> QED  BY <1>2, <1>3, <1>4, <1>5, <1>6, DisturbedStep

LEMMA NewDayStep ==
  ASSUME MasterInv, Master!NewDay
  PROVE  MasterInv'
  <1>1. PICK index : index = Master!Listing(provider, "SECTOR", "L")
    OBVIOUS
  <1>2. /\ Master!Disturbed /\ UNCHANGED <<provider, master, alias, borne>>
        /\ day' = day + 1 /\ past' = Append(past, index)
    BY <1>1 DEF Master!NewDay
  <1>3. /\ provider \in Master!Rows(Codes) /\ DOMAIN borne = Codes
        /\ day \in Nat /\ past \in Seq(Master!Rows(Codes)) /\ Len(past) = day - 1
    BY DEF MasterInv, TablesExist
  <1>4. index \in Master!Rows(Codes) /\ \A c \in Codes : Master!NamesOf(c, index[c]) \subseteq borne[c]
    BY <1>1, ListingRows
  <1>5. /\ past' \in Seq(Master!Rows(Codes)) /\ Len(past') = Len(past) + 1
        /\ \A d \in 1..Len(past') : past'[d] = IF d = Len(past') THEN index ELSE past[d]
        /\ \A d \in 1..Len(past') : d # Len(past') => d \in 1..Len(past)
    BY <1>2, <1>3, <1>4
  <1>6. day' \in Nat /\ Len(past') = day' - 1
    BY <1>2, <1>3, <1>5
  <1>7. SectorsListed'
    BY <1>2 DEF MasterInv, SectorsListed
  <1>8. \A c \in Codes : Master!NamesOf(c, provider[c]) \subseteq borne[c]
    BY DEF MasterInv, NamesBorne
  <1>9. ASSUME NEW c \in Codes, NEW d \in 1..Len(past')
        PROVE  Master!NamesOf(c, past'[d][c]) \subseteq borne[c]
    <2>1. CASE d = Len(past')
      BY <1>4, <1>5, <2>1
    <2>2. CASE d # Len(past')
      BY <1>5, <2>2 DEF MasterInv, NamesBorne
    <2> QED  BY <2>1, <2>2
  <1> QED  BY <1>2, <1>3, <1>5, <1>6, <1>7, <1>8, <1>9, DisturbedStep

-----------------------------------------------------------------------------
(* The transaction of a refresh.                                           *)

\* What UpsertBatch stores for a code, and that it is a row.
Stored(c, row, asOf) == [status |-> row.status, name |-> row.name, active |-> Master!IsActive(c, row, asOf)]

LEMMA StoredIsRow ==
  ASSUME MasterConstants, NEW c, NEW row \in Master!ProviderRow, NEW asOf
  PROVE  Stored(c, row, asOf) # NoRow
  <1>1. Master!IsActive(c, row, asOf) \in BOOLEAN
    BY DEF Master!IsActive
  <1>2. row.status \in Master!Statuses /\ row.name \in Names
    BY DEF Master!ProviderRow
  <1>3. Stored(c, row, asOf) \in MasterRow
    BY <1>1, <1>2, Zenon DEF Stored, MasterRow
  <1> QED  BY <1>3 DEF MasterConstants

LEMMA StoredColumns ==
  ASSUME NEW c, NEW row, NEW asOf
  PROVE  /\ Stored(c, row, asOf).status = row.status /\ Stored(c, row, asOf).name = row.name
         /\ Stored(c, row, asOf).active <=> Master!IsActive(c, row, asOf)
         /\ DOMAIN Stored(c, row, asOf) = MasterColumns
  BY DEF Stored, MasterColumns, Master!IsActive

LEMMA StoredActive ==
  ASSUME NEW c, NEW row, NEW asOf, NEW s, s = Stored(c, row, asOf)
  PROVE  s.active <=> Master!IsActive(c, row, asOf)
  BY StoredColumns

\* The rows of the master after it.
LEMMA PersistedRows ==
  ASSUME MasterInv, MasterConstants, NEW f, WellFormed(f),
         NEW after, after = Master!UpsertBatch(f.rows, f.asOf),
         master' = Master!DeactivateMissing(f.rows, after), NEW c \in Codes
  PROVE  /\ f.rows[c] # NoRow => /\ f.rows[c] \in Master!ProviderRow
                                 /\ after[c] = Stored(c, f.rows[c], f.asOf)
                                 /\ master'[c] = Stored(c, f.rows[c], f.asOf)
         /\ f.rows[c] = NoRow => /\ after[c] = master[c]
                                 /\ master[c] = NoRow => master'[c] = NoRow
                                 /\ master[c] # NoRow => ~master'[c].active
         /\ master'[c] # NoRow => DOMAIN master'[c] = MasterColumns
  <1>1. f.rows[c] \in Master!ProviderRow \union {NoRow}
    BY DEF WellFormed, Master!Rows
  <1>2. after[c] = IF f.rows[c] # NoRow THEN Stored(c, f.rows[c], f.asOf) ELSE master[c]
    BY DEF Master!UpsertBatch, Stored
  <1>3. master'[c] = IF f.rows[c] = NoRow /\ after[c] # NoRow
                     THEN [after[c] EXCEPT !.active = FALSE] ELSE after[c]
    BY DEF Master!DeactivateMissing
  <1>4. master[c] # NoRow => DOMAIN master[c] = MasterColumns
    BY DEF MasterInv, TablesExist
  <1>5. CASE f.rows[c] # NoRow
    BY <1>1, <1>2, <1>3, <1>5, StoredColumns
  <1>6. CASE f.rows[c] = NoRow /\ master[c] = NoRow
    BY <1>2, <1>3, <1>6
  <1>7. CASE f.rows[c] = NoRow /\ master[c] # NoRow
    BY <1>2, <1>3, <1>4, <1>7 DEF MasterColumns
  <1> QED  BY <1>5, <1>6, <1>7

\* The aliases after it.
LEMMA PersistedAliases ==
  ASSUME NEW names, NEW after, alias' = Master!AliasUpserts(names, after), NEW c \in Codes
  PROVE  /\ \A n \in Names : <<c, n>> \in names /\ n # after[c].name /\ after[c].active => n \in alias'[c].on
         /\ \A n \in alias'[c].on : n \in alias[c].on \/ (n \in Names /\ <<c, n>> \in names)
  <1> DEFINE new == {n \in Names : <<c, n>> \in names /\ n # after[c].name}
  <1>1. alias'[c] = IF new = {} THEN alias[c]
                    ELSE IF after[c].active
                      THEN [on |-> alias[c].on \union new, off |-> alias[c].off \ new]
                      ELSE [on |-> alias[c].on \ new, off |-> alias[c].off \union new]
    BY DEF Master!AliasUpserts
  <1>2. \A n : n \in new <=> n \in Names /\ <<c, n>> \in names /\ n # after[c].name
    OBVIOUS
  <1> HIDE DEF new
  <1>3. \A n : n \in new /\ after[c].active => n \in alias'[c].on
    BY <1>1
  <1>4. \A n \in alias'[c].on : n \in alias[c].on \/ n \in new
    BY <1>1
  <1> QED  BY <1>2, <1>3, <1>4
\* What MasterIsCurrent asks of the state when it is fresh.
Current ==
  /\ \A c \in Codes : Master!IsActiveSecurity(c) <=> Master!Listed(c)
  /\ \A c \in Codes : Master!Listed(c) => \A n \in Master!NamesOf(c, provider[c]) : c \in Master!Candidates(n)
  /\ \A n \in Names : \A c \in Master!Candidates(n) : c \in Codes /\ Master!Listed(c) /\ n \in borne[c]

LEMMA CurrentSuffices ==
  ASSUME Current
  PROVE  Master!MasterIsCurrent
  <1> SUFFICES ASSUME fresh, NEW n \in Names
               PROVE  LET bearers == {c \in Codes : Master!Listed(c) /\ n \in borne[c]} IN
                      /\ Master!Candidates(n) \subseteq bearers
                      /\ \A c \in Codes :
                           bearers = {c} /\ n \in Master!NamesOf(c, provider[c]) =>
                             Master!AssembleOne(n) = [status |-> "RESOLVED", codes |-> {c}]
    BY DEF Current, Master!MasterIsCurrent
  <1> DEFINE bearers == {c \in Codes : Master!Listed(c) /\ n \in borne[c]}
  <1>1. Master!Candidates(n) \subseteq bearers
    BY DEF Current
  <1>2. ASSUME NEW c \in Codes, bearers = {c}, n \in Master!NamesOf(c, provider[c])
        PROVE  Master!AssembleOne(n) = [status |-> "RESOLVED", codes |-> {c}]
    <2>1. c \in Master!Candidates(n)
      BY <1>2 DEF Current
    <2>2. Master!Candidates(n) = {c}
      BY <1>1, <1>2, <2>1
    <2>3. Master!Cardinality({c}) = 1
      <3>1. Master!Cardinality({c}) = Cardinality({c})
        BY DEF Master!Cardinality, Cardinality
      <3> QED  BY <3>1, FS_Singleton
    <2> DEFINE one == Master!Cardinality({c})
    <2>4. ~(one > 1)
      <3>1. one = 1
        BY <2>3
      <3> HIDE DEF one
      <3> QED  BY <3>1
    <2>5. {c} # {}
      OBVIOUS
    <2> QED  BY <2>2, <2>4, <2>5 DEF Master!AssembleOne
  <1> QED  BY <1>1, <1>2

\* Aliases are names.
LEMMA AliasesAreNames ==
  ASSUME MasterConstants, NEW c \in Codes, NEW row \in Master!ProviderRow, NEW n \in Master!Aliases(c, row)
  PROVE  n \in Names
  <1>1. row.full \in Names /\ row.name \in Names
    BY DEF Master!ProviderRow
  <1> QED  BY <1>1 DEF Master!Aliases, MasterConstants

\* A calm refresh that has all lists stores the provider's world.
LEMMA CalmStoresCurrent ==
  ASSUME MasterInv, MasterConstants, NEW f, WellFormed(f), FetchedBorne(f), FetchedCurrent(f),
         f.step = 8, f.calm, NEW after, after = Master!UpsertBatch(f.rows, f.asOf),
         alias' = Master!AliasUpserts(f.names, after), master' = Master!DeactivateMissing(f.rows, after),
         UNCHANGED <<day, provider, borne>>, NamesBorne'
  PROVE  Current'
  <1>1. f.asOf = day /\ \A c \in Codes : f.rows[c] = provider[c]
    <2>1. ASSUME NEW c \in Codes, provider[c] # NoRow
          PROVE  Behind(c, f.step)
      <3>1. Behind(c, 8)
        BY <2>1, AllBehind DEF MasterInv
      <3> QED  BY <3>1
    <2>2. ASSUME NEW c \in Codes
          PROVE  f.rows[c] = IF provider[c] # NoRow /\ Behind(c, f.step) THEN provider[c] ELSE NoRow
      BY DEF FetchedCurrent
    <2>3. f.asOf = day
      BY DEF FetchedCurrent
    <2>4. ASSUME NEW c \in Codes
          PROVE  f.rows[c] = provider[c]
      BY <2>1, <2>2
    <2> QED  BY <2>3, <2>4
  <1>2. ASSUME NEW c \in Codes, provider[c] # NoRow
        PROVE  /\ provider[c] \in Master!ProviderRow
               /\ after[c] = Stored(c, provider[c], day) /\ master'[c] = Stored(c, provider[c], day)
               /\ \A n \in Master!Aliases(c, provider[c]) : <<c, n>> \in f.names
    BY <1>1, <1>2, PersistedRows DEF FetchedCurrent
  <1>3. ASSUME NEW c \in Codes, provider[c] # NoRow
        PROVE  /\ master'[c] # NoRow
               /\ after[c].active <=> Master!IsActive(c, provider[c], day)
               /\ master'[c].active <=> Master!IsActive(c, provider[c], day)
               /\ after[c].name = provider[c].name /\ master'[c].name = provider[c].name
               /\ master'[c].status = provider[c].status
    <2> DEFINE s == Stored(c, provider[c], day)
    <2>1. s # NoRow /\ s.name = provider[c].name /\ s.status = provider[c].status
      <3>1. provider[c] \in Master!ProviderRow
        BY <1>2, <1>3
      <3>2. Stored(c, provider[c], day) # NoRow
        BY <3>1, StoredIsRow
      <3>3. /\ Stored(c, provider[c], day).name = provider[c].name
            /\ Stored(c, provider[c], day).status = provider[c].status
        BY StoredColumns
      <3> QED  BY <3>2, <3>3
    <2>2. s.active <=> Master!IsActive(c, provider[c], day)
      <3>1. s = Stored(c, provider[c], day)
        OBVIOUS
      <3> HIDE DEF s
      <3> QED  BY <3>1, StoredActive
    <2>3. after[c] = s /\ master'[c] = s
      BY <1>2, <1>3
    <2> HIDE DEF s
    <2> QED  BY <2>1, <2>2, <2>3
  <1>4. ASSUME NEW c \in Codes, provider[c] = NoRow
        PROVE  master'[c] = NoRow \/ ~master'[c].active
    BY <1>1, <1>4, PersistedRows
  <1>5. \A c \in Codes : Master!IsActiveSecurity(c)' <=> Master!Listed(c)'
    <2> SUFFICES ASSUME NEW c \in Codes
                 PROVE  Master!IsActiveSecurity(c)' <=> Master!Listed(c)'
      OBVIOUS
    <2>1. CASE provider[c] # NoRow
      BY <1>3, <2>1 DEF Master!IsActiveSecurity, Master!Listed, Master!IsActive
    <2>2. CASE provider[c] = NoRow
      BY <1>4, <2>2 DEF Master!IsActiveSecurity, Master!Listed
    <2> QED  BY <2>1, <2>2
  <1>6. ASSUME NEW c \in Codes, Master!Listed(c)', NEW n \in Master!NamesOf(c, provider[c])
        PROVE  c \in Master!Candidates(n)'
    <2>1. provider[c] # NoRow /\ Master!IsActive(c, provider[c], day) /\ Master!IsActiveSecurity(c)'
      BY <1>5, <1>6 DEF Master!Listed
    <2>2. master'[c].name = provider[c].name /\ after[c].name = provider[c].name /\ after[c].active
      BY <1>3, <2>1
    <2>3. CASE n = provider[c].name
      BY <2>1, <2>2, <2>3 DEF Master!Candidates, Master!DirectMatches
    <2>4. CASE n # provider[c].name
      <3>1. n \in Master!Aliases(c, provider[c])
        BY <1>6, <2>1, <2>4 DEF Master!NamesOf
      <3>2. n \in Names /\ <<c, n>> \in f.names
        BY <1>2, <2>1, <3>1, AliasesAreNames
      <3>3. n \in alias'[c].on
        BY <2>2, <2>4, <3>2, PersistedAliases
      <3> QED  BY <2>1, <3>3 DEF Master!Candidates, Master!AliasMatches
    <2> QED  BY <2>3, <2>4
  <1>7. ASSUME NEW n \in Names, NEW c \in Master!Candidates(n)'
        PROVE  c \in Codes /\ Master!Listed(c)' /\ n \in borne'[c]
    <2>1. c \in Codes /\ Master!IsActiveSecurity(c)' /\ (master'[c].name = n \/ n \in alias'[c].on)
      BY DEF Master!Candidates, Master!DirectMatches, Master!AliasMatches
    <2>2. Master!Listed(c)' /\ provider[c] # NoRow
      BY <1>5, <2>1 DEF Master!Listed
    <2>3. CASE master'[c].name = n
      <3>1. n \in Master!NamesOf(c, provider[c])
        BY <1>3, <2>1, <2>2, <2>3 DEF Master!NamesOf
      <3> QED  BY <2>1, <2>2, <3>1 DEF MasterInv, NamesBorne
    <2>4. CASE n \in alias'[c].on
      BY <2>1, <2>2, <2>4 DEF NamesBorne
    <2> QED  BY <2>1, <2>3, <2>4
  <1>8. \A c \in Codes : Master!Listed(c)' => \A n \in Master!NamesOf(c, provider[c])' : c \in Master!Candidates(n)'
    <2>1. \A c \in Codes : Master!NamesOf(c, provider[c])' = Master!NamesOf(c, provider[c])
      BY DEF Master!NamesOf
    <2> QED  BY <1>6, <2>1
  <1> QED  BY <1>5, <1>7, <1>8 DEF Current

LEMMA MasterPersistStep ==
  ASSUME MasterInv, MasterConstants, NEW r \in Refreshers, Master!Persist(r)
  PROVE  MasterInv'
  <1> DEFINE f == refresh[r]
             after == Master!UpsertBatch(f.rows, f.asOf)
  <1>1. /\ f.step = 8 /\ refresh' = [refresh EXCEPT ![r] = Master!NoRefresh]
        /\ UNCHANGED <<day, provider, past, borne>>
    BY TheLists DEF Master!Persist
  <1>2. \/ UNCHANGED <<master, alias, fresh>>
        \/ /\ alias' = Master!AliasUpserts(f.names, after)
           /\ master' = Master!DeactivateMissing(f.rows, after)
           /\ fresh' = f.calm
    BY Zenon DEF Master!Persist
  <1>3. WellFormed(f) /\ FetchedBorne(f) /\ FetchedCurrent(f)
    BY DEF MasterInv, TablesExist, CalmIsCurrent
  <1>4. WellFormed(Master!NoRefresh) /\ FetchedBorne(Master!NoRefresh)
    BY DEF Master!NoRefresh, WellFormed, RefreshFields, Master!Rows, FetchedBorne
  <1>5. FetchedCurrent(Master!NoRefresh)
    BY DEF Master!NoRefresh, FetchedCurrent
  <1>6. CASE UNCHANGED <<master, alias, fresh>>
    <2>1. OnlyRefresh(r) /\ refresh'[r] = Master!NoRefresh
      BY <1>1, <1>6 DEF MasterInv, TablesExist, OnlyRefresh, world
    <2> QED  BY <1>4, <1>5, <2>1, RefreshGoesOn
  <1>7. CASE /\ alias' = Master!AliasUpserts(f.names, after)
             /\ master' = Master!DeactivateMissing(f.rows, after)
             /\ fresh' = f.calm
    <2> PICK rows : rows = after
      OBVIOUS
    <2>1. /\ rows = Master!UpsertBatch(f.rows, f.asOf) /\ alias' = Master!AliasUpserts(f.names, rows)
          /\ master' = Master!DeactivateMissing(f.rows, rows)
      BY <1>7
    <2> HIDE DEF after
    <2>2. \A s \in Refreshers : refresh'[s] = IF s = r THEN Master!NoRefresh ELSE refresh[s]
      BY <1>1 DEF MasterInv, TablesExist
    <2>3. DOMAIN refresh' = Refreshers
      BY <1>1 DEF MasterInv, TablesExist
    <2>4. \A c \in Codes : master'[c] # NoRow => DOMAIN master'[c] = MasterColumns
      BY <1>3, <2>1, PersistedRows
    <2>5. TablesExist'
      BY <1>1, <1>4, <2>2, <2>3, <2>4 DEF MasterInv, TablesExist, WellFormed
    <2>6. SectorsListed'
      BY <1>1 DEF MasterInv, SectorsListed
    <2>7. \A c \in Codes : alias'[c].on \subseteq borne[c]
      <3> SUFFICES ASSUME NEW c \in Codes, NEW n \in alias'[c].on
                   PROVE  n \in borne[c]
        OBVIOUS
      <3>1. n \in alias[c].on \/ (n \in Names /\ <<c, n>> \in f.names)
        BY <2>1, PersistedAliases
      <3> QED  BY <1>3, <3>1 DEF MasterInv, NamesBorne, FetchedBorne
    <2>8. NamesBorne'
      BY <1>1, <2>7 DEF MasterInv, NamesBorne
    <2>9. CalmIsCurrent'
      BY <1>1, <1>4, <1>5, <2>2 DEF MasterInv, CalmIsCurrent, FetchedBorne, FetchedCurrent, Behind
    <2>10. Master!MasterIsCurrent'
      <3>1. CASE f.calm
        <4>1. Current'
          BY <1>1, <1>3, <2>1, <2>8, <3>1, CalmStoresCurrent
        <4> QED  BY <4>1, CurrentSuffices, PTL
      <3>2. CASE ~f.calm
        BY <1>7, <3>2 DEF Master!MasterIsCurrent
      <3> QED  BY <3>1, <3>2
    <2> QED  BY <2>5, <2>6, <2>8, <2>9, <2>10 DEF MasterInv
  <1> QED  BY <1>2, <1>6, <1>7

-----------------------------------------------------------------------------
(* The theorems.                                                           *)

LEMMA MasterStep ==
  ASSUME MasterInv, MasterConstants, [Master!Next]_(Master!vars)
  PROVE  MasterInv'
  <1>1. CASE UNCHANGED Master!vars
    <2>1. TablesExist' /\ SectorsListed' /\ NamesBorne' /\ CalmIsCurrent'
      BY <1>1 DEF MasterInv, Master!vars, TablesExist, WellFormed, SectorsListed, NamesBorne, CalmIsCurrent,
                  FetchedBorne, FetchedCurrent, Behind
    <2>2. Master!MasterIsCurrent'
      BY <1>1, JudgedAlone DEF MasterInv, Master!vars, judged
    <2> QED  BY <2>1, <2>2 DEF MasterInv
  <1>2. CASE Master!NewDay
    BY <1>2, NewDayStep
  <1>3. ASSUME NEW c \in Codes, Master!Change(c)
        PROVE  MasterInv'
    BY <1>3, ChangeStep
  <1>5. ASSUME NEW r \in Refreshers, NEW asOf \in AsOfDates \union {day}, Master!Begin(r, asOf)
        PROVE  MasterInv'
    <2>1. asOf \in Nat
      BY DEF MasterConstants, MasterInv, TablesExist
    <2> QED  BY <1>5, <2>1, BeginStep
  <1>4. ASSUME NEW r \in Refreshers,
               \/ Master!Fetch(r) \/ Master!FetchSectors(r)
               \/ Master!FetchFails(r) \/ Master!Persist(r)
        PROVE  MasterInv'
    BY <1>4, FetchStep, FetchSectorsStep, FetchFailsStep, MasterPersistStep
  <1> QED  BY <1>1, <1>2, <1>3, <1>4, <1>5 DEF Master!Next

\* A refresh that nothing disturbed has the provider's rows of the lists behind it,
\* and every stored name was borne, for any number of refreshes, codes and names.
THEOREM MasterInvariance == ASSUME MasterConstants PROVE Master!Spec => []MasterInv
  <1>1. Master!Init => MasterInv
    BY MasterInit
  <1>2. MasterInv /\ [Master!Next]_(Master!vars) => MasterInv'
    BY MasterStep
  <1> QED  BY <1>1, <1>2, PTL DEF Master!Spec

\* After a refresh that ran while nothing changed exactly the listed securities are
\* active, are found by their names, and no name leads to one that never bore it
\* (security_master_refresh.go, security_alias.go).
THEOREM CurrentAfterRefresh == ASSUME MasterConstants PROVE Master!Spec => []Master!MasterIsCurrent
  <1>1. MasterInv => Master!MasterIsCurrent
    BY DEF MasterInv
  <1> QED  BY <1>1, MasterInvariance, PTL

\* So it is beside the decision runs and the reports.
THEOREM MasterStaysCurrent == ASSUME MasterConstants PROVE PartsSpec => []MasterIsCurrent
  <1> DEFINE Inv == part = "master" => MasterInv
  <1>1. PartsInit => Inv
    BY MasterInit DEF PartsInit
  <1>2. Inv /\ [PartsNext]_<<part, vars, masterVars, reportVars>> => Inv'
    <2> SUFFICES ASSUME Inv, [PartsNext]_<<part, vars, masterVars, reportVars>>, part' = "master"
                 PROVE  MasterInv'
      OBVIOUS
    <2>1. part = "master" /\ [Master!Next]_(Master!vars)
      BY DEF PartsNext, masterVars, Master!vars
    <2> QED  BY <2>1, MasterStep
  <1>3. Inv => MasterIsCurrent
    BY DEF MasterInv, MasterIsCurrent
  <1> QED  BY <1>1, <1>2, <1>3, PTL DEF PartsSpec

-----------------------------------------------------------------------------
(* The reports.                                                            *)

-----------------------------------------------------------------------------
(* Sums.  The sum of integers over a finite set is the number of the units *)
(* gained less that of the units lost, so that the theorems on finite sets *)
(* speak of it.                                                            *)

TotalOf(f, S) == Reports!SumFunctionOnSet(f, S)
UnitsOf(f, S) == {p \in S \X Nat : 1 <= p[2] /\ p[2] <= f[p[1]]}
Own(x, n) == {p \in {x} \X Nat : 1 <= p[2] /\ p[2] <= n}
Minus(f, S) == [i \in S |-> -f[i]]
Balance(f, S) == Cardinality(UnitsOf(f, S)) - Cardinality(UnitsOf(Minus(f, S), S))
Integral(f, S) == IsFiniteSet(S) /\ \A i \in S : f[i] \in Int

\* Of some subsets of a finite set, one has no element that it could do without.
LEMMA SmallestSet ==
  ASSUME NEW S, IsFiniteSet(S), NEW bad \in SUBSET (SUBSET S), bad # {}
  PROVE  \E s \in bad : \A x \in s : s \ {x} \notin bad
  <1>1. IsWellFoundedOn(StrictSubsetOrdering(S), SUBSET S)
    BY FS_StrictSubsetOrderingWellFounded, FS_FiniteSubsetsOfFinite
  <1>2. PICK s \in bad : \A t \in bad : ~(<<t, s>> \in StrictSubsetOrdering(S))
    BY <1>1, WFMin
  <1>3. ASSUME NEW x \in s, s \ {x} \in bad
        PROVE  FALSE
    <2>1. <<s \ {x}, s>> \in StrictSubsetOrdering(S)
      BY DEF StrictSubsetOrdering
    <2> QED  BY <1>2, <1>3, <2>1
  <1> QED  BY <1>3

\* The units of an element are as many as its value says.
LEMMA OwnUnits ==
  ASSUME NEW x, NEW n \in Int
  PROVE  IsFiniteSet(Own(x, n)) /\ Cardinality(Own(x, n)) = IF n > 0 THEN n ELSE 0
  <1> DEFINE range == 1..n
  <1>1. Own(x, n) = {x} \X range
    <2>1. \A k \in Nat : 1 <= k /\ k <= n <=> k \in range
      OBVIOUS
    <2>2. range \subseteq Nat
      OBVIOUS
    <2> HIDE DEF range
    <2> QED  BY <2>1, <2>2 DEF Own
  <1>2. IsFiniteSet(range) /\ Cardinality(range) = IF n > 0 THEN n ELSE 0
    BY FS_Interval
  <1>3. IsFiniteSet({x}) /\ Cardinality({x}) = 1
    BY FS_Singleton
  <1> HIDE DEF range
  <1>4. IsFiniteSet({x} \X range) /\ Cardinality({x} \X range) = 1 * Cardinality(range)
    BY <1>2, <1>3, FS_Product
  <1>5. Cardinality(range) \in Nat
    BY <1>2, FS_CardinalityType
  <1> QED  BY <1>1, <1>2, <1>4, <1>5

\* The units of a set are those of an element and those of the others.
LEMMA UnitsSplit ==
  ASSUME NEW f, NEW S, NEW x \in S, f[x] \in Int, IsFiniteSet(UnitsOf(f, S \ {x}))
  PROVE  /\ IsFiniteSet(UnitsOf(f, S))
         /\ Cardinality(UnitsOf(f, S)) =
              (IF f[x] > 0 THEN f[x] ELSE 0) + Cardinality(UnitsOf(f, S \ {x}))
  <1> DEFINE own == Own(x, f[x])
             rest == UnitsOf(f, S \ {x})
  <1>1. UnitsOf(f, S) = own \union rest
    BY DEF UnitsOf, Own
  <1>2. own \intersect rest = {}
    BY DEF UnitsOf, Own
  <1>3. IsFiniteSet(own) /\ Cardinality(own) = IF f[x] > 0 THEN f[x] ELSE 0
    BY OwnUnits
  <1> HIDE DEF own, rest
  <1>4. IsFiniteSet(rest) /\ Cardinality(rest) \in Nat
    BY FS_CardinalityType DEF rest
  <1>5. IsFiniteSet(own \union rest)
        /\ Cardinality(own \union rest)
             = Cardinality(own) + Cardinality(rest) - Cardinality(own \intersect rest)
    BY <1>3, <1>4, FS_Union
  <1>6. Cardinality(own \intersect rest) = 0
    BY <1>2, FS_EmptySet
  <1>7. Cardinality(own \union rest) = Cardinality(own) + Cardinality(rest)
    BY <1>3, <1>4, <1>5, <1>6
  <1> QED  BY <1>1, <1>3, <1>5, <1>7 DEF rest

LEMMA UnitsFinite ==
  ASSUME NEW f, NEW S, Integral(f, S)
  PROVE  IsFiniteSet(UnitsOf(f, S))
  <1> DEFINE bad == {s \in SUBSET S : ~IsFiniteSet(UnitsOf(f, s))}
  <1>1. CASE bad = {}
    BY <1>1
  <1>2. CASE bad # {}
    <2>1. PICK s \in bad : \A x \in s : s \ {x} \notin bad
      BY <1>2, SmallestSet DEF Integral
    <2>2. CASE s = {}
      <3>1. UnitsOf(f, s) = {}
        BY <2>2 DEF UnitsOf
      <3> QED  BY <2>1, <3>1, FS_EmptySet
    <2>3. ASSUME NEW x \in s
          PROVE  FALSE
      <3>1. IsFiniteSet(UnitsOf(f, s \ {x}))
        BY <2>1, <2>3
      <3>2. IsFiniteSet(UnitsOf(f, s))
        BY <2>3, <3>1, UnitsSplit DEF Integral
      <3> QED  BY <2>1, <3>2
    <2> QED  BY <2>2, <2>3
  <1> QED  BY <1>1, <1>2

LEMMA BalanceSplit ==
  ASSUME NEW f, NEW S, Integral(f, S), NEW x \in S
  PROVE  /\ Integral(f, S \ {x}) /\ Balance(f, S \ {x}) \in Int
         /\ Balance(f, S) = f[x] + Balance(f, S \ {x})
  <1> DEFINE T == S \ {x}
             g == Minus(f, S)
  <1>1. Integral(f, T)
    BY FS_RemoveElement DEF Integral
  <1>2. Integral(g, S) /\ Integral(g, T)
    BY <1>1 DEF Integral, Minus
  <1>3. UnitsOf(g, T) = UnitsOf(Minus(f, T), T)
    BY DEF UnitsOf, Minus
  <1>4. IsFiniteSet(UnitsOf(f, T)) /\ IsFiniteSet(UnitsOf(g, T))
    BY <1>1, <1>2, UnitsFinite
  <1>5. g[x] = -f[x] /\ f[x] \in Int
    BY DEF Minus, Integral
  <1>6. Cardinality(UnitsOf(f, T)) \in Nat /\ Cardinality(UnitsOf(g, T)) \in Nat
    BY <1>4, FS_CardinalityType
  <1> HIDE DEF g
  <1>7. Cardinality(UnitsOf(f, S)) = (IF f[x] > 0 THEN f[x] ELSE 0) + Cardinality(UnitsOf(f, T))
    BY <1>4, <1>5, UnitsSplit
  <1>8. Cardinality(UnitsOf(g, S)) = (IF g[x] > 0 THEN g[x] ELSE 0) + Cardinality(UnitsOf(g, T))
    BY <1>2, <1>4, <1>5, UnitsSplit DEF Integral
  <1>9. Balance(f, S) = Cardinality(UnitsOf(f, S)) - Cardinality(UnitsOf(g, S))
        /\ Balance(f, T) = Cardinality(UnitsOf(f, T)) - Cardinality(UnitsOf(g, T))
    BY <1>3 DEF Balance, g
  <1> HIDE DEF T
  <1>10. Balance(f, T) \in Int /\ Balance(f, S) = f[x] + Balance(f, T)
    BY <1>5, <1>6, <1>7, <1>8, <1>9
  <1> QED  BY <1>1, <1>10 DEF T

LEMMA NoBalance == \A f : Balance(f, {}) = 0
  <1> TAKE f
  <1>1. UnitsOf(f, {}) = {} /\ UnitsOf(Minus(f, {}), {}) = {}
    BY DEF UnitsOf
  <1> QED  BY <1>1, FS_EmptySet DEF Balance

\* On the smallest subset on which the two differed, the fold would take one step
\* to a smaller one.
LEMMA SumIsBalance ==
  ASSUME NEW f, NEW S, Integral(f, S)
  PROVE  TotalOf(f, S) = Balance(f, S)
  <1> DEFINE body(g) == [s \in SUBSET S |->
                           IF s = {} THEN 0
                           ELSE f[CHOOSE x \in s : TRUE] + g[s \ {CHOOSE x \in s : TRUE}]]
             iter == CHOOSE g : g = body(g)
             balance == [s \in SUBSET S |-> Balance(f, s)]
  <1>1. TotalOf(f, S) = iter[S]
    BY DEF TotalOf, Reports!SumFunctionOnSet, Reports!FoldFunctionOnSet, Reports!MapThenFoldSet
  <1>2. ASSUME NEW s \in SUBSET S
        PROVE  balance[s] = IF s = {} THEN 0
                            ELSE f[CHOOSE x \in s : TRUE] + balance[s \ {CHOOSE x \in s : TRUE}]
    <2>1. CASE s = {}
      BY <2>1, NoBalance
    <2>2. CASE s # {}
      <3> DEFINE x == CHOOSE y \in s : TRUE
      <3>1. x \in s
        BY <2>2
      <3> HIDE DEF x
      <3>2. Integral(f, s)
        BY FS_Subset DEF Integral
      <3>3. Balance(f, s) = f[x] + Balance(f, s \ {x})
        BY <3>1, <3>2, BalanceSplit
      <3>4. balance[s] = f[x] + balance[s \ {x}]
        BY <3>3
      <3> QED  BY <2>2, <3>4 DEF x
    <2> QED  BY <2>1, <2>2
  <1>3. balance = body(balance)
    BY <1>2
  <1>4. iter = body(iter)
    <2> HIDE DEF body
    <2> QED BY <1>3
  <1>5. \A s \in SUBSET S : iter[s] = IF s = {} THEN 0
                          ELSE f[CHOOSE x \in s : TRUE] + iter[s \ {CHOOSE x \in s : TRUE}]
    <2> DEFINE it == iter
    <2>1. it = body(it)
      BY <1>4
    <2> HIDE DEF it, iter
    <2> QED BY <2>1 DEF it
  <1> HIDE DEF iter, balance, body
  <1> DEFINE bad == {s \in SUBSET S : iter[s] # balance[s]}
  <1>6. CASE bad = {}
    BY <1>1, <1>6 DEF balance
  <1>7. CASE bad # {}
    <2>1. PICK s \in bad : \A x \in s : s \ {x} \notin bad
      BY <1>7, SmallestSet DEF Integral
    <2> DEFINE x == CHOOSE y \in s : TRUE
    <2>2. s # {}
      BY <1>2, <1>5
    <2>3. x \in s
      BY <2>2
    <2>4. iter[s] = f[x] + iter[s \ {x}]
      BY <1>5, <2>2
    <2>5. balance[s] = f[x] + balance[s \ {x}]
      BY <1>2, <2>2
    <2> HIDE DEF x
    <2>6. s \ {x} \notin bad
      BY <2>1, <2>3
    <2> QED  BY <2>1, <2>4, <2>5, <2>6
  <1> QED  BY <1>6, <1>7

\* What every sum of integers is.
LEMMA SumInt ==
  ASSUME NEW f, NEW S, Integral(f, S)
  PROVE  TotalOf(f, S) \in Int
  <1>1. IsFiniteSet(UnitsOf(f, S))
    BY UnitsFinite
  <1>2. Integral(Minus(f, S), S)
    BY DEF Integral, Minus
  <1>3. IsFiniteSet(UnitsOf(Minus(f, S), S))
    BY <1>2, UnitsFinite
  <1> QED  BY <1>1, <1>3, SumIsBalance, FS_CardinalityType DEF Balance

LEMMA SumOfNone == \A f : TotalOf(f, {}) = 0
  <1> TAKE f
  <1>1. Integral(f, {})
    BY FS_EmptySet DEF Integral
  <1> QED  BY <1>1, SumIsBalance, NoBalance

LEMMA SumWithout ==
  ASSUME NEW f, NEW S, Integral(f, S), NEW x \in S
  PROVE  Integral(f, S \ {x}) /\ TotalOf(f, S) = f[x] + TotalOf(f, S \ {x})
  <1>1. Integral(f, S \ {x}) /\ Balance(f, S) = f[x] + Balance(f, S \ {x})
    BY BalanceSplit
  <1>2. TotalOf(f, S) = Balance(f, S)
    BY SumIsBalance
  <1>3. TotalOf(f, S \ {x}) = Balance(f, S \ {x})
    BY <1>1, SumIsBalance
  <1> QED  BY <1>1, <1>2, <1>3, Zenon

\* A value that grows by what each element has is the sum.
LEMMA SumIs ==
  ASSUME NEW f, NEW S, Integral(f, S), NEW value,
         value[{}] = 0, \A s \in SUBSET S : \A x \in s : value[s] = f[x] + value[s \ {x}]
  PROVE  TotalOf(f, S) = value[S]
  <1> DEFINE bad == {s \in SUBSET S : TotalOf(f, s) # value[s]}
  <1>1. CASE bad = {}
    BY <1>1
  <1>2. CASE bad # {}
    <2>1. PICK s \in bad : \A x \in s : s \ {x} \notin bad
      BY <1>2, SmallestSet DEF Integral
    <2>2. CASE s = {}
      BY <2>1, <2>2, SumOfNone
    <2>3. ASSUME NEW x \in s
          PROVE  FALSE
      <3>1. Integral(f, s)
        BY <2>1, FS_Subset DEF Integral
      <3>2. TotalOf(f, s) = f[x] + TotalOf(f, s \ {x})
        BY <3>1, <2>3, SumWithout
      <3>3. value[s] = f[x] + value[s \ {x}] /\ s \ {x} \in SUBSET S
        BY <2>1, <2>3
      <3>4. TotalOf(f, s \ {x}) = value[s \ {x}]
        BY <2>1, <2>3, <3>3
      <3> QED  BY <2>1, <3>2, <3>3, <3>4
    <2> QED  BY <2>2, <2>3
  <1> QED  BY <1>1, <1>2

\* Elements that are counted by their kind are all counted.
LEMMA CountsAddUp ==
  ASSUME NEW P, IsFiniteSet(P), NEW K, IsFiniteSet(K), NEW class, \A p \in P : class[p] \in K
  PROVE  TotalOf([k \in K |-> Cardinality({p \in P : class[p] = k})], K) = Cardinality(P)
  <1> DEFINE Having(k) == {p \in P : class[p] = k}
             Among(s) == {p \in P : class[p] \in s}
             f == [k \in K |-> Cardinality(Having(k))]
             value == [s \in SUBSET K |-> Cardinality(Among(s))]
  <1>1. \A k : IsFiniteSet(Having(k)) /\ Cardinality(Having(k)) \in Nat
    BY FS_Subset, FS_CardinalityType
  <1>2. Integral(f, K)
    BY <1>1 DEF Integral
  <1>3. value[{}] = 0
    <2>1. Among({}) = {}
      OBVIOUS
    <2> QED  BY <2>1, FS_EmptySet
  <1>4. ASSUME NEW s \in SUBSET K, NEW x \in s
        PROVE  value[s] = f[x] + value[s \ {x}]
    <2>1. Among(s) = Having(x) \union Among(s \ {x}) /\ Having(x) \intersect Among(s \ {x}) = {}
      OBVIOUS
    <2>2. IsFiniteSet(Among(s \ {x})) /\ Cardinality(Among(s \ {x})) \in Nat
      BY FS_Subset, FS_CardinalityType
    <2>3. f[x] = Cardinality(Having(x)) /\ value[s] = Cardinality(Among(s))
          /\ value[s \ {x}] = Cardinality(Among(s \ {x}))
      OBVIOUS
    <2> HIDE DEF Having, Among, f, value
    <2>4. Cardinality(Among(s)) = Cardinality(Having(x)) + Cardinality(Among(s \ {x})) - Cardinality({})
      BY <1>1, <2>1, <2>2, FS_Union
    <2>5. Cardinality({}) = 0
      BY FS_EmptySet
    <2> QED  BY <1>1, <2>2, <2>3, <2>4, <2>5
  <1>5. value[K] = Cardinality(P)
    <2>1. Among(K) = P
      OBVIOUS
    <2> QED  BY <2>1
  <1> HIDE DEF value, f
  <1>6. TotalOf(f, K) = value[K]
    <2>1. \A s \in SUBSET K : \A x \in s : value[s] = f[x] + value[s \ {x}]
      BY <1>4
    <2> QED  BY <1>2, <1>3, <2>1, SumIs
  <1> QED  BY <1>5, <1>6 DEF f

LEMMA SameCount == \A S : Reports!Cardinality(S) = Cardinality(S)
  BY DEF Reports!Cardinality, Cardinality

-----------------------------------------------------------------------------
(* What the reports read: the invariant.                                   *)

\* What the constants stand for: finite sets, numbers that order ties, and results
\* that have a status and a return.
ReportsConstants ==
  /\ IsFiniteSet(Recommendations) /\ Recommendations \subseteq Nat
  /\ IsFiniteSet(Bloggers) /\ Bloggers \subseteq Int
  /\ IsFiniteSet(AllWindows) /\ AllWindows # {}
  /\ \A r \in Results : r.status # "NONE" /\ r.ret \in Int

EventColumns == {"state", "doc", "blogger", "code", "date", "key"}

IsEvent(r) ==
  /\ DOMAIN r = EventColumns /\ r.blogger \in Bloggers
  /\ r.key = Reports!KeyOf(r.blogger, r.code, r.date)

\* A recommendation is kept under its own key, and a key is kept once.
EventsKept ==
  /\ DOMAIN event = Recommendations
  /\ \A e \in Recommendations :
       event[e] = Reports!Unborn \/ event[e] = Reports!Gone \/ (event[e].state = "live" /\ IsEvent(event[e]))
  /\ \A e, f \in Reports!Live : event[e].key = event[f].key => e = f

\* Only recommendations that are there have metrics.
MetricsKept ==
  \A e \in Recommendations, n \in AllWindows :
    \/ metric[e][n] = Reports!NoMetric
    \/ e \in Reports!Live /\ metric[e][n].status # "NONE" /\ metric[e][n].ret \in Int

\* The only metrics of another date than their recommendation's are those of an
\* evaluation that a repair overtook.
MetricsDated ==
  \A p \in Reports!Metrics \ overtaken : Reports!MetricOf(p).date = event[p[1]].date

\* The configuration names windows.
Configured == configured.windows \subseteq AllWindows /\ configured.windows # {}

\* What an evaluation will write is of recommendations and windows.
RunsKnown ==
  /\ DOMAIN run = Evaluators \union {Command}
  /\ \A l \in Evaluators \union {Command} :
       run[l].step = "loaded" => /\ DOMAIN run[l].loaded \subseteq Recommendations
                                 /\ run[l].windows \subseteq AllWindows

\* A plan that is to be applied has one update of a recommendation, to a key of its
\* own, and what the update leaves alone was not changed since.
PlanKept ==
  /\ DOMAIN repair = {"step", "updates"}
  /\ repair.step = "planned" =>
       /\ \A u \in repair.updates :
            /\ u.id \in Recommendations /\ event[u.id] # Reports!Unborn
            /\ u.id \in Reports!Live =>
                 /\ u.key = Reports!KeyOf(event[u.id].blogger, event[u.id].code, u.date)
                 /\ u.moves \/ event[u.id].date = u.date
       /\ \A u, v \in repair.updates : u.id = v.id \/ u.key = v.key => u = v

ReportsInv ==
  EventsKept /\ MetricsKept /\ MetricsDated /\ Configured /\ RunsKnown /\ PlanKept

-----------------------------------------------------------------------------
(* The invariant is inductive.                                             *)

LEMMA ReportsInitially ==
  ASSUME ReportsConstants, Reports!Init
  PROVE  ReportsInv
  <1>1. Reports!Live = {}
    BY DEF Reports!Init, Reports!Live, Reports!Unborn
  <1>2. Reports!Metrics = {}
    BY <1>1 DEF Reports!Metrics
  <1>3. EventsKept /\ MetricsKept /\ MetricsDated
    BY <1>1, <1>2 DEF Reports!Init, EventsKept, MetricsKept, MetricsDated
  <1>4. Configured
    <2>1. configured = [windows |-> AllWindows, version |-> Reports!Min(Versions)]
      BY DEF Reports!Init
    <2>2. configured.windows = AllWindows
      BY <2>1
    <2>3. AllWindows # {}
      BY DEF ReportsConstants
    <2> QED  BY <2>2, <2>3 DEF Configured
  <1>5. RunsKnown
    BY DEF RunsKnown, Reports!Init, Reports!NoRun
  <1>6. PlanKept
    BY DEF PlanKept, Reports!Init, Reports!NoRepair
  <1> QED  BY <1>3, <1>4, <1>5, <1>6 DEF ReportsInv

\* A finite set of numbers has a least one.
LEMMA LeastOf ==
  ASSUME NEW S \in SUBSET Nat, IsFiniteSet(S), S # {}
  PROVE  Reports!Min(S) \in S /\ \A y \in S : Reports!Min(S) <= y
  <1> DEFINE bad == {s \in SUBSET S : s # {} /\ ~\E y \in s : \A z \in s : y <= z}
  <1>1. ASSUME bad # {}
        PROVE  FALSE
    <2>1. PICK s \in bad : \A x \in s : s \ {x} \notin bad
      BY <1>1, SmallestSet
    <2>2. PICK x \in s : TRUE
      BY <2>1
    <2>3. CASE s \ {x} = {}
      <3>1. \A z \in s : x <= z
        BY <2>3
      <3> QED  BY <2>1, <2>2, <3>1
    <2>4. CASE s \ {x} # {}
      <3>1. PICK y \in s \ {x} : \A z \in s \ {x} : y <= z
        BY <2>1, <2>4
      <3>2. CASE x <= y
        <4>1. \A z \in s : x <= z
          BY <3>1, <3>2
        <4> QED  BY <2>1, <2>2, <4>1
      <3>3. CASE y <= x
        <4>1. \A z \in s : y <= z
          BY <3>1, <3>3
        <4> QED  BY <2>1, <3>1, <4>1
      <3> QED  BY <3>1, <3>2, <3>3
    <2> QED  BY <2>3, <2>4
  <1>2. PICK y \in S : \A z \in S : y <= z
    BY <1>1
  <1> QED  BY <1>2 DEF Reports!Min

\* What becomes of the recommendations: some go, and at most one comes, with an
\* id that was never used and a key that is free.
Replaced(gone, m, row) ==
  /\ DOMAIN event' = Recommendations
  /\ \A e \in Recommendations : event'[e] = IF e = m THEN row ELSE IF e \in gone THEN Reports!Gone ELSE event[e]
  /\ m \in Recommendations =>
       /\ event[m] = Reports!Unborn
       /\ row.state = "live" /\ IsEvent(row)
       /\ \A e \in Reports!Live \ gone : event[e].key # row.key

LEMMA PersistReplaces ==
  ASSUME ReportsConstants, ReportsInv, NEW d \in Documents, Reports!Persist(d)
  PROVE  \E m, row : Replaced(Reports!SectorEvents(d), m, row)
  <1> DEFINE gone == Reports!SectorEvents(d)
             rest == [e \in Recommendations |-> IF e \in gone THEN Reports!Gone ELSE event[e]]
             free == {e \in Recommendations : rest[e] = Reports!Unborn}
  <1>1. PICK new \in {<<>>} \union (Bloggers \X Recommended \X Dates) :
          LET known == \E e \in Recommendations : rest[e].state = "live" /\ rest[e].key = new
          IN  IF new = <<>> \/ known THEN event' = rest
              ELSE /\ free # {}
                   /\ event' = [rest EXCEPT ![Reports!Min(free)] =
                        [state |-> "live", doc |-> d, blogger |-> new[1], code |-> new[2],
                         date |-> new[3], key |-> new]]
    BY Zenon DEF Reports!Persist
  <1>2. CASE event' = rest
    <2>1. -1 \notin Recommendations
      BY DEF ReportsConstants
    <2>2. Replaced(gone, -1, <<>>)
      BY <1>2, <2>1 DEF Replaced
    <2> QED  BY <2>2
  <1>3. CASE event' # rest
    <2> DEFINE m == Reports!Min(free)
               row == [state |-> "live", doc |-> d, blogger |-> new[1], code |-> new[2],
                       date |-> new[3], key |-> new]
    <2>1. /\ new # <<>> /\ free # {} /\ event' = [rest EXCEPT ![m] = row]
          /\ ~\E e \in Recommendations : rest[e].state = "live" /\ rest[e].key = new
      BY <1>1, <1>3, Zenon
    <2>2. m \in free
      <3>1. IsFiniteSet(free) /\ free \in SUBSET Nat
        BY FS_Subset DEF ReportsConstants
      <3> HIDE DEF free
      <3> QED  BY <2>1, <3>1, LeastOf
    <2>3. PICK b \in Bloggers, c \in Recommended, t \in Dates : new = <<b, c, t>>
      BY <2>1
    <2>4. IsEvent(row) /\ row.state = "live" /\ row.key = new
      BY <2>3 DEF IsEvent, EventColumns, Reports!KeyOf
    <2> HIDE DEF m, row
    <2>5. \A e \in Reports!Live \ gone : event[e].key # new
      BY <2>1 DEF Reports!Live
    <2>6. m \in Recommendations /\ event[m] = Reports!Unborn
      BY <2>2 DEF Reports!Gone, Reports!Unborn
    <2>7. \A e \in Recommendations : event'[e] = IF e = m THEN row ELSE IF e \in gone THEN Reports!Gone ELSE event[e]
      BY <2>1
    <2>8. DOMAIN event' = Recommendations
      BY <2>1
    <2> HIDE DEF gone
    <2> QED  BY <2>4, <2>5, <2>6, <2>7, <2>8 DEF Replaced, gone
  <1> QED  BY <1>2, <1>3

\* After a replacement the recommendations are kept as they have to be.
LEMMA ReplacedKept ==
  ASSUME EventsKept, NEW gone \in SUBSET Reports!Live, NEW m, NEW row, Replaced(gone, m, row)
  PROVE  /\ EventsKept'
         /\ Reports!Live' = (Reports!Live \ gone) \union ({m} \intersect Recommendations)
         /\ \A e \in Reports!Live \ gone : event'[e] = event[e] /\ e # m
  <1>1. m \in Recommendations => m \notin Reports!Live
    BY DEF Replaced, Reports!Live, Reports!Unborn
  <1>2. \A e \in Reports!Live \ gone : event'[e] = event[e] /\ e # m /\ e \in Recommendations
    BY <1>1 DEF Replaced, Reports!Live
  <1>3. ASSUME NEW e \in Reports!Live'
        PROVE  e \in Reports!Live \ gone \/ (e = m /\ m \in Recommendations)
    <2>1. e \in Recommendations /\ event'[e].state = "live"
      BY DEF Reports!Live
    <2>2. event'[e] = IF e = m THEN row ELSE IF e \in gone THEN Reports!Gone ELSE event[e]
      BY <2>1 DEF Replaced
    <2>3. Reports!Gone.state # "live"
      BY DEF Reports!Gone
    <2>4. CASE e = m
      BY <2>1, <2>4
    <2>5. CASE e # m
      <3>1. e \notin gone /\ event'[e] = event[e]
        BY <2>1, <2>2, <2>3, <2>5
      <3> QED  BY <2>1, <3>1 DEF Reports!Live
    <2> QED  BY <2>4, <2>5
  <1>4. \A e \in Reports!Live \ gone : e \in Reports!Live'
    BY <1>2 DEF Reports!Live
  <1>5. m \in Recommendations => m \in Reports!Live' /\ event'[m] = row /\ IsEvent(row) /\ row.state = "live"
    BY DEF Replaced, Reports!Live
  <1>6. Reports!Live' = (Reports!Live \ gone) \union ({m} \intersect Recommendations)
    BY <1>3, <1>4, <1>5
  <1>7. ASSUME NEW e \in Recommendations
        PROVE  event'[e] = Reports!Unborn \/ event'[e] = Reports!Gone \/ (event'[e].state = "live" /\ IsEvent(event'[e]))
    BY <1>5 DEF Replaced, EventsKept
  <1>8. ASSUME NEW e \in Reports!Live', NEW f \in Reports!Live', event'[e].key = event'[f].key
        PROVE  e = f
    <2>1. CASE e \in Reports!Live \ gone /\ f \in Reports!Live \ gone
      BY <1>2, <1>8, <2>1 DEF EventsKept
    <2>2. \A g \in Reports!Live \ gone : m \in Recommendations => event'[g].key # event'[m].key
      BY <1>2, <1>5 DEF Replaced
    <2> QED  BY <1>3, <1>8, <2>1, <2>2
  <1>9. DOMAIN event' = Recommendations
    BY DEF Replaced
  <1> HIDE DEF EventsKept
  <1>10. EventsKept'
    BY <1>7, <1>8, <1>9, Zenon DEF EventsKept, IsEvent, Reports!KeyOf, Reports!Unborn, Reports!Gone
  <1> QED  BY <1>2, <1>6, <1>10

\* The metrics of recommendations that go are dropped, and those that stay are of the
\* date that they were of.
LEMMA DropKeeps ==
  ASSUME NEW gone, Reports!Drop(gone), MetricsKept, MetricsDated,
         \A e \in Reports!Live : e \in gone \/ (e \in Reports!Live' /\ event'[e].date = event[e].date)
  PROVE  MetricsKept' /\ MetricsDated'
  <1>1. ASSUME NEW e \in Recommendations, NEW n \in AllWindows
        PROVE  \/ metric'[e][n] = Reports!NoMetric
               \/ e \notin gone /\ metric'[e][n] = metric[e][n] /\ e \in Reports!Live /\ e \in Reports!Live'
    <2>1. CASE e \in gone
      BY <2>1 DEF Reports!Drop
    <2>2. CASE e \notin gone
      <3>1. metric'[e][n] = metric[e][n]
        BY <2>2 DEF Reports!Drop
      <3> QED  BY <2>2, <3>1 DEF MetricsKept
    <2> QED  BY <2>1, <2>2
  <1>2. MetricsKept'
    BY <1>1, Zenon DEF MetricsKept, Reports!NoMetric
  <1>3. ASSUME NEW p \in (Reports!Metrics \ overtaken)'
        PROVE  Reports!MetricOf(p)' = Reports!MetricOf(p) /\ p \in Reports!Metrics \ overtaken /\ p[1] \notin gone
    <2>1. p[1] \in Recommendations /\ p[2] \in AllWindows /\ metric'[p[1]][p[2]] # Reports!NoMetric
          /\ p \in Reports!Live' \X AllWindows
      BY DEF Reports!Metrics, Reports!Live, Reports!NoMetric
    <2>2. p[1] \notin gone /\ metric'[p[1]][p[2]] = metric[p[1]][p[2]] /\ p[1] \in Reports!Live
      BY <1>1, <2>1
    <2>3. p \in Reports!Metrics
      BY <2>1, <2>2 DEF Reports!Metrics
    <2>4. p \notin overtaken
      BY <2>2 DEF Reports!Drop
    <2> QED  BY <2>2, <2>3, <2>4 DEF Reports!MetricOf
  <1>4. ASSUME NEW p \in (Reports!Metrics \ overtaken)'
        PROVE  Reports!MetricOf(p)'.date = event'[p[1]].date
    <2>1. p[1] \in Reports!Live
      BY <1>3 DEF Reports!Metrics
    <2> QED  BY <1>3, <1>4, <2>1 DEF MetricsDated
  <1>5. MetricsDated'
    BY <1>4 DEF MetricsDated
  <1> QED  BY <1>2, <1>5

\* A plan that waits is not disturbed by recommendations that come or go.
LEMMA PlanStays ==
  ASSUME PlanKept, UNCHANGED repair,
         \A e \in Recommendations : event[e] # Reports!Unborn => event'[e] # Reports!Unborn,
         \A e \in Recommendations : event[e] # Reports!Unborn /\ e \in Reports!Live' =>
           e \in Reports!Live /\ event'[e] = event[e]
  PROVE  PlanKept'
  BY Zenon DEF PlanKept, Reports!Unborn, Reports!KeyOf

LEMMA PersistKeepsReports ==
  ASSUME ReportsConstants, ReportsInv, NEW d \in Documents, Reports!Persist(d)
  PROVE  ReportsInv'
  <1> DEFINE gone == Reports!SectorEvents(d)
  <1>1. PICK m, row : Replaced(gone, m, row)
    BY PersistReplaces
  <1>2. gone \in SUBSET Reports!Live /\ Reports!Drop(gone) /\ UNCHANGED <<configured, run, repair>>
    BY DEF Reports!SectorEvents, Reports!Persist
  <1> HIDE DEF gone
  <1>3. /\ EventsKept'
        /\ Reports!Live' = (Reports!Live \ gone) \union ({m} \intersect Recommendations)
        /\ \A e \in Reports!Live \ gone : event'[e] = event[e] /\ e # m
    BY <1>1, <1>2, ReplacedKept DEF ReportsInv
  <1>4. MetricsKept' /\ MetricsDated'
    <2>1. \A e \in Reports!Live : e \in gone \/ (e \in Reports!Live' /\ event'[e].date = event[e].date)
      BY <1>3
    <2>2. MetricsKept /\ MetricsDated
      BY DEF ReportsInv
    <2> QED  BY <1>2, <2>1, <2>2, DropKeeps, Zenon
  <1>5. Configured' /\ RunsKnown'
    BY <1>2 DEF ReportsInv, Configured, RunsKnown
  <1>6. PlanKept'
    <2>1. \A e \in Recommendations : event[e] # Reports!Unborn => event'[e] # Reports!Unborn
      <3>1. Reports!Gone # Reports!Unborn
        BY DEF Reports!Gone, Reports!Unborn
      <3> QED  BY <1>1, <3>1 DEF Replaced
    <2>2. \A e \in Recommendations : event[e] # Reports!Unborn /\ e \in Reports!Live' =>
            e \in Reports!Live /\ event'[e] = event[e]
      BY <1>1, <1>3 DEF Replaced
    <2> QED  BY <1>2, <2>1, <2>2, PlanStays DEF ReportsInv
  <1> QED  BY <1>3, <1>4, <1>5, <1>6 DEF ReportsInv

\* What depends on the recommendations and the metrics alone.
LEMMA SameRows ==
  ASSUME ReportsInv, UNCHANGED <<event, metric, overtaken>>
  PROVE  EventsKept' /\ MetricsKept' /\ MetricsDated'
  <1>1. Reports!Live' = Reports!Live /\ Reports!Metrics' = Reports!Metrics
    BY DEF Reports!Live, Reports!Metrics, Reports!NoMetric
  <1>2. EventsKept'
    BY <1>1 DEF ReportsInv, EventsKept, Reports!Unborn, Reports!Gone, IsEvent, Reports!KeyOf
  <1>3. MetricsKept'
    BY <1>1 DEF ReportsInv, MetricsKept, Reports!NoMetric
  <1>4. MetricsDated'
    BY <1>1 DEF ReportsInv, MetricsDated, Reports!MetricOf
  <1> QED  BY <1>2, <1>3, <1>4

LEMMA SamePlan ==
  ASSUME ReportsInv, UNCHANGED <<event, repair>>
  PROVE  PlanKept'
  BY DEF ReportsInv, PlanKept, Reports!Live, Reports!KeyOf, Reports!Unborn

LEMMA ReloadKeepsReports ==
  ASSUME ReportsInv, Reports!Reload
  PROVE  ReportsInv'
  <1>1. Configured'
    <2>1. configured' \in [windows : (SUBSET AllWindows) \ {{}}, version : Versions]
      BY DEF Reports!Reload, Reports!ValidSettings
    <2>2. configured'.windows \in SUBSET AllWindows /\ configured'.windows # {}
      BY <2>1
    <2> QED  BY <2>2 DEF Configured
  <1>2. RunsKnown'
    BY DEF ReportsInv, RunsKnown, Reports!Reload
  <1> QED  BY <1>1, <1>2, SameRows, SamePlan DEF ReportsInv, Reports!Reload

\* What an evaluation loads is of recommendations that are there.
LEMMA LoadKnown ==
  ASSUME RunsKnown, Configured, NEW l \in Evaluators \union {Command},
         NEW events \in SUBSET Recommendations, NEW force \in BOOLEAN, Reports!Load(l, events, force)
  PROVE  RunsKnown'
  <1>1. run'[l].loaded = [e \in events |-> event[e].date] /\ run'[l].windows = configured.windows
    BY DEF Reports!Load, RunsKnown
  <1>2. DOMAIN run' = Evaluators \union {Command}
        /\ \A k \in Evaluators \union {Command} : k # l => run'[k] = run[k]
    BY DEF Reports!Load, RunsKnown
  <1> QED  BY <1>1, <1>2 DEF RunsKnown, Configured

LEMMA LoadEventsKeepsReports ==
  ASSUME ReportsInv, NEW l \in Evaluators, Reports!LoadEvents(l)
  PROVE  ReportsInv'
  <1>1. PICK force \in BOOLEAN : Reports!Load(l, Reports!Live, force)
    BY DEF Reports!LoadEvents
  <1>2. Reports!Live \in SUBSET Recommendations
    BY DEF Reports!Live
  <1>3. RunsKnown'
    BY <1>1, <1>2, LoadKnown DEF ReportsInv
  <1>4. UNCHANGED <<event, metric, configured, repair, overtaken>>
    BY DEF Reports!LoadEvents
  <1> QED  BY <1>3, <1>4, SameRows, SamePlan DEF ReportsInv, Configured

LEMMA EvaluateRepairedKeepsReports ==
  ASSUME ReportsInv, Reports!EvaluateRepaired
  PROVE  ReportsInv'
  <1>1. UNCHANGED <<event, metric, configured, overtaken>>
    BY DEF Reports!EvaluateRepaired
  <1>2. RunsKnown'
    <2>1. CASE UNCHANGED run
      BY <2>1 DEF ReportsInv, RunsKnown
    <2>2. CASE Reports!Load(Command, Reports!Moved \intersect Reports!Live, TRUE)
      <3>1. Reports!Moved \intersect Reports!Live \in SUBSET Recommendations
        BY DEF Reports!Live
      <3> QED  BY <2>2, <3>1, LoadKnown DEF ReportsInv
    <2> QED  BY <2>1, <2>2 DEF Reports!EvaluateRepaired
  <1>3. PlanKept'
    <2>1. repair' = [repair EXCEPT !.step = "evaluated"] \/ repair' = [repair EXCEPT !.step = "evaluating"]
      BY DEF Reports!EvaluateRepaired
    <2>2. DOMAIN repair' = {"step", "updates"} /\ repair'.step # "planned"
      BY <2>1 DEF ReportsInv, PlanKept
    <2> QED  BY <2>2 DEF PlanKept
  <1> QED  BY <1>1, <1>2, <1>3, SameRows DEF ReportsInv, Configured

LEMMA AcceptRepairKeepsReports ==
  ASSUME ReportsInv, Reports!AcceptRepair
  PROVE  ReportsInv'
  <1>1. UNCHANGED <<event, metric, configured, overtaken>>
        /\ repair' = Reports!NoRepair /\ run' = [run EXCEPT ![Command] = Reports!NoRun]
    BY DEF Reports!AcceptRepair
  <1>2. RunsKnown'
    BY <1>1 DEF ReportsInv, RunsKnown, Reports!NoRun
  <1>3. PlanKept'
    BY <1>1 DEF PlanKept, Reports!NoRepair
  <1> QED  BY <1>1, <1>2, <1>3, SameRows DEF ReportsInv, Configured

\* The plan has an update of a recommendation once, and no two that end at one key.
LEMMA BuildRepairPlanKeepsReports ==
  ASSUME ReportsInv, Reports!BuildRepairPlan
  PROVE  ReportsInv'
  <1>1. /\ repair' = [step |-> "planned", updates |-> Reports!Updates]
        /\ \A e, f \in Reports!Live : Reports!FinalKey(e) = Reports!FinalKey(f) => e = f
        /\ UNCHANGED <<event, metric, configured, run, overtaken>>
    BY DEF Reports!BuildRepairPlan
  <1>2. ASSUME NEW u \in Reports!Updates
        PROVE  /\ u.id \in Reports!Live /\ event[u.id].doc \in Dated
               /\ u = [id |-> u.id, date |-> ArticleDate[event[u.id].doc],
                       key |-> Reports!KeyOf(event[u.id].blogger, event[u.id].code, ArticleDate[event[u.id].doc]),
                       moves |-> event[u.id].date # ArticleDate[event[u.id].doc]]
    BY DEF Reports!Updates
  <1>3. ASSUME NEW u \in Reports!Updates
        PROVE  /\ u.date = ArticleDate[event[u.id].doc]
               /\ u.key = Reports!KeyOf(event[u.id].blogger, event[u.id].code, u.date)
               /\ u.key = Reports!FinalKey(u.id)
               /\ u.moves \/ event[u.id].date = u.date
    <2>1. /\ u.date = ArticleDate[event[u.id].doc]
          /\ u.key = Reports!KeyOf(event[u.id].blogger, event[u.id].code, ArticleDate[event[u.id].doc])
          /\ u.moves = (event[u.id].date # ArticleDate[event[u.id].doc])
      BY <1>2
    <2> QED  BY <1>2, <2>1 DEF Reports!FinalKey
  <1>4. ASSUME NEW u \in Reports!Updates, NEW v \in Reports!Updates, u.id = v.id \/ u.key = v.key
        PROVE  u = v
    <2>1. u.id = v.id
      BY <1>1, <1>2, <1>3, <1>4
    <2> QED  BY <1>2, <2>1, Zenon
  <1>5. Reports!Live' = Reports!Live
    BY <1>1 DEF Reports!Live
  <1>6. ASSUME NEW u \in repair'.updates
        PROVE  /\ u.id \in Recommendations /\ event'[u.id] # Reports!Unborn
               /\ u.id \in Reports!Live' =>
                    /\ u.key = Reports!KeyOf(event'[u.id].blogger, event'[u.id].code, u.date)
                    /\ u.moves \/ event'[u.id].date = u.date
    <2>1. u \in Reports!Updates /\ event' = event
      BY <1>1
    <2>2. u.id \in Recommendations /\ event[u.id].state = "live"
      BY <1>2, <2>1 DEF Reports!Live
    <2>3. event[u.id] # Reports!Unborn
      BY <2>2 DEF Reports!Unborn
    <2> QED  BY <1>3, <2>1, <2>2, <2>3
  <1>7. repair'.updates = Reports!Updates /\ DOMAIN repair' = {"step", "updates"}
    BY <1>1
  <1>8. PlanKept'
    BY <1>4, <1>6, <1>7, Zenon DEF PlanKept, Reports!Unborn, Reports!KeyOf
  <1>9. Configured' /\ RunsKnown'
    BY <1>1 DEF ReportsInv, Configured, RunsKnown
  <1> QED  BY <1>1, <1>8, <1>9, SameRows DEF ReportsInv

\* What an evaluation writes is of recommendations that are there, and the dates that a
\* repair overtook are known.
LEMMA UpsertMetricsKeepsReports ==
  ASSUME ReportsConstants, ReportsInv, NEW l \in Evaluators \union {Command}, Reports!UpsertMetrics(l)
  PROVE  ReportsInv'
  <1>1. UNCHANGED <<event, configured, repair>> /\ Reports!Live' = Reports!Live
    BY DEF Reports!UpsertMetrics, Reports!Live
  <1>2. RunsKnown'
    <2>1. PICK after \in {"succeeded", "failed", "idle"} :
            run' = [run EXCEPT ![l] = [Reports!NoRun EXCEPT !.step = after]]
      BY DEF Reports!UpsertMetrics
    <2>2. run'[l].step # "loaded" /\ DOMAIN run' = DOMAIN run
          /\ \A k \in Evaluators \union {Command} : k # l => run'[k] = run[k]
      BY <2>1 DEF ReportsInv, RunsKnown, Reports!NoRun
    <2> QED  BY <2>2 DEF ReportsInv, RunsKnown
  <1>3. Configured' /\ PlanKept'
    BY <1>1, SamePlan DEF ReportsInv, Configured
  <1>4. CASE UNCHANGED <<metric, overtaken>>
    BY <1>1, <1>2, <1>3, <1>4, SameRows DEF ReportsInv
  <1>5. CASE ~UNCHANGED <<metric, overtaken>>
    <2> DEFINE written == Reports!Written(l)
    <2>1. PICK found \in [written -> Results] :
            /\ metric' = [e \in Recommendations |-> [n \in AllWindows |->
                 IF <<e, n>> \in written
                   THEN [status |-> found[<<e, n>>].status, ret |-> found[<<e, n>>].ret,
                         date |-> run[l].loaded[e], version |-> run[l].version]
                   ELSE metric[e][n]]]
            /\ overtaken' = (overtaken \ written)
                 \union {p \in written : run[l].loaded[p[1]] # event[p[1]].date}
      BY <1>5 DEF Reports!UpsertMetrics
    <2>2. \A p \in written : p[1] \in Reports!Live
      BY <1>5 DEF Reports!UpsertMetrics
    <2>3. ASSUME NEW e \in Recommendations, NEW n \in AllWindows, <<e, n>> \in written
          PROVE  /\ e \in Reports!Live
                 /\ metric'[e][n].status # "NONE" /\ metric'[e][n].ret \in Int
                 /\ metric'[e][n].date = run[l].loaded[e]
      <3>1. metric'[e][n] = [status |-> found[<<e, n>>].status, ret |-> found[<<e, n>>].ret,
                             date |-> run[l].loaded[e], version |-> run[l].version]
        BY <2>1, <2>3
      <3>2. found[<<e, n>>].status # "NONE" /\ found[<<e, n>>].ret \in Int
        BY <2>1, <2>3 DEF ReportsConstants
      <3> QED  BY <2>2, <2>3, <3>1, <3>2
    <2>4. \A e \in Recommendations, n \in AllWindows : <<e, n>> \notin written => metric'[e][n] = metric[e][n]
      BY <2>1
    <2> HIDE DEF written
    <2>5. MetricsKept'
      <3>1. ASSUME NEW e \in Recommendations, NEW n \in AllWindows
            PROVE  \/ metric'[e][n] = Reports!NoMetric
                   \/ (e \in Reports!Live' /\ metric'[e][n].status # "NONE" /\ metric'[e][n].ret \in Int)
        BY <1>1, <2>3, <2>4 DEF ReportsInv, MetricsKept
      <3> QED  BY <3>1, Zenon DEF MetricsKept, Reports!NoMetric
    <2>6. ASSUME NEW p \in (Reports!Metrics \ overtaken)'
          PROVE  Reports!MetricOf(p)'.date = event'[p[1]].date
      <3>1. /\ p[1] \in Recommendations /\ p[2] \in AllWindows /\ p = <<p[1], p[2]>>
            /\ p \in Reports!Live \X AllWindows
            /\ metric'[p[1]][p[2]] # Reports!NoMetric /\ p \notin overtaken'
        BY <1>1 DEF Reports!Metrics, Reports!Live, Reports!NoMetric
      <3>2. CASE p \in written
        <4>1. run[l].loaded[p[1]] = event[p[1]].date
          BY <2>1, <3>1, <3>2
        <4>2. metric'[p[1]][p[2]].date = run[l].loaded[p[1]]
          BY <2>3, <3>1, <3>2
        <4> QED  BY <1>1, <4>1, <4>2 DEF Reports!MetricOf
      <3>3. CASE p \notin written
        <4>1. metric'[p[1]][p[2]] = metric[p[1]][p[2]]
          BY <2>4, <3>1, <3>3
        <4>2. p \in Reports!Metrics \ overtaken
          BY <2>1, <3>1, <3>3, <4>1 DEF Reports!Metrics
        <4> QED  BY <1>1, <4>1, <4>2 DEF Reports!MetricOf, ReportsInv, MetricsDated
      <3> QED  BY <3>2, <3>3
    <2>7. MetricsDated'
      BY <2>6 DEF MetricsDated
    <2>8. EventsKept'
      BY <1>1 DEF ReportsInv, EventsKept, Reports!Unborn, Reports!Gone, IsEvent, Reports!KeyOf
    <2> QED  BY <1>2, <1>3, <2>5, <2>7, <2>8 DEF ReportsInv
  <1> QED  BY <1>4, <1>5

\* The update that a repair applies to a recommendation of its plan.
LEMMA OneUpdate ==
  ASSUME PlanKept, repair.step = "planned", NEW u \in repair.updates
  PROVE  Reports!UpdateOf(u.id) = u
  <1>1. Reports!UpdateOf(u.id) \in repair.updates /\ Reports!UpdateOf(u.id).id = u.id
    BY Zenon DEF Reports!UpdateOf
  <1> QED  BY <1>1 DEF PlanKept

\* The repair moves recommendations to dates and keys that belong together, no two to
\* one key, and the metrics of the old dates go with it.
LEMMA ApplyRepairPlanKeepsReports ==
  ASSUME ReportsInv, Reports!ApplyRepairPlan
  PROVE  ReportsInv'
  <1> DEFINE ids == {u.id : u \in repair.updates}
             fits == /\ ids \subseteq Reports!Live
                     /\ \A e \in Reports!Live \ ids : \A u \in repair.updates : event[e].key # u.key
  <1>1. repair.step = "planned" /\ UNCHANGED <<configured, run, edits>>
    BY DEF Reports!ApplyRepairPlan
  <1>2. Configured' /\ RunsKnown'
    BY <1>1 DEF ReportsInv, Configured, RunsKnown
  <1>3. CASE ~fits
    <2>1. repair' = Reports!NoRepair /\ UNCHANGED <<event, metric, overtaken>>
      BY <1>3 DEF Reports!ApplyRepairPlan
    <2>2. PlanKept'
      BY <2>1 DEF PlanKept, Reports!NoRepair
    <2> QED  BY <1>2, <2>1, <2>2, SameRows DEF ReportsInv
  <1>4. CASE fits
    <2>1. /\ event' = [e \in Recommendations |->
                IF e \in ids
                THEN [event[e] EXCEPT !.date = Reports!UpdateOf(e).date, !.key = Reports!UpdateOf(e).key]
                ELSE event[e]]
          /\ Reports!Drop(Reports!Moved)
          /\ repair' = [repair EXCEPT !.step = "applied"]
      BY <1>4 DEF Reports!ApplyRepairPlan, Reports!DeleteMetrics
    <2>2. PlanKept'
      <3>1. DOMAIN repair' = {"step", "updates"} /\ repair'.step # "planned"
        BY <2>1 DEF ReportsInv, PlanKept
      <3> QED  BY <3>1 DEF PlanKept
    <2>3. ASSUME NEW u \in repair.updates
          PROVE  /\ u.id \in Reports!Live /\ IsEvent(event'[u.id]) /\ event'[u.id].state = "live"
                 /\ event'[u.id].date = u.date /\ event'[u.id].key = u.key
                 /\ u.moves \/ event[u.id].date = u.date
      <3>1. u.id \in Reports!Live /\ u.id \in ids
        BY <1>4
      <3>2. event'[u.id] = [event[u.id] EXCEPT !.date = u.date, !.key = u.key]
        BY <1>1, <2>1, <3>1, OneUpdate DEF ReportsInv, Reports!Live
      <3>3. IsEvent(event[u.id]) /\ event[u.id].state = "live"
        BY <3>1 DEF ReportsInv, EventsKept, Reports!Live, Reports!Unborn, Reports!Gone
      <3>4. u.key = Reports!KeyOf(event[u.id].blogger, event[u.id].code, u.date)
            /\ (u.moves \/ event[u.id].date = u.date)
        BY <1>1, <3>1 DEF ReportsInv, PlanKept
      <3>5. /\ event'[u.id].blogger = event[u.id].blogger /\ event'[u.id].code = event[u.id].code
            /\ event'[u.id].date = u.date /\ event'[u.id].key = u.key /\ event'[u.id].state = event[u.id].state
            /\ DOMAIN event'[u.id] = DOMAIN event[u.id]
        BY <3>2, <3>3 DEF IsEvent, EventColumns
      <3> QED  BY <3>1, <3>3, <3>4, <3>5 DEF IsEvent
    <2>4. \A e \in Recommendations \ ids : event'[e] = event[e]
      BY <2>1
    <2>5. DOMAIN event' = Recommendations
      BY <2>1
    <2> HIDE DEF fits
    <2>6. \A e \in ids : e \in Reports!Live /\ IsEvent(event'[e]) /\ event'[e].state = "live"
                         /\ \E u \in repair.updates : u.id = e
      BY <2>3
    <2> HIDE DEF ids
    <2>7. Reports!Live' = Reports!Live
      BY <2>4, <2>6 DEF Reports!Live
    <2>8. ASSUME NEW e \in Recommendations
          PROVE  event'[e] = Reports!Unborn \/ event'[e] = Reports!Gone
                 \/ (event'[e].state = "live" /\ IsEvent(event'[e]))
      BY <2>4, <2>6 DEF ReportsInv, EventsKept
    <2>9. ASSUME NEW e \in Reports!Live', NEW f \in Reports!Live', event'[e].key = event'[f].key
          PROVE  e = f
      <3>1. CASE e \in ids /\ f \in ids
        <4>1. PICK u \in repair.updates : u.id = e
          BY <2>6, <3>1
        <4>2. PICK v \in repair.updates : v.id = f
          BY <2>6, <3>1
        <4>3. u.key = v.key
          BY <2>3, <2>9, <4>1, <4>2
        <4> QED  BY <1>1, <4>1, <4>2, <4>3 DEF ReportsInv, PlanKept
      <3>2. CASE e \notin ids /\ f \notin ids
        BY <2>4, <2>7, <2>9, <3>2 DEF ReportsInv, EventsKept, Reports!Live
      <3>3. \A g, h \in Reports!Live : g \in ids /\ h \notin ids => event'[g].key # event'[h].key
        <4> SUFFICES ASSUME NEW g \in Reports!Live, NEW h \in Reports!Live, g \in ids, h \notin ids
                     PROVE  event'[g].key # event'[h].key
          OBVIOUS
        <4>1. PICK u \in repair.updates : u.id = g
          BY <2>6
        <4>2. event'[g].key = u.key
          BY <2>3, <4>1
        <4>3. event'[h].key = event[h].key
          BY <2>4 DEF Reports!Live
        <4>4. event[h].key # u.key
          BY <1>4 DEF fits
        <4> QED  BY <4>2, <4>3, <4>4
      <3> QED  BY <2>7, <2>9, <3>1, <3>2, <3>3
    <2>10. EventsKept'
      <3> HIDE DEF EventsKept
      <3> QED  BY <2>5, <2>8, <2>9, Zenon DEF EventsKept, IsEvent, Reports!KeyOf, Reports!Unborn, Reports!Gone
    <2>11. \A e \in Reports!Live : e \in Reports!Moved \/ (e \in Reports!Live' /\ event'[e].date = event[e].date)
      <3> SUFFICES ASSUME NEW e \in Reports!Live, e \notin Reports!Moved
                   PROVE  event'[e].date = event[e].date
        BY <2>7
      <3>1. CASE e \notin ids
        BY <2>4, <3>1 DEF Reports!Live
      <3>2. CASE e \in ids
        <4>1. PICK u \in repair.updates : u.id = e
          BY <2>6, <3>2
        <4>2. ~u.moves
          BY <4>1 DEF Reports!Moved
        <4> QED  BY <2>3, <4>1, <4>2
      <3> QED  BY <3>1, <3>2
    <2>12. MetricsKept' /\ MetricsDated'
      <3>1. MetricsKept /\ MetricsDated
        BY DEF ReportsInv
      <3> QED  BY <2>1, <2>11, <3>1, DropKeeps, Zenon
    <2> QED  BY <1>2, <2>2, <2>10, <2>12 DEF ReportsInv
  <1> QED  BY <1>3, <1>4

LEMMA ReportsStutter ==
  ASSUME ReportsInv, UNCHANGED Reports!vars
  PROVE  ReportsInv'
  <1>1. UNCHANGED <<event, metric, configured, run, repair, overtaken>>
    BY DEF Reports!vars
  <1> QED  BY <1>1, SameRows, SamePlan DEF ReportsInv, Configured, RunsKnown

LEMMA ReportsStep ==
  ASSUME ReportsConstants, ReportsInv, [Reports!Next]_(Reports!vars)
  PROVE  ReportsInv'
  <1>1. CASE \E d \in Documents : Reports!Persist(d)
    BY <1>1, PersistKeepsReports
  <1>2. CASE Reports!Reload
    BY <1>2, ReloadKeepsReports
  <1>3. CASE Reports!BuildRepairPlan
    BY <1>3, BuildRepairPlanKeepsReports
  <1>4. CASE Reports!ApplyRepairPlan
    BY <1>4, ApplyRepairPlanKeepsReports
  <1>5. CASE Reports!EvaluateRepaired
    BY <1>5, EvaluateRepairedKeepsReports
  <1>6. CASE Reports!AcceptRepair
    BY <1>6, AcceptRepairKeepsReports
  <1>7. CASE \E l \in Evaluators : Reports!LoadEvents(l)
    BY <1>7, LoadEventsKeepsReports
  <1>8. CASE \E l \in Evaluators \union {Command} : Reports!UpsertMetrics(l)
    BY <1>8, UpsertMetricsKeepsReports
  <1>9. CASE UNCHANGED Reports!vars
    BY <1>9, ReportsStutter
  <1> QED  BY <1>1, <1>2, <1>3, <1>4, <1>5, <1>6, <1>7, <1>8, <1>9 DEF Reports!Next

\* Keys, metrics and dates stay as the reports assume them, through replaced documents,
\* evaluations that are overtaken, repairs and new configurations.
THEOREM ReportsInvariance ==
  ASSUME ReportsConstants
  PROVE  Reports!Spec => []ReportsInv
  <1>1. Reports!Init => ReportsInv
    BY ReportsInitially
  <1>2. ReportsInv /\ [Reports!Next]_(Reports!vars) => ReportsInv'
    BY ReportsStep
  <1> QED  BY <1>1, <1>2, PTL DEF Reports!Spec

-----------------------------------------------------------------------------
(* Rows and what is counted of them.                                       *)

LEMMA RowsFinite ==
  ASSUME ReportsConstants, NEW S \in SUBSET (Recommendations \X AllWindows)
  PROVE  IsFiniteSet(S) /\ Cardinality(S) \in Nat
  <1>1. IsFiniteSet(Recommendations) /\ IsFiniteSet(AllWindows)
    BY DEF ReportsConstants
  <1>2. IsFiniteSet(Recommendations \X AllWindows)
    BY <1>1, FS_Product
  <1>3. IsFiniteSet(S)
    BY <1>2, FS_Subset
  <1> QED  BY <1>3, FS_CardinalityType

\* The rows that have a value, those that rose, their returns and statuses.
With(rows, value, v) == {p \in rows : value[p] = v}
Rises(rows) == {p \in rows : Reports!RetOf(p) > 0}
Returns(rows) == [p \in rows |-> Reports!RetOf(p)]
StatusesOf(rows) == [p \in rows |-> Reports!StatusOf(p)]
Values(rows, value) == {value[p] : p \in rows}
ReadyOf(rows) == {p \in rows : Reports!StatusOf(p) = "READY"}

LEMMA AggregateIs ==
  ASSUME NEW rows, NEW status
  PROVE  Reports!Aggregate(rows, status) =
           [sample |-> Cardinality(rows), evaluated |-> Cardinality(With(rows, status, "READY")),
            pending |-> Cardinality(With(rows, status, "PENDING")),
            incomplete |-> Cardinality(rows \ (With(rows, status, "READY") \union With(rows, status, "PENDING"))),
            wins |-> Cardinality(Rises(With(rows, status, "READY"))),
            total |-> TotalOf(Returns(With(rows, status, "READY")), With(rows, status, "READY"))]
  <1> DEFINE ready == With(rows, status, "READY")
             pending == With(rows, status, "PENDING")
  <1>1. Reports!Aggregate(rows, status) =
          [sample |-> Reports!Cardinality(rows), evaluated |-> Reports!Cardinality(ready),
           pending |-> Reports!Cardinality(pending),
           incomplete |-> Reports!Cardinality(rows \ (ready \union pending)),
           wins |-> Reports!Cardinality(Rises(ready)),
           total |-> Reports!SumFunctionOnSet(Returns(ready), ready)]
    BY DEF Reports!Aggregate, With, Rises, Returns
  <1> HIDE DEF ready, pending
  <1>2. Reports!Aggregate(rows, status) =
          [sample |-> Cardinality(rows), evaluated |-> Cardinality(ready),
           pending |-> Cardinality(pending), incomplete |-> Cardinality(rows \ (ready \union pending)),
           wins |-> Cardinality(Rises(ready)), total |-> TotalOf(Returns(ready), ready)]
    BY <1>1, SameCount DEF TotalOf
  <1> QED  BY <1>2 DEF ready, pending

\* The aggregate of a key is that of its rows.
LEMMA TotalsIs ==
  ASSUME NEW rows, NEW key
  PROVE  /\ DOMAIN Reports!Totals(rows, key) = Values(rows, key)
         /\ \A k \in Values(rows, key) :
              Reports!Totals(rows, key)[k] = Reports!Aggregate(With(rows, key, k), StatusesOf(With(rows, key, k)))
  <1>1. Reports!Totals(rows, key) =
          [k \in Values(rows, key) |-> Reports!Aggregate(With(rows, key, k), StatusesOf(With(rows, key, k)))]
    BY Zenon DEF Reports!Totals, With, Values, StatusesOf
  <1>2. DOMAIN Reports!Totals(rows, key) = Values(rows, key)
    BY <1>1
  <1>3. ASSUME NEW k \in Values(rows, key)
        PROVE  Reports!Totals(rows, key)[k] = Reports!Aggregate(With(rows, key, k), StatusesOf(With(rows, key, k)))
    BY <1>1
  <1> QED  BY <1>2, <1>3

LEMMA TotalsEvaluated ==
  ASSUME NEW rows, NEW key, NEW k \in Values(rows, key)
  PROVE  Reports!Totals(rows, key)[k].evaluated = Cardinality(With(ReadyOf(rows), key, k))
  <1> DEFINE of == With(rows, key, k)
             status == StatusesOf(of)
  <1>1. Reports!Totals(rows, key)[k] = Reports!Aggregate(of, status)
    BY TotalsIs
  <1>2. With(of, status, "READY") = With(ReadyOf(rows), key, k)
    BY DEF ReadyOf, With, StatusesOf
  <1> HIDE DEF of, status
  <1>3. Reports!Aggregate(of, status).evaluated = Cardinality(With(of, status, "READY"))
    BY AggregateIs
  <1> QED  BY <1>1, <1>2, <1>3

\* The keys' evaluations are all those of the rows.
LEMMA OverTotals ==
  ASSUME NEW rows, IsFiniteSet(rows), NEW key
  PROVE  Reports!Over(Reports!Totals(rows, key)) = Cardinality(ReadyOf(rows))
  <1> DEFINE K == Values(rows, key)
             ready == ReadyOf(rows)
             totals == Reports!Totals(rows, key)
             f == [k \in K |-> Cardinality(With(ready, key, k))]
  <1>1. IsFiniteSet(K)
    <2>1. [p \in rows |-> key[p]] \in Surjection(rows, K)
      BY DEF Surjection, Values
    <2> QED  BY <2>1, FS_Surjection
  <1>2. IsFiniteSet(ready) /\ \A p \in ready : key[p] \in K
    BY FS_Subset DEF ReadyOf, Values
  <1>3. DOMAIN totals = K
    BY TotalsIs
  <1>4. \A k \in K : totals[k].evaluated = Cardinality(With(ready, key, k))
    BY TotalsEvaluated
  <1> HIDE DEF totals, K, ready
  <1>5. [k \in DOMAIN totals |-> totals[k].evaluated] = f
    BY <1>3, <1>4
  <1>6. Reports!Over(totals) = TotalOf(f, K)
    BY <1>3, <1>5 DEF Reports!Over, TotalOf
  <1>7. f = [k \in K |-> Cardinality({p \in ready : key[p] = k})]
    BY DEF With
  <1>8. TotalOf([k \in K |-> Cardinality({p \in ready : key[p] = k})], K) = Cardinality(ready)
    BY <1>1, <1>2, CountsAddUp
  <1> QED  BY <1>6, <1>7, <1>8 DEF totals, ready

LEMMA MetricRowsFinite ==
  ASSUME ReportsConstants, NEW n, NEW days
  PROVE  /\ Reports!MetricRows(n, days) \subseteq Reports!Metrics
         /\ Reports!Metrics \in SUBSET (Recommendations \X AllWindows)
         /\ IsFiniteSet(Reports!MetricRows(n, days))
  <1>1. Reports!MetricRows(n, days) \subseteq Reports!Metrics
    BY DEF Reports!MetricRows
  <1>2. Reports!Metrics \in SUBSET (Recommendations \X AllWindows)
    BY DEF Reports!Metrics, Reports!Live
  <1> QED  BY <1>1, <1>2, RowsFinite

\* The rankings of bloggers and of securities and the time series count the same rows.
LEMMA RankingsDoAgree ==
  ASSUME ReportsConstants, NEW n, NEW days
  PROVE  Reports!RankingsAgree(n, days)
  <1> DEFINE rows == Reports!MetricRows(n, days)
             byBlogger == [p \in rows |-> Reports!BloggerOf(p)]
             bySecurity == [p \in rows |-> Reports!CodeOf(p)]
  <1>1. IsFiniteSet(rows)
    BY MetricRowsFinite
  <1>2. Reports!BloggerTotals(n, days) = Reports!Totals(rows, byBlogger)
        /\ Reports!SecurityTotals(n, days) = Reports!Totals(rows, bySecurity)
    BY DEF Reports!BloggerTotals, Reports!SecurityTotals
  <1> HIDE DEF rows
  <1>3. Reports!Over(Reports!BloggerTotals(n, days)) = Cardinality(ReadyOf(rows))
        /\ Reports!Over(Reports!SecurityTotals(n, days)) = Cardinality(ReadyOf(rows))
    <2> HIDE DEF byBlogger, bySecurity
    <2> QED  BY <1>1, <1>2, OverTotals
  <1>4. ASSUME NEW b \in DOMAIN Reports!BloggerTotals(n, days)
        PROVE  Reports!BloggerTotals(n, days)[b].evaluated = Reports!Over(Reports!BloggerTimeseries(b, n, days))
    <2> DEFINE of == {p \in rows : Reports!BloggerOf(p) = b}
               period == [p \in of |-> Reports!PeriodOf(p)]
    <2>1. Reports!BloggerTimeseries(b, n, days) = Reports!Totals(of, period)
      BY DEF Reports!BloggerTimeseries, rows
    <2>2. b \in Values(rows, byBlogger)
      <3> HIDE DEF byBlogger
      <3> QED  BY <1>2, TotalsIs
    <2>3. With(ReadyOf(rows), byBlogger, b) = ReadyOf(of)
      BY DEF ReadyOf, With
    <2>4. Reports!BloggerTotals(n, days)[b].evaluated = Cardinality(ReadyOf(of))
      <3> HIDE DEF byBlogger, of
      <3> QED  BY <1>2, <2>2, <2>3, TotalsEvaluated
    <2>5. IsFiniteSet(of)
      BY <1>1, FS_Subset
    <2> HIDE DEF of, period
    <2>6. Reports!Over(Reports!Totals(of, period)) = Cardinality(ReadyOf(of))
      BY <2>5, OverTotals
    <2> QED  BY <2>1, <2>4, <2>6
  <1> QED  BY <1>3, <1>4 DEF Reports!RankingsAgree

LEMMA Disjoint ==
  ASSUME NEW S, NEW T, IsFiniteSet(S), IsFiniteSet(T), S \intersect T = {}
  PROVE  /\ IsFiniteSet(S \union T) /\ Cardinality(S \union T) = Cardinality(S) + Cardinality(T)
         /\ Cardinality(S) \in Nat /\ Cardinality(T) \in Nat
  <1>1. Cardinality(S) \in Nat /\ Cardinality(T) \in Nat /\ Cardinality({}) = 0
    BY FS_CardinalityType, FS_EmptySet
  <1>2. IsFiniteSet(S \union T) /\ Cardinality(S \union T) = Cardinality(S) + Cardinality(T) - Cardinality({})
    BY FS_Union
  <1> QED  BY <1>1, <1>2

\* Unless an evaluation was overtaken, the rows of the ranking are those rows of the
\* export that have metrics.
LEMMA ExportRows ==
  ASSUME ReportsInv, overtaken = {}, NEW n \in AllWindows, NEW days, NEW b
  PROVE  {p \in Reports!MetricRows(n, days) : Reports!BloggerOf(p) = b}
           = {p \in Reports!LedgerItems(b, days) \X {n} : metric[p[1]][n] # Reports!NoMetric}
  <1> DEFINE ranked == {p \in Reports!MetricRows(n, days) : Reports!BloggerOf(p) = b}
             listed == {p \in Reports!LedgerItems(b, days) \X {n} : metric[p[1]][n] # Reports!NoMetric}
  <1>1. ASSUME NEW p \in ranked
        PROVE  p \in listed
    <2>1. p \in Reports!Live \X AllWindows /\ p \in Reports!Metrics
          /\ metric[p[1]][p[2]] # Reports!NoMetric /\ p[2] = n
          /\ Reports!In(Reports!MetricOf(p).date, days) /\ Reports!BloggerOf(p) = b
      BY DEF Reports!MetricRows, Reports!Metrics, Reports!MetricOf
    <2>2. Reports!MetricOf(p).date = event[p[1]].date
      BY <2>1 DEF ReportsInv, MetricsDated
    <2>3. p[1] \in Reports!LedgerItems(b, days)
      BY <2>1, <2>2 DEF Reports!LedgerItems, Reports!BloggerOf
    <2> QED  BY <2>1, <2>3
  <1>2. ASSUME NEW p \in listed
        PROVE  p \in ranked
    <2>1. p[1] \in Reports!Live /\ event[p[1]].blogger = b /\ Reports!In(event[p[1]].date, days)
          /\ p[2] = n /\ p = <<p[1], p[2]>> /\ metric[p[1]][n] # Reports!NoMetric
      BY DEF Reports!LedgerItems
    <2>2. p \in Reports!Metrics
      BY <2>1 DEF Reports!Metrics
    <2>3. Reports!MetricOf(p).date = event[p[1]].date
      BY <2>2 DEF ReportsInv, MetricsDated
    <2> QED  BY <2>1, <2>2, <2>3 DEF Reports!MetricRows, Reports!BloggerOf
  <1> HIDE DEF ranked, listed
  <1>3. ranked = listed
    BY <1>1, <1>2
  <1> QED  BY <1>3 DEF ranked, listed

\* Rows without metrics count in the sample, as incomplete, and nowhere else.
LEMMA WithoutMetrics ==
  ASSUME NEW rows, IsFiniteSet(rows), NEW of \in SUBSET rows,
         \A p \in rows : p \notin of <=> Reports!MetricOf(p) = Reports!NoMetric
  PROVE  LET none == Cardinality(rows \ of)
             row == Reports!Aggregate(rows, StatusesOf(rows))
         IN  /\ Reports!Aggregate(of, StatusesOf(of)) = [row EXCEPT !.sample = @ - none, !.incomplete = @ - none]
             /\ of = {} => row.sample = none
  <1> DEFINE ready == With(of, StatusesOf(of), "READY")
             pending == With(of, StatusesOf(of), "PENDING")
             missing == rows \ of
             others == of \ (ready \union pending)
             row == Reports!Aggregate(rows, StatusesOf(rows))
  <1>1. \A p \in missing : Reports!StatusOf(p) = "NONE"
    BY DEF Reports!StatusOf, Reports!NoMetric
  <1>2. With(rows, StatusesOf(rows), "READY") = ready /\ With(rows, StatusesOf(rows), "PENDING") = pending
    BY <1>1 DEF With, StatusesOf
  <1>3. IsFiniteSet(of) /\ IsFiniteSet(missing) /\ IsFiniteSet(others)
    BY FS_Subset
  <1>4. rows = of \union missing /\ of \intersect missing = {}
    OBVIOUS
  <1>5. rows \ (ready \union pending) = others \union missing /\ others \intersect missing = {}
    BY DEF With
  <1>6. Reports!Aggregate(of, StatusesOf(of)) =
          [sample |-> Cardinality(of), evaluated |-> Cardinality(ready),
           pending |-> Cardinality(pending), incomplete |-> Cardinality(others),
           wins |-> Cardinality(Rises(ready)), total |-> TotalOf(Returns(ready), ready)]
    BY AggregateIs
  <1>7. row =
          [sample |-> Cardinality(rows), evaluated |-> Cardinality(ready),
           pending |-> Cardinality(pending), incomplete |-> Cardinality(rows \ (ready \union pending)),
           wins |-> Cardinality(Rises(ready)), total |-> TotalOf(Returns(ready), ready)]
    <2> HIDE DEF ready, pending
    <2> QED  BY <1>2, AggregateIs
  <1> HIDE DEF ready, pending, missing, others, row
  <1>8. Cardinality(rows) = Cardinality(of) + Cardinality(missing)
        /\ Cardinality(of) \in Nat /\ Cardinality(missing) \in Nat
    BY <1>3, <1>4, Disjoint
  <1>9. Cardinality(rows \ (ready \union pending)) = Cardinality(others) + Cardinality(missing)
        /\ Cardinality(others) \in Nat
    BY <1>3, <1>5, Disjoint
  <1>10. Reports!Aggregate(of, StatusesOf(of)) =
           [row EXCEPT !.sample = @ - Cardinality(missing), !.incomplete = @ - Cardinality(missing)]
    <2>1. row.sample = Cardinality(rows) /\ row.incomplete = Cardinality(rows \ (ready \union pending))
      BY <1>7
    <2>2. row.sample - Cardinality(missing) = Cardinality(of)
          /\ row.incomplete - Cardinality(missing) = Cardinality(others)
      BY <1>8, <1>9, <2>1
    <2>3. [row EXCEPT !.sample = Cardinality(of), !.incomplete = Cardinality(others)] =
            Reports!Aggregate(of, StatusesOf(of))
      <3>1. PICK s, e, p, i, w, t :
              /\ s = Cardinality(rows) /\ e = Cardinality(ready) /\ p = Cardinality(pending)
              /\ i = Cardinality(rows \ (ready \union pending))
              /\ w = Cardinality(Rises(ready)) /\ t = TotalOf(Returns(ready), ready)
        OBVIOUS
      <3>2. row = [sample |-> s, evaluated |-> e, pending |-> p, incomplete |-> i, wins |-> w, total |-> t]
        BY <1>7, <3>1, Zenon
      <3>3. PICK s2, i2 : s2 = Cardinality(of) /\ i2 = Cardinality(others)
        OBVIOUS
      <3>4. [row EXCEPT !.sample = s2, !.incomplete = i2]
              = [sample |-> s2, evaluated |-> e, pending |-> p, incomplete |-> i2, wins |-> w, total |-> t]
        <4>1. PICK q : q = [row EXCEPT !.sample = s2]
          OBVIOUS
        <4>2. q = [sample |-> s2, evaluated |-> e, pending |-> p, incomplete |-> i, wins |-> w, total |-> t]
          BY ONLY <3>2, <4>1
        <4>3. [q EXCEPT !.incomplete = i2]
                = [sample |-> s2, evaluated |-> e, pending |-> p, incomplete |-> i2, wins |-> w, total |-> t]
          BY ONLY <4>2
        <4> QED  BY ONLY <4>1, <4>3, Zenon
      <3>5. Reports!Aggregate(of, StatusesOf(of))
              = [sample |-> s2, evaluated |-> e, pending |-> p, incomplete |-> i2, wins |-> w, total |-> t]
        BY ONLY <1>6, <3>1, <3>3
      <3> QED  BY <3>3, <3>4, <3>5, Zenon
    <2> QED  BY <2>2, <2>3, Zenon
  <1>11. of = {} => row.sample = Cardinality(missing)
    BY <1>7, <1>8, FS_EmptySet
  <1> QED  BY <1>10, <1>11 DEF missing, row

\* The ranking and the export say the same of a blogger.
LEMMA ExportDoesAgree ==
  ASSUME ReportsConstants, ReportsInv, overtaken = {}, NEW n \in AllWindows, NEW days
  PROVE  Reports!ExportAgrees(n, days)
  <1> SUFFICES ASSUME NEW b \in Bloggers
               PROVE  LET row == Reports!Export(b, n, days)
                          none == Reports!Cardinality({e \in Reports!LedgerItems(b, days) : metric[e][n] = Reports!NoMetric})
                      IN  IF b \in DOMAIN Reports!BloggerTotals(n, days)
                            THEN Reports!BloggerTotals(n, days)[b] =
                                   [row EXCEPT !.sample = @ - none, !.incomplete = @ - none]
                            ELSE row.sample = none
    BY Zenon DEF Reports!ExportAgrees
  <1> DEFINE items == Reports!LedgerItems(b, days)
             lacking == {e \in items : metric[e][n] = Reports!NoMetric}
             rows == items \X {n}
             of == {p \in rows : metric[p[1]][n] # Reports!NoMetric}
             byBlogger == [p \in Reports!MetricRows(n, days) |-> Reports!BloggerOf(p)]
             row == Reports!Aggregate(rows, StatusesOf(rows))
             totals == Reports!BloggerTotals(n, days)
  <1>1. Reports!Export(b, n, days) = row
    BY DEF Reports!Export, StatusesOf
  <1>2. IsFiniteSet(rows) /\ IsFiniteSet(lacking)
    <2>1. items \subseteq Recommendations /\ IsFiniteSet(Recommendations)
      BY DEF Reports!LedgerItems, Reports!Live, ReportsConstants
    <2>2. IsFiniteSet(items) /\ IsFiniteSet({n})
      BY <2>1, FS_Subset, FS_Singleton
    <2> HIDE DEF items
    <2> QED  BY <2>2, FS_Product, FS_Subset
  <1>3. Cardinality(rows \ of) = Cardinality(lacking)
    <2>1. rows \ of = lacking \X {n}
      BY DEF Reports!LedgerItems
    <2>2. Cardinality(lacking \X {n}) = Cardinality(lacking) * 1
      <3>1. IsFiniteSet({n}) /\ Cardinality({n}) = 1
        BY FS_Singleton
      <3> HIDE DEF lacking
      <3> QED  BY <1>2, <3>1, FS_Product
    <2>3. Cardinality(lacking) \in Nat
      BY <1>2, FS_CardinalityType
    <2>4. \A x \in Nat : x * 1 = x
      OBVIOUS
    <2> HIDE DEF rows, of, lacking
    <2> QED  BY <2>1, <2>2, <2>3, <2>4, Zenon
  <1>4. With(Reports!MetricRows(n, days), byBlogger, b) = of
    <2>1. With(Reports!MetricRows(n, days), byBlogger, b)
            = {p \in Reports!MetricRows(n, days) : Reports!BloggerOf(p) = b}
      BY DEF With
    <2> QED  BY <2>1, ExportRows
  <1>5. totals = Reports!Totals(Reports!MetricRows(n, days), byBlogger)
    BY DEF Reports!BloggerTotals
  <1>6. /\ b \in DOMAIN totals => totals[b] = Reports!Aggregate(of, StatusesOf(of))
        /\ b \notin DOMAIN totals => of = {}
    <2>1. b \notin Values(Reports!MetricRows(n, days), byBlogger) => of = {}
      BY <1>4 DEF Values, With
    <2> HIDE DEF byBlogger, of
    <2> QED  BY <1>4, <1>5, <2>1, TotalsIs
  <1>7. LET none == Cardinality(rows \ of)
        IN  /\ Reports!Aggregate(of, StatusesOf(of)) = [row EXCEPT !.sample = @ - none, !.incomplete = @ - none]
            /\ of = {} => row.sample = none
    <2>1. of \in SUBSET rows /\ \A p \in rows : p \notin of <=> Reports!MetricOf(p) = Reports!NoMetric
      BY DEF Reports!MetricOf
    <2> HIDE DEF of, rows
    <2> QED  BY <1>2, <2>1, WithoutMetrics, Zenon DEF row
  <1>8. Reports!Cardinality(lacking) = Cardinality(rows \ of)
    BY <1>3, SameCount
  <1> HIDE DEF lacking, of, rows, row, totals, byBlogger
  <1>9. IF b \in DOMAIN totals
          THEN totals[b] = [row EXCEPT !.sample = @ - Cardinality(rows \ of), !.incomplete = @ - Cardinality(rows \ of)]
          ELSE row.sample = Cardinality(rows \ of)
    BY <1>6, <1>7
  <1> QED  BY <1>1, <1>8, <1>9, Zenon DEF lacking, totals, items

-----------------------------------------------------------------------------
(* Documents.                                                              *)

WindowStatuses(rows) == [p \in rows |-> Reports!ReportWindowStatus(p)]
ReadyIn(rows) == With(rows, WindowStatuses(rows), "READY")
PendingIn(rows) == With(rows, WindowStatuses(rows), "PENDING")
OthersIn(rows) == rows \ (ReadyIn(rows) \union PendingIn(rows))

\* The counts of a report's window.
LEMMA ReportCounts ==
  ASSUME NEW events, NEW n
  PROVE  /\ Reports!DocumentReport(events, n)["sample"] = Cardinality(events \X {n})
         /\ Reports!DocumentReport(events, n)["evaluated"] = Cardinality(ReadyIn(events \X {n}))
         /\ Reports!DocumentReport(events, n)["pending"] = Cardinality(PendingIn(events \X {n}))
         /\ Reports!DocumentReport(events, n)["incomplete"] = Cardinality(OthersIn(events \X {n}))
         /\ Reports!DocumentReport(events, n)["wins"] = Cardinality(Rises(ReadyIn(events \X {n})))
  <1> DEFINE rows == events \X {n}
             status == WindowStatuses(rows)
  <1>1. Reports!DocumentReport(events, n) = Reports!Aggregate(rows, status)
    BY DEF Reports!DocumentReport, WindowStatuses
  <1>2. /\ With(rows, status, "READY") = ReadyIn(rows) /\ With(rows, status, "PENDING") = PendingIn(rows)
        /\ rows \ (ReadyIn(rows) \union PendingIn(rows)) = OthersIn(rows)
    BY Zenon DEF ReadyIn, PendingIn, OthersIn
  <1> HIDE DEF rows, status
  <1>3. Reports!Aggregate(rows, status) =
          [sample |-> Cardinality(rows), evaluated |-> Cardinality(ReadyIn(rows)),
           pending |-> Cardinality(PendingIn(rows)), incomplete |-> Cardinality(OthersIn(rows)),
           wins |-> Cardinality(Rises(ReadyIn(rows))), total |-> TotalOf(Returns(ReadyIn(rows)), ReadyIn(rows))]
    BY <1>2, AggregateIs
  <1> QED  BY <1>1, <1>3 DEF rows

\* What is counted of the rows of each class is counted of them all.
LEMMA PartsAddUp ==
  ASSUME NEW P, IsFiniteSet(P), NEW K, IsFiniteSet(K), NEW class, \A p \in P : class[p] \in K,
         NEW count, count = [k \in K |-> count[k]], \A k \in K : count[k] = Cardinality(With(P, class, k))
  PROVE  Reports!SumFunctionOnSet(count, K) = Cardinality(P)
  <1>1. count = [k \in K |-> Cardinality({p \in P : class[p] = k})]
    BY DEF With
  <1>2. TotalOf([k \in K |-> Cardinality({p \in P : class[p] = k})], K) = Cardinality(P)
    BY CountsAddUp
  <1> QED  BY <1>1, <1>2, Zenon DEF TotalOf

WindowOf(P) == [p \in P |-> p[2]]

LEMMA WindowsAddUp ==
  ASSUME NEW E, IsFiniteSet(E), NEW W, IsFiniteSet(W), NEW P \in SUBSET (E \X W), NEW field,
         \A n \in W : Reports!DocumentReport(E, n)[field] = Cardinality(With(P, WindowOf(P), n))
  PROVE  Reports!SumFunctionOnSet([n \in W |-> Reports!DocumentReport(E, n)[field]], W) = Cardinality(P)
  <1> DEFINE count == [n \in W |-> Reports!DocumentReport(E, n)[field]]
             class == WindowOf(P)
  <1>1. count = [n \in W |-> count[n]] /\ \A n \in W : count[n] = Cardinality(With(P, class, n))
    OBVIOUS
  <1>2. IsFiniteSet(P)
    <2>1. IsFiniteSet(E \X W)
      BY FS_Product
    <2> QED  BY <2>1, FS_Subset
  <1>3. \A p \in P : class[p] \in W
    BY DEF WindowOf
  <1> HIDE DEF count, class
  <1>4. Reports!SumFunctionOnSet(count, W) = Cardinality(P)
    BY <1>1, <1>2, <1>3, PartsAddUp
  <1> QED  BY <1>4 DEF count

BloggersOf(P) == [p \in P |-> event[p[1]].blogger]

\* The rows of a window, and those of a blogger, among the rows of a report.
RowsOfWindow(E, W, n) ==
  LET R == E \X W IN
  /\ With(ReadyIn(R), WindowOf(ReadyIn(R)), n) = ReadyIn(E \X {n})
  /\ With(PendingIn(R), WindowOf(PendingIn(R)), n) = PendingIn(E \X {n})
  /\ With(OthersIn(R), WindowOf(OthersIn(R)), n) = OthersIn(E \X {n})

BloggersOwn(E, b) == {e \in E : event[e].blogger = b}
RowsOfBlogger(E, n, b) ==
  LET R == E \X {n} IN
  /\ With(R, BloggersOf(R), b) = BloggersOwn(E, b) \X {n}
  /\ With(ReadyIn(R), BloggersOf(ReadyIn(R)), b) = ReadyIn(BloggersOwn(E, b) \X {n})
  /\ With(Rises(ReadyIn(R)), BloggersOf(Rises(ReadyIn(R))), b) = Rises(ReadyIn(BloggersOwn(E, b) \X {n}))

LEMMA WindowRows ==
  ASSUME NEW E, NEW W, NEW n \in W
  PROVE  RowsOfWindow(E, W, n)
  <1> DEFINE R == E \X W
  <1>1. With(ReadyIn(R), WindowOf(ReadyIn(R)), n) = ReadyIn(E \X {n})
    BY DEF With, ReadyIn, WindowStatuses, WindowOf
  <1>2. With(PendingIn(R), WindowOf(PendingIn(R)), n) = PendingIn(E \X {n})
    BY DEF With, PendingIn, WindowStatuses, WindowOf
  <1>3. With(OthersIn(R), WindowOf(OthersIn(R)), n) = OthersIn(E \X {n})
    BY DEF With, OthersIn, PendingIn, ReadyIn, WindowStatuses, WindowOf
  <1> QED  BY <1>1, <1>2, <1>3 DEF RowsOfWindow

LEMMA BloggerRows ==
  ASSUME NEW E, NEW n, NEW b
  PROVE  RowsOfBlogger(E, n, b)
  <1> DEFINE R == E \X {n}
             own == {e \in E : event[e].blogger = b}
  <1>1. With(R, BloggersOf(R), b) = own \X {n}
    BY DEF With, BloggersOf
  <1>2. With(ReadyIn(R), BloggersOf(ReadyIn(R)), b) = ReadyIn(own \X {n})
    BY DEF With, ReadyIn, WindowStatuses, BloggersOf
  <1>3. With(Rises(ReadyIn(R)), BloggersOf(Rises(ReadyIn(R))), b) = Rises(ReadyIn(own \X {n}))
    BY DEF With, ReadyIn, WindowStatuses, BloggersOf, Rises
  <1> QED  BY <1>1, <1>2, <1>3 DEF RowsOfBlogger, BloggersOwn

\* What the list counts are the rows of the report.
ListsRows(c, R) ==
  /\ IsFiniteSet(R) /\ c.expected = Cardinality(R) /\ Cardinality(R) \in Nat
  /\ c.ready = Cardinality(ReadyIn(R)) /\ c.pending = Cardinality(PendingIn(R))
  /\ c.incomplete + c.missing = Cardinality(OthersIn(R))

LEMMA ListCounts ==
  ASSUME ReportsConstants, Configured, NEW d
  PROVE  ListsRows(Reports!DocumentList(d), Reports!EventsOf(d) \X configured.windows)
  <1> DEFINE E == Reports!EventsOf(d)
             W == configured.windows
             R == E \X W
             rows == {p \in R : Reports!MetricOf(p) # Reports!NoMetric}
             ready == {p \in rows : Reports!StatusOf(p) = "READY" /\ Reports!Current(p)}
             pending == {p \in rows : Reports!StatusOf(p) = "PENDING" /\ Reports!Current(p)}
             others == rows \ (ready \union pending)
             lacking == R \ rows
             c == Reports!DocumentList(d)
  <1>1. IsFiniteSet(E) /\ IsFiniteSet(W)
    BY FS_Subset DEF Reports!EventsOf, Reports!Live, Configured, ReportsConstants
  <1>2. IsFiniteSet(R) /\ Cardinality(R) = Cardinality(E) * Cardinality(W)
    <2> HIDE DEF E, W
    <2> QED  BY <1>1, FS_Product
  <1>3. IsFiniteSet(rows) /\ IsFiniteSet(others) /\ IsFiniteSet(lacking)
    <2>1. IsFiniteSet(rows) /\ IsFiniteSet(lacking)
      <3> HIDE DEF R
      <3> QED  BY <1>2, FS_Subset
    <2>2. others \subseteq rows
      OBVIOUS
    <2> HIDE DEF rows, others, lacking
    <2> QED  BY <2>1, <2>2, FS_Subset
  <1>4. c = [expected |-> Reports!Cardinality(E) * Reports!Cardinality(W), ready |-> Reports!Cardinality(ready),
             pending |-> Reports!Cardinality(pending), incomplete |-> Reports!Cardinality(others),
             missing |-> Reports!Cardinality(E) * Reports!Cardinality(W) - Reports!Cardinality(rows)]
    BY DEF Reports!DocumentList
  <1>5. ready = ReadyIn(R)
    BY DEF ReadyIn, With, WindowStatuses, Reports!ReportWindowStatus, Reports!StatusOf
  <1>6. pending = PendingIn(R)
    BY DEF PendingIn, With, WindowStatuses, Reports!ReportWindowStatus, Reports!StatusOf
  <1>7. rows \union lacking = R /\ rows \intersect lacking = {}
    OBVIOUS
  <1>8. OthersIn(R) = others \union lacking /\ others \intersect lacking = {}
    BY <1>5, <1>6 DEF OthersIn
  <1> HIDE DEF E, W, R, rows, ready, pending, others, lacking, c
  <1>9. Cardinality(R) = Cardinality(rows) + Cardinality(lacking)
        /\ Cardinality(rows) \in Nat /\ Cardinality(lacking) \in Nat
    BY <1>3, <1>7, Disjoint
  <1>10. Cardinality(OthersIn(R)) = Cardinality(others) + Cardinality(lacking) /\ Cardinality(others) \in Nat
    BY <1>3, <1>8, Disjoint
  <1>11. /\ c.expected = Cardinality(R) /\ c.ready = Cardinality(ready) /\ c.pending = Cardinality(pending)
         /\ c.incomplete = Cardinality(others) /\ c.missing = Cardinality(R) - Cardinality(rows)
    <2>1. PICK product : product = Cardinality(E) * Cardinality(W)
      OBVIOUS
    <2>2. c = [expected |-> product, ready |-> Cardinality(ready),
               pending |-> Cardinality(pending), incomplete |-> Cardinality(others),
               missing |-> product - Cardinality(rows)]
      BY <1>4, <2>1, SameCount
    <2> QED  BY <1>2, <2>1, <2>2
  <1>12. c.incomplete + c.missing = Cardinality(OthersIn(R)) /\ Cardinality(R) \in Nat
    BY <1>9, <1>10, <1>11
  <1>13. ListsRows(c, R)
    BY <1>2, <1>5, <1>6, <1>11, <1>12 DEF ListsRows
  <1> QED  BY ONLY <1>13 DEF E, W, R, c

\* The report's counts are those of its bloggers.
LEMMA BloggersMakeReport ==
  ASSUME ReportsConstants, ReportsInv, NEW d, NEW n, NEW field \in {"sample", "evaluated", "wins"}
  PROVE  Reports!DocumentReport(Reports!EventsOf(d), n)[field] =
           Reports!SumFunctionOnSet([b \in Bloggers |->
             Reports!DocumentReport({e \in Reports!EventsOf(d) : event[e].blogger = b}, n)[field]], Bloggers)
  <1> DEFINE E == Reports!EventsOf(d)
             R == E \X {n}
  <1>1. IsFiniteSet(R)
    <2>1. IsFiniteSet(E) /\ IsFiniteSet({n})
      BY FS_Subset, FS_Singleton DEF Reports!EventsOf, Reports!Live, ReportsConstants
    <2> HIDE DEF E
    <2> QED  BY <2>1, FS_Product
  <1>2. \A p \in R : event[p[1]].blogger \in Bloggers
    <2>1. \A e \in E : event[e].blogger \in Bloggers
      BY DEF Reports!EventsOf, Reports!Live, ReportsInv, EventsKept, IsEvent, Reports!Unborn, Reports!Gone
    <2> QED  BY <2>1
  <1>3. ReadyIn(R) \subseteq R /\ Rises(ReadyIn(R)) \subseteq R
    BY DEF ReadyIn, With, Rises
  <1>4. IsFiniteSet(Bloggers)
    BY DEF ReportsConstants
  <1> HIDE DEF E
  <1>5. \A b \in Bloggers :
          /\ With(R, BloggersOf(R), b) = {e \in E : event[e].blogger = b} \X {n}
          /\ With(ReadyIn(R), BloggersOf(ReadyIn(R)), b) = ReadyIn({e \in E : event[e].blogger = b} \X {n})
          /\ With(Rises(ReadyIn(R)), BloggersOf(Rises(ReadyIn(R))), b)
               = Rises(ReadyIn({e \in E : event[e].blogger = b} \X {n}))
    <2>1. \A b \in Bloggers : RowsOfBlogger(E, n, b)
      BY BloggerRows
    <2> QED  BY <2>1 DEF RowsOfBlogger, BloggersOwn
  <1> DEFINE P == IF field = "sample" THEN R ELSE IF field = "evaluated" THEN ReadyIn(R) ELSE Rises(ReadyIn(R))
  <1>6. ASSUME NEW b \in Bloggers
        PROVE  Reports!DocumentReport({e \in E : event[e].blogger = b}, n)[field] = Cardinality(With(P, BloggersOf(P), b))
    <2> DEFINE own == {e \in E : event[e].blogger = b}
    <2>1. /\ With(R, BloggersOf(R), b) = own \X {n}
          /\ With(ReadyIn(R), BloggersOf(ReadyIn(R)), b) = ReadyIn(own \X {n})
          /\ With(Rises(ReadyIn(R)), BloggersOf(Rises(ReadyIn(R))), b) = Rises(ReadyIn(own \X {n}))
      BY <1>5, Zenon
    <2> HIDE DEF own, R
    <2>2. /\ Reports!DocumentReport(own, n)["sample"] = Cardinality(own \X {n})
          /\ Reports!DocumentReport(own, n)["evaluated"] = Cardinality(ReadyIn(own \X {n}))
          /\ Reports!DocumentReport(own, n)["wins"] = Cardinality(Rises(ReadyIn(own \X {n})))
      BY ReportCounts
    <2>3. Reports!DocumentReport(own, n)[field] = Cardinality(With(P, BloggersOf(P), b))
      <3>1. CASE field = "sample"
        BY <2>1, <2>2, <3>1
      <3>2. CASE field = "evaluated"
        BY <2>1, <2>2, <3>2
      <3>3. CASE field = "wins"
        BY <2>1, <2>2, <3>3
      <3> QED  BY <3>1, <3>2, <3>3
    <2> QED  BY <2>3 DEF own
  <1>7. Reports!DocumentReport(E, n)[field] = Cardinality(P)
    <2> HIDE DEF R
    <2>1. /\ Reports!DocumentReport(E, n)["sample"] = Cardinality(R)
          /\ Reports!DocumentReport(E, n)["evaluated"] = Cardinality(ReadyIn(R))
          /\ Reports!DocumentReport(E, n)["wins"] = Cardinality(Rises(ReadyIn(R)))
      BY ReportCounts DEF R
    <2>2. CASE field = "sample"
      BY <2>1, <2>2
    <2>3. CASE field = "evaluated"
      BY <2>1, <2>3
    <2>4. CASE field = "wins"
      BY <2>1, <2>4
    <2> QED  BY <2>2, <2>3, <2>4
  <1>8. IsFiniteSet(P) /\ \A p \in P : event[p[1]].blogger \in Bloggers
    <2>1. P \subseteq R
      BY <1>3
    <2> HIDE DEF P, R
    <2> QED  BY <1>1, <1>2, <2>1, FS_Subset
  <1> DEFINE count == [b \in Bloggers |-> Reports!DocumentReport({e \in E : event[e].blogger = b}, n)[field]]
             class == BloggersOf(P)
  <1> HIDE DEF P, R
  <1>9. \A b \in Bloggers : count[b] = Cardinality(With(P, class, b))
    BY <1>6
  <1>10. count = [b \in Bloggers |-> count[b]]
    OBVIOUS
  <1>11. \A p \in P : class[p] \in Bloggers
    BY <1>8 DEF BloggersOf
  <1> HIDE DEF count, class
  <1>12. Reports!SumFunctionOnSet(count, Bloggers) = Cardinality(P)
    BY <1>4, <1>8, <1>9, <1>10, <1>11, PartsAddUp
  <1>13. Reports!DocumentReport(E, n)[field] = Reports!SumFunctionOnSet(count, Bloggers)
    BY <1>7, <1>12
  <1> QED  BY <1>13, Zenon DEF E, count

\* The list and the report say the same of a document.
LEMMA ListDoesMatch ==
  ASSUME ReportsConstants, ReportsInv, NEW d
  PROVE  Reports!ListMatchesReport(d)
  <1> DEFINE E == Reports!EventsOf(d)
             W == configured.windows
             R == E \X W
             c == Reports!DocumentList(d)
  <1>1. ListsRows(c, R)
    BY ListCounts, Zenon DEF ReportsInv
  <1>2. IsFiniteSet(E) /\ IsFiniteSet(W)
    BY FS_Subset DEF Reports!EventsOf, Reports!Live, Configured, ReportsConstants, ReportsInv
  <1>3. ReadyIn(R) \in SUBSET R /\ PendingIn(R) \in SUBSET R /\ OthersIn(R) \in SUBSET R
    BY DEF ReadyIn, PendingIn, OthersIn, With
  <1>4. W # {}
    BY DEF ReportsInv, Configured
  <1> HIDE DEF E, W, c
  <1>5. ASSUME NEW n \in W
        PROVE  /\ Reports!DocumentReport(E, n)["evaluated"] = Cardinality(With(ReadyIn(R), WindowOf(ReadyIn(R)), n))
               /\ Reports!DocumentReport(E, n)["pending"] = Cardinality(With(PendingIn(R), WindowOf(PendingIn(R)), n))
               /\ Reports!DocumentReport(E, n)["incomplete"] = Cardinality(With(OthersIn(R), WindowOf(OthersIn(R)), n))
    <2>1. /\ With(ReadyIn(R), WindowOf(ReadyIn(R)), n) = ReadyIn(E \X {n})
          /\ With(PendingIn(R), WindowOf(PendingIn(R)), n) = PendingIn(E \X {n})
          /\ With(OthersIn(R), WindowOf(OthersIn(R)), n) = OthersIn(E \X {n})
      <3>1. RowsOfWindow(E, W, n)
        BY WindowRows
      <3> QED  BY <3>1 DEF RowsOfWindow
    <2> HIDE DEF R
    <2> QED  BY <2>1, ReportCounts
  <1>6. /\ Reports!SumFunctionOnSet([n \in W |-> Reports!DocumentReport(E, n)["evaluated"]], W) = c.ready
        /\ Reports!SumFunctionOnSet([n \in W |-> Reports!DocumentReport(E, n)["pending"]], W) = c.pending
        /\ Reports!SumFunctionOnSet([n \in W |-> Reports!DocumentReport(E, n)["incomplete"]], W) = c.incomplete + c.missing
    <2>1. Reports!SumFunctionOnSet([n \in W |-> Reports!DocumentReport(E, n)["evaluated"]], W) = Cardinality(ReadyIn(R))
      <3> DEFINE P == ReadyIn(R)
      <3>1. P \in SUBSET (E \X W)
        BY <1>3
      <3>2. \A n \in W : Reports!DocumentReport(E, n)["evaluated"] = Cardinality(With(P, WindowOf(P), n))
        BY <1>5
      <3> HIDE DEF P
      <3>3. Reports!SumFunctionOnSet([n \in W |-> Reports!DocumentReport(E, n)["evaluated"]], W) = Cardinality(P)
        BY <1>2, <3>1, <3>2, WindowsAddUp
      <3> QED  BY <3>3 DEF P
    <2>2. Reports!SumFunctionOnSet([n \in W |-> Reports!DocumentReport(E, n)["pending"]], W) = Cardinality(PendingIn(R))
      <3> DEFINE P == PendingIn(R)
      <3>1. P \in SUBSET (E \X W)
        BY <1>3
      <3>2. \A n \in W : Reports!DocumentReport(E, n)["pending"] = Cardinality(With(P, WindowOf(P), n))
        BY <1>5
      <3> HIDE DEF P
      <3>3. Reports!SumFunctionOnSet([n \in W |-> Reports!DocumentReport(E, n)["pending"]], W) = Cardinality(P)
        BY <1>2, <3>1, <3>2, WindowsAddUp
      <3> QED  BY <3>3 DEF P
    <2>3. Reports!SumFunctionOnSet([n \in W |-> Reports!DocumentReport(E, n)["incomplete"]], W) = Cardinality(OthersIn(R))
      <3> DEFINE P == OthersIn(R)
      <3>1. P \in SUBSET (E \X W)
        BY <1>3
      <3>2. \A n \in W : Reports!DocumentReport(E, n)["incomplete"] = Cardinality(With(P, WindowOf(P), n))
        BY <1>5
      <3> HIDE DEF P
      <3>3. Reports!SumFunctionOnSet([n \in W |-> Reports!DocumentReport(E, n)["incomplete"]], W) = Cardinality(P)
        BY <1>2, <3>1, <3>2, WindowsAddUp
      <3> QED  BY <3>3 DEF P
    <2> QED  BY <1>1, <2>1, <2>2, <2>3 DEF ListsRows
  <1>7. \A n \in W, field \in {"sample", "evaluated", "wins"} :
          Reports!DocumentReport(E, n)[field] =
            Reports!SumFunctionOnSet([b \in Bloggers |->
              Reports!DocumentReport({e \in E : event[e].blogger = b}, n)[field]], Bloggers)
    BY BloggersMakeReport, Zenon DEF E
  <1>8. Reports!ListStatus(c) = "READY" <=> (E # {} /\ \A p \in R : Reports!ReportWindowStatus(p) = "READY")
    <2>1. Reports!ListStatus(c) = "READY" <=> (c.expected # 0 /\ c.ready = c.expected)
      BY DEF Reports!ListStatus
    <2>2. E # {} <=> R # {}
      <3>1. PICK n \in W : TRUE
        BY <1>4
      <3>2. \A e \in E : <<e, n>> \in R
        OBVIOUS
      <3>3. \A p \in R : p[1] \in E
        OBVIOUS
      <3> HIDE DEF R
      <3> QED  BY <3>2, <3>3
    <2>3. (\A p \in R : Reports!ReportWindowStatus(p) = "READY") <=> ReadyIn(R) = R
      BY DEF ReadyIn, With, WindowStatuses
    <2> HIDE DEF R
    <2>4. Cardinality(R) = 0 <=> R = {}
      BY <1>1, FS_EmptySet DEF ListsRows
    <2>5. Cardinality(ReadyIn(R)) = Cardinality(R) <=> ReadyIn(R) = R
      BY <1>1, <1>3, FS_Subset DEF ListsRows
    <2> QED  BY <1>1, <2>1, <2>2, <2>3, <2>4, <2>5 DEF ListsRows
  <1>9. Reports!ListStatus(c) = "READY" <=>
          (E # {} /\ \A p \in E \X W : Reports!ReportWindowStatus(p) = "READY")
    BY <1>8
  <1> HIDE DEF R
  <1>10. Reports!ListMatchesReport(d) <=>
          /\ Reports!SumFunctionOnSet([n \in W |-> Reports!DocumentReport(E, n)["evaluated"]], W) = c.ready
          /\ Reports!SumFunctionOnSet([n \in W |-> Reports!DocumentReport(E, n)["pending"]], W) = c.pending
          /\ Reports!SumFunctionOnSet([n \in W |-> Reports!DocumentReport(E, n)["incomplete"]], W) = c.incomplete + c.missing
          /\ \A n \in W, field \in {"sample", "evaluated", "wins"} :
               Reports!DocumentReport(E, n)[field] =
                 Reports!SumFunctionOnSet([b \in Bloggers |->
                   Reports!DocumentReport({e \in E : event[e].blogger = b}, n)[field]], Bloggers)
          /\ Reports!ListStatus(c) = "READY" <=>
               (E # {} /\ \A p \in E \X W : Reports!ReportWindowStatus(p) = "READY")
    BY ONLY Zenon DEF Reports!ListMatchesReport, E, W, c
  <1> QED  BY ONLY <1>6, <1>7, <1>9, <1>10, Zenon

-----------------------------------------------------------------------------
(* The pages of a ranking.                                                 *)

LEMMA RatioInt ==
  ASSUME NEW n \in Int, NEW d \in Nat
  PROVE  Reports!Ratio(n, d) \in Int
  <1>1. CASE d = 0
    BY <1>1 DEF Reports!Ratio
  <1>2. CASE d > 0
    <2>1. n * 1000 \in Int
      OBVIOUS
    <2> QED  BY <1>2, <2>1 DEF Reports!Ratio, Reports!Scale
  <1> QED  BY <1>1, <1>2

\* What a sort compares are numbers.
LEMMA MeasureInt ==
  ASSUME NEW rows, IsFiniteSet(rows), \A p \in rows : Reports!RetOf(p) \in Int, NEW status,
         NEW sort \in Reports!Sorts
  PROVE  /\ Reports!Aggregate(rows, status).evaluated \in Nat
         /\ Reports!Measure(Reports!Aggregate(rows, status), sort) \in Int
  <1> DEFINE ready == With(rows, status, "READY")
             a == Reports!Aggregate(rows, status)
  <1>1. IsFiniteSet(ready) /\ IsFiniteSet(Rises(ready))
    BY FS_Subset DEF With, Rises
  <1>2. Integral(Returns(ready), ready)
    BY <1>1 DEF Integral, Returns, With
  <1> HIDE DEF ready
  <1>3. a.evaluated = Cardinality(ready) /\ a.wins = Cardinality(Rises(ready)) /\ a.total = TotalOf(Returns(ready), ready)
    <2>1. PICK other, waiting, all : a =
            [sample |-> all, evaluated |-> Cardinality(ready), pending |-> waiting, incomplete |-> other,
             wins |-> Cardinality(Rises(ready)), total |-> TotalOf(Returns(ready), ready)]
      BY AggregateIs, Zenon DEF ready
    <2> HIDE DEF a
    <2> QED  BY ONLY <2>1
  <1>4. a.evaluated \in Nat /\ a.wins \in Nat /\ a.total \in Int
    BY <1>1, <1>2, <1>3, FS_CardinalityType, SumInt
  <1> HIDE DEF a
  <1>5. Reports!Ratio(a.wins, a.evaluated) \in Int /\ Reports!Ratio(a.total, a.evaluated) \in Int
    <2>1. a.wins \in Int /\ a.total \in Int /\ a.evaluated \in Nat
      BY <1>4
    <2> QED  BY <2>1, RatioInt, Zenon
  <1>6. \A x \in Int : Reports!Clamp(x) \in Int
    BY DEF Reports!Clamp, Reports!Scale
  <1>7. Reports!Clamp((Reports!Ratio(a.total, a.evaluated) + 1000) \div 2) \in Int
    BY <1>5, <1>6
  <1>8. Reports!Clamp((a.evaluated * 1000) \div 20) \in Int
    BY <1>4, <1>6
  <1>9. Reports!PerformanceScore(a) \in Int
    BY <1>5, <1>7, <1>8 DEF Reports!PerformanceScore, Reports!Scale
  <1>10. Reports!Measure(a, sort) \in Int
    BY <1>4, <1>5, <1>9 DEF Reports!Measure, Reports!Sorts
  <1> QED  BY <1>4, <1>10 DEF a

\* A finite set that is in one order is in no other.
LEMMA OneOrder ==
  ASSUME NEW S, IsFiniteSet(S), NEW ahead, \A a, b \in S : a # b => <<a, b>> \in ahead \/ <<b, a>> \in ahead,
         NEW s \in Reports!SetToSeqs(S), \A i, j \in DOMAIN s : i < j => <<s[j], s[i]>> \notin ahead,
         NEW t \in Reports!SetToSeqs(S), \A i, j \in DOMAIN t : i < j => <<t[j], t[i]>> \notin ahead
  PROVE  s = t
  <1> DEFINE n == Cardinality(S)
             D == 1..n
  <1>1. n \in Nat /\ IsFiniteSet(D) /\ Cardinality(D) = n
    BY FS_CardinalityType, FS_Interval
  <1>2. \A f \in Reports!SetToSeqs(S) : f \in [D -> S] /\ \A i, j \in D : i # j => f[i] # f[j]
    BY SameCount DEF Reports!SetToSeqs
  <1> HIDE DEF n, D
  <1>3. ASSUME NEW f \in Reports!SetToSeqs(S), NEW x \in S
        PROVE  \E i \in D : f[i] = x
    <2>1. f \in Injection(D, S)
      BY <1>2 DEF Injection, IsInjective
    <2>2. f \in Surjection(D, S)
      BY <1>1, <2>1, FS_Injection DEF n
    <2> QED  BY <2>2 DEF Surjection
  <1> DEFINE differ == {i \in D : s[i] # t[i]}
  <1>4. CASE differ = {}
    BY <1>2, <1>4
  <1>5. CASE differ # {}
    <2>1. differ \in SUBSET Nat /\ IsFiniteSet(differ)
      BY <1>1, FS_Subset DEF D
    <2>2. PICK i \in differ : \A j \in differ : i <= j
      <3> HIDE DEF differ
      <3> QED  BY <1>5, <2>1, LeastOf
    <2>3. PICK j \in D : t[j] = s[i]
      BY <1>2, <1>3
    <2>4. PICK k \in D : s[k] = t[i]
      BY <1>2, <1>3
    <2>5. D \subseteq Nat
      BY <1>1 DEF D
    <2>6. i < j /\ i < k
      <3>1. i # j /\ i # k
        BY <2>3, <2>4
      <3>2. ~(j < i)
        <4>1. SUFFICES ASSUME j < i PROVE FALSE
          OBVIOUS
        <4>2. s[j] = t[j]
          BY <2>2, <2>5, <4>1
        <4> QED  BY <1>2, <2>3, <3>1, <4>2
      <3>3. ~(k < i)
        <4>1. SUFFICES ASSUME k < i PROVE FALSE
          OBVIOUS
        <4>2. s[k] = t[k]
          BY <2>2, <2>5, <4>1
        <4> QED  BY <1>2, <2>4, <3>1, <4>2
      <3> QED  BY <2>5, <3>1, <3>2, <3>3
    <2>7. <<t[i], s[i]>> \notin ahead
      BY <1>2, <2>4, <2>6
    <2>8. <<s[i], t[i]>> \notin ahead
      BY <1>2, <2>3, <2>6
    <2>9. s[i] \in S /\ t[i] \in S /\ s[i] # t[i]
      BY <1>2
    <2> QED  BY <2>7, <2>8, <2>9
  <1> QED  BY <1>4, <1>5

Lesser(a, b) == Reports!Min({a, b})

LEMMA LesserOf ==
  ASSUME NEW a \in Nat, NEW b \in Nat, a <= b
  PROVE  Lesser(a, b) = a
  <1> DEFINE S == {a, b}
  <1>1. S \in SUBSET Nat /\ IsFiniteSet(S) /\ S # {} /\ \A y \in S : y = a \/ y = b
    <2>1. IsFiniteSet({a} \union {b})
      BY FS_Union, FS_Singleton
    <2>2. S = {a} \union {b}
      OBVIOUS
    <2> QED  BY <2>1, <2>2
  <1>2. a \in S
    OBVIOUS
  <1> HIDE DEF S
  <1>3. Reports!Min(S) \in S /\ \A y \in S : Reports!Min(S) <= y
    BY <1>1, LeastOf
  <1> DEFINE least == Reports!Min(S)
  <1>4. (least = a \/ least = b) /\ least <= a
    BY <1>1, <1>2, <1>3
  <1> HIDE DEF least
  <1>5. least = a
    BY <1>4
  <1> QED  BY <1>5 DEF S, least, Lesser

LEMMA PageFrom ==
  ASSUME NEW s, NEW offset, NEW limit, ~(offset >= Len(s))
  PROVE  Reports!Page(s, offset, limit) = SubSeq(s, offset + 1, Lesser(offset + limit, Len(s)))
  BY Zenon DEF Reports!Page, Lesser

\* The first row and the rows after it are all rows.
LEMMA PagesMeet ==
  ASSUME NEW S, NEW s \in Seq(S), NEW m \in Nat, Len(s) <= m
  PROVE  Reports!Page(s, 0, 1) \o Reports!Page(s, 1, m) = s
  <1>1. Len(s) \in Nat /\ s \in [1..Len(s) -> S]
    BY LenProperties
  <1>2. CASE Len(s) = 0
    <2>1. s = <<>>
      BY <1>2, EmptySeq
    <2>2. Reports!Page(s, 0, 1) = <<>> /\ Reports!Page(s, 1, m) = <<>>
      BY <1>2 DEF Reports!Page
    <2> QED  BY <2>1, <2>2
  <1>3. CASE Len(s) = 1
    <2>1. Reports!Min({1, 1}) = 1
      BY LesserOf DEF Lesser
    <2>2. Reports!Page(s, 0, 1) = SubSeq(s, 1, Reports!Min({1, 1}))
      BY <1>3 DEF Reports!Page
    <2>3. Reports!Page(s, 0, 1) = s
      BY <1>3, <2>1, <2>2, SubSeqFull
    <2>4. Reports!Page(s, 1, m) = <<>>
      BY <1>3 DEF Reports!Page
    <2> QED  BY <2>3, <2>4, ConcatEmptySeq
  <1>4. CASE Len(s) > 1
    <2>1. Lesser(1, Len(s)) = 1
      BY <1>1, <1>4, LesserOf
    <2>2. Lesser(1 + m, Len(s)) = Len(s)
      <3>1. Lesser(Len(s), 1 + m) = Len(s)
        BY <1>1, LesserOf
      <3>2. {1 + m, Len(s)} = {Len(s), 1 + m}
        OBVIOUS
      <3> QED  BY <3>1, <3>2, Zenon DEF Lesser
    <2>4. Reports!Page(s, 0, 1) = SubSeq(s, 1, 1)
      <3>1. ~(0 >= Len(s))
        BY <1>1, <1>4
      <3>2. PICK first : first = 0 + 1
        OBVIOUS
      <3>3. Reports!Page(s, 0, 1) = SubSeq(s, first, Lesser(first, Len(s)))
        <4>1. Reports!Page(s, 0, 1) = SubSeq(s, 0 + 1, Lesser(0 + 1, Len(s)))
          BY ONLY <3>1, PageFrom, Zenon
        <4> QED  BY ONLY <3>2, <4>1, Zenon
      <3>4. first = 1
        BY ONLY <3>2
      <3> QED  BY ONLY <2>1, <3>3, <3>4, Zenon
    <2>5. Reports!Page(s, 1, m) = SubSeq(s, 2, Len(s))
      <3>1. ~(1 >= Len(s))
        BY <1>1, <1>4
      <3>2. PICK first : first = 1 + 1
        OBVIOUS
      <3>3. Reports!Page(s, 1, m) = SubSeq(s, first, Lesser(1 + m, Len(s)))
        <4>1. Reports!Page(s, 1, m) = SubSeq(s, 1 + 1, Lesser(1 + m, Len(s)))
          BY ONLY <3>1, PageFrom, Zenon
        <4> QED  BY ONLY <3>2, <4>1, Zenon
      <3>4. first = 2
        BY ONLY <3>2
      <3> QED  BY ONLY <2>2, <3>3, <3>4, Zenon
    <2>6. SubSeq(s, 1, Len(s)) = <<s[1]>> \o SubSeq(s, 2, Len(s))
      BY <1>1, <1>4, SubSeqRecursiveFirst
    <2>7. SubSeq(s, 1, 1) = <<s[1]>> \o SubSeq(s, 2, 1)
      BY <1>1, <1>4, SubSeqRecursiveFirst
    <2>8. SubSeq(s, 2, 1) = <<>>
      BY SubSeqEmpty
    <2>9. <<s[1]>> \in Seq(S)
      BY <1>1, <1>4
    <2>10. SubSeq(s, 1, 1) = <<s[1]>>
      BY <2>7, <2>8, <2>9, ConcatEmptySeq
    <2>11. SubSeq(s, 1, Len(s)) = s
      BY SubSeqFull
    <2> QED  BY <2>4, <2>5, <2>6, <2>10, <2>11
  <1>5. PICK len \in Nat : len = Len(s)
    BY <1>1
  <1>6. len = 0 \/ len = 1 \/ len > 1
    OBVIOUS
  <1>7. Len(s) = 0 \/ Len(s) = 1 \/ Len(s) > 1
    BY <1>5, <1>6, Zenon
  <1> QED  BY <1>2, <1>3, <1>4, <1>7, Zenon

LEMMA PagesDoFit ==
  ASSUME ReportsConstants, ReportsInv, NEW n, NEW days
  PROVE  Reports!PagesFit(n, days)
  <1> DEFINE rows == Reports!MetricRows(n, days)
             key == [p \in rows |-> Reports!BloggerOf(p)]
             totals == Reports!BloggerTotals(n, days)
  <1>1. IsFiniteSet(rows) /\ rows \subseteq Reports!Metrics
    BY MetricRowsFinite
  <1>2. totals = Reports!Totals(rows, key)
    BY DEF Reports!BloggerTotals
  <1>3. \A p \in rows : Reports!RetOf(p) \in Int /\ key[p] \in Bloggers
    <2>1. \A p \in rows : /\ p[1] \in Reports!Live /\ p[1] \in Recommendations /\ p[2] \in AllWindows
                         /\ metric[p[1]][p[2]] # Reports!NoMetric
      BY <1>1 DEF Reports!Metrics, Reports!Live, Reports!MetricOf
    <2>2. \A e \in Reports!Live : event[e].blogger \in Bloggers
      BY DEF Reports!Live, ReportsInv, EventsKept, IsEvent, Reports!Unborn, Reports!Gone
    <2>3. \A p \in rows : metric[p[1]][p[2]].ret \in Int
      BY <2>1 DEF ReportsInv, MetricsKept
    <2> QED  BY <2>1, <2>2, <2>3 DEF Reports!RetOf, Reports!MetricOf, Reports!BloggerOf
  <1> HIDE DEF rows, totals
  <1>4. DOMAIN totals = Values(rows, key) /\ Values(rows, key) \subseteq Bloggers
    <2>1. Values(rows, key) \subseteq Bloggers
      BY <1>3 DEF Values
    <2> HIDE DEF key
    <2> QED  BY <1>2, <2>1, TotalsIs
  <1>5. ASSUME NEW k \in DOMAIN totals
        PROVE  /\ totals[k].evaluated \in Nat
               /\ \A sort \in Reports!Sorts : Reports!Measure(totals[k], sort) \in Int
    <2> HIDE DEF key
    <2> DEFINE of == With(rows, key, k)
               status == StatusesOf(of)
    <2>1. totals[k] = Reports!Aggregate(of, status)
      BY <1>2, <1>4, TotalsIs
    <2>2. IsFiniteSet(of) /\ \A p \in of : Reports!RetOf(p) \in Int
      BY <1>1, <1>3, FS_Subset DEF With
    <2> HIDE DEF of, status
    <2>3. \A sort \in Reports!Sorts : /\ Reports!Aggregate(of, status).evaluated \in Nat
                                     /\ Reports!Measure(Reports!Aggregate(of, status), sort) \in Int
      BY <2>2, MeasureInt
    <2>4. Reports!Sorts # {}
      BY DEF Reports!Sorts
    <2> QED  BY <2>1, <2>3, <2>4, Zenon
  <1>6. ASSUME NEW o \in Reports!Orders,
               NEW first \in Reports!Rankings(totals, o.least, o.sort), NEW second \in Reports!Rankings(totals, o.least, o.sort)
        PROVE  Reports!Page(first, 0, 1) \o Reports!Page(second, 1, Reports!Cardinality(Bloggers)) = first
    <2> DEFINE ranked == {k \in DOMAIN totals : totals[k].evaluated >= o.least}
               ahead == {p \in ranked \X ranked : Reports!Ahead(totals[p[1]], totals[p[2]], p[1], p[2], o.sort)}
    <2>1. o.sort \in Reports!Sorts
      BY DEF Reports!Orders
    <2>2. ranked \subseteq DOMAIN totals /\ ranked \subseteq Bloggers
      BY <1>4
    <2>3. IsFiniteSet(ranked) /\ Cardinality(ranked) <= Cardinality(Bloggers)
          /\ Cardinality(ranked) \in Nat /\ Cardinality(Bloggers) \in Nat
      <3> HIDE DEF ranked
      <3> QED  BY <2>2, FS_Subset, FS_CardinalityType DEF ReportsConstants
    <2>4. \A s \in Reports!Rankings(totals, o.least, o.sort) :
            /\ s \in Reports!SetToSeqs(ranked)
            /\ \A i, j \in DOMAIN s : i < j => ~Reports!Ahead(totals[s[j]], totals[s[i]], s[j], s[i], o.sort)
      BY DEF Reports!Rankings
    <2>5. \A s \in Reports!Rankings(totals, o.least, o.sort) :
            /\ s \in [1..Cardinality(ranked) -> ranked]
            /\ \A i, j \in DOMAIN s : i < j => <<s[j], s[i]>> \notin ahead
      BY <2>4, SameCount DEF Reports!SetToSeqs
    <2>6. ASSUME NEW a \in ranked, NEW b \in ranked, a # b
          PROVE  <<a, b>> \in ahead \/ <<b, a>> \in ahead
      <3>1. /\ totals[a].evaluated \in Nat /\ totals[b].evaluated \in Nat
            /\ Reports!Measure(totals[a], o.sort) \in Int /\ Reports!Measure(totals[b], o.sort) \in Int
        BY <1>5, <2>1, <2>2
      <3>2. a \in Int /\ b \in Int
        BY <2>2 DEF ReportsConstants
      <3>3. Reports!Ahead(totals[a], totals[b], a, b, o.sort) \/ Reports!Ahead(totals[b], totals[a], b, a, o.sort)
        BY <2>6, <3>1, <3>2 DEF Reports!Ahead
      <3> QED  BY <3>3
    <2> HIDE DEF ahead, ranked
    <2>7. first = second
      <3>1. first \in Reports!SetToSeqs(ranked) /\ second \in Reports!SetToSeqs(ranked)
        BY <2>4
      <3>2. /\ \A i, j \in DOMAIN first : i < j => <<first[j], first[i]>> \notin ahead
            /\ \A i, j \in DOMAIN second : i < j => <<second[j], second[i]>> \notin ahead
        BY <2>5
      <3> QED  BY <2>3, <2>6, <3>1, <3>2, OneOrder
    <2>8. first \in Seq(ranked) /\ Len(first) = Cardinality(ranked)
      BY <2>3, <2>5
    <2>9. Len(first) <= Cardinality(Bloggers)
      BY <2>3, <2>8
    <2>10. Reports!Page(first, 0, 1) \o Reports!Page(first, 1, Cardinality(Bloggers)) = first
      BY <2>3, <2>8, <2>9, PagesMeet
    <2> QED  BY <2>7, <2>10, SameCount
  <1> QED  BY <1>6 DEF Reports!PagesFit, totals

LEMMA ReportsDoAgree ==
  ASSUME ReportsConstants, ReportsInv
  PROVE  Reports!ReportsAgree
  <1>1. ASSUME NEW e \in Reports!Live, NEW f \in Reports!Live,
               Reports!KeyOf(event[e].blogger, event[e].code, event[e].date)
                 = Reports!KeyOf(event[f].blogger, event[f].code, event[f].date)
        PROVE  e = f
    <2>1. /\ event[e].key = Reports!KeyOf(event[e].blogger, event[e].code, event[e].date)
          /\ event[f].key = Reports!KeyOf(event[f].blogger, event[f].code, event[f].date)
      BY DEF Reports!Live, ReportsInv, EventsKept, IsEvent, Reports!Unborn, Reports!Gone
    <2>2. event[e].key = event[f].key
      BY <1>1, <2>1
    <2> QED  BY <2>2 DEF ReportsInv, EventsKept
  <1>2. ASSUME NEW n \in AllWindows, NEW days \in Reports!Days
        PROVE  /\ Reports!PagesFit(n, days) /\ Reports!RankingsAgree(n, days)
               /\ overtaken = {} => Reports!ExportAgrees(n, days)
    BY PagesDoFit, RankingsDoAgree, ExportDoesAgree
  <1>3. ASSUME NEW d \in Documents
        PROVE  Reports!ListMatchesReport(d)
    BY ListDoesMatch
  <1> QED  BY <1>1, <1>2, <1>3, Zenon DEF Reports!ReportsAgree

\* The reports agree, whatever recommendations, metrics and dates there are: no
\* blogger is counted twice for a security and a day, pages list each blogger
\* once, rankings, time series, list, document report, and the export when no
\* evaluation was overtaken by a repair, count the same rows.
THEOREM ReportsAlwaysAgree == ASSUME ReportsConstants PROVE Reports!Spec => []Reports!ReportsAgree
  <1>1. Reports!Spec => []ReportsInv
    BY ReportsInvariance
  <1>2. ReportsInv => Reports!ReportsAgree
    BY ReportsDoAgree
  <1> QED  BY <1>1, <1>2, PTL

\* So it is beside the decision runs and the security master.
THEOREM ReportsStayInAgreement == ASSUME ReportsConstants PROVE PartsSpec => []ReportsAgree
  <1> DEFINE Inv == part = "reports" => ReportsInv
  <1>1. PartsInit => Inv
    BY ReportsInitially DEF PartsInit
  <1>2. Inv /\ [PartsNext]_<<part, vars, masterVars, reportVars>> => Inv'
    <2> SUFFICES ASSUME Inv, [PartsNext]_<<part, vars, masterVars, reportVars>>, part' = "reports"
                 PROVE  ReportsInv'
      OBVIOUS
    <2>1. part = "reports" /\ [Reports!Next]_(Reports!vars)
      BY DEF PartsNext, reportVars, Reports!vars
    <2> QED  BY <2>1, ReportsStep
  <1>3. Inv => ReportsAgree
    BY ReportsDoAgree DEF ReportsAgree
  <1> QED  BY <1>1, <1>2, <1>3, PTL DEF PartsSpec
=============================================================================
