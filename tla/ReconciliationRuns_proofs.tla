---------------------- MODULE ReconciliationRuns_proofs ----------------------
(***************************************************************************)
(* The queue of reconciliation runs is serial, its successes are confirmed *)
(* and its failures halt trading, for any number of processes, runs,       *)
(* snapshots, faults and switch changes.                                   *)
(***************************************************************************)
EXTENDS ReconciliationRuns, TLAPS

USE RunsAssumption
USE DEF vars, killVars, operatorVars, Ids

-----------------------------------------------------------------------------
(* Types.                                                                  *)

LEMMA InitType == Init => TypeOK
  <1>1. <<>> \in Attempts /\ NoRun \in Runs /\ Idle \in Lanes
    BY DEF NoRun, Idle, Runs, Lanes, Types, LaneSteps, Attempts
  <1>2. Idle.step = "idle"
    BY DEF Idle
  <1> QED
    BY <1>1, <1>2 DEF Init, TypeOK

LEMMA IdleType == Idle \in Lanes /\ Idle.step = "idle"
  BY DEF Idle, Lanes, LaneSteps, Attempts

\* The states of a lane that has a run.
BusyLanes == {l \in Lanes : l.run \in Ids}

LEMMA BusyType ==
  ASSUME TypeOK, NEW w \in Workers, lane[w].step # "idle"
  PROVE  lane[w] \in BusyLanes /\ runs[lane[w].run] \in Runs
  <1>1. lane \in [Workers -> Lanes] /\ runs \in [Ids -> Runs] /\ lane[w].run \in Ids
    BY DEF TypeOK
  <1> QED
    BY <1>1 DEF BusyLanes

\* A lane that goes somewhere sensible leaves the lanes well typed.
LEMMA GoType ==
  ASSUME TypeOK, NEW w \in Workers, NEW change \in BusyLanes \union {Idle}, Go(w, change)
  PROVE  /\ lane' \in [Workers -> Lanes]
         /\ \A v \in Workers : lane'[v].step # "idle" => lane'[v].run \in Ids
  <1>1. lane \in [Workers -> Lanes] /\ lane' = [lane EXCEPT ![w] = change]
        /\ \A v \in Workers : lane[v].step # "idle" => lane[v].run \in Ids
    BY DEF TypeOK, Go
  <1>2. change \in Lanes /\ (change.step # "idle" => change.run \in Ids)
    BY IdleType DEF BusyLanes
  <1>3. \A v \in Workers : lane'[v] = IF v = w THEN change ELSE lane[v]
    BY <1>1
  <1> QED
    BY <1>1, <1>2, <1>3

\* The changes the actions make leave a busy lane busy.
LEMMA StepType ==
  ASSUME NEW l \in BusyLanes, NEW step \in LaneSteps
  PROVE  [l EXCEPT !.step = step] \in BusyLanes
  BY DEF BusyLanes, Lanes

LEMMA ErrorType ==
  ASSUME NEW l \in BusyLanes
  PROVE  [l EXCEPT !.error = TRUE] \in BusyLanes
  BY DEF BusyLanes, Lanes

LEMMA VerdictType ==
  ASSUME NEW l \in BusyLanes, NEW verdict \in {"RUNNING"} \union Terminal
  PROVE  [l EXCEPT !.verdict = verdict] \in BusyLanes
  BY DEF BusyLanes, Lanes

LEMMA SafeType ==
  ASSUME NEW l \in BusyLanes, NEW safe \in SUBSET {"db", "bridge"}
  PROVE  [l EXCEPT !.safe = safe] \in BusyLanes
  BY DEF BusyLanes, Lanes

LEMMA SafeVerdictType ==
  ASSUME NEW l \in BusyLanes, NEW safe \in SUBSET {"db", "bridge"},
         NEW verdict \in {"RUNNING"} \union Terminal
  PROVE  [l EXCEPT !.safe = safe, !.verdict = verdict] \in BusyLanes
  BY DEF BusyLanes, Lanes

LEMMA AttemptType ==
  ASSUME NEW l \in BusyLanes, NEW at \in Nat, NEW diffs \in DiffKinds
  PROVE  [l EXCEPT !.attempts = Append(@, [at |-> at, diffs |-> diffs]),
                   !.count = @ + 1] \in BusyLanes
  <1>1. l \in Lanes /\ l.run \in Ids /\ l.attempts \in Attempts /\ l.count + 1 \in Nat
    BY DEF BusyLanes, Lanes
  <1>2. Append(l.attempts, [at |-> at, diffs |-> diffs]) \in Attempts
    BY <1>1 DEF Attempts
  <1> QED
    BY <1>1, <1>2 DEF BusyLanes, Lanes

\* The names of steps and verdicts.
LEMMA Names ==
  /\ {"preflight", "cancel", "comparing", "compared", "sync", "haltDb", "haltBridge",
      "end", "close"} \subseteq LaneSteps
  /\ Terminal = {"SUCCEEDED", "FAILED"}
  BY DEF LaneSteps, Terminal

LEMMA LostClaimType ==
  ASSUME TypeOK, NEW w \in Workers, lane[w].step # "idle"
  PROVE  LostClaim(w) \in BusyLanes \union {Idle} /\ After(w) \in BusyLanes \union {Idle}
  <1>1. Step(w, "close") \in BusyLanes
    BY BusyType, StepType, Names DEF Step
  <1>2. [Step(w, "close") EXCEPT !.verdict = "RUNNING"] \in BusyLanes
    BY <1>1, VerdictType
  <1> QED
    BY <1>1, <1>2 DEF LostClaim, After

LEMMA ClaimType ==
  ASSUME TypeOK, NEW w \in Workers, NEW r \in Ids, Claim(w, r)
  PROVE  TypeOK'
  <1> DEFINE change == [Idle EXCEPT !.step = FirstStep(runs[r].type), !.run = r,
                                    !.attempts = runs[r].attempts]
  <1>1. runs[r] \in Runs /\ FirstStep(runs[r].type) \in LaneSteps
    BY Names DEF TypeOK, FirstStep
  <1>2. change \in Lanes /\ change.run \in Ids
    BY <1>1 DEF Lanes, Runs, Idle
  <1>3. runs' \in [Ids -> Runs]
    <2>1. runs \in [Ids -> Runs]
          /\ runs' = [runs EXCEPT ![r].status = "RUNNING", ![r].token = w, ![r].live = TRUE]
      BY DEF Claim, TypeOK
    <2>2. [runs[r] EXCEPT !.status = "RUNNING", !.token = w, !.live = TRUE] \in Runs
      BY <1>1 DEF Runs
    <2> QED
      BY <2>1, <2>2
  <1>4. Go(w, change)
    BY DEF Claim
  <1>5. lane' \in [Workers -> Lanes]
        /\ \A v \in Workers : lane'[v].step # "idle" => lane'[v].run \in Ids
    BY <1>2, <1>4, GoType DEF BusyLanes
  <1> QED
    BY <1>3, <1>5 DEF Claim, TypeOK

LEMMA WorkType ==
  ASSUME TypeOK, NEW w \in Workers, LaneWork(w)
  PROVE  TypeOK'
  <1> DEFINE LaneOK == lane' \in [Workers -> Lanes]
                       /\ \A v \in Workers : lane'[v].step # "idle" => lane'[v].run \in Ids
  <1>0. lane[w].step # "idle"
    BY DEF LaneWork, Preflight, CancelOpenOrders, Compare, PerformFails, Checkpoint,
           CheckpointFails, SyncPositionCycles, HaltDb, HaltBridge, End, EndFails,
           CloseTradingDay
  <1>1. lane[w] \in BusyLanes /\ lane[w] \in Lanes /\ lane[w].run \in Ids
        /\ runs[lane[w].run] \in Runs
    BY <1>0, BusyType DEF BusyLanes
  <1>s. \A step \in {"comparing", "compared", "sync", "haltDb", "haltBridge", "end", "close"} :
          Step(w, step) \in BusyLanes
    BY <1>1, StepType, Names DEF Step
  <1>e. [Step(w, "haltDb") EXCEPT !.error = TRUE] \in BusyLanes
    BY <1>s, ErrorType
  <1>v. \A verdict \in Terminal : [Step(w, "end") EXCEPT !.verdict = verdict] \in BusyLanes
    BY <1>s, VerdictType
  <1>2. CASE Preflight(w)
    <2>1. LaneOK
      BY <1>2, <1>v, GoType, Names DEF Preflight
    <2> QED
      BY <1>2, <2>1 DEF Preflight, TypeOK
  <1>3. CASE CancelOpenOrders(w)
    <2>1. LaneOK
      BY <1>3, <1>s, <1>e, <1>v, GoType DEF CancelOpenOrders
    <2> QED
      BY <1>3, <2>1 DEF CancelOpenOrders, TypeOK
  <1>4. ASSUME NEW at \in 1..MaxTime, NEW diffs \in DiffKinds, Compare(w, at, diffs)
        PROVE  TypeOK'
    <2> DEFINE change == [Step(w, "compared") EXCEPT
                            !.attempts = Append(@, [at |-> at, diffs |-> diffs]),
                            !.count = @ + 1]
    <2>0. at \in Nat /\ Step(w, "compared") \in BusyLanes
      BY <1>s
    <2>1. change \in BusyLanes
      BY <2>0, AttemptType
    <2>2. Go(w, change)
      BY <1>4 DEF Compare
    <2>3. LaneOK
      BY <2>1, <2>2, GoType
    <2> QED
      BY <1>4, <2>3 DEF Compare, TypeOK
  <1>5. CASE PerformFails(w)
    <2>1. LaneOK
      BY <1>5, <1>e, GoType DEF PerformFails
    <2> QED
      BY <1>5, <2>1 DEF PerformFails, TypeOK
  <1>6. CASE Checkpoint(w)
    <2>1. Step(w, AfterCompare(w)) \in BusyLanes
      BY <1>s DEF AfterCompare
    <2>2. LaneOK
      BY <1>0, <1>6, <2>1, LostClaimType, GoType DEF Checkpoint
    <2>3. runs' \in [Ids -> Runs]
      <3>1. runs \in [Ids -> Runs] /\ lane[w].attempts \in Attempts
        BY <1>1 DEF TypeOK, Lanes
      <3>2. runs' \in {runs, [runs EXCEPT ![lane[w].run].attempts = lane[w].attempts]}
        BY <1>6 DEF Checkpoint
      <3>3. [runs[lane[w].run] EXCEPT !.attempts = lane[w].attempts] \in Runs
        BY <1>1, <3>1 DEF Runs
      <3> QED
        BY <1>1, <3>1, <3>2, <3>3
    <2> QED
      BY <1>6, <2>2, <2>3 DEF Checkpoint, TypeOK
  <1>7. CASE CheckpointFails(w)
    <2>1. LaneOK
      BY <1>7, <1>e, GoType DEF CheckpointFails
    <2> QED
      BY <1>7, <2>1 DEF CheckpointFails, Fault, TypeOK
  <1>8. CASE SyncPositionCycles(w)
    <2>1. LaneOK
      BY <1>8, <1>v, GoType, Names DEF SyncPositionCycles
    <2> QED
      BY <1>8, <2>1 DEF SyncPositionCycles, TypeOK
  <1>9. CASE HaltDb(w)
    <2>1. [Step(w, "haltBridge") EXCEPT !.safe = {"db"}] \in BusyLanes
          /\ [Step(w, "haltBridge") EXCEPT !.safe = {}] \in BusyLanes
      BY <1>s, SafeType
    <2>2. LaneOK
      BY <1>9, <2>1, GoType DEF HaltDb
    <2>3. dbKill' \in BOOLEAN /\ bridgeKill' \in BOOLEAN
      BY <1>9 DEF HaltDb, TypeOK
    <2>4. faults' \in Nat
      <3>1. faults' = faults \/ faults' = faults + 1
        BY <1>9 DEF HaltDb, Fault
      <3> QED
        BY <3>1 DEF TypeOK
    <2>5. /\ runs' \in [Ids -> Runs] /\ session' \in {"NONE", "READY", "BLOCKED", "CLOSED"}
          /\ killOp' \in {"NONE", "ON", "OFF"} /\ disturbed' \subseteq Ids /\ switches' \in Nat
      BY <1>9 DEF HaltDb, TypeOK
    <2> QED
      BY <2>2, <2>3, <2>4, <2>5 DEF TypeOK
  <1>10. CASE HaltBridge(w)
    <2>1. PICK safe \in {lane[w].safe, lane[w].safe \union {"bridge"}} :
            IF Verdict(safe) = "FAILED" \/ lane[w].error
            THEN Go(w, [Step(w, "end") EXCEPT !.safe = safe, !.verdict = Verdict(safe)])
            ELSE Go(w, [Step(w, "haltDb") EXCEPT !.error = TRUE])
      BY <1>10 DEF HaltBridge
    <2>2. safe \in SUBSET {"db", "bridge"} /\ Verdict(safe) \in {"RUNNING"} \union Terminal
      BY <1>1, <2>1, Names DEF Lanes, Verdict
    <2>3. [Step(w, "end") EXCEPT !.safe = safe, !.verdict = Verdict(safe)] \in BusyLanes
      BY <1>s, <2>2, SafeVerdictType
    <2>4. LaneOK
      BY <1>e, <2>1, <2>3, GoType
    <2>5. bridgeKill' \in BOOLEAN /\ dbKill' \in BOOLEAN
      BY <1>10 DEF HaltBridge, TypeOK
    <2>6. faults' \in Nat
      <3>1. faults' = faults \/ faults' = faults + 1
        BY <1>10 DEF HaltBridge, Fault
      <3> QED
        BY <3>1 DEF TypeOK
    <2>7. /\ runs' \in [Ids -> Runs] /\ session' \in {"NONE", "READY", "BLOCKED", "CLOSED"}
          /\ killOp' \in {"NONE", "ON", "OFF"} /\ disturbed' \subseteq Ids /\ switches' \in Nat
      BY <1>10 DEF HaltBridge, TypeOK
    <2> QED
      BY <2>4, <2>5, <2>6, <2>7 DEF TypeOK
  <1>11. CASE End(w)
    <2>1. LaneOK
      BY <1>0, <1>11, LostClaimType, GoType DEF End
    <2>2. runs' \in [Ids -> Runs]
      <3>1. runs \in [Ids -> Runs] /\ lane[w].attempts \in Attempts
            /\ lane[w].verdict \in {"RUNNING"} \union Terminal
        BY <1>1 DEF TypeOK, Lanes
      <3> QED
        BY <1>11, <3>1 DEF End, Runs
    <2> QED
      BY <1>11, <2>1, <2>2 DEF End, TypeOK
  <1>12. CASE EndFails(w)
    <2>1. LaneOK
      BY <1>0, <1>12, <1>e, LostClaimType, GoType DEF EndFails
    <2> QED
      BY <1>12, <2>1 DEF EndFails, Fault, TypeOK
  <1>13. CASE CloseTradingDay(w)
    <2>1. LaneOK
      BY <1>13, GoType DEF CloseTradingDay
    <2> QED
      BY <1>13, <2>1 DEF CloseTradingDay, TypeOK
  <1> QED
    BY <1>2, <1>3, <1>4, <1>5, <1>6, <1>7, <1>8, <1>9, <1>10, <1>11, <1>12, <1>13
    DEF LaneWork

\* The whole step.
LEMMA StepTypeOK ==
  ASSUME TypeOK, Next
  PROVE  TypeOK'
  <1>1. ASSUME NEW r \in Ids, LeaseEnds(r) PROVE TypeOK'
    <2>0. runs \in [Ids -> Runs] /\ runs' = [runs EXCEPT ![r].live = FALSE]
      BY <1>1 DEF LeaseEnds, TypeOK
    <2>1. runs' \in [Ids -> Runs]
      BY <2>0 DEF Runs
    <2> QED
      BY <1>1, <2>1 DEF LeaseEnds, Fault, TypeOK
  <1>2. ASSUME NEW r \in Ids, NEW type \in RunTypes, QueueReconciliation(r, type) PROVE TypeOK'
    <2>1. runs' \in [Ids -> Runs]
      BY <1>2 DEF QueueReconciliation, TypeOK, Runs, Types
    <2> QED
      BY <1>2, <2>1 DEF QueueReconciliation, TypeOK
  <1>3. ASSUME NEW w \in Workers, Crash(w) PROVE TypeOK'
    BY <1>3, GoType DEF Crash, Fault, TypeOK
  <1>4. ASSUME NEW on \in BOOLEAN, SetKillSwitch(on) PROVE TypeOK'
    <2>1. dbKill' \in BOOLEAN /\ bridgeKill' \in BOOLEAN
      BY <1>4 DEF SetKillSwitch, TypeOK
    <2>2. disturbed' \subseteq Ids /\ switches' \in Nat /\ killOp' \in {"NONE", "ON", "OFF"}
      <3>1. disturbed' \in {disturbed, disturbed \union UnderWay} /\ switches' = switches + 1
            /\ killOp' \in {"NONE", "ON", "OFF"}
        BY <1>4 DEF SetKillSwitch, Switch, Disturb
      <3> QED
        BY <3>1 DEF UnderWay, TypeOK
    <2>3. /\ runs' \in [Ids -> Runs] /\ session' \in {"NONE", "READY", "BLOCKED", "CLOSED"}
          /\ lane' \in [Workers -> Lanes] /\ faults' \in Nat
          /\ \A w \in Workers : lane'[w].step # "idle" => lane'[w].run \in Ids
      BY <1>4 DEF SetKillSwitch, TypeOK
    <2> QED
      BY <2>1, <2>2, <2>3 DEF TypeOK
  <1>5. CASE SetKillSwitchBridge
    BY <1>5 DEF SetKillSwitchBridge, Disturb, UnderWay, TypeOK
  <1>6. CASE FailClosed
    BY <1>6 DEF FailClosed, TypeOK
  <1> QED
    BY <1>1, <1>2, <1>3, <1>4, <1>5, <1>6, ClaimType, WorkType
    DEF Next, LaneStep, ControlStep

-----------------------------------------------------------------------------
(* What a step does to the runs, to a lane, and to the switches.           *)

OthersStay(r) == \A q \in Ids \ {r} : runs'[q] = runs[q]

Created(r) ==
  /\ runs[r].status = "NONE" /\ \A q \in Ids : q < r => runs[q].status # "NONE"
  /\ runs'[r].status = "QUEUED" /\ runs'[r].attempts = runs[r].attempts
  /\ OthersStay(r)

Claimed(r) ==
  /\ \A q \in Ids : ~(runs[q].status = "RUNNING" /\ runs[q].live)
  /\ Claimable(r) /\ \A q \in Ids : q < r => ~Claimable(q)
  /\ runs'[r].status = "RUNNING" /\ runs'[r].type = runs[r].type
  /\ runs'[r].attempts = runs[r].attempts
  /\ OthersStay(r)

Written(r) ==
  /\ runs[r].status = "RUNNING" /\ runs'[r].status \in {"RUNNING"} \union Terminal
  /\ runs'[r].type = runs[r].type
  /\ OthersStay(r)

\* What changes the runs, and how.
LEMMA RunsCauses ==
  ASSUME TypeOK, Next
  PROVE  \/ UNCHANGED runs
         \/ \E r \in Ids : LeaseEnds(r) \/ Created(r)
         \/ \E r \in Ids, w \in Workers : Claim(w, r) /\ Claimed(r)
         \/ \E w \in Workers : Owns(w) /\ (Checkpoint(w) \/ End(w))
  <1>0. runs \in [Ids -> Runs]
    BY DEF TypeOK
  <1>1. ASSUME NEW r \in Ids, NEW type \in RunTypes, QueueReconciliation(r, type)
        PROVE  Created(r)
    BY <1>0, <1>1 DEF QueueReconciliation, Created, OthersStay, Runs
  <1>2. ASSUME NEW w \in Workers, NEW r \in Ids, Claim(w, r) PROVE Claimed(r)
    BY <1>0, <1>2 DEF Claim, Claimed, Precedes, OthersStay, Runs
  <1>3. ASSUME NEW w \in Workers, Checkpoint(w) \/ End(w), ~Owns(w) PROVE UNCHANGED runs
    BY <1>3 DEF Checkpoint, End
  <1>4. ASSUME NEW w \in Workers, LaneWork(w), ~Checkpoint(w), ~End(w) PROVE UNCHANGED runs
    BY <1>4 DEF LaneWork, Preflight, CancelOpenOrders, Compare, PerformFails, CheckpointFails,
                SyncPositionCycles, HaltDb, HaltBridge, EndFails, CloseTradingDay
  <1>5. ASSUME NEW w \in Workers, Crash(w) PROVE UNCHANGED runs
    BY <1>5 DEF Crash
  <1>6. ASSUME ControlStep PROVE UNCHANGED runs
    BY <1>6 DEF ControlStep, SetKillSwitch, SetKillSwitchBridge, FailClosed
  <1> QED
    BY <1>1, <1>2, <1>3, <1>4, <1>5, <1>6 DEF Next, LaneStep

\* A step creates, claims or writes one run, or leaves the runs alone.
LEMMA RunsStep ==
  ASSUME TypeOK, Next
  PROVE  UNCHANGED runs \/ \E r \in Ids : Created(r) \/ Claimed(r) \/ Written(r)
  <1>0. runs \in [Ids -> Runs]
    BY DEF TypeOK
  <1>1. ASSUME NEW r \in Ids, LeaseEnds(r) PROVE Written(r)
    BY <1>0, <1>1 DEF LeaseEnds, Written, OthersStay, Runs
  <1>2. ASSUME NEW w \in Workers, Checkpoint(w), Owns(w) PROVE \E r \in Ids : Written(r)
    <2>1. lane[w].run \in Ids
      BY <1>2 DEF Checkpoint, TypeOK
    <2>2. runs' = [runs EXCEPT ![lane[w].run].attempts = lane[w].attempts]
          /\ runs[lane[w].run].status = "RUNNING"
      BY <1>2 DEF Checkpoint, Owns
    <2>3. Written(lane[w].run)
      BY <1>0, <2>1, <2>2 DEF Written, OthersStay, Runs
    <2> QED
      BY <2>1, <2>3
  <1>3. ASSUME NEW w \in Workers, End(w), Owns(w) PROVE \E r \in Ids : Written(r)
    <2>1. lane[w].run \in Ids /\ lane[w].verdict \in {"RUNNING"} \union Terminal
      BY <1>3 DEF End, TypeOK, Lanes
    <2>2. runs' = [runs EXCEPT ![lane[w].run].status = lane[w].verdict,
                               ![lane[w].run].attempts = lane[w].attempts]
          /\ runs[lane[w].run].status = "RUNNING"
      BY <1>3 DEF End, Owns
    <2>3. Written(lane[w].run)
      BY <1>0, <2>1, <2>2 DEF Written, OthersStay, Runs
    <2> QED
      BY <2>1, <2>3
  <1> QED
    BY <1>1, <1>2, <1>3, RunsCauses

\* Evidence is stored, and success or failure written, only from the lane of an owner
\* who has come to that verdict.
LEMMA EvidenceStep ==
  ASSUME TypeOK, Next, NEW r \in Ids
  PROVE  \/ runs'[r].attempts = runs[r].attempts /\ runs'[r].status = runs[r].status
         \/ runs'[r].attempts = runs[r].attempts /\ runs'[r].status \notin Terminal
         \/ \E w \in Workers :
              /\ lane[w].step \in {"compared", "end"} /\ lane[w].run = r /\ Owns(w)
              /\ runs'[r].attempts = lane[w].attempts /\ runs'[r].type = runs[r].type
              /\ runs'[r].status \in Terminal =>
                   lane[w].step = "end" /\ lane[w].verdict = runs'[r].status
  <1>0. runs \in [Ids -> Runs]
    BY DEF TypeOK
  <1>1. ASSUME NEW q \in Ids, LeaseEnds(q)
        PROVE  runs'[r].attempts = runs[r].attempts /\ runs'[r].status = runs[r].status
    BY <1>0, <1>1 DEF LeaseEnds, Runs
  <1>2. ASSUME NEW q \in Ids, Created(q) \/ Claimed(q)
        PROVE  runs'[r].attempts = runs[r].attempts
               /\ (runs'[r].status = runs[r].status \/ runs'[r].status \notin Terminal)
    BY <1>2, Names DEF Created, Claimed, OthersStay
  <1>3. CASE UNCHANGED runs
    BY <1>3
  <1>4. ASSUME NEW w \in Workers, Checkpoint(w), Owns(w)
        PROVE  \/ runs'[r] = runs[r]
               \/ /\ lane[w].step = "compared" /\ lane[w].run = r
                  /\ runs'[r].attempts = lane[w].attempts /\ runs'[r].type = runs[r].type
                  /\ runs'[r].status = "RUNNING"
    BY <1>0, <1>4 DEF Checkpoint, Owns, Runs
  <1>5. ASSUME NEW w \in Workers, End(w), Owns(w)
        PROVE  \/ runs'[r] = runs[r]
               \/ /\ lane[w].step = "end" /\ lane[w].run = r
                  /\ runs'[r].attempts = lane[w].attempts /\ runs'[r].type = runs[r].type
                  /\ runs'[r].status = lane[w].verdict
    BY <1>0, <1>5 DEF End, Owns, Runs
  <1>6. \/ UNCHANGED runs
        \/ \E q \in Ids : LeaseEnds(q) \/ Created(q) \/ Claimed(q)
        \/ \E w \in Workers : Owns(w) /\ (Checkpoint(w) \/ End(w))
    BY RunsCauses
  <1> QED
    BY <1>1, <1>2, <1>3, <1>4, <1>5, <1>6, Names

\* Where the work of a lane leads, and what it has seen to when it gets there.
Moved(w) ==
  LET from == lane[w]
      to   == lane'[w]
  IN  /\ to.run = from.run
      /\ to.step \notin {"preflight", "cancel"}
      /\ \/ to.attempts = from.attempts
         \/ \E at \in 1..MaxTime, diffs \in DiffKinds :
              /\ Confirms(w, at)
              /\ to.attempts = Append(from.attempts, [at |-> at, diffs |-> diffs])
      /\ to.step = "compared" => Len(to.attempts) > 0
      /\ to.step = "sync" =>
           from.step = "compared" /\ LastDiffs(w) = "NONE" /\ to.attempts = from.attempts
      /\ to.step = "end" /\ to.verdict = "SUCCEEDED" =>
           /\ \/ from.step \in {"preflight", "sync"}
              \/ from.step = "cancel" /\ TypeOf(w) # "EOD"
           /\ to.attempts = from.attempts
      /\ to.step = "end" /\ to.verdict = "FAILED" =>
           \/ from.step = "preflight"
           \/ from.step = "cancel" /\ TypeOf(w) # "EOD"
           \/ from.step = "haltBridge" /\ "db" \in from.safe /\ bridgeKill'
      /\ to.step = "haltBridge" /\ "db" \in to.safe => dbKill'

\* Changing the step, the error mark, the verdict or the latches changes nothing else.
LEMMA EditFields ==
  ASSUME NEW l \in Lanes, NEW step, NEW verdict, NEW safe
  PROVE  LET m == [l EXCEPT !.step = step]
         IN  /\ m.step = step /\ m.run = l.run /\ m.attempts = l.attempts
             /\ LET n == [m EXCEPT !.error = TRUE]
                IN  n.step = step /\ n.run = l.run /\ n.attempts = l.attempts
             /\ LET n == [m EXCEPT !.verdict = verdict]
                IN  n.step = step /\ n.run = l.run /\ n.attempts = l.attempts
                    /\ n.verdict = verdict
             /\ LET n == [m EXCEPT !.safe = safe]
                IN  n.step = step /\ n.run = l.run /\ n.attempts = l.attempts /\ n.safe = safe
             /\ LET n == [m EXCEPT !.safe = safe, !.verdict = verdict]
                IN  n.step = step /\ n.run = l.run /\ n.attempts = l.attempts
                    /\ n.verdict = verdict
  BY DEF Lanes

LEMMA WorkMoves ==
  ASSUME TypeOK, NEW w \in Workers, LaneWork(w)
  PROVE  /\ lane[w].step # "idle"
         /\ \A v \in Workers \ {w} : lane'[v] = lane[v]
         /\ lane'[w] = Idle \/ Moved(w)
  <1>0. lane[w].step # "idle"
    BY DEF LaneWork, Preflight, CancelOpenOrders, Compare, PerformFails, Checkpoint,
           CheckpointFails, SyncPositionCycles, HaltDb, HaltBridge, End, EndFails,
           CloseTradingDay
  <1>1. lane \in [Workers -> Lanes] /\ lane[w] \in Lanes
    BY DEF TypeOK
  <1>2. ASSUME NEW change, Go(w, change)
        PROVE  lane'[w] = change /\ \A v \in Workers \ {w} : lane'[v] = lane[v]
    BY <1>1, <1>2 DEF Go
  <1>3. ASSUME NEW step, NEW verdict, Go(w, [Step(w, step) EXCEPT !.verdict = verdict])
        PROVE  /\ lane'[w].step = step /\ lane'[w].run = lane[w].run
               /\ lane'[w].attempts = lane[w].attempts /\ lane'[w].verdict = verdict
               /\ \A v \in Workers \ {w} : lane'[v] = lane[v]
    <2>1. LET n == [Step(w, step) EXCEPT !.verdict = verdict]
          IN  n.step = step /\ n.run = lane[w].run /\ n.attempts = lane[w].attempts
              /\ n.verdict = verdict
      BY <1>1, EditFields DEF Step
    <2> QED
      BY <1>2, <1>3, <2>1
  <1>4. LET n == [Step(w, "haltDb") EXCEPT !.error = TRUE]
        IN  n.step = "haltDb" /\ n.run = lane[w].run /\ n.attempts = lane[w].attempts
    BY <1>1, EditFields DEF Step
  <1>5. \A step : LET n == Step(w, step)
                  IN  n.step = step /\ n.run = lane[w].run /\ n.attempts = lane[w].attempts
    BY <1>1, EditFields DEF Step
  <1>6. ASSUME Go(w, [Step(w, "haltDb") EXCEPT !.error = TRUE])
        PROVE  Moved(w) /\ \A v \in Workers \ {w} : lane'[v] = lane[v]
    BY <1>2, <1>4, <1>6 DEF Moved
  <1>7. ASSUME Go(w, LostClaim(w)) \/ Go(w, After(w))
        PROVE  (lane'[w] = Idle \/ Moved(w)) /\ \A v \in Workers \ {w} : lane'[v] = lane[v]
    <2>1. CASE Go(w, [Step(w, "close") EXCEPT !.verdict = "RUNNING"])
      <3>1. /\ lane'[w].step = "close" /\ lane'[w].run = lane[w].run
            /\ lane'[w].attempts = lane[w].attempts
            /\ \A v \in Workers \ {w} : lane'[v] = lane[v]
        BY <1>3, <2>1
      <3> QED
        BY <3>1 DEF Moved
    <2>2. CASE Go(w, Step(w, "close"))
      BY <1>2, <1>5, <2>2 DEF Moved
    <2>3. CASE Go(w, Idle)
      BY <1>2, <2>3
    <2> QED
      BY <1>7, <2>1, <2>2, <2>3 DEF LostClaim, After
  <1>8. CASE Preflight(w)
    <2>1. PICK verdict \in Terminal : Go(w, [Step(w, "end") EXCEPT !.verdict = verdict])
      BY <1>8, Names DEF Preflight
    <2>2. lane[w].step = "preflight"
      BY <1>8 DEF Preflight
    <2>3. /\ lane'[w].step = "end" /\ lane'[w].run = lane[w].run
          /\ lane'[w].attempts = lane[w].attempts
          /\ \A v \in Workers \ {w} : lane'[v] = lane[v]
      BY <1>3, <2>1
    <2> QED
      BY <2>2, <2>3 DEF Moved
  <1>9. CASE CancelOpenOrders(w)
    <2>1. CASE Go(w, Step(w, "comparing"))
      BY <1>0, <1>2, <1>5, <2>1 DEF Moved
    <2>2. ASSUME NEW verdict \in Terminal, TypeOf(w) # "EOD",
                 Go(w, [Step(w, "end") EXCEPT !.verdict = verdict])
          PROVE  Moved(w) /\ \A v \in Workers \ {w} : lane'[v] = lane[v]
      <3>1. lane[w].step = "cancel"
        BY <1>9 DEF CancelOpenOrders
      <3>2. /\ lane'[w].step = "end" /\ lane'[w].run = lane[w].run
            /\ lane'[w].attempts = lane[w].attempts
            /\ \A v \in Workers \ {w} : lane'[v] = lane[v]
        BY <1>3, <2>2
      <3> QED
        BY <2>2, <3>1, <3>2 DEF Moved
    <2> QED
      BY <1>0, <1>6, <1>9, <2>1, <2>2 DEF CancelOpenOrders
  <1>10. ASSUME NEW at \in 1..MaxTime, NEW diffs \in DiffKinds, Compare(w, at, diffs)
         PROVE  Moved(w) /\ \A v \in Workers \ {w} : lane'[v] = lane[v]
    <2> DEFINE change == [Step(w, "compared") EXCEPT
                            !.attempts = Append(@, [at |-> at, diffs |-> diffs]),
                            !.count = @ + 1]
               longer == Append(lane[w].attempts, [at |-> at, diffs |-> diffs])
    <2>1. change.step = "compared" /\ change.run = lane[w].run
          /\ change.attempts = longer
      BY <1>1 DEF Step, Lanes
    <2>2. Len(longer) > 0
      BY <1>1 DEF Lanes, Attempts
    <2>3. Go(w, change) /\ Confirms(w, at)
      BY <1>10 DEF Compare
    <2>4. lane'[w] = change /\ \A v \in Workers \ {w} : lane'[v] = lane[v]
      BY <1>2, <2>3
    <2> HIDE DEF change
    <2> QED
      BY <2>1, <2>2, <2>3, <2>4 DEF Moved
  <1>11. CASE PerformFails(w)
    BY <1>6, <1>11 DEF PerformFails
  <1>12. CASE Checkpoint(w)
    <2>1. CASE Go(w, Step(w, AfterCompare(w)))
      <3>1. AfterCompare(w) \in {"sync", "comparing", "haltDb"}
            /\ (AfterCompare(w) = "sync" => LastDiffs(w) = "NONE")
        BY DEF AfterCompare
      <3> QED
        BY <1>2, <1>5, <1>12, <2>1, <3>1 DEF Checkpoint, Moved
    <2> QED
      BY <1>7, <1>12, <2>1 DEF Checkpoint
  <1>13. CASE CheckpointFails(w)
    BY <1>6, <1>13 DEF CheckpointFails
  <1>14. CASE SyncPositionCycles(w)
    <2>1. /\ lane'[w].step = "end" /\ lane'[w].run = lane[w].run
          /\ lane'[w].attempts = lane[w].attempts /\ lane'[w].verdict = "SUCCEEDED"
          /\ \A v \in Workers \ {w} : lane'[v] = lane[v]
      BY <1>3, <1>14 DEF SyncPositionCycles
    <2>2. lane[w].step = "sync"
      BY <1>14 DEF SyncPositionCycles
    <2> QED
      BY <2>1, <2>2 DEF Moved
  <1>15. CASE HaltDb(w)
    <2>1. PICK safe \in {{"db"}, {}} : /\ Go(w, [Step(w, "haltBridge") EXCEPT !.safe = safe])
                                       /\ "db" \in safe => dbKill'
      BY <1>15 DEF HaltDb
    <2>2. LET n == [Step(w, "haltBridge") EXCEPT !.safe = safe]
          IN  n.step = "haltBridge" /\ n.run = lane[w].run /\ n.attempts = lane[w].attempts
              /\ n.safe = safe
      BY <1>1, EditFields DEF Step
    <2>3. /\ lane'[w].step = "haltBridge" /\ lane'[w].run = lane[w].run
          /\ lane'[w].attempts = lane[w].attempts /\ lane'[w].safe = safe
          /\ \A v \in Workers \ {w} : lane'[v] = lane[v]
      BY <1>2, <2>1, <2>2
    <2>4. lane[w].step = "haltDb"
      BY <1>15 DEF HaltDb
    <2> QED
      BY <2>1, <2>3, <2>4 DEF Moved
  <1>16. CASE HaltBridge(w)
    <2>1. PICK safe \in {lane[w].safe, lane[w].safe \union {"bridge"}} :
            /\ "bridge" \in safe => bridgeKill'
            /\ \/ Go(w, [Step(w, "end") EXCEPT !.safe = safe, !.verdict = Verdict(safe)])
               \/ Go(w, [Step(w, "haltDb") EXCEPT !.error = TRUE])
      BY <1>16 DEF HaltBridge
    <2>2. CASE Go(w, [Step(w, "end") EXCEPT !.safe = safe, !.verdict = Verdict(safe)])
      <3>1. LET n == [Step(w, "end") EXCEPT !.safe = safe, !.verdict = Verdict(safe)]
            IN  n.step = "end" /\ n.run = lane[w].run /\ n.attempts = lane[w].attempts
                /\ n.verdict = Verdict(safe)
        BY <1>1, EditFields DEF Step
      <3>2. Verdict(safe) \in {"RUNNING", "FAILED"}
            /\ (Verdict(safe) = "FAILED" => "db" \in lane[w].safe /\ "bridge" \in safe)
        BY <2>1 DEF Verdict
      <3>3. lane[w].step = "haltBridge"
        BY <1>16 DEF HaltBridge
      <3> QED
        BY <1>2, <2>1, <2>2, <3>1, <3>2, <3>3 DEF Moved
    <2> QED
      BY <1>0, <1>6, <2>1, <2>2
  <1>17. CASE End(w)
    BY <1>7, <1>17 DEF End
  <1>18. CASE EndFails(w)
    BY <1>6, <1>7, <1>18 DEF EndFails
  <1>19. CASE CloseTradingDay(w)
    BY <1>2, <1>19 DEF CloseTradingDay
  <1> QED
    BY <1>0, <1>8, <1>9, <1>10, <1>11, <1>12, <1>13, <1>14, <1>15, <1>16, <1>17, <1>18, <1>19
    DEF LaneWork

\* A lane that claims, and the run it claims.
Began(w, r) ==
  /\ lane'[w].run = r /\ lane'[w].attempts = runs[r].attempts
  /\ lane'[w].step = FirstStep(runs[r].type)
  /\ runs'[r].token = w /\ runs'[r].status = "RUNNING" /\ runs'[r].type = runs[r].type

LEMMA ClaimMoves ==
  ASSUME TypeOK, NEW w \in Workers, NEW r \in Ids, Claim(w, r)
  PROVE  Began(w, r) /\ OthersStay(r) /\ \A v \in Workers \ {w} : lane'[v] = lane[v]
  <1> DEFINE change == [Idle EXCEPT !.step = FirstStep(runs[r].type), !.run = r,
                                    !.attempts = runs[r].attempts]
  <1>1. change.run = r /\ change.attempts = runs[r].attempts
        /\ change.step = FirstStep(runs[r].type)
    BY DEF Idle
  <1>2. lane \in [Workers -> Lanes] /\ lane' = [lane EXCEPT ![w] = change]
    BY DEF TypeOK, Claim, Go
  <1> HIDE DEF change
  <1>3. lane'[w] = change /\ \A v \in Workers \ {w} : lane'[v] = lane[v]
    BY <1>2
  <1>4. runs \in [Ids -> Runs]
        /\ runs' = [runs EXCEPT ![r].status = "RUNNING", ![r].token = w, ![r].live = TRUE]
    BY DEF TypeOK, Claim
  <1>5. OthersStay(r) /\ runs'[r].token = w /\ runs'[r].status = "RUNNING"
        /\ runs'[r].type = runs[r].type
    BY <1>4 DEF OthersStay, Runs
  <1> QED
    BY <1>1, <1>3, <1>5 DEF Began

\* What a step does to the lanes.
LEMMA LanesStep ==
  ASSUME TypeOK, Next
  PROVE  \/ UNCHANGED lane
         \/ \E w \in Workers :
              /\ \A v \in Workers \ {w} : lane'[v] = lane[v]
              /\ \/ lane'[w] = Idle
                 \/ lane[w].step # "idle" /\ Moved(w)
                 \/ \E r \in Ids : Began(w, r) /\ Claim(w, r)
  <1>1. ASSUME NEW w \in Workers, Crash(w)
        PROVE  lane'[w] = Idle /\ \A v \in Workers \ {w} : lane'[v] = lane[v]
    <2>1. lane \in [Workers -> Lanes] /\ lane' = [lane EXCEPT ![w] = Idle]
      BY <1>1 DEF Crash, Go, TypeOK
    <2> QED
      BY <2>1
  <1>2. ASSUME ControlStep PROVE UNCHANGED lane
    BY <1>2 DEF ControlStep, SetKillSwitch, SetKillSwitchBridge, FailClosed
  <1>3. ASSUME NEW r \in Ids, LeaseEnds(r) \/ \E type \in RunTypes : QueueReconciliation(r, type)
        PROVE  UNCHANGED lane
    BY <1>3 DEF LeaseEnds, QueueReconciliation
  <1> QED
    BY <1>1, <1>2, <1>3, WorkMoves, ClaimMoves DEF Next, LaneStep

\* Only operators open a switch, and they mark the runs under way.
LEMMA SwitchesStep ==
  ASSUME Next
  PROVE  /\ disturbed \subseteq disturbed'
         /\ \/ (dbKill => dbKill') /\ (bridgeKill => bridgeKill')
            \/ UnderWay \subseteq disturbed' /\ UNCHANGED <<runs, lane>>
  <1>1. ASSUME NEW on \in BOOLEAN, SetKillSwitch(on)
        PROVE  /\ disturbed \subseteq disturbed' /\ UNCHANGED <<runs, lane, bridgeKill>>
               /\ dbKill' \/ UnderWay \subseteq disturbed'
    BY <1>1 DEF SetKillSwitch, Disturb
  <1>2. CASE SetKillSwitchBridge
    <2>1. /\ disturbed \subseteq disturbed' /\ UNCHANGED <<runs, lane, dbKill>>
          /\ \/ UNCHANGED bridgeKill
             \/ bridgeKill'
             \/ UnderWay \subseteq disturbed'
      BY <1>2 DEF SetKillSwitchBridge, Disturb
    <2> QED
      BY <2>1
  <1>3. CASE FailClosed
    BY <1>3 DEF FailClosed
  <1>4. ASSUME NEW r \in Ids, LeaseEnds(r) \/ \E type \in RunTypes : QueueReconciliation(r, type)
        PROVE  UNCHANGED <<dbKill, bridgeKill, disturbed>>
    BY <1>4 DEF LeaseEnds, QueueReconciliation
  <1>5. ASSUME NEW w \in Workers, LaneStep(w)
        PROVE  UNCHANGED disturbed /\ (dbKill => dbKill') /\ (bridgeKill => bridgeKill')
    <2>1. CASE PerformFails(w)
      <3>1. UNCHANGED <<bridgeKill, disturbed>> /\ (dbKill' = TRUE \/ dbKill' = dbKill)
        BY <2>1 DEF PerformFails
      <3> QED
        BY <3>1
    <2>2. CASE HaltDb(w)
      <3>1. UNCHANGED <<bridgeKill, disturbed>> /\ (dbKill' = TRUE \/ dbKill' = dbKill)
        BY <2>2 DEF HaltDb
      <3> QED
        BY <3>1
    <2>3. CASE HaltBridge(w)
      <3>1. UNCHANGED <<dbKill, disturbed>> /\ (bridgeKill' = TRUE \/ bridgeKill' = bridgeKill)
        BY <2>3 DEF HaltBridge
      <3> QED
        BY <3>1
    <2>4. CASE ~PerformFails(w) /\ ~HaltDb(w) /\ ~HaltBridge(w)
      <3>1. UNCHANGED <<dbKill, bridgeKill, disturbed>>
        BY <1>5, <2>4 DEF LaneStep, Claim, Crash, LaneWork, Preflight, CancelOpenOrders, Compare,
                          Checkpoint, CheckpointFails, SyncPositionCycles, End, EndFails,
                          CloseTradingDay
      <3> QED
        BY <3>1
    <2> QED
      BY <2>1, <2>2, <2>3, <2>4
  <1> QED
    BY <1>1, <1>2, <1>3, <1>4, <1>5 DEF Next, ControlStep

-----------------------------------------------------------------------------
(* The queue.                                                              *)

LEMMA QueueStep ==
  ASSUME TypeOK, InOrder, OneAfterTheOther, Next
  PROVE  InOrder' /\ OneAfterTheOther'
  <1>0. \A r \in Ids : runs[r].status \in {"NONE", "QUEUED", "RUNNING"} \union Terminal
    BY DEF TypeOK, Runs
  <1>1. ASSUME NEW r \in Ids, Created(r) PROVE InOrder' /\ OneAfterTheOther'
    BY <1>1, Names DEF Created, OthersStay, InOrder, OneAfterTheOther, Ended
  <1>2. ASSUME NEW r \in Ids, Claimed(r) PROVE InOrder' /\ OneAfterTheOther'
    <2>1. runs[r].status # "NONE"
      BY <1>2 DEF Claimed, Claimable
    <2>2. \A q \in Ids : q < r => runs[q].status # "NONE"
      BY <2>1 DEF InOrder
    <2>3. \A q \in Ids : q < r => Ended(q)
      BY <1>0, <1>2, <2>2 DEF Claimed, Claimable, Ended
    <2>4. ~Ended(r)
      BY <1>2, Names DEF Claimed, Claimable, Ended
    <2>5. \A q \in Ids : r < q => runs[q].status \notin {"RUNNING"} \union Terminal
      BY <2>4 DEF OneAfterTheOther
    <2> QED
      BY <1>2, <2>1, <2>3, <2>5, Names DEF Claimed, OthersStay, InOrder, OneAfterTheOther, Ended
  <1>3. ASSUME NEW r \in Ids, Written(r) PROVE InOrder' /\ OneAfterTheOther'
    BY <1>3, Names DEF Written, OthersStay, InOrder, OneAfterTheOther, Ended
  <1>4. CASE UNCHANGED runs
    BY <1>4 DEF InOrder, OneAfterTheOther, Ended
  <1> QED
    BY <1>1, <1>2, <1>3, <1>4, RunsStep

\* A run that exists keeps its kind, and an ended one everything.
LEMMA RunStays ==
  ASSUME TypeOK, Next, NEW r \in Ids, runs[r].status # "NONE"
  PROVE  /\ runs'[r].status # "NONE" /\ runs'[r].type = runs[r].type
         /\ Ended(r) => runs'[r] = runs[r]
  BY RunsStep, Names DEF Created, Claimed, Claimable, Written, OthersStay, Ended

LEMMA LaneRunsStep ==
  ASSUME TypeOK, LaneRuns, Next
  PROVE  LaneRuns'
  <1> SUFFICES ASSUME NEW w \in Workers, lane'[w].step # "idle"
               PROVE  /\ runs'[lane'[w].run].status # "NONE"
                      /\ lane'[w].step = "preflight" => runs'[lane'[w].run].type = "PREFLIGHT"
                      /\ lane'[w].step = "cancel" => runs'[lane'[w].run].type \in {"CANCEL", "EOD"}
    BY DEF LaneRuns, TypeOf
  <1>1. CASE lane'[w] = lane[w]
    <2>1. lane[w].run \in Ids
      BY <1>1 DEF TypeOK
    <2> QED
      BY <1>1, <2>1, RunStays DEF LaneRuns, TypeOf
  <1>2. CASE lane[w].step # "idle" /\ Moved(w)
    <2>1. lane[w].run \in Ids
      BY <1>2 DEF TypeOK
    <2>2. lane'[w].run = lane[w].run /\ lane'[w].step \notin {"preflight", "cancel"}
      BY <1>2 DEF Moved
    <2> QED
      BY <1>2, <2>1, <2>2, RunStays DEF LaneRuns
  <1>3. ASSUME NEW r \in Ids, Began(w, r)
        PROVE  /\ runs'[lane'[w].run].status # "NONE"
               /\ lane'[w].step = "preflight" => runs'[lane'[w].run].type = "PREFLIGHT"
               /\ lane'[w].step = "cancel" => runs'[lane'[w].run].type \in {"CANCEL", "EOD"}
    BY <1>3 DEF Began, FirstStep
  <1>4. lane'[w] # Idle
    BY IdleType
  <1> QED
    BY <1>1, <1>2, <1>3, <1>4, LanesStep

-----------------------------------------------------------------------------
(* The evidence.                                                           *)

\* A snapshot newer than all before it keeps the evidence rising.
LEMMA AppendRises ==
  ASSUME NEW attempts \in Attempts, Rising(attempts), NEW a \in [at: Nat, diffs: DiffKinds],
         \A k \in DOMAIN attempts : attempts[k].at < a.at
  PROVE  Rising(Append(attempts, a))
  <1>1. attempts \in Seq([at: Nat, diffs: DiffKinds])
    BY DEF Attempts
  <1>2. /\ Len(attempts) \in Nat /\ DOMAIN attempts = 1..Len(attempts)
        /\ DOMAIN Append(attempts, a) = 1..(Len(attempts) + 1)
        /\ \A k \in 1..Len(attempts) : Append(attempts, a)[k] = attempts[k]
        /\ Append(attempts, a)[Len(attempts) + 1] = a
    BY <1>1
  <1> QED
    BY <1>2 DEF Rising

LEMMA RisesStep ==
  ASSUME TypeOK, LaneRuns, EvidenceRises, Next
  PROVE  EvidenceRises'
  <1>1. ASSUME NEW w \in Workers PROVE Rising(lane'[w].attempts)
    <2>1. CASE lane'[w] = lane[w]
      BY <2>1 DEF EvidenceRises
    <2>2. CASE lane'[w] = Idle
      BY <2>2 DEF Idle, Rising
    <2>3. CASE lane[w].step # "idle" /\ Moved(w)
      <3>1. CASE lane'[w].attempts = lane[w].attempts
        BY <3>1 DEF EvidenceRises
      <3>2. ASSUME NEW at \in 1..MaxTime, NEW diffs \in DiffKinds, Confirms(w, at),
                   lane'[w].attempts = Append(lane[w].attempts, [at |-> at, diffs |-> diffs])
            PROVE  Rising(lane'[w].attempts)
        <4>1. lane[w].attempts \in Attempts /\ Rising(lane[w].attempts)
          BY DEF TypeOK, Lanes, EvidenceRises
        <4>2. [at |-> at, diffs |-> diffs] \in [at: Nat, diffs: DiffKinds]
          OBVIOUS
        <4> QED
          BY <3>2, <4>1, <4>2, AppendRises DEF Confirms
      <3> QED
        BY <2>3, <3>1, <3>2 DEF Moved
    <2>4. ASSUME NEW r \in Ids, Began(w, r) PROVE Rising(lane'[w].attempts)
      BY <2>4 DEF Began, EvidenceRises
    <2> QED
      BY <2>1, <2>2, <2>3, <2>4, LanesStep
  <1>2. ASSUME NEW r \in Ids PROVE Rising(runs'[r].attempts)
    <2>1. runs'[r].attempts = runs[r].attempts
          \/ \E w \in Workers : runs'[r].attempts = lane[w].attempts
      BY EvidenceStep
    <2> QED
      BY <2>1 DEF EvidenceRises
  <1> QED
    BY <1>1, <1>2 DEF EvidenceRises

\* A comparison about to succeed has seen a clean snapshot last.
LEMMA SuccessStep ==
  ASSUME TypeOK, LaneRuns, EvidenceRises, SuccessToCome, SuccessIsConfirmed, Next
  PROVE  SuccessToCome' /\ SuccessIsConfirmed'
  <1>1. ASSUME NEW w \in Workers
        PROVE  /\ lane'[w].step = "compared" => Len(lane'[w].attempts) > 0
               /\ lane'[w].step = "sync" => Clean(lane'[w].attempts)
               /\ lane'[w].step = "end" /\ lane'[w].verdict = "SUCCEEDED"
                  /\ Compares(runs'[lane'[w].run].type)
                    => Clean(lane'[w].attempts)
    <2>1. CASE lane'[w] = lane[w]
      <3>1. lane[w].step # "idle" =>
              lane[w].run \in Ids /\ runs'[lane[w].run].type = runs[lane[w].run].type
        BY RunStays DEF LaneRuns, TypeOK
      <3> QED
        BY <2>1, <3>1 DEF SuccessToCome, TypeOf
    <2>2. CASE lane'[w] = Idle
      BY <2>2, IdleType
    <2>3. CASE lane[w].step # "idle" /\ Moved(w)
      <3>1. /\ lane[w].run \in Ids /\ lane'[w].run = lane[w].run
            /\ runs'[lane[w].run].type = TypeOf(w)
        BY <2>3, RunStays DEF LaneRuns, TypeOK, Moved, TypeOf
      <3>2. lane'[w].step = "compared" => Len(lane'[w].attempts) > 0
        BY <2>3 DEF Moved
      <3>3. lane'[w].step = "sync" => Clean(lane'[w].attempts)
        BY <2>3 DEF Moved, SuccessToCome, LastDiffs, Clean
      <3>4. ASSUME lane'[w].step = "end", lane'[w].verdict = "SUCCEEDED", Compares(TypeOf(w))
            PROVE  lane[w].step = "sync" /\ lane'[w].attempts = lane[w].attempts
        BY <2>3, <3>4 DEF Moved, LaneRuns, Compares
      <3> QED
        BY <3>1, <3>2, <3>3, <3>4 DEF SuccessToCome
    <2>4. ASSUME NEW r \in Ids, Began(w, r)
          PROVE  lane'[w].step \in {"preflight", "cancel", "comparing"}
      BY <2>4 DEF Began, FirstStep
    <2> QED
      BY <2>1, <2>2, <2>3, <2>4, LanesStep
  <1>2. ASSUME NEW r \in Ids, Compares(runs'[r].type), runs'[r].status = "SUCCEEDED"
        PROVE  Clean(runs'[r].attempts)
    <2>1. CASE runs'[r].attempts = runs[r].attempts /\ runs'[r].status = runs[r].status
      <3>1. runs'[r].type = runs[r].type
        BY <1>2, <2>1, RunStays
      <3> QED
        BY <1>2, <2>1, <3>1 DEF SuccessIsConfirmed, Clean
    <2>2. ASSUME NEW w \in Workers, lane[w].step = "end", lane[w].run = r,
                 runs'[r].attempts = lane[w].attempts, runs'[r].type = runs[r].type,
                 lane[w].verdict = "SUCCEEDED"
          PROVE  Clean(runs'[r].attempts)
      BY <1>2, <2>2 DEF SuccessToCome, TypeOf
    <2> QED
      BY <1>2, <2>1, <2>2, EvidenceStep, Names
  <1>3. SuccessToCome'
    BY <1>1 DEF SuccessToCome, TypeOf
  <1>4. \A r \in Ids : Rising(runs'[r].attempts) /\ runs'[r].attempts \in Attempts
    <2>1. EvidenceRises' /\ TypeOK'
      BY RisesStep, StepTypeOK
    <2> QED
      BY <2>1 DEF EvidenceRises, TypeOK, Runs
  <1>5. ASSUME NEW r \in Ids, Compares(runs'[r].type), runs'[r].status = "SUCCEEDED"
        PROVE  /\ Len(runs'[r].attempts) > 0
               /\ runs'[r].attempts[Len(runs'[r].attempts)].diffs = "NONE"
               /\ \A k \in 1..(Len(runs'[r].attempts) - 1) :
                    runs'[r].attempts[k].at < runs'[r].attempts[Len(runs'[r].attempts)].at
    <2> DEFINE attempts == runs'[r].attempts
    <2>1. Len(attempts) > 0 /\ attempts[Len(attempts)].diffs = "NONE"
      BY <1>2, <1>5 DEF Clean
    <2>2. Len(attempts) \in Nat /\ DOMAIN attempts = 1..Len(attempts)
      BY <1>4 DEF Attempts
    <2>3. ASSUME NEW k \in 1..(Len(attempts) - 1) PROVE attempts[k].at < attempts[Len(attempts)].at
      BY <1>4, <2>1, <2>2 DEF Rising
    <2> QED
      BY <2>1, <2>3
  <1> QED
    BY <1>3, <1>5 DEF SuccessIsConfirmed

-----------------------------------------------------------------------------
(* The halt.                                                               *)

\* The claim of a run is not touched by what its owner writes.
LEMMA WriteFields ==
  ASSUME NEW run \in Runs, NEW attempts, NEW status
  PROVE  LET stored == [run EXCEPT !.attempts = attempts]
             over   == [run EXCEPT !.status = status, !.attempts = attempts]
         IN  /\ stored.status = run.status /\ stored.token = run.token /\ stored.live = run.live
             /\ over.token = run.token /\ over.live = run.live
  BY DEF Runs

\* An owner was the owner before, unless it has just claimed.
LEMMA OwnerStays ==
  ASSUME TypeOK, Next, NEW w \in Workers, lane[w].run \in Ids,
         LET run == runs'[lane[w].run]
         IN  run.status = "RUNNING" /\ run.token = w /\ run.live,
         ~\E r \in Ids : Began(w, r)
  PROVE  Owns(w)
  <1> DEFINE r == lane[w].run
  <1>0. runs \in [Ids -> Runs]
    BY DEF TypeOK
  <1>r. runs[r] \in Runs
    BY <1>0
  <1>1. ASSUME NEW q \in Ids, LeaseEnds(q) PROVE Owns(w)
    BY <1>0, <1>1 DEF LeaseEnds, Owns, Runs
  <1>2. ASSUME NEW q \in Ids, Created(q) PROVE Owns(w)
    BY <1>2 DEF Created, OthersStay, Owns
  <1>3. ASSUME NEW v \in Workers, NEW q \in Ids, Claim(v, q) PROVE Owns(w)
    BY <1>3, ClaimMoves DEF Began, OthersStay, Owns
  <1>4. ASSUME NEW v \in Workers, Owns(v), Checkpoint(v) PROVE Owns(w)
    <2>1. runs' = [runs EXCEPT ![lane[v].run].attempts = lane[v].attempts]
      BY <1>4 DEF Checkpoint
    <2>2. runs'[r] = IF r = lane[v].run THEN [runs[r] EXCEPT !.attempts = lane[v].attempts]
                                        ELSE runs[r]
      BY <1>0, <2>1
    <2>3. runs'[r].status = runs[r].status /\ runs'[r].token = runs[r].token
          /\ runs'[r].live = runs[r].live
      <3>1. LET stored == [runs[r] EXCEPT !.attempts = lane[v].attempts]
            IN  stored.status = runs[r].status /\ stored.token = runs[r].token
                /\ stored.live = runs[r].live
        BY <1>r, WriteFields
      <3> QED
        BY <2>2, <3>1
    <2> QED
      BY <2>3 DEF Owns
  <1>5. ASSUME NEW v \in Workers, Owns(v), End(v) PROVE Owns(w)
    <2>1. runs' = [runs EXCEPT ![lane[v].run].status = lane[v].verdict,
                               ![lane[v].run].attempts = lane[v].attempts]
      BY <1>5 DEF End
    <2>2. runs'[r] = IF r = lane[v].run THEN [runs[r] EXCEPT !.status = lane[v].verdict,
                                                             !.attempts = lane[v].attempts]
                                        ELSE runs[r]
      BY <1>0, <2>1
    <2>3. runs'[r].token = runs[r].token /\ runs'[r].live = runs[r].live
          /\ (r # lane[v].run => runs'[r].status = runs[r].status)
      <3>1. LET over == [runs[r] EXCEPT !.status = lane[v].verdict,
                                        !.attempts = lane[v].attempts]
            IN  over.token = runs[r].token /\ over.live = runs[r].live
        BY <1>r, WriteFields
      <3> QED
        BY <2>2, <3>1
    <2>4. runs[lane[v].run].status = "RUNNING"
      BY <1>5 DEF Owns
    <2> QED
      BY <2>3, <2>4 DEF Owns
  <1>6. CASE UNCHANGED runs
    BY <1>6 DEF Owns
  <1>7. \/ UNCHANGED runs
        \/ \E q \in Ids : LeaseEnds(q) \/ Created(q)
        \/ \E q \in Ids, v \in Workers : Claim(v, q)
        \/ \E v \in Workers : Owns(v) /\ (Checkpoint(v) \/ End(v))
    BY RunsCauses
  <1> QED
    BY <1>1, <1>2, <1>3, <1>4, <1>5, <1>6, <1>7

\* What an owner has set stays set until an operator marks the run.
LEMMA HaltToComeStep ==
  ASSUME TypeOK, LaneRuns, HaltToCome, Next
  PROVE  HaltToCome'
  <1> SUFFICES ASSUME NEW w \in Workers, lane'[w].step # "idle", Owns(w)',
                      Compares(TypeOf(w)'), lane'[w].run \notin disturbed'
               PROVE  /\ lane'[w].step = "haltBridge" /\ "db" \in lane'[w].safe => dbKill'
                      /\ lane'[w].step = "end" /\ lane'[w].verdict = "FAILED"
                           => dbKill' /\ bridgeKill'
    BY DEF HaltToCome
  <1>1. CASE \E r \in Ids : Began(w, r)
    <2>1. lane'[w].step \in {"preflight", "cancel", "comparing"}
      BY <1>1 DEF Began, FirstStep
    <2> QED
      BY <2>1
  <1>2. CASE ~\E r \in Ids : Began(w, r)
    <2>1. lane[w].step # "idle" /\ lane'[w].run = lane[w].run
          /\ (lane'[w] = lane[w] \/ Moved(w))
      <3>1. lane'[w] = lane[w] \/ (lane[w].step # "idle" /\ Moved(w))
        BY <1>2, LanesStep, IdleType
      <3>2. Moved(w) => lane'[w].run = lane[w].run
        BY DEF Moved
      <3> QED
        BY <3>1, <3>2
    <2>2. lane[w].run \in Ids /\ runs'[lane[w].run].type = TypeOf(w)
      BY <2>1, RunStays DEF TypeOK, LaneRuns, TypeOf
    <2>3. Owns(w)
      BY <1>2, <2>1, <2>2, OwnerStays DEF Owns
    <2>4. Compares(TypeOf(w)) /\ lane[w].run \notin disturbed
      BY <2>1, <2>2, SwitchesStep DEF TypeOf
    <2>5. (dbKill => dbKill') /\ (bridgeKill => bridgeKill')
      <3>1. lane[w].run \in UnderWay
        BY <2>2, <2>3 DEF Owns, UnderWay
      <3> QED
        BY <2>1, <3>1, SwitchesStep
    <2>6. CASE lane'[w] = lane[w]
      BY <2>1, <2>3, <2>4, <2>5, <2>6 DEF HaltToCome
    <2>7. CASE Moved(w)
      <3>1. lane'[w].step = "haltBridge" /\ "db" \in lane'[w].safe => dbKill'
        BY <2>7 DEF Moved
      <3>2. ASSUME lane'[w].step = "end", lane'[w].verdict = "FAILED"
            PROVE  dbKill' /\ bridgeKill'
        <4>1. lane[w].step = "haltBridge" /\ "db" \in lane[w].safe /\ bridgeKill'
          BY <2>1, <2>4, <2>7, <3>2 DEF Moved, LaneRuns, Compares
        <4>2. dbKill
          BY <2>1, <2>3, <2>4, <4>1 DEF HaltToCome
        <4> QED
          BY <2>5, <4>1, <4>2
      <3> QED
        BY <3>1, <3>2
    <2> QED
      BY <2>1, <2>6, <2>7
  <1> QED
    BY <1>1, <1>2

LEMMA FailedStep ==
  ASSUME TypeOK, LaneRuns, HaltToCome, FailedMeansHalted, Next
  PROVE  FailedMeansHalted'
  <1> SUFFICES ASSUME NEW r \in Ids, Compares(runs'[r].type), runs'[r].status = "FAILED",
                      r \notin disturbed'
               PROVE  dbKill' /\ bridgeKill'
    BY DEF FailedMeansHalted
  <1>1. r \notin disturbed
    BY SwitchesStep
  <1>2. CASE runs[r].status = "FAILED"
    <2>1. runs'[r].type = runs[r].type /\ r \in UnderWay
      BY <1>2, RunStays DEF UnderWay
    <2>2. dbKill /\ bridgeKill
      BY <1>1, <1>2, <2>1 DEF FailedMeansHalted
    <2> QED
      BY <2>1, <2>2, SwitchesStep
  <1>3. CASE runs[r].status # "FAILED"
    <2>1. PICK w \in Workers : /\ lane[w].step = "end" /\ lane[w].run = r /\ Owns(w)
                               /\ lane[w].verdict = "FAILED" /\ runs'[r].type = runs[r].type
      BY <1>3, EvidenceStep, Names
    <2>2. dbKill /\ bridgeKill
      BY <1>1, <2>1 DEF HaltToCome, TypeOf
    <2>3. r \in UnderWay
      BY <2>1 DEF Owns, UnderWay
    <2>4. ~UNCHANGED runs
      BY <1>3
    <2> QED
      BY <2>2, <2>4, SwitchesStep
  <1> QED
    BY <1>2, <1>3

-----------------------------------------------------------------------------
(* The theorems.                                                           *)

LEMMA InitInv == Init => IndInv
  <1> SUFFICES ASSUME Init PROVE IndInv
    OBVIOUS
  <1>1. TypeOK
    BY InitType
  <1>2. /\ \A r \in Ids : runs[r] = NoRun
        /\ \A w \in Workers : lane[w] = Idle
    BY DEF Init
  <1>3. NoRun.status = "NONE" /\ NoRun.attempts = <<>> /\ Idle.step = "idle"
        /\ Idle.attempts = <<>>
    BY DEF NoRun, Idle
  <1>4. Rising(<<>>)
    BY DEF Rising
  <1> QED
    BY <1>1, <1>2, <1>3, <1>4, Names
    DEF IndInv, InOrder, OneAfterTheOther, LaneRuns, EvidenceRises, SuccessToCome,
        SuccessIsConfirmed, HaltToCome, FailedMeansHalted

\* The invariant holds in every reachable state.
THEOREM Invariance == Spec => []IndInv
  <1>1. IndInv /\ [Next]_vars => IndInv'
    <2> SUFFICES ASSUME IndInv, [Next]_vars PROVE IndInv'
      OBVIOUS
    <2>1. CASE Next
      BY <2>1, StepTypeOK, QueueStep, LaneRunsStep, RisesStep, SuccessStep, HaltToComeStep,
         FailedStep DEF IndInv
    <2>2. CASE UNCHANGED vars
      BY <2>2
      DEF IndInv, TypeOK, InOrder, OneAfterTheOther, Ended, LaneRuns, TypeOf, EvidenceRises,
          SuccessToCome, SuccessIsConfirmed, HaltToCome, Owns, FailedMeansHalted
    <2> QED
      BY <2>1, <2>2
  <1> QED
    BY <1>1, InitInv, PTL DEF Spec

\* Runs, lanes, the day and the switches have only values the code can store.
THEOREM RunTypesHold == Spec => []TypeOK
  BY Invariance, PTL DEF IndInv

\* Runs are started in order and never side by side, for any number of processes.
THEOREM SerialRuns == Spec => []OneAfterTheOther
  BY Invariance, PTL DEF IndInv

\* A comparison that failed has closed both switches.
THEOREM FailureHalts == Spec => []FailedMeansHalted
  BY Invariance, PTL DEF IndInv

\* A comparison that succeeded has seen a newest snapshot without differences.
THEOREM SuccessConfirmed == Spec => []SuccessIsConfirmed
  BY Invariance, PTL DEF IndInv

\* Nobody changes a run that has ended.
THEOREM EndedForGood == Spec => EndedRunsStay
  <1>1. IndInv /\ [Next]_vars => [\A r \in Ids : Ended(r) => runs'[r] = runs[r]]_vars
    <2> SUFFICES ASSUME IndInv, Next, NEW r \in Ids, Ended(r) PROVE runs'[r] = runs[r]
      OBVIOUS
    <2> QED
      BY RunStays, Names DEF IndInv, Ended
  <1> QED
    BY <1>1, Invariance, PTL DEF Spec, EndedRunsStay

\* What users of the queue see is a queue that ends its runs once and in order.
THEOREM QueueImplementation == Spec => ImplementsSerialQueue
  <1> DEFINE created == {r \in Ids : runs[r].status # "NONE"}
             ended == {r \in Ids : Ended(r)}
  <1>1. Init => Queue!Init
    <2> SUFFICES ASSUME Init PROVE created = {} /\ ended = {}
      BY DEF Queue!Init
    <2>1. \A r \in Ids : runs[r].status = "NONE"
      BY DEF Init, NoRun
    <2> QED
      BY <2>1, Names DEF Ended
  <1>2. IndInv /\ [Next]_vars => [Queue!Next]_<<created, ended>>
    <2> SUFFICES ASSUME IndInv, Next
                 PROVE  Queue!Next \/ (created' = created /\ ended' = ended)
      BY DEF Ended
    <2>1. ASSUME NEW r \in Ids, Created(r) PROVE Queue!Create(r)
      <3>1. created' = created \union {r}
        BY <2>1 DEF Created, OthersStay
      <3>2. ended' = ended
        BY <2>1, Names DEF Created, OthersStay, Ended
      <3>3. \A q \in created : q < r
        BY <2>1 DEF Created, IndInv, InOrder
      <3> QED
        BY <3>1, <3>2, <3>3 DEF Queue!Create
    <2>2. ASSUME NEW r \in Ids, Claimed(r) PROVE created' = created /\ ended' = ended
      BY <2>2, Names DEF Claimed, Claimable, OthersStay, Ended
    <2>3. ASSUME NEW r \in Ids, Written(r)
          PROVE  Queue!End(r) \/ (created' = created /\ ended' = ended)
      <3>1. created' = created
        BY <2>3, Names DEF Written, OthersStay
      <3>2. CASE runs'[r].status \in Terminal
        <4>1. ended' = ended \union {r}
          BY <2>3, <3>2, Names DEF Written, OthersStay, Ended
        <4>2. r \in created \ ended
          BY <2>3, Names DEF Written, Ended
        <4>3. \A q \in created : q < r => q \in ended
          BY <2>3 DEF Written, IndInv, OneAfterTheOther
        <4> QED
          BY <3>1, <4>1, <4>2, <4>3 DEF Queue!End
      <3>3. CASE runs'[r].status \notin Terminal
        <4>1. ended' = ended
          BY <2>3, <3>3, Names DEF Written, OthersStay, Ended
        <4> QED
          BY <3>1, <4>1
      <3> QED
        BY <3>2, <3>3
    <2>4. CASE UNCHANGED runs
      BY <2>4 DEF Ended
    <2> QED
      BY <2>1, <2>2, <2>3, <2>4, RunsStep DEF IndInv, Queue!Next
  <1> QED
    BY <1>1, <1>2, Invariance, PTL DEF Spec, ImplementsSerialQueue, Queue!Spec

-----------------------------------------------------------------------------
(* The end of the day.                                                     *)

\* A lane that is about to close the day serves an end-of-day run, and what it takes
\* for a success is one that has been written.
CloseStands ==
  \A w \in Workers : lane[w].step = "close" =>
    /\ TypeOf(w) = "EOD"
    /\ lane[w].verdict = "SUCCEEDED" => runs[lane[w].run].status = "SUCCEEDED"

\* A lane comes to the end of the day with the verdict it wrote, or without any.
LEMMA ComesToClose ==
  ASSUME TypeOK, NEW w \in Workers, LaneWork(w), lane'[w].step = "close"
  PROVE  /\ TypeOf(w) = "EOD" /\ lane'[w].run = lane[w].run
         /\ \/ lane'[w].verdict = "RUNNING"
            \/ runs'[lane[w].run].status = lane'[w].verdict
  <1>0. lane[w].step # "idle" /\ (lane'[w] = Idle \/ Moved(w))
    BY WorkMoves
  <1>1. lane \in [Workers -> Lanes] /\ lane[w] \in Lanes /\ runs \in [Ids -> Runs]
        /\ lane[w].run \in Ids /\ lane[w].verdict \in {"RUNNING"} \union Terminal
    BY <1>0 DEF TypeOK, Lanes
  <1>2. ASSUME NEW change, Go(w, change) PROVE lane'[w] = change
    BY <1>1, <1>2 DEF Go
  <1>3. /\ Step(w, "close").step = "close" /\ Step(w, "close").run = lane[w].run
        /\ Step(w, "close").verdict = lane[w].verdict
        /\ [Step(w, "close") EXCEPT !.verdict = "RUNNING"].verdict = "RUNNING"
    BY <1>1 DEF Step, Lanes
  <1>4. Idle.step = "idle" /\ lane'[w].run = lane[w].run
    BY <1>0, IdleType DEF Moved
  <1>5. ASSUME Go(w, LostClaim(w)) PROVE TypeOf(w) = "EOD" /\ lane'[w].verdict = "RUNNING"
    BY <1>2, <1>3, <1>4, <1>5 DEF LostClaim
  <1>6. ASSUME NEW step, step # "close", NEW verdict,
               \/ Go(w, Step(w, step)) \/ Go(w, [Step(w, step) EXCEPT !.error = TRUE])
               \/ Go(w, [Step(w, step) EXCEPT !.verdict = verdict])
        PROVE  FALSE
    <2>1. CASE Go(w, Step(w, step))
      <3>1. Step(w, step).step = step
        BY <1>1 DEF Step, Lanes
      <3> QED
        BY <1>2, <1>6, <2>1, <3>1
    <2>2. CASE Go(w, [Step(w, step) EXCEPT !.error = TRUE])
      <3>1. [Step(w, step) EXCEPT !.error = TRUE].step = step
        BY <1>1 DEF Step, Lanes
      <3> QED
        BY <1>2, <1>6, <2>2, <3>1
    <2>3. CASE Go(w, [Step(w, step) EXCEPT !.verdict = verdict])
      <3>1. [Step(w, step) EXCEPT !.verdict = verdict].step = step
        BY <1>1 DEF Step, Lanes
      <3> QED
        BY <1>2, <1>6, <2>3, <3>1
    <2> QED
      BY <1>6, <2>1, <2>2, <2>3
  <1>7. CASE Checkpoint(w)
    <2>1. AfterCompare(w) # "close"
      BY DEF AfterCompare
    <2>2. Go(w, Step(w, AfterCompare(w))) \/ Go(w, LostClaim(w))
      BY <1>7 DEF Checkpoint
    <2> QED
      BY <1>4, <1>5, <1>6, <2>1, <2>2
  <1>8. CASE End(w)
    <2>1. CASE Owns(w)
      <3>1. /\ runs' = [runs EXCEPT ![lane[w].run].status = lane[w].verdict,
                                    ![lane[w].run].attempts = lane[w].attempts]
            /\ lane'[w] = After(w)
        BY <1>2, <1>8, <2>1 DEF End
      <3>2. runs'[lane[w].run].status = lane[w].verdict
        BY <1>1, <3>1 DEF Runs
      <3>3. TypeOf(w) = "EOD" /\ lane'[w].verdict = lane[w].verdict
        BY <1>3, <1>4, <3>1 DEF After
      <3> QED
        BY <1>4, <3>2, <3>3
    <2>2. CASE ~Owns(w)
      BY <1>4, <1>5, <1>8, <2>2 DEF End
    <2> QED
      BY <2>1, <2>2
  <1>9. CASE EndFails(w)
    BY <1>4, <1>5, <1>6, <1>9 DEF EndFails
  <1>10. ASSUME NEW at \in 1..MaxTime, NEW diffs \in DiffKinds, Compare(w, at, diffs)
         PROVE  FALSE
    <2> DEFINE l == Step(w, "compared")
    <2>1. l \in Lanes /\ l.step = "compared"
      BY <1>1 DEF Step, Lanes, LaneSteps
    <2> HIDE DEF l
    <2>2. lane'[w] = [l EXCEPT !.attempts = Append(@, [at |-> at, diffs |-> diffs]),
                               !.count = @ + 1]
      BY <1>2, <1>10 DEF Compare, l
    <2>3. lane'[w].step = "compared"
      BY <2>1, <2>2 DEF Lanes
    <2> QED
      BY <2>3
  <1>11. CASE HaltDb(w)
    <2>1. PICK safe \in {{}, {"db"}} : Go(w, [Step(w, "haltBridge") EXCEPT !.safe = safe])
      BY <1>11 DEF HaltDb
    <2>2. [Step(w, "haltBridge") EXCEPT !.safe = safe].step = "haltBridge"
      BY <1>1 DEF Step, Lanes
    <2> QED
      BY <1>2, <2>1, <2>2
  <1>12. CASE HaltBridge(w)
    <2>1. PICK safe \in {lane[w].safe, lane[w].safe \union {"bridge"}} :
            \/ Go(w, [Step(w, "end") EXCEPT !.safe = safe, !.verdict = Verdict(safe)])
            \/ Go(w, [Step(w, "haltDb") EXCEPT !.error = TRUE])
      BY <1>12 DEF HaltBridge
    <2>2. [Step(w, "end") EXCEPT !.safe = safe, !.verdict = Verdict(safe)].step = "end"
      BY <1>1 DEF Step, Lanes
    <2> QED
      BY <1>2, <1>6, <2>1, <2>2
  <1>13. CASE CloseTradingDay(w)
    BY <1>2, <1>4, <1>13 DEF CloseTradingDay
  <1>14. ~Preflight(w) /\ ~CancelOpenOrders(w) /\ ~PerformFails(w) /\ ~CheckpointFails(w)
         /\ ~SyncPositionCycles(w)
    BY <1>6 DEF Preflight, CancelOpenOrders, PerformFails, CheckpointFails, SyncPositionCycles
  <1> QED
    BY <1>7, <1>8, <1>9, <1>10, <1>11, <1>12, <1>13, <1>14 DEF LaneWork

LEMMA CloseStandsStep ==
  ASSUME TypeOK, LaneRuns, CloseStands, Next
  PROVE  CloseStands'
  <1> SUFFICES ASSUME NEW w \in Workers, lane'[w].step = "close"
               PROVE  /\ runs'[lane'[w].run].type = "EOD"
                      /\ lane'[w].verdict = "SUCCEEDED"
                           => runs'[lane'[w].run].status = "SUCCEEDED"
    BY DEF CloseStands, TypeOf
  <1>1. CASE lane'[w] = lane[w]
    <2>1. lane[w].run \in Ids /\ runs[lane[w].run].status # "NONE"
      BY <1>1 DEF TypeOK, LaneRuns
    <2> QED
      BY <1>1, <2>1, RunStays, Names DEF CloseStands, TypeOf, Ended
  <1>2. CASE LaneWork(w)
    <2>1. lane[w].run \in Ids /\ runs[lane[w].run].status # "NONE"
      BY <1>2, WorkMoves DEF TypeOK, LaneRuns
    <2> QED
      BY <1>2, <2>1, RunStays, ComesToClose DEF TypeOf
  <1>3. ASSUME NEW r \in Ids, Claim(w, r) PROVE lane'[w].step # "close"
    <2>1. lane'[w].step = FirstStep(runs[r].type)
      BY <1>3, ClaimMoves DEF Began
    <2> QED
      BY <2>1 DEF FirstStep
  <1>4. \/ lane'[w] = lane[w] \/ LaneWork(w) \/ lane'[w] = Idle
        \/ \E r \in Ids : Claim(w, r)
    <2>0. lane \in [Workers -> Lanes]
      BY DEF TypeOK
    <2>1. ASSUME NEW v \in Workers, Crash(v) PROVE lane'[w] = lane[w] \/ lane'[w] = Idle
      BY <2>0, <2>1 DEF Crash, Go
    <2>2. ASSUME ControlStep PROVE lane' = lane
      BY <2>2 DEF ControlStep, SetKillSwitch, SetKillSwitchBridge, FailClosed
    <2>3. ASSUME NEW r \in Ids,
                 LeaseEnds(r) \/ \E type \in RunTypes : QueueReconciliation(r, type)
          PROVE  lane' = lane
      BY <2>3 DEF LeaseEnds, QueueReconciliation
    <2>4. ASSUME NEW v \in Workers, v # w, LaneWork(v) \/ \E r \in Ids : Claim(v, r)
          PROVE  lane'[w] = lane[w]
      BY <2>4, WorkMoves, ClaimMoves
    <2> QED
      BY <2>1, <2>2, <2>3, <2>4 DEF Next, LaneStep
  <1> QED
    BY <1>1, <1>2, <1>3, <1>4, IdleType

\* The day becomes CLOSED in one way only.
LEMMA SessionStep ==
  ASSUME Next, session' = "CLOSED"
  PROVE  session = "CLOSED" \/ \E w \in Workers : CloseTradingDay(w) /\ Reconciled(w)
  <1>1. ASSUME NEW w \in Workers, LaneWork(w)
        PROVE  session' = session \/ CloseTradingDay(w) \/ Preflight(w)
    BY <1>1 DEF LaneWork, CancelOpenOrders, Compare, PerformFails, Checkpoint, CheckpointFails,
                SyncPositionCycles, HaltDb, HaltBridge, End, EndFails
  <1>2. ASSUME NEW w \in Workers, Preflight(w) PROVE session = "CLOSED"
    BY <1>2 DEF Preflight
  <1>3. ASSUME NEW w \in Workers, CloseTradingDay(w) PROVE session = "CLOSED" \/ Reconciled(w)
    BY <1>3 DEF CloseTradingDay
  <1>4. ASSUME NEW w \in Workers, Crash(w) \/ \E r \in Ids : Claim(w, r)
        PROVE  session' = session
    BY <1>4 DEF Crash, Claim
  <1>5. ASSUME ControlStep PROVE session' = session
    BY <1>5 DEF ControlStep, SetKillSwitch, SetKillSwitchBridge, FailClosed
  <1>6. ASSUME NEW r \in Ids,
               LeaseEnds(r) \/ \E type \in RunTypes : QueueReconciliation(r, type)
        PROVE  session' = session
    BY <1>6 DEF LeaseEnds, QueueReconciliation
  <1> QED
    BY <1>1, <1>2, <1>3, <1>4, <1>5, <1>6 DEF Next, LaneStep

\* The day is closed only after an end-of-day run succeeded, although closeTradingDay is
\* not fenced by the claim and may run in a lane that has been overtaken.
THEOREM DayClosedAfterSuccess == Spec => []ClosedAfterReconciliation
  <1>1. Init => CloseStands /\ ClosedAfterReconciliation
    BY IdleType DEF Init, CloseStands, ClosedAfterReconciliation
  <1>2. IndInv /\ CloseStands /\ ClosedAfterReconciliation /\ [Next]_vars
          => CloseStands' /\ ClosedAfterReconciliation'
    <2> SUFFICES ASSUME TypeOK, LaneRuns, CloseStands, ClosedAfterReconciliation, [Next]_vars
                 PROVE  CloseStands' /\ ClosedAfterReconciliation'
      BY DEF IndInv
    <2>1. CASE UNCHANGED vars
      BY <2>1 DEF CloseStands, ClosedAfterReconciliation, TypeOf
    <2>2. ASSUME Next, session' = "CLOSED"
          PROVE  \E r \in Ids : runs'[r].type = "EOD" /\ runs'[r].status = "SUCCEEDED"
      <3>1. PICK r \in Ids : runs[r].type = "EOD" /\ runs[r].status = "SUCCEEDED"
        <4>1. CASE session = "CLOSED"
          BY <4>1 DEF ClosedAfterReconciliation
        <4>2. ASSUME NEW w \in Workers, CloseTradingDay(w), Reconciled(w)
              PROVE  \E r \in Ids : runs[r].type = "EOD" /\ runs[r].status = "SUCCEEDED"
          <5>1. lane[w].step = "close" /\ lane[w].verdict = "SUCCEEDED"
            BY <4>2 DEF CloseTradingDay, Reconciled
          <5>2. lane[w].run \in Ids
            BY <5>1 DEF TypeOK
          <5> QED
            BY <5>1, <5>2 DEF CloseStands, TypeOf
        <4> QED
          BY <2>2, <4>1, <4>2, SessionStep
      <3>2. runs'[r] = runs[r]
        BY <2>2, <3>1, RunStays, Names DEF Ended
      <3> QED
        BY <3>1, <3>2
    <2>3. CASE Next
      BY <2>2, <2>3, CloseStandsStep DEF ClosedAfterReconciliation
    <2> QED
      BY <2>1, <2>3
  <1> QED
    BY <1>1, <1>2, Invariance, PTL DEF Spec
=============================================================================
