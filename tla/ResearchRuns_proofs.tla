------------------------- MODULE ResearchRuns_proofs -------------------------
(***************************************************************************)
(* A sync run that is called SUCCEEDED has all quotes of its day.          *)
(*                                                                         *)
(* The verdict is written by id, by whoever executes the run: a lane that  *)
(* was overtaken writes its own verdict over that of its successor.  What  *)
(* makes this harmless is that the verdict, the missing items and the      *)
(* quotes it was reached with are written in one transaction (Persist),    *)
(* that quotes are never taken back, and that a lane keeps to the day its  *)
(* row was created for (LanesAtRuns, FetchedIsTrue).                       *)
(***************************************************************************)
EXTENDS ResearchRuns, TLAPS

-----------------------------------------------------------------------------
(* The inductive invariant.                                                *)

RunColumns == {"status", "day", "force", "stale"}
LaneFields == {"step", "run", "got", "lost", "verdict", "dates", "keep", "computed"}

TablesExist ==
  /\ DOMAIN run = Runs /\ \A k \in Runs : DOMAIN run[k] = RunColumns
  /\ DOMAIN missing = SyncRuns
  /\ DOMAIN lane = Lanes /\ \A l \in Lanes : DOMAIN lane[l] = LaneFields

\* A sync run that was created is of a trading day.
SyncDays == \A k \in SyncRuns : run[k].status # "NONE" => run[k].day \in 1..Days

\* A lane that is not idle is at a row of its queue.
LanesAtRuns ==
  \A l \in Lanes : lane[l].step # "idle" =>
    /\ l[2] = "sync" => lane[l].run \in SyncRuns
    /\ l[2] = "evaluation" => lane[l].run \in EvaluationRuns
    /\ run[lane[l].run].status # "NONE"

\* What a lane is about to call SUCCEEDED lacks nothing of its row's day.
FetchedIsTrue ==
  \A l \in Lanes : lane[l].step = "fetched" /\ lane[l].verdict = "SUCCEEDED" =>
    /\ lane[l].lost = {}
    /\ QueryForQuoteDate(run[lane[l].run].day) \subseteq lane[l].got

VerdictsKnown == \A l \in Lanes : lane[l].step = "fetched" => lane[l].verdict \in Ended

ResearchInv ==
  /\ TablesExist /\ SyncDays /\ LanesAtRuns
  /\ VerdictsKnown /\ FetchedIsTrue /\ SucceededIsComplete

-----------------------------------------------------------------------------
(* The fetch of a sync run.                                                *)

\* associateStockDailyProviderRows, whatever the provider answered: what it calls
\* SUCCEEDED misses nothing, so every security of the day was quoted.
LEMMA AssociatedIsTrue ==
  ASSUME NEW day, NEW answer
  PROVE  /\ Associate(day, answer).verdict \in Ended
         /\ Associate(day, answer).verdict = "SUCCEEDED" =>
              /\ Associate(day, answer).lost = {}
              /\ QueryForQuoteDate(day) \subseteq Associate(day, answer).got
  <1> DEFINE asked == QueryForQuoteDate(day)
             a == Associate(day, answer)
  <1>1. \E errors : a.verdict = Verdict(a.got, a.lost, errors)
    BY Zenon DEF Associate
  <1>2. a.verdict \in Ended /\ (a.verdict = "SUCCEEDED" => a.lost = {})
    BY <1>1 DEF Verdict, Ended
  <1>3. asked \ a.got \subseteq a.lost
    BY DEF Associate
  <1> QED  BY <1>2, <1>3

-----------------------------------------------------------------------------
(* Every step keeps the invariant.                                         *)

LEMMA ResearchInit ==
  ASSUME Init
  PROVE  ResearchInv
  <1>1. TablesExist
    BY DEF Init, TablesExist, RunColumns, LaneFields, Idle
  <1>2. SyncDays /\ SucceededIsComplete
    BY DEF Init, SyncDays, SucceededIsComplete, Runs
  <1>3. LanesAtRuns /\ VerdictsKnown /\ FetchedIsTrue
    BY DEF Init, LanesAtRuns, VerdictsKnown, FetchedIsTrue, Idle
  <1> QED  BY <1>1, <1>2, <1>3 DEF ResearchInv

\* A lane stays well known when it goes on with its row, or is idle.
LEMMA LaneMoves ==
  ASSUME ResearchInv, NEW l \in Lanes,
         DOMAIN lane' = Lanes, \A m \in Lanes : m # l => lane'[m] = lane[m],
         DOMAIN lane'[l] = LaneFields,
         \/ lane'[l].step = "idle"
         \/ lane[l].step # "idle" /\ lane'[l].run = lane[l].run /\ lane'[l].step # "fetched"
  PROVE  /\ \A m \in Lanes : DOMAIN lane'[m] = LaneFields
         /\ \A m \in Lanes : lane'[m].step # "idle" =>
              lane[m].step # "idle" /\ lane'[m].run = lane[m].run
         /\ \A m \in Lanes : lane'[m].step = "fetched" => lane'[m] = lane[m]
  BY DEF ResearchInv, TablesExist

\* The rows keep their days, no sync run succeeds, and no lane learns anything.
LEMMA RowsMove ==
  ASSUME ResearchInv,
         DOMAIN run' = Runs, \A k \in Runs : /\ DOMAIN run'[k] = RunColumns
                                             /\ run'[k].day = run[k].day
                                             /\ run[k].status # "NONE" => run'[k].status # "NONE"
                                             /\ run'[k].status # "NONE" => run[k].status # "NONE",
         \A k \in SyncRuns : run'[k].status = "SUCCEEDED" => run[k].status = "SUCCEEDED",
         DOMAIN lane' = Lanes, \A m \in Lanes : DOMAIN lane'[m] = LaneFields,
         \A m \in Lanes : lane'[m].step # "idle" =>
           lane[m].step # "idle" /\ lane'[m].run = lane[m].run,
         \A m \in Lanes : lane'[m].step = "fetched" => lane'[m] = lane[m],
         UNCHANGED <<missing, quotes>>
  PROVE  ResearchInv'
  <1>1. TablesExist'
    BY DEF ResearchInv, TablesExist
  <1>2. SyncDays'
    BY DEF ResearchInv, SyncDays, Runs
  <1>3. \A m \in Lanes : lane[m].step # "idle" => lane[m].run \in Runs
    BY DEF ResearchInv, LanesAtRuns, Lanes, Runs
  <1>4. LanesAtRuns'
    BY <1>3 DEF ResearchInv, LanesAtRuns
  <1>5. VerdictsKnown' /\ FetchedIsTrue'
    BY <1>3 DEF ResearchInv, VerdictsKnown, FetchedIsTrue
  <1>6. SucceededIsComplete'
    BY DEF ResearchInv, SucceededIsComplete, Runs
  <1> QED  BY <1>1, <1>2, <1>4, <1>5, <1>6 DEF ResearchInv

\* What concerns neither rows nor lanes nor quotes.
concerned == <<run, missing, quotes, lane>>

LEMMA ElsewhereStep ==
  ASSUME ResearchInv, UNCHANGED concerned
  PROVE  ResearchInv'
  <1>1. /\ DOMAIN run = Runs /\ DOMAIN lane = Lanes
        /\ \A k \in Runs : DOMAIN run[k] = RunColumns
        /\ \A m \in Lanes : DOMAIN lane[m] = LaneFields
    BY DEF ResearchInv, TablesExist
  <1> QED  BY <1>1, RowsMove DEF concerned

\* A verdict other than SUCCEEDED on a sync run, or any on an evaluation.
LEMMA FinishMoves ==
  ASSUME ResearchInv, NEW k \in Runs, NEW status, Finish(k, status), run[k].status # "NONE",
         status \in Ended, k \in SyncRuns => status # "SUCCEEDED"
  PROVE  /\ DOMAIN run' = Runs
         /\ \A j \in Runs : /\ DOMAIN run'[j] = RunColumns
                            /\ run'[j].day = run[j].day
                            /\ run[j].status # "NONE" => run'[j].status # "NONE"
                            /\ run'[j].status # "NONE" => run[j].status # "NONE"
         /\ \A j \in SyncRuns : run'[j].status = "SUCCEEDED" => run[j].status = "SUCCEEDED"
  <1>1. \A j \in Runs : /\ DOMAIN run'[j] = RunColumns /\ run'[j].day = run[j].day
                        /\ run'[j].status = IF j = k THEN status ELSE run[j].status
    BY DEF Finish, ResearchInv, TablesExist, RunColumns
  <1>2. DOMAIN run' = Runs
    BY DEF Finish, ResearchInv, TablesExist
  <1> QED  BY <1>1, <1>2 DEF Ended, Runs
\* Requests: a row is used again only when no lane is at it, so no lane's day changes.
LEMMA QueuedStep ==
  ASSUME ResearchInv, NEW k \in Runs, NEW day, NEW force, Queued(k, day, force),
         k \in SyncRuns => day \in 1..Days /\ missing' = [missing EXCEPT ![k] = {}],
         k \notin SyncRuns => UNCHANGED missing,
         UNCHANGED <<quotes, lane>>
  PROVE  ResearchInv'
  <1>1. /\ run' = [run EXCEPT ![k] = [status |-> "QUEUED", day |-> day, force |-> force, stale |-> FALSE]]
        /\ Holders(k) = {}
    BY DEF Queued, Free
  <1>2. \A j \in Runs : run'[j] = IF j = k THEN [status |-> "QUEUED", day |-> day, force |-> force,
                                                 stale |-> FALSE] ELSE run[j]
    BY <1>1 DEF ResearchInv, TablesExist
  <1>3. DOMAIN run' = Runs /\ DOMAIN missing' = SyncRuns
    BY <1>1 DEF ResearchInv, TablesExist
  <1>4. TablesExist'
    BY <1>2, <1>3 DEF ResearchInv, TablesExist, RunColumns
  <1>5. SyncDays'
    BY <1>2 DEF ResearchInv, SyncDays, Runs
  <1>6. \A l \in Lanes : lane[l].step # "idle" => lane[l].run \in Runs /\ lane[l].run # k
    BY <1>1 DEF ResearchInv, LanesAtRuns, Holders, Lanes, Runs
  <1>7. LanesAtRuns' /\ VerdictsKnown' /\ FetchedIsTrue'
    BY <1>2, <1>6 DEF ResearchInv, LanesAtRuns, VerdictsKnown, FetchedIsTrue
  <1>8. SucceededIsComplete'
    <2> SUFFICES ASSUME NEW j \in SyncRuns, run'[j].status = "SUCCEEDED"
                 PROVE  /\ missing'[j] = {}
                        /\ QueryForQuoteDate(run'[j].day) \X {run'[j].day} \subseteq quotes'
      BY DEF SucceededIsComplete
    <2>1. j # k /\ run'[j] = run[j]
      BY <1>2 DEF Runs
    <2>2. missing'[j] = missing[j]
      BY <2>1 DEF ResearchInv, TablesExist
    <2> QED  BY <2>1, <2>2 DEF ResearchInv, SucceededIsComplete
  <1> QED  BY <1>4, <1>5, <1>7, <1>8 DEF ResearchInv

LEMMA RequestStep ==
  ASSUME ResearchInv,
         \/ \E day \in 1..Days : CreateStockDailySyncRun(day)
         \/ \E force \in BOOLEAN : CreateEvaluationRun(force)
  PROVE  ResearchInv'
  <1>1. ASSUME NEW day \in 1..Days, CreateStockDailySyncRun(day)
        PROVE  ResearchInv'
    <2>1. PICK k \in SyncRuns : Queued(k, day, FALSE) /\ missing' = [missing EXCEPT ![k] = {}]
      BY <1>1 DEF CreateStockDailySyncRun
    <2>2. UNCHANGED <<quotes, lane>> /\ k \in Runs
      BY <1>1 DEF CreateStockDailySyncRun, Runs
    <2> QED  BY <2>1, <2>2, QueuedStep
  <1>2. ASSUME NEW force \in BOOLEAN, CreateEvaluationRun(force)
        PROVE  ResearchInv'
    <2>1. PICK k \in EvaluationRuns : Queued(k, 0, force)
      BY <1>2 DEF CreateEvaluationRun
    <2>2. UNCHANGED <<missing, quotes, lane>> /\ k \in Runs /\ k \notin SyncRuns
      BY <1>2, ResearchAssumption DEF CreateEvaluationRun, results, Runs
    <2> QED  BY <2>1, <2>2, QueuedStep
  <1> QED  BY <1>1, <1>2

LEMMA PassTimeoutStep ==
  ASSUME ResearchInv, NEW k \in Runs, PassTimeout(k)
  PROVE  ResearchInv'
  <1>1. run' = [run EXCEPT ![k].stale = TRUE] /\ UNCHANGED <<missing, quotes, lane>>
    BY DEF PassTimeout, results
  <1>2. /\ DOMAIN run' = Runs
        /\ \A j \in Runs : /\ DOMAIN run'[j] = RunColumns
                           /\ run'[j].day = run[j].day /\ run'[j].status = run[j].status
    BY <1>1 DEF ResearchInv, TablesExist, RunColumns
  <1>3. DOMAIN lane = Lanes /\ \A m \in Lanes : DOMAIN lane[m] = LaneFields
    BY DEF ResearchInv, TablesExist
  <1> QED  BY <1>1, <1>2, <1>3, RowsMove DEF Runs

\* A claim: the row a lane finds in the queue is one of its kind that waits.
LEMMA ClaimStep ==
  ASSUME ResearchInv, NEW l \in Lanes, ClaimNextQueued(l)
  PROVE  ResearchInv'
  <1>1. PICK n \in DOMAIN queue :
          /\ NextInLine(n, l[2])
          /\ run' = [run EXCEPT ![queue[n]].status = "RUNNING", ![queue[n]].stale = FALSE]
          /\ lane' = [lane EXCEPT ![l] = [Idle EXCEPT !.step = "claimed", !.run = queue[n]]]
    BY DEF ClaimNextQueued
  <1>2. PICK k : k = queue[n]
    OBVIOUS
  <1>3. OfKind(k, l[2]) /\ Claimable(k) /\ UNCHANGED <<missing, quotes>>
    BY <1>1, <1>2 DEF NextInLine, ClaimNextQueued, results
  <1>4. /\ l[2] \in {"sync", "evaluation"} /\ k \in Runs
        /\ l[2] = "sync" => k \in SyncRuns
        /\ l[2] = "evaluation" => k \in EvaluationRuns
    BY <1>3 DEF OfKind, Lanes, Runs
  <1>5. run[k].status \in {"QUEUED", "RUNNING"}
    BY <1>3 DEF Claimable
  <1>6. /\ DOMAIN run' = Runs
        /\ \A j \in Runs : /\ DOMAIN run'[j] = RunColumns /\ run'[j].day = run[j].day
                           /\ run'[j].status = IF j = k THEN "RUNNING" ELSE run[j].status
    BY <1>1, <1>2, <1>4 DEF ResearchInv, TablesExist, RunColumns
  <1>7. /\ DOMAIN lane' = Lanes /\ \A m \in Lanes : DOMAIN lane'[m] = LaneFields
        /\ lane'[l].step = "claimed" /\ lane'[l].run = k
        /\ \A m \in Lanes : m # l => lane'[m] = lane[m]
    BY <1>1, <1>2 DEF ResearchInv, TablesExist, LaneFields, Idle
  <1>8. TablesExist'
    BY <1>3, <1>6, <1>7 DEF ResearchInv, TablesExist
  <1>9. SyncDays'
    BY <1>4, <1>5, <1>6 DEF ResearchInv, SyncDays, Runs
  <1>10. \A m \in Lanes : lane[m].step # "idle" => lane[m].run \in Runs
    BY DEF ResearchInv, LanesAtRuns, Lanes, Runs
  <1>11. LanesAtRuns'
    BY <1>4, <1>6, <1>7, <1>10 DEF ResearchInv, LanesAtRuns, OfKind
  <1>12. VerdictsKnown' /\ FetchedIsTrue'
    BY <1>6, <1>7, <1>10 DEF ResearchInv, VerdictsKnown, FetchedIsTrue
  <1>13. SucceededIsComplete'
    BY <1>3, <1>6 DEF ResearchInv, SucceededIsComplete, Runs
  <1> QED  BY <1>8, <1>9, <1>11, <1>12, <1>13 DEF ResearchInv

\* Failures: the run is FAILED, or its row stays as it is.
LEMMA LaneFailsStep ==
  ASSUME ResearchInv, NEW l \in Lanes, LaneFails(l)
  PROVE  ResearchInv'
  <1>1. /\ lane[l].step # "idle" /\ lane' = [lane EXCEPT ![l] = Idle]
        /\ \/ Finish(lane[l].run, "FAILED")
           \/ UNCHANGED run
        /\ UNCHANGED <<missing, quotes>>
    BY DEF LaneFails, rows, results
  <1>2. lane[l].run \in Runs /\ run[lane[l].run].status # "NONE"
    BY <1>1 DEF ResearchInv, LanesAtRuns, Lanes, Runs
  <1>3. /\ DOMAIN lane' = Lanes /\ \A m \in Lanes : m # l => lane'[m] = lane[m]
        /\ DOMAIN lane'[l] = LaneFields /\ lane'[l].step = "idle"
    BY <1>1 DEF ResearchInv, TablesExist, Idle, LaneFields
  <1>4. /\ DOMAIN run = Runs /\ \A k \in Runs : DOMAIN run[k] = RunColumns
    BY DEF ResearchInv, TablesExist
  <1>5. "FAILED" \in Ended /\ "FAILED" # "SUCCEEDED"
    BY DEF Ended
  <1>6. CASE Finish(lane[l].run, "FAILED")
    BY <1>1, <1>2, <1>3, <1>5, <1>6, LaneMoves, FinishMoves, RowsMove
  <1>7. CASE UNCHANGED run
    BY <1>1, <1>3, <1>4, <1>7, LaneMoves, RowsMove
  <1> QED  BY <1>1, <1>6, <1>7

LEMMA CrashStep ==
  ASSUME ResearchInv, NEW w, Crash(w)
  PROVE  ResearchInv'
  <1>1. /\ lane' = [l \in Lanes |-> IF l[1] = w THEN Idle ELSE lane[l]]
        /\ UNCHANGED <<run, missing, quotes>>
    BY DEF Crash, rows, results
  <1>2. DOMAIN Idle = LaneFields /\ Idle.step = "idle"
    BY DEF Idle, LaneFields
  <1>3. /\ DOMAIN run = Runs /\ \A k \in Runs : DOMAIN run[k] = RunColumns
        /\ \A m \in Lanes : DOMAIN lane[m] = LaneFields
    BY DEF ResearchInv, TablesExist
  <1>4. /\ DOMAIN lane' = Lanes /\ \A m \in Lanes : DOMAIN lane'[m] = LaneFields
        /\ \A m \in Lanes : lane'[m].step # "idle" => lane'[m] = lane[m]
        /\ \A m \in Lanes : lane'[m].step = "fetched" => lane'[m] = lane[m]
    BY <1>1, <1>2, <1>3
  <1> QED  BY <1>1, <1>3, <1>4, RowsMove
-----------------------------------------------------------------------------
(* The lanes of the sync runs.                                             *)

LEMMA FetchStep ==
  ASSUME ResearchInv, NEW l \in Lanes, Fetch(l)
  PROVE  ResearchInv'
  <1> DEFINE k == lane[l].run
  <1>1. PICK found \in Outcomes[run[k].day] :
          lane' = [lane EXCEPT ![l] = [@ EXCEPT !.step = "fetched", !.got = found.got,
                                                !.lost = found.lost, !.verdict = found.verdict]]
    BY DEF Fetch
  <1>2. l[2] = "sync" /\ lane[l].step = "claimed" /\ UNCHANGED <<run, missing, quotes>>
    BY DEF Fetch, rows, results
  <1>3. k \in SyncRuns /\ run[k].status # "NONE"
    BY <1>2 DEF ResearchInv, LanesAtRuns
  <1>4. run[k].day \in 1..Days
    BY <1>3 DEF ResearchInv, SyncDays
  <1>5. PICK answer \in AllAnswers : found = Associate(run[k].day, answer)
    BY <1>1, <1>4 DEF Outcomes
  <1>6. /\ found.verdict \in Ended
        /\ found.verdict = "SUCCEEDED" =>
             found.lost = {} /\ QueryForQuoteDate(run[k].day) \subseteq found.got
    BY <1>5, AssociatedIsTrue
  <1>7. /\ DOMAIN lane' = Lanes /\ \A m \in Lanes : DOMAIN lane'[m] = LaneFields
        /\ \A m \in Lanes : m # l => lane'[m] = lane[m]
        /\ lane'[l].step = "fetched" /\ lane'[l].run = k
        /\ lane'[l].got = found.got /\ lane'[l].lost = found.lost /\ lane'[l].verdict = found.verdict
    BY <1>1 DEF ResearchInv, TablesExist, LaneFields
  <1>8. TablesExist' /\ SyncDays' /\ SucceededIsComplete'
    BY <1>2, <1>7 DEF ResearchInv, TablesExist, SyncDays, SucceededIsComplete
  <1>9. LanesAtRuns'
    BY <1>2, <1>3, <1>7 DEF ResearchInv, LanesAtRuns
  <1>10. VerdictsKnown' /\ FetchedIsTrue'
    BY <1>2, <1>6, <1>7 DEF ResearchInv, VerdictsKnown, FetchedIsTrue
  <1> QED  BY <1>8, <1>9, <1>10 DEF ResearchInv

\* The verdict, the missing items and the quotes are one transaction; whatever the
\* row says before it, it says the truth of this lane's fetch after it.
LEMMA PersistStep ==
  ASSUME ResearchInv, NEW l \in Lanes, Persist(l)
  PROVE  ResearchInv'
  <1> DEFINE k == lane[l].run
             verdict == lane[l].verdict
  <1>1. /\ l[2] = "sync" /\ lane[l].step = "fetched"
        /\ quotes' = quotes \union (lane[l].got \X {run[k].day})
        /\ missing' = [missing EXCEPT ![k] = lane[l].lost]
        /\ run' = [run EXCEPT ![k].status = verdict]
        /\ lane' = [lane EXCEPT ![l] = Idle]
    BY DEF Persist, MissingAfter, Finish
  <1>2. k \in SyncRuns /\ k \in Runs /\ run[k].status # "NONE"
    BY <1>1 DEF ResearchInv, LanesAtRuns, Runs
  <1>3. /\ DOMAIN run' = Runs
        /\ \A j \in Runs : /\ DOMAIN run'[j] = RunColumns /\ run'[j].day = run[j].day
                           /\ run'[j].status = IF j = k THEN verdict ELSE run[j].status
    BY <1>1, <1>2 DEF ResearchInv, TablesExist, RunColumns
  <1>4. DOMAIN Idle = LaneFields /\ Idle.step = "idle"
    BY DEF Idle, LaneFields
  <1>5. /\ DOMAIN lane' = Lanes /\ \A m \in Lanes : DOMAIN lane'[m] = LaneFields
        /\ \A m \in Lanes : lane'[m].step # "idle" => lane'[m] = lane[m]
    BY <1>1, <1>4 DEF ResearchInv, TablesExist
  <1>6. DOMAIN missing' = SyncRuns /\ \A j \in SyncRuns : missing'[j] = IF j = k THEN lane[l].lost ELSE missing[j]
    BY <1>1 DEF ResearchInv, TablesExist
  <1>7. TablesExist'
    BY <1>3, <1>5, <1>6 DEF TablesExist
  <1>8. SyncDays'
    BY <1>2, <1>3 DEF ResearchInv, SyncDays, Runs
  <1>9. verdict # "NONE"
    BY <1>1 DEF ResearchInv, VerdictsKnown, Ended
  <1>10. \A m \in Lanes : lane[m].step # "idle" => lane[m].run \in Runs
    BY DEF ResearchInv, LanesAtRuns, Lanes, Runs
  <1>11. LanesAtRuns' /\ VerdictsKnown' /\ FetchedIsTrue'
    BY <1>3, <1>5, <1>9, <1>10 DEF ResearchInv, LanesAtRuns, VerdictsKnown, FetchedIsTrue
  <1>12. SucceededIsComplete'
    <2> SUFFICES ASSUME NEW j \in SyncRuns, run'[j].status = "SUCCEEDED"
                 PROVE  /\ missing'[j] = {}
                        /\ QueryForQuoteDate(run'[j].day) \X {run'[j].day} \subseteq quotes'
      BY DEF SucceededIsComplete
    <2>1. CASE j = k
      <3>1. lane[l].lost = {} /\ QueryForQuoteDate(run[k].day) \subseteq lane[l].got
        BY <1>1, <1>2, <1>3, <2>1 DEF ResearchInv, FetchedIsTrue
      <3> QED  BY <1>1, <1>2, <1>3, <1>6, <2>1, <3>1
    <2>2. CASE j # k
      BY <1>1, <1>3, <1>6, <2>2 DEF ResearchInv, SucceededIsComplete, Runs
    <2> QED  BY <2>1, <2>2
  <1> QED  BY <1>7, <1>8, <1>11, <1>12 DEF ResearchInv

-----------------------------------------------------------------------------
(* The lanes of the evaluations: they never write a sync run.              *)

LEMMA EvaluationStep ==
  ASSUME ResearchInv, NEW l \in Lanes,
         ReadTradingDates(l) \/ ReadMetrics(l) \/ EvaluateEvent(l) \/ UpsertMetrics(l) \/ FinishEvaluation(l)
  PROVE  ResearchInv'
  <1>1. l[2] = "evaluation" /\ lane[l].step # "idle" /\ UNCHANGED <<missing, quotes>>
    BY DEF ReadTradingDates, ReadMetrics, EvaluateEvent, UpsertMetrics, FinishEvaluation, results, rows
  <1>2. /\ lane[l].run \in Runs /\ lane[l].run \notin SyncRuns
        /\ run[lane[l].run].status # "NONE"
    BY <1>1, ResearchAssumption DEF ResearchInv, LanesAtRuns, Runs
  <1>3. DOMAIN Idle = LaneFields /\ Idle.step = "idle"
    BY DEF Idle, LaneFields
  <1>4. DOMAIN lane = Lanes /\ DOMAIN lane[l] = LaneFields /\ DOMAIN run = Runs /\ \A k \in Runs : DOMAIN run[k] = RunColumns
    BY DEF ResearchInv, TablesExist
  <1>5. /\ DOMAIN lane' = Lanes /\ \A m \in Lanes : m # l => lane'[m] = lane[m]
        /\ DOMAIN lane'[l] = LaneFields
        /\ \/ lane'[l].step = "idle"
           \/ lane'[l].run = lane[l].run /\ lane'[l].step # "fetched"
    <2>1. CASE ReadTradingDates(l)
      BY <1>3, <1>4, <2>1 DEF ReadTradingDates, LaneFields
    <2>2. CASE ReadMetrics(l)
      BY <1>4, <2>2 DEF ReadMetrics, LaneFields
    <2>3. CASE EvaluateEvent(l)
      <3>1. PICK computed : lane' = [lane EXCEPT ![l] = [@ EXCEPT !.step = "evaluated", !.dates = {},
                                                                  !.keep = {}, !.computed = computed]]
        BY <2>3, Zenon DEF EvaluateEvent
      <3> QED  BY <1>4, <3>1 DEF LaneFields
    <2>4. CASE UpsertMetrics(l)
      BY <1>4, <2>4 DEF UpsertMetrics, LaneFields
    <2>5. CASE FinishEvaluation(l)
      BY <1>3, <1>4, <2>5 DEF FinishEvaluation
    <2> QED  BY <2>1, <2>2, <2>3, <2>4, <2>5
  <1>6. \/ UNCHANGED run
        \/ \E status \in Ended : Finish(lane[l].run, status)
    BY DEF ReadTradingDates, ReadMetrics, EvaluateEvent, UpsertMetrics, FinishEvaluation, rows, Ended
  <1>7. CASE UNCHANGED run
    BY <1>1, <1>4, <1>5, <1>7, LaneMoves, RowsMove
  <1>8. ASSUME NEW status \in Ended, Finish(lane[l].run, status)
        PROVE  ResearchInv'
    BY <1>1, <1>2, <1>5, <1>8, LaneMoves, FinishMoves, RowsMove
  <1> QED  BY <1>6, <1>7, <1>8

-----------------------------------------------------------------------------
(* The theorems.                                                           *)

LEMMA ResearchStep ==
  ASSUME ResearchInv, [Next]_vars
  PROVE  ResearchInv'
  <1>1. CASE UNCHANGED vars
    BY <1>1, ElsewhereStep DEF vars, concerned
  <1>2. ASSUME NEW l \in Lanes, LaneStep(l) \/ LaneFails(l)
        PROVE  ResearchInv'
    BY <1>2, ClaimStep, FetchStep, PersistStep, EvaluationStep, LaneFailsStep DEF LaneStep
  <1>3. ASSUME NEW k \in Runs, PassTimeout(k)
        PROVE  ResearchInv'
    BY <1>3, PassTimeoutStep
  <1>4. ASSUME NEW w \in SyncWorkers \union EvaluationWorkers, Crash(w)
        PROVE  ResearchInv'
    BY <1>4, CrashStep
  <1> QED  BY <1>1, <1>2, <1>3, <1>4, RequestStep DEF Next

\* A lane keeps to its row's day and knows what its fetch lacks, for any number of
\* processes, rows, days, securities and faults.
THEOREM ResearchInvariance == Spec => []ResearchInv
  <1>1. Init => ResearchInv
    BY ResearchInit
  <1>2. ResearchInv /\ [Next]_vars => ResearchInv'
    BY ResearchStep
  <1> QED  BY <1>1, <1>2, PTL DEF Spec

\* A run whose verdict is SUCCEEDED has no missing items and all quotes of its day,
\* whichever overtaken lane wrote it (market_data.go: one transaction for the
\* quotes, the missing items and the verdict).
THEOREM SuccessIsComplete == Spec => []SucceededIsComplete
  <1>1. ResearchInv => SucceededIsComplete
    BY DEF ResearchInv
  <1> QED  BY <1>1, ResearchInvariance, PTL
=============================================================================
