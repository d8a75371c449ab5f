----------------------------- MODULE ResearchRuns -----------------------------
(***************************************************************************)
(* The two queues of research runs: daily quotes are fetched from the      *)
(* provider for a trading day (sync runs), and the windows of a            *)
(* recommendation are evaluated on what is stored (evaluation runs).       *)
(*                                                                         *)
(* A process has one lane for each queue.    A row whose start is older   *)
(* than the claim timeout may be claimed again; the verdict of a run is    *)
(* written by id, by whoever executes it.  The recommendation is of day 0  *)
(* and of the security Target; a trading day is any day with stored quotes. *)
(* A row is used again once it has ended and no lane is at it.             *)
(***************************************************************************)
EXTENDS RecommendationWindow

CONSTANTS SyncWorkers, EvaluationWorkers,  \* processes whose configuration enables the lane
          SyncRuns, EvaluationRuns,     \* rows of the two tables
          Days,          \* the number of trading days
          Securities, Target,
          AssetTypes, TypeOf,           \* the provider is asked once for each type
          ListedFrom,    \* the first day a security is listed
          Windows,
          MaxFaults,     \* bound on crashes, errors, overtaken lanes, request races
          Unknown, NoRun

ASSUME ResearchAssumption ==
  /\ Days \in Nat \ {0} /\ MaxFaults \in Nat
  /\ Windows \subseteq 1..Days
  /\ Target \in Securities /\ TypeOf \in [Securities -> AssetTypes]
  /\ ListedFrom \in [Securities -> 1..Days] /\ ListedFrom[Target] = 1
  /\ Unknown \notin Securities /\ NoRun \notin SyncRuns \union EvaluationRuns
  /\ SyncRuns \intersect EvaluationRuns = {}

Runs == SyncRuns \union EvaluationRuns
Lanes == (SyncWorkers \X {"sync"}) \union (EvaluationWorkers \X {"evaluation"})

VARIABLES
  run,       \* the rows
  queue,     \* the active rows in the order they were queued
  missing,   \* market_data_sync_missing_items, by run
  quotes,    \* stock_daily_quotes: <<security, day>>
  metric,    \* recommendation_event_window_metrics, by window
  lane,
  faults

vars == <<run, queue, missing, quotes, metric, lane, faults>>
rows == <<run, queue>>
results == <<missing, quotes, metric>>

Active == {"QUEUED", "RUNNING"}
Ended == {"SUCCEEDED", "PARTIAL_FAILED", "FAILED"}
NoMetric == [status |-> "NONE", entry |-> 0, exit |-> 0]
Idle == [step |-> "idle", run |-> NoRun, got |-> {}, lost |-> {}, verdict |-> "",
         dates |-> {}, keep |-> {}, computed |-> <<>>]

Init ==
  /\ run = [k \in Runs |-> [status |-> "NONE", day |-> 0, force |-> FALSE, stale |-> FALSE]]
  /\ queue = <<>>
  /\ missing = [k \in SyncRuns |-> {}]
  /\ quotes = {}
  /\ metric = [n \in Windows |-> NoMetric]
  /\ lane = [l \in Lanes |-> Idle]
  /\ faults = 0

Fault == faults < MaxFaults /\ faults' = faults + 1
OfKind(k, kind) == k \in (IF kind = "sync" THEN SyncRuns ELSE EvaluationRuns)
Holders(k) == {l \in Lanes : lane[l].run = k}
Free(k) == run[k].status \notin Active /\ Holders(k) = {}

-----------------------------------------------------------------------------
(* Requests.                                                               *)

Queued(k, day, force) ==
  /\ Free(k)
  /\ run' = [run EXCEPT ![k] = [status |-> "QUEUED", day |-> day, force |-> force, stale |-> FALSE]]
  /\ queue' = Append(queue, k)

\* One active run for a day, unless two requests look before either has inserted.
CreateStockDailySyncRun(day) ==
  /\ IF \E k \in SyncRuns : run[k].status \in Active /\ run[k].day = day
     THEN Fault ELSE UNCHANGED faults
  /\ \E k \in SyncRuns : Queued(k, day, FALSE) /\ missing' = [missing EXCEPT ![k] = {}]
  /\ UNCHANGED <<quotes, metric, lane>>

CreateEvaluationRun(force) ==
  /\ \E k \in EvaluationRuns : Queued(k, 0, force)
  /\ UNCHANGED <<results, lane, faults>>

-----------------------------------------------------------------------------
(* Claims.                                                                 *)

\* A row's start passes the claim timeout, while a lane is still at it or not.
PassTimeout(k) ==
  /\ run[k].status = "RUNNING" /\ ~run[k].stale
  /\ IF Holders(k) = {} THEN UNCHANGED faults ELSE Fault
  /\ run' = [run EXCEPT ![k].stale = TRUE]
  /\ UNCHANGED <<queue, results, lane>>

\* Mutant: a row is claimed once.
ClaimableOnlyQueued(k) == run[k].status = "QUEUED"

Claimable(k) == run[k].status = "QUEUED" \/ (run[k].status = "RUNNING" /\ run[k].stale)

\* The oldest first.
NextInLine(n, kind) ==
  LET Waits(m) == OfKind(queue[m], kind) /\ Claimable(queue[m])
  IN  Waits(n) /\ \A m \in 1..(n - 1) : ~Waits(m)

ClaimNextQueued(l) ==
  /\ lane[l].step = "idle"
  /\ \E n \in DOMAIN queue :
       /\ NextInLine(n, l[2])
       /\ run' = [run EXCEPT ![queue[n]].status = "RUNNING", ![queue[n]].stale = FALSE]
       /\ lane' = [lane EXCEPT ![l] = [Idle EXCEPT !.step = "claimed", !.run = queue[n]]]
  /\ UNCHANGED <<queue, results, faults>>

\* The verdict, written by id.
Finish(k, status) ==
  /\ run' = [run EXCEPT ![k].status = status]
  /\ queue' = SelectSeq(queue, LAMBDA j : j # k)

\* A read, a transaction or the context fails: the run has FAILED, unless that
\* cannot be written either.
LaneFails(l) ==
  /\ lane[l].step # "idle" /\ Fault
  /\ Finish(lane[l].run, "FAILED") \/ UNCHANGED rows
  /\ lane' = [lane EXCEPT ![l] = Idle]
  /\ UNCHANGED <<results>>

Crash(w) ==
  /\ \E l \in Lanes : l[1] = w /\ lane[l].step # "idle"
  /\ Fault
  /\ lane' = [l \in Lanes |-> IF l[1] = w THEN Idle ELSE lane[l]]
  /\ UNCHANGED <<rows, results>>

-----------------------------------------------------------------------------
(* A sync run.                                                             *)

\* The securities that were listed on the day.
QueryForQuoteDate(day) == {s \in Securities : ListedFrom[s] <= day}

\* What the provider may answer for a type, after the last token: an error, or a
\* row for some symbols; it may not identify its security, or be of an unknown one.
Rows(type) ==
  [symbol : {s \in Securities : TypeOf[s] = type}, valid : BOOLEAN]
    \union {[symbol |-> Unknown, valid |-> TRUE]}
Error == [symbol |-> Unknown, valid |-> FALSE]
Answers(type) ==
  {answer \in SUBSET Rows(type) : \A r, q \in answer : r.symbol = q.symbol => r = q} \union {{Error}}

Verdict(got, lost, errors) ==
  IF lost = {} /\ ~errors THEN "SUCCEEDED" ELSE IF got = {} THEN "FAILED" ELSE "PARTIAL_FAILED"

\* associateStockDailyProviderRows: a security is quoted, or missing with a reason;
\* a row that cannot be used is missing and an error as well.
Associate(day, answer) ==
  LET asked == QueryForQuoteDate(day)
      returned == UNION {answer[type] : type \in AssetTypes} \ {Error}
      got == {s \in asked : [symbol |-> s, valid |-> TRUE] \in returned}
      unusable == {r \in returned : ~r.valid \/ r.symbol \notin asked}
      lost == (asked \ got) \union {IF r.symbol \in asked THEN r.symbol ELSE Unknown : r \in unusable}
      errors == unusable # {} \/ \E type \in AssetTypes : answer[type] = {Error}
  IN  [got |-> got, lost |-> lost, verdict |-> Verdict(got, lost, errors)]

AllAnswers == {answer \in [AssetTypes -> UNION {Answers(type) : type \in AssetTypes}] :
                 \A type \in AssetTypes : answer[type] \in Answers(type)}
Outcomes == [day \in 1..Days |-> {Associate(day, answer) : answer \in AllAnswers}]

Fetch(l) ==
  /\ l[2] = "sync" /\ lane[l].step = "claimed"
  /\ \E found \in Outcomes[run[lane[l].run].day] :
       lane' = [lane EXCEPT ![l] = [@ EXCEPT !.step = "fetched", !.got = found.got,
                                             !.lost = found.lost, !.verdict = found.verdict]]
  /\ UNCHANGED <<rows, results, faults>>

\* Mutant: what an earlier attempt missed is left.
MissingAfterAppends(k, lost) == missing[k] \union lost

\* The items of the run are deleted and inserted anew.
MissingAfter(k, lost) == lost

\* One transaction: the quotes, what is missing, the verdict.
Persist(l) ==
  LET k == lane[l].run IN
  /\ l[2] = "sync" /\ lane[l].step = "fetched"
  /\ quotes' = quotes \union (lane[l].got \X {run[k].day})
  /\ missing' = [missing EXCEPT ![k] = MissingAfter(k, lane[l].lost)]
  /\ Finish(k, lane[l].verdict)
  /\ lane' = [lane EXCEPT ![l] = Idle]
  /\ UNCHANGED <<metric, faults>>

-----------------------------------------------------------------------------
(* An evaluation run.                                                      *)

TradingDates == {q[2] : q \in quotes}
Flat == [open |-> 1, high |-> 1, low |-> 1, close |-> 1]

\* The trading days, up to the latest that has a quote; there must be one.
ReadTradingDates(l) ==
  /\ l[2] = "evaluation" /\ lane[l].step = "claimed"
  /\ IF TradingDates = {}
     THEN Finish(lane[l].run, "FAILED") /\ lane' = [lane EXCEPT ![l] = Idle]
     ELSE /\ lane' = [lane EXCEPT ![l].step = "dated", ![l].dates = TradingDates]
          /\ UNCHANGED rows
  /\ UNCHANGED <<results, faults>>

\* Mutant: what was evaluated once is kept.
KeptWhatever(n, force) == metric[n].status # "NONE" /\ ~force

\* A window that is READY is not evaluated again.
Kept(n, force) == metric[n].status = "READY" /\ ~force

ReadMetrics(l) ==
  /\ l[2] = "evaluation" /\ lane[l].step = "dated"
  /\ lane' = [lane EXCEPT ![l].step = "known",
       ![l].keep = {n \in Windows : Kept(n, run[lane[l].run].force)}]
  /\ UNCHANGED <<rows, results, faults>>

\* The event's security is known; its quotes are those up to the latest market date.
QuotesForSecurity(dates) == [d \in {d \in 1..Max(dates) : <<Target, d>> \in quotes} |-> Flat]

\* The windows that are not kept are evaluated.
EvaluateEvent(l) ==
  /\ l[2] = "evaluation" /\ lane[l].step = "known"
  /\ lane' = [lane EXCEPT ![l] = [@ EXCEPT !.step = "evaluated", !.dates = {}, !.keep = {},
       !.computed = [n \in Windows \ lane[l].keep |->
         WindowStatus(0, "LONG", n, QuotesForSecurity(lane[l].dates), lane[l].dates, One)]]]
  /\ UNCHANGED <<rows, results, faults>>

UpsertMetrics(l) ==
  /\ l[2] = "evaluation" /\ lane[l].step = "evaluated"
  /\ metric' = lane[l].computed @@ metric
  /\ lane' = [lane EXCEPT ![l].step = "upserted"]
  /\ UNCHANGED <<rows, missing, quotes, faults>>

FinishEvaluation(l) ==
  LET failed == {n \in DOMAIN lane[l].computed : lane[l].computed[n].status = "FAILED"} IN
  /\ l[2] = "evaluation" /\ lane[l].step = "upserted"
  /\ Finish(lane[l].run, IF failed = {} THEN "SUCCEEDED"
                         ELSE IF failed = Windows THEN "FAILED" ELSE "PARTIAL_FAILED")
  /\ lane' = [lane EXCEPT ![l] = Idle]
  /\ UNCHANGED <<results, faults>>

-----------------------------------------------------------------------------
LaneStep(l) ==
  \/ ClaimNextQueued(l)
  \/ Fetch(l) \/ Persist(l)
  \/ ReadTradingDates(l) \/ ReadMetrics(l) \/ EvaluateEvent(l) \/ UpsertMetrics(l) \/ FinishEvaluation(l)

Next ==
  \/ \E day \in 1..Days : CreateStockDailySyncRun(day)
  \/ \E force \in BOOLEAN : CreateEvaluationRun(force)
  \/ \E l \in Lanes : LaneStep(l) \/ LaneFails(l)
  \/ \E k \in Runs : PassTimeout(k)
  \/ \E w \in SyncWorkers \union EvaluationWorkers : Crash(w)

Spec == Init /\ [][Next]_vars

\* Lanes poll and time passes, for each queue.  Nobody has to ask for anything: the
\* scheduler's evaluations are of its last lookback_days only.
Forgotten(k) == Holders(k) = {} /\ PassTimeout(k)
AdvanceSync ==
  (\E w \in SyncWorkers : LaneStep(<<w, "sync">>)) \/ (\E k \in SyncRuns : Forgotten(k))
AdvanceEvaluation ==
  \/ \E w \in EvaluationWorkers : LaneStep(<<w, "evaluation">>)
  \/ \E k \in EvaluationRuns : Forgotten(k)
Fairness == WF_vars(AdvanceSync) /\ WF_vars(AdvanceEvaluation)
FairSpec == Spec /\ Fairness

-----------------------------------------------------------------------------
(* Properties.                                                             *)

TypeOK ==
  /\ run \in [Runs -> [status : Active \union Ended \union {"NONE"}, day : 0..Days,
                       force : BOOLEAN, stale : BOOLEAN]]
  /\ ToSet(queue) = {k \in Runs : run[k].status \in Active}
  /\ missing \in [SyncRuns -> SUBSET (Securities \union {Unknown})]
  /\ quotes \subseteq Securities \X (1..Days)
  /\ metric \in [Windows -> [status : Statuses \union {"NONE"}, entry : 0..Days, exit : 0..Days]]
  /\ faults \in 0..MaxFaults

\* A run whose verdict is SUCCEEDED, whoever wrote it and however often its row was
\* executed, has no missing items, and every security of its day has its quote.
SucceededIsComplete ==
  \A k \in SyncRuns : run[k].status = "SUCCEEDED" =>
    /\ missing[k] = {}
    /\ QueryForQuoteDate(run[k].day) \X {run[k].day} \subseteq quotes

\* Whatever crashes, fails, or is overtaken: every queued run ends.
ResearchRunsEnd == \A k \in Runs : []<>(run[k].status \notin Active)

\* Whatever crashed lanes, overtaken lanes and evaluations of fewer quotes have left:
\* once every day has its quotes and no evaluation is at work on what was read before,
\* a single evaluation that is asked for, forced or not, makes all windows READY for
\* good, however often its claim is lost, unless its row says that it FAILED.
Complete == \A d \in 1..Days : QueryForQuoteDate(d) \X {d} \subseteq quotes
AllReady == \A n \in Windows : metric[n].status = "READY"
NothingAtWork == \A l \in Lanes : l[2] = "evaluation" => lane[l].step = "idle"
ResultsCatchUp ==
  \A k \in EvaluationRuns :
    (Complete /\ NothingAtWork /\ run[k].status = "QUEUED") ~> ([]AllReady \/ run[k].status = "FAILED")
=============================================================================
