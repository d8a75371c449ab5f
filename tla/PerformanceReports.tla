-------------------------- MODULE PerformanceReports --------------------------
(***************************************************************************)
(* What the reports say of the recommendations and of their evaluation.    *)
(*                                                                         *)
(* Recommendations are recorded and replaced with their documents, runs    *)
(* evaluate them, a command repairs their dates, and the configuration     *)
(* changes.  A metric copies the date of its recommendation when it is     *)
(* computed.  The same rows are counted by several reports, each with      *)
(* queries of its own: rankings and the blogger's summary from the         *)
(* metrics, the ledger and its export from the recommendations, the list   *)
(* of documents in SQL, and the report of a document in memory.            *)
(***************************************************************************)
EXTENDS Integers, Sequences, SequencesExt, FiniteSetsExt, Functions

CONSTANTS Recommendations, Bloggers, \* numbers: ids order ties
          Documents, Dated,   \* those whose article date is known
          ArticleDate,
          Codes, Sectors,
          Dates, AllWindows, Versions,
          Results,             \* what an evaluation may find: a status and a return
          Evaluators, Command, \* who evaluates: the lanes, and the repair command
          MaxEdits             \* bound

VARIABLES
  event,     \* recommendation_events, by id
  metric,    \* recommendation_event_window_metrics, by event and window
  configured, \* the windows and calculation version
  run,       \* what each evaluation has loaded
  repair,    \* the repair command
  overtaken, \* (history) metrics of an evaluation that read a date before its repair
  edits

vars == <<event, metric, configured, run, repair, overtaken, edits>>

NoMetric == [status |-> "NONE", ret |-> 0, date |-> 0, version |-> 0]
Unborn == [state |-> "unborn"]
Gone == [state |-> "gone"]
NoRun == [step |-> "idle", loaded |-> <<>>, kept |-> {}, windows |-> {}, version |-> 0]
NoRepair == [step |-> "idle", updates |-> {}]

Live == {e \in Recommendations : event[e].state = "live"}
KeyOf(blogger, code, date) == <<blogger, code, date>>
Metrics == {p \in Live \X AllWindows : metric[p[1]][p[2]] # NoMetric}
MetricOf(p) == metric[p[1]][p[2]]

Init ==
  /\ event = [e \in Recommendations |-> Unborn]
  /\ metric = [e \in Recommendations |-> [n \in AllWindows |-> NoMetric]]
  /\ configured = [windows |-> AllWindows, version |-> Min(Versions)]
  /\ run = [l \in Evaluators \union {Command} |-> NoRun]
  /\ repair = NoRepair
  /\ overtaken = {}
  /\ edits = 0

Edit == edits < MaxEdits /\ edits' = edits + 1

-----------------------------------------------------------------------------
(* Recommendations and the configuration.                                  *)

\* The rows of a deleted recommendation go with it.
Drop(gone) ==
  /\ metric' = [e \in Recommendations |-> IF e \in gone THEN [n \in AllWindows |-> NoMetric] ELSE metric[e]]
  /\ overtaken' = {p \in overtaken : p[1] \notin gone}

SectorEvents(d) == {e \in Live : event[e].doc = d /\ event[e].code \in Sectors}

\* An analysis of a document, or a backfill of its sectors, in one transaction:
\* its sector recommendations are deleted and written anew; a row with the same
\* key is used again whichever document it is of.
Persist(d) ==
  /\ Edit
  /\ Drop(SectorEvents(d))
  /\ \E new \in {<<>>} \union (Bloggers \X Codes \X Dates) :
       LET rest == [e \in Recommendations |-> IF e \in SectorEvents(d) THEN Gone ELSE event[e]]
           free == {e \in Recommendations : rest[e] = Unborn}
           known == \E e \in Recommendations : rest[e].state = "live" /\ rest[e].key = new
       IN  IF new = <<>> \/ known THEN event' = rest
           ELSE /\ free # {}
                /\ event' = [rest EXCEPT ![Min(free)] =
                     [state |-> "live", doc |-> d, blogger |-> new[1], code |-> new[2],
                      date |-> new[3], key |-> new]]
  /\ UNCHANGED <<configured, run, repair>>

\* A configuration that validation accepts names a version and at least one window.
ValidSettings == [windows : (SUBSET AllWindows) \ {{}}, version : Versions]

\* One that does not decode or validate leaves the one that is in use.
Reload ==
  /\ Edit
  /\ configured' \in ValidSettings \ {configured}
  /\ UNCHANGED <<event, metric, run, repair, overtaken>>

-----------------------------------------------------------------------------
(* An evaluation: rows are loaded, and what they give is written later.    *)

\* What is READY under the current version is kept, unless a rebuild is forced.
Load(l, events, force) ==
  run' = [run EXCEPT ![l] =
    [step |-> "loaded",
     loaded |-> [e \in events |-> event[e].date],
     kept |-> IF force THEN {}
              ELSE {p \in Metrics : MetricOf(p).status = "READY" /\ MetricOf(p).version = configured.version},
     windows |-> configured.windows, version |-> configured.version]]

LoadEvents(l) ==
  /\ run[l].step = "idle" /\ Live # {}
  /\ Edit
  /\ \E force \in BOOLEAN : Load(l, Live, force)
  /\ UNCHANGED <<event, metric, configured, repair, overtaken>>

Written(l) == ((DOMAIN run[l].loaded) \X run[l].windows) \ run[l].kept

\* One upsert; it fails, all of it, if a recommendation is no longer there.
UpsertMetrics(l) ==
  /\ run[l].step = "loaded"
  /\ IF \A p \in Written(l) : p[1] \in Live
       THEN \E found \in [Written(l) -> Results] :
              /\ metric' = [e \in Recommendations |-> [n \in AllWindows |->
                   IF <<e, n>> \in Written(l)
                     THEN [status |-> found[<<e, n>>].status, ret |-> found[<<e, n>>].ret,
                           date |-> run[l].loaded[e], version |-> run[l].version]
                     ELSE metric[e][n]]]
              /\ overtaken' = (overtaken \ Written(l))
                   \union {p \in Written(l) : run[l].loaded[p[1]] # event[p[1]].date}
              /\ run' = [run EXCEPT ![l] = [NoRun EXCEPT !.step = IF l = Command THEN "succeeded" ELSE "idle"]]
       ELSE /\ run' = [run EXCEPT ![l] = [NoRun EXCEPT !.step = IF l = Command THEN "failed" ELSE "idle"]]
            /\ UNCHANGED <<metric, overtaken>>
  /\ UNCHANGED <<event, configured, repair, edits>>

-----------------------------------------------------------------------------
(* The command that repairs dates.                                         *)

\* What differs from the date or the key that the row's document asks for.
Updates ==
  {[id |-> e, date |-> ArticleDate[event[e].doc],
    key |-> KeyOf(event[e].blogger, event[e].code, ArticleDate[event[e].doc]),
    moves |-> event[e].date # ArticleDate[event[e].doc]] :
   e \in {e \in Live : /\ event[e].doc \in Dated
                       /\ LET t == ArticleDate[event[e].doc] IN
                          event[e].date # t \/ event[e].key # KeyOf(event[e].blogger, event[e].code, t)}}

FinalKey(e) ==
  KeyOf(event[e].blogger, event[e].code,
        IF event[e].doc \in Dated THEN ArticleDate[event[e].doc] ELSE event[e].date)

\* Two rows that would have one key stop the command; reading is not part of the
\* transaction that writes.
BuildRepairPlan ==
  /\ repair.step = "idle" /\ run[Command].step = "idle"
  /\ Edit
  /\ Updates # {}
  /\ \A e, f \in Live : FinalKey(e) = FinalKey(f) => e = f
  /\ repair' = [step |-> "planned", updates |-> Updates]
  /\ UNCHANGED <<event, metric, configured, run, overtaken>>

Moved == {u.id : u \in {u \in repair.updates : u.moves}}
UpdateOf(e) == CHOOSE u \in repair.updates : u.id = e

\* Mutant: the metrics of the old dates are left.
LeaveMetrics(moved) == UNCHANGED <<metric, overtaken>>

DeleteMetrics(moved) == Drop(moved)

\* One transaction: dates, keys, and no metric of an old date; it is rolled back
\* if a row has gone or a key has been taken.
ApplyRepairPlan ==
  LET ids == {u.id : u \in repair.updates}
      fits == /\ ids \subseteq Live
              /\ \A e \in Live \ ids : \A u \in repair.updates : event[e].key # u.key
  IN
  /\ repair.step = "planned"
  /\ IF fits
       THEN /\ event' = [e \in Recommendations |->
                 IF e \in ids THEN [event[e] EXCEPT !.date = UpdateOf(e).date, !.key = UpdateOf(e).key]
                 ELSE event[e]]
            /\ DeleteMetrics(Moved)
            /\ repair' = [repair EXCEPT !.step = "applied"]
       ELSE repair' = NoRepair /\ UNCHANGED <<event, metric, overtaken>>
  /\ UNCHANGED <<configured, run, edits>>

\* The rebuild, unless it is to be skipped or nothing has moved.
EvaluateRepaired ==
  /\ repair.step = "applied"
  /\ \/ repair' = [repair EXCEPT !.step = "evaluated"] /\ UNCHANGED run
     \/ /\ Moved \intersect Live # {}
        /\ Load(Command, Moved \intersect Live, TRUE)
        /\ repair' = [repair EXCEPT !.step = "evaluating"]
  /\ UNCHANGED <<event, metric, configured, overtaken, edits>>

\* The command checks what it has left, and ends; it changes nothing any more.
AcceptRepair ==
  /\ \/ repair.step = "evaluated"
     \/ repair.step = "evaluating" /\ run[Command].step \in {"succeeded", "failed"}
  /\ repair' = NoRepair
  /\ run' = [run EXCEPT ![Command] = NoRun]
  /\ UNCHANGED <<event, metric, configured, overtaken, edits>>

Next ==
  \/ \E d \in Documents : Persist(d)
  \/ Reload \/ BuildRepairPlan \/ ApplyRepairPlan \/ EvaluateRepaired \/ AcceptRepair
  \/ \E l \in Evaluators : LoadEvents(l)
  \/ \E l \in Evaluators \union {Command} : UpsertMetrics(l)

Spec == Init /\ [][Next]_vars

-----------------------------------------------------------------------------
(* Counting rows of metrics: rankings, summaries, time series.             *)

Scale == 1000
Days == [from : Dates, to : Dates]
In(t, days) == days.from <= t /\ t <= days.to
Ratio(n, d) == IF d = 0 THEN 0 ELSE (n * Scale) \div d
Clamp(x) == IF x < 0 THEN 0 ELSE IF x > Scale THEN Scale ELSE x

\* What the filters of the metrics let through; the dates are the metrics' own.
MetricRows(n, days) == {p \in Metrics : p[2] = n /\ In(MetricOf(p).date, days)}

\* Rows with their statuses, and their returns in tenths.
StatusOf(p) == MetricOf(p).status
RetOf(p) == MetricOf(p).ret
Aggregate(rows, status) ==
  LET ready == {p \in rows : status[p] = "READY"}
      pending == {p \in rows : status[p] = "PENDING"}
  IN  [sample |-> Cardinality(rows), evaluated |-> Cardinality(ready),
       pending |-> Cardinality(pending), incomplete |-> Cardinality(rows \ (ready \union pending)),
       wins |-> Cardinality({p \in ready : RetOf(p) > 0}), total |-> SumFunctionOnSet([p \in ready |-> RetOf(p)], ready)]

\* The aggregates of the rows by key, a function of the rows.
Totals(rows, key) ==
  [k \in {key[p] : p \in rows} |->
     LET of == {p \in rows : key[p] = k} IN Aggregate(of, [p \in of |-> StatusOf(p)])]

BloggerOf(p) == event[p[1]].blogger
CodeOf(p) == event[p[1]].code
PeriodOf(p) == MetricOf(p).date
BloggerTotals(n, days) == LET rows == MetricRows(n, days) IN Totals(rows, [p \in rows |-> BloggerOf(p)])
SecurityTotals(n, days) == LET rows == MetricRows(n, days) IN Totals(rows, [p \in rows |-> CodeOf(p)])
BloggerTimeseries(b, n, days) ==
  LET rows == {p \in MetricRows(n, days) : BloggerOf(p) = b} IN Totals(rows, [p \in rows |-> PeriodOf(p)])

\* What a request may ask for, once its defaults are filled in.
Sorts == {"win_rate", "avg_return", "sample_count", "performance_score"}
Orders == [sort : Sorts, least : {0, 1}]

\* 60% win rate, 30% average return, 10% number of evaluations up to 20.
PerformanceScore(a) ==
  60 * Ratio(a.wins, a.evaluated)
  + 30 * Clamp((Ratio(a.total, a.evaluated) + Scale) \div 2)
  + 10 * Clamp((a.evaluated * Scale) \div 20)

Measure(a, sort) ==
  CASE sort = "win_rate" -> Ratio(a.wins, a.evaluated)
    [] sort = "avg_return" -> Ratio(a.total, a.evaluated)
    [] sort = "sample_count" -> a.evaluated
    [] sort = "performance_score" -> PerformanceScore(a)

Ahead(a, b, i, j, sort) ==
  \/ Measure(a, sort) > Measure(b, sort)
  \/ /\ Measure(a, sort) = Measure(b, sort)
     /\ a.evaluated > b.evaluated \/ (a.evaluated = b.evaluated /\ i < j)

\* The orders that a stable sort may give, as a map is walked in any order.
Rankings(totals, least, sort) ==
  LET ranked == {k \in DOMAIN totals : totals[k].evaluated >= least} IN
  {s \in SetToSeqs(ranked) :
     \A i, j \in DOMAIN s : i < j => ~Ahead(totals[s[j]], totals[s[i]], s[j], s[i], sort)}

Page(s, offset, limit) ==
  IF offset >= Len(s) THEN <<>> ELSE SubSeq(s, offset + 1, Min({offset + limit, Len(s)}))

-----------------------------------------------------------------------------
(* Counting recommendations: the ledger and its export.                    *)

\* Every recommendation, with or without metrics; the dates are its own.
LedgerItems(b, days) == {e \in Live : event[e].blogger = b /\ In(event[e].date, days)}
Export(b, n, days) ==
  LET rows == LedgerItems(b, days) \X {n} IN Aggregate(rows, [p \in rows |-> StatusOf(p)])

-----------------------------------------------------------------------------
(* Documents: the counts of the list, and the report of one.               *)

EventsOf(d) == {e \in Live : event[e].doc = d}
Current(p) == MetricOf(p).version = configured.version

\* One statement, over the recommendations and their metrics of the windows.
DocumentList(d) ==
  LET rows == {p \in EventsOf(d) \X configured.windows : MetricOf(p) # NoMetric}
      ready == {p \in rows : StatusOf(p) = "READY" /\ Current(p)}
      pending == {p \in rows : StatusOf(p) = "PENDING" /\ Current(p)}
      expected == Cardinality(EventsOf(d)) * Cardinality(configured.windows)
  IN  [expected |-> expected, ready |-> Cardinality(ready), pending |-> Cardinality(pending),
       incomplete |-> Cardinality(rows \ (ready \union pending)),
       missing |-> expected - Cardinality(rows)]

\* The state of the list's entry, of a document whose analysis is done.
ListStatus(c) ==
  IF c.expected = 0 THEN "EMPTY"
  ELSE IF c.ready = c.expected THEN "READY"
  ELSE IF c.ready + c.pending + c.incomplete = 0 THEN "NEEDS_EVALUATION" ELSE "PARTIAL"

ReportWindowStatus(p) ==
  IF MetricOf(p) = NoMetric THEN "NOT_EVALUATED"
  ELSE IF ~Current(p) THEN "OUTDATED" ELSE StatusOf(p)

\* Per window, of some recommendations of the report.
DocumentReport(events, n) ==
  LET rows == events \X {n} IN Aggregate(rows, [p \in rows |-> ReportWindowStatus(p)])

-----------------------------------------------------------------------------
(* Properties.                                                             *)

Over(totals) == SumFunctionOnSet([k \in DOMAIN totals |-> totals[k].evaluated], DOMAIN totals)

\* Whatever the sort, pages that are asked for one after another list each
\* blogger once, at its rank.
PagesFit(n, days) ==
  LET totals == BloggerTotals(n, days) IN
  \A o \in Orders : \A first, second \in Rankings(totals, o.least, o.sort) :
    Page(first, 0, 1) \o Page(second, 1, Cardinality(Bloggers)) = first

\* The rankings, the time series and the list of metrics count the same rows.
RankingsAgree(n, days) ==
  /\ Over(BloggerTotals(n, days)) = Over(SecurityTotals(n, days))
  /\ \A b \in DOMAIN BloggerTotals(n, days) :
       BloggerTotals(n, days)[b].evaluated = Over(BloggerTimeseries(b, n, days))

\* The ranking, which has the dates of the metrics, and the export, which has
\* those of the recommendations, say the same of a blogger.
ExportAgrees(n, days) ==
  \A b \in Bloggers :
    LET row == Export(b, n, days)
        none == Cardinality({e \in LedgerItems(b, days) : metric[e][n] = NoMetric})
    IN  IF b \in DOMAIN BloggerTotals(n, days)
          THEN BloggerTotals(n, days)[b] =
                 [row EXCEPT !.sample = @ - none, !.incomplete = @ - none]
          ELSE row.sample = none

\* The list of documents and the report say the same of a document, and the
\* report's bloggers make up the whole.
ListMatchesReport(d) ==
  LET c == DocumentList(d)
      Sum(field) == SumFunctionOnSet([n \in configured.windows |-> DocumentReport(EventsOf(d), n)[field]],
                                     configured.windows)
  IN  /\ Sum("evaluated") = c.ready /\ Sum("pending") = c.pending
      /\ Sum("incomplete") = c.incomplete + c.missing
      /\ \A n \in configured.windows, field \in {"sample", "evaluated", "wins"} :
           DocumentReport(EventsOf(d), n)[field] =
             SumFunctionOnSet([b \in Bloggers |->
               DocumentReport({e \in EventsOf(d) : event[e].blogger = b}, n)[field]], Bloggers)
      /\ ListStatus(c) = "READY" <=>
           EventsOf(d) # {} /\ \A p \in EventsOf(d) \X configured.windows :
                               ReportWindowStatus(p) = "READY"

\* No blogger is counted twice for a security and a day; and the reports agree,
\* through replaced documents, forced and overtaken evaluations, repairs and new
\* configurations; the export and the ranking unless an evaluation has written
\* the dates that it had read before a repair.
ReportsAgree ==
  /\ \A e, f \in Live : KeyOf(event[e].blogger, event[e].code, event[e].date)
                           = KeyOf(event[f].blogger, event[f].code, event[f].date) => e = f
  /\ \A n \in AllWindows, days \in Days :
       /\ PagesFit(n, days) /\ RankingsAgree(n, days)
       /\ overtaken = {} => ExportAgrees(n, days)
  /\ \A d \in Documents : ListMatchesReport(d)

=============================================================================
