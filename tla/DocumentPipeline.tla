-------------------------- MODULE DocumentPipeline --------------------------
(***************************************************************************)
(* Documents: how one is stored, analysed, analysed again and retried, and *)
(* what becomes of the rows of its OpenList articles.                      *)
(*                                                                         *)
(* Uploads, analyses, retries and articles are concurrent calls.  Calls of *)
(* one process exclude each other on a document by a lock in its memory;   *)
(* across processes only a retry claims the document, in its row.  Every   *)
(* statement is its own step; only the replacement of the results is one   *)
(* transaction.  All documents are of one blogger and institution, so a    *)
(* recommendation event is known by its target and its date.               *)
(***************************************************************************)
EXTENDS Naturals, FiniteSets

CONSTANTS Processes, Calls, Docs, Sources,
          Content,      \* the document that an article's content is
          ArticleDate,  \* the date of an article
          Targets, Sectors, Dates,
          Answers,      \* the sets of targets a model may find
          LLMSlots,     \* processing.llm_max_concurrency
          MaxCalls,     \* bound on the calls that are not articles
          MaxFaults,    \* bound on crashes and failing statements
          NoDoc, NoDate, NoSource

ASSUME DocumentsAssumption ==
  /\ Content \in [Sources -> Docs] /\ ArticleDate \in [Sources -> Dates]
  /\ Sectors \subseteq Targets /\ Answers \subseteq SUBSET Targets /\ {} \notin Answers
  /\ NoDoc \notin Docs /\ NoDate \notin Dates /\ NoSource \notin Sources
  /\ LLMSlots \in Nat \ {0} /\ MaxCalls \in Nat /\ MaxFaults \in Nat

VARIABLES
  home,       \* the process a call runs in; it never changes
  doc,        \* documents.status
  row,        \* external_document_ingestions: status and document
  run,        \* instrument_resolution_runs: latest date, any success
  plans,      \* trade_candidate_plans of each document
  events,     \* recommendation_events: the source document of each key
  active,     \* the analyses each process has locked
  slots,      \* calls that hold a slot of their process's model pool
  call,       \* what each call is doing
  aged,       \* articles that are older than scan_lookback_days
  committed,  \* (history) what the last committed analysis recommends
  settled,    \* (history) documents that have been PLANNED or INVALID
  calls, faults

vars == <<home, aged, doc, row, run, plans, events, active, slots, call,
          committed, settled, calls, faults>>
tables == <<run, plans, events, committed>>
locks == <<active, slots>>

Keys == Targets \X Dates
IsSector(k) == k[1] \in Sectors
DateOrNone == Dates \union {NoDate}
DocStatuses == {"NONE", "INGESTED", "ANALYZING", "PARSED", "PLANNED", "INVALID", "FAILED"}
RowStatuses == {"NONE", "DISCOVERED", "DOWNLOADING", "INGESTED", "ANALYZING", "SUCCEEDED", "FAILED"}
Outcomes == {"PLANNED", "INVALID"}

Steps == {"idle", "download", "lookup", "create", "link", "mark", "lock", "claim", "begin",
          "parse", "llm", "model", "persist", "planned", "settle", "restore", "done", "fail"}
RowRecords == [status : RowStatuses, doc : Docs \union {NoDoc}]
CallRecords ==
  [kind : {"NONE", "UPLOAD", "ANALYZE", "RETRY", "ARTICLE"}, step : Steps,
   doc : Docs \union {NoDoc}, source : Sources \union {NoSource}, date : DateOrNone,
   found : DocStatuses, keys : SUBSET Keys, ok : BOOLEAN]
Idle == [kind |-> "NONE", step |-> "idle", doc |-> NoDoc, source |-> NoSource, date |-> NoDate,
         found |-> "NONE", keys |-> {}, ok |-> FALSE]

Init ==
  /\ home \in [Calls -> Processes]
  /\ aged = {}
  /\ doc = [d \in Docs |-> "NONE"]
  /\ row = [s \in Sources |-> [status |-> "NONE", doc |-> NoDoc]]
  /\ run = [d \in Docs |-> [date |-> NoDate, succeeded |-> FALSE]]
  /\ plans = [d \in Docs |-> {}]
  /\ events = [k \in Keys |-> NoDoc]
  /\ active = [p \in Processes |-> {}]
  /\ slots = [p \in Processes |-> {}]
  /\ call = [c \in Calls |-> Idle]
  /\ committed = [d \in Docs |-> {}]
  /\ settled = {}
  /\ calls = 0 /\ faults = 0

At(c, step) == call[c].step = step
D(c) == call[c].doc
IsRetry(c) == call[c].kind = "RETRY"
IsArticle(c) == call[c].kind = "ARTICLE"
Article(c) == call[c].source
Becomes(c, new) == call' = [call EXCEPT ![c] = new]
Ends(c) == Becomes(c, Idle)
Moves(c, step) == Becomes(c, [call[c] EXCEPT !.step = step])
Fault == faults < MaxFaults /\ faults' = faults + 1

\* documents.status of d becomes status, by id and whatever it was.
Writes(d, status) ==
  /\ doc' = [doc EXCEPT ![d] = status]
  /\ settled' = IF status \in Outcomes THEN settled \union {d} ELSE settled

\* A retry keeps its claim in the row: it writes neither PARSED nor FAILED.
UpdateAnalysisStatus(c, status) ==
  IF IsRetry(c) /\ status \in {"PARSED", "FAILED"} THEN UNCHANGED <<doc, settled>>
  ELSE Writes(D(c), status)

SetRow(s, status) == row' = [row EXCEPT ![s].status = status]

-----------------------------------------------------------------------------
(* Calls.                                                                  *)

Starts(c, kind, d, source, date, step) ==
  /\ At(c, "idle")
  /\ Becomes(c, [Idle EXCEPT !.kind = kind, !.step = step, !.doc = d,
                              !.source = source, !.date = date])

\* Someone asks for an upload, an analysis of a stored document, or a retry.
Request(c) ==
  /\ calls < MaxCalls /\ calls' = calls + 1
  /\ \E d \in Docs :
       \/ \E date \in Dates : Starts(c, "UPLOAD", d, NoSource, date, "lookup")
       \/ doc[d] # "NONE" /\ \E date \in Dates : Starts(c, "ANALYZE", d, NoSource, date, "lock")
       \/ doc[d] # "NONE" /\ \E date \in DateOrNone : Starts(c, "RETRY", d, NoSource, date, "lock")
  /\ UNCHANGED <<home, aged, doc, row, tables, locks, settled, faults>>

\* Mutant: an article of a batch that was interrupted is not taken up.
SkippedWhenAnalyzing(status) == status \in {"SUCCEEDED", "ANALYZING"}

\* A batch takes up an article that it has listed; one that has succeeded is skipped.
\* An operator's batch with full_scan lists every article.
Skipped(status) == status = "SUCCEEDED"
TakeArticle(c, s) ==
  /\ ~Skipped(row[s].status)
  /\ Starts(c, "ARTICLE", Content[s], s, ArticleDate[s], "download")
  /\ row' = IF row[s].status = "NONE" THEN [row EXCEPT ![s].status = "DISCOVERED"] ELSE row
  /\ UNCHANGED <<home, aged, doc, tables, locks, settled, calls, faults>>

\* The daily batch lists those in the look-back.
TakeRecent(c, s) == s \notin aged /\ TakeArticle(c, s)

LeaveLookback(s) ==
  /\ s \notin aged /\ aged' = aged \union {s}
  /\ UNCHANGED <<home, doc, row, tables, locks, settled, call, calls, faults>>

Download(c) ==
  /\ At(c, "download")
  /\ SetRow(Article(c), "DOWNLOADING")
  /\ Moves(c, "lookup")
  /\ UNCHANGED <<home, aged, doc, tables, locks, settled, calls, faults>>

\* The content is looked up by its hash; found is the status read here.
\* An upload of a known document is analysed if it had failed, was invalid, or
\* is forced.
Lookup(c) ==
  /\ At(c, "lookup")
  /\ \E next \in
        IF doc[D(c)] = "NONE" THEN {"create"}
        ELSE IF IsArticle(c) THEN {"link"}
        ELSE IF doc[D(c)] \in {"FAILED", "INVALID"} THEN {"lock"} ELSE {"lock", "idle"} :
       IF next = "idle" THEN Ends(c)
       ELSE Becomes(c, [call[c] EXCEPT !.step = next,
                                       !.found = IF next = "link" THEN doc[D(c)] ELSE "NONE"])
  /\ UNCHANGED <<home, aged, doc, row, tables, locks, settled, calls, faults>>

\* The hash is unique: of two inserts one fails, and its call with it.
Create(c) ==
  /\ At(c, "create")
  /\ IF doc[D(c)] = "NONE"
       THEN /\ Writes(D(c), "INGESTED")
            /\ Moves(c, IF IsArticle(c) THEN "link" ELSE "lock")
       ELSE UNCHANGED <<doc, settled>> /\ (IF IsArticle(c) THEN Moves(c, "fail") ELSE Ends(c))
  /\ UNCHANGED <<home, aged, row, tables, locks, calls, faults>>

Link(c) ==
  /\ At(c, "link")
  /\ row' = [row EXCEPT ![Article(c)] = [status |-> "INGESTED", doc |-> D(c)]]
  /\ IF call[c].found \in Outcomes
       THEN Becomes(c, [call[c] EXCEPT !.step = "done", !.ok = TRUE])
       ELSE Becomes(c, [call[c] EXCEPT !.step = "mark", !.found = "NONE"])
  /\ UNCHANGED <<home, aged, doc, tables, locks, settled, calls, faults>>

MarkAnalyzing(c) ==
  /\ At(c, "mark")
  /\ SetRow(Article(c), "ANALYZING")
  /\ Moves(c, "lock")
  /\ UNCHANGED <<home, aged, doc, tables, locks, settled, calls, faults>>

\* Mutant: the lock is not looked at.
AcquireWithoutLock(c) ==
  /\ At(c, "lock")
  /\ active' = [active EXCEPT ![home[c]] = @ \union {D(c)}]
  /\ Moves(c, IF IsRetry(c) THEN "claim" ELSE "parse")
  /\ UNCHANGED <<home, aged, doc, row, tables, slots, settled, calls, faults>>

\* One analysis of a document at a time in a process; a second call is refused.
AcquireDocumentAnalysis(c) ==
  /\ At(c, "lock")
  /\ IF D(c) \in active[home[c]] THEN UNCHANGED active /\ Ends(c)
     ELSE /\ active' = [active EXCEPT ![home[c]] = @ \union {D(c)}]
          /\ Moves(c, IF IsRetry(c) THEN "claim" ELSE "parse")
  /\ UNCHANGED <<home, aged, doc, row, tables, slots, settled, calls, faults>>

-----------------------------------------------------------------------------
(* A retry's claim.                                                        *)

SourceDates(d) == {ArticleDate[s] : s \in {s \in Sources : row[s].doc = d}}

\* The date of the last attempt, else the one date of the sources; a date that
\* the caller gives must agree with it.
RetryDate(d, date) ==
  LET known == IF run[d].date # NoDate THEN {run[d].date} ELSE SourceDates(d)
  IN  IF Cardinality(known) > 1 THEN {}
      ELSE IF date = NoDate THEN known
      ELSE IF known \subseteq {date} THEN {date} ELSE {}

Unlocks(c) == active' = [active EXCEPT ![home[c]] = @ \ {D(c)}]

\* Only a FAILED document without a successful run is retried.
CheckRetry(c) ==
  /\ At(c, "claim") /\ call[c].found = "NONE"
  /\ LET dates == RetryDate(D(c), call[c].date) IN
     IF doc[D(c)] = "FAILED" /\ ~run[D(c)].succeeded /\ dates # {}
       THEN /\ \E date \in dates :
                 Becomes(c, [call[c] EXCEPT !.found = "FAILED", !.date = date])
            /\ UNCHANGED active
       ELSE Ends(c) /\ Unlocks(c)
  /\ UNCHANGED <<home, aged, doc, row, tables, slots, settled, calls, faults>>

HasResults(d) ==
  \/ plans[d] # {}
  \/ \E k \in Keys : events[k] = d
  \/ \E s \in Sources : row[s].doc = d /\ row[s].status = "SUCCEEDED"

Claimable(d) == doc[d] = "FAILED" /\ ~HasResults(d)
ClaimFailedAnalysis(c) ==
  /\ At(c, "claim") /\ call[c].found = "FAILED"
  /\ IF Claimable(D(c))
       THEN /\ Writes(D(c), "ANALYZING")
            /\ Becomes(c, [call[c] EXCEPT !.step = "begin", !.found = "NONE"])
            /\ UNCHANGED active
     ELSE UNCHANGED <<doc, settled>> /\ Ends(c) /\ Unlocks(c)
  /\ UNCHANGED <<home, aged, row, tables, slots, calls, faults>>

RowsOf(d, status) ==
  row' = [s \in Sources |-> IF row[s].doc = d /\ row[s].status # "SUCCEEDED"
                              THEN [row[s] EXCEPT !.status = status] ELSE row[s]]

BeginDocumentRetry(c) ==
  /\ At(c, "begin")
  /\ RowsOf(D(c), "ANALYZING")
  /\ Moves(c, "parse")
  /\ UNCHANGED <<home, aged, doc, tables, locks, settled, calls, faults>>

-----------------------------------------------------------------------------
(* The analysis.                                                           *)

\* After an analysis: a retry settles its rows, anything else that failed is
\* restored, and what succeeded goes on with its lock released.
AfterFailure(c) == IF IsRetry(c) THEN "settle" ELSE "restore"

\* The document is parsed and a resolution run records its date.
Parse(c) ==
  /\ At(c, "parse")
  /\ run' = [run EXCEPT ![D(c)].date = call[c].date]
  /\ \E status \in {"PARSED", "FAILED", "INVALID"} :
       /\ UpdateAnalysisStatus(c, status)
       /\ Moves(c, IF status = "PARSED" THEN "llm" ELSE AfterFailure(c))
  /\ UNCHANGED <<home, aged, row, plans, events, locks, committed, calls, faults>>

\* A slot of the pool, or the call's time is over while it waits.
AcquireLLM(c) ==
  /\ At(c, "llm")
  /\ \/ /\ Cardinality(slots[home[c]]) < LLMSlots
        /\ slots' = [slots EXCEPT ![home[c]] = @ \union {c}]
        /\ Moves(c, "model")
        /\ UNCHANGED <<doc, settled>>
     \/ /\ UpdateAnalysisStatus(c, "FAILED")
        /\ Moves(c, AfterFailure(c))
        /\ UNCHANGED slots
  /\ UNCHANGED <<home, aged, row, tables, active, calls, faults>>

\* The model's answer and its resolution: what can be tracked, or a failure.
Answer(c) ==
  /\ At(c, "model")
  /\ slots' = [slots EXCEPT ![home[c]] = @ \ {c}]
  /\ \/ /\ \E found \in Answers :
             Becomes(c, [call[c] EXCEPT !.step = "persist", !.keys = found \X {call[c].date}])
        /\ UNCHANGED <<doc, settled>>
     \/ \E status \in {"FAILED", "INVALID"} :
          UpdateAnalysisStatus(c, status) /\ Moves(c, AfterFailure(c))
  /\ UNCHANGED <<home, aged, row, tables, active, calls, faults>>

\* An event goes with the plan it belongs to; one of a sector has no plan.
PlanEvents(d) == {k \in Keys : events[k] = d /\ k \in plans[d]}
DirectSectorEvents(d) == {k \in Keys : events[k] = d /\ IsSector(k)}
\* Mutant: the events without a plan are left.
ReplacedPlansOnly(d) == PlanEvents(d)
Replaced(d) == PlanEvents(d) \union DirectSectorEvents(d)

\* A key that another document holds stays with it.
Upserted(k, d, keys) ==
  LET left == IF k \in Replaced(d) THEN NoDoc ELSE events[k]
  IN  IF k \in keys /\ left = NoDoc THEN d ELSE left

\* One transaction: the old results go, the new ones and the run's success
\* are written.  A conflict that outlasts its retries is a failure.
ReplacePlans(c) ==
  /\ At(c, "persist")
  /\ \/ /\ plans' = [plans EXCEPT ![D(c)] = {k \in call[c].keys : ~IsSector(k)}]
        /\ events' = [k \in Keys |-> Upserted(k, D(c), call[c].keys)]
        /\ run' = [run EXCEPT ![D(c)].succeeded = TRUE]
        /\ committed' = [committed EXCEPT ![D(c)] = call[c].keys]
        /\ Moves(c, "planned")
        /\ UNCHANGED <<doc, settled, faults>>
     \/ /\ Fault
        /\ UpdateAnalysisStatus(c, "FAILED")
        /\ Moves(c, AfterFailure(c))
        /\ UNCHANGED tables
  /\ UNCHANGED <<home, aged, row, locks, calls>>

\* The results are committed; the document becomes PLANNED in a write of its own.
Planned(c) ==
  /\ At(c, "planned")
  /\ UpdateAnalysisStatus(c, "PLANNED")
  /\ IF IsRetry(c) THEN Moves(c, "settle") /\ UNCHANGED active
     ELSE /\ Unlocks(c)
          /\ IF IsArticle(c) THEN Becomes(c, [call[c] EXCEPT !.step = "done", !.ok = TRUE])
             ELSE Ends(c)
  /\ UNCHANGED <<home, aged, row, tables, slots, calls, faults>>

\* A retry reads what became of the document and tells the rows.
FinishDocumentRetry(c) ==
  /\ At(c, "settle")
  /\ RowsOf(D(c), IF doc[D(c)] \in Outcomes THEN "SUCCEEDED" ELSE "FAILED")
  /\ Moves(c, "restore")
  /\ UNCHANGED <<home, aged, doc, tables, locks, settled, calls, faults>>

\* Mutant: a retry's ANALYZING is left.
RestoredParsedOnly(status) == IF status = "PARSED" THEN "FAILED" ELSE status

\* By id: whoever the ANALYZING or PARSED belongs to.
Restored(status) == IF status \in {"ANALYZING", "PARSED"} THEN "FAILED" ELSE status
RestoreFailedAnalysis(c) ==
  /\ At(c, "restore")
  /\ doc' = [doc EXCEPT ![D(c)] = Restored(@)]
  /\ Unlocks(c)
  /\ IF IsArticle(c) THEN Moves(c, "done") ELSE Ends(c)
  /\ UNCHANGED <<home, aged, row, tables, slots, settled, calls, faults>>

\* Mutant: the outcome is not looked at.
ArticleAlwaysSucceeds(c) == TRUE

\* The article's row: succeeded, also when its analysis found the document INVALID.
ArticleSucceeded(c) == call[c].ok \/ (At(c, "done") /\ doc[D(c)] = "INVALID")
MarkArticle(c) ==
  /\ At(c, "done") \/ At(c, "fail")
  /\ SetRow(Article(c), IF ArticleSucceeded(c) THEN "SUCCEEDED" ELSE "FAILED")
  /\ Ends(c)
  /\ UNCHANGED <<home, aged, doc, tables, locks, settled, calls, faults>>

-----------------------------------------------------------------------------
(* Failures.                                                               *)

\* A statement or the download fails: the call ends with an error where it is.
StatementFails(c) ==
  /\ Fault
  /\ \/ /\ call[c].step \in {"lookup", "create", "link", "mark"}
        /\ IF IsArticle(c) THEN Moves(c, "fail") ELSE Ends(c)
        /\ UNCHANGED active
     \/ /\ call[c].step \in {"download", "done", "fail"}
        /\ Ends(c)
        /\ UNCHANGED active
     \/ /\ At(c, "claim")
        /\ Ends(c) /\ Unlocks(c)
     \/ /\ At(c, "begin")
        /\ Moves(c, "restore")
        /\ UNCHANGED active
     \/ /\ call[c].step \in {"parse", "planned"}
        /\ Moves(c, AfterFailure(c))
        /\ UNCHANGED active
     \/ /\ At(c, "settle")
        /\ Moves(c, "restore")
        /\ UNCHANGED active
     \/ /\ At(c, "restore")
        /\ (IF IsArticle(c) THEN Moves(c, "done") ELSE Ends(c))
        /\ Unlocks(c)
  /\ UNCHANGED <<home, aged, doc, row, tables, slots, settled, calls>>

\* The process dies: its calls, its locks and its pool with it.
Crash(p) ==
  /\ Fault
  /\ \E c \in Calls : home[c] = p /\ ~At(c, "idle")
  /\ call' = [c \in Calls |-> IF home[c] = p THEN Idle ELSE call[c]]
  /\ active' = [active EXCEPT ![p] = {}]
  /\ slots' = [slots EXCEPT ![p] = {}]
  /\ UNCHANGED <<home, aged, doc, row, tables, settled, calls>>

CallStep(c) ==
  \/ Download(c) \/ Lookup(c) \/ Create(c) \/ Link(c) \/ MarkAnalyzing(c)
  \/ AcquireDocumentAnalysis(c) \/ CheckRetry(c) \/ ClaimFailedAnalysis(c)
  \/ BeginDocumentRetry(c) \/ Parse(c) \/ AcquireLLM(c) \/ Answer(c)
  \/ ReplacePlans(c) \/ Planned(c) \/ FinishDocumentRetry(c)
  \/ RestoreFailedAnalysis(c) \/ MarkArticle(c)

Next ==
  \/ \E c \in Calls :
       \/ Request(c) \/ CallStep(c) \/ StatementFails(c)
       \/ \E s \in Sources : TakeArticle(c, s)
  \/ \E p \in Processes : Crash(p)
  \/ \E s \in Sources : LeaveLookback(s)

Spec == Init /\ [][Next]_vars

\* Calls go on, and the daily batch comes back to an article while it lists it.
Fairness ==
  /\ \A c \in Calls : WF_vars(CallStep(c))
  /\ \A s \in Sources : WF_vars(\E c \in Calls : TakeRecent(c, s))
FairSpec == Spec /\ Fairness

-----------------------------------------------------------------------------
(* Properties.                                                             *)

TypeOK ==
  /\ home \in [Calls -> Processes] /\ aged \subseteq Sources
  /\ doc \in [Docs -> DocStatuses]
  /\ row \in [Sources -> RowRecords]
  /\ run \in [Docs -> [date : DateOrNone, succeeded : BOOLEAN]]
  /\ plans \in [Docs -> SUBSET Keys]
  /\ events \in [Keys -> Docs \union {NoDoc}]
  /\ active \in [Processes -> SUBSET Docs]
  /\ slots \in [Processes -> SUBSET Calls]
  /\ call \in [Calls -> CallRecords]
  /\ committed \in [Docs -> SUBSET Keys]
  /\ settled \subseteq Docs
  /\ calls \in 0..MaxCalls /\ faults \in 0..MaxFaults

\* What a call is about, and the row of an article that has been linked.
CallOK(r) ==
  /\ r.step # "idle" => r.doc \in Docs /\ r.kind # "NONE"
  /\ \/ r.kind \in {"UPLOAD", "ANALYZE", "ARTICLE"}
     \/ r.step \in {"begin", "parse", "llm", "model"}
     \/ r.step = "claim" /\ r.found # "NONE"
     => r.date \in Dates
  /\ r.kind = "RETRY" => r.step \notin {"lookup", "create"} /\ (r.step = "lock" => r.found = "NONE")
  /\ r.step \in {"download", "link", "mark", "done", "fail"} => r.kind = "ARTICLE"
  /\ r.kind = "ARTICLE" => r.source \in Sources /\ r.doc = Content[r.source]
  /\ r.kind = "ARTICLE" /\ r.step \notin {"download", "lookup", "create", "link", "fail"} =>
       row[r.source].doc = r.doc
  /\ r.ok => r.step = "done"
  /\ r.ok \/ r.found \in Outcomes => r.doc \in settled
CallsOK == \A c \in Calls : CallOK(call[c])

Analysing == {"parse", "llm", "model", "persist", "planned", "settle", "restore"}

\* However analyses of a document overlap, fail or are repeated, an event names
\* a source document whose latest committed analysis recommends that target on
\* that date: nothing of an earlier analysis is left behind.
NoStaleEvents ==
  \A k \in Keys : events[k] # NoDoc => k \in committed[events[k]]

\* An article counts as succeeded, and is then never fetched again, only if its
\* document has been brought to an end: results were committed or it is invalid.
SucceededHasOutcome ==
  \A s \in Sources : row[s].status = "SUCCEEDED" => row[s].doc \in settled

\* Where nothing crashed and no statement failed, a document that says it is
\* being analysed is being analysed: no call leaves one that a retry would
\* refuse for ever.
NothingHalfDone ==
  \A d \in Docs :
    doc[d] \in {"ANALYZING", "PARSED"} /\ faults = 0 =>
      \E c \in Calls : D(c) = d /\ call[c].step \in Analysing \union {"begin"}

\* The inductive invariant of the proofs.
OutcomesSettled == \A d \in Docs : doc[d] \in Outcomes => d \in settled
PlansCommitted ==
  \A d \in Docs : plans[d] = {k \in committed[d] : ~IsSector(k)}
IndInv ==
  /\ TypeOK /\ CallsOK /\ OutcomesSettled /\ PlansCommitted
  /\ NoStaleEvents /\ SucceededHasOutcome /\ NothingHalfDone

OneProcess == \A c, e \in Calls : home[c] = home[e]

\* Calls of one process share the lock: a retry then never replaces results that
\* any analysis has committed.
RetryRepeatsOnlyFailures ==
  [][OneProcess =>
       \A c \in Calls : call[c].kind = "RETRY" /\ At(c, "persist") /\ committed' # committed =>
         committed[D(c)] = {} \/ committed'[D(c)] = committed[D(c)]]_vars

\* Whatever was interrupted, skipped or taken from it by another call, the row of
\* an article is settled again, as succeeded or as failed with its reason, if it
\* stays in the look-back of the batches long enough.  Of one that has left it
\* nothing is promised: only a full scan, or a retry if its document failed, does more.
ArticlesSettle ==
  \A s \in Sources : []<>(row[s].status \in {"SUCCEEDED", "FAILED"} \/ s \in aged)

=============================================================================
