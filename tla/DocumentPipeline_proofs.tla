---------------------- MODULE DocumentPipeline_proofs ----------------------
(***************************************************************************)
(* Proofs about documents, for any number of processes, calls, documents,  *)
(* articles and faults.  The first part shows that IndInv of the component *)
(* is inductive: results follow the last committed analysis, articles that *)
(* succeeded have an outcome, and no call leaves a document half done.     *)
(* The second part adds the lock in a process's memory (LockInv): there a  *)
(* retry replaces no results that an analysis has committed.               *)
(***************************************************************************)
EXTENDS DocumentPipeline, TLAPS

USE DocumentsAssumption

LEMMA IdleType == Idle \in CallRecords
  BY DEF Idle, CallRecords, Steps, DocStatuses, DateOrNone

\* One call changes.
LEMMA BecomesType ==
  ASSUME call \in [Calls -> CallRecords], NEW c \in Calls, NEW new \in CallRecords,
         Becomes(c, new)
  PROVE  /\ call' \in [Calls -> CallRecords]
         /\ call'[c] = new
         /\ \A e \in Calls \ {c} : call'[e] = call[e]
  BY DEF Becomes

LEMMA StepType ==
  ASSUME NEW r \in CallRecords, NEW st \in Steps
  PROVE  [r EXCEPT !.step = st] \in CallRecords
  BY DEF CallRecords

LEMMA FoundType ==
  ASSUME NEW r \in CallRecords, NEW st \in Steps, NEW status \in DocStatuses
  PROVE  [r EXCEPT !.step = st, !.found = status] \in CallRecords
  BY DEF CallRecords

LEMMA DoneType ==
  ASSUME NEW r \in CallRecords
  PROVE  [r EXCEPT !.step = "done", !.ok = TRUE] \in CallRecords
  BY DEF CallRecords, Steps

LEMMA KeysType ==
  ASSUME NEW r \in CallRecords, NEW keys \in SUBSET Keys
  PROVE  [r EXCEPT !.step = "persist", !.keys = keys] \in CallRecords
  BY DEF CallRecords, Steps

LEMMA DateType ==
  ASSUME NEW r \in CallRecords, NEW date \in DateOrNone
  PROVE  [r EXCEPT !.found = "FAILED", !.date = date] \in CallRecords
  BY DEF CallRecords, DocStatuses

LEMMA StartType ==
  ASSUME NEW kind \in {"UPLOAD", "ANALYZE", "RETRY", "ARTICLE"},
         NEW d \in Docs, NEW source \in Sources \union {NoSource}, NEW date \in DateOrNone,
         NEW st \in Steps
  PROVE  [Idle EXCEPT !.kind = kind, !.step = st, !.doc = d,
                      !.source = source, !.date = date] \in CallRecords
  BY IdleType DEF CallRecords

LEMMA ArticleFact ==
  ASSUME CallsOK, NEW c \in Calls, IsArticle(c)
  PROVE  /\ Article(c) \in Sources
         /\ D(c) = Content[Article(c)]
         /\ call[c].step \notin {"download", "lookup", "create", "link", "fail"} =>
              row[Article(c)].doc = D(c)
  BY DEF CallsOK, CallOK, IsArticle, D, Article

LEMMA AboutDoc ==
  ASSUME CallsOK, NEW c \in Calls, ~At(c, "idle")
  PROVE  D(c) \in Docs
  BY DEF CallsOK, CallOK, At, D

LEMMA RowType ==
  ASSUME TypeOK, NEW s \in Sources, NEW status \in RowStatuses, SetRow(s, status)
  PROVE  /\ row' \in [Sources -> RowRecords]
         /\ row'[s].status = status
         /\ \A e \in Sources : row'[e].doc = row[e].doc
         /\ \A e \in Sources \ {s} : row'[e] = row[e]
  <1>1. row[s] \in RowRecords
    BY DEF TypeOK
  <1>2. /\ [row[s] EXCEPT !.status = status] \in RowRecords
        /\ [row[s] EXCEPT !.status = status].status = status
        /\ [row[s] EXCEPT !.status = status].doc = row[s].doc
    BY <1>1 DEF RowRecords
  <1>3. row' = [row EXCEPT ![s] = [row[s] EXCEPT !.status = status]]
    BY DEF SetRow
  <1> HIDE DEF RowRecords
  <1> QED
    BY <1>2, <1>3 DEF TypeOK

LEMMA WritesFact ==
  ASSUME TypeOK, OutcomesSettled, NEW d \in Docs, NEW status \in DocStatuses, Writes(d, status)
  PROVE  /\ doc' \in [Docs -> DocStatuses] /\ settled' \subseteq Docs
         /\ settled \subseteq settled' /\ OutcomesSettled'
         /\ doc'[d] = status /\ \A e \in Docs \ {d} : doc'[e] = doc[e]
  BY DEF TypeOK, OutcomesSettled, Writes

LEMMA UpdateFact ==
  ASSUME TypeOK, OutcomesSettled, NEW c \in Calls, D(c) \in Docs,
         NEW status \in DocStatuses, UpdateAnalysisStatus(c, status)
  PROVE  /\ doc' \in [Docs -> DocStatuses] /\ settled' \subseteq Docs
         /\ settled \subseteq settled' /\ OutcomesSettled'
         /\ doc'[D(c)] = status \/ (IsRetry(c) /\ doc' = doc)
         /\ \A e \in Docs \ {D(c)} : doc'[e] = doc[e]
  BY WritesFact DEF TypeOK, OutcomesSettled, UpdateAnalysisStatus

LEMMA RowsOfType ==
  ASSUME TypeOK, NEW status \in RowStatuses, NEW d \in Docs, RowsOf(d, status)
  PROVE  /\ row' \in [Sources -> RowRecords]
         /\ \A s \in Sources : row'[s].doc = row[s].doc
         /\ \A s \in Sources :
              row'[s].status = "SUCCEEDED" =>
                row[s].status = "SUCCEEDED" \/ (status = "SUCCEEDED" /\ row[s].doc = d)
  <1>1. ASSUME NEW s \in Sources
        PROVE  /\ row'[s] \in RowRecords /\ row'[s].doc = row[s].doc
               /\ row'[s].status = "SUCCEEDED" =>
                    row[s].status = "SUCCEEDED" \/ (status = "SUCCEEDED" /\ row[s].doc = d)
    <2>1. row[s] \in RowRecords
      BY DEF TypeOK
    <2>2. row'[s] = IF row[s].doc = d /\ row[s].status # "SUCCEEDED"
                      THEN [row[s] EXCEPT !.status = status] ELSE row[s]
      BY DEF RowsOf
    <2> QED
      BY <2>1, <2>2 DEF RowRecords
  <1>2. row' = [s \in Sources |-> row'[s]]
    BY DEF RowsOf
  <1> QED
    BY <1>1, <1>2

LEMMA LockType ==
  ASSUME TypeOK, NEW c \in Calls, NEW d \in Docs
  PROVE  /\ [active EXCEPT ![home[c]] = @ \union {d}] \in [Processes -> SUBSET Docs]
         /\ [active EXCEPT ![home[c]] = @ \ {d}] \in [Processes -> SUBSET Docs]
  <1>1. home[c] \in Processes /\ active \in [Processes -> SUBSET Docs]
    BY DEF TypeOK
  <1>2. active[home[c]] \union {d} \in SUBSET Docs /\ active[home[c]] \ {d} \in SUBSET Docs
    BY <1>1
  <1> QED
    BY <1>1, <1>2

LEMMA SlotType ==
  ASSUME TypeOK, NEW c \in Calls
  PROVE  /\ [slots EXCEPT ![home[c]] = @ \union {c}] \in [Processes -> SUBSET Calls]
         /\ [slots EXCEPT ![home[c]] = @ \ {c}] \in [Processes -> SUBSET Calls]
  <1>1. home[c] \in Processes /\ slots \in [Processes -> SUBSET Calls]
    BY DEF TypeOK
  <1>2. slots[home[c]] \union {c} \in SUBSET Calls /\ slots[home[c]] \ {c} \in SUBSET Calls
    BY <1>1
  <1> QED
    BY <1>1, <1>2

LEMMA RunDateType ==
  ASSUME TypeOK, NEW d \in Docs, NEW date \in DateOrNone
  PROVE  [run EXCEPT ![d].date = date] \in [Docs -> [date : DateOrNone, succeeded : BOOLEAN]]
  <1>1. run[d] \in [date : DateOrNone, succeeded : BOOLEAN]
    BY DEF TypeOK
  <1>2. [run[d] EXCEPT !.date = date] \in [date : DateOrNone, succeeded : BOOLEAN]
    BY <1>1
  <1>3. [run EXCEPT ![d].date = date] = [run EXCEPT ![d] = [run[d] EXCEPT !.date = date]]
    OBVIOUS
  <1> QED
    BY <1>2, <1>3 DEF TypeOK

LEMMA RunSuccessType ==
  ASSUME TypeOK, NEW d \in Docs
  PROVE  [run EXCEPT ![d].succeeded = TRUE] \in [Docs -> [date : DateOrNone, succeeded : BOOLEAN]]
  <1>1. run[d] \in [date : DateOrNone, succeeded : BOOLEAN]
    BY DEF TypeOK
  <1>2. [run[d] EXCEPT !.succeeded = TRUE] \in [date : DateOrNone, succeeded : BOOLEAN]
    BY <1>1
  <1>3. [run EXCEPT ![d].succeeded = TRUE] = [run EXCEPT ![d] = [run[d] EXCEPT !.succeeded = TRUE]]
    OBVIOUS
  <1> QED
    BY <1>2, <1>3 DEF TypeOK

LEMMA CallTypeStep ==
  ASSUME TypeOK, CallsOK, [Next]_vars
  PROVE  call' \in [Calls -> CallRecords]
  <1> USE DEF TypeOK, At
  <1>1. ASSUME NEW c \in Calls, Request(c)
        PROVE  call' \in [Calls -> CallRecords]
    <2>1. PICK d \in Docs, date \in DateOrNone, kind \in {"UPLOAD", "ANALYZE", "RETRY"},
               st \in {"lookup", "lock"} : Starts(c, kind, d, NoSource, date, st)
      BY <1>1 DEF Request, DateOrNone
    <2> QED
      BY <2>1, StartType, BecomesType DEF Starts, Steps
  <1>2. ASSUME NEW c \in Calls, NEW s \in Sources, TakeArticle(c, s)
        PROVE  call' \in [Calls -> CallRecords]
    <2>1. ArticleDate[s] \in DateOrNone /\ Content[s] \in Docs
      BY DEF DateOrNone
    <2> QED
      BY <1>2, <2>1, StartType, BecomesType DEF TakeArticle, Starts, Steps
  <1>3. ASSUME NEW c \in Calls, Download(c)
        PROVE  call' \in [Calls -> CallRecords]
    BY <1>3, StepType, IdleType, BecomesType DEF Download, Moves, Ends, Steps
  <1>4. ASSUME NEW c \in Calls, Lookup(c)
        PROVE  call' \in [Calls -> CallRecords]
    <2>1. D(c) \in Docs /\ doc[D(c)] \in DocStatuses /\ "NONE" \in DocStatuses
      BY <1>4, AboutDoc DEF Lookup, DocStatuses
    <2>2. CASE Ends(c)
      BY <2>2, IdleType, BecomesType DEF Ends
    <2>3. CASE ~Ends(c)
      BY <1>4, <2>1, <2>3, FoundType, BecomesType DEF Lookup, Steps
    <2> QED
      BY <2>2, <2>3
  <1>5. ASSUME NEW c \in Calls, Create(c)
        PROVE  call' \in [Calls -> CallRecords]
    BY <1>5, StepType, IdleType, BecomesType DEF Create, Moves, Ends, Steps
  <1>6. ASSUME NEW c \in Calls, Link(c)
        PROVE  call' \in [Calls -> CallRecords]
    BY <1>6, DoneType, FoundType, BecomesType DEF Link, Steps, DocStatuses
  <1>7. ASSUME NEW c \in Calls, MarkAnalyzing(c)
        PROVE  call' \in [Calls -> CallRecords]
    BY <1>7, StepType, IdleType, BecomesType DEF MarkAnalyzing, Moves, Ends, Steps
  <1>8. ASSUME NEW c \in Calls, AcquireDocumentAnalysis(c)
        PROVE  call' \in [Calls -> CallRecords]
    BY <1>8, StepType, IdleType, BecomesType DEF AcquireDocumentAnalysis, Moves, Ends, Steps
  <1>9. ASSUME NEW c \in Calls, CheckRetry(c)
        PROVE  call' \in [Calls -> CallRecords]
    <2>1. RetryDate(D(c), call[c].date) \subseteq DateOrNone
      <3>1. D(c) \in Docs /\ call[c].date \in DateOrNone
        BY <1>9, AboutDoc DEF CheckRetry, CallRecords
      <3>2. run[D(c)].date \in DateOrNone /\ SourceDates(D(c)) \subseteq DateOrNone
        BY <3>1 DEF SourceDates, DateOrNone
      <3> QED
        BY <3>1, <3>2 DEF RetryDate
    <2>2. CASE Ends(c)
      BY <2>2, IdleType, BecomesType DEF Ends
    <2>3. CASE ~Ends(c)
      BY <1>9, <2>1, <2>3, DateType, BecomesType DEF CheckRetry
    <2> QED
      BY <2>2, <2>3
  <1>10. ASSUME NEW c \in Calls, ClaimFailedAnalysis(c)
        PROVE  call' \in [Calls -> CallRecords]
    BY <1>10, FoundType, IdleType, BecomesType DEF ClaimFailedAnalysis, Ends, Steps, DocStatuses
  <1>11. ASSUME NEW c \in Calls, BeginDocumentRetry(c)
        PROVE  call' \in [Calls -> CallRecords]
    BY <1>11, StepType, IdleType, BecomesType DEF BeginDocumentRetry, Moves, Ends, Steps
  <1>12. ASSUME NEW c \in Calls, Parse(c)
        PROVE  call' \in [Calls -> CallRecords]
    BY <1>12, StepType, IdleType, BecomesType DEF Parse, Moves, AfterFailure, Ends, Steps
  <1>13. ASSUME NEW c \in Calls, AcquireLLM(c)
        PROVE  call' \in [Calls -> CallRecords]
    BY <1>13, StepType, IdleType, BecomesType DEF AcquireLLM, Moves, AfterFailure, Ends, Steps
  <1>14. ASSUME NEW c \in Calls, Answer(c)
        PROVE  call' \in [Calls -> CallRecords]
    <2>1. CASE \E st \in {"settle", "restore"} : Moves(c, st)
      BY <2>1, StepType, BecomesType DEF Moves, Steps
    <2>2. CASE \E found \in Answers :
                 Becomes(c, [call[c] EXCEPT !.step = "persist", !.keys = found \X {call[c].date}])
      <3>1. call[c].date \in Dates
        BY <1>14 DEF Answer, CallsOK, CallOK
      <3>2. PICK found \in Answers :
                 Becomes(c, [call[c] EXCEPT !.step = "persist", !.keys = found \X {call[c].date}])
        BY <2>2
      <3>3. found \X {call[c].date} \in SUBSET Keys
        BY <3>1 DEF Keys
      <3> QED
        BY <3>2, <3>3, KeysType, BecomesType
    <2> QED
      BY <1>14, <2>1, <2>2 DEF Answer, AfterFailure
  <1>15. ASSUME NEW c \in Calls, ReplacePlans(c)
        PROVE  call' \in [Calls -> CallRecords]
    BY <1>15, StepType, IdleType, BecomesType DEF ReplacePlans, Moves, AfterFailure, Ends, Steps
  <1>16. ASSUME NEW c \in Calls, Planned(c)
        PROVE  call' \in [Calls -> CallRecords]
    BY <1>16, StepType, DoneType, IdleType, BecomesType DEF Planned, Moves, Ends, Steps
  <1>17. ASSUME NEW c \in Calls, FinishDocumentRetry(c)
        PROVE  call' \in [Calls -> CallRecords]
    BY <1>17, StepType, IdleType, BecomesType DEF FinishDocumentRetry, Moves, Ends, Steps
  <1>18. ASSUME NEW c \in Calls, RestoreFailedAnalysis(c)
        PROVE  call' \in [Calls -> CallRecords]
    BY <1>18, StepType, IdleType, BecomesType DEF RestoreFailedAnalysis, Moves, Ends, Steps
  <1>19. ASSUME NEW c \in Calls, MarkArticle(c)
        PROVE  call' \in [Calls -> CallRecords]
    BY <1>19, StepType, IdleType, BecomesType DEF MarkArticle, Ends, Moves, Steps
  <1>20. ASSUME NEW c \in Calls, StatementFails(c)
        PROVE  call' \in [Calls -> CallRecords]
    BY <1>20, StepType, IdleType, BecomesType DEF StatementFails, Moves, Ends, AfterFailure, Steps
  <1>21. ASSUME NEW p \in Processes, Crash(p)
        PROVE  call' \in [Calls -> CallRecords]
    BY <1>21, IdleType DEF Crash
  <1>22. ASSUME UNCHANGED vars \/ \E s \in Sources : LeaveLookback(s)
        PROVE  call' \in [Calls -> CallRecords]
    BY <1>22 DEF vars, LeaveLookback, TypeOK
  <1> QED
    BY <1>1, <1>2, <1>3, <1>4, <1>5, <1>6, <1>7, <1>8, <1>9, <1>10, <1>11, <1>12, <1>13, <1>14, <1>15, <1>16, <1>17, <1>18, <1>19, <1>20, <1>21, <1>22 DEF Next, CallStep

LEMMA TypeStep ==
  ASSUME TypeOK, CallsOK, OutcomesSettled, [Next]_vars
  PROVE  TypeOK'
  <1>1. ASSUME NEW c \in Calls, Request(c)
        PROVE  TypeOK'
    <2>1. calls' \in 0..MaxCalls
      BY <1>1 DEF Request, TypeOK
    <2>2. UNCHANGED <<home, aged, doc, row, tables, locks, settled, faults>>
      BY <1>1 DEF Request
    <2> QED
      BY <2>1, <2>2, CallTypeStep DEF TypeOK, tables, locks
  <1>2. ASSUME NEW c \in Calls, NEW s \in Sources, TakeArticle(c, s)
        PROVE  TypeOK'
    <2>1. row' \in [Sources -> RowRecords]
      BY <1>2, RowType DEF TakeArticle, SetRow, TypeOK, RowStatuses
    <2> QED
      BY <1>2, <2>1, CallTypeStep DEF TakeArticle, TypeOK, tables, locks
  <1>3. ASSUME NEW c \in Calls, Download(c)
        PROVE  TypeOK'
    BY <1>3, CallTypeStep, AboutDoc, ArticleFact, RowType DEF Download, CallsOK, CallOK, IsArticle, RowStatuses, At, TypeOK, tables, locks
  <1>4. ASSUME NEW c \in Calls, Lookup(c)
        PROVE  TypeOK'
    BY <1>4, CallTypeStep, AboutDoc DEF Lookup, At, TypeOK, tables, locks
  <1>5. ASSUME NEW c \in Calls, Create(c)
        PROVE  TypeOK'
    BY <1>5, CallTypeStep, AboutDoc, WritesFact DEF Create, DocStatuses, At, TypeOK, tables, locks
  <1>6. ASSUME NEW c \in Calls, Link(c)
        PROVE  TypeOK'
    <2>1. Article(c) \in Sources /\ D(c) \in Docs
      BY <1>6, ArticleFact, AboutDoc DEF Link, At, CallsOK, CallOK, IsArticle
    <2>2. row' \in [Sources -> RowRecords]
      BY <1>6, <2>1 DEF Link, TypeOK, RowRecords, RowStatuses
    <2> QED
      BY <1>6, <2>2, CallTypeStep DEF Link, TypeOK, tables, locks
  <1>7. ASSUME NEW c \in Calls, MarkAnalyzing(c)
        PROVE  TypeOK'
    BY <1>7, CallTypeStep, AboutDoc, ArticleFact, RowType DEF MarkAnalyzing, CallsOK, CallOK, IsArticle, RowStatuses, At, TypeOK, tables, locks
  <1>8. ASSUME NEW c \in Calls, AcquireDocumentAnalysis(c)
        PROVE  TypeOK'
    <2>1. D(c) \in Docs
      BY <1>8, AboutDoc DEF AcquireDocumentAnalysis, At
    <2>2. active' \in [Processes -> SUBSET Docs]
      BY <1>8, <2>1, LockType DEF AcquireDocumentAnalysis, TypeOK
    <2> QED
      BY <1>8, <2>2, CallTypeStep DEF AcquireDocumentAnalysis, TypeOK, tables
  <1>9. ASSUME NEW c \in Calls, CheckRetry(c)
        PROVE  TypeOK'
    <2>1. D(c) \in Docs
      BY <1>9, AboutDoc DEF CheckRetry, At
    <2>2. active' \in [Processes -> SUBSET Docs]
      <3>1. UNCHANGED active \/ Unlocks(c)
        BY <1>9 DEF CheckRetry
      <3>2. CASE UNCHANGED active
        BY <3>2 DEF TypeOK
      <3>3. CASE Unlocks(c)
        BY <2>1, <3>3, LockType DEF Unlocks
      <3> QED
        BY <3>1, <3>2, <3>3
    <2> QED
      BY <1>9, <2>2, CallTypeStep DEF CheckRetry, TypeOK, tables
  <1>10. ASSUME NEW c \in Calls, ClaimFailedAnalysis(c)
        PROVE  TypeOK'
    <2>1. D(c) \in Docs
      BY <1>10, AboutDoc DEF ClaimFailedAnalysis, At
    <2>2. active' \in [Processes -> SUBSET Docs]
      <3>1. UNCHANGED active \/ Unlocks(c)
        BY <1>10 DEF ClaimFailedAnalysis
      <3>2. CASE UNCHANGED active
        BY <3>2 DEF TypeOK
      <3>3. CASE Unlocks(c)
        BY <2>1, <3>3, LockType DEF Unlocks
      <3> QED  BY <3>1, <3>2, <3>3
    <2>3. doc' \in [Docs -> DocStatuses] /\ settled' \subseteq Docs
      <3>1. Writes(D(c), "ANALYZING") \/ UNCHANGED <<doc, settled>>
        BY <1>10 DEF ClaimFailedAnalysis
      <3>2. CASE Writes(D(c), "ANALYZING")
        BY <2>1, <3>2, WritesFact DEF DocStatuses
      <3>3. CASE UNCHANGED <<doc, settled>>
        BY <3>3 DEF TypeOK
      <3> QED  BY <3>1, <3>2, <3>3
    <2>4. UNCHANGED <<home, aged, row, tables, slots, calls, faults>>
      BY <1>10 DEF ClaimFailedAnalysis
    <2> QED  BY <2>2, <2>3, <2>4, CallTypeStep DEF TypeOK, tables
  <1>11. ASSUME NEW c \in Calls, BeginDocumentRetry(c)
        PROVE  TypeOK'
    BY <1>11, CallTypeStep, AboutDoc, RowsOfType DEF BeginDocumentRetry, RowStatuses, Outcomes, At, TypeOK, tables, locks
  <1>12. ASSUME NEW c \in Calls, Parse(c)
        PROVE  TypeOK'
    <2>1. D(c) \in Docs /\ call[c].date \in DateOrNone
      <3>1. D(c) \in Docs
        BY <1>12, AboutDoc DEF Parse, At
      <3>2. call[c] \in CallRecords
        BY DEF TypeOK
      <3> QED
        BY <3>1, <3>2 DEF CallRecords
    <2>2. run' \in [Docs -> [date : DateOrNone, succeeded : BOOLEAN]]
      BY <1>12, <2>1, RunDateType DEF Parse
    <2>3. doc' \in [Docs -> DocStatuses] /\ settled' \subseteq Docs
      BY <1>12, <2>1, UpdateFact DEF Parse, DocStatuses
    <2> QED
      BY <1>12, <2>2, <2>3, CallTypeStep DEF Parse, TypeOK, locks
  <1>13. ASSUME NEW c \in Calls, AcquireLLM(c)
        PROVE  TypeOK'
    <2>1. D(c) \in Docs
      BY <1>13, AboutDoc DEF AcquireLLM, At
    <2>2. slots' \in [Processes -> SUBSET Calls]
      BY <1>13, SlotType DEF AcquireLLM, TypeOK
    <2>3. doc' \in [Docs -> DocStatuses] /\ settled' \subseteq Docs
      BY <1>13, <2>1, UpdateFact DEF AcquireLLM, DocStatuses, TypeOK
    <2> QED
      BY <1>13, <2>2, <2>3, CallTypeStep DEF AcquireLLM, TypeOK, tables
  <1>14. ASSUME NEW c \in Calls, Answer(c)
        PROVE  TypeOK'
    <2>1. D(c) \in Docs
      BY <1>14, AboutDoc DEF Answer, At
    <2>2. slots' \in [Processes -> SUBSET Calls]
      BY <1>14, SlotType DEF Answer, TypeOK
    <2>3. doc' \in [Docs -> DocStatuses] /\ settled' \subseteq Docs
      <3>1. \/ UNCHANGED <<doc, settled>>
            \/ \E status \in {"FAILED", "INVALID"} : UpdateAnalysisStatus(c, status)
        BY <1>14 DEF Answer
      <3> QED
        BY <2>1, <3>1, UpdateFact DEF DocStatuses, TypeOK
    <2> QED
      BY <1>14, <2>2, <2>3, CallTypeStep DEF Answer, TypeOK, tables
  <1>15. ASSUME NEW c \in Calls, ReplacePlans(c)
        PROVE  TypeOK'
    <2>1. D(c) \in Docs /\ call[c].keys \in SUBSET Keys
      <3>1. D(c) \in Docs
        BY <1>15, AboutDoc DEF ReplacePlans, At
      <3>2. call[c] \in CallRecords
        BY DEF TypeOK
      <3> QED
        BY <3>1, <3>2 DEF CallRecords
    <2>2. CASE Fault
      <3>1. doc' \in [Docs -> DocStatuses] /\ settled' \subseteq Docs
        BY <1>15, <2>1, <2>2, UpdateFact DEF ReplacePlans, DocStatuses, TypeOK
      <3>2. faults' \in 0..MaxFaults
        BY <2>2 DEF Fault, TypeOK
      <3>3. UNCHANGED tables
        BY <1>15, <2>2 DEF ReplacePlans, Fault, TypeOK
      <3> QED
        BY <1>15, <3>1, <3>2, <3>3, CallTypeStep DEF ReplacePlans, TypeOK, tables, locks
    <2>3. CASE ~Fault
      <3>1. run' \in [Docs -> [date : DateOrNone, succeeded : BOOLEAN]]
        <4>1. run' = [run EXCEPT ![D(c)].succeeded = TRUE]
          BY <1>15, <2>3 DEF ReplacePlans
        <4> QED
          BY <2>1, <4>1, RunSuccessType
      <3>2. /\ plans' = [plans EXCEPT ![D(c)] = {k \in call[c].keys : ~IsSector(k)}]
            /\ events' = [k \in Keys |-> Upserted(k, D(c), call[c].keys)]
            /\ committed' = [committed EXCEPT ![D(c)] = call[c].keys]
            /\ UNCHANGED <<home, aged, doc, settled, faults, row, locks, calls>>
        BY <1>15, <2>3 DEF ReplacePlans
      <3>3. plans' \in [Docs -> SUBSET Keys] /\ committed' \in [Docs -> SUBSET Keys]
        BY <2>1, <3>2 DEF TypeOK
      <3>4. events' \in [Keys -> Docs \union {NoDoc}]
        BY <2>1, <3>2 DEF TypeOK, Upserted
      <3> QED
        BY <3>1, <3>2, <3>3, <3>4, CallTypeStep DEF TypeOK, locks
    <2> QED
      BY <2>2, <2>3
  <1>16. ASSUME NEW c \in Calls, Planned(c)
        PROVE  TypeOK'
    BY <1>16, CallTypeStep, AboutDoc, UpdateFact DEF Planned, Unlocks, DocStatuses, At, TypeOK, tables, locks
  <1>17. ASSUME NEW c \in Calls, FinishDocumentRetry(c)
        PROVE  TypeOK'
    BY <1>17, CallTypeStep, AboutDoc, RowsOfType DEF FinishDocumentRetry, RowStatuses, Outcomes, At, TypeOK, tables, locks
  <1>18. ASSUME NEW c \in Calls, RestoreFailedAnalysis(c)
        PROVE  TypeOK'
    <2>1. D(c) \in Docs
      BY <1>18, AboutDoc DEF RestoreFailedAnalysis, At
    <2>2. active' \in [Processes -> SUBSET Docs]
      BY <1>18, <2>1, LockType DEF RestoreFailedAnalysis, Unlocks
    <2>3. doc' \in [Docs -> DocStatuses]
      BY <1>18, <2>1 DEF RestoreFailedAnalysis, Restored, TypeOK, DocStatuses
    <2> QED
      BY <1>18, <2>2, <2>3, CallTypeStep DEF RestoreFailedAnalysis, TypeOK, tables
  <1>19. ASSUME NEW c \in Calls, MarkArticle(c)
        PROVE  TypeOK'
    BY <1>19, CallTypeStep, AboutDoc, ArticleFact, RowType DEF MarkArticle, CallsOK, CallOK, IsArticle, RowStatuses, At, TypeOK, tables, locks
  <1>20. ASSUME NEW c \in Calls, StatementFails(c)
        PROVE  TypeOK'
    BY <1>20, CallTypeStep, AboutDoc DEF StatementFails, Fault, Unlocks, AfterFailure, At, TypeOK, tables, locks
  <1>21. ASSUME NEW p \in Processes, Crash(p)
        PROVE  TypeOK'
    BY <1>21, CallTypeStep, AboutDoc DEF Crash, Fault, At, TypeOK, tables, locks
  <1>22. ASSUME UNCHANGED vars \/ \E s \in Sources : LeaveLookback(s)
        PROVE  TypeOK'
    <2>1. CASE UNCHANGED vars
      BY <2>1 DEF vars, TypeOK
    <2>2. ASSUME NEW s \in Sources, LeaveLookback(s)
          PROVE  TypeOK'
      <3>1. aged' = aged \union {s}
        BY <2>2 DEF LeaveLookback
      <3>2. UNCHANGED <<home, doc, row, tables, locks, settled, call, calls, faults>>
        BY <2>2 DEF LeaveLookback
      <3> QED  BY <3>1, <3>2 DEF TypeOK, tables, locks
    <2> QED  BY <1>22, <2>1, <2>2
  <1> QED
    BY <1>1, <1>2, <1>3, <1>4, <1>5, <1>6, <1>7, <1>8, <1>9, <1>10, <1>11, <1>12, <1>13, <1>14, <1>15, <1>16, <1>17, <1>18, <1>19, <1>20, <1>21, <1>22 DEF Next, CallStep

\* The calls that do not move keep what holds of them.
LEMMA OthersOK ==
  ASSUME CallsOK, NEW c \in Calls, settled \subseteq settled',
         \A e \in Calls \ {c} : call'[e] = call[e],
         \A s \in Sources : row'[s].doc = row[s].doc \/ row'[s].doc = Content[s]
  PROVE  \A e \in Calls \ {c} : CallOK(call[e])'
  BY DEF CallsOK, CallOK

\* A call that only takes its next step, or ends.
LEMMA MovesOK ==
  ASSUME TypeOK, CallsOK, NEW c \in Calls, NEW st \in Steps, Moves(c, st), ~At(c, "idle"),
         settled \subseteq settled', \A s \in Sources : row'[s].doc = row[s].doc,
         st \notin {"idle", "begin", "claim"},
         st \in {"download", "link", "mark", "done", "fail"} => IsArticle(c),
         IsRetry(c) /\ st \in {"parse", "llm", "model"} =>
           call[c].step \in {"begin", "parse", "llm"},
         IsArticle(c) /\ st \notin {"download", "lookup", "create", "link", "fail"} =>
           row[Article(c)].doc = D(c),
         IsRetry(c) => st \notin {"lookup", "create", "lock"},
         ~At(c, "done")
  PROVE  CallsOK'
  <1>1. call[c] \in CallRecords /\ [call[c] EXCEPT !.step = st] \in CallRecords
    BY StepType DEF TypeOK
  <1>2. /\ call'[c] = [call[c] EXCEPT !.step = st]
        /\ \A e \in Calls \ {c} : call'[e] = call[e]
    BY <1>1, BecomesType DEF Moves, TypeOK
  <1>3. \A e \in Calls \ {c} : CallOK(call[e])'
    BY <1>2, OthersOK
  <1>4. CallOK(call[c])'
    BY <1>1, <1>2 DEF CallsOK, CallOK, CallRecords, At, IsArticle, IsRetry, Article, D
  <1> QED
    BY <1>3, <1>4 DEF CallsOK

LEMMA EndsOK ==
  ASSUME TypeOK, CallsOK, NEW c \in Calls, Ends(c),
         settled \subseteq settled', \A s \in Sources : row'[s].doc = row[s].doc
  PROVE  CallsOK'
  <1>1. call'[c] = Idle /\ \A e \in Calls \ {c} : call'[e] = call[e]
    BY IdleType, BecomesType DEF Ends, TypeOK
  <1>2. \A e \in Calls \ {c} : CallOK(call[e])'
    BY <1>1, OthersOK
  <1>3. CallOK(call[c])'
    BY <1>1 DEF CallOK, Idle, Outcomes
  <1> QED
    BY <1>2, <1>3 DEF CallsOK

\* Any other change: what the call becomes is given.
LEMMA BecomesOK ==
  ASSUME TypeOK, CallsOK, NEW c \in Calls, NEW new \in CallRecords, Becomes(c, new),
         settled \subseteq settled',
         \A s \in Sources : row'[s].doc = row[s].doc \/ row'[s].doc = Content[s]
  PROVE  /\ call'[c] = new
         /\ CallOK(call[c])' => CallsOK'
  BY BecomesType, OthersOK DEF CallsOK, TypeOK

LEMMA CallsStep ==
  ASSUME TypeOK, CallsOK, OutcomesSettled, [Next]_vars
  PROVE  CallsOK'
  <1>1. ASSUME NEW c \in Calls, Request(c)
        PROVE  CallsOK'
    <2>1. PICK d \in Docs, date \in DateOrNone, kind \in {"UPLOAD", "ANALYZE", "RETRY"},
               st \in {"lookup", "lock"} :
                 /\ Starts(c, kind, d, NoSource, date, st)
                 /\ kind # "RETRY" => date \in Dates
                 /\ kind = "RETRY" => st = "lock"
      BY <1>1 DEF Request, DateOrNone
    <2>2. UNCHANGED <<row, settled>>
      BY <1>1 DEF Request
    <2>3. [Idle EXCEPT !.kind = kind, !.step = st, !.doc = d, !.source = NoSource, !.date = date]
            \in CallRecords
      BY StartType DEF Steps
    <2>4. CallOK([Idle EXCEPT !.kind = kind, !.step = st, !.doc = d, !.source = NoSource,
                              !.date = date])'
      BY <2>1 DEF CallOK, Idle, Outcomes
    <2> QED
      BY <2>1, <2>2, <2>3, <2>4, BecomesOK DEF Starts
  <1>2. ASSUME NEW c \in Calls, NEW s \in Sources, TakeArticle(c, s)
        PROVE  CallsOK'
    <2>1. ArticleDate[s] \in Dates /\ Content[s] \in Docs
      OBVIOUS
    <2>2. settled' = settled /\ \A e \in Sources : row'[e].doc = row[e].doc
      BY <1>2, RowType DEF TakeArticle, SetRow, RowStatuses
    <2> DEFINE new == [Idle EXCEPT !.kind = "ARTICLE", !.step = "download", !.doc = Content[s],
                                   !.source = s, !.date = ArticleDate[s]]
    <2>3. new \in CallRecords
      BY <2>1, StartType DEF Steps, DateOrNone
    <2>4. new.kind = "ARTICLE" /\ new.step = "download" /\ new.doc = Content[s]
          /\ new.source = s /\ new.date = ArticleDate[s] /\ ~new.ok /\ new.found = "NONE"
      BY DEF Idle
    <2>5. Becomes(c, new)
      BY <1>2 DEF TakeArticle, Starts
    <2> HIDE DEF new
    <2>6. call'[c] = new /\ (CallOK(call[c])' => CallsOK')
      BY <2>2, <2>3, <2>5, BecomesOK
    <2>7. CallOK(call[c])'
      BY <2>1, <2>2, <2>4, <2>6 DEF CallOK, Outcomes
    <2> QED
      BY <2>6, <2>7
  <1>3. ASSUME NEW c \in Calls, Download(c)
        PROVE  CallsOK'
    <2>1. settled \subseteq settled' /\ \A s \in Sources : row'[s].doc = row[s].doc
      BY <1>3, ArticleFact, RowType DEF Download, CallsOK, CallOK, At, IsArticle, RowStatuses
    <2>2. ~At(c, "idle") /\ ~At(c, "done") /\ D(c) \in Docs
      BY <1>3, AboutDoc DEF Download, At
    <2>3. Moves(c, "lookup")
      BY <1>3 DEF Download
    <2>4. IsArticle(c) /\ call[c].step \notin {"download", "lookup", "create", "link", "fail"} =>
            row[Article(c)].doc = D(c)
      BY ArticleFact
    <2>5. CASE Ends(c)
      BY <2>1, <2>5, EndsOK
    <2>6. CASE ~Ends(c)
      BY <1>3, <2>1, <2>2, <2>3, <2>4, <2>6, MovesOK DEF Steps, At, IsArticle, IsRetry, Download, CallsOK, CallOK
    <2> QED
      BY <2>5, <2>6
  <1>4. ASSUME NEW c \in Calls, Lookup(c)
        PROVE  CallsOK'
    <2>1. UNCHANGED <<row, settled>> /\ D(c) \in Docs /\ ~At(c, "idle") /\ call[c] \in CallRecords
      BY <1>4, AboutDoc DEF Lookup, At, TypeOK
    <2>2. CASE Ends(c)
      BY <2>1, <2>2, EndsOK
    <2>3. CASE ~Ends(c)
      <3>1. PICK next \in {"create", "link", "lock"} :
              /\ Becomes(c, [call[c] EXCEPT !.step = next,
                                            !.found = IF next = "link" THEN doc[D(c)] ELSE "NONE"])
              /\ next = "link" => IsArticle(c)
              /\ next = "lock" => ~IsArticle(c)
        BY <1>4, <2>3 DEF Lookup
      <3>2. doc[D(c)] \in DocStatuses /\ (doc[D(c)] \in Outcomes => D(c) \in settled)
        BY <2>1 DEF TypeOK, OutcomesSettled
      <3>3. [call[c] EXCEPT !.step = next, !.found = IF next = "link" THEN doc[D(c)] ELSE "NONE"]
              \in CallRecords
        BY <2>1, <3>2, FoundType DEF Steps, DocStatuses
      <3>4. /\ call'[c] = [call[c] EXCEPT !.step = next,
                             !.found = IF next = "link" THEN doc[D(c)] ELSE "NONE"]
            /\ CallOK(call[c])' => CallsOK'
        BY <2>1, <3>1, <3>3, BecomesOK
      <3>5. CallOK(call[c])
        BY DEF CallsOK
      <3>6. CallOK(call[c])'
        BY <1>4, <2>1, <3>1, <3>2, <3>4, <3>5 DEF Lookup, CallOK, CallRecords, At, IsArticle, D, Outcomes
      <3> QED
        BY <3>4, <3>6
    <2> QED
      BY <2>2, <2>3
  <1>5. ASSUME NEW c \in Calls, Create(c)
        PROVE  CallsOK'
    <2>1. settled \subseteq settled' /\ \A s \in Sources : row'[s].doc = row[s].doc
      BY <1>5, AboutDoc, WritesFact DEF Create, At, DocStatuses
    <2>2. ~At(c, "idle") /\ ~At(c, "done") /\ D(c) \in Docs
      BY <1>5, AboutDoc DEF Create, At
    <2>3. Ends(c) \/ \E st \in {"link", "lock", "fail"} : Moves(c, st) /\ (st \in {"link", "fail"} <=> IsArticle(c))
      BY <1>5 DEF Create
    <2>4. IsArticle(c) /\ call[c].step \notin {"download", "lookup", "create", "link", "fail"} =>
            row[Article(c)].doc = D(c)
      BY ArticleFact
    <2>5. CASE Ends(c)
      BY <2>1, <2>5, EndsOK
    <2>6. CASE ~Ends(c)
      BY <1>5, <2>1, <2>2, <2>3, <2>4, <2>6, MovesOK DEF Steps, At, IsArticle, IsRetry, Create, CallsOK, CallOK
    <2> QED
      BY <2>5, <2>6
  <1>6. ASSUME NEW c \in Calls, Link(c)
        PROVE  CallsOK'
    <2>1. /\ call[c] \in CallRecords /\ CallOK(call[c]) /\ IsArticle(c) /\ At(c, "link")
          /\ Article(c) \in Sources /\ D(c) = Content[Article(c)] /\ UNCHANGED settled
      BY <1>6, ArticleFact DEF Link, At, TypeOK, CallsOK, CallOK, IsArticle
    <2>2. row[Article(c)] \in RowRecords
      BY <2>1 DEF TypeOK
    <2>3. /\ \A s \in Sources : row'[s].doc = row[s].doc \/ row'[s].doc = Content[s]
          /\ row'[Article(c)].doc = D(c)
      BY <1>6, <2>1 DEF Link, TypeOK
    <2>4. CASE call[c].found \in Outcomes
      <3>1. Becomes(c, [call[c] EXCEPT !.step = "done", !.ok = TRUE])
        BY <1>6, <2>4 DEF Link
      <3>2. call'[c] = [call[c] EXCEPT !.step = "done", !.ok = TRUE]
            /\ (CallOK(call[c])' => CallsOK')
        BY <2>1, <2>3, <3>1, DoneType, BecomesOK
      <3>3. CallOK(call[c])'
        BY <2>1, <2>3, <2>4, <3>2 DEF CallOK, CallRecords, At, IsArticle, D, Article
      <3> QED
        BY <3>2, <3>3
    <2>5. CASE call[c].found \notin Outcomes
      <3>1. Becomes(c, [call[c] EXCEPT !.step = "mark", !.found = "NONE"])
        BY <1>6, <2>5 DEF Link
      <3>2. call'[c] = [call[c] EXCEPT !.step = "mark", !.found = "NONE"]
            /\ (CallOK(call[c])' => CallsOK')
        BY <2>1, <2>3, <3>1, FoundType, BecomesOK DEF Steps, DocStatuses
      <3>3. CallOK(call[c])'
        BY <2>1, <2>3, <2>5, <3>2 DEF CallOK, CallRecords, At, IsArticle, D, Article, Outcomes
      <3> QED
        BY <3>2, <3>3
    <2> QED
      BY <2>4, <2>5
  <1>7. ASSUME NEW c \in Calls, MarkAnalyzing(c)
        PROVE  CallsOK'
    <2>1. settled \subseteq settled' /\ \A s \in Sources : row'[s].doc = row[s].doc
      BY <1>7, ArticleFact, RowType DEF MarkAnalyzing, CallsOK, CallOK, At, IsArticle, RowStatuses
    <2>2. ~At(c, "idle") /\ ~At(c, "done") /\ D(c) \in Docs
      BY <1>7, AboutDoc DEF MarkAnalyzing, At
    <2>3. Moves(c, "lock")
      BY <1>7 DEF MarkAnalyzing
    <2>4. IsArticle(c) /\ call[c].step \notin {"download", "lookup", "create", "link", "fail"} =>
            row[Article(c)].doc = D(c)
      BY ArticleFact
    <2>5. CASE Ends(c)
      BY <2>1, <2>5, EndsOK
    <2>6. CASE ~Ends(c)
      BY <1>7, <2>1, <2>2, <2>3, <2>4, <2>6, MovesOK DEF Steps, At, IsArticle, IsRetry, MarkAnalyzing, CallsOK, CallOK
    <2> QED
      BY <2>5, <2>6
  <1>8. ASSUME NEW c \in Calls, AcquireDocumentAnalysis(c)
        PROVE  CallsOK'
    <2>1. /\ D(c) \in Docs /\ At(c, "lock") /\ UNCHANGED <<row, settled>>
          /\ call[c] \in CallRecords /\ CallOK(call[c])
      BY <1>8, AboutDoc DEF AcquireDocumentAnalysis, At, TypeOK, CallsOK
    <2>2. CASE Ends(c)
      BY <2>1, <2>2, EndsOK
    <2>3. CASE Moves(c, "parse") /\ ~IsRetry(c)
      <3>1. IsArticle(c) => row[Article(c)].doc = D(c)
        BY <2>1 DEF At, CallOK, IsArticle, Article, D
      <3> QED
        BY <2>1, <2>3, <3>1, MovesOK DEF Steps, At
    <2>4. CASE Moves(c, "claim") /\ IsRetry(c)
      <3>1. call'[c] = [call[c] EXCEPT !.step = "claim"] /\ (CallOK(call[c])' => CallsOK')
        BY <2>1, <2>4, StepType, BecomesOK DEF Moves, Steps
      <3>2. CallOK(call[c])'
        BY <2>1, <2>4, <3>1 DEF CallOK, CallRecords, At, IsRetry, Outcomes
      <3> QED
        BY <3>1, <3>2
    <2> QED
      BY <1>8, <2>2, <2>3, <2>4 DEF AcquireDocumentAnalysis
  <1>9. ASSUME NEW c \in Calls, CheckRetry(c)
        PROVE  CallsOK'
    <2>1. UNCHANGED <<row, settled>> /\ D(c) \in Docs /\ At(c, "claim") /\ call[c] \in CallRecords
      BY <1>9, AboutDoc DEF CheckRetry, At, TypeOK
    <2>2. CASE Ends(c)
      BY <2>1, <2>2, EndsOK
    <2>3. CASE ~Ends(c)
      <3>1. PICK date \in Dates : Becomes(c, [call[c] EXCEPT !.found = "FAILED", !.date = date])
        <4>1. PICK date \in RetryDate(D(c), call[c].date) :
                Becomes(c, [call[c] EXCEPT !.found = "FAILED", !.date = date])
          BY <1>9, <2>3 DEF CheckRetry
        <4>2. RetryDate(D(c), call[c].date) \subseteq Dates
          <5>1. run[D(c)].date \in DateOrNone /\ call[c].date \in DateOrNone
            BY <2>1 DEF TypeOK, CallRecords
          <5>2. SourceDates(D(c)) \subseteq Dates
            BY DEF SourceDates
          <5> QED
            BY <5>1, <5>2 DEF RetryDate, DateOrNone
        <4> QED
          BY <4>1, <4>2
      <3>2. call'[c] = [call[c] EXCEPT !.found = "FAILED", !.date = date]
            /\ (CallOK(call[c])' => CallsOK')
        BY <2>1, <3>1, DateType, BecomesOK DEF DateOrNone
      <3>3. CallOK(call[c])
        BY DEF CallsOK
      <3>4. CallOK(call[c])'
        BY <2>1, <3>2, <3>3 DEF CallOK, CallRecords, At, Outcomes
      <3> QED
        BY <3>2, <3>4
    <2> QED
      BY <2>2, <2>3
  <1>10. ASSUME NEW c \in Calls, ClaimFailedAnalysis(c)
        PROVE  CallsOK'
    <2>1. /\ D(c) \in Docs /\ At(c, "claim") /\ call[c].found = "FAILED"
          /\ call[c] \in CallRecords /\ CallOK(call[c]) /\ UNCHANGED row
      BY <1>10, AboutDoc DEF ClaimFailedAnalysis, At, TypeOK, CallsOK
    <2>2. settled \subseteq settled'
      BY <1>10, <2>1, WritesFact DEF ClaimFailedAnalysis, DocStatuses
    <2>3. CASE Ends(c)
      BY <2>1, <2>2, <2>3, EndsOK
    <2>4. CASE Becomes(c, [call[c] EXCEPT !.step = "begin", !.found = "NONE"])
      <3>1. call'[c] = [call[c] EXCEPT !.step = "begin", !.found = "NONE"]
            /\ (CallOK(call[c])' => CallsOK')
        BY <2>1, <2>2, <2>4, FoundType, BecomesOK DEF Steps, DocStatuses
      <3>2. CallOK(call[c])'
        BY <2>1, <2>2, <3>1 DEF CallOK, CallRecords, At, Outcomes
      <3> QED
        BY <3>1, <3>2
    <2> QED
      BY <1>10, <2>3, <2>4 DEF ClaimFailedAnalysis
  <1>11. ASSUME NEW c \in Calls, BeginDocumentRetry(c)
        PROVE  CallsOK'
    <2>1. settled \subseteq settled' /\ \A s \in Sources : row'[s].doc = row[s].doc
      BY <1>11, AboutDoc, RowsOfType DEF BeginDocumentRetry, At, RowStatuses
    <2>2. ~At(c, "idle") /\ ~At(c, "done") /\ D(c) \in Docs
      BY <1>11, AboutDoc DEF BeginDocumentRetry, At
    <2>3. Moves(c, "parse")
      BY <1>11 DEF BeginDocumentRetry
    <2>4. IsArticle(c) /\ call[c].step \notin {"download", "lookup", "create", "link", "fail"} =>
            row[Article(c)].doc = D(c)
      BY ArticleFact
    <2>5. CASE Ends(c)
      BY <2>1, <2>5, EndsOK
    <2>6. CASE ~Ends(c)
      BY <1>11, <2>1, <2>2, <2>3, <2>4, <2>6, MovesOK DEF Steps, At, IsArticle, IsRetry, BeginDocumentRetry
    <2> QED
      BY <2>5, <2>6
  <1>12. ASSUME NEW c \in Calls, Parse(c)
        PROVE  CallsOK'
    <2>1. settled \subseteq settled' /\ \A s \in Sources : row'[s].doc = row[s].doc
      BY <1>12, AboutDoc, UpdateFact DEF Parse, At, DocStatuses
    <2>2. ~At(c, "idle") /\ ~At(c, "done") /\ D(c) \in Docs
      BY <1>12, AboutDoc DEF Parse, At
    <2>3. \E st \in {"llm", "settle", "restore"} : Moves(c, st)
      BY <1>12 DEF Parse, AfterFailure
    <2>4. IsArticle(c) /\ call[c].step \notin {"download", "lookup", "create", "link", "fail"} =>
            row[Article(c)].doc = D(c)
      BY ArticleFact
    <2>5. CASE Ends(c)
      BY <2>1, <2>5, EndsOK
    <2>6. CASE ~Ends(c)
      BY <1>12, <2>1, <2>2, <2>3, <2>4, <2>6, MovesOK DEF Steps, At, IsArticle, IsRetry, Parse
    <2> QED
      BY <2>5, <2>6
  <1>13. ASSUME NEW c \in Calls, AcquireLLM(c)
        PROVE  CallsOK'
    <2>1. settled \subseteq settled' /\ \A s \in Sources : row'[s].doc = row[s].doc
      BY <1>13, AboutDoc, UpdateFact DEF AcquireLLM, At, DocStatuses
    <2>2. ~At(c, "idle") /\ ~At(c, "done") /\ D(c) \in Docs
      BY <1>13, AboutDoc DEF AcquireLLM, At
    <2>3. \E st \in {"model", "settle", "restore"} : Moves(c, st)
      BY <1>13 DEF AcquireLLM, AfterFailure
    <2>4. IsArticle(c) /\ call[c].step \notin {"download", "lookup", "create", "link", "fail"} =>
            row[Article(c)].doc = D(c)
      BY ArticleFact
    <2>5. CASE Ends(c)
      BY <2>1, <2>5, EndsOK
    <2>6. CASE ~Ends(c)
      BY <1>13, <2>1, <2>2, <2>3, <2>4, <2>6, MovesOK DEF Steps, At, IsArticle, IsRetry, AcquireLLM
    <2> QED
      BY <2>5, <2>6
  <1>14. ASSUME NEW c \in Calls, Answer(c)
        PROVE  CallsOK'
    <2>1. /\ D(c) \in Docs /\ At(c, "model") /\ UNCHANGED row
          /\ call[c] \in CallRecords /\ CallOK(call[c])
      BY <1>14, AboutDoc DEF Answer, At, TypeOK, CallsOK
    <2>2. settled \subseteq settled'
      <3>1. \/ UNCHANGED settled
            \/ \E status \in {"FAILED", "INVALID"} : UpdateAnalysisStatus(c, status)
        BY <1>14 DEF Answer
      <3> QED
        BY <2>1, <3>1, UpdateFact DEF DocStatuses
    <2>3. CASE \E st \in {"settle", "restore"} : Moves(c, st)
      <3>1. IsArticle(c) => row[Article(c)].doc = D(c)
        BY <2>1 DEF At, CallOK, IsArticle, Article, D
      <3> QED
        BY <2>1, <2>2, <2>3, <3>1, MovesOK DEF Steps, At
    <2>4. CASE \E found \in Answers :
                 Becomes(c, [call[c] EXCEPT !.step = "persist", !.keys = found \X {call[c].date}])
      <3>1. PICK found \in Answers :
                 Becomes(c, [call[c] EXCEPT !.step = "persist", !.keys = found \X {call[c].date}])
        BY <2>4
      <3>2. call[c].date \in Dates
        BY <2>1 DEF CallOK, At
      <3>3. found \X {call[c].date} \in SUBSET Keys
        BY <3>2 DEF Keys
      <3>4. call'[c] = [call[c] EXCEPT !.step = "persist", !.keys = found \X {call[c].date}]
            /\ (CallOK(call[c])' => CallsOK')
        BY <2>1, <2>2, <3>1, <3>3, KeysType, BecomesOK
      <3>5. CallOK(call[c])'
        BY <2>1, <2>2, <3>4 DEF CallOK, CallRecords, At, Outcomes
      <3> QED
        BY <3>4, <3>5
    <2> QED
      BY <1>14, <2>3, <2>4 DEF Answer, AfterFailure
  <1>15. ASSUME NEW c \in Calls, ReplacePlans(c)
        PROVE  CallsOK'
    <2>1. settled \subseteq settled' /\ \A s \in Sources : row'[s].doc = row[s].doc
      BY <1>15, AboutDoc, UpdateFact DEF ReplacePlans, At, DocStatuses
    <2>2. ~At(c, "idle") /\ ~At(c, "done") /\ D(c) \in Docs
      BY <1>15, AboutDoc DEF ReplacePlans, At
    <2>3. \E st \in {"planned", "settle", "restore"} : Moves(c, st)
      BY <1>15 DEF ReplacePlans, AfterFailure
    <2>4. IsArticle(c) /\ call[c].step \notin {"download", "lookup", "create", "link", "fail"} =>
            row[Article(c)].doc = D(c)
      BY ArticleFact
    <2>5. CASE Ends(c)
      BY <2>1, <2>5, EndsOK
    <2>6. CASE ~Ends(c)
      BY <1>15, <2>1, <2>2, <2>3, <2>4, <2>6, MovesOK DEF Steps, At, IsArticle, IsRetry, ReplacePlans
    <2> QED
      BY <2>5, <2>6
  <1>16. ASSUME NEW c \in Calls, Planned(c)
        PROVE  CallsOK'
    <2>1. /\ D(c) \in Docs /\ At(c, "planned") /\ UNCHANGED row
          /\ call[c] \in CallRecords /\ CallOK(call[c])
      BY <1>16, AboutDoc DEF Planned, At, TypeOK, CallsOK
    <2>2. settled \subseteq settled'
      BY <1>16, <2>1, UpdateFact DEF Planned, DocStatuses
    <2>3. CASE Ends(c)
      BY <2>1, <2>2, <2>3, EndsOK
    <2>4. CASE Moves(c, "settle")
      <3>1. IsArticle(c) => row[Article(c)].doc = D(c)
        BY <2>1 DEF At, CallOK, IsArticle, Article, D
      <3> QED
        BY <2>1, <2>2, <2>4, <3>1, MovesOK DEF Steps, At
    <2>5. CASE IsArticle(c) /\ Becomes(c, [call[c] EXCEPT !.step = "done", !.ok = TRUE])
      <3>1. call'[c] = [call[c] EXCEPT !.step = "done", !.ok = TRUE]
            /\ (CallOK(call[c])' => CallsOK')
        BY <2>1, <2>2, <2>5, DoneType, BecomesOK
      <3>2. D(c) \in settled'
        BY <1>16, <2>1, <2>5 DEF Planned, UpdateAnalysisStatus, Writes, Outcomes, IsRetry, IsArticle
      <3>3. CallOK(call[c])'
        BY <2>1, <2>2, <2>5, <3>1, <3>2 DEF CallOK, CallRecords, At, IsArticle, D
      <3> QED
        BY <3>1, <3>3
    <2> QED
      BY <1>16, <2>3, <2>4, <2>5 DEF Planned
  <1>17. ASSUME NEW c \in Calls, FinishDocumentRetry(c)
        PROVE  CallsOK'
    <2>1. settled \subseteq settled' /\ \A s \in Sources : row'[s].doc = row[s].doc
      BY <1>17, AboutDoc, RowsOfType DEF FinishDocumentRetry, At, RowStatuses
    <2>2. ~At(c, "idle") /\ ~At(c, "done") /\ D(c) \in Docs
      BY <1>17, AboutDoc DEF FinishDocumentRetry, At
    <2>3. Moves(c, "restore")
      BY <1>17 DEF FinishDocumentRetry
    <2>4. IsArticle(c) /\ call[c].step \notin {"download", "lookup", "create", "link", "fail"} =>
            row[Article(c)].doc = D(c)
      BY ArticleFact
    <2>5. CASE Ends(c)
      BY <2>1, <2>5, EndsOK
    <2>6. CASE ~Ends(c)
      BY <1>17, <2>1, <2>2, <2>3, <2>4, <2>6, MovesOK DEF Steps, At, IsArticle, IsRetry, FinishDocumentRetry
    <2> QED
      BY <2>5, <2>6
  <1>18. ASSUME NEW c \in Calls, RestoreFailedAnalysis(c)
        PROVE  CallsOK'
    <2>1. settled \subseteq settled' /\ \A s \in Sources : row'[s].doc = row[s].doc
      BY <1>18 DEF RestoreFailedAnalysis
    <2>2. ~At(c, "idle") /\ ~At(c, "done") /\ D(c) \in Docs
      BY <1>18, AboutDoc DEF RestoreFailedAnalysis, At
    <2>3. Ends(c) \/ (Moves(c, "done") /\ IsArticle(c))
      BY <1>18 DEF RestoreFailedAnalysis
    <2>4. IsArticle(c) /\ call[c].step \notin {"download", "lookup", "create", "link", "fail"} =>
            row[Article(c)].doc = D(c)
      BY ArticleFact
    <2>5. CASE Ends(c)
      BY <2>1, <2>5, EndsOK
    <2>6. CASE ~Ends(c)
      BY <1>18, <2>1, <2>2, <2>3, <2>4, <2>6, MovesOK DEF Steps, At, IsArticle, IsRetry, RestoreFailedAnalysis, CallsOK, CallOK
    <2> QED
      BY <2>5, <2>6
  <1>19. ASSUME NEW c \in Calls, MarkArticle(c)
        PROVE  CallsOK'
    <2>1. settled \subseteq settled' /\ \A s \in Sources : row'[s].doc = row[s].doc
      BY <1>19, ArticleFact, RowType DEF MarkArticle, CallsOK, CallOK, At, IsArticle, RowStatuses
    <2> QED
      BY <1>19, <2>1, EndsOK DEF MarkArticle
  <1>20. ASSUME NEW c \in Calls, StatementFails(c)
        PROVE  CallsOK'
    <2>1. settled \subseteq settled' /\ \A s \in Sources : row'[s].doc = row[s].doc
      BY <1>20 DEF StatementFails
    <2>2. ~At(c, "idle") /\ (Ends(c) \/ ~At(c, "done")) /\ D(c) \in Docs
      BY <1>20, AboutDoc DEF StatementFails, At, Moves, Becomes
    <2>3. Ends(c) \/ \E st \in {"fail", "done", "restore", "settle"} : Moves(c, st)
      BY <1>20 DEF StatementFails, AfterFailure
    <2>4. IsArticle(c) /\ call[c].step \notin {"download", "lookup", "create", "link", "fail"} =>
            row[Article(c)].doc = D(c)
      BY ArticleFact
    <2>5. CASE Ends(c)
      BY <2>1, <2>5, EndsOK
    <2>6. CASE ~Ends(c)
      BY <1>20, <2>1, <2>2, <2>3, <2>4, <2>6, MovesOK DEF Steps, At, IsArticle, IsRetry, StatementFails, AfterFailure, CallsOK, CallOK, Article, D
    <2> QED
      BY <2>5, <2>6
  <1>21. ASSUME NEW p \in Processes, Crash(p)
        PROVE  CallsOK'
    <2>1. \A c \in Calls : call'[c] = call[c] \/ call'[c] = Idle
      BY <1>21 DEF Crash
    <2>2. UNCHANGED <<row, settled>>
      BY <1>21 DEF Crash
    <2>3. ASSUME NEW c \in Calls
          PROVE  CallOK(call[c])'
      BY <2>1, <2>2 DEF CallsOK, CallOK, Idle, Outcomes
    <2> QED
      BY <2>3 DEF CallsOK
  <1>22. ASSUME UNCHANGED vars \/ \E s \in Sources : LeaveLookback(s)
        PROVE  CallsOK'
    BY <1>22 DEF vars, LeaveLookback, CallsOK, CallOK
  <1> QED
    BY <1>1, <1>2, <1>3, <1>4, <1>5, <1>6, <1>7, <1>8, <1>9, <1>10, <1>11, <1>12, <1>13, <1>14, <1>15, <1>16, <1>17, <1>18, <1>19, <1>20, <1>21, <1>22 DEF Next, CallStep

LEMMA OutcomesStep ==
  ASSUME TypeOK, CallsOK, OutcomesSettled, [Next]_vars
  PROVE  OutcomesSettled' /\ settled \subseteq settled'
  <1>1. ASSUME NEW c \in Calls, Request(c)
        PROVE  OutcomesSettled' /\ settled \subseteq settled'
    BY <1>1 DEF Request, OutcomesSettled
  <1>2. ASSUME NEW c \in Calls, NEW s \in Sources, TakeArticle(c, s)
        PROVE  OutcomesSettled' /\ settled \subseteq settled'
    BY <1>2 DEF TakeArticle, OutcomesSettled
  <1>3. ASSUME NEW c \in Calls, Download(c)
        PROVE  OutcomesSettled' /\ settled \subseteq settled'
    BY <1>3 DEF Download, OutcomesSettled
  <1>4. ASSUME NEW c \in Calls, Lookup(c)
        PROVE  OutcomesSettled' /\ settled \subseteq settled'
    BY <1>4 DEF Lookup, OutcomesSettled
  <1>5. ASSUME NEW c \in Calls, Create(c)
        PROVE  OutcomesSettled' /\ settled \subseteq settled'
    BY <1>5, AboutDoc, WritesFact DEF Create, At, DocStatuses, OutcomesSettled
  <1>6. ASSUME NEW c \in Calls, Link(c)
        PROVE  OutcomesSettled' /\ settled \subseteq settled'
    BY <1>6 DEF Link, OutcomesSettled
  <1>7. ASSUME NEW c \in Calls, MarkAnalyzing(c)
        PROVE  OutcomesSettled' /\ settled \subseteq settled'
    BY <1>7 DEF MarkAnalyzing, OutcomesSettled
  <1>8. ASSUME NEW c \in Calls, AcquireDocumentAnalysis(c)
        PROVE  OutcomesSettled' /\ settled \subseteq settled'
    BY <1>8 DEF AcquireDocumentAnalysis, OutcomesSettled
  <1>9. ASSUME NEW c \in Calls, CheckRetry(c)
        PROVE  OutcomesSettled' /\ settled \subseteq settled'
    BY <1>9 DEF CheckRetry, OutcomesSettled
  <1>10. ASSUME NEW c \in Calls, ClaimFailedAnalysis(c)
        PROVE  OutcomesSettled' /\ settled \subseteq settled'
    BY <1>10, AboutDoc, WritesFact DEF ClaimFailedAnalysis, At, DocStatuses, OutcomesSettled
  <1>11. ASSUME NEW c \in Calls, BeginDocumentRetry(c)
        PROVE  OutcomesSettled' /\ settled \subseteq settled'
    BY <1>11 DEF BeginDocumentRetry, OutcomesSettled
  <1>12. ASSUME NEW c \in Calls, Parse(c)
        PROVE  OutcomesSettled' /\ settled \subseteq settled'
    BY <1>12, AboutDoc, UpdateFact DEF Parse, At, DocStatuses, OutcomesSettled
  <1>13. ASSUME NEW c \in Calls, AcquireLLM(c)
        PROVE  OutcomesSettled' /\ settled \subseteq settled'
    BY <1>13, AboutDoc, UpdateFact DEF AcquireLLM, At, DocStatuses, OutcomesSettled
  <1>14. ASSUME NEW c \in Calls, Answer(c)
        PROVE  OutcomesSettled' /\ settled \subseteq settled'
    <2>1. \/ UNCHANGED <<doc, settled>>
          \/ \E status \in {"FAILED", "INVALID"} : UpdateAnalysisStatus(c, status)
      BY <1>14 DEF Answer
    <2>2. D(c) \in Docs
      BY <1>14, AboutDoc DEF Answer, At
    <2> QED
      BY <2>1, <2>2, UpdateFact DEF DocStatuses, OutcomesSettled
  <1>15. ASSUME NEW c \in Calls, ReplacePlans(c)
        PROVE  OutcomesSettled' /\ settled \subseteq settled'
    BY <1>15, AboutDoc, UpdateFact DEF ReplacePlans, At, DocStatuses, OutcomesSettled
  <1>16. ASSUME NEW c \in Calls, Planned(c)
        PROVE  OutcomesSettled' /\ settled \subseteq settled'
    BY <1>16, AboutDoc, UpdateFact DEF Planned, At, DocStatuses, OutcomesSettled
  <1>17. ASSUME NEW c \in Calls, FinishDocumentRetry(c)
        PROVE  OutcomesSettled' /\ settled \subseteq settled'
    BY <1>17 DEF FinishDocumentRetry, OutcomesSettled
  <1>18. ASSUME NEW c \in Calls, RestoreFailedAnalysis(c)
        PROVE  OutcomesSettled' /\ settled \subseteq settled'
    BY <1>18 DEF RestoreFailedAnalysis, Restored, OutcomesSettled, TypeOK, Outcomes
  <1>19. ASSUME NEW c \in Calls, MarkArticle(c)
        PROVE  OutcomesSettled' /\ settled \subseteq settled'
    BY <1>19 DEF MarkArticle, OutcomesSettled
  <1>20. ASSUME NEW c \in Calls, StatementFails(c)
        PROVE  OutcomesSettled' /\ settled \subseteq settled'
    BY <1>20 DEF StatementFails, OutcomesSettled
  <1>21. ASSUME NEW p \in Processes, Crash(p)
        PROVE  OutcomesSettled' /\ settled \subseteq settled'
    BY <1>21 DEF Crash, OutcomesSettled
  <1>22. ASSUME UNCHANGED vars \/ \E s \in Sources : LeaveLookback(s)
        PROVE  OutcomesSettled' /\ settled \subseteq settled'
    BY <1>22 DEF vars, LeaveLookback, OutcomesSettled
  <1> QED
    BY <1>1, <1>2, <1>3, <1>4, <1>5, <1>6, <1>7, <1>8, <1>9, <1>10, <1>11, <1>12, <1>13, <1>14, <1>15, <1>16, <1>17, <1>18, <1>19, <1>20, <1>21, <1>22 DEF Next, CallStep

\* Only ReplacePlans changes the tables of the results.
LEMMA TablesStep ==
  ASSUME TypeOK, [Next]_vars
  PROVE  \/ UNCHANGED <<plans, events, committed>>
         \/ \E c \in Calls : ReplacePlans(c) /\ ~Fault
  <1>1. ASSUME NEW c \in Calls, Request(c)
        PROVE  UNCHANGED <<plans, events, committed>> \/ \E e \in Calls : ReplacePlans(e) /\ ~Fault
    BY <1>1 DEF Request, tables
  <1>2. ASSUME NEW c \in Calls, NEW s \in Sources, TakeArticle(c, s)
        PROVE  UNCHANGED <<plans, events, committed>> \/ \E e \in Calls : ReplacePlans(e) /\ ~Fault
    BY <1>2 DEF TakeArticle, tables
  <1>3. ASSUME NEW c \in Calls, Download(c)
        PROVE  UNCHANGED <<plans, events, committed>> \/ \E e \in Calls : ReplacePlans(e) /\ ~Fault
    BY <1>3 DEF Download, tables
  <1>4. ASSUME NEW c \in Calls, Lookup(c)
        PROVE  UNCHANGED <<plans, events, committed>> \/ \E e \in Calls : ReplacePlans(e) /\ ~Fault
    BY <1>4 DEF Lookup, tables
  <1>5. ASSUME NEW c \in Calls, Create(c)
        PROVE  UNCHANGED <<plans, events, committed>> \/ \E e \in Calls : ReplacePlans(e) /\ ~Fault
    BY <1>5 DEF Create, tables
  <1>6. ASSUME NEW c \in Calls, Link(c)
        PROVE  UNCHANGED <<plans, events, committed>> \/ \E e \in Calls : ReplacePlans(e) /\ ~Fault
    BY <1>6 DEF Link, tables
  <1>7. ASSUME NEW c \in Calls, MarkAnalyzing(c)
        PROVE  UNCHANGED <<plans, events, committed>> \/ \E e \in Calls : ReplacePlans(e) /\ ~Fault
    BY <1>7 DEF MarkAnalyzing, tables
  <1>8. ASSUME NEW c \in Calls, AcquireDocumentAnalysis(c)
        PROVE  UNCHANGED <<plans, events, committed>> \/ \E e \in Calls : ReplacePlans(e) /\ ~Fault
    BY <1>8 DEF AcquireDocumentAnalysis, tables
  <1>9. ASSUME NEW c \in Calls, CheckRetry(c)
        PROVE  UNCHANGED <<plans, events, committed>> \/ \E e \in Calls : ReplacePlans(e) /\ ~Fault
    BY <1>9 DEF CheckRetry, tables
  <1>10. ASSUME NEW c \in Calls, ClaimFailedAnalysis(c)
        PROVE  UNCHANGED <<plans, events, committed>> \/ \E e \in Calls : ReplacePlans(e) /\ ~Fault
    BY <1>10 DEF ClaimFailedAnalysis, tables
  <1>11. ASSUME NEW c \in Calls, BeginDocumentRetry(c)
        PROVE  UNCHANGED <<plans, events, committed>> \/ \E e \in Calls : ReplacePlans(e) /\ ~Fault
    BY <1>11 DEF BeginDocumentRetry, tables
  <1>12. ASSUME NEW c \in Calls, Parse(c)
        PROVE  UNCHANGED <<plans, events, committed>> \/ \E e \in Calls : ReplacePlans(e) /\ ~Fault
    BY <1>12 DEF Parse, tables
  <1>13. ASSUME NEW c \in Calls, AcquireLLM(c)
        PROVE  UNCHANGED <<plans, events, committed>> \/ \E e \in Calls : ReplacePlans(e) /\ ~Fault
    BY <1>13 DEF AcquireLLM, tables
  <1>14. ASSUME NEW c \in Calls, Answer(c)
        PROVE  UNCHANGED <<plans, events, committed>> \/ \E e \in Calls : ReplacePlans(e) /\ ~Fault
    BY <1>14 DEF Answer, tables
  <1>15. ASSUME NEW c \in Calls, ReplacePlans(c)
        PROVE  UNCHANGED <<plans, events, committed>> \/ \E e \in Calls : ReplacePlans(e) /\ ~Fault
    <2>1. CASE Fault
      <3>1. faults' # faults
        BY <2>1 DEF Fault, TypeOK
      <3>2. UNCHANGED tables
        BY <1>15, <3>1 DEF ReplacePlans
      <3> QED  BY <3>2 DEF tables
    <2>2. CASE ~Fault
      BY <1>15, <2>2
    <2> QED  BY <2>1, <2>2
  <1>16. ASSUME NEW c \in Calls, Planned(c)
        PROVE  UNCHANGED <<plans, events, committed>> \/ \E e \in Calls : ReplacePlans(e) /\ ~Fault
    BY <1>16 DEF Planned, tables
  <1>17. ASSUME NEW c \in Calls, FinishDocumentRetry(c)
        PROVE  UNCHANGED <<plans, events, committed>> \/ \E e \in Calls : ReplacePlans(e) /\ ~Fault
    BY <1>17 DEF FinishDocumentRetry, tables
  <1>18. ASSUME NEW c \in Calls, RestoreFailedAnalysis(c)
        PROVE  UNCHANGED <<plans, events, committed>> \/ \E e \in Calls : ReplacePlans(e) /\ ~Fault
    BY <1>18 DEF RestoreFailedAnalysis, tables
  <1>19. ASSUME NEW c \in Calls, MarkArticle(c)
        PROVE  UNCHANGED <<plans, events, committed>> \/ \E e \in Calls : ReplacePlans(e) /\ ~Fault
    BY <1>19 DEF MarkArticle, tables
  <1>20. ASSUME NEW c \in Calls, StatementFails(c)
        PROVE  UNCHANGED <<plans, events, committed>> \/ \E e \in Calls : ReplacePlans(e) /\ ~Fault
    BY <1>20 DEF StatementFails, tables
  <1>21. ASSUME NEW p \in Processes, Crash(p)
        PROVE  UNCHANGED <<plans, events, committed>> \/ \E e \in Calls : ReplacePlans(e) /\ ~Fault
    BY <1>21 DEF Crash, tables
  <1>22. ASSUME UNCHANGED vars \/ \E s \in Sources : LeaveLookback(s)
        PROVE  UNCHANGED <<plans, events, committed>> \/ \E e \in Calls : ReplacePlans(e) /\ ~Fault
    BY <1>22 DEF vars, LeaveLookback, tables
  <1> QED
    BY <1>1, <1>2, <1>3, <1>4, <1>5, <1>6, <1>7, <1>8, <1>9, <1>10, <1>11, <1>12, <1>13, <1>14, <1>15, <1>16, <1>17, <1>18, <1>19, <1>20, <1>21, <1>22 DEF Next, CallStep

\* The rule of the replacement: what no plan carries is a sector's.
LEMMA ResultsStep ==
  ASSUME TypeOK, TypeOK', CallsOK, PlansCommitted, NoStaleEvents, [Next]_vars
  PROVE  PlansCommitted' /\ NoStaleEvents'
  <1>1. CASE UNCHANGED <<plans, events, committed>>
    BY <1>1 DEF PlansCommitted, NoStaleEvents
  <1>2. ASSUME NEW c \in Calls, ReplacePlans(c), ~Fault
        PROVE  PlansCommitted' /\ NoStaleEvents'
    <2>1. /\ plans' = [plans EXCEPT ![D(c)] = {k \in call[c].keys : ~IsSector(k)}]
          /\ events' = [k \in Keys |-> Upserted(k, D(c), call[c].keys)]
          /\ committed' = [committed EXCEPT ![D(c)] = call[c].keys]
          /\ D(c) \in Docs
      BY <1>2, AboutDoc DEF ReplacePlans, At
    <2>2. PlansCommitted'
      BY <2>1 DEF PlansCommitted, TypeOK
    <2>3. ASSUME NEW k \in Keys, events'[k] # NoDoc
          PROVE  k \in committed'[events'[k]]
      <3>1. events'[k] = Upserted(k, D(c), call[c].keys)
        BY <2>1
      <3>2. CASE k \in call[c].keys /\ events'[k] = D(c)
        BY <2>1, <3>2 DEF TypeOK
      <3>3. CASE ~(k \in call[c].keys /\ events'[k] = D(c))
        <4>1. k \notin Replaced(D(c)) /\ events'[k] = events[k]
          BY <2>3, <3>1, <3>3 DEF Upserted
        <4>2. events[k] \in Docs /\ k \in committed[events[k]]
          BY <2>3, <4>1 DEF TypeOK, NoStaleEvents
        <4>3. events[k] # D(c)
          BY <2>1, <4>1, <4>2 DEF Replaced, PlanEvents, DirectSectorEvents, PlansCommitted
        <4> QED
          BY <2>1, <4>1, <4>2, <4>3 DEF TypeOK
      <3> QED
        BY <3>2, <3>3
    <2> QED
      BY <2>2, <2>3 DEF NoStaleEvents
  <1> QED
    BY <1>1, <1>2, TablesStep

LEMMA RowsKept ==
  ASSUME SucceededHasOutcome, settled \subseteq settled',
         \A s \in Sources : row'[s].doc = row[s].doc,
         \A s \in Sources : row'[s].status = "SUCCEEDED" =>
                              row[s].status = "SUCCEEDED" \/ row[s].doc \in settled
  PROVE  SucceededHasOutcome'
  BY DEF SucceededHasOutcome

LEMMA SucceededStep ==
  ASSUME TypeOK, CallsOK, OutcomesSettled, SucceededHasOutcome, [Next]_vars
  PROVE  SucceededHasOutcome'
  <1>1. ASSUME NEW c \in Calls, Request(c)
        PROVE  SucceededHasOutcome'
    BY <1>1, OutcomesStep, RowsKept DEF Request
  <1>2. ASSUME NEW c \in Calls, NEW s \in Sources, TakeArticle(c, s)
        PROVE  SucceededHasOutcome'
    <2>1. \A e \in Sources : row'[e].doc = row[e].doc
                         /\ (row'[e].status = "SUCCEEDED" => row[e].status = "SUCCEEDED")
      BY <1>2, RowType DEF TakeArticle, SetRow, RowStatuses
    <2> QED
      BY <2>1, OutcomesStep, RowsKept
  <1>3. ASSUME NEW c \in Calls, Download(c)
        PROVE  SucceededHasOutcome'
    BY <1>3, OutcomesStep, RowsKept, RowType, ArticleFact DEF Download, RowStatuses, At, CallsOK, CallOK, IsArticle
  <1>4. ASSUME NEW c \in Calls, Lookup(c)
        PROVE  SucceededHasOutcome'
    BY <1>4, OutcomesStep, RowsKept DEF Lookup
  <1>5. ASSUME NEW c \in Calls, Create(c)
        PROVE  SucceededHasOutcome'
    BY <1>5, OutcomesStep, RowsKept DEF Create
  <1>6. ASSUME NEW c \in Calls, Link(c)
        PROVE  SucceededHasOutcome'
    <2>1. /\ Article(c) \in Sources
          /\ row' = [row EXCEPT ![Article(c)] = [status |-> "INGESTED", doc |-> D(c)]]
      BY <1>6, ArticleFact DEF Link, At, CallsOK, CallOK, IsArticle
    <2>2. row'[Article(c)].status # "SUCCEEDED" /\ \A s \in Sources \ {Article(c)} : row'[s] = row[s]
      BY <2>1 DEF TypeOK
    <2> QED
      BY <2>2, OutcomesStep DEF SucceededHasOutcome
  <1>7. ASSUME NEW c \in Calls, MarkAnalyzing(c)
        PROVE  SucceededHasOutcome'
    BY <1>7, OutcomesStep, RowsKept, RowType, ArticleFact DEF MarkAnalyzing, RowStatuses, At, CallsOK, CallOK, IsArticle
  <1>8. ASSUME NEW c \in Calls, AcquireDocumentAnalysis(c)
        PROVE  SucceededHasOutcome'
    BY <1>8, OutcomesStep, RowsKept DEF AcquireDocumentAnalysis
  <1>9. ASSUME NEW c \in Calls, CheckRetry(c)
        PROVE  SucceededHasOutcome'
    BY <1>9, OutcomesStep, RowsKept DEF CheckRetry
  <1>10. ASSUME NEW c \in Calls, ClaimFailedAnalysis(c)
        PROVE  SucceededHasOutcome'
    BY <1>10, OutcomesStep, RowsKept DEF ClaimFailedAnalysis
  <1>11. ASSUME NEW c \in Calls, BeginDocumentRetry(c)
        PROVE  SucceededHasOutcome'
    BY <1>11, OutcomesStep, RowsKept, RowsOfType, AboutDoc DEF BeginDocumentRetry, At, RowStatuses
  <1>12. ASSUME NEW c \in Calls, Parse(c)
        PROVE  SucceededHasOutcome'
    BY <1>12, OutcomesStep, RowsKept DEF Parse
  <1>13. ASSUME NEW c \in Calls, AcquireLLM(c)
        PROVE  SucceededHasOutcome'
    BY <1>13, OutcomesStep, RowsKept DEF AcquireLLM
  <1>14. ASSUME NEW c \in Calls, Answer(c)
        PROVE  SucceededHasOutcome'
    BY <1>14, OutcomesStep, RowsKept DEF Answer
  <1>15. ASSUME NEW c \in Calls, ReplacePlans(c)
        PROVE  SucceededHasOutcome'
    BY <1>15, OutcomesStep, RowsKept DEF ReplacePlans
  <1>16. ASSUME NEW c \in Calls, Planned(c)
        PROVE  SucceededHasOutcome'
    BY <1>16, OutcomesStep, RowsKept DEF Planned
  <1>17. ASSUME NEW c \in Calls, FinishDocumentRetry(c)
        PROVE  SucceededHasOutcome'
    <2>1. D(c) \in Docs /\ (doc[D(c)] \in Outcomes => D(c) \in settled)
      BY <1>17, AboutDoc DEF FinishDocumentRetry, At, OutcomesSettled
    <2> QED
      BY <1>17, <2>1, OutcomesStep, RowsKept, RowsOfType DEF FinishDocumentRetry, RowStatuses
  <1>18. ASSUME NEW c \in Calls, RestoreFailedAnalysis(c)
        PROVE  SucceededHasOutcome'
    BY <1>18, OutcomesStep, RowsKept DEF RestoreFailedAnalysis
  <1>19. ASSUME NEW c \in Calls, MarkArticle(c)
        PROVE  SucceededHasOutcome'
    <2>1. /\ Article(c) \in Sources
          /\ D(c) \in Docs
          /\ At(c, "done") => row[Article(c)].doc = D(c)
          /\ call[c].ok => At(c, "done") /\ D(c) \in settled
      BY <1>19, ArticleFact, AboutDoc DEF MarkArticle, At, CallsOK, CallOK, IsArticle, D, Article
    <2>2. ArticleSucceeded(c) => row[Article(c)].doc \in settled
      BY <2>1 DEF ArticleSucceeded, OutcomesSettled, Outcomes
    <2> QED
      BY <1>19, <2>1, <2>2, OutcomesStep, RowsKept, RowType DEF MarkArticle, RowStatuses
  <1>20. ASSUME NEW c \in Calls, StatementFails(c)
        PROVE  SucceededHasOutcome'
    BY <1>20, OutcomesStep, RowsKept DEF StatementFails
  <1>21. ASSUME NEW p \in Processes, Crash(p)
        PROVE  SucceededHasOutcome'
    BY <1>21, OutcomesStep, RowsKept DEF Crash
  <1>22. ASSUME UNCHANGED vars \/ \E s \in Sources : LeaveLookback(s)
        PROVE  SucceededHasOutcome'
    BY <1>22, OutcomesStep, RowsKept DEF vars, LeaveLookback
  <1> QED
    BY <1>1, <1>2, <1>3, <1>4, <1>5, <1>6, <1>7, <1>8, <1>9, <1>10, <1>11, <1>12, <1>13, <1>14, <1>15, <1>16, <1>17, <1>18, <1>19, <1>20, <1>21, <1>22 DEF Next, CallStep

\* A document's analysis goes on as long as its call does.
LEMMA Witness ==
  ASSUME TypeOK, NothingHalfDone, NEW c \in Calls, NEW new \in CallRecords, Becomes(c, new),
         new.doc = D(c), new.step \in Analysing \union {"begin"},
         faults' = 0 => faults = 0,
         \A d \in Docs : d # D(c) => doc'[d] = doc[d]
  PROVE  NothingHalfDone'
  <1>1. call'[c] = new /\ \A e \in Calls \ {c} : call'[e] = call[e]
    BY BecomesType DEF TypeOK
  <1>2. ASSUME NEW d \in Docs, doc'[d] \in {"ANALYZING", "PARSED"}, faults' = 0
        PROVE  \E e \in Calls : call'[e].doc = d /\ call'[e].step \in Analysing \union {"begin"}
    <2>1. CASE d = D(c)
      BY <1>1, <2>1
    <2>2. CASE d # D(c)
      <3>1. PICK e \in Calls : D(e) = d /\ call[e].step \in Analysing \union {"begin"}
        BY <1>2, <2>2 DEF NothingHalfDone
      <3>2. e # c
        BY <2>2, <3>1
      <3> QED
        BY <1>1, <3>1, <3>2 DEF D
    <2> QED
      BY <2>1, <2>2
  <1> QED
    BY <1>2 DEF NothingHalfDone, D

LEMMA WitnessMoves ==
  ASSUME TypeOK, NothingHalfDone, NEW c \in Calls,
         NEW st \in Analysing \union {"begin"}, Moves(c, st),
         faults' = 0 => faults = 0,
         \A d \in Docs : d # D(c) => doc'[d] = doc[d]
  PROVE  NothingHalfDone'
  <1>1. call[c] \in CallRecords /\ st \in Steps
    BY DEF TypeOK, Analysing, Steps
  <1>2. /\ [call[c] EXCEPT !.step = st] \in CallRecords
        /\ [call[c] EXCEPT !.step = st].doc = D(c)
        /\ [call[c] EXCEPT !.step = st].step = st
    BY <1>1, StepType DEF CallRecords, D
  <1> QED
    BY <1>2, Witness DEF Moves

\* A call that was not analysing, or leaves a document that is settled or failed.
LEMMA Leaves ==
  ASSUME NothingHalfDone, NEW c \in Calls,
         \A e \in Calls \ {c} : call'[e] = call[e],
         faults' = 0 => faults = 0,
         \A d \in Docs : doc'[d] \in {"ANALYZING", "PARSED"} => doc'[d] = doc[d],
         \/ call[c].step \notin Analysing \union {"begin"}
         \/ doc'[D(c)] \notin {"ANALYZING", "PARSED"}
  PROVE  NothingHalfDone'
  <1>1. ASSUME NEW d \in Docs, doc'[d] \in {"ANALYZING", "PARSED"}, faults' = 0
        PROVE  \E e \in Calls : call'[e].doc = d /\ call'[e].step \in Analysing \union {"begin"}
    <2>1. PICK e \in Calls : D(e) = d /\ call[e].step \in Analysing \union {"begin"}
      BY <1>1 DEF NothingHalfDone
    <2> QED
      BY <1>1, <2>1 DEF D
  <1> QED
    BY <1>1 DEF NothingHalfDone, D

\* At most one call moves in a step of a call.
LEMMA OneMoves ==
  ASSUME TypeOK, NEW c \in Calls, NEW new, Becomes(c, new)
  PROVE  \A e \in Calls \ {c} : call'[e] = call[e]
  BY DEF TypeOK, Becomes

LEMMA HalfDoneStep ==
  ASSUME TypeOK, CallsOK, OutcomesSettled, NothingHalfDone, [Next]_vars
  PROVE  NothingHalfDone'
  <1>1. ASSUME NEW c \in Calls, Request(c)
        PROVE  NothingHalfDone'
    <2>1. \E new : Becomes(c, new)
      BY <1>1 DEF Request, Starts, Moves, Ends
    <2>2. UNCHANGED <<doc, faults>> /\ call[c].step \notin Analysing \union {"begin"}
      BY <1>1 DEF Request, Starts, At, Analysing
    <2> QED
      BY <2>1, <2>2, OneMoves, Leaves
  <1>2. ASSUME NEW c \in Calls, NEW s \in Sources, TakeArticle(c, s)
        PROVE  NothingHalfDone'
    <2>1. \E new : Becomes(c, new)
      BY <1>2 DEF TakeArticle, Starts, Moves, Ends
    <2>2. UNCHANGED <<doc, faults>> /\ call[c].step \notin Analysing \union {"begin"}
      BY <1>2 DEF TakeArticle, Starts, At, Analysing
    <2> QED
      BY <2>1, <2>2, OneMoves, Leaves
  <1>3. ASSUME NEW c \in Calls, Download(c)
        PROVE  NothingHalfDone'
    <2>1. \E new : Becomes(c, new)
      BY <1>3 DEF Download, Starts, Moves, Ends
    <2>2. UNCHANGED <<doc, faults>> /\ call[c].step \notin Analysing \union {"begin"}
      BY <1>3 DEF Download, Starts, At, Analysing
    <2> QED
      BY <2>1, <2>2, OneMoves, Leaves
  <1>4. ASSUME NEW c \in Calls, Lookup(c)
        PROVE  NothingHalfDone'
    <2>1. \E new : Becomes(c, new)
      BY <1>4 DEF Lookup, Starts, Moves, Ends
    <2>2. UNCHANGED <<doc, faults>> /\ call[c].step \notin Analysing \union {"begin"}
      BY <1>4 DEF Lookup, Starts, At, Analysing
    <2> QED
      BY <2>1, <2>2, OneMoves, Leaves
  <1>5. ASSUME NEW c \in Calls, Create(c)
        PROVE  NothingHalfDone'
    <2>1. \E new : Becomes(c, new)
      BY <1>5 DEF Create, Moves, Ends
    <2>2. UNCHANGED faults /\ call[c].step \notin Analysing \union {"begin"} /\ D(c) \in Docs
      BY <1>5, AboutDoc DEF Create, At, Analysing
    <2>3. \A d \in Docs : doc'[d] \in {"ANALYZING", "PARSED"} => doc'[d] = doc[d]
      BY <1>5, <2>2, WritesFact DEF Create, DocStatuses
    <2> QED
      BY <2>1, <2>2, <2>3, OneMoves, Leaves
  <1>6. ASSUME NEW c \in Calls, Link(c)
        PROVE  NothingHalfDone'
    <2>1. \E new : Becomes(c, new)
      BY <1>6 DEF Link, Starts, Moves, Ends
    <2>2. UNCHANGED <<doc, faults>> /\ call[c].step \notin Analysing \union {"begin"}
      BY <1>6 DEF Link, Starts, At, Analysing
    <2> QED
      BY <2>1, <2>2, OneMoves, Leaves
  <1>7. ASSUME NEW c \in Calls, MarkAnalyzing(c)
        PROVE  NothingHalfDone'
    <2>1. \E new : Becomes(c, new)
      BY <1>7 DEF MarkAnalyzing, Starts, Moves, Ends
    <2>2. UNCHANGED <<doc, faults>> /\ call[c].step \notin Analysing \union {"begin"}
      BY <1>7 DEF MarkAnalyzing, Starts, At, Analysing
    <2> QED
      BY <2>1, <2>2, OneMoves, Leaves
  <1>8. ASSUME NEW c \in Calls, AcquireDocumentAnalysis(c)
        PROVE  NothingHalfDone'
    <2>1. \E new : Becomes(c, new)
      BY <1>8 DEF AcquireDocumentAnalysis, Moves, Ends
    <2>2. UNCHANGED <<doc, faults>> /\ call[c].step \notin Analysing \union {"begin"}
      BY <1>8 DEF AcquireDocumentAnalysis, At, Analysing
    <2> QED
      BY <2>1, <2>2, OneMoves, Leaves
  <1>9. ASSUME NEW c \in Calls, CheckRetry(c)
        PROVE  NothingHalfDone'
    <2>1. \E new : Becomes(c, new)
      BY <1>9 DEF CheckRetry, Starts, Moves, Ends
    <2>2. UNCHANGED <<doc, faults>> /\ call[c].step \notin Analysing \union {"begin"}
      BY <1>9 DEF CheckRetry, Starts, At, Analysing
    <2> QED
      BY <2>1, <2>2, OneMoves, Leaves
  <1>10. ASSUME NEW c \in Calls, ClaimFailedAnalysis(c)
        PROVE  NothingHalfDone'
    <2>1. D(c) \in Docs /\ UNCHANGED faults /\ call[c] \in CallRecords /\ At(c, "claim")
      BY <1>10, AboutDoc DEF ClaimFailedAnalysis, At, TypeOK
    <2>2. CASE ~Claimable(D(c))
      <3>1. Becomes(c, Idle) /\ UNCHANGED doc
        BY <1>10, <2>2 DEF ClaimFailedAnalysis, Ends
      <3>2. call[c].step \notin Analysing \union {"begin"}
        BY <2>1 DEF At, Analysing
      <3> QED
        BY <2>1, <3>1, <3>2, OneMoves, Leaves
    <2>3. CASE Claimable(D(c))
      <3> DEFINE new == [call[c] EXCEPT !.step = "begin", !.found = "NONE"]
      <3>1. Becomes(c, new) /\ Writes(D(c), "ANALYZING")
        BY <1>10, <2>3 DEF ClaimFailedAnalysis
      <3>2. /\ new \in CallRecords
            /\ new.doc = D(c) /\ new.step = "begin"
        <4>1. new \in CallRecords
          BY <2>1, FoundType DEF Steps, DocStatuses
        <4>2. new.doc = D(c) /\ new.step = "begin"
          BY <2>1 DEF CallRecords, D
        <4> QED
          BY <4>1, <4>2
      <3>3. \A d \in Docs : d # D(c) => doc'[d] = doc[d]
        BY <2>1, <3>1, WritesFact DEF DocStatuses
      <3> HIDE DEF new
      <3> QED
        BY <2>1, <3>1, <3>2, <3>3, Witness
    <2> QED
      BY <2>2, <2>3
  <1>11. ASSUME NEW c \in Calls, BeginDocumentRetry(c)
        PROVE  NothingHalfDone'
    <2>1. \E st \in {"parse"} : Moves(c, st)
      BY <1>11 DEF BeginDocumentRetry, AfterFailure
    <2>2. faults' = 0 => faults = 0
      BY <1>11 DEF BeginDocumentRetry, Fault, TypeOK
    <2>3. \A d \in Docs : d # D(c) => doc'[d] = doc[d]
      BY <1>11, AboutDoc, UpdateFact DEF BeginDocumentRetry, At, DocStatuses
    <2> QED
      BY <2>1, <2>2, <2>3, WitnessMoves DEF Analysing
  <1>12. ASSUME NEW c \in Calls, Parse(c)
        PROVE  NothingHalfDone'
    <2>1. \E st \in {"llm", "settle", "restore"} : Moves(c, st)
      BY <1>12 DEF Parse, AfterFailure
    <2>2. faults' = 0 => faults = 0
      BY <1>12 DEF Parse, Fault, TypeOK
    <2>3. \A d \in Docs : d # D(c) => doc'[d] = doc[d]
      BY <1>12, AboutDoc, UpdateFact DEF Parse, At, DocStatuses
    <2> QED
      BY <2>1, <2>2, <2>3, WitnessMoves DEF Analysing
  <1>13. ASSUME NEW c \in Calls, AcquireLLM(c)
        PROVE  NothingHalfDone'
    <2>1. \E st \in {"model", "settle", "restore"} : Moves(c, st)
      BY <1>13 DEF AcquireLLM, AfterFailure
    <2>2. faults' = 0 => faults = 0
      BY <1>13 DEF AcquireLLM, Fault, TypeOK
    <2>3. \A d \in Docs : d # D(c) => doc'[d] = doc[d]
      BY <1>13, AboutDoc, UpdateFact DEF AcquireLLM, At, DocStatuses
    <2> QED
      BY <2>1, <2>2, <2>3, WitnessMoves DEF Analysing
  <1>14. ASSUME NEW c \in Calls, Answer(c)
        PROVE  NothingHalfDone'
    <2>1. D(c) \in Docs /\ UNCHANGED faults /\ call[c] \in CallRecords /\ At(c, "model")
      BY <1>14, AboutDoc DEF Answer, At, TypeOK
    <2>2. \A d \in Docs : d # D(c) => doc'[d] = doc[d]
      <3>1. \/ UNCHANGED <<doc, settled>>
            \/ \E status \in {"FAILED", "INVALID"} : UpdateAnalysisStatus(c, status)
        BY <1>14 DEF Answer
      <3> QED
        BY <2>1, <3>1, UpdateFact DEF DocStatuses
    <2>3. CASE \E st \in {"settle", "restore"} : Moves(c, st)
      BY <2>1, <2>2, <2>3, WitnessMoves DEF Analysing
    <2>4. CASE \E found \in Answers :
                 Becomes(c, [call[c] EXCEPT !.step = "persist", !.keys = found \X {call[c].date}])
      <3>1. PICK found \in Answers :
                 Becomes(c, [call[c] EXCEPT !.step = "persist", !.keys = found \X {call[c].date}])
        BY <2>4
      <3> DEFINE new == [call[c] EXCEPT !.step = "persist", !.keys = found \X {call[c].date}]
      <3>2. call[c].date \in Dates
        BY <2>1 DEF CallsOK, CallOK, At
      <3>3. found \X {call[c].date} \in SUBSET Keys
        BY <3>2 DEF Keys
      <3>4. new \in CallRecords
        BY <2>1, <3>3, KeysType
      <3>5. new.doc = D(c) /\ new.step = "persist"
        BY <2>1 DEF CallRecords, D
      <3>6. Becomes(c, new)
        BY <3>1
      <3> HIDE DEF new
      <3> QED
        BY <2>1, <2>2, <3>4, <3>5, <3>6, Witness DEF Analysing
    <2> QED
      BY <1>14, <2>3, <2>4 DEF Answer, AfterFailure
  <1>15. ASSUME NEW c \in Calls, ReplacePlans(c)
        PROVE  NothingHalfDone'
    <2>1. \E st \in {"planned", "settle", "restore"} : Moves(c, st)
      BY <1>15 DEF ReplacePlans, AfterFailure
    <2>2. faults' = 0 => faults = 0
      BY <1>15 DEF ReplacePlans, Fault, TypeOK
    <2>3. \A d \in Docs : d # D(c) => doc'[d] = doc[d]
      BY <1>15, AboutDoc, UpdateFact DEF ReplacePlans, At, DocStatuses
    <2> QED
      BY <2>1, <2>2, <2>3, WitnessMoves DEF Analysing
  <1>16. ASSUME NEW c \in Calls, Planned(c)
        PROVE  NothingHalfDone'
    <2>1. D(c) \in Docs /\ UNCHANGED faults /\ UpdateAnalysisStatus(c, "PLANNED")
      BY <1>16, AboutDoc DEF Planned, At
    <2>2. doc'[D(c)] = "PLANNED" /\ \A d \in Docs : d # D(c) => doc'[d] = doc[d]
      BY <2>1, UpdateFact DEF UpdateAnalysisStatus, Writes, DocStatuses, TypeOK
    <2>3. \E new : Becomes(c, new)
      BY <1>16 DEF Planned, Moves, Ends
    <2> QED
      BY <2>1, <2>2, <2>3, OneMoves, Leaves
  <1>17. ASSUME NEW c \in Calls, FinishDocumentRetry(c)
        PROVE  NothingHalfDone'
    <2>1. \E st \in {"restore"} : Moves(c, st)
      BY <1>17 DEF FinishDocumentRetry, AfterFailure
    <2>2. faults' = 0 => faults = 0
      BY <1>17 DEF FinishDocumentRetry, Fault, TypeOK
    <2>3. \A d \in Docs : d # D(c) => doc'[d] = doc[d]
      BY <1>17, AboutDoc, UpdateFact DEF FinishDocumentRetry, At, DocStatuses
    <2> QED
      BY <2>1, <2>2, <2>3, WitnessMoves DEF Analysing
  <1>18. ASSUME NEW c \in Calls, RestoreFailedAnalysis(c)
        PROVE  NothingHalfDone'
    <2>1. D(c) \in Docs /\ UNCHANGED faults
      BY <1>18, AboutDoc DEF RestoreFailedAnalysis, At
    <2>2. /\ doc'[D(c)] \notin {"ANALYZING", "PARSED"}
          /\ \A d \in Docs : doc'[d] \in {"ANALYZING", "PARSED"} => doc'[d] = doc[d]
      BY <1>18, <2>1 DEF RestoreFailedAnalysis, Restored, TypeOK
    <2>3. \E new : Becomes(c, new)
      BY <1>18 DEF RestoreFailedAnalysis, Moves, Ends
    <2> QED
      BY <2>1, <2>2, <2>3, OneMoves, Leaves
  <1>19. ASSUME NEW c \in Calls, MarkArticle(c)
        PROVE  NothingHalfDone'
    <2>1. \E new : Becomes(c, new)
      BY <1>19 DEF MarkArticle, Starts, Moves, Ends
    <2>2. UNCHANGED <<doc, faults>> /\ call[c].step \notin Analysing \union {"begin"}
      BY <1>19 DEF MarkArticle, Starts, At, Analysing
    <2> QED
      BY <2>1, <2>2, OneMoves, Leaves
  <1>20. ASSUME NEW c \in Calls, StatementFails(c)
        PROVE  NothingHalfDone'
    BY <1>20 DEF StatementFails, Fault, TypeOK, NothingHalfDone
  <1>21. ASSUME NEW p \in Processes, Crash(p)
        PROVE  NothingHalfDone'
    BY <1>21 DEF Crash, Fault, TypeOK, NothingHalfDone
  <1>22. ASSUME UNCHANGED vars \/ \E s \in Sources : LeaveLookback(s)
        PROVE  NothingHalfDone'
    BY <1>22 DEF vars, LeaveLookback, NothingHalfDone, D
  <1> QED
    BY <1>1, <1>2, <1>3, <1>4, <1>5, <1>6, <1>7, <1>8, <1>9, <1>10, <1>11, <1>12, <1>13, <1>14, <1>15, <1>16, <1>17, <1>18, <1>19, <1>20, <1>21, <1>22 DEF Next, CallStep

LEMMA InitInvariant == Init => IndInv
  <1> SUFFICES ASSUME Init
               PROVE  IndInv
    OBVIOUS
  <1>1. TypeOK
    BY IdleType DEF Init, TypeOK, DocStatuses, RowStatuses, RowRecords, DateOrNone
  <1>2. \A c \in Calls : CallOK(call[c])
    BY DEF Init, CallOK, Idle, Outcomes
  <1>3. OutcomesSettled /\ PlansCommitted /\ NoStaleEvents /\ SucceededHasOutcome
        /\ NothingHalfDone
    BY DEF Init, OutcomesSettled, Outcomes, PlansCommitted, NoStaleEvents, SucceededHasOutcome,
           NothingHalfDone
  <1> QED
    BY <1>1, <1>2, <1>3 DEF IndInv, CallsOK

\* Everything the runs check of every reachable state, for any number of processes,
\* calls, documents and articles: the types, what each call knows of its document and
\* its article, and the four properties below.
THEOREM DocumentsInvariance == Spec => []IndInv
  <1>1. IndInv /\ [Next]_vars => IndInv'
    BY TypeStep, CallsStep, OutcomesStep, ResultsStep, SucceededStep, HalfDoneStep DEF IndInv
  <1> QED
    BY InitInvariant, <1>1, PTL DEF Spec

\* ReplacePlansWithAnalysis leaves no event of an earlier analysis, whoever runs it.
THEOREM ResultsFollowAnalysis == Spec => []NoStaleEvents
  <1>1. IndInv => NoStaleEvents
    BY DEF IndInv
  <1> QED
    BY DocumentsInvariance, <1>1, PTL

\* An article that the daily batch will skip from now on has an outcome.
THEOREM SucceededArticlesHaveOutcome == Spec => []SucceededHasOutcome
  <1>1. IndInv => SucceededHasOutcome
    BY DEF IndInv
  <1> QED
    BY DocumentsInvariance, <1>1, PTL

\* Without a fault no call leaves a document half analysed.
THEOREM NothingIsLeftHalfDone == Spec => []NothingHalfDone
  <1>1. IndInv => NothingHalfDone
    BY DEF IndInv
  <1> QED
    BY DocumentsInvariance, <1>1, PTL

-----------------------------------------------------------------------------
(* The lock of a process and the retries behind it.                        *)

\* The steps a call takes with the lock of its document.
Locked == Analysing \union {"begin", "claim"}

\* A retry between the look that found no success and the commit of its own.
Fresh(r) ==
  /\ r.kind = "RETRY"
  /\ \/ r.step \in {"begin", "parse", "llm", "model", "persist"}
     \/ r.step = "claim" /\ r.found # "NONE"

LocksHeld == \A c \in Calls : call[c].step \in Locked => D(c) \in active[home[c]]

LocksExclude ==
  \A c, e \in Calls :
    c # e /\ call[c].step \in Locked /\ call[e].step \in Locked /\ home[c] = home[e]
      => D(c) # D(e)

\* The run of a document knows whether an analysis has ever been committed.
SuccessKnown == \A d \in Docs : ~run[d].succeeded => committed[d] = {}

RetriesFresh == OneProcess => \A c \in Calls : Fresh(call[c]) => ~run[D(c)].succeeded

LockInv == LocksHeld /\ LocksExclude /\ SuccessKnown /\ RetriesFresh

\* What a step of a call does to its lock: takes it, keeps it, lets it go, or nothing.
Stays(c) == \A e \in Calls \ {c} : call'[e] = call[e]

Takes(c) ==
  /\ call[c].step = "lock" /\ D(c) \notin active[home[c]]
  /\ call'[c].doc = D(c) /\ ~Fresh(call'[c])
  /\ active' = [active EXCEPT ![home[c]] = @ \union {D(c)}]

Keeps(c) ==
  /\ call[c].step \in Locked /\ call'[c].doc = D(c) /\ UNCHANGED active
  /\ Fresh(call'[c]) => Fresh(call[c]) \/ ~run[D(c)].succeeded

Frees(c) == call[c].step \in Locked /\ call'[c].step \notin Locked /\ Unlocks(c)

Outside(c) == call'[c].step \notin Locked /\ call[c].step \notin Locked /\ UNCHANGED active

Handles(c) == Stays(c) /\ (Takes(c) \/ Keeps(c) \/ Frees(c) \/ Outside(c))

LEMMA MoveFact ==
  ASSUME TypeOK, NEW c \in Calls, NEW st, Moves(c, st)
  PROVE  /\ Stays(c)
         /\ call'[c].step = st /\ call'[c].doc = D(c) /\ call'[c].kind = call[c].kind
         /\ call'[c].found = call[c].found
  BY DEF TypeOK, CallRecords, Moves, Becomes, Stays, D

LEMMA EndFact ==
  ASSUME TypeOK, NEW c \in Calls, Ends(c)
  PROVE  Stays(c) /\ call'[c].step = "idle" /\ call'[c].step \notin Locked
  BY DEF TypeOK, Ends, Becomes, Stays, Idle, Locked, Analysing

\* A call without the lock goes somewhere it needs none.
LEMMA OutsideFact ==
  ASSUME TypeOK, NEW c \in Calls, call[c].step \notin Locked, UNCHANGED active,
         NEW st \in Steps \ Locked, Moves(c, st) \/ Ends(c)
  PROVE  Handles(c)
  BY MoveFact, EndFact DEF Handles, Outside

\* A call with the lock goes on with it, and is not a retry before its commit, or was.
LEMMA KeepsFact ==
  ASSUME TypeOK, NEW c \in Calls, call[c].step \in Locked, UNCHANGED active,
         NEW st \in Locked, Moves(c, st),
         \/ st \in {"planned", "settle", "restore"}
         \/ st \in {"begin", "parse", "llm", "model", "persist"} /\ call[c].step # "claim"
              /\ call[c].step \in {"begin", "parse", "llm", "model", "persist"}
  PROVE  Handles(c)
  BY MoveFact DEF Handles, Keeps, Fresh

LEMMA FreesFact ==
  ASSUME TypeOK, NEW c \in Calls, call[c].step \in Locked, Unlocks(c),
         Ends(c) \/ Moves(c, "done")
  PROVE  Handles(c)
  BY MoveFact, EndFact DEF Handles, Frees, Locked, Analysing

LEMMA StepSets ==
  /\ Locked = {"parse", "llm", "model", "persist", "planned", "settle", "restore", "begin",
               "claim"}
  /\ {"idle", "download", "lookup", "create", "link", "mark", "lock", "done", "fail"}
       \subseteq Steps \ Locked
  BY DEF Locked, Analysing, Steps

\* Before its lock.
LEMMA EarlyHandles ==
  ASSUME TypeOK, CallsOK, NEW c \in Calls,
         \/ Request(c) \/ \E s \in Sources : TakeArticle(c, s)
         \/ Download(c) \/ Lookup(c) \/ Create(c) \/ Link(c) \/ MarkAnalyzing(c)
         \/ AcquireDocumentAnalysis(c) \/ MarkArticle(c)
  PROVE  Handles(c)
  <1>0. call[c] \in CallRecords /\ call \in [Calls -> CallRecords]
    BY DEF TypeOK
  <1>1. ASSUME NEW kind, NEW d, NEW source, NEW date,
               NEW st \in {"download", "lookup", "lock"},
               Starts(c, kind, d, source, date, st), UNCHANGED active
        PROVE  Handles(c)
    <2>1. [Idle EXCEPT !.kind = kind, !.step = st, !.doc = d, !.source = source,
                       !.date = date].step = st
      BY DEF Idle
    <2>2. /\ call[c].step = "idle" /\ Stays(c) /\ call'[c].step = st
      BY <1>0, <1>1, <2>1 DEF Starts, Becomes, Stays, At
    <2> QED
      BY <1>1, <2>2, StepSets DEF Handles, Outside
  <1>2. CASE Request(c)
    BY <1>1, <1>2 DEF Request, locks
  <1>3. CASE \E s \in Sources : TakeArticle(c, s)
    BY <1>1, <1>3 DEF TakeArticle, locks
  <1>4. CASE Download(c)
    BY <1>4, OutsideFact, StepSets DEF Download, At, locks
  <1>5. CASE Lookup(c)
    <2>1. PICK next \in {"create", "link", "lock", "idle"} :
            IF next = "idle" THEN Ends(c)
            ELSE Becomes(c, [call[c] EXCEPT
                   !.step = next, !.found = IF next = "link" THEN doc[D(c)] ELSE "NONE"])
      BY <1>5 DEF Lookup
    <2>2. call[c].step = "lookup" /\ UNCHANGED active
      BY <1>5 DEF Lookup, At, locks
    <2>3. CASE next = "idle"
      BY <2>1, <2>2, <2>3, OutsideFact, StepSets
    <2>4. CASE next # "idle"
      <3>1. Becomes(c, [call[c] EXCEPT
              !.step = next, !.found = IF next = "link" THEN doc[D(c)] ELSE "NONE"])
        BY <2>1, <2>4
      <3>2. [call[c] EXCEPT !.step = next,
                            !.found = IF next = "link" THEN doc[D(c)] ELSE "NONE"].step = next
        BY <1>0 DEF CallRecords
      <3>3. Stays(c) /\ call'[c].step = next
        BY <1>0, <3>1, <3>2 DEF Becomes, Stays
      <3> QED
        BY <2>1, <2>2, <3>3, StepSets DEF Handles, Outside
    <2> QED
      BY <2>3, <2>4
  <1>6. CASE Create(c)
    <2>1. call[c].step = "create" /\ UNCHANGED active
          /\ \/ Moves(c, "link") \/ Moves(c, "lock") \/ Moves(c, "fail") \/ Ends(c)
      BY <1>6 DEF Create, At, locks
    <2> QED
      BY <2>1, OutsideFact, StepSets
  <1>7. CASE Link(c)
    <2>1. call[c].step = "link" /\ UNCHANGED active
          /\ \/ Becomes(c, [call[c] EXCEPT !.step = "done", !.ok = TRUE])
             \/ Becomes(c, [call[c] EXCEPT !.step = "mark", !.found = "NONE"])
      BY <1>7 DEF Link, At, locks
    <2>2. /\ [call[c] EXCEPT !.step = "done", !.ok = TRUE].step = "done"
          /\ [call[c] EXCEPT !.step = "mark", !.found = "NONE"].step = "mark"
      BY <1>0 DEF CallRecords
    <2>3. Stays(c) /\ call'[c].step \in {"done", "mark"}
      BY <1>0, <2>1, <2>2 DEF Becomes, Stays
    <2> QED
      BY <2>1, <2>3, StepSets DEF Handles, Outside
  <1>8. CASE MarkAnalyzing(c)
    BY <1>8, OutsideFact, StepSets DEF MarkAnalyzing, At, locks
  <1>9. CASE AcquireDocumentAnalysis(c)
    <2>1. CASE D(c) \in active[home[c]]
      BY <1>9, <2>1, OutsideFact, StepSets DEF AcquireDocumentAnalysis, At
    <2>2. CASE D(c) \notin active[home[c]]
      <3>1. /\ call[c].step = "lock"
            /\ active' = [active EXCEPT ![home[c]] = @ \union {D(c)}]
            /\ Moves(c, IF IsRetry(c) THEN "claim" ELSE "parse")
        BY <1>9, <2>2 DEF AcquireDocumentAnalysis, At
      <3>2. IsRetry(c) => call[c].found = "NONE"
        BY <3>1 DEF CallsOK, CallOK, IsRetry
      <3>3. ~Fresh(call'[c]) /\ call'[c].doc = D(c) /\ Stays(c)
        BY <3>1, <3>2, MoveFact DEF Fresh, IsRetry
      <3> QED
        BY <2>2, <3>1, <3>3 DEF Handles, Takes
    <2> QED
      BY <2>1, <2>2
  <1>10. CASE MarkArticle(c)
    BY <1>10, OutsideFact, StepSets DEF MarkArticle, At, locks
  <1> QED
    BY <1>2, <1>3, <1>4, <1>5, <1>6, <1>7, <1>8, <1>9, <1>10

\* With its lock.
LEMMA LateHandles ==
  ASSUME TypeOK, CallsOK, NEW c \in Calls,
         \/ CheckRetry(c) \/ ClaimFailedAnalysis(c) \/ BeginDocumentRetry(c) \/ Parse(c)
         \/ AcquireLLM(c) \/ Answer(c) \/ ReplacePlans(c) \/ Planned(c)
         \/ FinishDocumentRetry(c) \/ RestoreFailedAnalysis(c)
  PROVE  Handles(c)
  <1>0. call[c] \in CallRecords /\ call \in [Calls -> CallRecords]
    BY DEF TypeOK
  <1>1. AfterFailure(c) \in {"settle", "restore"}
    BY DEF AfterFailure
  <1>2. CASE CheckRetry(c)
    <2>1. call[c].step = "claim"
      BY <1>2 DEF CheckRetry, At
    <2>2. CASE Ends(c) /\ Unlocks(c)
      BY <2>1, <2>2, FreesFact, StepSets
    <2>3. ASSUME NEW date, ~run[D(c)].succeeded, UNCHANGED active,
                 Becomes(c, [call[c] EXCEPT !.found = "FAILED", !.date = date])
          PROVE  Handles(c)
      <3>1. Stays(c) /\ call'[c].doc = D(c)
        BY <1>0, <2>3 DEF Becomes, Stays, CallRecords, D
      <3> QED
        BY <2>1, <2>3, <3>1, StepSets DEF Handles, Keeps
    <2> QED
      BY <1>2, <2>2, <2>3 DEF CheckRetry
  <1>3. CASE ClaimFailedAnalysis(c)
    <2>1. call[c].step = "claim" /\ call[c].found = "FAILED"
      BY <1>3 DEF ClaimFailedAnalysis, At
    <2>2. CASE Ends(c) /\ Unlocks(c)
      BY <2>1, <2>2, FreesFact, StepSets
    <2>3. ASSUME UNCHANGED active,
                 Becomes(c, [call[c] EXCEPT !.step = "begin", !.found = "NONE"])
          PROVE  Handles(c)
      <3>1. Stays(c) /\ call'[c].doc = D(c) /\ call'[c].kind = call[c].kind
        BY <1>0, <2>3 DEF Becomes, Stays, CallRecords, D
      <3> QED
        BY <2>1, <2>3, <3>1, StepSets DEF Handles, Keeps, Fresh
    <2> QED
      BY <1>3, <2>2, <2>3 DEF ClaimFailedAnalysis
  <1>4. CASE BeginDocumentRetry(c)
    BY <1>4, KeepsFact, StepSets DEF BeginDocumentRetry, At, locks
  <1>5. CASE Parse(c)
    <2>1. call[c].step = "parse" /\ UNCHANGED active
          /\ (Moves(c, "llm") \/ Moves(c, AfterFailure(c)))
      BY <1>5 DEF Parse, At, locks
    <2> QED
      BY <1>1, <2>1, KeepsFact, StepSets
  <1>6. CASE AcquireLLM(c)
    <2>1. call[c].step = "llm" /\ UNCHANGED active
          /\ (Moves(c, "model") \/ Moves(c, AfterFailure(c)))
      BY <1>6 DEF AcquireLLM, At
    <2> QED
      BY <1>1, <2>1, KeepsFact, StepSets
  <1>7. CASE Answer(c)
    <2>1. call[c].step = "model" /\ UNCHANGED active
      BY <1>7 DEF Answer, At
    <2>2. CASE Moves(c, AfterFailure(c))
      BY <1>1, <2>1, <2>2, KeepsFact, StepSets
    <2>3. ASSUME NEW keys, Becomes(c, [call[c] EXCEPT !.step = "persist", !.keys = keys])
          PROVE  Handles(c)
      <3>1. Stays(c) /\ call'[c].doc = D(c) /\ call'[c].kind = call[c].kind
        BY <1>0, <2>3 DEF Becomes, Stays, CallRecords, D
      <3> QED
        BY <2>1, <3>1, StepSets DEF Handles, Keeps, Fresh
    <2> QED
      BY <1>7, <2>2, <2>3 DEF Answer
  <1>8. CASE ReplacePlans(c)
    <2>1. call[c].step = "persist" /\ UNCHANGED active
          /\ (Moves(c, "planned") \/ Moves(c, AfterFailure(c)))
      BY <1>8 DEF ReplacePlans, At, locks
    <2> QED
      BY <1>1, <2>1, KeepsFact, StepSets
  <1>9. CASE Planned(c)
    <2>1. call[c].step = "planned"
      BY <1>9 DEF Planned, At
    <2>2. CASE Moves(c, "settle") /\ UNCHANGED active
      BY <2>1, <2>2, KeepsFact, StepSets
    <2>3. CASE Ends(c) /\ Unlocks(c)
      BY <2>1, <2>3, FreesFact, StepSets
    <2>4. CASE Becomes(c, [call[c] EXCEPT !.step = "done", !.ok = TRUE]) /\ Unlocks(c)
      <3>1. Stays(c) /\ call'[c].step = "done"
        BY <1>0, <2>4 DEF Becomes, Stays, CallRecords
      <3> QED
        BY <2>1, <2>4, <3>1, StepSets DEF Handles, Frees
    <2> QED
      BY <1>9, <2>2, <2>3, <2>4 DEF Planned
  <1>10. CASE FinishDocumentRetry(c)
    BY <1>10, KeepsFact, StepSets DEF FinishDocumentRetry, At, locks
  <1>11. CASE RestoreFailedAnalysis(c)
    BY <1>11, FreesFact, StepSets DEF RestoreFailedAnalysis, At
  <1> QED
    BY <1>2, <1>3, <1>4, <1>5, <1>6, <1>7, <1>8, <1>9, <1>10, <1>11

\* When a statement fails.
LEMMA FailedHandles ==
  ASSUME TypeOK, CallsOK, NEW c \in Calls, StatementFails(c)
  PROVE  Handles(c)
  <1>1. AfterFailure(c) \in {"settle", "restore"}
    BY DEF AfterFailure
  <1>2. CASE call[c].step \in {"lookup", "create", "link", "mark", "download", "done", "fail"}
    <2>1. UNCHANGED active /\ (Moves(c, "fail") \/ Ends(c))
      BY <1>2 DEF StatementFails, At
    <2> QED
      BY <1>2, <2>1, OutsideFact, StepSets
  <1>3. CASE call[c].step = "claim"
    <2>1. Ends(c) /\ Unlocks(c)
      BY <1>3 DEF StatementFails, At
    <2> QED
      BY <1>3, <2>1, FreesFact, StepSets
  <1>4. CASE call[c].step \in {"begin", "parse", "planned", "settle"}
    <2>1. UNCHANGED active /\ (Moves(c, "restore") \/ Moves(c, AfterFailure(c)))
      BY <1>4 DEF StatementFails, At
    <2> QED
      BY <1>1, <1>4, <2>1, KeepsFact, StepSets
  <1>5. CASE call[c].step = "restore"
    <2>1. Unlocks(c) /\ (Moves(c, "done") \/ Ends(c))
      BY <1>5 DEF StatementFails, At
    <2> QED
      BY <1>5, <2>1, FreesFact, StepSets
  <1> QED
    BY <1>2, <1>3, <1>4, <1>5 DEF StatementFails, At

\* Only a commit changes what has been committed, and then the run has succeeded.
LEMMA CommitStep ==
  ASSUME TypeOK, [Next]_vars
  PROVE  \/ /\ committed' = committed
            /\ \A d \in Docs : run'[d].succeeded = run[d].succeeded
         \/ \E c \in Calls :
              /\ call[c].step = "persist" /\ call'[c].step = "planned"
              /\ \A d \in Docs \ {D(c)} : /\ committed'[d] = committed[d]
                                          /\ run'[d].succeeded = run[d].succeeded
              /\ D(c) \in Docs => run'[D(c)].succeeded
  <1>0. run \in [Docs -> [date : DateOrNone, succeeded : BOOLEAN]]
        /\ committed \in [Docs -> SUBSET Keys]
    BY DEF TypeOK
  <1>1. ASSUME NEW c \in Calls, Parse(c)
        PROVE  committed' = committed /\ \A d \in Docs : run'[d].succeeded = run[d].succeeded
    <2>1. committed' = committed /\ run' = [run EXCEPT ![D(c)].date = call[c].date]
      BY <1>1 DEF Parse
    <2> QED
      BY <1>0, <2>1
  <1>2. ASSUME NEW c \in Calls, ReplacePlans(c), ~UNCHANGED tables
        PROVE  /\ call[c].step = "persist" /\ call'[c].step = "planned"
               /\ \A d \in Docs \ {D(c)} : /\ committed'[d] = committed[d]
                                           /\ run'[d].succeeded = run[d].succeeded
               /\ D(c) \in Docs => run'[D(c)].succeeded
    <2>1. /\ run' = [run EXCEPT ![D(c)].succeeded = TRUE]
          /\ committed' = [committed EXCEPT ![D(c)] = call[c].keys]
          /\ Moves(c, "planned") /\ call[c].step = "persist"
      BY <1>2 DEF ReplacePlans, At
    <2>2. call'[c].step = "planned"
      BY <2>1, MoveFact
    <2> QED
      BY <1>0, <2>1, <2>2
  <1>3. \/ UNCHANGED <<run, committed>>
        \/ \E c \in Calls : Parse(c) \/ (ReplacePlans(c) /\ ~UNCHANGED tables)
    <2>1. CASE UNCHANGED vars \/ \E s \in Sources : LeaveLookback(s)
      BY <2>1 DEF vars, LeaveLookback, tables
    <2>2. ASSUME NEW p \in Processes, Crash(p) PROVE UNCHANGED <<run, committed>>
      BY <2>2 DEF Crash, tables
    <2>3. ASSUME NEW c \in Calls, Request(c) \/ StatementFails(c) \/ \E s \in Sources : TakeArticle(c, s)
          PROVE  UNCHANGED <<run, committed>>
      BY <2>3 DEF Request, StatementFails, TakeArticle, tables
    <2>4. ASSUME NEW c \in Calls, CallStep(c), ~Parse(c), ~ReplacePlans(c)
          PROVE  UNCHANGED <<run, committed>>
      BY <2>4 DEF CallStep, Download, Lookup, Create, Link, MarkAnalyzing,
                  AcquireDocumentAnalysis, CheckRetry, ClaimFailedAnalysis,
                  BeginDocumentRetry, AcquireLLM, Answer, Planned, FinishDocumentRetry,
                  RestoreFailedAnalysis, MarkArticle, tables
    <2> QED
      BY <2>1, <2>2, <2>3, <2>4 DEF Next, tables
  <1> QED
    BY <1>1, <1>2, <1>3

\* A step crashes a process, moves one call, or moves none.
LEMMA OneHandles ==
  ASSUME TypeOK, CallsOK, [Next]_vars
  PROVE  /\ UNCHANGED home
         /\ \/ UNCHANGED <<call, active>>
            \/ \E c \in Calls : Handles(c)
            \/ \E p \in Processes :
                 /\ active' = [active EXCEPT ![p] = {}]
                 /\ \A c \in Calls : call'[c] = IF home[c] = p THEN Idle ELSE call[c]
  <1>1. UNCHANGED home
    <2>1. CASE UNCHANGED vars \/ \E s \in Sources : LeaveLookback(s)
      BY <2>1 DEF vars, LeaveLookback
    <2>2. ASSUME NEW p \in Processes, Crash(p) PROVE UNCHANGED home
      BY <2>2 DEF Crash
    <2>3. ASSUME NEW c \in Calls, Request(c) \/ StatementFails(c) \/ \E s \in Sources : TakeArticle(c, s)
          PROVE  UNCHANGED home
      BY <2>3 DEF Request, StatementFails, TakeArticle
    <2>4. ASSUME NEW c \in Calls, CallStep(c) PROVE UNCHANGED home
      BY <2>4 DEF CallStep, Download, Lookup, Create, Link, MarkAnalyzing,
                  AcquireDocumentAnalysis, CheckRetry, ClaimFailedAnalysis,
                  BeginDocumentRetry, Parse, AcquireLLM, Answer, ReplacePlans, Planned,
                  FinishDocumentRetry, RestoreFailedAnalysis, MarkArticle
    <2> QED
      BY <2>1, <2>2, <2>3, <2>4 DEF Next
  <1>2. ASSUME NEW p \in Processes, Crash(p)
        PROVE  /\ active' = [active EXCEPT ![p] = {}]
               /\ \A c \in Calls : call'[c] = IF home[c] = p THEN Idle ELSE call[c]
    BY <1>2 DEF Crash
  <1>3. CASE UNCHANGED vars \/ \E s \in Sources : LeaveLookback(s)
    BY <1>3 DEF vars, LeaveLookback, locks
  <1> QED
    BY <1>1, <1>2, <1>3, EarlyHandles, LateHandles, FailedHandles DEF Next, CallStep

LEMMA LocksStep ==
  ASSUME TypeOK, CallsOK, LocksHeld, LocksExclude, [Next]_vars
  PROVE  LocksHeld' /\ LocksExclude'
  <1>0. /\ active \in [Processes -> SUBSET Docs] /\ home \in [Calls -> Processes]
        /\ home' = home
    BY OneHandles DEF TypeOK
  <1>1. CASE UNCHANGED <<call, active>>
    BY <1>0, <1>1 DEF LocksHeld, LocksExclude, D
  <1>2. ASSUME NEW p \in Processes, active' = [active EXCEPT ![p] = {}],
               \A c \in Calls : call'[c] = IF home[c] = p THEN Idle ELSE call[c]
        PROVE  LocksHeld' /\ LocksExclude'
    <2>1. Idle.step \notin Locked
      BY DEF Idle, Locked, Analysing
    <2> QED
      BY <1>0, <1>2, <2>1 DEF LocksHeld, LocksExclude, D
  <1>3. ASSUME NEW c \in Calls, Handles(c) PROVE LocksHeld' /\ LocksExclude'
    <2>1. \A e \in Calls \ {c} : call'[e] = call[e]
      BY <1>3 DEF Handles, Stays
    <2>2. CASE Takes(c)
      BY <1>0, <2>1, <2>2 DEF Takes, LocksHeld, LocksExclude, D
    <2>3. CASE Keeps(c)
      BY <1>0, <2>1, <2>3 DEF Keeps, LocksHeld, LocksExclude, D
    <2>4. CASE Frees(c)
      BY <1>0, <2>1, <2>4 DEF Frees, Unlocks, LocksHeld, LocksExclude, D
    <2>5. CASE Outside(c)
      BY <1>0, <2>1, <2>5 DEF Outside, LocksHeld, LocksExclude, D
    <2> QED
      BY <1>3, <2>2, <2>3, <2>4, <2>5 DEF Handles
  <1> QED
    BY <1>1, <1>2, <1>3, OneHandles

LEMMA FreshStep ==
  ASSUME TypeOK, CallsOK, LockInv, [Next]_vars
  PROVE  SuccessKnown' /\ RetriesFresh'
  <1>1. SuccessKnown'
    BY CommitStep DEF LockInv, SuccessKnown
  <1>2. ASSUME OneProcess', NEW e \in Calls, Fresh(call'[e]) PROVE ~run'[call'[e].doc].succeeded
    <2>0. OneProcess
      BY <1>2, OneHandles DEF OneProcess
    <2>1. Idle.step # "claim" /\ ~Fresh(Idle)
      BY DEF Idle, Fresh
    <2>2. /\ call[e].step \in Locked /\ call'[e].doc = D(e) /\ call'[e].step # "planned"
          /\ ~run[D(e)].succeeded
      <3>1. CASE call'[e] = call[e]
        BY <1>2, <2>0, <3>1, StepSets DEF LockInv, RetriesFresh, Fresh, D
      <3>2. CASE Takes(e) \/ Frees(e) \/ Outside(e)
        BY <1>2, <3>2, StepSets DEF Takes, Frees, Outside, Fresh
      <3>3. CASE Keeps(e)
        BY <1>2, <2>0, <3>3 DEF Keeps, LockInv, RetriesFresh, Fresh
      <3> QED
        BY <1>2, <2>1, <3>1, <3>2, <3>3, OneHandles DEF Handles, Stays
    <2>3. D(e) \in Docs
      BY <2>2, AboutDoc, StepSets DEF At
    <2>4. ASSUME NEW c \in Calls, call[c].step = "persist", call'[c].step = "planned",
                 \A d \in Docs \ {D(c)} : run'[d].succeeded = run[d].succeeded
          PROVE  ~run'[D(e)].succeeded
      <3>1. c # e /\ call[c].step \in Locked /\ home[c] = home[e]
        BY <2>0, <2>2, <2>4, StepSets DEF OneProcess
      <3>2. D(c) # D(e)
        BY <2>2, <3>1 DEF LockInv, LocksExclude
      <3> QED
        BY <2>2, <2>3, <2>4, <3>2
    <2> QED
      BY <2>2, <2>3, <2>4, CommitStep
  <1> QED
    BY <1>1, <1>2 DEF RetriesFresh, D

\* Where all calls run in one process, its lock and the look at the run's success keep a
\* retry from replacing results that any analysis of the document has committed.
THEOREM RetriesReplaceNothing == Spec => RetryRepeatsOnlyFailures
  <1>1. Init => LockInv
    BY DEF Init, LockInv, LocksHeld, LocksExclude, SuccessKnown, RetriesFresh, Fresh, Idle,
           Locked, Analysing
  <1>2. IndInv /\ LockInv /\ [Next]_vars => LockInv'
    BY LocksStep, FreshStep DEF IndInv, LockInv
  <1>3. IndInv /\ LockInv /\ [Next]_vars =>
          [OneProcess => \A c \in Calls :
             call[c].kind = "RETRY" /\ At(c, "persist") /\ committed' # committed =>
               committed[D(c)] = {} \/ committed'[D(c)] = committed[D(c)]]_vars
    <2> SUFFICES ASSUME IndInv, LockInv, Next, OneProcess, NEW c \in Calls,
                        call[c].kind = "RETRY", At(c, "persist")
                 PROVE  committed[D(c)] = {}
      BY DEF vars
    <2>1. D(c) \in Docs
      BY AboutDoc DEF IndInv, At
    <2>2. Fresh(call[c])
      BY DEF Fresh, At
    <2> QED
      BY <2>1, <2>2 DEF LockInv, RetriesFresh, SuccessKnown
  <1> QED
    BY <1>1, <1>2, <1>3, DocumentsInvariance, PTL DEF Spec, RetryRepeatsOnlyFailures
=============================================================================
