-------------------------------- MODULE Parts --------------------------------
(***************************************************************************)
(* Three parts of the system that share no state, side by side: decision   *)
(* runs, the security master, and the reports.  A behaviour is one of a    *)
(* single part, and the others stay as they begin.                         *)
(***************************************************************************)
EXTENDS DecisionRuns

CONSTANTS Refreshers, Codes, Names, Kind, ListedFrom, Ends, Variants, AsOfDates, MaxChanges, NoRow
VARIABLES day, provider, past, refresh, master, alias, borne, fresh, changes

CONSTANTS Recommendations, Bloggers, Documents, Dated, ArticleDate, SectorCodes, Dates,
          AllWindows, Versions, Results, Evaluators, Command, MaxEdits,
          Recommended  \* the codes that recommendations are of
VARIABLES event, metric, configured, run, repair, overtaken, edits

VARIABLE part

masterVars == <<day, provider, past, refresh, master, alias, borne, fresh, changes>>
reportVars == <<event, metric, configured, run, repair, overtaken, edits>>

Master == INSTANCE SecurityMaster
Reports == INSTANCE PerformanceReports WITH Codes <- Recommended, Sectors <- SectorCodes

\* A part that a behaviour is not about is not there.
PartsInit ==
  /\ part \in {"decisions", "master", "reports"}
  /\ Init
  /\ IF part = "master" THEN Master!Init ELSE
       /\ day = 0 /\ provider = 0 /\ past = 0 /\ refresh = 0 /\ master = 0 /\ alias = 0
       /\ borne = 0 /\ fresh = 0 /\ changes = 0
  /\ IF part = "reports" THEN Reports!Init ELSE
       /\ event = 0 /\ metric = 0 /\ configured = 0 /\ run = 0 /\ repair = 0 /\ overtaken = 0
       /\ edits = 0

PartsNext ==
  /\ UNCHANGED part
  /\ \/ part = "decisions" /\ Next /\ UNCHANGED <<masterVars, reportVars>>
     \/ part = "master" /\ Master!Next /\ UNCHANGED <<vars, reportVars>>
     \/ part = "reports" /\ Reports!Next /\ UNCHANGED <<vars, masterVars>>

PartsSpec == PartsInit /\ [][PartsNext]_<<part, vars, masterVars, reportVars>>

-----------------------------------------------------------------------------
(* Properties.                                                             *)

\* After a refresh that nothing disturbed, names lead to the listed securities
\* (security_master_refresh.go, security_alias.go).
MasterIsCurrent == part = "master" => Master!MasterIsCurrent

\* The rankings, the records, the ledger, its export, the list and the report of
\* documents agree with each other (stats/service.go, document_report.go).
ReportsAgree == part = "reports" => Reports!ReportsAgree

=============================================================================
