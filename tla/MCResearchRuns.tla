---------------------------- MODULE MCResearchRuns ----------------------------
EXTENDS ResearchRuns

\* Two shares, one of them listed on the last day.
CONSTANTS share, younger
Types == {"A_SHARE"}
ByType == [s \in {share, younger} |-> "A_SHARE"]
Listing == (share :> 1) @@ (younger :> Days)
=============================================================================
