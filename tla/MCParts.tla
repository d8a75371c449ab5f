------------------------------- MODULE MCParts -------------------------------
(* A share and a sector, two documents of one day each.                      *)
EXTENDS Parts, TLC

CONSTANTS share, sector, b1, b2

AssetTypes == share :> "STOCK" @@ sector :> "SECTOR"
ListDates == share :> 2 @@ sector :> 1

\* The sector's second name is its first one without a suffix.
NameVariants == sector :> (b1 :> {b1, b2} @@ b2 :> {b2})
DateOf == "d1" :> 1 @@ "d2" :> 2
OneResult == {[status |-> "READY", ret |-> 1], [status |-> "PENDING", ret |-> 0]}

\* The sector begins with the name that has a variant, a share with that variant as
\* its name, and both with that as their full name and without an end; decisions
\* begin with a recommendation.
MCInit ==
  /\ PartsInit
  /\ (part = "decisions") = (Of("EVENT") # {})
  /\ part = "master" => \A c \in Codes : provider[c] # NoRow =>
       /\ provider[c].full = provider[c].name /\ provider[c].until = 0
       /\ provider[c].name = IF c = share THEN b2 ELSE b1

MCSpec == MCInit /\ [][PartsNext]_<<part, vars, masterVars, reportVars>>

Symmetry == Permutations(Deciders)
=============================================================================
