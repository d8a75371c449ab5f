--------------------------- MODULE MCOrderDispatch ---------------------------
EXTENDS OrderDispatch, TLC

Symmetry == Permutations(Workers) \union Permutations(Intents) \union Permutations(Orders)

\* Bound: a switch changes only while one process alone has an intent in hand and
\* its claim is on time.  Without changes nothing is bounded.
SwitchedAlone ==
  \/ switches = 0
  \/ /\ \E w \in Workers : pc[w] = "idle" /\ \A i \in Intents : claim[i].token # w
     /\ \A i \in Intents : claim[i].token \in Workers => claim[i].live
=============================================================================
