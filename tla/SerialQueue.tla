----------------------------- MODULE SerialQueue -----------------------------
(***************************************************************************)
(* What a queue of runs promises whoever waits for one: runs end once, one *)
(* after the other, in the order in which they were created.  How they are *)
(* claimed, by whom and how often, does not show.                          *)
(***************************************************************************)
EXTENDS Naturals

CONSTANT Ids     \* a set of numbers, given out in increasing order

VARIABLES created, ended

TypeOK == created \subseteq Ids /\ ended \subseteq created

Init == created = {} /\ ended = {}

Create(i) ==
  /\ \A j \in created : j < i
  /\ created' = created \union {i}
  /\ UNCHANGED ended

End(i) ==
  /\ i \in created \ ended
  /\ \A j \in created : j < i => j \in ended
  /\ ended' = ended \union {i}
  /\ UNCHANGED created

Next == \E i \in Ids : Create(i) \/ End(i)

Spec == Init /\ [][Next]_<<created, ended>>
=============================================================================
