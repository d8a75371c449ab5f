--------------------------- MODULE SingleExposure ---------------------------
(***************************************************************************)
(* What the execution path promises the account, without any of its        *)
(* machinery: an intent is turned into an order at most once, and the next *)
(* one is not turned into an order before the previous order is over.      *)
(* OrderDispatch implements this.                                          *)
(***************************************************************************)
CONSTANT Intents

VARIABLES open,  \* the intents whose order is not over
          done   \* the intents whose order is over

TypeOK == open \subseteq Intents /\ done \subseteq Intents

Init == open = {} /\ done = {}

Open(i) ==
  /\ open = {} /\ i \notin done
  /\ open' = {i}
  /\ UNCHANGED done

Close ==
  /\ open # {}
  /\ done' = done \union open
  /\ open' = {}

Next == (\E i \in Intents : Open(i)) \/ Close

Spec == Init /\ [][Next]_<<open, done>>
=============================================================================
