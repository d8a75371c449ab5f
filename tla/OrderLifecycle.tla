--------------------------- MODULE OrderLifecycle ---------------------------
(***************************************************************************)
(* The value-level rules of an order: which provider status may follow     *)
(* which, and how one Bridge event is folded into the stored order row.    *)
(* Everything here is a pure operator.  OrderDispatch uses these operators *)
(* in the actions that touch an order row, and OrderDispatch_proofs        *)
(* proves the facts about them that its invariants rest on.                *)
(*                                                                         *)
(* An order row keeps the fields the rules read: status, filled (the       *)
(* filled_volume column) and lastAt (last_event_at; 0 is SQL NULL).  An    *)
(* event keeps its normalized status, the cumulative volume it reports,    *)
(* and its time.  Prices and amounts are left out: no rule for the status  *)
(* or the volume reads them once they are known to be well formed.         *)
(***************************************************************************)
EXTENDS Integers

OpenStatuses == {"DISPATCH_PENDING", "BRIDGE_QUEUED", "SUBMITTED",
                 "PARTIALLY_FILLED", "UNKNOWN"}

TerminalStatuses == {"FILLED", "CANCELED", "REJECTED"}

OrderStatuses == OpenStatuses \union TerminalStatuses

IsTerminalOrderStatus(status) == status \in TerminalStatuses

\* The statuses a Bridge event may carry (strategy.py _normalize_status, and
\* the two the runner writes itself for a failed placement).
EventStatuses == {"SUBMITTED", "PARTIALLY_FILLED", "FILLED", "CANCELED",
                  "REJECTED", "UNKNOWN"}

orderTransitions ==
  LET advance == {"SUBMITTED", "PARTIALLY_FILLED", "FILLED", "CANCELED",
                  "REJECTED", "UNKNOWN"}
  IN  [s \in OpenStatuses |->
         CASE s = "DISPATCH_PENDING" -> advance \union {"BRIDGE_QUEUED"}
           [] s = "PARTIALLY_FILLED" -> advance \ {"SUBMITTED", "REJECTED"}
           [] OTHER                  -> advance]

CanTransitionOrder(from, to) ==
  \/ from = to
  \/ from \in OpenStatuses /\ to \in orderTransitions[from]

-----------------------------------------------------------------------------
(***************************************************************************)
(* mergeOrderEvent.  sum is the volume of all fills stored for the order,  *)
(* the one this event may just have stored included.                       *)
(***************************************************************************)
MergeAccepts(event, sum, volume) ==
  /\ sum <= volume
  /\ event.cum <= volume

\* The cumulative volume the event reports raises the stored volume; the sum
\* of the stored fills replaces it as soon as it has caught up.
MergedVolume(order, event, sum) ==
  LET reported == IF event.cum > order.filled THEN event.cum ELSE order.filled
  IN  IF sum >= reported /\ sum > 0 THEN sum ELSE reported

\* An event older than the newest one seen keeps its volume but not its status.
StatusFromEvent(order, event) ==
  IF /\ event.status # "UNKNOWN"
     /\ event.at >= order.lastAt
     /\ CanTransitionOrder(order.status, event.status)
  THEN event.status
  ELSE order.status

\* Mutant: an event of unknown status makes any order without fills uncertain.
MergedStatusUnknownReopens(order, event, sum, volume) ==
  IF MergedVolume(order, event, sum) = volume THEN "FILLED"
  ELSE IF event.status = "UNKNOWN" /\ MergedVolume(order, event, sum) = 0 THEN "UNKNOWN"
  ELSE StatusFromEvent(order, event)

MergedStatus(order, event, sum, volume) ==
  LET filled == MergedVolume(order, event, sum)
      moved  == StatusFromEvent(order, event)
      part   == IF filled > 0 /\ ~IsTerminalOrderStatus(moved)
                THEN "PARTIALLY_FILLED" ELSE moved
  IN  IF filled = volume /\ volume > 0 THEN "FILLED"
      ELSE IF /\ event.status = "UNKNOWN"
              /\ ~IsTerminalOrderStatus(part)
              /\ filled = 0
      THEN "UNKNOWN"
      ELSE part

MergeOrderEvent(order, event, sum, volume) ==
  [status |-> MergedStatus(order, event, sum, volume),
   filled |-> MergedVolume(order, event, sum),
   lastAt |-> IF event.at >= order.lastAt THEN event.at ELSE order.lastAt]

-----------------------------------------------------------------------------
(***************************************************************************)
(* The three ways persistDecision's tail writes the status of a row it     *)
(* created, once the Bridge has answered.  Two of them are conditional     *)
(* updates (SQL CASE on the stored status); the refusal is not.            *)
(***************************************************************************)
\* Mutant: the answer is written over what callbacks stored meanwhile.
StatusAfterAcceptedAlways(status) == "BRIDGE_QUEUED"

StatusAfterAccepted(status) ==
  IF status \in {"DISPATCH_PENDING", "UNKNOWN"} THEN "BRIDGE_QUEUED" ELSE status

StatusAfterDispatchError(status) ==
  IF status = "DISPATCH_PENDING" THEN "UNKNOWN" ELSE status

StatusAfterRefused == "REJECTED"
=============================================================================
