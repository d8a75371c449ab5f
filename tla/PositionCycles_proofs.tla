------------------------ MODULE PositionCycles_proofs ------------------------
(***************************************************************************)
(* A cycle never has two exits that could both sell, and the ledger's open *)
(* cycle holds what the account holds.                                     *)
(*                                                                         *)
(* Exits.  The guard that creates an exit (HasActiveExit) reads the        *)
(* ledger: the intents and the stored status of their orders.  The         *)
(* property speaks of the provider: which orders it still works on.  They  *)
(* meet in LiveIsOpen: an order the provider works on is never stored as   *)
(* ended, because a report that ends it, or reports all of its volume,     *)
(* exists only once the provider has given it up (EndsAreTrue).            *)
(*                                                                         *)
(* The account.  The provider executes, the ledger is told in any order    *)
(* and recomputes a cycle from its orders.  Between them stands Holds(b):  *)
(* what was executed of BUY b, less what its exits executed.  One order is *)
(* open at a time, so the ledger has been told everything of the others,   *)
(* and whatever it has not been told is in a report (NothingLost).  One    *)
(* BUY owns all that is held (OneOwner), with one exception: a BUY that    *)
(* was decided on before an earlier one filled is created while its shares *)
(* are held (Pyramids).  As one cycle of a security is open at a time, no  *)
(* report of what it executes can be applied; its order stays open, so     *)
(* nothing more is created, and the reports that wait say so.  An exit is  *)
(* decided on while an order is open; what it is to sell stays there       *)
(* until its order is created (Covered), as the open order is no other     *)
(* exit of its cycle (SingleExit).                                         *)
(* The sum SoldOf is a fold; SumIsCount makes it the size of a finite set, *)
(* by the smallest subset on which they would differ, so that every step   *)
(* is about cardinalities.                                                 *)
(***************************************************************************)
EXTENDS PositionCycles, FiniteSetTheorems, TLAPS

-----------------------------------------------------------------------------
(* The inductive invariant.                                                *)

IntentColumns == {"status", "action", "cycle", "volume", "reason"}
OrderColumns == {"status", "filled", "lastAt"}

RowsExist ==
  /\ DOMAIN intent = Ids /\ \A i \in Ids : DOMAIN intent[i] = IntentColumns
  /\ DOMAIN order = Ids /\ \A i \in Ids : DOMAIN order[i] = OrderColumns
  /\ DOMAIN exec = Ids

\* The volume n is all that intent i is about.
Whole(i, n) == n = intent[i].volume /\ intent[i].volume > 0

\* Before its intent has become an order, an id is unknown to the provider, in the
\* reports and in the table of orders.
NoOrderNoTrace ==
  \A i \in Ids : intent[i].status # "ORDER_CREATED" =>
    /\ i \notin live /\ exec[i] = 0
    /\ order[i].status = "NONE" /\ order[i].filled = 0
    /\ \A r \in reports : r.order # i

\* A report that ends an order, and one of all of its volume, come after its end.
EndsAreTrue ==
  \A r \in reports :
    /\ r.order \in Ids
    /\ IsTerminalOrderStatus(r.status) \/ Whole(r.order, r.cum) => r.order \notin live

\* An order the provider works on has not executed all of its volume, and is
\* stored neither as ended nor as filled.
LiveIsOpen ==
  /\ live \subseteq Ids
  /\ \A i \in live : /\ ~Whole(i, exec[i]) /\ ~Whole(i, order[i].filled)
                     /\ ~IsTerminalOrderStatus(order[i].status)

\* An exit that could sell, now or once it is executed.
CouldSell(b) == {i \in SellsOf(b) : intent[i].status = "READY" \/ i \in live}
SingleExit == \A b \in Ids : \A i, j \in CouldSell(b) : i = j

ExitInv == RowsExist /\ NoOrderNoTrace /\ EndsAreTrue /\ LiveIsOpen /\ SingleExit

-----------------------------------------------------------------------------
(* What a report does to the row of its order.                             *)

\* mergeOrderEvent stores the volume it knew or the one that is reported.
LEMMA MergedVolumeIsOneOfTwo ==
  ASSUME NEW row, NEW r, NEW v
  PROVE  MergeOrderEvent(row, r, 0, v).filled \in {row.filled, r.cum}
  BY DEF MergeOrderEvent, MergedVolume

\* It ends an order that had ended, on a report that ends it, or when all is filled.
LEMMA MergedEnd ==
  ASSUME NEW row, NEW r, NEW v,
         IsTerminalOrderStatus(MergeOrderEvent(row, r, 0, v).status)
  PROVE  \/ IsTerminalOrderStatus(row.status) \/ IsTerminalOrderStatus(r.status)
         \/ v > 0 /\ (v = row.filled \/ v = r.cum)
  <1> DEFINE filled == MergedVolume(row, r, 0)
             moved == StatusFromEvent(row, r)
  <1>1. moved \in {row.status, r.status}
    BY DEF StatusFromEvent
  <1>2. filled \in {row.filled, r.cum}
    BY DEF MergedVolume
  <1>3. MergeOrderEvent(row, r, 0, v).status = MergedStatus(row, r, 0, v)
    BY DEF MergeOrderEvent
  <1>4. CASE filled = v /\ v > 0
    BY <1>2, <1>4
  <1>5. CASE ~(filled = v /\ v > 0)
    <2>1. MergedStatus(row, r, 0, v) \in {"UNKNOWN", "PARTIALLY_FILLED", moved}
      BY <1>5 DEF MergedStatus
    <2> QED  BY <1>1, <1>3, <2>1 DEF IsTerminalOrderStatus, TerminalStatuses
  <1> QED  BY <1>4, <1>5

-----------------------------------------------------------------------------
(* Exits.                                                                  *)

\* An exit that could sell is an active one to the monitor.
LEMMA CouldSellIsActive ==
  ASSUME ExitInv, NEW b, CouldSell(b) # {}
  PROVE  HasActiveExit(b)
  <1>1. PICK i \in SellsOf(b) : intent[i].status = "READY" \/ i \in live
    BY DEF CouldSell
  <1>2. i \in Ids
    BY <1>1 DEF SellsOf
  <1>3. intent[i].status \in {"READY", "ORDER_CREATED"}
    BY <1>1, <1>2 DEF ExitInv, NoOrderNoTrace
  <1>4. ~IsTerminalOrderStatus(order[i].status)
    BY <1>1, <1>2 DEF ExitInv, NoOrderNoTrace, LiveIsOpen, IsTerminalOrderStatus, TerminalStatuses
  <1> QED  BY <1>1, <1>3, <1>4 DEF HasActiveExit

\* Where no exit starts that could sell, there are no more than before.
LEMMA NoNewExit ==
  ASSUME ExitInv, \A b \in Ids : CouldSell(b)' \subseteq CouldSell(b)
  PROVE  SingleExit'
  <1>1. Ids' = Ids
    BY DEF Ids
  <1> QED  BY <1>1 DEF ExitInv, SingleExit

\* The invariant bounds the exits as the property counts them.
LEMMA SingleExitCounts ==
  ASSUME SingleExit
  PROVE  OneExitAtATime
  <1> SUFFICES ASSUME NEW b \in Ids
               PROVE  Cardinality(CouldSell(b)) <= 1
    BY DEF OneExitAtATime, CouldSell
  <1>1. CASE CouldSell(b) = {}
    BY <1>1, FS_EmptySet
  <1>2. CASE CouldSell(b) # {}
    <2>1. PICK i : i \in CouldSell(b)
      BY <1>2
    <2>2. CouldSell(b) = {i}
      BY <2>1 DEF SingleExit
    <2>3. Cardinality({i}) = 1
      BY FS_Singleton
    <2> QED  BY <2>2, <2>3
  <1> QED  BY <1>1, <1>2
-----------------------------------------------------------------------------
(* Every step keeps the invariant.                                         *)

LEMMA ExitInit ==
  ASSUME Init
  PROVE  ExitInv
  <1>1. RowsExist
    BY DEF Init, RowsExist, IntentColumns, OrderColumns
  <1>2. NoOrderNoTrace
    BY DEF Init, NoOrderNoTrace
  <1>3. EndsAreTrue /\ LiveIsOpen
    BY DEF Init, EndsAreTrue, LiveIsOpen
  <1>4. SingleExit
    BY DEF Init, SingleExit, CouldSell, SellsOf
  <1> QED  BY <1>1, <1>2, <1>3, <1>4 DEF ExitInv

\* What concerns neither intents, orders, the provider's orders nor reports.
concerned == <<intent, order, exec, live, reports>>

LEMMA ElsewhereStep ==
  ASSUME ExitInv, UNCHANGED concerned
  PROVE  ExitInv'
  <1>1. Ids' = Ids
    BY DEF Ids
  <1> QED
    BY <1>1 DEF ExitInv, concerned, RowsExist, NoOrderNoTrace, EndsAreTrue, LiveIsOpen, Whole,
                SingleExit, CouldSell, SellsOf

\* The provider: an execution that is the last one takes the order off its book
\* as it is reported.
LEMMA FillStep ==
  ASSUME ExitInv, NEW i \in Ids, Fill(i)
  PROVE  ExitInv'
  <1>1. PICK n \in 1..(intent[i].volume - exec[i]) :
          /\ exec' = [exec EXCEPT ![i] = @ + n]
          /\ live' = IF exec[i] + n = intent[i].volume THEN live \ {i} ELSE live
          /\ Reports(i, IF exec[i] + n = intent[i].volume THEN "FILLED" ELSE "PARTIALLY_FILLED",
                     exec[i] + n)
    BY DEF Fill
  <1>2. i \in live /\ UNCHANGED <<intent, order>>
    BY DEF Fill, ledger
  <1>3. Ids' = Ids /\ live' \subseteq live
    BY <1>1 DEF Ids
  <1>4. RowsExist'
    BY <1>1, <1>2, <1>3 DEF ExitInv, RowsExist
  <1>5. intent[i].status = "ORDER_CREATED"
    BY <1>2 DEF ExitInv, NoOrderNoTrace
  <1>6. \A r \in reports' : \/ r \in reports
                            \/ /\ r.order = i /\ r.cum = exec[i] + n
                               /\ IsTerminalOrderStatus(r.status) => exec[i] + n = intent[i].volume
    BY <1>1 DEF Reports, IsTerminalOrderStatus, TerminalStatuses
  <1>7. NoOrderNoTrace'
    BY <1>1, <1>2, <1>3, <1>5, <1>6 DEF ExitInv, NoOrderNoTrace, RowsExist
  <1>8. EndsAreTrue'
    <2> SUFFICES ASSUME NEW r \in reports'
                 PROVE  /\ r.order \in Ids
                        /\ IsTerminalOrderStatus(r.status) \/ Whole(r.order, r.cum)
                             => r.order \notin live'
      BY <1>2, <1>3 DEF EndsAreTrue, Whole
    <2>1. CASE r \in reports
      BY <1>3, <2>1 DEF ExitInv, EndsAreTrue
    <2>2. CASE r.order = i /\ r.cum = exec[i] + n
               /\ (IsTerminalOrderStatus(r.status) => exec[i] + n = intent[i].volume)
      BY <1>1, <2>2 DEF Whole
    <2> QED  BY <1>6, <2>1, <2>2
  <1>9. LiveIsOpen'
    <2>1. \A j \in live' : j \in live /\ ~Whole(j, exec'[j])
      BY <1>1, <1>3 DEF ExitInv, LiveIsOpen, RowsExist, Whole
    <2> QED  BY <1>2, <1>3, <2>1 DEF ExitInv, LiveIsOpen, Whole
  <1>10. \A b \in Ids : CouldSell(b)' \subseteq CouldSell(b)
    BY <1>2, <1>3 DEF CouldSell, SellsOf
  <1> QED  BY <1>4, <1>7, <1>8, <1>9, <1>10, NoNewExit DEF ExitInv

LEMMA CancelStep ==
  ASSUME ExitInv, NEW i \in Ids, Cancel(i)
  PROVE  ExitInv'
  <1>1. /\ live' = live \ {i} /\ i \in live /\ UNCHANGED <<intent, order, exec>>
        /\ Reports(i, IF exec[i] = 0 THEN "REJECTED" ELSE "CANCELED", exec[i])
    BY DEF Cancel, ledger
  <1>2. Ids' = Ids
    BY DEF Ids
  <1>3. intent[i].status = "ORDER_CREATED"
    BY <1>1 DEF ExitInv, NoOrderNoTrace
  <1>4. \A r \in reports' : r \in reports \/ r.order = i
    BY <1>1 DEF Reports
  <1>5. RowsExist' /\ NoOrderNoTrace'
    BY <1>1, <1>2, <1>3, <1>4 DEF ExitInv, RowsExist, NoOrderNoTrace
  <1>6. EndsAreTrue' /\ LiveIsOpen'
    BY <1>1, <1>2, <1>4 DEF ExitInv, EndsAreTrue, LiveIsOpen, Whole
  <1>7. \A b \in Ids : CouldSell(b)' \subseteq CouldSell(b)
    BY <1>1, <1>2 DEF CouldSell, SellsOf
  <1> QED  BY <1>5, <1>6, <1>7, NoNewExit DEF ExitInv

\* An intent appears under an id that was free.
LEMMA CreatedKeeps ==
  ASSUME ExitInv, NEW i \in Ids, NEW action, NEW b, NEW volume, NEW reason,
         Creates(i, action, b, volume, reason), UNCHANGED <<order, exec, live, reports>>
  PROVE  /\ RowsExist' /\ NoOrderNoTrace' /\ EndsAreTrue' /\ LiveIsOpen'
         /\ \A c : c # b \/ action # "SELL" => CouldSell(c)' \subseteq CouldSell(c)
         /\ CouldSell(b)' \subseteq CouldSell(b) \union {i}
  <1>1. /\ intent' = [intent EXCEPT ![i] = [status |-> "READY", action |-> action, cycle |-> b,
                                            volume |-> volume, reason |-> reason]]
        /\ intent[i].status = "NONE"
    BY DEF Creates, Free
  <1>2. Ids' = Ids
    BY DEF Ids
  <1>3. i \notin live /\ exec[i] = 0 /\ order[i].status = "NONE" /\ order[i].filled = 0
        /\ \A r \in reports : r.order # i
    BY <1>1 DEF ExitInv, NoOrderNoTrace
  <1>4. RowsExist'
    BY <1>1, <1>2 DEF ExitInv, RowsExist, IntentColumns
  <1>5. \A j \in Ids : intent'[j] = IF j = i THEN [status |-> "READY", action |-> action, cycle |-> b,
                                                   volume |-> volume, reason |-> reason]
                                    ELSE intent[j]
    BY <1>1 DEF ExitInv, RowsExist
  <1>6. NoOrderNoTrace'
    BY <1>2, <1>3, <1>5 DEF ExitInv, NoOrderNoTrace
  <1>7. EndsAreTrue' /\ LiveIsOpen'
    BY <1>2, <1>3, <1>5 DEF ExitInv, EndsAreTrue, LiveIsOpen, Whole
  <1>8. \A c : \A j \in CouldSell(c)' : j \in CouldSell(c) \/ (j = i /\ c = b /\ action = "SELL")
    BY <1>2, <1>5 DEF CouldSell, SellsOf
  <1> QED  BY <1>4, <1>6, <1>7, <1>8

LEMMA DecideStep ==
  ASSUME ExitInv, Decide
  PROVE  ExitInv'
  <1>1. PICK i \in Ids : Creates(i, "BUY", None, BuyVolume, "")
    BY DEF Decide
  <1>2. UNCHANGED <<order, exec, live, reports>>
    BY DEF Decide, ledger, provider
  <1>3. \A b \in Ids : CouldSell(b)' \subseteq CouldSell(b)
    BY <1>1, <1>2, CreatedKeeps
  <1> QED  BY <1>1, <1>2, <1>3, CreatedKeeps, NoNewExit DEF ExitInv
\* An intent that is READY ends without an order.
LEMMA EndedWithoutOrder ==
  ASSUME ExitInv, NEW i \in Ids, NEW status, intent[i].status = "READY",
         status \notin {"READY", "ORDER_CREATED"},
         intent' = [intent EXCEPT ![i].status = status], UNCHANGED <<order, exec, live, reports>>
  PROVE  ExitInv'
  <1>1. Ids' = Ids
    BY DEF Ids
  <1>2. \A j \in Ids : /\ DOMAIN intent'[j] = IntentColumns
                       /\ intent'[j].status = IF j = i THEN status ELSE intent[j].status
                       /\ intent'[j].action = intent[j].action /\ intent'[j].cycle = intent[j].cycle
                       /\ intent'[j].volume = intent[j].volume
    BY DEF ExitInv, RowsExist, IntentColumns
  <1>3. RowsExist'
    BY <1>1, <1>2 DEF ExitInv, RowsExist
  <1>4. NoOrderNoTrace'
    BY <1>1, <1>2 DEF ExitInv, NoOrderNoTrace
  <1>5. EndsAreTrue' /\ LiveIsOpen'
    BY <1>1, <1>2 DEF ExitInv, EndsAreTrue, LiveIsOpen, Whole
  <1>6. i \notin live
    BY DEF ExitInv, NoOrderNoTrace
  <1>7. \A b \in Ids : CouldSell(b)' \subseteq CouldSell(b)
    BY <1>1, <1>2, <1>6 DEF CouldSell, SellsOf
  <1> QED  BY <1>3, <1>4, <1>5, <1>7, NoNewExit DEF ExitInv

LEMMA ExpireStep ==
  ASSUME ExitInv, NEW i \in Ids, Expire(i)
  PROVE  ExitInv'
  <1>1. /\ intent[i].status = "READY" /\ intent' = [intent EXCEPT ![i].status = "EXPIRED"]
        /\ UNCHANGED <<order, exec, live, reports>>
    BY DEF Expire, Ends, provider
  <1>2. "EXPIRED" \notin {"READY", "ORDER_CREATED"}
    OBVIOUS
  <1> QED  BY <1>1, <1>2, EndedWithoutOrder

LEMMA RefuseStep ==
  ASSUME ExitInv, NEW i \in Ids, Refuse(i)
  PROVE  ExitInv'
  <1>1. /\ intent[i].status = "READY" /\ intent' = [intent EXCEPT ![i].status = "RISK_REJECTED"]
        /\ UNCHANGED <<order, exec, live, reports>>
    BY DEF Refuse, Ends, provider
  <1>2. "RISK_REJECTED" \notin {"READY", "ORDER_CREATED"}
    OBVIOUS
  <1> QED  BY <1>1, <1>2, EndedWithoutOrder

\* The lane: an exit that becomes an order was one that could sell already.
LEMMA CreateOrderStep ==
  ASSUME ExitInv, NEW i \in Ids, CreateOrder(i)
  PROVE  ExitInv'
  <1>1. /\ intent[i].status = "READY" /\ UNCHANGED <<exec, reports>>
        /\ intent' = [intent EXCEPT ![i].status = "ORDER_CREATED"]
        /\ order' = [order EXCEPT ![i].status = "BRIDGE_QUEUED"]
        /\ live' = live \union {i}
    BY DEF CreateOrder
  <1>2. Ids' = Ids
    BY DEF Ids
  <1>3. \A j \in Ids : /\ DOMAIN intent'[j] = IntentColumns
                       /\ intent'[j].status = IF j = i THEN "ORDER_CREATED" ELSE intent[j].status
                       /\ intent'[j].action = intent[j].action /\ intent'[j].cycle = intent[j].cycle
                       /\ intent'[j].volume = intent[j].volume
    BY <1>1 DEF ExitInv, RowsExist, IntentColumns
  <1>4. \A j \in Ids : /\ DOMAIN order'[j] = OrderColumns
                       /\ order'[j].status = IF j = i THEN "BRIDGE_QUEUED" ELSE order[j].status
                       /\ order'[j].filled = order[j].filled
    BY <1>1 DEF ExitInv, RowsExist, OrderColumns
  <1>5. RowsExist'
    BY <1>1, <1>2, <1>3, <1>4 DEF ExitInv, RowsExist
  <1>6. NoOrderNoTrace'
    BY <1>1, <1>2, <1>3, <1>4 DEF ExitInv, NoOrderNoTrace
  <1>7. exec[i] = 0 /\ order[i].filled = 0 /\ \A r \in reports : r.order # i
    BY <1>1 DEF ExitInv, NoOrderNoTrace
  <1>8. EndsAreTrue'
    BY <1>1, <1>2, <1>3, <1>7 DEF ExitInv, EndsAreTrue, Whole
  <1>9. ~Whole(i, 0)'
    BY DEF Whole
  <1>10. LiveIsOpen'
    BY <1>1, <1>2, <1>3, <1>4, <1>7, <1>9
       DEF ExitInv, LiveIsOpen, Whole, IsTerminalOrderStatus, TerminalStatuses
  <1>11. \A b \in Ids : CouldSell(b)' \subseteq CouldSell(b)
    BY <1>1, <1>2, <1>3 DEF CouldSell, SellsOf
  <1> QED  BY <1>5, <1>6, <1>8, <1>10, <1>11, NoNewExit DEF ExitInv

\* A report reaches the row of its order: where that ends the row, the provider
\* had given the order up.
LEMMA ApplyReportStep ==
  ASSUME ExitInv, NEW r \in reports, ApplyReport(r)
  PROVE  ExitInv'
  <1> DEFINE i == r.order
             row == MergeOrderEvent(order[i], r, 0, intent[i].volume)
  <1>1. /\ order' = [order EXCEPT ![i] = row] /\ reports' = reports \ {r}
        /\ UNCHANGED <<intent, exec, live>>
    BY DEF ApplyReport, provider
  <1>2. i \in Ids /\ Ids' = Ids
    BY DEF ExitInv, EndsAreTrue, Ids
  <1>3. DOMAIN row = OrderColumns
    BY DEF MergeOrderEvent, OrderColumns
  <1>4. row.filled \in {order[i].filled, r.cum}
    BY MergedVolumeIsOneOfTwo
  <1>5. IsTerminalOrderStatus(row.status) =>
          \/ IsTerminalOrderStatus(order[i].status) \/ IsTerminalOrderStatus(r.status)
          \/ Whole(i, order[i].filled) \/ Whole(i, r.cum)
    <2> HIDE DEF i
    <2> SUFFICES ASSUME IsTerminalOrderStatus(row.status)
                 PROVE  \/ IsTerminalOrderStatus(order[i].status) \/ IsTerminalOrderStatus(r.status)
                        \/ Whole(i, order[i].filled) \/ Whole(i, r.cum)
      OBVIOUS
    <2> QED  BY MergedEnd DEF Whole
  <1> HIDE DEF row
  <1>6. order' = [j \in Ids |-> IF j = i THEN row ELSE order[j]]
    BY <1>1, <1>2 DEF ExitInv, RowsExist
  <1>7. RowsExist'
    BY <1>1, <1>2, <1>3, <1>6 DEF ExitInv, RowsExist
  <1>8. NoOrderNoTrace'
    BY <1>1, <1>2, <1>6 DEF ExitInv, NoOrderNoTrace
  <1>9. EndsAreTrue'
    BY <1>1, <1>2 DEF ExitInv, EndsAreTrue, Whole
  <1>10. LiveIsOpen'
    <2>1. i \in live => /\ ~Whole(i, row.filled) /\ ~IsTerminalOrderStatus(row.status)
      BY <1>4, <1>5 DEF ExitInv, LiveIsOpen, EndsAreTrue
    <2> QED  BY <1>1, <1>2, <1>6, <2>1 DEF ExitInv, LiveIsOpen, Whole
  <1>11. \A b \in Ids : CouldSell(b)' \subseteq CouldSell(b)
    BY <1>1, <1>2 DEF CouldSell, SellsOf
  <1> QED  BY <1>7, <1>8, <1>9, <1>10, <1>11, NoNewExit DEF ExitInv

\* A scan: an exit is created where none is active, so none could sell.
LEMMA ScanCommitsStep ==
  ASSUME ExitInv, NEW s \in Scanners, ScanCommits(s)
  PROVE  ExitInv'
  <1>1. UNCHANGED <<order, exec, live, reports>>
    BY DEF ScanCommits, provider
  <1>2. \/ UNCHANGED intent
        \/ \E b, volume, reason : /\ ~HasActiveExit(b)
                                  /\ \E i \in Ids : Creates(i, "SELL", b, volume, reason)
    <2> DEFINE volume(b) == Least(scan[s].available, cycle[b].current)
    <2>1. PICK b \in scan[s].cycles, quoted \in Reasons \union {""} :
            \/ /\ ~HasActiveExit(b)
               /\ \/ \E i \in Ids : Creates(i, "SELL", b, volume(b), ExitReason(b, quoted))
                  \/ UNCHANGED intent
            \/ UNCHANGED intent
      BY Zenon DEF ScanCommits
    <2>2. ASSUME ~HasActiveExit(b), NEW i \in Ids,
                 Creates(i, "SELL", b, volume(b), ExitReason(b, quoted))
          PROVE  \E c, v, reason : /\ ~HasActiveExit(c)
                                   /\ \E j \in Ids : Creates(j, "SELL", c, v, reason)
      <3> WITNESS b, volume(b), ExitReason(b, quoted)
      <3> QED  BY <2>2, Zenon
    <2> QED  BY <2>1, <2>2, Zenon
  <1>3. CASE UNCHANGED intent
    BY <1>1, <1>3, ElsewhereStep DEF concerned
  <1>4. CASE \E b, volume, reason : /\ ~HasActiveExit(b)
                                    /\ \E i \in Ids : Creates(i, "SELL", b, volume, reason)
    <2>0. PICK b, volume, reason : /\ ~HasActiveExit(b)
                                   /\ \E i \in Ids : Creates(i, "SELL", b, volume, reason)
      BY <1>4, Zenon
    <2>1. PICK i \in Ids : ~HasActiveExit(b) /\ Creates(i, "SELL", b, volume, reason)
      BY <2>0
    <2>2. CouldSell(b) = {}
      BY <2>1, CouldSellIsActive
    <2>3. /\ RowsExist' /\ NoOrderNoTrace' /\ EndsAreTrue' /\ LiveIsOpen'
          /\ \A c : c # b => CouldSell(c)' \subseteq CouldSell(c)
          /\ CouldSell(b)' \subseteq {i}
      BY <1>1, <2>1, <2>2, CreatedKeeps
    <2>4. Ids' = Ids
      BY DEF Ids
    <2>5. ASSUME NEW c \in Ids, NEW j \in CouldSell(c)', NEW k \in CouldSell(c)'
          PROVE  j = k
      BY <2>3, <2>5 DEF ExitInv, SingleExit
    <2>6. SingleExit'
      BY <2>4, <2>5 DEF SingleExit
    <2> QED  BY <2>3, <2>6 DEF ExitInv
  <1> QED  BY <1>2, <1>3, <1>4

-----------------------------------------------------------------------------
(* The theorems.                                                           *)

LEMMA ExitStep ==
  ASSUME ExitInv, [Next]_vars
  PROVE  ExitInv'
  <1>1. CASE UNCHANGED vars
    BY <1>1, ElsewhereStep DEF vars, concerned
  <1>2. ASSUME NEW r \in reports, ApplyReport(r)
        PROVE  ExitInv'
    BY <1>2, ApplyReportStep
  <1>3. CASE NextDay
    BY <1>3, ElsewhereStep DEF NextDay, ledger, concerned
  <1>4. ASSUME NEW i \in Ids, Fill(i) \/ Refuse(i) \/ CreateOrder(i) \/ Cancel(i) \/ Expire(i)
        PROVE  ExitInv'
    BY <1>4, FillStep, RefuseStep, CreateOrderStep, CancelStep, ExpireStep
  <1>7. ASSUME NEW i \in Ids, Evaluate(i) \/ Defer(i)
        PROVE  ExitInv'
    BY <1>7, ElsewhereStep DEF Evaluate, Defer, provider, concerned
  <1>5. CASE Decide
    BY <1>5, DecideStep
  <1>6. ASSUME NEW s \in Scanners, ScanStep(s)
        PROVE  ExitInv'
    <2>1. CASE ScanCommits(s)
      BY <2>1, ScanCommitsStep
    <2>2. CASE ScanLists(s) \/ ScanSnapshot(s) \/ ScanEnds(s)
      BY <2>2, ElsewhereStep
         DEF ScanLists, ScanSnapshot, ScanEnds, ledger, provider, concerned
    <2> QED  BY <1>6, <2>1, <2>2 DEF ScanStep
  <1> QED  BY <1>1, <1>2, <1>3, <1>4, <1>5, <1>6, <1>7 DEF Next, FillSome, Lane, ApplySome

\* The invariant of the exits holds for any number of monitors, lots and setbacks:
\* an order the provider still works on is never stored as ended.
THEOREM ExitInvariance == Spec => []ExitInv
  <1>1. Init => ExitInv
    BY ExitInit
  <1>2. ExitInv /\ [Next]_vars => ExitInv'
    BY ExitStep
  <1> QED  BY <1>1, <1>2, PTL DEF Spec

\* Of all the SELL intents of a cycle at most one is ready or has an order the
\* provider still works on, whatever the monitors, the lane and late reports do
\* (exit.go: HasActiveExit inside the scan's transaction).
THEOREM NoSecondExit == Spec => []OneExitAtATime
  <1>1. ExitInv => OneExitAtATime
    BY SingleExitCounts DEF ExitInv
  <1> QED  BY <1>1, ExitInvariance, PTL

-----------------------------------------------------------------------------
(***************************************************************************)
(* Sums over orders.  A sum of volumes is the number of lots they make, so *)
(* that the theorems on finite sets speak of it.                           *)
(***************************************************************************)
Lots(rows, S) == {p \in S \X (1..BuyVolume) : p[2] <= rows[p[1]].filled}
Count(rows, S) == Cardinality(Lots(rows, S))
Filled(rows, S) == \A i \in S : rows[i].filled \in 0..BuyVolume

\* The lots of finitely many orders are finitely many.
LEMMA LotsCounted ==
  ASSUME NEW rows, NEW S, IsFiniteSet(S)
  PROVE  IsFiniteSet(Lots(rows, S)) /\ Count(rows, S) \in Nat
  <1>1. IsFiniteSet(1..BuyVolume)
    BY FS_Interval, PositionsAssumption
  <1>2. IsFiniteSet(S \X (1..BuyVolume))
    BY <1>1, FS_Product
  <1>3. Lots(rows, S) \in SUBSET (S \X (1..BuyVolume))
    BY DEF Lots
  <1> QED  BY <1>2, <1>3, FS_Subset, FS_CardinalityType DEF Count

\* No orders have no lots.
LEMMA NoLots == \A rows : Count(rows, {}) = 0
  <1> TAKE rows
  <1>1. Lots(rows, {}) = {}
    BY DEF Lots
  <1> QED  BY <1>1, FS_EmptySet DEF Count

\* An order's lots are its own volume and those of the others.
LEMMA LotsSplit ==
  ASSUME NEW rows, NEW S, IsFiniteSet(S), NEW x \in S, rows[x].filled \in 0..BuyVolume
  PROVE  Count(rows, S) = rows[x].filled + Count(rows, S \ {x})
  <1> DEFINE n == rows[x].filled
             own == {x} \X (1..n)
             rest == Lots(rows, S \ {x})
  <1>1. Lots(rows, S) = own \union rest
    BY PositionsAssumption DEF Lots
  <1>2. own \intersect rest = {}
    BY DEF Lots
  <1>3. n \in Nat
    BY PositionsAssumption
  <1>4. IsFiniteSet(own) /\ Cardinality(own) = n
    <2> HIDE DEF n
    <2>1. IsFiniteSet(1..n) /\ Cardinality(1..n) = n
      BY <1>3, FS_Interval
    <2>2. IsFiniteSet({x}) /\ Cardinality({x}) = 1
      BY FS_Singleton
    <2> DEFINE lots == 1..n
    <2> HIDE DEF lots
    <2>3. IsFiniteSet({x} \X lots) /\ Cardinality({x} \X lots) = 1 * Cardinality(lots)
      BY <2>1, <2>2, FS_Product DEF lots
    <2> QED  BY <1>3, <2>1, <2>3 DEF lots
  <1>5. IsFiniteSet(S \ {x})
    BY FS_RemoveElement
  <1>6. IsFiniteSet(rest) /\ Cardinality(rest) \in Nat
    BY <1>5, LotsCounted DEF Count
  <1> HIDE DEF n, own, rest
  <1>7. Cardinality(own \union rest) = n + Cardinality(rest)
    <2>1. Cardinality(own \union rest)
            = Cardinality(own) + Cardinality(rest) - Cardinality(own \intersect rest)
      BY <1>4, <1>6, FS_Union
    <2>2. Cardinality(own \intersect rest) = 0
      BY <1>2, FS_EmptySet
    <2> QED  BY <1>3, <1>4, <1>6, <2>1, <2>2
  <1> QED  BY <1>1, <1>7 DEF Count, n, rest

\* The fold over a finite set of orders is the number of their lots: on the smallest
\* subset on which the two differed, the fold would take one step to a smaller one.
LEMMA SumIsCount ==
  ASSUME NEW rows, NEW S, IsFiniteSet(S), Filled(rows, S)
  PROVE  MapThenSumSet(LAMBDA i : rows[i].filled, S) = Count(rows, S)
  <1> DEFINE body(g) == [s \in SUBSET S |->
                           IF s = {} THEN 0
                           ELSE rows[CHOOSE x \in s : TRUE].filled + g[s \ {CHOOSE x \in s : TRUE}]]
             iter == CHOOSE g : g = body(g)
             count == [s \in SUBSET S |-> Count(rows, s)]
  <1>1. MapThenSumSet(LAMBDA i : rows[i].filled, S) = iter[S]
    BY DEF MapThenSumSet, MapThenFoldSet
  <1>2. ASSUME NEW s \in SUBSET S
        PROVE  count[s] = IF s = {} THEN 0
                          ELSE rows[CHOOSE x \in s : TRUE].filled + count[s \ {CHOOSE x \in s : TRUE}]
    <2>1. CASE s = {}
      BY <2>1, NoLots
    <2>2. CASE s # {}
      <3> DEFINE x == CHOOSE y \in s : TRUE
      <3>1. x \in s
        BY <2>2
      <3> HIDE DEF x
      <3>2. IsFiniteSet(s) /\ rows[x].filled \in 0..BuyVolume
        BY <3>1, FS_Subset DEF Filled
      <3>3. Count(rows, s) = rows[x].filled + Count(rows, s \ {x})
        BY <3>1, <3>2, LotsSplit
      <3>4. count[s] = rows[x].filled + count[s \ {x}]
        BY <3>3
      <3> QED  BY <2>2, <3>4 DEF x
    <2> QED  BY <2>1, <2>2
  <1>3. count = body(count)
    BY <1>2
  <1>4. iter = body(iter)
    <2> HIDE DEF body
    <2> QED BY <1>3
  <1>5. \A s \in SUBSET S : iter[s] = IF s = {} THEN 0
                          ELSE rows[CHOOSE x \in s : TRUE].filled + iter[s \ {CHOOSE x \in s : TRUE}]
    <2> DEFINE it == iter
    <2>1. it = body(it)
      BY <1>4
    <2> HIDE DEF it, iter
    <2> QED BY <2>1 DEF it
  <1> HIDE DEF iter, count, body
  <1> DEFINE bad == {s \in SUBSET S : iter[s] # count[s]}
  <1>6. CASE bad = {}
    BY <1>1, <1>6 DEF count
  <1>7. CASE bad # {}
    <2>1. IsWellFoundedOn(StrictSubsetOrdering(S), SUBSET S)
      BY FS_StrictSubsetOrderingWellFounded, FS_FiniteSubsetsOfFinite
    <2>2. PICK s \in bad : \A t \in bad : <<t, s>> \notin StrictSubsetOrdering(S)
      BY <1>7, <2>1, WFMin
    <2> DEFINE x == CHOOSE y \in s : TRUE
    <2>3. s # {}
      BY <1>2, <1>5
    <2>4. x \in s
      BY <2>3
    <2>5. iter[s] = rows[x].filled + iter[s \ {x}]
      BY <1>5, <2>3
    <2>6. count[s] = rows[x].filled + count[s \ {x}]
      BY <1>2, <2>3
    <2> HIDE DEF x
    <2>7. <<s \ {x}, s>> \in StrictSubsetOrdering(S)
      BY <2>4 DEF StrictSubsetOrdering
    <2>8. s \ {x} \notin bad
      BY <2>2, <2>7
    <2> QED  BY <2>2, <2>5, <2>6, <2>8
  <1> QED  BY <1>6, <1>7

\* Equal volumes make equal sums.
LEMMA CountSame ==
  ASSUME NEW rows, NEW other, NEW S, \A i \in S : rows[i].filled = other[i].filled
  PROVE  Count(rows, S) = Count(other, S)
  <1>1. Lots(rows, S) = Lots(other, S)
    BY DEF Lots
  <1> QED  BY <1>1 DEF Count

\* One volume changes, and the sum by as much.
LEMMA CountChanged ==
  ASSUME NEW rows, NEW other, NEW S, IsFiniteSet(S), NEW x \in S,
         rows[x].filled \in 0..BuyVolume, other[x].filled \in 0..BuyVolume,
         \A i \in S \ {x} : rows[i].filled = other[i].filled
  PROVE  Count(other, S) = Count(rows, S) + other[x].filled - rows[x].filled
  <1> DEFINE T == S \ {x}
  <1>1. IsFiniteSet(T)
    BY FS_RemoveElement
  <1>2. Count(rows, T) = Count(other, T)
    BY CountSame
  <1>3. Count(rows, T) \in Nat
    BY <1>1, LotsCounted
  <1>4. /\ Count(rows, S) = rows[x].filled + Count(rows, T)
        /\ Count(other, S) = other[x].filled + Count(other, T)
    BY LotsSplit
  <1> HIDE DEF T
  <1> QED  BY <1>2, <1>3, <1>4, PositionsAssumption

\* There are finitely many ids.
LEMMA IdsFinite == IsFiniteSet(Ids) /\ Ids \subseteq Nat /\ None \notin Ids
  <1>1. IsFiniteSet(1..MaxIntents) /\ 1..MaxIntents \subseteq Nat
    BY PositionsAssumption, FS_Interval
  <1> QED  BY <1>1, PositionsAssumption DEF Ids

-----------------------------------------------------------------------------
(* The inductive invariant of the account.                                 *)

\* The exits of cycle b have sold so much, by rows.
Sold(rows, b) == Count(rows, SellsOf(b))

\* What the provider has left of BUY b: executed, less what its exits executed.
Executed == [i \in Ids |-> [filled |-> exec[i]]]
Holds(b) == exec[b] - Sold(Executed, b)

\* All that is held was bought by b.
OwnedBy(b) == \A c \in Ids : IsBuy(c) => Holds(c) = IF c = b THEN held ELSE 0

ScanColumns == {"step", "cycles", "held", "available", "twin"}
ScansTyped ==
  /\ DOMAIN scan = Scanners
  /\ \A s \in Scanners : /\ DOMAIN scan[s] = ScanColumns
                         /\ scan[s].cycles \subseteq Ids /\ scan[s].available \in Nat

\* An order has a status; an exit is of a cycle that exists, as is one a monitor listed.
IntentsBelong ==
  /\ \A i \in Ids :
       /\ intent[i].status = "ORDER_CREATED" => order[i].status \in OrderStatuses
       /\ cycle[i].status # "NONE" => intent[i].status = "ORDER_CREATED"
       /\ i \in SellsOf(intent[i].cycle) =>
            intent[i].cycle \in Ids /\ cycle[intent[i].cycle].status # "NONE"
  /\ \A s \in Scanners : \A b \in scan[s].cycles : cycle[b].status # "NONE"
  /\ \A i \in evaluated : intent[i].status # "NONE"

\* The ledger and the reports are behind the provider, and the provider behind the
\* intent; a report that ends an order has all that was executed of it.
VolumesGrow ==
  /\ \A i \in Ids : order[i].filled <= exec[i] /\ exec[i] <= intent[i].volume
  /\ \A r \in reports : /\ r.status \in EventStatuses /\ r.at \in Nat
                        /\ r.cum \in 0..exec[r.order]
                        /\ IsTerminalOrderStatus(r.status) => r.cum = exec[r.order]

\* What the ledger has not is in a report; of an order that ended it has all.
Told(i) == order[i].filled = exec[i]
NothingLost ==
  \A i \in Ids :
    /\ Told(i) \/ \E r \in reports : r.order = i /\ r.cum = exec[i]
    /\ IsTerminalOrderStatus(order[i].status) => Told(i)

\* A cycle is what its orders say, and exists once its BUY has filled; one is open.
CyclesFollow ==
  /\ \A b \in Ids :
       IF cycle[b].status = "NONE" THEN IsBuy(b) => order[b].filled = 0
       ELSE /\ IsBuy(b)
            /\ cycle[b].current = order[b].filled - Sold(order, b)
            /\ cycle[b].status = "CLOSED" =>
                 cycle[b].current = 0 /\ IsTerminalOrderStatus(order[b].status)
  /\ \A b, c \in OpenCycles : b = c

\* One order is open at a time.
OneOpen == \A i, j \in OpenOrders : i = j

\* BUY p was created while another's shares were held, and opened no cycle yet.
Pyramids(p) ==
  /\ p \in OpenOrders /\ IsBuy(p) /\ cycle[p].status = "NONE"
  /\ \E b \in OpenCycles : cycle[b].current > 0
Pyramiding == \E p \in Ids : Pyramids(p) /\ exec[p] > 0

\* One BUY owns all that is held, unless a second one was executed.
OneOwner ==
  /\ today <= held
  /\ \/ held = 0 /\ OwnedBy(None)
     \/ \E b \in Ids : IsBuy(b) /\ OwnedBy(b)
     \/ Pyramiding

\* The order the provider works on is the owner's, or a second BUY, and the shares it
\* sells are there.
LiveOwner ==
  \A i \in live : IF IsBuy(i) THEN OwnedBy(i) \/ Pyramids(i)
                  ELSE /\ OwnedBy(intent[i].cycle)
                       /\ intent[i].volume - exec[i] <= held - today

\* So are those of an exit that is decided on.
Covered(i) ==
  intent[i].status = "READY" /\ ~IsBuy(i) =>
    \/ Pyramiding
    \/ /\ OwnedBy(intent[i].cycle)
       /\ 0 < held - today /\ intent[i].volume <= held - today
EvaluatedCovered == \A i \in evaluated : Covered(i)

BookInv == /\ TypeOK /\ ScansTyped /\ IntentsBelong /\ VolumesGrow /\ NothingLost
           /\ CyclesFollow /\ OneOpen /\ OneOwner /\ LiveOwner /\ EvaluatedCovered

-----------------------------------------------------------------------------
(* What the conjuncts say together.                                        *)

\* A cycle has finitely many exits.
LEMMA SellsFinite == \A b : SellsOf(b) \subseteq Ids /\ IsFiniteSet(SellsOf(b))
  <1> TAKE b
  <1>1. SellsOf(b) \in SUBSET Ids
    BY DEF SellsOf
  <1> QED  BY <1>1, IdsFinite, FS_Subset

\* SoldOf, the sum the ledger computes, is the sum the invariant speaks of.
LEMMA SoldOfIsSold ==
  ASSUME NEW rows, NEW b, Filled(rows, Ids)
  PROVE  SoldOf(rows, b) = Sold(rows, b) /\ Sold(rows, b) \in Nat
  <1>1. SellsOf(b) \subseteq Ids /\ IsFiniteSet(SellsOf(b))
    BY SellsFinite
  <1>2. Filled(rows, SellsOf(b))
    BY <1>1 DEF Filled
  <1>3. MapThenSumSet(LAMBDA i : rows[i].filled, SellsOf(b)) = Count(rows, SellsOf(b))
    BY <1>1, <1>2, SumIsCount
  <1> QED  BY <1>1, <1>3, LotsCounted DEF SoldOf, Sold

\* The sums of a state that satisfies the invariant are numbers.
LEMMA VolumesInRange ==
  ASSUME BookInv
  PROVE  /\ Filled(order, Ids) /\ Filled(Executed, Ids)
         /\ \A b : Sold(order, b) \in Nat /\ Sold(Executed, b) \in Nat
  <1>1. Filled(order, Ids) /\ Filled(Executed, Ids)
    BY DEF BookInv, TypeOK, Filled, Executed
  <1> QED  BY <1>1, SoldOfIsSold

\* What TypeOK says of every number.
LEMMA NumbersTyped ==
  ASSUME TypeOK
  PROVE  /\ \A i \in Ids : /\ order[i].filled \in Nat /\ order[i].filled <= BuyVolume
                          /\ exec[i] \in Nat /\ exec[i] <= BuyVolume
                          /\ intent[i].volume \in Nat /\ intent[i].volume <= BuyVolume
                          /\ cycle[i].current \in Nat /\ cycle[i].current <= BuyVolume
         /\ held \in Nat /\ today \in Nat /\ BuyVolume \in Nat
  <1>1. ASSUME NEW i \in Ids
        PROVE  /\ order[i].filled \in 0..BuyVolume /\ exec[i] \in 0..BuyVolume
               /\ intent[i].volume \in 0..BuyVolume /\ cycle[i].current \in 0..BuyVolume
    BY DEF TypeOK
  <1>2. held \in Nat /\ today \in Nat
    BY DEF TypeOK
  <1> QED  BY <1>1, <1>2, PositionsAssumption

\* Where the ledger has been told everything of a cycle, it is what the provider has
\* left of its BUY: nothing if it is closed, or was never opened.
ToldOf(b) == Told(b) /\ \A i \in SellsOf(b) : Told(i)

LEMMA ToldCycles ==
  ASSUME BookInv, NEW b \in Ids, IsBuy(b), ToldOf(b)
  PROVE  Holds(b) = IF b \in OpenCycles THEN cycle[b].current ELSE 0
  <1>1. Sold(order, b) = Sold(Executed, b)
    <2>1. \A i \in SellsOf(b) : order[i].filled = Executed[i].filled
      BY DEF ToldOf, SellsOf, Told, Executed
    <2> QED  BY <2>1, CountSame DEF Sold
  <1>2. CASE cycle[b].status # "NONE"
    BY <1>1, <1>2 DEF BookInv, CyclesFollow, Holds, ToldOf, Told, OpenCycles, TypeOK
  <1>3. CASE cycle[b].status = "NONE"
    <2>1. exec[b] = 0
      BY <1>3 DEF BookInv, CyclesFollow, ToldOf, Told
    <2>2. SellsOf(b) = {}
      BY <1>3 DEF BookInv, IntentsBelong, SellsOf
    <2> QED  BY <1>3, <2>1, <2>2, NoLots DEF Holds, Sold, OpenCycles
  <1> QED  BY <1>2, <1>3

\* And no second BUY was executed: nothing of it could have been told.
LEMMA ToldNoPyramid ==
  ASSUME BookInv, \A i \in Ids : Told(i)
  PROVE  ~Pyramiding
  <1> SUFFICES ASSUME NEW p \in Ids, Pyramids(p), exec[p] > 0
               PROVE  FALSE
    BY DEF Pyramiding
  <1>1. order[p].filled = 0
    BY DEF Pyramids, BookInv, CyclesFollow
  <1> QED  BY <1>1, NumbersTyped DEF BookInv, Told

\* Then the open cycle owns what is held.
LEMMA ToldOwner ==
  ASSUME BookInv, \A i \in Ids : Told(i)
  PROVE  /\ LedgerAgrees
         /\ \A b \in OpenCycles : OwnedBy(b)
  <1>1. \A b \in OpenCycles : b \in Ids /\ IsBuy(b) /\ \A c \in OpenCycles : c = b
    BY DEF BookInv, CyclesFollow, OpenCycles
  <1>2. \A c \in Ids : IsBuy(c) => Holds(c) = IF c \in OpenCycles THEN cycle[c].current ELSE 0
    BY ToldCycles, SellsFinite DEF ToldOf
  <1>3. CASE OpenCycles = {}
    <2>1. held = 0
      BY <1>2, <1>3, ToldNoPyramid DEF BookInv, OneOwner, OwnedBy
    <2> QED  BY <1>3, <2>1 DEF LedgerAgrees
  <1>4. ASSUME NEW b \in OpenCycles
        PROVE  Holds(b) = held /\ OwnedBy(b) /\ cycle[b].current = held
    <2>1. \A c \in Ids : IsBuy(c) /\ c # b => Holds(c) = 0
      BY <1>1, <1>2
    <2>2. Holds(b) = held
      <3>1. CASE held = 0 /\ OwnedBy(None)
        BY <1>1, <3>1, IdsFinite DEF OwnedBy
      <3>2. ASSUME NEW o \in Ids, IsBuy(o), OwnedBy(o)
            PROVE  Holds(b) = held
        BY <1>1, <2>1, <3>2 DEF OwnedBy
      <3> QED  BY <3>1, <3>2, ToldNoPyramid DEF BookInv, OneOwner
    <2> QED  BY <1>1, <1>2, <2>1, <2>2 DEF OwnedBy
  <1> QED  BY <1>3, <1>4 DEF LedgerAgrees

\* Where all has been reported the ledger agrees with the account.
LEMMA BookAgrees ==
  ASSUME BookInv, LiveIsOpen
  PROVE  CyclesMatchAccount
  <1> SUFFICES ASSUME reports = {}
               PROVE  /\ LedgerAgrees
                      /\ \A b \in Ids : cycle[b].status = "CLOSED" =>
                           order[b].filled = SoldOf(order, b) /\ b \notin live
    BY DEF CyclesMatchAccount
  <1>1. \A i \in Ids : Told(i)
    BY DEF BookInv, NothingLost
  <1>2. ASSUME NEW b \in Ids, cycle[b].status = "CLOSED"
        PROVE  order[b].filled = SoldOf(order, b) /\ b \notin live
    <2>1. order[b].filled - Sold(order, b) = 0 /\ IsTerminalOrderStatus(order[b].status)
      BY <1>2 DEF BookInv, CyclesFollow
    <2>2. Filled(order, Ids)
      BY VolumesInRange
    <2>3. SoldOf(order, b) = Sold(order, b) /\ Sold(order, b) \in Nat
      BY <2>2, SoldOfIsSold
    <2>4. b \notin live
      BY <2>1 DEF LiveIsOpen
    <2> QED  BY <2>1, <2>3, <2>4, NumbersTyped DEF BookInv
  <1> QED  BY <1>1, <1>2, ToldOwner

-----------------------------------------------------------------------------
(* Every step keeps the account's invariant.                               *)

\* It holds when nothing has been bought.
LEMMA BookInit ==
  ASSUME Init
  PROVE  BookInv
  <1>1. TypeOK /\ ScansTyped
    <2>1. 0 \in 0..BuyVolume /\ 0 \in 0..MaxSetbacks
      BY PositionsAssumption
    <2>2. "NONE" \in IntentStatuses
      BY DEF IntentStatuses
    <2>3. intent \in [Ids -> [status : IntentStatuses, action : {"BUY", "SELL"},
                              cycle : Ids \union {None}, volume : 0..BuyVolume,
                              reason : Reasons \union {""}]]
      BY <2>1, <2>2 DEF Init
    <2>4. order \in [Ids -> [status : OrderStatuses \union {"NONE"}, filled : 0..BuyVolume,
                             lastAt : Nat]]
      BY <2>1 DEF Init
    <2>5. cycle \in [Ids -> [status : {"NONE", "OPEN", "EXIT_PENDING", "CLOSED"},
                             current : 0..BuyVolume, reason : Reasons \union {""}]]
      BY <2>1 DEF Init
    <2>6. ScansTyped
      BY DEF Init, Quiet, ScansTyped, ScanColumns
    <2>7. /\ exec \in [Ids -> 0..BuyVolume] /\ held \in Nat /\ today \in Nat
          /\ live \union evaluated \subseteq Ids /\ setbacks \in 0..MaxSetbacks
      BY <2>1 DEF Init
    <2> QED  BY <2>3, <2>4, <2>5, <2>6, <2>7 DEF TypeOK
  <1>2. \A i \in Ids : intent[i].status = "NONE"
    BY DEF Init
  <1>3. (\A b : SellsOf(b) = {}) /\ (\A b \in Ids : ~IsBuy(b))
    BY <1>2 DEF SellsOf, IsBuy
  <1>4. IntentsBelong
    BY <1>2, <1>3 DEF Init, IntentsBelong, Quiet
  <1>5. VolumesGrow /\ NothingLost
    <2>1. /\ \A i \in Ids : order[i].filled = 0 /\ exec[i] = 0 /\ intent[i].volume = 0
          /\ reports = {}
      BY DEF Init
    <2> QED  BY <2>1 DEF VolumesGrow, NothingLost, Told
  <1>6. CyclesFollow /\ LiveOwner /\ EvaluatedCovered
    BY <1>3 DEF Init, CyclesFollow, OpenCycles, LiveOwner, EvaluatedCovered
  <1>7. OneOwner
    <2>1. today = 0 /\ held = 0
      BY DEF Init
    <2>2. OwnedBy(None)
      BY <1>3 DEF OwnedBy
    <2> QED  BY <2>1, <2>2 DEF OneOwner
  <1>8. OneOpen
    BY DEF Init, OneOpen, OpenOrders, OpenStatuses
  <1> QED  BY <1>1, <1>4, <1>5, <1>6, <1>7, <1>8 DEF BookInv

\* No intent appears, and none becomes another's.
KindsKept ==
  \A i \in Ids : /\ intent'[i].status = "NONE" <=> intent[i].status = "NONE"
                 /\ intent'[i].action = intent[i].action /\ intent'[i].cycle = intent[i].cycle
                 /\ intent'[i].volume = intent[i].volume

\* Then each cycle has the exits it had.
LEMMA KindsKeptKeeps ==
  ASSUME KindsKept
  PROVE  /\ Ids' = Ids
         /\ \A b : SellsOf(b)' = SellsOf(b)
         /\ \A b \in Ids : IsBuy(b)' <=> IsBuy(b)
  <1>1. Ids' = Ids
    BY DEF Ids
  <1> QED  BY <1>1 DEF KindsKept, SellsOf, IsBuy

\* And the provider holds of each BUY what it held,
LEMMA HoldsKept ==
  ASSUME KindsKept, UNCHANGED exec
  PROVE  \A b \in Ids : Holds(b)' = Holds(b)
  <1>1. Executed' = Executed
    BY KindsKeptKeeps DEF Executed
  <1>2. \A b : Sold(Executed, b)' = Sold(Executed, b)
    <2> TAKE b
    <2>1. Sold(Executed, b)' = Count(Executed', SellsOf(b)')
      BY DEF Sold, Count, Lots
    <2> QED  BY <1>1, <2>1, KindsKeptKeeps DEF Sold
  <1> QED  BY <1>2 DEF Holds

\* and the ledger's sums are the same.
LEMMA SoldKept ==
  ASSUME KindsKept, \A i \in Ids : order'[i].filled = order[i].filled
  PROVE  \A b : Sold(order, b)' = Sold(order, b)
  <1> TAKE b
  <1>1. \A i \in SellsOf(b) : order'[i].filled = order[i].filled
    BY DEF SellsOf
  <1>2. Count(order', SellsOf(b)) = Count(order, SellsOf(b))
    BY <1>1, CountSame
  <1>3. Sold(order, b)' = Count(order', SellsOf(b))
    BY KindsKeptKeeps DEF Sold, Count, Lots
  <1> QED  BY <1>2, <1>3 DEF Sold

\* Who belongs to whom stays, as orders and cycles are made for intents that have them.
LEMMA BelongKeeps ==
  ASSUME IntentsBelong, KindsKept,
         \A j \in Ids : /\ intent'[j].status = "ORDER_CREATED" => order'[j].status \in OrderStatuses
                        /\ cycle'[j].status # "NONE" => intent'[j].status = "ORDER_CREATED"
                        /\ cycle[j].status # "NONE" => cycle'[j].status # "NONE",
         \A s \in Scanners : \A b \in scan'[s].cycles : cycle'[b].status # "NONE",
         \A j \in evaluated' : intent'[j].status # "NONE"
  PROVE  IntentsBelong'
  <1>1. ASSUME NEW j \in Ids
        PROVE  (j \in SellsOf(intent[j].cycle) =>
                  intent[j].cycle \in Ids /\ cycle[intent[j].cycle].status # "NONE")'
    <2>1. intent'[j].cycle = intent[j].cycle
      BY DEF KindsKept
    <2>2. (j \in SellsOf(intent[j].cycle))' <=> j \in SellsOf(intent[j].cycle)
      BY KindsKeptKeeps DEF SellsOf, KindsKept
    <2>3. j \in SellsOf(intent[j].cycle) =>
            intent[j].cycle \in Ids /\ cycle[intent[j].cycle].status # "NONE"
      BY DEF IntentsBelong
    <2> QED  BY <2>1, <2>2, <2>3, KindsKeptKeeps
  <1> QED  BY <1>1, KindsKeptKeeps DEF IntentsBelong

\* The owner stays the owner.
LEMMA OwnedKept ==
  ASSUME KindsKept, UNCHANGED <<exec, held>>
  PROVE  \A b : OwnedBy(b)' <=> OwnedBy(b)
  BY KindsKeptKeeps, HoldsKept DEF OwnedBy

\* A second BUY stays one while its order is open, it opens no cycle, and the cycle
\* that holds shares stays.
LEMMA PyramidsStay ==
  ASSUME NEW p \in Ids, Pyramids(p), IsBuy(p)', order'[p].status \in OpenStatuses,
         cycle'[p].status = "NONE",
         \A b \in OpenCycles : cycle[b].current > 0 =>
           b \in OpenCycles' /\ cycle'[b].current = cycle[b].current
  PROVE  Pyramids(p)'
  BY DEF Pyramids, OpenOrders, Ids

IntentType == [status : IntentStatuses, action : {"BUY", "SELL"}, cycle : Ids \union {None},
               volume : 0..BuyVolume, reason : Reasons \union {""}]
OrderType == [status : OrderStatuses \union {"NONE"}, filled : 0..BuyVolume, lastAt : Nat]
CycleType == [status : {"NONE", "OPEN", "EXIT_PENDING", "CLOSED"},
              current : 0..BuyVolume, reason : Reasons \union {""}]

\* The rows of the three tables.
LEMMA TablesTyped ==
  ASSUME TypeOK
  PROVE  intent \in [Ids -> IntentType] /\ order \in [Ids -> OrderType] /\ cycle \in [Ids -> CycleType]
  BY DEF TypeOK, IntentType, OrderType, CycleType

\* A report that says the truth of its order.
TrueReport(r) ==
  /\ r.status \in EventStatuses /\ r.at \in Nat /\ r.cum \in 0..exec[r.order]
  /\ IsTerminalOrderStatus(r.status) => r.cum = exec[r.order]

\* Steps that execute nothing, store nothing of an order and open no cycle: a monitor
\* that commits nothing, the end of a day, an intent or an order that is given up, an
\* intent that is decided on.
LEMMA QuietBookStep ==
  ASSUME BookInv, KindsKept, UNCHANGED <<order, cycle, exec, held>>,
         today' \in {today, 0}, live' \subseteq live, setbacks' \in 0..MaxSetbacks,
         intent' \in [Ids -> IntentType],
         \A i \in Ids : /\ intent'[i].status = "ORDER_CREATED" <=> intent[i].status = "ORDER_CREATED"
                        /\ intent'[i].status = "READY" => intent[i].status = "READY",
         evaluated' \subseteq Ids,
         \A i \in evaluated' : Covered(i) /\ intent[i].status # "NONE",
         reports \subseteq reports', \A r \in reports' : r \in reports \/ TrueReport(r),
         ScansTyped', \A s \in Scanners : \A b \in scan'[s].cycles : cycle[b].status # "NONE"
  PROVE  BookInv'
  <1>1. Ids' = Ids /\ None' = None /\ IntentType' = IntentType
    BY DEF Ids, IntentType
  <1>2. /\ today' <= held /\ held - today <= held' - today' /\ today' \in Nat
        /\ held \in Nat /\ today \in Nat /\ held' \in Nat
    BY NumbersTyped DEF BookInv, OneOwner
  <1>3. TypeOK'
    BY <1>1, <1>2 DEF BookInv, TypeOK, IntentType
  <1>4. IntentsBelong'
    BY <1>1, KindsKeptKeeps DEF BookInv, IntentsBelong, KindsKept
  <1>5. VolumesGrow'
    <2>1. \A r \in reports' : TrueReport(r)'
      BY DEF BookInv, VolumesGrow, TrueReport
    <2>2. \A i \in Ids : order[i].filled <= exec[i] /\ exec[i] <= intent'[i].volume
      BY DEF BookInv, VolumesGrow, KindsKept
    <2> QED  BY <1>1, <2>1, <2>2 DEF VolumesGrow, TrueReport
  <1>6. NothingLost'
    BY <1>1 DEF BookInv, NothingLost, Told
  <1>7. CyclesFollow' /\ OneOpen'
    <2>1. \A b : Sold(order, b)' = Sold(order, b)
      BY SoldKept
    <2>2. OneOpen'
      BY <1>1 DEF BookInv, OneOpen, OpenOrders
    <2> QED  BY <1>1, <2>1, <2>2, KindsKeptKeeps DEF BookInv, CyclesFollow, OpenCycles
  <1>8. /\ \A b : OwnedBy(b)' <=> OwnedBy(b)
        /\ \A p \in Ids : Pyramids(p) => Pyramids(p)'
        /\ Pyramiding => Pyramiding'
    <2>1. \A p \in Ids : Pyramids(p) => Pyramids(p)'
      BY <1>1, KindsKeptKeeps DEF Pyramids, OpenOrders, OpenCycles
    <2> QED  BY <1>1, <2>1, OwnedKept DEF Pyramiding
  <1>9. OneOwner'
    BY <1>1, <1>2, <1>8, KindsKeptKeeps DEF BookInv, OneOwner
  <1>10. LiveOwner'
    <2>1. \A i \in live' : i \in Ids /\ (IsBuy(i)' <=> IsBuy(i))
      BY KindsKeptKeeps DEF BookInv, TypeOK
    <2>2. \A i \in live' : intent'[i].cycle = intent[i].cycle /\ intent'[i].volume = intent[i].volume
      BY <2>1 DEF KindsKept
    <2>3. \A i \in live' : intent[i].volume - exec[i] <= held - today =>
                            (intent[i].volume - exec[i] <= held - today)'
      <3> TAKE i \in live'
      <3>1. intent[i].volume \in Nat /\ exec[i] \in Nat /\ held \in Nat /\ today \in Nat
        BY <2>1, NumbersTyped DEF BookInv
      <3> QED  BY <1>2, <2>2, <3>1
    <2> QED  BY <1>8, <2>1, <2>2, <2>3 DEF BookInv, LiveOwner
  <1>11. EvaluatedCovered'
    <2> SUFFICES ASSUME NEW i \in evaluated', intent'[i].status = "READY", ~IsBuy(i)', ~Pyramiding'
                 PROVE  /\ OwnedBy(intent[i].cycle)' /\ 0 < held' - today'
                        /\ intent'[i].volume <= held' - today'
      BY KindsKeptKeeps DEF EvaluatedCovered, Covered
    <2>1. i \in Ids /\ intent'[i].volume = intent[i].volume /\ intent[i].volume \in Nat
          /\ intent'[i].cycle = intent[i].cycle
      BY NumbersTyped DEF KindsKept, BookInv
    <2>2. OwnedBy(intent[i].cycle) /\ 0 < held - today /\ intent[i].volume <= held - today
      BY <1>8, <2>1, KindsKeptKeeps DEF Covered
    <2>3. OwnedBy(intent[i].cycle)'
      BY <1>8, <2>1, <2>2
    <2>4. 0 < held' - today' /\ intent[i].volume <= held' - today'
      <3>1. held - today \in Int /\ held' - today' \in Int
        BY <1>2
      <3>2. \A v, m, n \in Int : 0 < m /\ v <= m /\ m <= n => 0 < n /\ v <= n
        OBVIOUS
      <3>3. intent[i].volume \in Int
        BY <2>1
      <3>4. held - today <= held' - today'
        BY <1>2
      <3> QED  BY <2>2, <3>1, <3>2, <3>3, <3>4
    <2> QED  BY <2>1, <2>3, <2>4
  <1> QED  BY <1>3, <1>4, <1>5, <1>6, <1>7, <1>9, <1>10, <1>11 DEF BookInv

\* A monitor that commits nothing, the end of a day, a stutter.
LEMMA ElsewhereBookStep ==
  ASSUME BookInv, UNCHANGED <<intent, order, cycle, evaluated, exec, held, live, reports, setbacks>>,
         today' \in {today, 0}, ScansTyped',
         \A s \in Scanners : \A b \in scan'[s].cycles : cycle[b].status # "NONE"
  PROVE  BookInv'
  <1>1. KindsKept
    BY DEF KindsKept
  <1>2. /\ setbacks' \in 0..MaxSetbacks /\ intent' \in [Ids -> IntentType]
        /\ evaluated' \subseteq Ids
    BY DEF BookInv, TypeOK, IntentType
  <1>3. \A i \in evaluated' : Covered(i) /\ intent[i].status # "NONE"
    BY DEF BookInv, EvaluatedCovered, IntentsBelong
  <1> QED  BY <1>1, <1>2, <1>3, QuietBookStep

\* Setbacks are bounded by their guard.
LEMMA SetbackTyped ==
  ASSUME TypeOK, Setback
  PROVE  setbacks' \in 0..MaxSetbacks
  <1>1. setbacks \in 0..MaxSetbacks
    BY DEF TypeOK
  <1> QED  BY <1>1, PositionsAssumption DEF Setback

\* An intent gets another status, and no order.
LEMMA RestatedKeeps ==
  ASSUME BookInv, NEW i \in Ids, NEW status \in IntentStatuses \ {"NONE"}, intent[i].status = "READY",
         intent' = [intent EXCEPT ![i].status = status]
  PROVE  KindsKept /\ intent' \in [Ids -> IntentType]
  <1>1. intent \in [Ids -> IntentType]
    BY DEF BookInv, TypeOK, IntentType
  <1>2. \A j \in Ids : /\ intent'[j].action = intent[j].action /\ intent'[j].cycle = intent[j].cycle
                       /\ intent'[j].volume = intent[j].volume
                       /\ intent'[j].status = IF j = i THEN status ELSE intent[j].status
    BY <1>1 DEF IntentType
  <1> QED  BY <1>1, <1>2 DEF KindsKept, IntentType

\* An intent ends without an order: it expires or is refused.
LEMMA EndedBookStep ==
  ASSUME BookInv, NEW i \in Ids, NEW status \in IntentStatuses \ {"NONE", "READY", "ORDER_CREATED"},
         Ends(i, status), setbacks' \in 0..MaxSetbacks
  PROVE  BookInv'
  <1>1. /\ intent[i].status = "READY" /\ intent' = [intent EXCEPT ![i].status = status]
        /\ UNCHANGED <<order, cycle, exec, held, live, today, reports, scan>>
        /\ evaluated' \subseteq evaluated
    BY DEF Ends, provider
  <1>2. KindsKept /\ intent' \in [Ids -> IntentType]
    BY <1>1, RestatedKeeps
  <1>3. \A j \in Ids : /\ intent'[j].status = "ORDER_CREATED" <=> intent[j].status = "ORDER_CREATED"
                       /\ intent'[j].status = "READY" => intent[j].status = "READY"
    BY <1>1 DEF BookInv, TypeOK
  <1>4. ScansTyped' /\ \A s \in Scanners : \A b \in scan'[s].cycles : cycle[b].status # "NONE"
    BY <1>1 DEF BookInv, ScansTyped, IntentsBelong, Ids
  <1>5. evaluated' \subseteq Ids /\ \A j \in evaluated' : Covered(j) /\ intent[j].status # "NONE"
    BY <1>1 DEF BookInv, TypeOK, EvaluatedCovered, IntentsBelong
  <1>6. /\ today' \in {today, 0} /\ live' \subseteq live /\ reports \subseteq reports'
        /\ \A r \in reports' : r \in reports \/ TrueReport(r)
        /\ UNCHANGED <<order, cycle, exec, held>>
    BY <1>1
  <1> QED  BY <1>2, <1>3, <1>4, <1>5, <1>6, QuietBookStep

LEMMA ExpireBookStep ==
  ASSUME BookInv, NEW i \in Ids, Expire(i)
  PROVE  BookInv'
  <1>1. "EXPIRED" \in IntentStatuses \ {"NONE", "READY", "ORDER_CREATED"}
    BY DEF IntentStatuses
  <1>2. Ends(i, "EXPIRED") /\ setbacks' \in 0..MaxSetbacks
    BY SetbackTyped DEF Expire, BookInv
  <1> QED  BY <1>1, <1>2, EndedBookStep

LEMMA RefuseBookStep ==
  ASSUME BookInv, NEW i \in Ids, Refuse(i)
  PROVE  BookInv'
  <1>1. "RISK_REJECTED" \in IntentStatuses \ {"NONE", "READY", "ORDER_CREATED"}
    BY DEF IntentStatuses
  <1>2. setbacks \in 0..MaxSetbacks
    BY DEF BookInv, TypeOK
  <1>3. Ends(i, "RISK_REJECTED") /\ setbacks' \in 0..MaxSetbacks
    BY <1>2, SetbackTyped DEF Refuse, BookInv
  <1> QED  BY <1>1, <1>3, EndedBookStep

\* What the provider gives up, it reports as it was executed.
LEMMA CancelBookStep ==
  ASSUME BookInv, NEW i \in Ids, Cancel(i)
  PROVE  BookInv'
  <1>1. /\ live' \subseteq live /\ Setback
        /\ UNCHANGED <<intent, order, cycle, evaluated, exec, held, today, scan>>
        /\ Reports(i, IF exec[i] = 0 THEN "REJECTED" ELSE "CANCELED", exec[i])
    BY DEF Cancel, ledger
  <1>2. KindsKept /\ intent' \in [Ids -> IntentType]
    BY <1>1 DEF KindsKept, BookInv, TypeOK, IntentType
  <1>3. setbacks' \in 0..MaxSetbacks
    BY <1>1, SetbackTyped DEF BookInv
  <1>4. reports \subseteq reports' /\ \A r \in reports' : r \in reports \/ TrueReport(r)
    <2>1. exec[i] \in Nat
      BY NumbersTyped DEF BookInv
    <2> QED  BY <1>1, <2>1 DEF Reports, TrueReport, EventStatuses
  <1>5. ScansTyped' /\ \A s \in Scanners : \A b \in scan'[s].cycles : cycle[b].status # "NONE"
    BY <1>1 DEF BookInv, ScansTyped, IntentsBelong, Ids
  <1>6. evaluated' \subseteq Ids /\ \A j \in evaluated' : Covered(j) /\ intent[j].status # "NONE"
    BY <1>1 DEF BookInv, TypeOK, EvaluatedCovered, IntentsBelong
  <1> QED  BY <1>1, <1>2, <1>3, <1>4, <1>5, <1>6, QuietBookStep

\* What is not a BUY is an exit, of a BUY that has filled.
LEMMA ExitOfBuy ==
  ASSUME BookInv, NEW i \in Ids, intent[i].status # "NONE", ~IsBuy(i)
  PROVE  /\ i \in SellsOf(intent[i].cycle)
         /\ intent[i].cycle \in Ids /\ IsBuy(intent[i].cycle)
         /\ cycle[intent[i].cycle].status # "NONE"
  <1>1. intent[i].action = "SELL"
    BY DEF BookInv, TypeOK, IsBuy
  <1>2. i \in SellsOf(intent[i].cycle)
    BY <1>1 DEF SellsOf
  <1> QED  BY <1>2 DEF BookInv, IntentsBelong, CyclesFollow

\* So is an exit that the provider works on.
LEMMA LiveExit ==
  ASSUME ExitInv, BookInv, NEW i \in live, ~IsBuy(i)
  PROVE  /\ i \in Ids /\ i \in SellsOf(intent[i].cycle)
         /\ intent[i].cycle \in Ids /\ IsBuy(intent[i].cycle)
         /\ cycle[intent[i].cycle].status # "NONE"
  BY ExitOfBuy DEF ExitInv, LiveIsOpen, NoOrderNoTrace

\* What is no BUY has no exits.
LEMMA NoBuyNoExit ==
  ASSUME BookInv, NEW b \in Ids, ~IsBuy(b)
  PROVE  SellsOf(b) = {} /\ cycle[b].status = "NONE"
  BY DEF BookInv, IntentsBelong, CyclesFollow, SellsOf

\* Intents appear, for BUYs or for exits of cycles there are, and cycles are marked.
IntentsAppear ==
  /\ intent' \in [Ids -> IntentType]
  /\ \A i \in Ids :
       IF intent[i].status # "NONE" THEN intent'[i] = intent[i]
       ELSE /\ intent'[i].status # "ORDER_CREATED"
            /\ intent'[i].status # "NONE" /\ intent'[i].action = "SELL" =>
                 intent'[i].cycle \in Ids /\ cycle[intent'[i].cycle].status # "NONE"

CyclesMarked ==
  /\ cycle' \in [Ids -> CycleType]
  /\ \A b \in Ids : /\ cycle'[b].current = cycle[b].current
                    /\ \/ cycle'[b].status = cycle[b].status
                       \/ {cycle[b].status, cycle'[b].status} \subseteq {"OPEN", "EXIT_PENDING"}

\* They change nothing of what was sold.
LEMMA AppearedSold ==
  ASSUME ExitInv, BookInv, IntentsAppear, NEW rows,
         \A i \in Ids : intent[i].status = "NONE" => rows[i].filled = 0, NEW b
  PROVE  Count(rows, SellsOf(b)') = Count(rows, SellsOf(b))
  <1>1. Ids' = Ids
    BY DEF Ids
  <1>2. SellsOf(b) \subseteq SellsOf(b)'
    BY <1>1 DEF SellsOf, IntentsAppear
  <1>3. \A i \in SellsOf(b)' : i \in SellsOf(b) \/ rows[i].filled = 0
    BY <1>1 DEF SellsOf, IntentsAppear
  <1>4. Lots(rows, SellsOf(b)') = Lots(rows, SellsOf(b))
    BY <1>2, <1>3 DEF Lots
  <1> QED  BY <1>4 DEF Count

\* Decisions and scans: what appears is not executed and not stored as filled.
LEMMA AppearBookStep ==
  ASSUME ExitInv, BookInv, IntentsAppear, CyclesMarked,
         UNCHANGED <<order, evaluated, exec, held, live, today, reports>>,
         setbacks' \in 0..MaxSetbacks, ScansTyped', \A s \in Scanners : \A b \in scan'[s].cycles : cycle[b].status # "NONE"
  PROVE  BookInv'
  <1>1. Ids' = Ids /\ None' = None /\ IntentType' = IntentType
    BY DEF Ids, IntentType
  <1>2. TypeOK'
    BY <1>1 DEF BookInv, TypeOK, IntentType, CycleType, IntentsAppear, CyclesMarked
  <1>3. \A i \in Ids : intent[i].status = "NONE" =>
                         exec[i] = 0 /\ order[i].filled = 0 /\ i \notin live
    BY DEF ExitInv, NoOrderNoTrace
  <1>4. \A b \in Ids : cycle'[b].status = "NONE" <=> cycle[b].status = "NONE"
    BY DEF CyclesMarked
  <1>5. IntentsBelong'
    <2>1. \A s \in Scanners : scan'[s].cycles \subseteq Ids
      BY <1>1 DEF ScansTyped
    <2>2. ASSUME NEW i \in Ids, intent'[i].status = "ORDER_CREATED"
          PROVE  order[i].status \in OrderStatuses
      BY <2>2 DEF IntentsAppear, BookInv, IntentsBelong
    <2>3. ASSUME NEW i \in Ids, i \in SellsOf(intent[i].cycle)'
          PROVE  intent'[i].cycle \in Ids /\ cycle'[intent'[i].cycle].status # "NONE"
      <3>1. CASE intent[i].status = "NONE"
        BY <1>1, <1>4, <2>3, <3>1 DEF SellsOf, IntentsAppear
      <3>2. CASE intent[i].status # "NONE"
        <4>1. i \in SellsOf(intent[i].cycle)
          BY <2>3, <3>2 DEF SellsOf, IntentsAppear
        <4> QED  BY <1>4, <3>2, <4>1 DEF IntentsAppear, BookInv, IntentsBelong
      <3> QED  BY <3>1, <3>2
    <2>4. \A c \in Ids : cycle'[c].status # "NONE" => intent'[c].status = "ORDER_CREATED"
      BY <1>4 DEF IntentsAppear, BookInv, IntentsBelong
    <2>5. \A j \in evaluated : intent'[j].status # "NONE"
      BY DEF BookInv, TypeOK, IntentsAppear, IntentsBelong
    <2> QED  BY <1>1, <1>4, <2>1, <2>2, <2>3, <2>4, <2>5 DEF IntentsBelong
  <1>6. VolumesGrow'
    <2>1. \A i \in Ids : order[i].filled <= exec[i] /\ exec[i] <= intent'[i].volume
      <3> TAKE i \in Ids
      <3>1. intent'[i].volume \in 0..BuyVolume
        BY DEF IntentsAppear, IntentType
      <3> QED  BY <1>3, <3>1, PositionsAssumption DEF BookInv, VolumesGrow, IntentsAppear
    <2> QED  BY <1>1, <2>1 DEF BookInv, VolumesGrow
  <1>7. NothingLost'
    BY <1>1 DEF BookInv, NothingLost, Told
  <1>8. \A b : Sold(order, b)' = Sold(order, b) /\ Sold(Executed, b)' = Sold(Executed, b)
    <2> TAKE b
    <2>1. Executed' = Executed /\ \A i \in Ids : Executed[i].filled = exec[i]
      BY <1>1 DEF Executed
    <2>2. /\ Count(order, SellsOf(b)') = Count(order, SellsOf(b))
          /\ Count(Executed, SellsOf(b)') = Count(Executed, SellsOf(b))
      BY <1>3, <2>1, AppearedSold
    <2>3. Sold(order, b)' = Count(order', SellsOf(b)') /\ Sold(Executed, b)' = Count(Executed', SellsOf(b)')
      BY DEF Sold, Count, Lots
    <2> QED  BY <2>1, <2>2, <2>3 DEF Sold
  <1>9. \A b \in Ids : IsBuy(b) => IsBuy(b)'
    BY DEF IsBuy, IntentsAppear
  <1>10. \A b \in Ids : IsBuy(b)' /\ ~IsBuy(b) => intent[b].status = "NONE"
    BY DEF IsBuy, IntentsAppear
  <1>11. CyclesFollow' /\ OpenCycles' = OpenCycles /\ OneOpen'
    <2>1. OpenCycles' = OpenCycles
      BY <1>1 DEF OpenCycles, CyclesMarked
    <2>3. OneOpen'
      BY <1>1 DEF BookInv, OneOpen, OpenOrders
    <2>2. ASSUME NEW b \in Ids
          PROVE  IF cycle'[b].status = "NONE" THEN IsBuy(b)' => order[b].filled = 0
                 ELSE /\ IsBuy(b)'
                      /\ cycle'[b].current = order[b].filled - Sold(order, b)
                      /\ cycle'[b].status = "CLOSED" =>
                           cycle'[b].current = 0 /\ IsTerminalOrderStatus(order[b].status)
      <3>1. CASE cycle[b].status = "NONE"
        BY <1>3, <1>4, <1>10, <3>1 DEF BookInv, CyclesFollow
      <3>2. CASE cycle[b].status # "NONE"
        BY <1>4, <1>9, <3>2 DEF BookInv, CyclesFollow, CyclesMarked
      <3> QED  BY <3>1, <3>2
    <2> QED  BY <1>1, <1>8, <2>1, <2>2, <2>3 DEF BookInv, CyclesFollow
  <1>12. ASSUME NEW b, OwnedBy(b), b \in Ids => IsBuy(b)
         PROVE  OwnedBy(b)'
    <2> SUFFICES ASSUME NEW c \in Ids, IsBuy(c)'
                 PROVE  Holds(c) = IF c = b THEN held ELSE 0
      BY <1>1, <1>8 DEF OwnedBy, Holds
    <2>1. CASE IsBuy(c)
      BY <1>12, <2>1 DEF OwnedBy
    <2>2. CASE ~IsBuy(c)
      <3>1. intent[c].status = "NONE" /\ exec[c] = 0 /\ c # b
        BY <1>3, <1>10, <1>12, <2>2
      <3>2. Sold(Executed, c) = 0
        BY <2>2, NoBuyNoExit, NoLots DEF Sold
      <3> QED  BY <3>1, <3>2 DEF Holds
    <2> QED  BY <2>1, <2>2
  <1>13. /\ \A p \in Ids : Pyramids(p) => Pyramids(p)'
         /\ Pyramiding => Pyramiding'
    <2>1. ASSUME NEW p \in Ids, Pyramids(p)
          PROVE  Pyramids(p)'
      <3>1. \A b \in OpenCycles : b \in Ids /\ cycle'[b].current = cycle[b].current
        BY DEF OpenCycles, CyclesMarked
      <3>2. IsBuy(p)' /\ order'[p].status \in OpenStatuses /\ cycle'[p].status = "NONE"
        BY <1>4, <1>9, <2>1 DEF Pyramids, OpenOrders
      <3> QED  BY <1>11, <2>1, <3>1, <3>2, PyramidsStay
    <2> QED  BY <1>1, <2>1 DEF Pyramiding
  <1>14. OneOwner'
    BY <1>1, <1>9, <1>12, <1>13, IdsFinite DEF BookInv, OneOwner
  <1>15. LiveOwner'
    <2>1. \A i \in live : i \in Ids /\ intent'[i] = intent[i] /\ (IsBuy(i)' <=> IsBuy(i))
      BY <1>3 DEF BookInv, TypeOK, IntentsAppear, IsBuy
    <2>2. \A i \in live : IF IsBuy(i) THEN OwnedBy(i)' \/ Pyramids(i)' ELSE OwnedBy(intent[i].cycle)'
      BY <1>12, <1>13, <2>1, LiveExit DEF BookInv, LiveOwner
    <2> QED  BY <2>1, <2>2 DEF BookInv, LiveOwner
  <1>16. EvaluatedCovered'
    <2> SUFFICES ASSUME NEW i \in evaluated
                 PROVE  Covered(i)'
      BY DEF EvaluatedCovered
    <2>1. i \in Ids /\ intent[i].status # "NONE" /\ intent'[i] = intent[i] /\ Covered(i)
      BY DEF BookInv, TypeOK, IntentsBelong, IntentsAppear, EvaluatedCovered
    <2>2. IsBuy(i)' <=> IsBuy(i)
      BY <2>1 DEF IsBuy
    <2>3. ~IsBuy(i) => (OwnedBy(intent[i].cycle) => OwnedBy(intent[i].cycle)')
      BY <1>12, <2>1, ExitOfBuy
    <2> QED  BY <1>13, <2>1, <2>2, <2>3 DEF Covered
  <1> QED  BY <1>2, <1>5, <1>6, <1>7, <1>11, <1>14, <1>15, <1>16 DEF BookInv

\* An intent that is created appears.
LEMMA CreatedAppear ==
  ASSUME BookInv, NEW i \in Ids, NEW action \in {"BUY", "SELL"}, NEW b \in Ids \union {None},
         NEW volume \in 0..BuyVolume, NEW reason \in Reasons \union {""},
         Creates(i, action, b, volume, reason),
         action = "SELL" => b \in Ids /\ cycle[b].status # "NONE"
  PROVE  IntentsAppear
  <1> DEFINE row == [status |-> "READY", action |-> action, cycle |-> b,
                     volume |-> volume, reason |-> reason]
  <1>1. intent' = [intent EXCEPT ![i] = row] /\ intent[i].status = "NONE"
    BY DEF Creates, Free
  <1>2. row \in IntentType /\ intent \in [Ids -> IntentType]
    BY DEF IntentType, IntentStatuses, BookInv, TypeOK
  <1>3. row.status = "READY" /\ row.action = action /\ row.cycle = b
    OBVIOUS
  <1> HIDE DEF row
  <1>4. \A j \in Ids : intent'[j] = IF j = i THEN row ELSE intent[j]
    BY <1>1, <1>2
  <1>5. intent' \in [Ids -> IntentType]
    BY <1>1, <1>2
  <1> QED  BY <1>1, <1>3, <1>4, <1>5 DEF IntentsAppear

LEMMA DecideBookStep ==
  ASSUME ExitInv, BookInv, Decide
  PROVE  BookInv'
  <1>1. PICK i \in Ids : Creates(i, "BUY", None, BuyVolume, "")
    BY DEF Decide
  <1>2. UNCHANGED <<order, cycle, evaluated, exec, held, live, today, reports, scan, setbacks>>
    BY DEF Decide, ledger, provider
  <1>3. BuyVolume \in 0..BuyVolume
    BY PositionsAssumption
  <1>4. IntentsAppear
    BY <1>1, <1>3, CreatedAppear
  <1>5. CyclesMarked
    BY <1>2 DEF CyclesMarked, CycleType, BookInv, TypeOK
  <1>6. setbacks' \in 0..MaxSetbacks
    BY <1>2 DEF BookInv, TypeOK
  <1>7. ScansTyped' /\ \A s \in Scanners : \A b \in scan'[s].cycles : cycle[b].status # "NONE"
    BY <1>2 DEF BookInv, ScansTyped, IntentsBelong, Ids
  <1> QED  BY <1>2, <1>4, <1>5, <1>6, <1>7, AppearBookStep

\* A scan that is stored ends; another of its bucket learns that it is late.
LEMMA StoredScans ==
  ASSUME BookInv, NEW s \in Scanners, ScanStored(s)
  PROVE  ScansTyped' /\ \A e \in Scanners : scan'[e].cycles \subseteq scan[e].cycles
  <1>1. PICK same : scan' = [e \in Scanners |-> IF e = s THEN Quiet
                                ELSE [scan[e] EXCEPT !.twin = @ \/ e \in same]]
    BY DEF ScanStored
  <1>2. Quiet.cycles = {} /\ Quiet.available = 0 /\ DOMAIN Quiet = ScanColumns
    BY DEF Quiet, ScanColumns
  <1>3. DOMAIN scan' = Scanners /\ Ids' = Ids
    BY <1>1 DEF Ids
  <1>4. ASSUME NEW e \in Scanners
        PROVE  /\ DOMAIN scan'[e] = ScanColumns /\ scan'[e].cycles \subseteq scan[e].cycles
               /\ scan'[e].available \in Nat
    <2>1. CASE e = s
      BY <1>1, <1>2, <2>1
    <2>2. CASE e # s
      <3>1. scan'[e] = [scan[e] EXCEPT !.twin = @ \/ e \in same]
        BY <1>1, <2>2
      <3>2. DOMAIN scan[e] = ScanColumns /\ scan[e].available \in Nat
        BY DEF BookInv, ScansTyped
      <3>3. /\ DOMAIN scan'[e] = ScanColumns /\ scan'[e].cycles = scan[e].cycles
            /\ scan'[e].available = scan[e].available
        BY <3>1, <3>2 DEF ScanColumns
      <3> QED  BY <3>2, <3>3
    <2> QED  BY <2>1, <2>2
  <1> QED  BY <1>3, <1>4 DEF BookInv, ScansTyped, ScanColumns

\* An exit is never of more than its cycle.
LEMMA LeastInRange ==
  ASSUME NEW m \in Nat, NEW n \in Nat, n <= BuyVolume
  PROVE  Least(m, n) \in 0..BuyVolume
  <1>1. CASE m < n
    BY <1>1, PositionsAssumption DEF Least
  <1>2. CASE ~(m < n)
    BY <1>2, PositionsAssumption DEF Least
  <1> QED  BY <1>1, <1>2

\* A scan marks a cycle that is open, and may create its exit.
LEMMA ScanCommitsBookStep ==
  ASSUME ExitInv, BookInv, NEW s \in Scanners, ScanCommits(s)
  PROVE  BookInv'
  <1>1. UNCHANGED <<order, evaluated, exec, held, live, today, reports>> /\ ScanStored(s)
    BY DEF ScanCommits, provider
  <1>2. ScansTyped' /\ \A e \in Scanners : \A b \in scan'[e].cycles : cycle[b].status # "NONE"
    BY <1>1, StoredScans DEF BookInv, IntentsBelong
  <1> DEFINE volume(b) == Least(scan[s].available, cycle[b].current)
  <1>3. PICK b \in scan[s].cycles, quoted \in Reasons \union {""} :
          /\ cycle[b].status # "CLOSED"
          /\ cycle' = [cycle EXCEPT ![b].status = "EXIT_PENDING", ![b].reason = ExitReason(b, quoted)]
          /\ \/ (\E i \in Ids : Creates(i, "SELL", b, volume(b), ExitReason(b, quoted))) /\ UNCHANGED setbacks
             \/ Setback /\ UNCHANGED intent
             \/ UNCHANGED <<intent, setbacks>>
    BY Zenon DEF ScanCommits
  <1>4. b \in Ids /\ cycle[b].status \in {"OPEN", "EXIT_PENDING"}
    BY <1>3 DEF BookInv, TypeOK, ScansTyped, IntentsBelong
  <1>5. ExitReason(b, quoted) \in Reasons \union {""}
    <2>1. cycle[b].reason \in Reasons \union {""}
      BY <1>4 DEF BookInv, TypeOK
    <2> QED  BY <1>3, <2>1 DEF ExitReason
  <1>6. volume(b) \in 0..BuyVolume
    <2>1. scan[s].available \in Nat
      BY DEF BookInv, ScansTyped
    <2>2. cycle[b].current \in Nat /\ cycle[b].current <= BuyVolume
      BY <1>4, NumbersTyped DEF BookInv
    <2> QED  BY <2>1, <2>2, LeastInRange
  <1> HIDE DEF volume
  <1>7. CyclesMarked
    <2>1. cycle \in [Ids -> CycleType]
      BY DEF BookInv, TypeOK, CycleType
    <2>2. \A c \in Ids : cycle'[c] = IF c = b THEN [cycle[b] EXCEPT !.status = "EXIT_PENDING",
                                                                 !.reason = ExitReason(b, quoted)]
                                     ELSE cycle[c]
      BY <1>3, <1>4, <2>1
    <2> QED  BY <1>3, <1>4, <1>5, <2>1, <2>2 DEF CyclesMarked, CycleType
  <1>8. IntentsAppear
    <2>1. CASE UNCHANGED intent
      BY <2>1 DEF IntentsAppear, IntentType, BookInv, TypeOK
    <2>2. ASSUME NEW i \in Ids, Creates(i, "SELL", b, volume(b), ExitReason(b, quoted))
          PROVE  IntentsAppear
      BY <1>4, <1>5, <1>6, <2>2, CreatedAppear
    <2> QED  BY <1>3, <2>1, <2>2
  <1>9. setbacks' \in 0..MaxSetbacks
    BY <1>3, SetbackTyped DEF BookInv, TypeOK
  <1> QED  BY <1>1, <1>2, <1>7, <1>8, <1>9, AppearBookStep

\* What the provider works on is stored as open; it is one order.
LEMMA LiveIsOne ==
  ASSUME ExitInv, BookInv
  PROVE  live \subseteq OpenOrders /\ \A i, j \in live : i = j
  <1>1. ASSUME NEW i \in live
        PROVE  i \in OpenOrders
    <2>1. i \in Ids /\ order[i].status \in OrderStatuses /\ ~IsTerminalOrderStatus(order[i].status)
      BY DEF ExitInv, LiveIsOpen, NoOrderNoTrace, BookInv, IntentsBelong
    <2> QED  BY <2>1 DEF OpenOrders, OrderStatuses, IsTerminalOrderStatus
  <1> QED  BY <1>1 DEF BookInv, OneOpen

\* The ledger has been told everything of an order that is not open.
LEMMA UntoldIsOpen ==
  ASSUME ExitInv, BookInv, NEW i \in Ids, ~Told(i)
  PROVE  i \in OpenOrders
  <1>1. intent[i].status = "ORDER_CREATED"
    BY DEF ExitInv, NoOrderNoTrace, Told
  <1>2. order[i].status \in OrderStatuses /\ ~IsTerminalOrderStatus(order[i].status)
    BY <1>1 DEF BookInv, IntentsBelong, NothingLost
  <1> QED  BY <1>2 DEF OpenOrders, OrderStatuses, IsTerminalOrderStatus

\* The provider freezes the rest of the one SELL it works on.
LEMMA FrozenValue ==
  ASSUME ExitInv, BookInv
  PROVE  Frozen \in Nat
  <1> DEFINE S == {i \in live : intent[i].action = "SELL"}
             rest(i) == intent[i].volume - exec[i]
             first(s) == CHOOSE x \in s : TRUE
             body(g) == [s \in SUBSET S |-> IF s = {} THEN 0 ELSE rest(first(s)) + g[s \ {first(s)}]]
             iter == CHOOSE g : g = body(g)
             sum == [s \in SUBSET S |-> IF s = {} THEN 0 ELSE rest(first(s)) + 0]
  <1>1. Frozen = iter[S]
    BY DEF Frozen, MapThenSumSet, MapThenFoldSet
  <1>2. \A i, j \in S : i = j
    BY LiveIsOne
  <1>3. \A i \in S : rest(i) \in Nat
    <2> TAKE i \in S
    <2>1. i \in Ids
      BY DEF BookInv, TypeOK
    <2>2. intent[i].volume \in Nat /\ exec[i] \in Nat /\ exec[i] <= intent[i].volume
      BY <2>1, NumbersTyped DEF BookInv, VolumesGrow
    <2> QED  BY <2>2
  <1>4. \A s \in SUBSET S : s # {} => first(s) \in s /\ s \ {first(s)} = {}
    BY <1>2
  <1> HIDE DEF rest, first
  <1>5. sum = body(sum)
    BY <1>4
  <1>6. iter = body(iter)
    <2> HIDE DEF body
    <2> QED  BY <1>5
  <1> HIDE DEF iter, S
  <1>7. iter[{}] = 0 /\ (S # {} => iter[S] = rest(first(S)) + iter[S \ {first(S)}])
    BY <1>6
  <1>8. S # {} => iter[S] = rest(first(S)) + 0 /\ rest(first(S)) \in Nat
    BY <1>3, <1>4, <1>7
  <1>9. CASE S = {}
    BY <1>1, <1>7, <1>9
  <1>10. CASE S # {}
    BY <1>1, <1>8, <1>10
  <1> QED  BY <1>9, <1>10

\* No more can be sold than what is held and not of today.
LEMMA AvailableValue ==
  ASSUME ExitInv, BookInv
  PROVE  Available \in Nat /\ Available <= held - today
  <1>1. held \in Nat /\ today \in Nat /\ today <= held /\ Frozen \in Nat
    BY NumbersTyped, FrozenValue DEF BookInv, OneOwner
  <1> QED  BY <1>1 DEF Available

\* Listing, observing and ending touch nothing but the monitor.
LEMMA ScanBookStep ==
  ASSUME ExitInv, BookInv, NEW s \in Scanners, ScanLists(s) \/ ScanSnapshot(s) \/ ScanEnds(s)
  PROVE  BookInv'
  <1>1. UNCHANGED <<intent, order, cycle, evaluated, exec, held, live, today, reports, setbacks>>
    BY DEF ScanLists, ScanSnapshot, ScanEnds, ledger, provider
  <1>2. Ids' = Ids
    BY DEF Ids
  <1>3. PICK row : /\ scan' = [scan EXCEPT ![s] = row]
                   /\ DOMAIN row = ScanColumns /\ row.available \in Nat
                   /\ \/ row.cycles = {}
                      \/ row.cycles = OpenCycles
                      \/ row.cycles = scan[s].cycles
    <2>1. CASE ScanLists(s)
      <3> WITNESS [Quiet EXCEPT !.step = "listed", !.cycles = OpenCycles]
      <3> QED  BY <2>1 DEF ScanLists, Quiet, ScanColumns
    <2>2. CASE ScanSnapshot(s)
      <3> DEFINE row == [scan[s] EXCEPT !.step = "observed", !.held = held, !.available = Available]
      <3>1. DOMAIN scan[s] = ScanColumns
        BY DEF BookInv, ScansTyped
      <3>2. DOMAIN row = ScanColumns /\ row.available = Available /\ row.cycles = scan[s].cycles
        BY <3>1 DEF ScanColumns
      <3>3. scan' = [scan EXCEPT ![s] = row]
        BY <2>2 DEF ScanSnapshot, BookInv, ScansTyped
      <3> WITNESS row
      <3> QED  BY <3>2, <3>3, AvailableValue
    <2>3. CASE ScanEnds(s)
      <3> WITNESS Quiet
      <3> QED  BY <2>3 DEF ScanEnds, Quiet, ScanColumns
    <2> QED  BY <2>1, <2>2, <2>3
  <1>4. \A e \in Scanners : scan'[e] = IF e = s THEN row ELSE scan[e]
    BY <1>3 DEF BookInv, ScansTyped
  <1>5. row.cycles \subseteq Ids /\ \A b \in row.cycles : cycle[b].status # "NONE"
    BY <1>3 DEF BookInv, ScansTyped, IntentsBelong, OpenCycles
  <1>6. ScansTyped'
    BY <1>2, <1>3, <1>4, <1>5 DEF BookInv, ScansTyped, ScanColumns
  <1>7. \A e \in Scanners : \A b \in scan'[e].cycles : cycle[b].status # "NONE"
    BY <1>4, <1>5 DEF BookInv, IntentsBelong
  <1> QED  BY <1>1, <1>6, <1>7, ElsewhereBookStep

\* Where no order is open the ledger has been told everything and the provider
\* works on nothing.
LEMMA NoOpenOrder ==
  ASSUME ExitInv, BookInv, OpenOrders = {}
  PROVE  live = {} /\ (\A i \in Ids : Told(i)) /\ ~Pyramiding
  BY LiveIsOne, UntoldIsOpen, ToldNoPyramid

\* A ledger that agrees with the account says who owns what is held: the cycle that is
\* open does, as of all other cycles the ledger has been told everything, or of this.
LEMMA AgreedOwner ==
  ASSUME ExitInv, BookInv, LedgerAgrees, ~Pyramiding, held > 0, NEW b \in OpenCycles
  PROVE  OwnedBy(b)
  <1>1. b \in Ids /\ IsBuy(b) /\ cycle[b].current = held /\ \A c \in OpenCycles : c = b
    BY DEF OpenCycles, LedgerAgrees, BookInv, CyclesFollow
  <1>2. PICK o \in Ids : IsBuy(o) /\ OwnedBy(o)
    BY NumbersTyped DEF BookInv, OneOwner
  <1>3. CASE o = b
    BY <1>2, <1>3
  <1>4. CASE o # b
    <2>1. Holds(o) = held /\ Holds(b) = 0
      BY <1>1, <1>2, <1>4 DEF OwnedBy
    <2>2. held # 0
      BY NumbersTyped DEF BookInv
    <2>3. ~ToldOf(b)
      BY <1>1, <2>1, <2>2, ToldCycles
    <2>4. ~ToldOf(o)
      BY <1>1, <1>2, <1>4, <2>1, <2>2, ToldCycles
    <2>5. PICK x \in Ids : ~Told(x) /\ (x = b \/ x \in SellsOf(b))
      BY <1>1, <2>3, SellsFinite DEF ToldOf
    <2>6. PICK y \in Ids : ~Told(y) /\ (y = o \/ y \in SellsOf(o))
      BY <2>4, SellsFinite DEF ToldOf
    <2>7. x = y
      BY <2>5, <2>6, UntoldIsOpen DEF BookInv, OneOpen
    <2> QED  BY <1>1, <1>2, <1>4, <2>5, <2>6, <2>7 DEF SellsOf, IsBuy
  <1> QED  BY <1>3, <1>4

\* An exit is decided on when the ledger is the account's and the shares are there.
LEMMA EvaluateBookStep ==
  ASSUME ExitInv, BookInv, NEW i \in Ids, Evaluate(i)
  PROVE  BookInv'
  <1>1. /\ MayEvaluate(i) /\ (IsBuy(i) \/ Sellable(i)) /\ evaluated' = evaluated \union {i}
        /\ UNCHANGED <<intent, order, cycle, exec, held, live, today, reports, scan, setbacks>>
    BY DEF Evaluate, provider
  <1>2. intent[i].status = "READY" /\ LedgerAgrees
    BY <1>1 DEF MayEvaluate
  <1>3. Covered(i)
    <2> SUFFICES ASSUME ~IsBuy(i), ~Pyramiding
                 PROVE  /\ OwnedBy(intent[i].cycle)
                        /\ 0 < held - today /\ intent[i].volume <= held - today
      BY DEF Covered
    <2>1. cycle[intent[i].cycle].status \notin {"NONE", "CLOSED"} /\ intent[i].cycle \in Ids
      BY <1>1, <1>2, ExitOfBuy DEF MayEvaluate
    <2>2. intent[i].cycle \in OpenCycles
      BY <2>1 DEF BookInv, TypeOK, OpenCycles
    <2>3. /\ 0 < held - today /\ intent[i].volume <= held - today /\ held > 0
      <3>1. Available > 0 /\ intent[i].volume <= Available
        BY <1>1 DEF Sellable
      <3>2. /\ Available \in Nat /\ Available <= held - today /\ held \in Nat /\ today \in Nat
            /\ intent[i].volume \in Nat
        BY AvailableValue, NumbersTyped DEF BookInv
      <3> QED  BY <3>1, <3>2
    <2> QED  BY <1>2, <2>2, <2>3, AgreedOwner
  <1>4. KindsKept /\ intent' \in [Ids -> IntentType]
    BY <1>1 DEF KindsKept, BookInv, TypeOK, IntentType
  <1>5. evaluated' \subseteq Ids /\ \A j \in evaluated' : Covered(j) /\ intent[j].status # "NONE"
    BY <1>1, <1>2, <1>3 DEF BookInv, TypeOK, EvaluatedCovered, IntentsBelong
  <1>6. ScansTyped' /\ \A s \in Scanners : \A b \in scan'[s].cycles : cycle[b].status # "NONE"
    BY <1>1 DEF BookInv, ScansTyped, IntentsBelong, Ids
  <1>7. setbacks' \in 0..MaxSetbacks
    BY <1>1 DEF BookInv, TypeOK
  <1>8. /\ today' \in {today, 0} /\ live' \subseteq live /\ reports \subseteq reports'
        /\ \A r \in reports' : r \in reports \/ TrueReport(r)
        /\ \A j \in Ids : /\ intent'[j].status = "ORDER_CREATED" <=> intent[j].status = "ORDER_CREATED"
                          /\ intent'[j].status = "READY" => intent[j].status = "READY"
        /\ UNCHANGED <<order, cycle, exec, held>>
    BY <1>1
  <1> QED  BY <1>4, <1>5, <1>6, <1>7, <1>8, QuietBookStep

\* A decision that is deferred is made again.
LEMMA DeferBookStep ==
  ASSUME BookInv, NEW i \in Ids, Defer(i)
  PROVE  BookInv'
  <1>1. /\ evaluated' \subseteq evaluated
        /\ UNCHANGED <<intent, order, cycle, exec, held, live, today, reports, scan>>
    BY DEF Defer, provider
  <1>2. KindsKept /\ intent' \in [Ids -> IntentType]
    BY <1>1 DEF KindsKept, BookInv, TypeOK, IntentType
  <1>3. evaluated' \subseteq Ids /\ \A j \in evaluated' : Covered(j) /\ intent[j].status # "NONE"
    BY <1>1 DEF BookInv, TypeOK, EvaluatedCovered, IntentsBelong
  <1>4. ScansTyped' /\ \A s \in Scanners : \A b \in scan'[s].cycles : cycle[b].status # "NONE"
    BY <1>1 DEF BookInv, ScansTyped, IntentsBelong, Ids
  <1>5. setbacks \in 0..MaxSetbacks
    BY DEF BookInv, TypeOK
  <1>6. setbacks' \in 0..MaxSetbacks
    BY <1>5, SetbackTyped DEF Defer, BookInv
  <1>7. /\ today' \in {today, 0} /\ live' \subseteq live /\ reports \subseteq reports'
        /\ \A r \in reports' : r \in reports \/ TrueReport(r)
        /\ \A j \in Ids : /\ intent'[j].status = "ORDER_CREATED" <=> intent[j].status = "ORDER_CREATED"
                          /\ intent'[j].status = "READY" => intent[j].status = "READY"
        /\ UNCHANGED <<order, cycle, exec, held>>
    BY <1>1
  <1> QED  BY <1>2, <1>3, <1>4, <1>6, <1>7, QuietBookStep

\* A BUY whose order is created owns all that is held, as nothing is, or is a second
\* one: the cycle that is open holds what is held, and nothing is stored of the BUY.
LEMMA CreatedBuy ==
  ASSUME ExitInv, BookInv, NEW i \in Ids, IsBuy(i), intent[i].status = "READY", OpenOrders = {}
  PROVE  \/ OwnedBy(i)
         \/ /\ cycle[i].status = "NONE"
            /\ \E b \in OpenCycles : cycle[b].current > 0
  <1>1. (\A c \in Ids : Told(c)) /\ ~Pyramiding
    BY NoOpenOrder
  <1>2. cycle[i].status = "NONE"
    BY DEF BookInv, IntentsBelong
  <1>3. CASE \A c \in Ids : IsBuy(c) => Holds(c) = 0
    <2>1. held = 0
      <3>1. CASE held = 0 /\ OwnedBy(None)
        BY <3>1
      <3>2. ASSUME NEW o \in Ids, IsBuy(o), OwnedBy(o)
            PROVE  held = 0
        BY <1>3, <3>2 DEF OwnedBy
      <3> QED  BY <1>1, <3>1, <3>2 DEF BookInv, OneOwner
    <2> QED  BY <1>3, <2>1 DEF OwnedBy
  <1>4. ASSUME NEW b \in Ids, IsBuy(b), Holds(b) # 0
        PROVE  \E c \in OpenCycles : cycle[c].current > 0
    <2>1. b \in OpenCycles /\ cycle[b].current # 0
      BY <1>1, <1>4, ToldCycles, SellsFinite DEF ToldOf
    <2>2. cycle[b].current > 0
      BY <2>1, NumbersTyped DEF BookInv
    <2> QED  BY <2>1, <2>2
  <1> QED  BY <1>2, <1>3, <1>4

\* The order that is created is the only one, and the owner's or a second BUY.
LEMMA CreateOrderBookStep ==
  ASSUME ExitInv, BookInv, NEW i \in Ids, CreateOrder(i)
  PROVE  BookInv'
  <1>1. /\ intent[i].status = "READY" /\ i \in evaluated /\ OpenOrders = {}
        /\ intent' = [intent EXCEPT ![i].status = "ORDER_CREATED"]
        /\ order' = [order EXCEPT ![i].status = "BRIDGE_QUEUED"]
        /\ live' = live \union {i} /\ evaluated' \subseteq evaluated
        /\ UNCHANGED <<cycle, exec, held, today, reports, scan, setbacks>>
    BY DEF CreateOrder, MayCreate
  <1>2. Ids' = Ids /\ None' = None /\ IntentType' = IntentType
    BY DEF Ids, IntentType
  <1>3. KindsKept /\ intent' \in [Ids -> IntentType]
    <2>1. "ORDER_CREATED" \in IntentStatuses \ {"NONE"}
      BY DEF IntentStatuses
    <2> QED  BY <1>1, <2>1, RestatedKeeps
  <1>4. \A j \in Ids : /\ order'[j].status = IF j = i THEN "BRIDGE_QUEUED" ELSE order[j].status
                       /\ order'[j].filled = order[j].filled
    BY <1>1 DEF ExitInv, RowsExist, OrderColumns
  <1>5. \A j \in Ids : intent'[j].status = IF j = i THEN "ORDER_CREATED" ELSE intent[j].status
    BY <1>1 DEF ExitInv, RowsExist, IntentColumns
  <1>6. /\ ~IsTerminalOrderStatus("BRIDGE_QUEUED") /\ "BRIDGE_QUEUED" \in OrderStatuses
        /\ "BRIDGE_QUEUED" \in OpenStatuses
    BY DEF IsTerminalOrderStatus, TerminalStatuses, OrderStatuses, OpenStatuses
  <1>7. order' \in [Ids -> OrderType]
    <2>1. order \in [Ids -> OrderType]
      BY TablesTyped DEF BookInv
    <2>2. [order[i] EXCEPT !.status = "BRIDGE_QUEUED"] \in OrderType
      BY <1>6, <2>1 DEF OrderType
    <2> QED  BY <1>1, <2>1, <2>2
  <1>8. live = {} /\ ~Pyramiding
    BY <1>1, NoOpenOrder
  <1>9. TypeOK'
    BY <1>1, <1>2, <1>3, <1>7, <1>8 DEF BookInv, TypeOK, IntentType, OrderType
  <1>10. ScansTyped'
    BY <1>1, <1>2 DEF BookInv, ScansTyped
  <1>11. IntentsBelong'
    <2>1. \A j \in Ids : /\ intent'[j].status = "ORDER_CREATED" => order'[j].status \in OrderStatuses
                         /\ cycle'[j].status # "NONE" => intent'[j].status = "ORDER_CREATED"
      BY <1>1, <1>4, <1>5, <1>6 DEF BookInv, IntentsBelong
    <2>2. \A s \in Scanners : \A c \in scan'[s].cycles : cycle'[c].status # "NONE"
      BY <1>1 DEF BookInv, IntentsBelong
    <2>3. \A j \in evaluated' : j \in Ids /\ intent[j].status # "NONE"
      BY <1>1 DEF BookInv, IntentsBelong, TypeOK
    <2> QED  BY <1>1, <1>3, <2>1, <2>2, <2>3, BelongKeeps DEF BookInv, KindsKept
  <1>12. VolumesGrow'
    BY <1>1, <1>2, <1>3, <1>4 DEF BookInv, VolumesGrow, KindsKept
  <1>13. NothingLost'
    BY <1>1, <1>2, <1>4, <1>6 DEF BookInv, NothingLost, Told
  <1>14. CyclesFollow' /\ OpenCycles' = OpenCycles
    <2>1. \A b : Sold(order, b)' = Sold(order, b)
      BY <1>3, <1>4, SoldKept
    <2>2. ~IsTerminalOrderStatus(order[i].status)
      BY <1>1 DEF ExitInv, NoOrderNoTrace, IsTerminalOrderStatus, TerminalStatuses
    <2>3. OpenCycles' = OpenCycles
      BY <1>1, <1>2 DEF OpenCycles
    <2>4. \A c \in Ids : /\ IsBuy(c)' <=> IsBuy(c)
                         /\ IsTerminalOrderStatus(order[c].status) => IsTerminalOrderStatus(order'[c].status)
      BY <1>3, <1>4, <2>2, KindsKeptKeeps
    <2> QED  BY <1>1, <1>2, <1>4, <2>1, <2>3, <2>4 DEF BookInv, CyclesFollow
  <1>15. OpenOrders' = {i}
    BY <1>1, <1>2, <1>4, <1>6 DEF OpenOrders
  <1>16. \A b : OwnedBy(b)' <=> OwnedBy(b)
    BY <1>1, <1>3, OwnedKept
  <1>17. OneOwner'
    BY <1>1, <1>2, <1>3, <1>8, <1>16, KindsKeptKeeps DEF BookInv, OneOwner
  <1>18. LiveOwner'
    <2>1. live' = {i} /\ intent'[i].cycle = intent[i].cycle /\ intent'[i].volume = intent[i].volume
          /\ (IsBuy(i)' <=> IsBuy(i))
      BY <1>1, <1>3, <1>8, KindsKeptKeeps DEF KindsKept
    <2>2. CASE IsBuy(i)
      <3>1. CASE OwnedBy(i)
        BY <1>16, <2>1, <2>2, <3>1 DEF LiveOwner
      <3>2. CASE cycle[i].status = "NONE" /\ \E b \in OpenCycles : cycle[b].current > 0
        <4>1. Pyramids(i)'
          BY <1>1, <1>14, <1>15, <2>1, <2>2, <3>2 DEF Pyramids
        <4> QED  BY <2>1, <2>2, <4>1 DEF LiveOwner
      <3> QED  BY <1>1, <2>2, <3>1, <3>2, CreatedBuy
    <2>3. CASE ~IsBuy(i)
      <3>1. OwnedBy(intent[i].cycle) /\ intent[i].volume <= held - today
        BY <1>1, <1>8, <2>3 DEF BookInv, EvaluatedCovered, Covered
      <3>2. exec[i] = 0 /\ intent[i].volume \in Nat
        BY <1>1, NumbersTyped DEF ExitInv, NoOrderNoTrace, BookInv
      <3>3. intent[i].volume - exec[i] <= held - today
        BY <3>1, <3>2
      <3> QED  BY <1>1, <1>16, <2>1, <2>3, <3>1, <3>3 DEF LiveOwner
    <2> QED  BY <2>2, <2>3
  <1>19. EvaluatedCovered'
    <2> SUFFICES ASSUME NEW j \in evaluated', intent'[j].status = "READY", ~IsBuy(j)'
                 PROVE  /\ OwnedBy(intent[j].cycle)' /\ 0 < held' - today'
                        /\ intent'[j].volume <= held' - today'
      BY DEF EvaluatedCovered, Covered
    <2>1. j \in Ids /\ j \in evaluated /\ intent[j].status = "READY"
      BY <1>1, <1>5 DEF BookInv, TypeOK
    <2>2. /\ ~IsBuy(j) /\ intent'[j].cycle = intent[j].cycle /\ intent'[j].volume = intent[j].volume
      BY <1>3, <2>1, KindsKeptKeeps DEF KindsKept
    <2>3. OwnedBy(intent[j].cycle) /\ 0 < held - today /\ intent[j].volume <= held - today
      BY <1>8, <2>1, <2>2 DEF BookInv, EvaluatedCovered, Covered
    <2>4. OwnedBy(intent[j].cycle)'
      BY <1>16, <2>2, <2>3
    <2> QED  BY <1>1, <2>2, <2>3, <2>4
  <1>20. OneOpen'
    BY <1>15 DEF OneOpen
  <1> QED  BY <1>9, <1>10, <1>11, <1>12, <1>13, <1>14, <1>17, <1>18, <1>19, <1>20 DEF BookInv

\* n more lots of order i are executed, and n shares come or go.
Executes(i, n) ==
  /\ exec' = [exec EXCEPT ![i] = @ + n]
  /\ held' = IF IsBuy(i) THEN held + n ELSE held - n
  /\ today' = IF IsBuy(i) THEN today + n ELSE today
  /\ UNCHANGED intent

\* They are those of the BUY they belong to, and of no other.
LEMMA ExecutedHolds ==
  ASSUME ExitInv, BookInv, NEW i \in live, NEW n \in Nat \ {0},
         exec[i] + n <= intent[i].volume, Executes(i, n)
  PROVE  /\ exec' \in [Ids -> 0..BuyVolume]
         /\ IF IsBuy(i) THEN OwnedBy(i) => OwnedBy(i)' ELSE OwnedBy(intent[i].cycle)'
         /\ \A b : Sold(Executed, b)' \in Nat
  <1>1. i \in Ids /\ Ids' = Ids
    BY DEF BookInv, TypeOK, Ids
  <1>2. KindsKept
    BY DEF Executes, KindsKept
  <1>3. /\ exec[i] \in Nat /\ intent[i].volume \in Nat /\ intent[i].volume <= BuyVolume
        /\ BuyVolume \in Nat /\ exec \in [Ids -> 0..BuyVolume]
    BY <1>1, NumbersTyped DEF BookInv, TypeOK
  <1>4. exec[i] + n \in 0..BuyVolume
    BY <1>3
  <1>5. exec' \in [Ids -> 0..BuyVolume] /\ \A j \in Ids : exec'[j] = IF j = i THEN exec[i] + n ELSE exec[j]
    BY <1>1, <1>3, <1>4 DEF Executes
  <1>6. \A j \in Ids : Executed[j].filled = exec[j] /\ Executed'[j].filled = exec'[j]
    BY <1>1 DEF Executed
  <1>7. \A b : Sold(Executed, b)' = Count(Executed', SellsOf(b))
    BY <1>2, KindsKeptKeeps DEF Sold, Count, Lots
  <1>8. \A b : Sold(Executed, b)' \in Nat
    BY <1>7, SellsFinite, LotsCounted
  <1>9. ASSUME NEW b, i \notin SellsOf(b)
        PROVE  Sold(Executed, b)' = Sold(Executed, b)
    <2>1. \A j \in SellsOf(b) : Executed'[j].filled = Executed[j].filled
      BY <1>5, <1>6, <1>9, SellsFinite
    <2>2. Count(Executed', SellsOf(b)) = Count(Executed, SellsOf(b))
      BY <2>1, CountSame
    <2> QED  BY <1>7, <2>2 DEF Sold
  <1>10. ASSUME IsBuy(i), OwnedBy(i)
         PROVE  OwnedBy(i)'
    <2>1. \A b : i \notin SellsOf(b)
      BY <1>10 DEF IsBuy, SellsOf
    <2>2. ASSUME NEW c \in Ids, IsBuy(c)
          PROVE  Holds(c)' = IF c = i THEN held' ELSE 0
      <3>1. Holds(c)' = exec'[c] - Sold(Executed, c) /\ Sold(Executed, c) \in Nat
        BY <1>9, <2>1, VolumesInRange DEF Holds
      <3>2. Holds(c) = IF c = i THEN held ELSE 0
        BY <1>10, <2>2 DEF OwnedBy
      <3>3. exec[c] \in Nat /\ held \in Nat
        BY NumbersTyped DEF BookInv
      <3> QED  BY <1>5, <1>10, <3>1, <3>2, <3>3 DEF Holds, Executes
    <2> QED  BY <1>1, <1>2, <1>5, <1>8, <1>10, <2>2, KindsKeptKeeps DEF OwnedBy
  <1>11. CASE ~IsBuy(i)
    <2>0. PICK b : b = intent[i].cycle
      OBVIOUS
    <2>1. i \in SellsOf(b) /\ b \in Ids /\ IsBuy(b) /\ OwnedBy(b)
      BY <1>11, <2>0, LiveExit DEF BookInv, LiveOwner
    <2>2. \A c : c # b => i \notin SellsOf(c)
      BY <2>0 DEF SellsOf
    <2>3. Sold(Executed, b)' = Sold(Executed, b) + n
      <3>1. Count(Executed', SellsOf(b))
              = Count(Executed, SellsOf(b)) + Executed'[i].filled - Executed[i].filled
        <4>1. \A j \in SellsOf(b) \ {i} : Executed[j].filled = Executed'[j].filled
          BY <1>5, <1>6, SellsFinite
        <4>2. Executed[i].filled \in 0..BuyVolume /\ Executed'[i].filled \in 0..BuyVolume
          BY <1>1, <1>3, <1>5, <1>6
        <4> QED  BY <2>1, <4>1, <4>2, SellsFinite, CountChanged
      <3>2. Count(Executed, SellsOf(b)) \in Nat
        BY SellsFinite, LotsCounted
      <3>3. Executed[i].filled = exec[i] /\ Executed'[i].filled = exec[i] + n
        BY <1>1, <1>5, <1>6
      <3>4. Sold(Executed, b)' = Count(Executed', SellsOf(b))
        BY <1>7
      <3>5. Sold(Executed, b) = Count(Executed, SellsOf(b))
        BY DEF Sold
      <3> QED  BY <1>3, <3>1, <3>2, <3>3, <3>4, <3>5
    <2>4. ASSUME NEW c \in Ids, IsBuy(c)
          PROVE  Holds(c)' = IF c = b THEN held' ELSE 0
      <3>1. c # i /\ exec'[c] = exec[c] /\ exec[c] \in Nat /\ held \in Nat
        BY <1>5, <1>11, <2>4, NumbersTyped DEF BookInv
      <3>2. Holds(c) = IF c = b THEN held ELSE 0
        BY <2>1, <2>4 DEF OwnedBy
      <3>3. Sold(Executed, c) \in Nat
        BY VolumesInRange
      <3>4. Sold(Executed, c)' = IF c = b THEN Sold(Executed, b) + n ELSE Sold(Executed, c)
        BY <1>9, <2>2, <2>3
      <3> QED  BY <1>11, <3>1, <3>2, <3>3, <3>4 DEF Holds, Executes
    <2>5. OwnedBy(b)'
      BY <1>1, <1>2, <2>4, KindsKeptKeeps DEF OwnedBy
    <2>6. OwnedBy(intent[i].cycle)'
      BY <2>0, <2>5 DEF Executes
    <2> QED  BY <1>5, <1>8, <1>11, <2>6
  <1> QED  BY <1>5, <1>8, <1>10, <1>11

\* What is held has one owner.
LEMMA OwnersAgree ==
  ASSUME NEW a \in Ids, NEW b, IsBuy(a), OwnedBy(a), OwnedBy(b), held # 0
  PROVE  a = b
  BY DEF OwnedBy

\* What is executed comes to or goes from the owner, and is reported.
LEMMA FillBookStep ==
  ASSUME ExitInv, BookInv, NEW i \in Ids, Fill(i)
  PROVE  BookInv'
  <1>1. PICK n \in 1..(intent[i].volume - exec[i]) :
          /\ exec' = [exec EXCEPT ![i] = @ + n]
          /\ held' = IF IsBuy(i) THEN held + n ELSE held - n
          /\ live' = IF exec[i] + n = intent[i].volume THEN live \ {i} ELSE live
          /\ today' = IF IsBuy(i) THEN today + n ELSE today
          /\ Reports(i, IF exec[i] + n = intent[i].volume THEN "FILLED" ELSE "PARTIALLY_FILLED",
                     exec[i] + n)
    BY DEF Fill
  <1>2. i \in live /\ UNCHANGED <<intent, order, cycle, evaluated, scan, setbacks>>
    BY DEF Fill, ledger
  <1>3. Ids' = Ids /\ live' \subseteq live /\ KindsKept
    BY <1>1, <1>2 DEF Ids, KindsKept
  <1>4. /\ exec[i] \in Nat /\ intent[i].volume \in Nat /\ intent[i].volume <= BuyVolume
        /\ held \in Nat /\ today \in Nat /\ today <= held /\ BuyVolume \in Nat
    BY NumbersTyped DEF BookInv, OneOwner
  <1>5. n \in Nat \ {0} /\ exec[i] + n <= intent[i].volume
    BY <1>1, <1>4
  <1>6. Executes(i, n)
    BY <1>1, <1>2 DEF Executes
  <1>7. /\ exec' \in [Ids -> 0..BuyVolume] /\ \A b : Sold(Executed, b)' \in Nat
        /\ IF IsBuy(i) THEN OwnedBy(i) => OwnedBy(i)' ELSE OwnedBy(intent[i].cycle)'
    BY <1>2, <1>5, <1>6, ExecutedHolds
  <1>8. \A j \in Ids : exec'[j] = IF j = i THEN exec[i] + n ELSE exec[j]
    BY <1>1 DEF ExitInv, RowsExist
  <1>9. ~IsBuy(i) => n <= held - today /\ intent[i].volume - exec[i] <= held - today
    BY <1>2, <1>4, <1>5 DEF BookInv, LiveOwner
  <1>10. held' \in Nat /\ today' \in Nat /\ today' <= held'
    BY <1>1, <1>4, <1>5, <1>9
  <1>11. TypeOK'
    BY <1>2, <1>3, <1>7, <1>10 DEF BookInv, TypeOK
  <1>12. ScansTyped' /\ IntentsBelong'
    BY <1>2, <1>3, KindsKeptKeeps DEF BookInv, ScansTyped, IntentsBelong
  <1>13. PICK new : /\ new.order = i /\ new.cum = exec[i] + n /\ new.at \in Nat
                    /\ new.status \in EventStatuses /\ reports' = reports \union {new}
    <2> DEFINE new == [order |-> i,
                       status |-> IF exec[i] + n = intent[i].volume THEN "FILLED" ELSE "PARTIALLY_FILLED",
                       cum |-> exec[i] + n, at |-> exec[i] + n]
    <2>1. reports' = reports \union {new}
      BY <1>1 DEF Reports
    <2> WITNESS new
    <2> QED  BY <1>4, <1>5, <2>1 DEF EventStatuses
  <1>14. VolumesGrow'
    <2>1. \A j \in Ids : order[j].filled <= exec'[j] /\ exec'[j] <= intent[j].volume
      <3> TAKE j \in Ids
      <3>1. order[j].filled \in Nat /\ order[j].filled <= exec[j] /\ exec[j] <= intent[j].volume
        BY NumbersTyped DEF BookInv, VolumesGrow
      <3> QED  BY <1>4, <1>5, <1>8, <3>1
    <2>2. ASSUME NEW r \in reports
          PROVE  TrueReport(r)'
      <3>1. TrueReport(r) /\ r.order \in Ids /\ (IsTerminalOrderStatus(r.status) => r.order # i)
        BY <1>2 DEF ExitInv, EndsAreTrue, BookInv, VolumesGrow, TrueReport
      <3>2. exec[r.order] \in Nat /\ r.cum \in Nat
        BY <3>1, NumbersTyped DEF BookInv, TrueReport
      <3>3. r.cum \in 0..exec'[r.order]
        BY <1>4, <1>5, <1>8, <3>1, <3>2 DEF TrueReport
      <3> QED  BY <1>8, <3>1, <3>3 DEF TrueReport
    <2>3. TrueReport(new)'
      BY <1>4, <1>5, <1>8, <1>13 DEF TrueReport
    <2> QED  BY <1>2, <1>3, <1>13, <2>1, <2>2, <2>3 DEF VolumesGrow, TrueReport
  <1>15. NothingLost'
    <2>1. ~IsTerminalOrderStatus(order[i].status)
      BY <1>2 DEF ExitInv, LiveIsOpen
    <2> QED  BY <1>2, <1>3, <1>8, <1>13, <2>1 DEF BookInv, NothingLost, Told
  <1>16. CyclesFollow'
    <2>1. \A b : Sold(order, b)' = Sold(order, b)
      BY <1>2, <1>3, SoldKept
    <2> QED  BY <1>2, <1>3, <2>1, KindsKeptKeeps DEF BookInv, CyclesFollow, OpenCycles
  <1>17. OneOpen' /\ \A j \in live' : j = i
    BY <1>2, <1>3, LiveIsOne DEF BookInv, OneOpen, OpenOrders
  <1>18. /\ \A p \in Ids : Pyramids(p) => Pyramids(p)'
         /\ \A p \in Ids : Pyramids(p) /\ exec'[p] > 0 => Pyramiding'
         /\ Pyramiding => Pyramiding'
    <2>1. \A p \in Ids : Pyramids(p) => Pyramids(p)'
      BY <1>2, <1>3, KindsKeptKeeps DEF Pyramids, OpenOrders, OpenCycles
    <2>2. \A p \in Ids : exec[p] > 0 => exec'[p] > 0
      BY <1>4, <1>5, <1>8
    <2> QED  BY <1>3, <2>1, <2>2 DEF Pyramiding
  <1>19. IsBuy(i) => OwnedBy(i) \/ Pyramids(i)
    BY <1>2 DEF BookInv, LiveOwner
  <1>20. i \in Ids /\ exec'[i] > 0
    <2>1. exec[i] + n > 0
      BY <1>4, <1>5
    <2> QED  BY <1>8, <2>1
  <1>21. OneOwner'
    <2>1. ~IsBuy(i) => intent[i].cycle \in Ids /\ IsBuy(intent[i].cycle)
      BY <1>2, LiveExit
    <2>2. intent[i].cycle = intent'[i].cycle
      BY <1>2
    <2> QED  BY <1>3, <1>7, <1>10, <1>18, <1>19, <1>20, <2>1, <2>2, KindsKeptKeeps DEF OneOwner
  <1>22. LiveOwner'
    <2>1. ~IsBuy(i) => intent[i].volume - exec'[i] <= held' - today'
      BY <1>1, <1>4, <1>5, <1>8, <1>9
    <2> QED  BY <1>2, <1>3, <1>7, <1>17, <1>18, <1>19, <1>20, <2>1, KindsKeptKeeps DEF LiveOwner
  <1>23. EvaluatedCovered'
    <2> SUFFICES ASSUME NEW j \in evaluated, intent[j].status = "READY", ~IsBuy(j), ~Pyramiding'
                 PROVE  /\ OwnedBy(intent[j].cycle)' /\ 0 < held' - today'
                        /\ intent[j].volume <= held' - today'
      BY <1>2, <1>3, KindsKeptKeeps DEF EvaluatedCovered, Covered, BookInv, TypeOK
    <2> DEFINE b == intent[j].cycle
    <2>1. /\ OwnedBy(b) /\ 0 < held - today /\ intent[j].volume <= held - today
          /\ intent[j].volume \in Nat /\ j \in Ids
      BY <1>18, NumbersTyped DEF BookInv, TypeOK, EvaluatedCovered, Covered
    <2>2. held # 0
      BY <1>4, <2>1
    <2>3. CASE IsBuy(i)
      <3>1. OwnedBy(i)
        BY <1>18, <1>19, <1>20, <2>3
      <3>2. i = b
        BY <1>20, <2>1, <2>2, <2>3, <3>1, OwnersAgree
      <3>3. held' - today' = held - today
        BY <1>1, <1>4, <1>5, <2>3
      <3>4. OwnedBy(i)'
        BY <1>7, <2>3, <3>1
      <3>5. OwnedBy(b)'
        BY <1>2, <3>2, <3>4
      <3> QED  BY <2>1, <3>3, <3>5
    <2>4. CASE ~IsBuy(i)
      <3>1. /\ i \in SellsOf(intent[i].cycle) /\ intent[i].cycle \in Ids /\ IsBuy(intent[i].cycle)
            /\ OwnedBy(intent[i].cycle)
        BY <1>2, <2>4, LiveExit DEF BookInv, LiveOwner
      <3>2. intent[i].cycle = b
        BY <2>1, <2>2, <3>1, OwnersAgree
      <3>3. j \in SellsOf(b)
        BY <2>1, ExitOfBuy
      <3>4. i \in CouldSell(b) /\ j \in CouldSell(b)
        BY <1>2, <3>1, <3>2, <3>3 DEF CouldSell
      <3>5. i = j
        BY <3>1, <3>2, <3>4 DEF ExitInv, SingleExit
      <3>6. intent[i].status = "ORDER_CREATED"
        BY <1>2, <1>20 DEF ExitInv, NoOrderNoTrace
      <3> QED  BY <3>5, <3>6
    <2> QED  BY <2>3, <2>4
  <1> QED  BY <1>11, <1>12, <1>14, <1>15, <1>16, <1>17, <1>21, <1>22, <1>23 DEF BookInv

\* Without stored fills the volume is the larger of the two.
LEMMA MergedVolumeIsLarger ==
  ASSUME NEW row, NEW r, NEW v, row.filled \in Nat, r.cum \in Nat
  PROVE  /\ MergeOrderEvent(row, r, 0, v).filled = IF r.cum > row.filled THEN r.cum ELSE row.filled
  BY DEF MergeOrderEvent, MergedVolume

\* An order that has ended stays so.
LEMMA MergedEndStays ==
  ASSUME NEW row, NEW r, NEW v, IsTerminalOrderStatus(row.status)
  PROVE  IsTerminalOrderStatus(MergeOrderEvent(row, r, 0, v).status)
  <1>1. StatusFromEvent(row, r) = row.status
    BY DEF StatusFromEvent, CanTransitionOrder, IsTerminalOrderStatus, TerminalStatuses, OpenStatuses
  <1>2. MergedStatus(row, r, 0, v) \in {"FILLED", row.status}
    BY <1>1 DEF MergedStatus
  <1>3. IsTerminalOrderStatus("FILLED")
    BY DEF IsTerminalOrderStatus, TerminalStatuses
  <1> QED  BY <1>2, <1>3 DEF MergeOrderEvent

\* A stored status stays a status.
LEMMA MergedStatusTyped ==
  ASSUME NEW row, NEW r, NEW v, row.status \in OrderStatuses, r.status \in EventStatuses
  PROVE  MergeOrderEvent(row, r, 0, v).status \in OrderStatuses
  <1>1. StatusFromEvent(row, r) \in OrderStatuses
    BY DEF StatusFromEvent, EventStatuses, OrderStatuses, OpenStatuses, TerminalStatuses
  <1>2. MergedStatus(row, r, 0, v) \in {"FILLED", "UNKNOWN", "PARTIALLY_FILLED", StatusFromEvent(row, r)}
    BY DEF MergedStatus
  <1>3. {"FILLED", "UNKNOWN", "PARTIALLY_FILLED"} \subseteq OrderStatuses
    BY DEF OrderStatuses, OpenStatuses, TerminalStatuses
  <1> QED  BY <1>1, <1>2, <1>3 DEF MergeOrderEvent

\* What a report leaves of the row of its order.
LEMMA ReportedRow ==
  ASSUME ExitInv, BookInv, NEW r \in reports, NEW i, i = r.order, NEW row,
         row = MergeOrderEvent(order[i], r, 0, intent[i].volume)
  PROVE  /\ i \in Ids /\ intent[i].status = "ORDER_CREATED"
         /\ row \in OrderType /\ row.status \in OrderStatuses
         /\ row.filled = (IF r.cum > order[i].filled THEN r.cum ELSE order[i].filled)
         /\ row.filled <= exec[i]
         /\ IsTerminalOrderStatus(row.status) => row.filled = exec[i]
         /\ IsTerminalOrderStatus(order[i].status) => IsTerminalOrderStatus(row.status)
  <1>1. i \in Ids /\ intent[i].status = "ORDER_CREATED"
    BY DEF ExitInv, EndsAreTrue, NoOrderNoTrace
  <1>2. /\ order[i].filled \in Nat /\ exec[i] \in Nat /\ exec[i] <= BuyVolume /\ BuyVolume \in Nat
        /\ order[i].filled <= exec[i] /\ exec[i] <= intent[i].volume /\ intent[i].volume \in Nat
        /\ order[i].lastAt \in Nat /\ order[i].status \in OrderStatuses
        /\ IsTerminalOrderStatus(order[i].status) => order[i].filled = exec[i]
    <2>1. order[i].lastAt \in Nat
      BY <1>1, TablesTyped DEF BookInv, OrderType
    <2> QED  BY <1>1, <2>1, NumbersTyped DEF BookInv, VolumesGrow, NothingLost, Told, IntentsBelong
  <1>3. /\ r.cum \in Nat /\ r.cum <= exec[i] /\ r.at \in Nat /\ r.status \in EventStatuses
        /\ IsTerminalOrderStatus(r.status) => r.cum = exec[i]
    BY <1>2 DEF BookInv, VolumesGrow
  <1>4. row.filled = IF r.cum > order[i].filled THEN r.cum ELSE order[i].filled
    BY <1>2, <1>3, MergedVolumeIsLarger
  <1>5. row.filled \in Nat /\ row.filled <= exec[i]
    BY <1>2, <1>3, <1>4
  <1>6. row.status \in OrderStatuses
    BY <1>2, <1>3, MergedStatusTyped
  <1>7. row \in OrderType
    <2>1. row.lastAt \in Nat
      BY <1>2, <1>3 DEF MergeOrderEvent
    <2>2. row.filled \in 0..BuyVolume
      BY <1>2, <1>5
    <2>3. row = [status |-> row.status, filled |-> row.filled, lastAt |-> row.lastAt]
      BY DEF MergeOrderEvent
    <2> QED  BY <1>6, <2>1, <2>2, <2>3 DEF OrderType
  <1>8. ASSUME IsTerminalOrderStatus(row.status)
        PROVE  row.filled = exec[i]
    <2>1. \/ order[i].filled = exec[i] \/ r.cum = exec[i]
          \/ intent[i].volume = order[i].filled \/ intent[i].volume = r.cum
      BY <1>2, <1>3, <1>8, MergedEnd
    <2> QED  BY <1>2, <1>3, <1>4, <2>1
  <1>9. IsTerminalOrderStatus(order[i].status) => IsTerminalOrderStatus(row.status)
    BY MergedEndStays
  <1> QED  BY <1>1, <1>4, <1>5, <1>6, <1>7, <1>8, <1>9

\* The cycle that is recomputed is what its orders say.
LEMMA CycleAfterValue ==
  ASSUME BookInv, NEW rows, Filled(rows, Ids), NEW i \in Ids, NEW b \in Ids,
         CycleAfter(rows, i, b).current >= 0
  PROVE  /\ CycleAfter(rows, i, b) \in CycleType
         /\ CycleAfter(rows, i, b).status # "NONE"
         /\ CycleAfter(rows, i, b).current = rows[b].filled - Sold(rows, b)
         /\ CycleAfter(rows, i, b).status = "CLOSED" =>
              CycleAfter(rows, i, b).current = 0 /\ IsTerminalOrderStatus(rows[b].status)
  <1> DEFINE after == CycleAfter(rows, i, b)
             position == CyclePosition(rows, b)
  <1>1. SoldOf(rows, b) = Sold(rows, b) /\ Sold(rows, b) \in Nat
    BY SoldOfIsSold
  <1>2. rows[b].filled \in Nat /\ rows[b].filled <= BuyVolume /\ BuyVolume \in Nat
    BY PositionsAssumption DEF Filled
  <1>3. /\ position.remaining = rows[b].filled - SoldOf(rows, b)
        /\ position.status \in {"CLOSED", "EXIT_PENDING", "OPEN"}
        /\ position.status = "CLOSED" =>
             position.remaining = 0 /\ IsTerminalOrderStatus(rows[b].status)
    BY DEF CyclePosition
  <1>4. after.current = position.remaining /\ after.status = position.status
    BY DEF CycleAfter
  <1>5. after.reason \in Reasons \union {""}
    <2>1. cycle[b].reason \in Reasons \union {""} /\ intent[i].reason \in Reasons \union {""}
      BY TablesTyped DEF BookInv, CycleType, IntentType
    <2> QED  BY <2>1 DEF CycleAfter
  <1>6. after = [status |-> after.status, current |-> after.current, reason |-> after.reason]
    BY DEF CycleAfter
  <1> HIDE DEF after, position
  <1>7. after.current \in 0..BuyVolume
    BY <1>1, <1>2, <1>3, <1>4 DEF after
  <1>8. after \in CycleType
    BY <1>3, <1>4, <1>5, <1>6, <1>7 DEF CycleType
  <1> QED  BY <1>1, <1>3, <1>4, <1>8 DEF after

\* A report: its order's row, and the cycle recomputed in the same transaction.
LEMMA ApplyReportBookStep ==
  ASSUME ExitInv, BookInv, NEW r \in reports, ApplyReport(r)
  PROVE  BookInv'
  <1>1. PICK i, row : i = r.order /\ row = MergeOrderEvent(order[i], r, 0, intent[i].volume)
    OBVIOUS
  <1>2. PICK b : b = IF IsBuy(i) THEN i ELSE intent[i].cycle
    OBVIOUS
  <1>3. /\ order' = [order EXCEPT ![i] = row] /\ reports' = reports \ {r}
        /\ UNCHANGED <<intent, evaluated, exec, held, live, today, scan, setbacks>>
    BY <1>1 DEF ApplyReport, provider
  <1>4. IF IsBuy(i) /\ order'[i].filled = 0 THEN UNCHANGED cycle
        ELSE /\ CycleAfter(order', i, b).current >= 0
             /\ CycleAfter(order', i, b).status # "CLOSED" => OpenCycles \subseteq {b}
             /\ cycle' = [cycle EXCEPT ![b] = CycleAfter(order', i, b)]
    BY <1>1, <1>2 DEF ApplyReport
  <1>5. /\ i \in Ids /\ intent[i].status = "ORDER_CREATED"
        /\ row \in OrderType /\ row.status \in OrderStatuses
        /\ row.filled = (IF r.cum > order[i].filled THEN r.cum ELSE order[i].filled)
        /\ row.filled <= exec[i]
        /\ IsTerminalOrderStatus(row.status) => row.filled = exec[i]
        /\ IsTerminalOrderStatus(order[i].status) => IsTerminalOrderStatus(row.status)
    BY <1>1, ReportedRow
  <1>6. Ids' = Ids /\ KindsKept /\ None' = None
    BY <1>3 DEF Ids, KindsKept
  <1>7. /\ order' \in [Ids -> OrderType]
        /\ \A j \in Ids : order'[j] = IF j = i THEN row ELSE order[j]
    <2>1. order \in [Ids -> OrderType]
      BY TablesTyped DEF BookInv
    <2> QED  BY <1>3, <1>5, <2>1
  <1>8. Filled(order', Ids)
    BY <1>7 DEF Filled, OrderType
  <1>9. b \in Ids /\ IsBuy(b) /\ (~IsBuy(i) => i \in SellsOf(b) /\ cycle[b].status # "NONE")
    BY <1>2, <1>5, ExitOfBuy
  <1>10. \A c : i \in SellsOf(c) => c = b
    BY <1>2 DEF SellsOf, IsBuy
  <1>11. \A c : Sold(order, c)' = Sold(order', c)
    BY <1>6, KindsKeptKeeps DEF Sold, Count, Lots
  <1>12. ASSUME NEW c, i \notin SellsOf(c)
         PROVE  Sold(order', c) = Sold(order, c)
    <2>1. \A j \in SellsOf(c) : order'[j].filled = order[j].filled
      BY <1>7, <1>12, SellsFinite
    <2> QED  BY <2>1, CountSame DEF Sold
  <1>13. /\ cycle' \in [Ids -> CycleType]
         /\ OpenCycles' = {c \in Ids : cycle'[c].status \in {"OPEN", "EXIT_PENDING"}}
         /\ \A c \in Ids \ {b} : cycle'[c] = cycle[c]
         /\ \/ cycle'[b] = cycle[b] /\ IsBuy(i) /\ row.filled = 0
            \/ /\ cycle'[b].status # "NONE"
               /\ cycle'[b].current = order'[b].filled - Sold(order', b)
               /\ cycle'[b].status = "CLOSED" =>
                    cycle'[b].current = 0 /\ IsTerminalOrderStatus(order'[b].status)
               /\ cycle'[b].status # "CLOSED" => OpenCycles \subseteq {b}
    <2>1. cycle \in [Ids -> CycleType]
      BY TablesTyped DEF BookInv
    <2>2. OpenCycles' = {c \in Ids : cycle'[c].status \in {"OPEN", "EXIT_PENDING"}}
      BY <1>6 DEF OpenCycles
    <2>3. CASE IsBuy(i) /\ order'[i].filled = 0
      BY <1>4, <1>5, <1>7, <2>1, <2>2, <2>3
    <2>4. CASE ~(IsBuy(i) /\ order'[i].filled = 0)
      <3>1. PICK after : after = CycleAfter(order', i, b)
        OBVIOUS
      <3>2. /\ after.current >= 0 /\ (after.status # "CLOSED" => OpenCycles \subseteq {b})
            /\ cycle' = [cycle EXCEPT ![b] = after]
        BY <1>4, <2>4, <3>1
      <3>3. /\ after \in CycleType /\ after.status # "NONE"
            /\ after.current = order'[b].filled - Sold(order', b)
            /\ after.status = "CLOSED" => after.current = 0 /\ IsTerminalOrderStatus(order'[b].status)
        BY <1>5, <1>8, <1>9, <3>1, <3>2, CycleAfterValue
      <3> QED  BY <1>9, <2>1, <2>2, <3>2, <3>3
    <2> QED  BY <2>3, <2>4
  <1>14. TypeOK'
    BY <1>3, <1>6, <1>7, <1>13 DEF BookInv, TypeOK, OrderType, CycleType
  <1>15. \A c \in Ids : cycle[c].status # "NONE" => cycle'[c].status # "NONE"
    BY <1>13
  <1>16. ScansTyped' /\ IntentsBelong'
    <2>1. ScansTyped'
      BY <1>3, <1>6 DEF BookInv, ScansTyped
    <2>2. \A j \in Ids : intent'[j].status = "ORDER_CREATED" => order'[j].status \in OrderStatuses
      BY <1>3, <1>5, <1>7 DEF BookInv, IntentsBelong
    <2>3. \A c \in Ids : cycle'[c].status # "NONE" => intent'[c].status = "ORDER_CREATED"
      BY <1>3, <1>2, <1>5, <1>9, <1>13 DEF BookInv, IntentsBelong
    <2>4. \A s \in Scanners : \A c \in scan'[s].cycles : cycle'[c].status # "NONE"
      BY <1>3, <1>15 DEF BookInv, IntentsBelong, ScansTyped
    <2>5. \A j \in evaluated' : intent'[j].status # "NONE"
      BY <1>3 DEF BookInv, IntentsBelong
    <2> QED  BY <1>6, <1>15, <2>1, <2>2, <2>3, <2>4, <2>5, BelongKeeps DEF BookInv
  <1>17. VolumesGrow'
    BY <1>3, <1>5, <1>6, <1>7 DEF BookInv, VolumesGrow
  <1>18. NothingLost'
    <2>1. ASSUME NEW j \in Ids
          PROVE  /\ order'[j].filled = exec[j] \/ \E q \in reports' : q.order = j /\ q.cum = exec[j]
                 /\ IsTerminalOrderStatus(order'[j].status) => order'[j].filled = exec[j]
      <3>1. CASE j # i
        BY <1>1, <1>3, <1>7, <3>1 DEF BookInv, NothingLost, Told
      <3>2. CASE j = i
        <4>1. exec[i] \in Nat /\ order[i].filled \in Nat /\ order[i].filled <= exec[i]
              /\ r.cum \in Nat /\ r.cum <= exec[i]
          BY <1>1, <1>5, NumbersTyped DEF BookInv, VolumesGrow
        <4>2. CASE Told(i) \/ r.cum = exec[i]
          BY <1>5, <1>7, <3>2, <4>1, <4>2 DEF Told
        <4>3. CASE ~Told(i) /\ r.cum # exec[i]
          BY <1>3, <1>5, <1>7, <3>2, <4>3 DEF BookInv, NothingLost
        <4> QED  BY <4>2, <4>3
      <3> QED  BY <3>1, <3>2
    <2> QED  BY <1>3, <1>6, <2>1 DEF NothingLost, Told
  <1>19. CyclesFollow'
    <2>1. ASSUME NEW c \in Ids
          PROVE  IF cycle'[c].status = "NONE" THEN IsBuy(c) => order'[c].filled = 0
                 ELSE /\ IsBuy(c)
                      /\ cycle'[c].current = order'[c].filled - Sold(order', c)
                      /\ cycle'[c].status = "CLOSED" =>
                           cycle'[c].current = 0 /\ IsTerminalOrderStatus(order'[c].status)
      <3>1. CASE c # b /\ c # i
        BY <1>7, <1>10, <1>12, <1>13, <3>1 DEF BookInv, CyclesFollow
      <3>2. CASE c # b /\ c = i
        BY <1>2, <1>5, <1>13, <3>2, NoBuyNoExit
      <3>3. CASE c = b /\ cycle'[b] = cycle[b] /\ IsBuy(i) /\ row.filled = 0
        <4>1. b = i /\ order'[i] = row /\ i \notin SellsOf(i)
          BY <1>2, <1>5, <1>7, <3>3 DEF SellsOf, IsBuy
        <4>2. order[i].filled \in Nat /\ r.cum \in Nat
          BY <1>1, <1>5, NumbersTyped DEF BookInv, VolumesGrow
        <4>3. order[i].filled = 0
          BY <1>5, <3>3, <4>2
        <4> QED  BY <1>5, <1>12, <3>3, <4>1, <4>3 DEF BookInv, CyclesFollow
      <3>4. CASE c = b /\ ~(cycle'[b] = cycle[b] /\ IsBuy(i) /\ row.filled = 0)
        BY <1>9, <1>13, <3>4
      <3> QED  BY <3>1, <3>2, <3>3, <3>4
    <2>2. \A c, d \in OpenCycles' : c = d
      <3>1. \A c \in OpenCycles' \ {b} : c \in OpenCycles
        BY <1>13 DEF OpenCycles
      <3>2. \A c, d \in OpenCycles : c = d
        BY DEF BookInv, CyclesFollow
      <3>3. b \in OpenCycles' => b \in OpenCycles \/ OpenCycles \subseteq {b}
        BY <1>13 DEF OpenCycles
      <3> QED  BY <3>1, <3>2, <3>3
    <2> QED  BY <1>6, <1>11, <2>1, <2>2, KindsKeptKeeps DEF CyclesFollow
  <1>20. \A c : OwnedBy(c)' <=> OwnedBy(c)
    BY <1>3, <1>6, OwnedKept
  <1>21. OneOpen'
    <2>1. \A j \in OpenOrders' : j \in OpenOrders
      <3> TAKE j \in OpenOrders'
      <3>1. j \in Ids /\ order'[j].status \in OpenStatuses
        BY <1>6 DEF OpenOrders
      <3>2. CASE j # i
        BY <1>7, <3>1, <3>2 DEF OpenOrders
      <3>3. CASE j = i
        <4>1. ~IsTerminalOrderStatus(order[i].status) /\ order[i].status \in OrderStatuses
          BY <1>5, <1>7, <3>1, <3>3 DEF BookInv, IntentsBelong, IsTerminalOrderStatus, TerminalStatuses, OpenStatuses
        <4> QED  BY <3>1, <3>3, <4>1 DEF OpenOrders, OrderStatuses, IsTerminalOrderStatus
      <3> QED  BY <3>2, <3>3
    <2> QED  BY <2>1 DEF BookInv, OneOpen
  <1>22. ASSUME NEW p \in Ids, Pyramids(p), exec[p] > 0 \/ p \in live
         PROVE  Pyramids(p)'
    <2>1. /\ IsBuy(p) /\ p \in OpenOrders /\ order[p].status \in OpenStatuses /\ cycle[p].status = "NONE"
          /\ SellsOf(p) = {}
      BY <1>22 DEF Pyramids, OpenOrders, BookInv, IntentsBelong, SellsOf
    <2>2. IsBuy(p)'
      BY <1>6, <2>1, KindsKeptKeeps
    <2>3. CASE p = i
      <3>1. b = i
        BY <1>2, <2>1, <2>3
      <3>2. row.filled = 0
        <4> SUFFICES ASSUME row.filled # 0
                     PROVE  FALSE
          OBVIOUS
        <4>1. row.filled \in Nat
          BY <1>5 DEF OrderType
        <4>2. Sold(order', b) = 0
          BY <2>1, <2>3, <3>1, NoLots DEF Sold
        <4>3. cycle'[b].current > 0 /\ (cycle'[b].status # "CLOSED" => OpenCycles \subseteq {b})
              /\ (cycle'[b].status = "CLOSED" => cycle'[b].current = 0)
          BY <1>5, <1>7, <1>13, <3>1, <4>1, <4>2
        <4>4. OpenCycles \subseteq {p}
          BY <2>3, <3>1, <4>3
        <4> QED  BY <1>22, <2>1, <4>4 DEF Pyramids, OpenCycles
      <3>3. \A c \in Ids : cycle'[c] = cycle[c]
        <4>1. CASE cycle'[b] = cycle[b]
          BY <1>13, <4>1
        <4>2. CASE UNCHANGED cycle
          BY <4>2
        <4> QED  BY <1>4, <1>5, <1>7, <2>1, <2>3, <3>2, <4>2
      <3>4. order'[p].status \in OpenStatuses
        <4>1. ~IsTerminalOrderStatus(row.status)
          <5>1. p \in live => ~IsTerminalOrderStatus(order'[p].status)
            BY <1>3, ApplyReportStep DEF ExitInv, LiveIsOpen
          <5> QED  BY <1>5, <1>7, <1>22, <2>3, <3>2, <5>1
        <4> QED  BY <1>5, <1>7, <2>3, <4>1 DEF OrderStatuses, IsTerminalOrderStatus
      <3>5. \A c \in OpenCycles : c \in OpenCycles' /\ cycle'[c].current = cycle[c].current
        BY <1>13, <3>3 DEF OpenCycles
      <3> QED  BY <1>22, <2>1, <2>2, <3>3, <3>4, <3>5, PyramidsStay
    <2>4. CASE p # i
      <3>1. i \notin OpenOrders /\ Told(i)
        BY <1>5, <2>1, <2>4, UntoldIsOpen DEF BookInv, OneOpen
      <3>2. order[i].filled \in Nat /\ r.cum \in Nat /\ r.cum <= exec[i] /\ order[i].filled = exec[i]
        BY <1>1, <1>5, <3>1, NumbersTyped DEF BookInv, VolumesGrow, Told
      <3>3. row.filled = order[i].filled
        BY <1>5, <3>2
      <3>4. \A j \in Ids : order'[j].filled = order[j].filled
        BY <1>7, <3>3
      <3>5. \A c : Sold(order', c) = Sold(order, c)
        BY <1>6, <1>11, <3>4, SoldKept
      <3>6. b # p /\ cycle'[p] = cycle[p]
        BY <1>2, <1>9, <1>13, <2>1, <2>4
      <3>7. ASSUME NEW c \in OpenCycles, cycle[c].current > 0
            PROVE  c \in OpenCycles' /\ cycle'[c].current = cycle[c].current
        <4>1. c \in Ids /\ cycle[c].status \in {"OPEN", "EXIT_PENDING"}
          BY DEF OpenCycles
        <4>2. CASE c # b
          BY <1>13, <4>1, <4>2
        <4>3. CASE c = b /\ cycle'[b] = cycle[b]
          BY <1>13, <4>1, <4>3
        <4>4. CASE c = b /\ cycle'[b] # cycle[b]
          <5>1. cycle'[b].current = cycle[b].current
            BY <1>13, <3>4, <3>5, <4>1, <4>4 DEF BookInv, CyclesFollow
          <5>2. cycle'[b].status \notin {"NONE", "CLOSED"}
            BY <1>13, <3>7, <4>4, <5>1
          <5>3. cycle'[b].status \in {"OPEN", "EXIT_PENDING"}
            BY <1>9, <1>13, <5>2 DEF CycleType
          <5> QED  BY <1>13, <4>1, <4>4, <5>1, <5>3
        <4> QED  BY <4>2, <4>3, <4>4
      <3>8. order'[p].status \in OpenStatuses
        BY <1>7, <2>1, <2>4
      <3> QED  BY <1>22, <2>1, <2>2, <3>6, <3>7, <3>8, PyramidsStay
    <2> QED  BY <2>3, <2>4
  <1>23. Pyramiding => Pyramiding'
    BY <1>3, <1>6, <1>22 DEF Pyramiding
  <1>24. OneOwner'
    BY <1>3, <1>6, <1>20, <1>23, KindsKeptKeeps DEF BookInv, OneOwner
  <1>25. LiveOwner'
    BY <1>3, <1>6, <1>20, <1>22, KindsKeptKeeps DEF BookInv, LiveOwner, TypeOK
  <1>26. EvaluatedCovered'
    <2>1. \A j \in evaluated : j \in Ids
      BY DEF BookInv, TypeOK
    <2> QED  BY <1>3, <1>6, <1>20, <1>23, <2>1, KindsKeptKeeps DEF BookInv, EvaluatedCovered, Covered
  <1> QED  BY <1>14, <1>16, <1>17, <1>18, <1>19, <1>21, <1>24, <1>25, <1>26 DEF BookInv

-----------------------------------------------------------------------------
\* Every step of the system.
LEMMA BookStep ==
  ASSUME ExitInv, BookInv, [Next]_vars
  PROVE  BookInv'
  <1>1. ScansTyped /\ (\A s \in Scanners : \A b \in scan[s].cycles : cycle[b].status # "NONE") /\ Ids' = Ids
    BY DEF BookInv, IntentsBelong, Ids
  <1>2. CASE UNCHANGED vars
    BY <1>1, <1>2, ElsewhereBookStep DEF vars, ScansTyped
  <1>3. ASSUME NEW r \in reports, ApplyReport(r)
        PROVE  BookInv'
    BY <1>3, ApplyReportBookStep
  <1>4. CASE NextDay
    BY <1>1, <1>4, ElsewhereBookStep DEF NextDay, ledger, ScansTyped
  <1>5. ASSUME NEW i \in Ids,
               Fill(i) \/ Evaluate(i) \/ CreateOrder(i) \/ Refuse(i) \/ Defer(i) \/ Cancel(i) \/ Expire(i)
        PROVE  BookInv'
    BY <1>5, FillBookStep, EvaluateBookStep, CreateOrderBookStep, RefuseBookStep, DeferBookStep,
       CancelBookStep, ExpireBookStep
  <1>6. CASE Decide
    BY <1>6, DecideBookStep
  <1>7. ASSUME NEW s \in Scanners, ScanStep(s)
        PROVE  BookInv'
    BY <1>7, ScanBookStep, ScanCommitsBookStep DEF ScanStep
  <1> QED  BY <1>2, <1>3, <1>4, <1>5, <1>6, <1>7 DEF Next, FillSome, Lane, ApplySome

\* The invariant of the account, for any number of monitors, BUYs, lots and setbacks.
THEOREM BookInvariance == Spec => [](ExitInv /\ BookInv)
  <1>1. Init => ExitInv /\ BookInv
    BY ExitInit, BookInit
  <1>2. ExitInv /\ BookInv /\ [Next]_vars => (ExitInv /\ BookInv)'
    BY ExitStep, BookStep
  <1> QED  BY <1>1, <1>2, PTL DEF Spec

\* The tables, the provider and the counters stay in range: in particular a cycle
\* never holds a negative number of shares, nor does the account.
THEOREM PositionsTyped == Spec => []TypeOK
  <1>1. BookInv => TypeOK
    BY DEF BookInv
  <1> QED  BY <1>1, BookInvariance, PTL

\* Once every callback has been applied, in whatever order they came, the ledger's
\* open cycle holds exactly what the account holds, and no cycle is closed over
\* shares that are still there (lifecycle.go: a cycle is recomputed from its orders).
THEOREM LedgerMatchesAccount == Spec => []CyclesMatchAccount
  <1>1. ExitInv /\ BookInv => CyclesMatchAccount
    BY BookAgrees DEF ExitInv
  <1> QED  BY <1>1, BookInvariance, PTL

=============================================================================
