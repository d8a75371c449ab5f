------------------------ MODULE OrderDispatch_proofs ------------------------
(***************************************************************************)
(* The execution path is safe for any number of processes, intents, orders *)
(* and faults.                                                             *)
(*                                                                         *)
(* First the merge rules; then the rows: one order per intent, one order   *)
(* open, nothing submitted twice, from IndInv of OrderDispatch.  Last the  *)
(* ledger: it is truthful, one order is at risk at a time, and a kill      *)
(* switch lets at most one order through.  IndInv speaks of rows and       *)
(* submissions; what the ledger may believe rests on what is on its way to *)
(* it: every fact in the outbox, in a snapshot and in the provider's       *)
(* history is still true, and the shares that make up the stored fills are *)
(* shares of that history (LedgerInv).                                     *)
(***************************************************************************)
EXTENDS OrderDispatch, FiniteSetTheorems, TLAPS

-----------------------------------------------------------------------------
(* Facts about the merge rules, for every volume and every event: what     *)
(* mergeOrderEvent may make of an order row.                               *)

\* The rows and events mergeOrderEvent is called with: volumes within the order's
\* volume (MergeAccepts turned the others away), statuses among the known ones.
Row(volume) == [status: OrderStatuses, filled: 0..volume, lastAt: Nat]

Mergeable(order, event, sum, volume) ==
  /\ volume \in Nat \ {0} /\ sum \in 0..volume
  /\ order.status \in OrderStatuses /\ order.filled \in 0..volume /\ order.lastAt \in Nat
  /\ event.status \in EventStatuses /\ event.cum \in 0..volume /\ event.at \in Nat

\* The merged volume stays within the order and never falls below the stored one:
\* no event, however old, takes shares back.
THEOREM MergedVolumeGrows ==
  ASSUME NEW order, NEW event, NEW sum, NEW volume, Mergeable(order, event, sum, volume)
  PROVE  /\ MergedVolume(order, event, sum) \in 0..volume
         /\ order.filled <= MergedVolume(order, event, sum)
  BY DEF Mergeable, MergedVolume

\* An event moves the status only to a status an order row may have.
LEMMA StatusFromEventType ==
  ASSUME NEW order, NEW event, order.status \in OrderStatuses, event.status \in EventStatuses
  PROVE  StatusFromEvent(order, event) \in OrderStatuses
  BY DEF StatusFromEvent, OrderStatuses, OpenStatuses, TerminalStatuses, EventStatuses

\* A terminal status has no successor but itself: the transition table admits none.
LEMMA StatusFromEventTerminal ==
  ASSUME NEW order, NEW event, order.status \in TerminalStatuses
  PROVE  StatusFromEvent(order, event) = order.status
  BY DEF StatusFromEvent, CanTransitionOrder, OpenStatuses, TerminalStatuses

\* The merged row is a row.
THEOREM MergeOrderEventType ==
  ASSUME NEW order, NEW event, NEW sum, NEW volume, Mergeable(order, event, sum, volume)
  PROVE  MergeOrderEvent(order, event, sum, volume) \in Row(volume)
  <1>1. MergedVolume(order, event, sum) \in 0..volume
    BY MergedVolumeGrows
  <1>2. StatusFromEvent(order, event) \in OrderStatuses
    BY StatusFromEventType DEF Mergeable
  <1>3. MergedStatus(order, event, sum, volume) \in OrderStatuses
    BY <1>2 DEF MergedStatus, OrderStatuses, OpenStatuses, TerminalStatuses
  <1>4. (IF event.at >= order.lastAt THEN event.at ELSE order.lastAt) \in Nat
    BY DEF Mergeable
  <1> QED
    BY <1>1, <1>3, <1>4 DEF MergeOrderEvent, Row

\* An order that is over stays over: whatever event arrives late, the merge never
\* puts a terminal row back among the open ones.
THEOREM MergeKeepsTerminal ==
  ASSUME NEW order, NEW event, NEW sum, NEW volume,
         order.status \in TerminalStatuses
  PROVE  MergedStatus(order, event, sum, volume) \in TerminalStatuses
  <1>1. StatusFromEvent(order, event) = order.status
    BY StatusFromEventTerminal
  <1> QED
    BY <1>1 DEF MergedStatus, IsTerminalOrderStatus, TerminalStatuses

-----------------------------------------------------------------------------
(* The assumptions, and the tuples of variables UNCHANGED names.           *)


USE DispatchAssumption
USE DEF vars, intentVars, laneVars, ledgerVars, networkVars, providerVars,
        controlVars, serverVars, ReconUnchanged

-----------------------------------------------------------------------------
(* Types.                                                                  *)

LEMMA InitType == Init => TypeOK
  <1> SUFFICES ASSUME Init PROVE TypeOK
    OBVIOUS
  <1>1. NoRecon \in [state: {"NONE", "RUNNING", "LOCKED"}, owner: Workers \union {NoWorker},
                    todo: SUBSET Facts, seen: SUBSET Orders, stray: SUBSET Orders]
    BY DEF NoRecon
  <1>2. row \in [Orders -> OrderRows]
    BY DEF Init, OrderRows, OrderStatuses, OpenStatuses
  <1>3. prov \in [Orders -> [state: ProviderStates, filled: 0..Volume, seq: Nat]]
    BY DEF Init, ProviderStates
  <1>4. fills \in [Orders -> [execs: SUBSET Nat, sum: 0..Volume]]
    BY DEF Init
  <1> QED
    BY <1>1, <1>2, <1>3, <1>4
    DEF Init, TypeOK, Claims, Commands, IntentStatuses, ExecStatuses, LaneSteps, CommandStatuses, RunnerSteps

\* The facts the model writes are facts.
LEMMA FactTypes ==
  ASSUME NEW o \in Orders, NEW at \in Nat, NEW cum \in 0..Volume, NEW status \in EventStatuses
  PROVE  StatusFact(o, status, cum, at) \in Facts /\ FillFact(o, cum, at) \in Facts
  BY DEF StatusFact, FillFact, Facts, EventStatuses

\* One event leaves the ledger well typed.
LEMMA ApplyType ==
  ASSUME TypeOK, NEW e \in Events, ApplyBridgeEvent(e)
  PROVE  /\ row' \in [Orders -> OrderRows]
         /\ fills' \in [Orders -> [execs: SUBSET Nat, sum: 0..Volume]]
         /\ applied' \subseteq Events
  <1> DEFINE f == e.fact
             o == f.order
             stored == StoredFills(e)
             merged == MergeOrderEvent(row[o], f, stored.sum, Volume)
  <1>1. f \in Facts /\ o \in Orders
    BY DEF Events, Facts
  <1>2. CASE Recorded(e)
    BY <1>2 DEF ApplyBridgeEvent, TypeOK
  <1>3. CASE ~Recorded(e)
    <2>1. stored \in [execs: SUBSET Nat, sum: Nat]
      BY <1>1 DEF StoredFills, TypeOK, Facts
    <2>2. stored.sum <= Volume
      BY <1>3 DEF ApplyBridgeEvent, MergeAccepts
    <2>3. stored \in [execs: SUBSET Nat, sum: 0..Volume]
      BY <2>1, <2>2
    <2>4. Mergeable(row[o], f, stored.sum, Volume)
      BY <1>1, <2>3 DEF Mergeable, TypeOK, OrderRows, Facts
    <2>5. merged \in Row(Volume)
      BY <2>4, MergeOrderEventType
    <2>6. /\ row' = [row EXCEPT ![o] = [intent |-> row[o].intent, status |-> merged.status,
                                        filled |-> merged.filled, lastAt |-> merged.lastAt]]
          /\ fills' = [fills EXCEPT ![o] = stored]
          /\ applied' = applied \union {e}
      BY <1>3 DEF ApplyBridgeEvent
    <2> HIDE DEF merged, stored
    <2> QED
      BY <1>1, <2>3, <2>5, <2>6 DEF TypeOK, Row, OrderRows
  <1> QED
    BY <1>2, <1>3

\* Changing the status of a row to another status leaves the rows well typed.
LEMMA RowStatusType ==
  ASSUME TypeOK, NEW o \in Orders, NEW status \in OrderStatuses,
         row' = [row EXCEPT ![o].status = status]
  PROVE  row' \in [Orders -> OrderRows]
  <1>1. row \in [Orders -> OrderRows] /\ row[o] \in OrderRows
    BY DEF TypeOK
  <1>2. [row[o] EXCEPT !.status = status] \in OrderRows
    BY <1>1 DEF OrderRows
  <1> QED
    BY <1>1, <1>2

\* The statuses written after the Bridge has answered are statuses.
LEMMA AnswerStatusType ==
  ASSUME NEW status \in OrderStatuses
  PROVE  /\ StatusAfterAccepted(status) \in OrderStatuses
         /\ StatusAfterDispatchError(status) \in OrderStatuses
         /\ StatusAfterRefused \in OrderStatuses
  BY DEF StatusAfterAccepted, StatusAfterDispatchError, StatusAfterRefused, OrderStatuses,
         OpenStatuses, TerminalStatuses

LEMMA LaneType ==
  ASSUME TypeOK, LanesOK, NEW w \in Workers, LaneStep(w)
  PROVE  TypeOK'
  <1> USE DEF LaneSteps
  <1>1. CASE PassGate(w)
    BY <1>1 DEF PassGate, TypeOK
  <1>2. CASE ClaimNothing(w)
    BY <1>2 DEF ClaimNothing, TypeOK
  <1>3. ASSUME NEW i \in Intents, ClaimNextReady(w, i) PROVE TypeOK'
    BY <1>3 DEF ClaimNextReady, TypeOK, ExecStatuses, Claims
  <1>4. CASE Approve(w)
    BY <1>4 DEF Approve, TypeOK
  <1>5. CASE RejectDecision(w)
    <2>1. intentStatus' \in [Intents -> IntentStatuses]
      BY <1>5 DEF RejectDecision, TypeOK, IntentStatuses
    <2>2. pc' \in [Workers -> LaneSteps] /\ job' \in [Workers -> Intents \union {NoIntent}]
      <3>1. /\ \E step \in {"idle", "completed"} : pc' = [pc EXCEPT ![w] = step]
            /\ job' = job \/ job' = [job EXCEPT ![w] = NoIntent]
        BY <1>5 DEF RejectDecision
      <3> QED
        BY <3>1 DEF TypeOK
    <2>3. UNCHANGED <<execStatus, claim, placing, ledgerVars, networkVars, cmd, outbox,
                      runner, providerVars, controlVars, recon, faults>>
      BY <1>5 DEF RejectDecision
    <2> QED
      BY <2>1, <2>2, <2>3 DEF TypeOK
  <1>6. CASE Defer(w)
    BY <1>6 DEF Defer, TypeOK
  <1>7. ASSUME NEW o \in Orders, CreateOrder(w, o) PROVE TypeOK'
    <2>1. job[w] \in Intents
      BY <1>7 DEF CreateOrder, LanesOK
    <2>2. row' \in [Orders -> OrderRows]
      <3>1. [intent |-> job[w], status |-> "DISPATCH_PENDING", filled |-> 0, lastAt |-> 0]
              \in OrderRows
        BY <2>1 DEF OrderRows, OrderStatuses, OpenStatuses
      <3> QED
        BY <1>7, <3>1 DEF CreateOrder, TypeOK
    <2>3. intentStatus' \in [Intents -> IntentStatuses]
      BY <1>7 DEF CreateOrder, TypeOK, IntentStatuses
    <2>4. placing' \in [Workers -> Orders \union {NoOrder}] /\ pc' \in [Workers -> LaneSteps]
      BY <1>7 DEF CreateOrder, TypeOK
    <2>5. UNCHANGED <<execStatus, claim, job, fills, applied, networkVars, cmd, outbox,
                      runner, providerVars, controlVars, recon, faults>>
      BY <1>7 DEF CreateOrder
    <2> QED
      BY <2>2, <2>3, <2>4, <2>5 DEF TypeOK
  <1>8. CASE AbandonOrder(w)
    <2>1. pc' \in [Workers -> LaneSteps] /\ job' \in [Workers -> Intents \union {NoIntent}]
      <3>1. /\ \E step \in {"idle", "deferred"} : pc' = [pc EXCEPT ![w] = step]
            /\ job' = job \/ job' = [job EXCEPT ![w] = NoIntent]
        BY <1>8 DEF AbandonOrder
      <3> QED
        BY <3>1 DEF TypeOK
    <2>2. UNCHANGED <<intentVars, placing, ledgerVars, networkVars, cmd, outbox,
                      runner, providerVars, controlVars, recon, faults>>
      BY <1>8 DEF AbandonOrder
    <2> QED
      BY <2>1, <2>2 DEF TypeOK
  <1>9. CASE MarkUnknown(w)
    <2>1. placing[w] \in Orders
      BY <1>9 DEF MarkUnknown, LanesOK
    <2>2. row' = [row EXCEPT ![placing[w]].status = "UNKNOWN"] /\ "UNKNOWN" \in OrderStatuses
      BY <1>9 DEF MarkUnknown, OrderStatuses, OpenStatuses
    <2>3. row' \in [Orders -> OrderRows]
      BY <2>1, <2>2, RowStatusType
    <2> QED
      BY <1>9, <2>3 DEF MarkUnknown, TypeOK
  <1>10. CASE SendPlaceOrder(w)
    BY <1>10 DEF SendPlaceOrder, TypeOK, LanesOK
  <1>11. CASE ReceiveReply(w)
    <2>1. placing[w] \in Orders
      BY <1>11 DEF ReceiveReply, LanesOK
    <2>2. PICK status \in OrderStatuses : row' = [row EXCEPT ![placing[w]].status = status]
      <3>1. row[placing[w]].status \in OrderStatuses
        BY <2>1 DEF TypeOK, OrderRows
      <3> QED
        BY <1>11, <3>1, AnswerStatusType DEF ReceiveReply
    <2>3. row' \in [Orders -> OrderRows]
      BY <2>1, <2>2, RowStatusType
    <2> QED
      BY <1>11, <2>1, <2>3 DEF ReceiveReply, TypeOK
  <1>12. CASE DispatchUpdateFails(w)
    BY <1>12 DEF DispatchUpdateFails, TypeOK, Fault
  <1>13. CASE FinishClaim(w)
    <2>1. job[w] \in Intents
      BY <1>13 DEF FinishClaim, LanesOK
    <2>2. /\ execStatus' \in [Intents -> ExecStatuses]
          /\ claim' \in [Intents -> Claims]
      <3>1. CASE claim[job[w]] = [token |-> w, live |-> TRUE]
        <4>1. PICK status \in ExecStatuses :
                execStatus' = [execStatus EXCEPT ![job[w]] = status]
          BY <1>13, <3>1 DEF FinishClaim, ExecStatuses
        <4>2. claim' = [claim EXCEPT ![job[w]] = [token |-> NoWorker, live |-> FALSE]]
          BY <1>13, <3>1 DEF FinishClaim
        <4> QED
          BY <2>1, <4>1, <4>2 DEF TypeOK, Claims
      <3>2. CASE claim[job[w]] # [token |-> w, live |-> TRUE]
        <4>1. UNCHANGED <<execStatus, claim>>
          BY <1>13, <3>2, Zenon DEF FinishClaim
        <4> QED
          BY <4>1 DEF TypeOK
      <3> QED
        BY <3>1, <3>2
    <2> QED
      BY <1>13, <2>2 DEF FinishClaim, TypeOK
  <1> QED
    BY <1>1, <1>2, <1>3, <1>4, <1>5, <1>6, <1>7, <1>8, <1>9, <1>10, <1>11, <1>12, <1>13
    DEF LaneStep

\* Changing the status of a command leaves the commands well typed.
LEMMA CommandType ==
  ASSUME TypeOK, NEW o \in Orders, NEW status \in CommandStatuses,
         cmd' = [cmd EXCEPT ![o].status = status]
  PROVE  cmd' \in [Orders -> Commands]
  <1>1. cmd \in [Orders -> Commands] /\ cmd[o] \in Commands
    BY DEF TypeOK
  <1>2. [cmd[o] EXCEPT !.status = status] \in Commands
    BY <1>1 DEF Commands
  <1> QED
    BY <1>1, <1>2

\* The Runner moves on to another step, with or without an order in hand.
LEMMA RunnerType ==
  ASSUME TypeOK, NEW step \in RunnerSteps, runner' = [runner EXCEPT !.step = step]
  PROVE  runner' \in [step: RunnerSteps, order: Orders \union {NoOrder}]
  BY DEF TypeOK

\* The steps of the Bridge, the Runner and the provider.
LEMMA OutsideType ==
  ASSUME TypeOK, RunnerOK,
         (\E o \in Orders : BridgeStep(o) \/ ProviderMoves(o)) \/ RunnerStep \/ RunnerRestart
  PROVE  TypeOK'
  <1> USE DEF CommandStatuses, RunnerSteps, Fault
  <1>1. ASSUME NEW o \in Orders, BridgeEnqueue(o) PROVE TypeOK'
    <2>1. cmd' \in [Orders -> Commands]
      BY <1>1, CommandType DEF BridgeEnqueue
    <2>2. reply' \in [Orders -> {"NONE", "ACCEPTED", "REFUSED"}] /\ request' \subseteq Orders
      BY <1>1 DEF BridgeEnqueue, TypeOK
    <2> QED
      BY <1>1, <2>1, <2>2 DEF BridgeEnqueue, TypeOK
  <1>2. ASSUME NEW o \in Orders, BridgeRefuse(o) PROVE TypeOK'
    BY <1>2 DEF BridgeRefuse, TypeOK
  <1>3. ASSUME NEW o \in Orders, LoseRequest(o) PROVE TypeOK'
    BY <1>3 DEF LoseRequest, TypeOK
  <1>4. ASSUME NEW o \in Orders, RunnerClaim(o) PROVE TypeOK'
    BY <1>4, CommandType DEF RunnerClaim, TypeOK
  <1>5. CASE RunnerArm
    BY <1>5 DEF RunnerArm, TypeOK
  <1>6. CASE RunnerRefuse
    <2>1. runner.order \in Orders
      BY <1>6 DEF RunnerRefuse, RunnerOK
    <2>2. cmd' \in [Orders -> Commands]
      BY <1>6, <2>1, CommandType DEF RunnerRefuse
    <2>3. runner' \in [step: RunnerSteps, order: Orders \union {NoOrder}]
      BY <1>6, RunnerType DEF RunnerRefuse
    <2> QED
      BY <1>6, <2>2, <2>3 DEF RunnerRefuse, TypeOK
  <1>7. ASSUME NEW o \in Orders, Accept(o)
        PROVE  /\ prov' \in [Orders -> [state: ProviderStates, filled: 0..Volume, seq: Nat]]
               /\ history' \subseteq Facts
    <2>1. StatusFact(o, "SUBMITTED", 0, 2) \in Facts
      BY FactTypes DEF EventStatuses
    <2> QED
      BY <1>7, <2>1 DEF Accept, TypeOK, ProviderStates
  <1>8. ASSUME NEW o \in Orders, CountSubmission(o)
        PROVE  submissions' \in [Orders -> Nat] /\ sentUnderKill' \in [db: Nat, bridge: Nat]
    BY <1>8 DEF CountSubmission, TypeOK
  <1>9. CASE OrderVolume
    <2>1. runner.order \in Orders
      BY <1>9 DEF OrderVolume, RunnerOK
    <2> QED
      BY <1>7, <1>8, <1>9, <2>1 DEF OrderVolume, TypeOK
  <1>10. CASE OrderVolumeRaises
    <2>1. runner.order \in Orders
      BY <1>10 DEF OrderVolumeRaises, RunnerOK
    <2>2. /\ prov' \in [Orders -> [state: ProviderStates, filled: 0..Volume, seq: Nat]]
          /\ history' \subseteq Facts
      BY <1>7, <1>10, <2>1 DEF OrderVolumeRaises, TypeOK
    <2> QED
      <3>1. cmd' \in [Orders -> Commands]
        BY <1>10, <2>1, CommandType DEF OrderVolumeRaises
      <3>2. runner' \in [step: RunnerSteps, order: Orders \union {NoOrder}]
        BY <1>10, RunnerType DEF OrderVolumeRaises
      <3> QED
        BY <1>8, <1>10, <2>1, <2>2, <3>1, <3>2 DEF OrderVolumeRaises, TypeOK
  <1>11. CASE BindProviderId
    BY <1>11 DEF BindProviderId, TypeOK, Commands
  <1>12. CASE RecordSubmittedFails
    <2>1. runner.order \in Orders
      BY <1>12 DEF RecordSubmittedFails, RunnerOK
    <2>2. cmd' \in [Orders -> Commands]
      BY <1>12, <2>1, CommandType DEF RecordSubmittedFails
    <2>3. runner' \in [step: RunnerSteps, order: Orders \union {NoOrder}]
      BY <1>12, RunnerType DEF RecordSubmittedFails
    <2> QED
      BY <1>12, <2>2, <2>3 DEF RecordSubmittedFails, TypeOK
  <1>13. CASE RecordReport
    <2>1. runner.order \in Orders
      BY <1>13 DEF RecordReport, RunnerOK
    <2>2. RunnerReport(runner.order) \in Facts
      <3>1. prov[runner.order].seq \in Nat
        BY <2>1 DEF TypeOK
      <3>2. 2 * prov[runner.order].seq + 1 \in Nat
        BY <3>1
      <3> QED
        <4> DEFINE status == IF runner.step = "reportRejected" THEN "REJECTED" ELSE "UNKNOWN"
        <4>1. StatusFact(runner.order, "SUBMITTED", 0, 2) \in Facts
          BY <2>1, FactTypes DEF EventStatuses
        <4>2. status \in EventStatuses
          BY DEF EventStatuses
        <4> HIDE DEF status
        <4>3. StatusFact(runner.order, status, 0, 2 * prov[runner.order].seq + 1) \in Facts
          BY <2>1, <3>2, <4>2, FactTypes
        <4> QED
          BY <4>1, <4>3 DEF RunnerReport, status
    <2> QED
      BY <1>13, <2>2 DEF RecordReport, Callback, Events, TypeOK
  <1>14. ASSUME NEW o \in Orders, ProviderMoves(o) PROVE TypeOK'
    <2>1. ASSUME NEW state \in ProviderStates, NEW filled \in 0..Volume,
                 NEW facts \in SUBSET Facts, ProviderStep(o, state, filled, facts)
          PROVE  TypeOK'
      BY <2>1 DEF ProviderStep, Callback, Events, TypeOK
    <2>2. /\ prov[o].seq \in Nat /\ prov[o].filled \in 0..Volume
          /\ 2 * (prov[o].seq + 1) \in Nat
      BY DEF TypeOK
    <2>3. CASE ProviderFill(o)
      <3>1. PICK lots \in 1..(Volume - prov[o].filled) :
              LET at     == 2 * (prov[o].seq + 1)
                  filled == prov[o].filled + lots
                  full   == filled = Volume
              IN  ProviderStep(o, IF full THEN "FILLED" ELSE "LIVE", filled,
                    {FillFact(o, lots, at),
                     StatusFact(o, IF full THEN "FILLED" ELSE "PARTIALLY_FILLED", filled, at)})
        BY <2>3 DEF ProviderFill
      <3>2. lots \in 0..Volume /\ prov[o].filled + lots \in 0..Volume
        BY <2>2
      <3>3. /\ FillFact(o, lots, 2 * (prov[o].seq + 1)) \in Facts
            /\ StatusFact(o, "FILLED", prov[o].filled + lots, 2 * (prov[o].seq + 1)) \in Facts
            /\ StatusFact(o, "PARTIALLY_FILLED", prov[o].filled + lots,
                          2 * (prov[o].seq + 1)) \in Facts
        <4>1. {"FILLED", "PARTIALLY_FILLED"} \subseteq EventStatuses
          BY DEF EventStatuses
        <4> QED
          BY <2>2, <3>2, <4>1, FactTypes
      <3>4. CASE prov[o].filled + lots = Volume
        BY <2>1, <3>1, <3>2, <3>3, <3>4 DEF ProviderStates
      <3>5. CASE prov[o].filled + lots # Volume
        BY <2>1, <3>1, <3>2, <3>3, <3>5 DEF ProviderStates
      <3> QED
        BY <3>4, <3>5
    <2>4. CASE ProviderCancel(o)
      <3>1. StatusFact(o, "CANCELED", prov[o].filled, 2 * (prov[o].seq + 1)) \in Facts
        BY <2>2, FactTypes DEF EventStatuses
      <3> QED
        BY <2>1, <2>2, <2>4, <3>1 DEF ProviderCancel, ProviderStates
    <2>5. CASE ProviderReject(o)
      <3>1. StatusFact(o, "REJECTED", 0, 2 * (prov[o].seq + 1)) \in Facts
        BY <2>2, FactTypes DEF EventStatuses
      <3> QED
        BY <2>1, <2>2, <2>5, <3>1 DEF ProviderReject, ProviderStates
    <2> QED
      BY <1>14, <2>3, <2>4, <2>5 DEF ProviderMoves
  <1>15. CASE RunnerRestart
    <2>1. ASSUME NEW o \in Orders
          PROVE  [cmd[o] EXCEPT !.status = "UNKNOWN"] \in Commands /\ cmd[o] \in Commands
      <3>1. cmd[o] \in Commands
        BY DEF TypeOK
      <3> QED
        BY <3>1 DEF Commands
    <2>2. cmd' \in [Orders -> Commands]
      BY <1>15, <2>1 DEF RunnerRestart
    <2>3. runner' \in [step: RunnerSteps, order: Orders \union {NoOrder}]
      BY <1>15 DEF RunnerRestart
    <2> QED
      BY <1>15, <2>2, <2>3 DEF RunnerRestart, TypeOK
  <1> QED
    BY <1>1, <1>2, <1>3, <1>4, <1>5, <1>6, <1>9, <1>10, <1>11, <1>12, <1>13, <1>14, <1>15
    DEF BridgeStep, RunnerStep

\* The steps of the outbox, the operators and the reconciliation lane.
LEMMA ControlType ==
  ASSUME TypeOK, LanesOK, OutboxStep \/ ControlStep \/ ReconStep
                          \/ \E w \in Workers : Crash(w)
  PROVE  TypeOK'
  <1> USE DEF Fault
  <1> DEFINE Recons == [state: {"NONE", "RUNNING", "LOCKED"}, owner: Workers \union {NoWorker},
                        todo: SUBSET Facts, seen: SUBSET Orders, stray: SUBSET Orders]
  <1>1. ASSUME NEW e \in outbox, DeliverCallback(e) PROVE TypeOK'
    <2>1. e \in Events
      BY DEF TypeOK
    <2> QED
      BY <1>1, <2>1, ApplyType DEF DeliverCallback, TypeOK
  <1>2. ASSUME NEW e \in outbox, OutboxRestart(e) PROVE TypeOK'
    BY <1>2 DEF OutboxRestart, TypeOK
  <1>3. ASSUME NEW db \in BOOLEAN, NEW bridge \in BOOLEAN, SetKills(db, bridge)
        PROVE  /\ dbKill' \in BOOLEAN /\ bridgeKill' \in BOOLEAN
               /\ sentUnderKill' \in [db: Nat, bridge: Nat]
    BY <1>3 DEF SetKills, TypeOK
  <1>4. ASSUME NEW on \in BOOLEAN, SetKillSwitch(on) PROVE TypeOK'
    BY <1>3, <1>4 DEF SetKillSwitch, Switch, TypeOK
  <1>5. CASE SetKillSwitchBridge
    <2>1. dbKill \in BOOLEAN /\ (killOp = "ON") \in BOOLEAN
      BY DEF TypeOK
    <2>2. CASE SetKills(dbKill, killOp = "ON") /\ UNCHANGED faults
      <3>1. /\ dbKill' \in BOOLEAN /\ bridgeKill' \in BOOLEAN
            /\ sentUnderKill' \in [db: Nat, bridge: Nat]
        BY <1>3, <2>1, <2>2
      <3> QED
        BY <1>5, <2>2, <3>1 DEF SetKillSwitchBridge, TypeOK
    <2>3. CASE Fault /\ UNCHANGED <<dbKill, bridgeKill, sentUnderKill>>
      BY <1>5, <2>3 DEF SetKillSwitchBridge, TypeOK
    <2> QED
      BY <1>5, <2>2, <2>3 DEF SetKillSwitchBridge
  <1>6. CASE FailClosed
    <2>1. dbKill \in BOOLEAN
      BY DEF TypeOK
    <2>2. /\ dbKill' \in BOOLEAN /\ bridgeKill' \in BOOLEAN
          /\ sentUnderKill' \in [db: Nat, bridge: Nat]
      BY <1>3, <1>6, <2>1 DEF FailClosed
    <2> QED
      BY <1>6, <2>2 DEF FailClosed, Switch, TypeOK
  <1>7. NoRecon \in Recons /\ \A w \in Workers : Running(w) \in Recons
    BY DEF NoRecon, Running
  <1>8. ASSUME NEW w \in Workers, StartReconciliation(w) PROVE TypeOK'
    BY <1>7, <1>8 DEF StartReconciliation, TypeOK
  <1>9. ASSUME NEW w \in Workers, TakeOverReconciliation(w) PROVE TypeOK'
    BY <1>7, <1>9 DEF TakeOverReconciliation, TypeOK
  <1>10. CASE LockReconciliation
    <2>1. Snapshot \in SUBSET Facts
      BY DEF Snapshot, TypeOK
    <2>2. recon' \in Recons
      BY <1>10, <2>1 DEF LockReconciliation, TypeOK
    <2> QED
      BY <1>10, <2>2 DEF LockReconciliation, TypeOK
  <1>11. ASSUME NEW f \in recon.todo, NEW s \in Sources, RecoverEvent(f, s) PROVE TypeOK'
    <2>1. f \in Facts
      BY DEF TypeOK
    <2>2. [fact |-> f, src |-> s] \in Events
      BY <2>1 DEF Events
    <2>3. recon' \in Recons
      BY <1>11 DEF RecoverEvent, TypeOK
    <2> QED
      BY <1>11, <2>2, <2>3, ApplyType DEF RecoverEvent, TypeOK
  <1>12. Halt => /\ dbKill' \in BOOLEAN /\ bridgeKill' \in BOOLEAN
                 /\ sentUnderKill' \in [db: Nat, bridge: Nat]
                 /\ UNCHANGED <<killOp, switches>>
    BY <1>3 DEF Halt
  <1>13. CASE FinishReconciliation
    BY <1>7, <1>12, <1>13 DEF FinishReconciliation, TypeOK
  <1>14. CASE FailReconciliation
    BY <1>7, <1>12, <1>14 DEF FailReconciliation, TypeOK
  <1>15. ASSUME NEW w \in Workers, Crash(w) PROVE TypeOK'
    BY <1>7, <1>15 DEF Crash, TypeOK, LaneSteps
  <1> QED
    BY <1>1, <1>2, <1>4, <1>5, <1>6, <1>8, <1>9, <1>10, <1>11, <1>13, <1>14, <1>15
    DEF OutboxStep, ControlStep, ReconStep

\* Time passes.
LEMMA TimeType ==
  ASSUME TypeOK, NEW i \in Intents, ClaimDeadline(i) \/ ExpireIntent(i)
  PROVE  TypeOK'
  <1>1. CASE ClaimDeadline(i)
    <2>1. claim[i] \in Claims
      BY DEF TypeOK
    <2>2. [claim[i] EXCEPT !.live = FALSE] \in Claims
      BY <2>1 DEF Claims
    <2> QED
      BY <1>1, <2>2 DEF ClaimDeadline, TypeOK
  <1>2. CASE ExpireIntent(i)
    BY <1>2 DEF ExpireIntent, TypeOK, IntentStatuses, ExecStatuses
  <1> QED
    BY <1>1, <1>2

LEMMA NextType ==
  ASSUME TypeOK, LanesOK, RunnerOK, [Next]_vars
  PROVE  TypeOK'
  <1>1. CASE UNCHANGED vars
    BY <1>1 DEF TypeOK
  <1> QED
    BY <1>1, LaneType, OutsideType, ControlType, TimeType DEF Next

-----------------------------------------------------------------------------
(* What a step can do to the ledger: only CreateOrder opens a row.         *)

Creates == \E w \in Workers, o \in Orders : CreateOrder(w, o)

\* Every other step leaves each row its intent, and opens none.
RowsAdvance ==
  \A o \in Orders : /\ row'[o].intent = row[o].intent
                    /\ row'[o].status \in OpenStatuses => row[o].status \in OpenStatuses

LEMMA StatusesSplit ==
  /\ OrderStatuses = OpenStatuses \union TerminalStatuses
  /\ OpenStatuses \cap TerminalStatuses = {}
  BY DEF OrderStatuses, OpenStatuses, TerminalStatuses

\* One row gets another status, not an open one for one that was terminal.
LEMMA RowAdvances ==
  ASSUME TypeOK, NEW o \in Orders, NEW status,
         row' = [row EXCEPT ![o].status = status],
         status \in OpenStatuses => row[o].status \in OpenStatuses
  PROVE  RowsAdvance
  <1>1. row[o] \in OrderRows
    BY DEF TypeOK
  <1>2. row' = [row EXCEPT ![o] = [row[o] EXCEPT !.status = status]]
    OBVIOUS
  <1> DEFINE new == [row[o] EXCEPT !.status = status]
  <1>3. new.intent = row[o].intent /\ new.status = status
    BY <1>1 DEF OrderRows
  <1> HIDE DEF new
  <1> QED
    BY <1>2, <1>3 DEF RowsAdvance, TypeOK, new

\* An event keeps the order's intent and does not reopen it.
LEMMA ApplyAdvances ==
  ASSUME TypeOK, NEW e \in Events, ApplyBridgeEvent(e)
  PROVE  RowsAdvance
  <1> DEFINE o == e.fact.order
             stored == StoredFills(e)
             merged == MergeOrderEvent(row[o], e.fact, stored.sum, Volume)
             new == [intent |-> row[o].intent, status |-> merged.status,
                     filled |-> merged.filled, lastAt |-> merged.lastAt]
  <1>1. o \in Orders
    BY DEF Events, Facts
  <1>2. CASE Recorded(e)
    BY <1>2 DEF ApplyBridgeEvent, RowsAdvance
  <1>3. CASE ~Recorded(e)
    <2>1. row' = [row EXCEPT ![o] = new]
      BY <1>3 DEF ApplyBridgeEvent
    <2>2. row[o].status \in OrderStatuses
      BY <1>1 DEF TypeOK, OrderRows
    <2>3. row[o].status \in TerminalStatuses => merged.status \in TerminalStatuses
      BY MergeKeepsTerminal DEF MergeOrderEvent
    <2>4. new.intent = row[o].intent /\ new.status = merged.status
      OBVIOUS
    <2> HIDE DEF new, merged
    <2> QED
      BY <1>1, <2>1, <2>2, <2>3, <2>4, StatusesSplit DEF RowsAdvance, TypeOK
  <1> QED
    BY <1>2, <1>3

LEMMA OnlyCreateOpens ==
  ASSUME TypeOK, LanesOK, [Next]_vars, ~Creates
  PROVE  RowsAdvance
  <1>1. CASE UNCHANGED row
    BY <1>1 DEF RowsAdvance
  <1>2. ASSUME NEW w \in Workers, MarkUnknown(w) PROVE RowsAdvance
    <2>1. placing[w] \in Orders /\ IsOpen(placing[w])
      BY <1>2 DEF MarkUnknown, LanesOK
    <2> QED
      BY <1>2, <2>1, RowAdvances DEF MarkUnknown, IsOpen
  <1>3. ASSUME NEW w \in Workers, ReceiveReply(w) PROVE RowsAdvance
    <2>1. placing[w] \in Orders
      BY <1>3 DEF ReceiveReply, LanesOK
    <2>2. \A status \in {StatusAfterAccepted(row[placing[w]].status), StatusAfterRefused,
                         StatusAfterDispatchError(row[placing[w]].status)} :
            status \in OpenStatuses => row[placing[w]].status \in OpenStatuses
      BY DEF StatusAfterAccepted, StatusAfterRefused, StatusAfterDispatchError, OpenStatuses
    <2>3. \E status \in {StatusAfterAccepted(row[placing[w]].status), StatusAfterRefused,
                         StatusAfterDispatchError(row[placing[w]].status)} :
            row' = [row EXCEPT ![placing[w]].status = status]
      BY <1>3 DEF ReceiveReply
    <2> QED
      BY <2>1, <2>2, <2>3, RowAdvances
  <1>4. ASSUME NEW w \in Workers, LaneStep(w) PROVE RowsAdvance
    BY <1>1, <1>2, <1>3, <1>4
    DEF LaneStep, PassGate, ClaimNothing, ClaimNextReady, Approve, RejectDecision, Defer,
        Creates, AbandonOrder, SendPlaceOrder, DispatchUpdateFails, FinishClaim
  <1>5. ASSUME NEW e \in outbox, DeliverCallback(e) PROVE RowsAdvance
    BY <1>5, ApplyAdvances DEF DeliverCallback, TypeOK
  <1>6. ASSUME NEW f \in recon.todo, NEW s \in Sources, RecoverEvent(f, s) PROVE RowsAdvance
    <2>1. [fact |-> f, src |-> s] \in Events
      BY DEF TypeOK, Events
    <2> QED
      BY <1>6, <2>1, ApplyAdvances DEF RecoverEvent
  <1>7. CASE OutboxStep
    BY <1>1, <1>5, <1>7 DEF OutboxStep, OutboxRestart
  <1>8. CASE ReconStep
    BY <1>1, <1>6, <1>8
    DEF ReconStep, StartReconciliation, TakeOverReconciliation, LockReconciliation,
        FinishReconciliation, FailReconciliation
  <1>9. CASE ControlStep \/ RunnerStep \/ RunnerRestart
    BY <1>1, <1>9
    DEF ControlStep, SetKillSwitch, SetKillSwitchBridge, FailClosed, RunnerStep, RunnerClaim,
        RunnerArm, RunnerRefuse, OrderVolume, OrderVolumeRaises, BindProviderId,
        RecordSubmittedFails, RecordReport, RunnerRestart
  <1>10. ASSUME NEW o \in Orders, BridgeStep(o) \/ ProviderMoves(o) PROVE RowsAdvance
    BY <1>1, <1>10
    DEF BridgeStep, BridgeEnqueue, BridgeRefuse, LoseRequest, ProviderMoves, ProviderFill,
        ProviderCancel, ProviderReject, ProviderStep
  <1>11. ASSUME NEW w \in Workers, Crash(w) PROVE RowsAdvance
    BY <1>1, <1>11 DEF Crash
  <1>12. ASSUME NEW i \in Intents, ClaimDeadline(i) \/ ExpireIntent(i) PROVE RowsAdvance
    BY <1>1, <1>12 DEF ClaimDeadline, ExpireIntent
  <1>13. CASE UNCHANGED vars
    BY <1>1, <1>13
  <1> QED
    BY <1>4, <1>7, <1>8, <1>9, <1>10, <1>11, <1>12, <1>13 DEF Next

-----------------------------------------------------------------------------
(* One order per intent, one open order.                                   *)

\* Only CreateOrder makes an intent ORDER_CREATED, and no step unmakes it.
LEMMA OnlyCreateOrders ==
  ASSUME TypeOK, LanesOK, [Next]_vars, ~Creates
  PROVE  \A i \in Intents :
           intentStatus'[i] = "ORDER_CREATED" <=> intentStatus[i] = "ORDER_CREATED"
  <1> DEFINE Goal == \A i \in Intents :
           intentStatus'[i] = "ORDER_CREATED" <=> intentStatus[i] = "ORDER_CREATED"
  <1>1. CASE UNCHANGED intentStatus
    BY <1>1
  <1>2. ASSUME NEW w \in Workers, RejectDecision(w) PROVE Goal
    <2>1. job[w] \in Intents
      BY <1>2 DEF RejectDecision, LanesOK
    <2>2. CASE FenceIntent(w)
      BY <1>2, <2>1, <2>2 DEF RejectDecision, FenceIntent, TypeOK
    <2>3. CASE ~FenceIntent(w)
      BY <1>2, <2>3 DEF RejectDecision
    <2> QED
      BY <2>2, <2>3
  <1>3. ASSUME NEW i \in Intents, ExpireIntent(i) PROVE Goal
    BY <1>3 DEF ExpireIntent, Claimable, TypeOK
  <1>4. ASSUME NEW w \in Workers, LaneStep(w) PROVE Goal
    BY <1>1, <1>2, <1>4
    DEF LaneStep, PassGate, ClaimNothing, ClaimNextReady, Approve, Defer, Creates,
        AbandonOrder, MarkUnknown, SendPlaceOrder, ReceiveReply, DispatchUpdateFails,
        FinishClaim
  <1>5. ASSUME NEW w \in Workers, Crash(w) PROVE Goal
    BY <1>1, <1>5 DEF Crash
  <1>6. ASSUME NEW i \in Intents, ClaimDeadline(i) PROVE Goal
    BY <1>1, <1>6 DEF ClaimDeadline
  <1>7. CASE OutboxStep \/ ReconStep
    BY <1>1, <1>7
    DEF OutboxStep, DeliverCallback, OutboxRestart, ReconStep, StartReconciliation,
        TakeOverReconciliation, LockReconciliation, RecoverEvent, FinishReconciliation,
        FailReconciliation
  <1>8. CASE ControlStep \/ RunnerStep \/ RunnerRestart
    BY <1>1, <1>8
    DEF ControlStep, SetKillSwitch, SetKillSwitchBridge, FailClosed, RunnerStep, RunnerClaim,
        RunnerArm, RunnerRefuse, OrderVolume, OrderVolumeRaises, BindProviderId,
        RecordSubmittedFails, RecordReport, RunnerRestart
  <1>9. ASSUME NEW o \in Orders, BridgeStep(o) \/ ProviderMoves(o) PROVE Goal
    BY <1>1, <1>9
    DEF BridgeStep, BridgeEnqueue, BridgeRefuse, LoseRequest, ProviderMoves, ProviderFill,
        ProviderCancel, ProviderReject, ProviderStep
  <1>10. CASE UNCHANGED vars
    BY <1>1, <1>10
  <1> QED
    BY <1>3, <1>4, <1>5, <1>6, <1>7, <1>8, <1>9, <1>10 DEF Next

\* What CreateOrder does: the one new row, of an intent that had none, with no
\* other row open.
LEMMA CreateEffect ==
  ASSUME TypeOK, LanesOK, IntentMatchesOrder,
         NEW w \in Workers, NEW o \in Orders, CreateOrder(w, o)
  PROVE  /\ job[w] \in Intents /\ ~Exists(o) /\ openOrders = {}
         /\ intentStatus[job[w]] = "READY_FOR_EXECUTION"
         /\ row' = [row EXCEPT ![o] = [intent |-> job[w], status |-> "DISPATCH_PENDING",
                                       filled |-> 0, lastAt |-> 0]]
         /\ intentStatus' = [intentStatus EXCEPT ![job[w]] = "ORDER_CREATED"]
         /\ \A p \in Orders : row[p].intent # job[w]
  BY DEF CreateOrder, LanesOK, FenceIntent, OrderTxAllowed

LEMMA NextIntents ==
  ASSUME TypeOK, LanesOK, IntentMatchesOrder, [Next]_vars
  PROVE  IntentMatchesOrder'
  <1>1. CASE ~Creates
    BY <1>1, OnlyCreateOpens, OnlyCreateOrders DEF IntentMatchesOrder, RowsAdvance, Exists
  <1>2. ASSUME NEW w \in Workers, NEW o \in Orders, CreateOrder(w, o)
        PROVE  IntentMatchesOrder'
    <2>1. /\ job[w] \in Intents /\ ~Exists(o)
          /\ row'[o].intent = job[w]
          /\ \A p \in Orders \ {o} : row'[p] = row[p]
          /\ \A p \in Orders : row[p].intent # job[w]
          /\ intentStatus'[job[w]] = "ORDER_CREATED"
          /\ \A i \in Intents \ {job[w]} : intentStatus'[i] = intentStatus[i]
      BY <1>2, CreateEffect DEF TypeOK
    <2> QED
      BY <2>1 DEF IntentMatchesOrder, Exists
  <1> QED
    BY <1>1, <1>2 DEF Creates

LEMMA NextOpen ==
  ASSUME TypeOK, LanesOK, IntentMatchesOrder, OneOpenOrder, [Next]_vars
  PROVE  OneOpenOrder'
  <1>1. CASE ~Creates
    <2>1. \A o \in Orders : IsOpen(o)' => IsOpen(o)
      BY <1>1, OnlyCreateOpens DEF RowsAdvance, IsOpen, Exists
    <2> QED
      BY <2>1 DEF OneOpenOrder, openOrders
  <1>2. ASSUME NEW w \in Workers, NEW o \in Orders, CreateOrder(w, o)
        PROVE  OneOpenOrder'
    <2>1. openOrders = {} /\ \A p \in Orders \ {o} : row'[p] = row[p]
      BY <1>2, CreateEffect DEF TypeOK
    <2>2. \A p \in Orders \ {o} : ~IsOpen(p)'
      BY <2>1 DEF openOrders, IsOpen, Exists
    <2> QED
      BY <2>2 DEF OneOpenOrder, openOrders
  <1> QED
    BY <1>1, <1>2 DEF Creates

-----------------------------------------------------------------------------
(* The lanes: an order created and not sent is nobody else's.              *)

\* The steps outside the execution lanes.
Elsewhere ==
  \/ \E i \in Intents : ClaimDeadline(i) \/ ExpireIntent(i)
  \/ \E o \in Orders : BridgeStep(o) \/ ProviderMoves(o)
  \/ RunnerStep \/ RunnerRestart \/ OutboxStep \/ ControlStep \/ ReconStep

LEMMA ElsewhereLanes ==
  ASSUME Elsewhere
  PROVE  UNCHANGED <<pc, placing, job>>
  <1>1. CASE \E i \in Intents : ClaimDeadline(i) \/ ExpireIntent(i)
    BY <1>1 DEF ClaimDeadline, ExpireIntent
  <1>2. CASE \E o \in Orders : BridgeStep(o) \/ ProviderMoves(o)
    BY <1>2
    DEF BridgeStep, BridgeEnqueue, BridgeRefuse, LoseRequest, ProviderMoves, ProviderFill,
        ProviderCancel, ProviderReject, ProviderStep
  <1>3. CASE RunnerStep \/ RunnerRestart \/ ControlStep
    BY <1>3
    DEF ControlStep, SetKillSwitch, SetKillSwitchBridge, FailClosed, RunnerStep, RunnerClaim,
        RunnerArm, RunnerRefuse, OrderVolume, OrderVolumeRaises, BindProviderId,
        RecordSubmittedFails, RecordReport, RunnerRestart
  <1>4. CASE OutboxStep \/ ReconStep
    BY <1>4
    DEF OutboxStep, DeliverCallback, OutboxRestart, ReconStep, StartReconciliation,
        TakeOverReconciliation, LockReconciliation, RecoverEvent, FinishReconciliation,
        FailReconciliation
  <1> QED
    BY <1>1, <1>2, <1>3, <1>4 DEF Elsewhere

\* An event about another order does not touch an order's row.
LEMMA ApplyElsewhere ==
  ASSUME TypeOK, NEW e \in Events, ApplyBridgeEvent(e), NEW o \in Orders, e.fact.order # o
  PROVE  row'[o] = row[o]
  <1>1. CASE Recorded(e)
    BY <1>1 DEF ApplyBridgeEvent
  <1>2. CASE ~Recorded(e)
    <2> DEFINE new == [intent |-> row[e.fact.order].intent,
                       status |-> MergeOrderEvent(row[e.fact.order], e.fact,
                                                  StoredFills(e).sum, Volume).status,
                       filled |-> MergeOrderEvent(row[e.fact.order], e.fact,
                                                  StoredFills(e).sum, Volume).filled,
                       lastAt |-> MergeOrderEvent(row[e.fact.order], e.fact,
                                                  StoredFills(e).sum, Volume).lastAt]
    <2>1. row' = [row EXCEPT ![e.fact.order] = new]
      BY <1>2 DEF ApplyBridgeEvent
    <2> HIDE DEF new
    <2> QED
      BY <2>1 DEF TypeOK
  <1> QED
    BY <1>1, <1>2

\* Nothing outside the lanes touches an order that has not been sent.
LEMMA UnsentIsUntouched ==
  ASSUME TypeOK, BridgeOK, Elsewhere, NEW o \in Orders, Unsent(o)
  PROVE  Unsent(o)' /\ row'[o] = row[o]
  <1> DEFINE Goal == Unsent(o)' /\ row'[o] = row[o]
  <1>1. Silent(o)
    BY DEF BridgeOK, Unsent
  <1>2. CASE UNCHANGED <<request, reply, cmd, row>>
    BY <1>2 DEF Unsent
  <1>3. CASE \E i \in Intents : ClaimDeadline(i) \/ ExpireIntent(i)
    BY <1>2, <1>3 DEF ClaimDeadline, ExpireIntent
  <1>4. ASSUME NEW p \in Orders, BridgeStep(p) PROVE Goal
    BY <1>4 DEF BridgeStep, BridgeEnqueue, BridgeRefuse, LoseRequest, Unsent, TypeOK
  <1>5. ASSUME NEW p \in Orders, ProviderMoves(p) PROVE Goal
    BY <1>2, <1>5 DEF ProviderMoves, ProviderFill, ProviderCancel, ProviderReject, ProviderStep
  <1>6. CASE RunnerStep
    <2>1. UNCHANGED <<request, reply, row>>
      BY <1>6
      DEF RunnerStep, RunnerClaim, RunnerArm, RunnerRefuse, OrderVolume, OrderVolumeRaises,
          BindProviderId, RecordSubmittedFails, RecordReport
    <2>2. cmd'[o].status = cmd[o].status
      <3>1. ASSUME NEW p \in Orders, RunnerClaim(p) PROVE cmd'[o].status = cmd[o].status
        BY <3>1 DEF RunnerClaim, Unsent, TypeOK
      <3>2. runner.order # o
        BY <1>1 DEF Silent
      <3> QED
        BY <1>6, <3>1, <3>2
        DEF RunnerStep, RunnerArm, RunnerRefuse, OrderVolume, OrderVolumeRaises,
            BindProviderId, RecordSubmittedFails, RecordReport, TypeOK
    <2> QED
      BY <2>1, <2>2 DEF Unsent
  <1>7. CASE RunnerRestart
    BY <1>7 DEF RunnerRestart, Unsent, TypeOK
  <1>8. CASE ControlStep
    BY <1>2, <1>8 DEF ControlStep, SetKillSwitch, SetKillSwitchBridge, FailClosed
  <1>9. ASSUME NEW e \in outbox, DeliverCallback(e) PROVE Goal
    BY <1>1, <1>9, ApplyElsewhere DEF DeliverCallback, Silent, Unsent, TypeOK
  <1>10. CASE OutboxStep
    BY <1>2, <1>9, <1>10 DEF OutboxStep, OutboxRestart
  <1>11. ASSUME NEW f \in recon.todo, NEW s \in Sources, RecoverEvent(f, s) PROVE Goal
    <2>1. [fact |-> f, src |-> s] \in Events /\ f.order # o
      BY <1>1 DEF TypeOK, Events, Silent
    <2>2. row'[o] = row[o]
      BY <1>11, <2>1, ApplyElsewhere DEF RecoverEvent
    <2> QED
      BY <1>11, <2>2 DEF RecoverEvent, Unsent
  <1>12. CASE ReconStep
    BY <1>2, <1>11, <1>12
    DEF ReconStep, StartReconciliation, TakeOverReconciliation, LockReconciliation,
        FinishReconciliation, FailReconciliation
  <1> QED
    BY <1>3, <1>4, <1>5, <1>6, <1>7, <1>8, <1>10, <1>12 DEF Elsewhere

\* A lane's step leaves the other lanes where they are, and what they have created.
LEMMA OtherLanes ==
  ASSUME TypeOK, LanesOK, NEW w \in Workers, LaneStep(w) \/ Crash(w), NEW v \in Workers, v # w
  PROVE  /\ pc'[v] = pc[v] /\ placing'[v] = placing[v] /\ job'[v] = job[v]
         /\ placing[v] \in Orders /\ Unsent(placing[v])
              => Unsent(placing[v])' /\ row'[placing[v]] = row[placing[v]]
  <1> DEFINE Lane == pc'[v] = pc[v] /\ placing'[v] = placing[v] /\ job'[v] = job[v]
             Order == placing[v] \in Orders /\ Unsent(placing[v])
                        => Unsent(placing[v])' /\ row'[placing[v]] = row[placing[v]]
             Goal == Lane /\ Order
  <1>1. CASE \/ PassGate(w) \/ ClaimNothing(w) \/ (\E i \in Intents : ClaimNextReady(w, i))
             \/ Approve(w) \/ RejectDecision(w) \/ Defer(w) \/ AbandonOrder(w)
             \/ DispatchUpdateFails(w) \/ FinishClaim(w) \/ Crash(w)
    <2>1. UNCHANGED <<row, request, reply, cmd>>
      BY <1>1
      DEF PassGate, ClaimNothing, ClaimNextReady, Approve, RejectDecision, Defer, AbandonOrder,
          DispatchUpdateFails, FinishClaim, Crash
    <2>2. Lane
      BY <1>1
      DEF PassGate, ClaimNothing, ClaimNextReady, Approve, RejectDecision, Defer, AbandonOrder,
          DispatchUpdateFails, FinishClaim, Crash, TypeOK
    <2> QED
      BY <2>1, <2>2 DEF Unsent
  <1>2. ASSUME NEW o \in Orders, CreateOrder(w, o) PROVE Goal
    <2>1. placing[v] \in Orders => placing[v] # o
      BY <1>2 DEF CreateOrder, LanesOK
    <2> QED
      BY <1>2, <2>1 DEF CreateOrder, TypeOK, Unsent
  <1>3. ASSUME placing[w] \in Orders
        PROVE  placing[v] \in Orders => placing[v] # placing[w]
    BY <1>3 DEF LanesOK
  <1>4. CASE MarkUnknown(w)
    <2>1. placing[w] \in Orders
      BY <1>4 DEF MarkUnknown, LanesOK
    <2> QED
      BY <1>3, <1>4, <2>1 DEF MarkUnknown, TypeOK, Unsent
  <1>5. CASE SendPlaceOrder(w)
    <2>1. placing[w] \in Orders
      BY <1>5 DEF SendPlaceOrder, LanesOK
    <2> QED
      BY <1>3, <1>5, <2>1 DEF SendPlaceOrder, TypeOK, Unsent
  <1>6. CASE ReceiveReply(w)
    <2>1. placing[w] \in Orders
      BY <1>6 DEF ReceiveReply, LanesOK
    <2>2. Lane
      BY <1>6 DEF ReceiveReply, TypeOK
    <2>3. /\ UNCHANGED <<request, cmd>>
          /\ reply' = [reply EXCEPT ![placing[w]] = "NONE"]
          /\ \E status : row' = [row EXCEPT ![placing[w]].status = status]
      BY <1>6 DEF ReceiveReply
    <2> QED
      BY <1>3, <2>1, <2>2, <2>3 DEF TypeOK, Unsent
  <1> QED
    BY <1>1, <1>2, <1>4, <1>5, <1>6 DEF LaneStep

\* What a lane knows of itself after a step of its own.
OwnLane(w) ==
  /\ placing[w] \in Orders <=> pc[w] \in {"created", "marked", "sent"}
  /\ placing[w] \in Orders => Exists(placing[w])
  /\ pc[w] \in {"created", "marked"} => Unsent(placing[w]) /\ IsOpen(placing[w])
  /\ pc[w] \in {"claimed", "approved", "created", "marked", "sent", "completed", "deferred"}
       => job[w] \in Intents

LEMMA OwnStep ==
  ASSUME TypeOK, LanesOK, BridgeOK, IntentMatchesOrder, NEW w \in Workers,
         LaneStep(w) \/ Crash(w)
  PROVE  /\ OwnLane(w)'
         /\ placing'[w] \in Orders => placing'[w] = placing[w] \/ ~Exists(placing'[w])
  <1> DEFINE Goal == /\ OwnLane(w)'
                     /\ placing'[w] \in Orders
                          => placing'[w] = placing[w] \/ ~Exists(placing'[w])
  <1>1. CASE \/ PassGate(w) \/ ClaimNothing(w) \/ (\E i \in Intents : ClaimNextReady(w, i))
             \/ Approve(w) \/ RejectDecision(w) \/ Defer(w) \/ AbandonOrder(w)
             \/ FinishClaim(w)
    <2>1. /\ placing' = placing /\ placing[w] \notin Orders
          /\ pc'[w] \in {"idle", "gated", "claimed", "approved", "completed", "deferred"}
      <3>1. placing' = placing /\ pc[w] \notin {"created", "marked", "sent"}
        BY <1>1
        DEF PassGate, ClaimNothing, ClaimNextReady, Approve, RejectDecision, Defer,
            AbandonOrder, FinishClaim
      <3>2. \E step \in {"idle", "gated", "claimed", "approved", "completed", "deferred"} :
              pc' = [pc EXCEPT ![w] = step]
        BY <1>1
        DEF PassGate, ClaimNothing, ClaimNextReady, Approve, RejectDecision, Defer,
            AbandonOrder, FinishClaim
      <3> QED
        BY <3>1, <3>2 DEF LanesOK, TypeOK
    <2>2. pc'[w] \notin {"idle", "gated"} => job'[w] \in Intents
      <3>1. CASE \E i \in Intents : ClaimNextReady(w, i)
        BY <3>1 DEF ClaimNextReady, TypeOK
      <3>2. CASE RejectDecision(w)
        <4>1. job[w] \in Intents
          BY <3>2 DEF RejectDecision, LanesOK
        <4>2. job' = job \/ pc' = [pc EXCEPT ![w] = "idle"]
          BY <3>2 DEF RejectDecision
        <4> QED
          BY <4>1, <4>2 DEF TypeOK
      <3>3. CASE AbandonOrder(w)
        BY <3>3 DEF AbandonOrder, LanesOK, TypeOK
      <3>4. CASE Approve(w) \/ Defer(w)
        BY <3>4 DEF Approve, Defer, LanesOK
      <3>5. CASE PassGate(w) \/ ClaimNothing(w) \/ FinishClaim(w)
        BY <3>5 DEF PassGate, ClaimNothing, FinishClaim, TypeOK
      <3> QED
        BY <1>1, <3>1, <3>2, <3>3, <3>4, <3>5
    <2> QED
      BY <2>1, <2>2 DEF OwnLane
  <1>2. CASE Crash(w)
    BY <1>2 DEF Crash, OwnLane, TypeOK
  <1>3. ASSUME NEW o \in Orders, CreateOrder(w, o) PROVE Goal
    <2>1. /\ pc'[w] = "created" /\ placing'[w] = o /\ job'[w] = job[w]
          /\ UNCHANGED <<request, reply, cmd>>
      BY <1>3 DEF CreateOrder, TypeOK
    <2>2. /\ job[w] \in Intents /\ ~Exists(o)
          /\ row'[o].intent = job[w] /\ row'[o].status = "DISPATCH_PENDING"
      BY <1>3, CreateEffect DEF TypeOK
    <2>3. IsOpen(o)' /\ Exists(o)'
      BY <2>2 DEF IsOpen, Exists, OpenStatuses
    <2>4. Unsent(o)'
      BY <2>1, <2>2 DEF BridgeOK, Unsent
    <2> QED
      BY <2>1, <2>2, <2>3, <2>4 DEF OwnLane, Exists, IsOpen, Unsent
  <1>4. CASE MarkUnknown(w)
    <2>1. /\ placing[w] \in Orders /\ Exists(placing[w]) /\ Unsent(placing[w])
          /\ job[w] \in Intents /\ row[placing[w]] \in OrderRows
      BY <1>4 DEF MarkUnknown, LanesOK, TypeOK
    <2>2. /\ pc'[w] = "marked" /\ placing' = placing /\ job' = job
          /\ UNCHANGED <<request, reply, cmd>>
      BY <1>4 DEF MarkUnknown, TypeOK
    <2>3. row'[placing[w]].intent = row[placing[w]].intent
          /\ row'[placing[w]].status = "UNKNOWN"
      BY <1>4, <2>1 DEF MarkUnknown, TypeOK, OrderRows
    <2> QED
      BY <2>1, <2>2, <2>3 DEF OwnLane, Exists, IsOpen, Unsent, OpenStatuses
  <1>5. CASE SendPlaceOrder(w)
    BY <1>5 DEF SendPlaceOrder, LanesOK, OwnLane, Exists, TypeOK
  <1>6. CASE ReceiveReply(w) \/ DispatchUpdateFails(w)
    BY <1>6 DEF ReceiveReply, DispatchUpdateFails, LanesOK, OwnLane, TypeOK
  <1> QED
    BY <1>1, <1>2, <1>3, <1>4, <1>5, <1>6 DEF LaneStep

LEMMA NextLanes ==
  ASSUME TypeOK, LanesOK, BridgeOK, IntentMatchesOrder, [Next]_vars
  PROVE  LanesOK'
  <1>1. \A o \in Orders : Exists(o) => Exists(o)'
    <2>1. CASE ~Creates
      BY <2>1, OnlyCreateOpens DEF RowsAdvance, Exists
    <2>2. ASSUME NEW w \in Workers, NEW o \in Orders, CreateOrder(w, o)
          PROVE  \A p \in Orders : Exists(p) => Exists(p)'
      <3>1. job[w] \in Intents /\ row'[o].intent = job[w]
            /\ \A p \in Orders \ {o} : row'[p] = row[p]
        BY <2>2, CreateEffect DEF TypeOK
      <3> QED
        BY <3>1 DEF Exists
    <2> QED
      BY <2>1, <2>2 DEF Creates
  <1>2. CASE Elsewhere
    <2>1. UNCHANGED <<pc, placing, job>>
      BY <1>2, ElsewhereLanes
    <2>2. ASSUME NEW w \in Workers, pc[w] \in {"created", "marked"}
          PROVE  Unsent(placing[w])' /\ IsOpen(placing[w])'
      <3>1. placing[w] \in Orders /\ Unsent(placing[w]) /\ IsOpen(placing[w])
        BY <2>2 DEF LanesOK
      <3>2. Unsent(placing[w])' /\ row'[placing[w]] = row[placing[w]]
        <4>1. \A o \in Orders : Unsent(o) => Unsent(o)' /\ row'[o] = row[o]
          BY <1>2, UnsentIsUntouched
        <4> QED
          BY <2>1, <3>1, <4>1 DEF Unsent
      <3> QED
        BY <2>1, <3>1, <3>2 DEF IsOpen, Exists
    <2> QED
      BY <1>1, <2>1, <2>2 DEF LanesOK, Unsent, IsOpen, Exists
  <1>3. ASSUME NEW w \in Workers, LaneStep(w) \/ Crash(w) PROVE LanesOK'
    <2>1. \A v \in Workers : OwnLane(v)'
      <3>1. ASSUME NEW v \in Workers, v # w PROVE OwnLane(v)'
        <4>1. /\ pc'[v] = pc[v] /\ placing'[v] = placing[v] /\ job'[v] = job[v]
              /\ placing[v] \in Orders /\ Unsent(placing[v])
                   => Unsent(placing[v])' /\ row'[placing[v]] = row[placing[v]]
          BY <1>3, <3>1, OtherLanes
        <4> QED
          BY <1>1, <4>1 DEF LanesOK, OwnLane, Unsent, IsOpen, Exists
      <3> QED
        BY <1>3, <3>1, OwnStep
    <2>2. ASSUME NEW v \in Workers, NEW u \in Workers,
                 placing'[v] \in Orders, placing'[v] = placing'[u]
          PROVE  v = u
      <3>1. \A x \in Workers \ {w} : placing'[x] = placing[x]
        BY <1>3, OtherLanes
      <3>2. placing'[w] \in Orders => placing'[w] = placing[w] \/ ~Exists(placing'[w])
        BY <1>3, OwnStep
      <3> QED
        BY <2>2, <3>1, <3>2 DEF LanesOK
    <2> QED
      BY <2>1, <2>2 DEF LanesOK, OwnLane, Unsent, IsOpen, Exists
  <1>4. CASE UNCHANGED vars
    BY <1>4 DEF LanesOK, Unsent, IsOpen, Exists
  <1> QED
    BY <1>2, <1>3, <1>4 DEF Next, Elsewhere

-----------------------------------------------------------------------------
(* The Bridge and its Runner.                                              *)

\* A row, once there, stays.
LEMMA RowsStay ==
  ASSUME TypeOK, LanesOK, IntentMatchesOrder, [Next]_vars, NEW o \in Orders, Exists(o)
  PROVE  Exists(o)'
  <1>1. CASE ~Creates
    BY <1>1, OnlyCreateOpens DEF RowsAdvance, Exists
  <1>2. ASSUME NEW w \in Workers, NEW p \in Orders, CreateOrder(w, p) PROVE Exists(o)'
    <2>1. ~Exists(p) /\ \A q \in Orders \ {p} : row'[q] = row[q]
      BY <1>2, CreateEffect DEF TypeOK
    <2> QED
      BY <2>1 DEF Exists
  <1> QED
    BY <1>1, <1>2 DEF Creates

\* Only the Bridge, the Runner and the provider change what is known outside.
Outside ==
  (\E o \in Orders : BridgeStep(o) \/ ProviderMoves(o)) \/ RunnerStep \/ RunnerRestart

LEMMA InsideLeavesOutside ==
  ASSUME TypeOK, [Next]_vars, ~Outside
  PROVE  /\ UNCHANGED <<cmd, runner, prov, history, submissions>>
         /\ outbox' \subseteq outbox
         /\ recon'.todo \subseteq recon.todo \union Snapshot
  <1> DEFINE Same == UNCHANGED <<cmd, runner, prov, history, submissions>>
             Less == /\ outbox' \subseteq outbox
                     /\ recon'.todo \subseteq recon.todo \union Snapshot
  <1>1. NoRecon.todo = {} /\ \A w : Running(w).todo = {}
    BY DEF NoRecon, Running
  <1>2. ASSUME NEW w \in Workers, LaneStep(w) PROVE Same /\ Less
    BY <1>2
    DEF LaneStep, PassGate, ClaimNothing, ClaimNextReady, Approve, RejectDecision, Defer,
        CreateOrder, AbandonOrder, MarkUnknown, SendPlaceOrder, ReceiveReply,
        DispatchUpdateFails, FinishClaim
  <1>3. ASSUME NEW w \in Workers, Crash(w) PROVE Same /\ Less
    BY <1>1, <1>3 DEF Crash
  <1>4. ASSUME NEW i \in Intents, ClaimDeadline(i) \/ ExpireIntent(i) PROVE Same /\ Less
    BY <1>4 DEF ClaimDeadline, ExpireIntent
  <1>5. CASE OutboxStep
    BY <1>5 DEF OutboxStep, DeliverCallback, OutboxRestart
  <1>6. CASE ControlStep
    BY <1>6 DEF ControlStep, SetKillSwitch, SetKillSwitchBridge, FailClosed
  <1>7. CASE LockReconciliation
    <2>1. recon'.todo = Snapshot
      BY <1>7 DEF LockReconciliation, TypeOK
    <2> QED
      BY <1>7, <2>1 DEF LockReconciliation, Snapshot
  <1>8. ASSUME NEW f \in recon.todo, NEW s \in Sources, RecoverEvent(f, s) PROVE Same /\ Less
    <2>1. recon'.todo = recon.todo \ {f}
      BY <1>8 DEF RecoverEvent, TypeOK
    <2> QED
      BY <1>8, <2>1 DEF RecoverEvent
  <1>9. CASE ReconStep
    BY <1>1, <1>7, <1>8, <1>9
    DEF ReconStep, StartReconciliation, TakeOverReconciliation, FinishReconciliation,
        FailReconciliation
  <1>10. CASE UNCHANGED vars
    BY <1>10
  <1> QED
    BY <1>2, <1>3, <1>4, <1>5, <1>6, <1>9, <1>10 DEF Next, Outside

\* A command the Bridge does not have yet: no step outside makes it known.
LEMMA OutsideKeepsSilence ==
  ASSUME TypeOK, RunnerOK, Outside, NEW o \in Orders, Silent(o), cmd[o].status = "NONE",
         cmd'[o].status = "NONE"
  PROVE  Silent(o)'
  <1>1. /\ prov[o].state = "NONE" /\ submissions[o] = 0 /\ runner.order # o
        /\ \A e \in outbox : e.fact.order # o
        /\ \A f \in history \union recon.todo : f.order # o
    BY DEF Silent
  <1>2. ASSUME NEW p \in Orders, BridgeStep(p) PROVE Silent(o)'
    BY <1>1, <1>2 DEF BridgeStep, BridgeEnqueue, BridgeRefuse, LoseRequest, Silent
  <1>3. ASSUME NEW p \in Orders, p # o, NEW state, NEW filled, NEW facts,
               ProviderStep(p, state, filled, facts), \A f \in facts : f.order = p
        PROVE  Silent(o)'
    <2>1. prov'[o] = prov[o]
      BY <1>3 DEF ProviderStep, TypeOK
    <2>2. \A f \in history' : f.order # o
      BY <1>1, <1>3 DEF ProviderStep
    <2>3. \A e \in outbox' : e.fact.order # o
      BY <1>1, <1>3 DEF ProviderStep, Callback
    <2> QED
      BY <1>1, <1>3, <2>1, <2>2, <2>3 DEF ProviderStep, Silent
  <1>4. ASSUME NEW p \in Orders, ProviderMoves(p) PROVE Silent(o)'
    <2>1. p # o
      BY <1>1, <1>4 DEF ProviderMoves, ProviderFill, ProviderCancel, ProviderReject
    <2>2. \E state, filled, facts :
            ProviderStep(p, state, filled, facts) /\ \A f \in facts : f.order = p
      <3>1. CASE ProviderFill(p)
        BY <3>1 DEF ProviderFill, FillFact, StatusFact
      <3>2. CASE ProviderCancel(p)
        BY <3>2 DEF ProviderCancel, StatusFact
      <3>3. CASE ProviderReject(p)
        BY <3>3 DEF ProviderReject, StatusFact
      <3> QED
        BY <1>4, <3>1, <3>2, <3>3 DEF ProviderMoves
    <2> QED
      BY <1>3, <2>1, <2>2
  <1>5. ASSUME NEW p \in Orders, RunnerClaim(p) PROVE Silent(o)'
    <2>1. p # o
      BY <1>5 DEF RunnerClaim
    <2> QED
      BY <1>1, <1>5, <2>1 DEF RunnerClaim, Silent
  <1>6. CASE RunnerArm \/ RunnerRefuse \/ BindProviderId \/ RecordSubmittedFails
    BY <1>1, <1>6 DEF RunnerArm, RunnerRefuse, BindProviderId, RecordSubmittedFails, Silent, TypeOK
  <1>7. CASE OrderVolume \/ OrderVolumeRaises
    <2>1. /\ prov'[o] = prov[o] /\ submissions'[o] = submissions[o]
          /\ UNCHANGED <<outbox, recon>> /\ runner'.order = runner.order
      BY <1>1, <1>7 DEF OrderVolume, OrderVolumeRaises, Accept, CountSubmission, TypeOK
    <2>2. \A f \in history' : f.order # o
      BY <1>1, <1>7 DEF OrderVolume, OrderVolumeRaises, Accept, StatusFact
    <2> QED
      BY <1>1, <2>1, <2>2 DEF Silent
  <1>8. CASE RecordReport
    <2>1. outbox' = outbox \union {Callback(RunnerReport(runner.order))}
      BY <1>8 DEF RecordReport
    <2>2. Callback(RunnerReport(runner.order)).fact.order = runner.order
      BY DEF Callback, RunnerReport, StatusFact
    <2>3. runner'.order # o /\ UNCHANGED <<prov, history, submissions, recon>>
      BY <1>8 DEF RecordReport
    <2> QED
      BY <1>1, <2>1, <2>2, <2>3 DEF Silent
  <1>9. CASE RunnerRestart
    BY <1>1, <1>9 DEF RunnerRestart, Silent
  <1> QED
    BY <1>2, <1>4, <1>5, <1>6, <1>7, <1>8, <1>9 DEF Outside, RunnerStep

\* A command is never forgotten.
LEMMA CommandsStay ==
  ASSUME TypeOK, RunnerOK, [Next]_vars, NEW o \in Orders, cmd'[o].status = "NONE"
  PROVE  cmd[o].status = "NONE"
  <1>1. CASE ~Outside
    BY <1>1, InsideLeavesOutside
  <1>2. ASSUME NEW p \in Orders, BridgeStep(p) \/ ProviderMoves(p)
        PROVE  cmd[o].status = "NONE"
    BY <1>2
    DEF BridgeStep, BridgeEnqueue, BridgeRefuse, LoseRequest, ProviderMoves, ProviderFill,
        ProviderCancel, ProviderReject, ProviderStep, TypeOK, Commands
  <1>3. CASE RunnerRestart
    <2>1. cmd[o].status = "RUNNING" => cmd'[o].status = "UNKNOWN"
      BY <1>3 DEF RunnerRestart, TypeOK, Commands
    <2>2. cmd[o].status # "RUNNING" => cmd'[o] = cmd[o]
      BY <1>3 DEF RunnerRestart
    <2> QED
      BY <2>1, <2>2
  <1>4. CASE RunnerStep
    <2>1. CASE UNCHANGED cmd
      BY <2>1
    <2>2. ASSUME NEW p \in Orders, NEW status, status # "NONE",
                 cmd' = [cmd EXCEPT ![p].status = status]
          PROVE  cmd[o].status = "NONE"
      BY <2>2 DEF TypeOK, Commands
    <2>3. ASSUME NEW p \in Orders, RunnerClaim(p) PROVE cmd[o].status = "NONE"
      BY <2>2, <2>3 DEF RunnerClaim
    <2>4. CASE RunnerRefuse \/ OrderVolumeRaises \/ RecordSubmittedFails
      <3>1. runner.order \in Orders
        BY <2>4 DEF RunnerRefuse, OrderVolumeRaises, RecordSubmittedFails, RunnerOK
      <3> QED
        BY <2>2, <2>4, <3>1 DEF RunnerRefuse, OrderVolumeRaises, RecordSubmittedFails
    <2>5. CASE BindProviderId
      BY <2>5 DEF BindProviderId, RunnerOK, TypeOK
    <2> QED
      BY <1>4, <2>1, <2>3, <2>4, <2>5
      DEF RunnerStep, RunnerArm, OrderVolume, RecordReport
  <1> QED
    BY <1>1, <1>2, <1>3, <1>4 DEF Outside

LEMMA NextBridge ==
  ASSUME TypeOK, LanesOK, BridgeOK, RunnerOK, IntentMatchesOrder, [Next]_vars
  PROVE  BridgeOK'
  <1>1. ASSUME NEW o \in Orders, ~Exists(o)' PROVE Unsent(o)'
    <2>1. ~Exists(o) /\ Unsent(o)
      BY <1>1, RowsStay DEF BridgeOK
    <2>2. CASE Elsewhere
      BY <2>1, <2>2, UnsentIsUntouched
    <2>3. ASSUME NEW w \in Workers, LaneStep(w) \/ Crash(w) PROVE Unsent(o)'
      <3>1. CASE SendPlaceOrder(w)
        BY <2>1, <3>1 DEF SendPlaceOrder, LanesOK, Unsent
      <3>2. CASE ReceiveReply(w)
        BY <2>1, <3>2 DEF ReceiveReply, Unsent, TypeOK
      <3> QED
        BY <2>1, <2>3, <3>1, <3>2
        DEF LaneStep, PassGate, ClaimNothing, ClaimNextReady, Approve, RejectDecision, Defer,
            CreateOrder, AbandonOrder, MarkUnknown, DispatchUpdateFails, FinishClaim, Crash,
            Unsent
    <2>4. CASE UNCHANGED vars
      BY <2>1, <2>4 DEF Unsent
    <2> QED
      BY <2>2, <2>3, <2>4 DEF Next, Elsewhere
  <1>2. ASSUME NEW o \in Orders, cmd'[o].status = "NONE" PROVE Silent(o)'
    <2>1. cmd[o].status = "NONE" /\ Silent(o)
      BY <1>2, CommandsStay DEF BridgeOK
    <2>2. CASE Outside
      BY <1>2, <2>1, <2>2, OutsideKeepsSilence
    <2>3. CASE ~Outside
      BY <2>1, <2>3, InsideLeavesOutside DEF Silent, Snapshot
    <2> QED
      BY <2>2, <2>3
  <1> QED
    BY <1>1, <1>2 DEF BridgeOK, Exists, Unsent, Silent

LEMMA NextRunner ==
  ASSUME TypeOK, BridgeOK, RunnerOK, [Next]_vars
  PROVE  RunnerOK'
  <1>1. CASE ~Outside
    BY <1>1, InsideLeavesOutside DEF RunnerOK
  <1>2. ASSUME NEW p \in Orders, BridgeStep(p) PROVE RunnerOK'
    <2>1. UNCHANGED <<runner, submissions>>
      BY <1>2 DEF BridgeStep, BridgeEnqueue, BridgeRefuse, LoseRequest
    <2>2. CASE BridgeEnqueue(p)
      <3>1. submissions[p] = 0 /\ runner.order # p
        BY <2>2 DEF BridgeEnqueue, BridgeOK, Silent
      <3>2. \A o \in Orders \ {p} : cmd'[o] = cmd[o]
        BY <2>2 DEF BridgeEnqueue, TypeOK
      <3> QED
        BY <2>1, <3>1, <3>2 DEF RunnerOK
    <2>3. CASE UNCHANGED cmd
      BY <2>1, <2>3 DEF RunnerOK
    <2> QED
      BY <1>2, <2>2, <2>3 DEF BridgeStep, BridgeRefuse, LoseRequest
  <1>3. ASSUME NEW p \in Orders, ProviderMoves(p) PROVE RunnerOK'
    BY <1>3
    DEF ProviderMoves, ProviderFill, ProviderCancel, ProviderReject, ProviderStep, RunnerOK
  <1>4. ASSUME NEW p \in Orders, RunnerClaim(p) PROVE RunnerOK'
    <2>1. submissions[p] = 0 /\ submissions' = submissions
      BY <1>4 DEF RunnerClaim, RunnerOK
    <2>2. runner'.step = "checking" /\ runner'.order = p
      BY <1>4 DEF RunnerClaim
    <2>3. cmd'[p].status = "RUNNING" /\ \A o \in Orders \ {p} : cmd'[o] = cmd[o]
      BY <1>4 DEF RunnerClaim, TypeOK, Commands
    <2> QED
      BY <2>1, <2>2, <2>3 DEF RunnerOK
  <1>5. CASE RunnerArm
    BY <1>5 DEF RunnerArm, RunnerOK, TypeOK
  <1>6. ASSUME runner.order \in Orders,
               runner'.step \in RunnerSteps \ {"idle", "checking", "armed"},
               runner'.order = runner.order,
               \A o \in Orders \ {runner.order} :
                 cmd'[o] = cmd[o] /\ submissions'[o] = submissions[o],
               cmd'[runner.order].status # "QUEUED"
        PROVE  RunnerOK'
    BY <1>6 DEF RunnerOK
  <1>7. CASE RunnerRefuse \/ OrderVolume \/ OrderVolumeRaises \/ BindProviderId
             \/ RecordSubmittedFails
    <2>1. runner.order \in Orders
      BY <1>7
      DEF RunnerRefuse, OrderVolume, OrderVolumeRaises, BindProviderId, RecordSubmittedFails,
          RunnerOK
    <2>2. /\ runner'.step \in RunnerSteps \ {"idle", "checking", "armed"}
          /\ runner'.order = runner.order
      BY <1>7
      DEF RunnerRefuse, OrderVolume, OrderVolumeRaises, BindProviderId, RecordSubmittedFails,
          RunnerSteps, TypeOK
    <2>3. \A o \in Orders \ {runner.order} :
            cmd'[o] = cmd[o] /\ submissions'[o] = submissions[o]
      BY <1>7, <2>1
      DEF RunnerRefuse, OrderVolume, OrderVolumeRaises, BindProviderId, RecordSubmittedFails,
          CountSubmission, TypeOK
    <2>4. cmd[runner.order].status # "QUEUED"
      BY <2>1 DEF RunnerOK
    <2>5. cmd[runner.order] \in Commands
      BY <2>1 DEF TypeOK
    <2>6. cmd'[runner.order].status # "QUEUED"
      BY <1>7, <2>1, <2>4, <2>5
      DEF RunnerRefuse, OrderVolume, OrderVolumeRaises, BindProviderId, RecordSubmittedFails,
          TypeOK, Commands
    <2> QED
      BY <1>6, <2>1, <2>2, <2>3, <2>6
  <1>8. CASE RecordReport
    BY <1>8 DEF RecordReport, RunnerOK
  <1>9. CASE RunnerRestart
    <2>1. UNCHANGED submissions /\ runner' = [step |-> "idle", order |-> NoOrder]
      BY <1>9 DEF RunnerRestart
    <2>2. \A o \in Orders : cmd[o] \in Commands
      BY DEF TypeOK
    <2>3. \A o \in Orders : cmd'[o].status = "QUEUED" => cmd[o].status = "QUEUED"
      BY <1>9, <2>2 DEF RunnerRestart, Commands
    <2> QED
      BY <2>1, <2>3 DEF RunnerOK
  <1> QED
    BY <1>1, <1>2, <1>3, <1>4, <1>5, <1>7, <1>8, <1>9 DEF Outside, RunnerStep

LEMMA NextSubmitted ==
  ASSUME TypeOK, LanesOK, BridgeOK, RunnerOK, IntentMatchesOrder, SubmittedOnce, [Next]_vars
  PROVE  SubmittedOnce'
  <1>1. CASE UNCHANGED submissions
    BY <1>1, RowsStay DEF SubmittedOnce
  <1>2. CASE OrderVolume \/ OrderVolumeRaises
    <2>1. runner.order \in Orders /\ submissions[runner.order] = 0
      BY <1>2 DEF OrderVolume, OrderVolumeRaises, RunnerOK
    <2>2. Exists(runner.order)
      BY <2>1 DEF BridgeOK, Unsent, Silent
    <2>3. submissions' = [submissions EXCEPT ![runner.order] = @ + 1]
      BY <1>2 DEF OrderVolume, OrderVolumeRaises, CountSubmission
    <2>4. submissions'[runner.order] = 1
          /\ \A o \in Orders \ {runner.order} : submissions'[o] = submissions[o]
      BY <2>1, <2>3 DEF TypeOK
    <2> QED
      BY <2>1, <2>2, <2>4, RowsStay DEF SubmittedOnce
  <1>3. Outside => UNCHANGED submissions \/ OrderVolume \/ OrderVolumeRaises
    BY DEF Outside, BridgeStep, BridgeEnqueue, BridgeRefuse, LoseRequest, ProviderMoves,
           ProviderFill, ProviderCancel, ProviderReject, ProviderStep, RunnerStep, RunnerClaim,
           RunnerArm, RunnerRefuse, BindProviderId, RecordSubmittedFails, RecordReport,
           RunnerRestart
  <1> QED
    BY <1>1, <1>2, <1>3, InsideLeavesOutside

-----------------------------------------------------------------------------
(* The invariant and what follows from it.                                 *)

LEMMA InitInv == Init => IndInv
  <1> SUFFICES ASSUME Init PROVE IndInv
    OBVIOUS
  <1>1. TypeOK
    BY InitType
  <1>2. \A o \in Orders : ~Exists(o) /\ Unsent(o) /\ Silent(o)
    BY DEF Init, Exists, Unsent, Silent, NoRecon
  <1>3. LanesOK
    BY DEF Init, LanesOK
  <1>4. RunnerOK
    BY DEF Init, RunnerOK
  <1>5. OneOpenOrder /\ SubmittedOnce
    BY <1>2 DEF Init, OneOpenOrder, openOrders, IsOpen, SubmittedOnce
  <1>6. IntentMatchesOrder
    BY <1>2 DEF Init, IntentMatchesOrder, Exists
  <1> QED
    BY <1>1, <1>2, <1>3, <1>4, <1>5, <1>6 DEF IndInv, BridgeOK

LEMMA NextInv == IndInv /\ [Next]_vars => IndInv'
  BY NextType, NextLanes, NextBridge, NextRunner, NextOpen, NextIntents, NextSubmitted
  DEF IndInv

\* In every reachable state at most one order is open, every intent has at most
\* one, and an order unknown to the Bridge is unknown to everybody beyond it.
THEOREM Invariance == Spec => []IndInv
  BY InitInv, NextInv, PTL DEF Spec

\* No step of the order path stores a value the schema does not allow.
THEOREM TypesHold == Spec => []TypeOK
  <1>1. IndInv => TypeOK
    BY DEF IndInv
  <1> QED
    BY <1>1, Invariance, PTL

\* persistDecision under the account lock: claims that expire, retries and workers
\* that come late never give an intent a second order, nor a wrong status.
THEOREM OneOrderPerIntent == Spec => []IntentMatchesOrder
  <1>1. IndInv => IntentMatchesOrder
    BY DEF IndInv
  <1> QED
    BY <1>1, Invariance, PTL

\* QueryOpen under the account lock: two rows are never open together.
THEOREM OneOrderOpen == Spec => []OneOpenOrder
  <1>1. IndInv => OneOpenOrder
    BY DEF IndInv
  <1> QED
    BY <1>1, Invariance, PTL

\* Lost answers, retries and restarts of the Runner never submit an order twice.
THEOREM NoDoubleSubmission == Spec => []SubmittedOnce
  <1>1. IndInv => SubmittedOnce
    BY DEF IndInv
  <1> QED
    BY <1>1, Invariance, PTL

-----------------------------------------------------------------------------
(* The order path implements SingleExposure.                               *)

openIntents == {row[o].intent : o \in openOrders}
doneIntents == {row[o].intent : o \in {p \in Orders : Exists(p) /\ ~IsOpen(p)}}

\* Opening an order is the abstract Open.
LEMMA CreateOpens ==
  ASSUME IndInv, NEW w \in Workers, NEW o \in Orders, CreateOrder(w, o)
  PROVE  /\ openIntents = {} /\ job[w] \in Intents /\ job[w] \notin doneIntents
         /\ openIntents' = {job[w]} /\ doneIntents' = doneIntents
  <1>1. /\ job[w] \in Intents /\ ~Exists(o) /\ openOrders = {}
        /\ \A p \in Orders : row[p].intent # job[w]
    BY CreateEffect DEF IndInv
  <1>2. /\ row'[o].intent = job[w] /\ row'[o].status = "DISPATCH_PENDING"
        /\ \A p \in Orders \ {o} : row'[p] = row[p]
    BY CreateEffect DEF IndInv, TypeOK
  <1>3. IsOpen(o)' /\ \A p \in Orders \ {o} : ~IsOpen(p)'
    BY <1>1, <1>2 DEF IsOpen, Exists, openOrders, OpenStatuses
  <1>4. openOrders' = {o}
    BY <1>3 DEF openOrders
  <1>5. \A p \in Orders : (Exists(p) /\ ~IsOpen(p))' <=> Exists(p) /\ ~IsOpen(p)
    BY <1>1, <1>2, <1>3 DEF Exists, IsOpen
  <1>6. \A p \in Orders : Exists(p) => row'[p].intent = row[p].intent
    BY <1>1, <1>2
  <1>7. doneIntents' = doneIntents
    BY <1>5, <1>6 DEF doneIntents
  <1> QED
    BY <1>1, <1>2, <1>4, <1>7 DEF openIntents, doneIntents

\* Any other step leaves the intents where they are or closes the one open order.
LEMMA AdvanceCloses ==
  ASSUME IndInv, RowsAdvance
  PROVE  \/ openIntents' = openIntents /\ doneIntents' = doneIntents
         \/ /\ openIntents # {} /\ openIntents' = {}
            /\ doneIntents' = doneIntents \union openIntents
  <1>1. \A o \in Orders : /\ row'[o].intent = row[o].intent
                          /\ Exists(o)' <=> Exists(o)
                          /\ IsOpen(o)' => IsOpen(o)
    BY DEF RowsAdvance, Exists, IsOpen
  <1>2. CASE openOrders' = openOrders
    <2>1. \A o \in Orders : IsOpen(o)' <=> IsOpen(o)
      BY <1>2 DEF openOrders
    <2>2. openIntents' = openIntents
      BY <1>1, <1>2 DEF openIntents, openOrders
    <2>3. doneIntents' = doneIntents
      BY <1>1, <2>1 DEF doneIntents
    <2> QED
      BY <2>2, <2>3
  <1>3. CASE openOrders' # openOrders
    <2>1. PICK o \in Orders : IsOpen(o) /\ ~IsOpen(o)'
      BY <1>1, <1>3 DEF openOrders
    <2>2. openOrders = {o}
      BY <2>1 DEF IndInv, OneOpenOrder, openOrders
    <2>3. openOrders' = {}
      BY <1>1, <2>1, <2>2 DEF openOrders
    <2>4. openIntents = {row[o].intent} /\ openIntents' = {}
      BY <2>2, <2>3 DEF openIntents
    <2>5. \A p \in Orders : (Exists(p) /\ ~IsOpen(p))' <=> (Exists(p) /\ ~IsOpen(p)) \/ p = o
      BY <1>1, <2>1, <2>2, <2>3 DEF openOrders, IsOpen
    <2>6. doneIntents' = doneIntents \union {row[o].intent}
      BY <1>1, <2>5 DEF doneIntents
    <2> QED
      BY <2>4, <2>6
  <1> QED
    BY <1>2, <1>3

\* Every order is opened alone and closed before the next one, in any interleaving
\* of lanes, callbacks, reconciliation, crashes and lost messages.
THEOREM Implementation == Spec => ImplementsSingleExposure
  <1>1. Init => Exposure!Init
    <2> SUFFICES ASSUME Init PROVE Exposure!Init
      OBVIOUS
    <2>1. \A o \in Orders : ~Exists(o)
      BY DEF Init, Exists
    <2> QED
      BY <2>1 DEF Exposure!Init, openOrders, IsOpen
  <1>2. ASSUME IndInv, [Next]_vars
        PROVE  Exposure!Next \/ (openIntents' = openIntents /\ doneIntents' = doneIntents)
    <2>1. ASSUME NEW w \in Workers, NEW o \in Orders, CreateOrder(w, o) PROVE Exposure!Next
      BY <1>2, <2>1, CreateOpens
      DEF Exposure!Next, Exposure!Open, openIntents, doneIntents
    <2>2. CASE ~Creates
      <3>1. RowsAdvance
        BY <1>2, <2>2, OnlyCreateOpens DEF IndInv
      <3> QED
        BY <1>2, <3>1, AdvanceCloses
        DEF Exposure!Next, Exposure!Close, openIntents, doneIntents
    <2> QED
      BY <2>1, <2>2 DEF Creates
  <1>3. IndInv /\ [Next]_vars => [Exposure!Next]_<<openIntents, doneIntents>>
    BY <1>2
  <1> QED
    BY <1>1, <1>3, Invariance, PTL
    DEF Spec, ImplementsSingleExposure, Exposure!Spec, openIntents, doneIntents

-----------------------------------------------------------------------------
(* The invariant.                                                          *)

\* The provider has never been asked for the order.
Unplaced(o) == prov[o].state = "NONE" /\ submissions[o] = 0

\* The command the Runner works on is where the Runner's step says.
RunnerKnows ==
  /\ runner.step \in {"checking", "armed", "accepted"} => cmd[runner.order].status = "RUNNING"
  /\ runner.step = "reportSubmitted" => cmd[runner.order].status = "DONE"
  /\ runner.step = "reportUnknown" => cmd[runner.order].status = "UNKNOWN"
  /\ runner.step = "reportRejected" =>
       cmd[runner.order].status = "FAILED" /\ submissions[runner.order] = 0
  /\ \A o \in Orders : cmd[o].bound => cmd[o].status \in {"DONE", "UNKNOWN"}

\* A request is the first the Bridge hears of an order; a refusal leaves no trace.
RequestsOK ==
  /\ \A o \in request : cmd[o].status = "NONE" /\ reply[o] = "NONE"
  /\ \A o \in Orders : reply[o] = "REFUSED" => cmd[o].status = "NONE"

\* An order that may still be submitted has an open row ...
Underway(o) == o \in request \/ cmd[o].status \in {"QUEUED", "RUNNING"}

UnderwayIsOpen == \A o \in Orders : Underway(o) => IsOpen(o)

\* ... and nothing about it is on its way to the server.
Told(e) == e \in outbox \/ e.fact \in recon.todo

Undecided == {"NONE", "QUEUED", "RUNNING"}

UnderwayIsSilent ==
  \A o \in Orders : cmd[o].status \in Undecided =>
    (\A e \in outbox : e.fact.order # o) /\ (\A f \in recon.todo : f.order # o)

\* What a fact says has happened has happened, and cannot be undone.
Truthful(f) ==
  /\ f.cum <= prov[f.order].filled
  /\ f.status = "FILLED" => prov[f.order].state = "FILLED"
  /\ f.status = "CANCELED" => prov[f.order].state = "CANCELED"
  /\ f.status = "REJECTED" =>
       \/ prov[f.order].state = "REJECTED"
       \/ Unplaced(f.order) /\ cmd[f.order].status = "FAILED"

FactsOK ==
  /\ \A f \in history : Truthful(f)
  /\ \A e \in outbox : /\ Truthful(e.fact)
                       /\ e.fact.kind = "EXECUTION_REPORT" => e.fact \in history
  /\ recon.todo \subseteq history

ProviderOK ==
  \A o \in Orders :
    /\ submissions[o] = 0 => prov[o].state = "NONE"
    /\ prov[o].state = "NONE" => prov[o].filled = 0 /\ \A f \in history : f.order # o
    /\ prov[o].filled = Volume => prov[o].state = "FILLED"

\* The provider's facts of one order have distinct times, none ahead of it; an
\* execution comes with the status that counts it, and each with shares of its own.
Execution(f) == f.kind = "EXECUTION_REPORT"
Counts(g, f) == g.kind = "ORDER_STATUS" /\ g.order = f.order /\ g.at = f.at

HistoryOK ==
  /\ \A f \in history : f.at <= 2 * prov[f.order].seq
  /\ \A f, g \in history : f.order = g.order /\ f.kind = g.kind /\ f.at = g.at => f = g
  /\ \A f \in history : Execution(f) => \E g \in history : Counts(g, f) /\ f.fill <= g.cum
  /\ \A f, g, h \in history :
       Execution(f) /\ Counts(g, f) /\ h.kind = "ORDER_STATUS" /\ h.order = f.order
         /\ h.at < f.at => h.cum + f.fill <= g.cum

\* The shares of an order executed at the given times, as facts tell, numbered in
\* the order they were filled.
Lots(facts, o, times) ==
  {n \in 1..Volume : \E f, g \in facts :
     /\ Execution(f) /\ f.order = o /\ f.at \in times /\ Counts(g, f)
     /\ g.cum - f.fill < n /\ n <= g.cum}

ExecutionTimes(facts, o) == {f.at : f \in {f \in facts : Execution(f) /\ f.order = o}}

\* Stored fills are executions of the history and their sum is the number of
\* shares those executed.
TrueFills(facts, o, stored) ==
  /\ stored.execs \subseteq ExecutionTimes(facts, o)
  /\ stored.sum = Cardinality(Lots(facts, o, stored.execs))

FillsOK == \A o \in Orders : TrueFills(history, o, fills[o])

\* A row may say of its order.
TrueRow(o, r) ==
  /\ r.filled <= prov[o].filled
  /\ r.status = "FILLED" => prov[o].state = "FILLED"
  /\ r.status = "CANCELED" => prov[o].state = "CANCELED"
  /\ r.status = "REJECTED" => prov[o].state = "REJECTED" \/ Unplaced(o)

RowsOK ==
  \A o \in Orders :
    /\ TrueRow(o, row[o])
    /\ ~Exists(o) => row[o].filled = 0 /\ row[o].status \in OpenStatuses

\* The order can still be submitted although a switch went on meanwhile.
Pending(o) ==
  \/ \E w \in Workers : pc[w] \in {"created", "marked"} /\ placing[w] = o
  \/ o \in request
  \/ cmd[o].status = "QUEUED"
  \/ runner.step \in {"checking", "armed"} /\ runner.order = o

KillsOK ==
  /\ sentUnderKill.db <= 1 /\ sentUnderKill.bridge <= 1
  /\ ~dbKill => sentUnderKill.db = 0
  /\ ~bridgeKill => sentUnderKill.bridge = 0
  /\ sentUnderKill.db = 1 => \A o \in Orders : ~Pending(o)
  /\ sentUnderKill.bridge = 1 => runner.step # "armed"

LedgerInv ==
  /\ IndInv
  /\ RunnerKnows /\ RequestsOK /\ UnderwayIsOpen /\ UnderwayIsSilent
  /\ FactsOK /\ ProviderOK /\ HistoryOK /\ FillsOK /\ RowsOK /\ KillsOK

-----------------------------------------------------------------------------
(* What the merge makes of a row.                                          *)

\* The merged volume is one of the three it is computed from.
LEMMA MergedVolumeBound ==
  ASSUME NEW order, NEW event, NEW sum, NEW volume, Mergeable(order, event, sum, volume),
         NEW most \in Nat, order.filled <= most, event.cum <= most, sum <= most
  PROVE  MergedVolume(order, event, sum) <= most
  BY DEF Mergeable, MergedVolume

\* A terminal status comes from the row, from the event, or from a full volume.
LEMMA MergedStatusOrigin ==
  ASSUME NEW order, NEW event, NEW sum, NEW volume,
         MergedStatus(order, event, sum, volume) \in TerminalStatuses
  PROVE  \/ MergedStatus(order, event, sum, volume) \in {order.status, event.status}
         \/ /\ MergedStatus(order, event, sum, volume) = "FILLED"
            /\ MergedVolume(order, event, sum) = volume
  BY DEF MergedStatus, StatusFromEvent, TerminalStatuses

\* A row that is over and not full keeps its very status.
LEMMA MergeKeepsStatus ==
  ASSUME NEW order, NEW event, NEW sum, NEW volume, order.status \in TerminalStatuses,
         MergedVolume(order, event, sum) # volume
  PROVE  MergedStatus(order, event, sum, volume) = order.status
  <1>1. StatusFromEvent(order, event) = order.status
    BY StatusFromEventTerminal
  <1> QED
    BY <1>1 DEF MergedStatus, IsTerminalOrderStatus

-----------------------------------------------------------------------------
(* The ways a step can change one order's part of the ledger.              *)

RowKept(o) == row'[o] = row[o] /\ fills'[o] = fills[o]

\* The row gets another status; its intent and volume stay.
Restated(o, status) ==
  /\ row'[o] = [row[o] EXCEPT !.status = status]
  /\ fills'[o] = fills[o]

Marked(o) == IsOpen(o) /\ Restated(o, "UNKNOWN")

Answered(o) ==
  /\ Exists(o)
  /\ \/ Restated(o, StatusAfterAccepted(row[o].status))
     \/ Restated(o, StatusAfterDispatchError(row[o].status))
     \/ reply[o] = "REFUSED" /\ Restated(o, StatusAfterRefused)

\* An event about it is applied.
Merged(o) ==
  \E e \in Events :
    LET stored == StoredFills(e)
        merged == MergeOrderEvent(row[o], e.fact, stored.sum, Volume)
    IN  /\ Told(e) /\ e.fact.order = o /\ Exists(o)
        /\ MergeAccepts(e.fact, stored.sum, Volume)
        /\ fills'[o] = stored
        /\ row'[o] = [intent |-> row[o].intent, status |-> merged.status,
                      filled |-> merged.filled, lastAt |-> merged.lastAt]

LEMMA ApplyOne ==
  ASSUME TypeOK, NEW e \in Events, Told(e), ApplyBridgeEvent(e), NEW o \in Orders
  PROVE  RowKept(o) \/ Merged(o)
  <1> DEFINE p == e.fact.order
             stored == StoredFills(e)
             merged == MergeOrderEvent(row[p], e.fact, stored.sum, Volume)
             new == [intent |-> row[p].intent, status |-> merged.status,
                     filled |-> merged.filled, lastAt |-> merged.lastAt]
  <1>1. CASE Recorded(e)
    BY <1>1 DEF ApplyBridgeEvent, RowKept
  <1>2. CASE ~Recorded(e)
    <2>1. /\ Exists(p) /\ MergeAccepts(e.fact, stored.sum, Volume)
          /\ fills' = [fills EXCEPT ![p] = stored]
          /\ row' = [row EXCEPT ![p] = new]
      BY <1>2 DEF ApplyBridgeEvent
    <2>2. CASE o = p
      <3>1. fills'[o] = stored /\ row'[o] = new
        <4> HIDE DEF stored, new
        <4> QED
          BY <2>1, <2>2 DEF TypeOK
      <3> QED
        BY <2>1, <2>2, <3>1 DEF Merged
    <2>3. CASE o # p
      <3> HIDE DEF stored, new
      <3> QED
        BY <2>1, <2>3 DEF TypeOK, RowKept
    <2> QED
      BY <2>2, <2>3
  <1> QED
    BY <1>1, <1>2

\* One row gets another status.
LEMMA RestateOne ==
  ASSUME TypeOK, NEW p \in Orders, NEW status, UNCHANGED fills,
         row' = [row EXCEPT ![p].status = status], NEW o \in Orders
  PROVE  RowKept(o) \/ (o = p /\ Restated(o, status))
  BY DEF TypeOK, RowKept, Restated

\* Whatever happens, an order's part of the ledger is kept, created, marked,
\* answered or merged with an event that was on its way.
LEMMA LedgerSteps ==
  ASSUME TypeOK, LanesOK, [Next]_vars, NEW o \in Orders
  PROVE  \/ RowKept(o)
         \/ (\E w \in Workers : CreateOrder(w, o)) /\ fills'[o] = fills[o]
         \/ Marked(o) \/ Answered(o) \/ Merged(o)
  <1> DEFINE Goal == \/ RowKept(o)
                     \/ (\E w \in Workers : CreateOrder(w, o)) /\ fills'[o] = fills[o]
                     \/ Marked(o) \/ Answered(o) \/ Merged(o)
  <1>1. CASE UNCHANGED <<row, fills>>
    BY <1>1 DEF RowKept
  <1>2. ASSUME NEW w \in Workers, NEW p \in Orders, CreateOrder(w, p) PROVE Goal
    BY <1>2 DEF CreateOrder, RowKept, TypeOK
  <1>3. ASSUME NEW w \in Workers, MarkUnknown(w) PROVE Goal
    <2>1. placing[w] \in Orders /\ IsOpen(placing[w])
      BY <1>3 DEF MarkUnknown, LanesOK
    <2>2. UNCHANGED fills /\ row' = [row EXCEPT ![placing[w]].status = "UNKNOWN"]
      BY <1>3 DEF MarkUnknown
    <2> QED
      BY <2>1, <2>2, RestateOne DEF Marked
  <1>4. ASSUME NEW w \in Workers, ReceiveReply(w) PROVE Goal
    <2> DEFINE p == placing[w]
    <2>1. p \in Orders /\ Exists(p) /\ UNCHANGED fills
      BY <1>4 DEF ReceiveReply, LanesOK
    <2>2. \/ row' = [row EXCEPT ![p].status = StatusAfterAccepted(row[p].status)]
          \/ row' = [row EXCEPT ![p].status = StatusAfterDispatchError(row[p].status)]
          \/ reply[p] = "REFUSED" /\ row' = [row EXCEPT ![p].status = StatusAfterRefused]
      BY <1>4 DEF ReceiveReply
    <2> HIDE DEF p
    <2>3. CASE row' = [row EXCEPT ![p].status = StatusAfterAccepted(row[p].status)]
      BY <2>1, <2>3, RestateOne DEF Answered
    <2>4. CASE row' = [row EXCEPT ![p].status = StatusAfterDispatchError(row[p].status)]
      BY <2>1, <2>4, RestateOne DEF Answered
    <2>5. CASE reply[p] = "REFUSED" /\ row' = [row EXCEPT ![p].status = StatusAfterRefused]
      BY <2>1, <2>5, RestateOne DEF Answered
    <2> QED
      BY <2>2, <2>3, <2>4, <2>5
  <1>5. ASSUME NEW w \in Workers, LaneStep(w) PROVE Goal
    BY <1>1, <1>2, <1>3, <1>4, <1>5
    DEF LaneStep, PassGate, ClaimNothing, ClaimNextReady, Approve, RejectDecision, Defer,
        AbandonOrder, SendPlaceOrder, DispatchUpdateFails, FinishClaim
  <1>6. ASSUME NEW e \in outbox, DeliverCallback(e) PROVE Goal
    <2>1. e \in Events /\ Told(e)
      BY DEF TypeOK, Told
    <2> QED
      BY <1>6, <2>1, ApplyOne DEF DeliverCallback
  <1>7. ASSUME NEW f \in recon.todo, NEW s \in Sources, RecoverEvent(f, s) PROVE Goal
    <2>1. [fact |-> f, src |-> s] \in Events /\ Told([fact |-> f, src |-> s])
      BY DEF TypeOK, Events, Told
    <2> QED
      BY <1>7, <2>1, ApplyOne DEF RecoverEvent
  <1>8. CASE OutboxStep
    BY <1>1, <1>6, <1>8 DEF OutboxStep, OutboxRestart
  <1>9. CASE ReconStep
    BY <1>1, <1>7, <1>9
    DEF ReconStep, StartReconciliation, TakeOverReconciliation, LockReconciliation,
        FinishReconciliation, FailReconciliation
  <1>10. CASE ControlStep \/ RunnerStep \/ RunnerRestart
    BY <1>1, <1>10
    DEF ControlStep, SetKillSwitch, SetKillSwitchBridge, FailClosed, RunnerStep, RunnerClaim,
        RunnerArm, RunnerRefuse, OrderVolume, OrderVolumeRaises, BindProviderId,
        RecordSubmittedFails, RecordReport, RunnerRestart
  <1>11. ASSUME NEW p \in Orders, BridgeStep(p) \/ ProviderMoves(p) PROVE Goal
    BY <1>1, <1>11
    DEF BridgeStep, BridgeEnqueue, BridgeRefuse, LoseRequest, ProviderMoves, ProviderFill,
        ProviderCancel, ProviderReject, ProviderStep
  <1>12. ASSUME NEW w \in Workers, Crash(w) PROVE Goal
    BY <1>1, <1>12 DEF Crash
  <1>13. ASSUME NEW i \in Intents, ClaimDeadline(i) \/ ExpireIntent(i) PROVE Goal
    BY <1>1, <1>13 DEF ClaimDeadline, ExpireIntent
  <1>14. CASE UNCHANGED vars
    BY <1>1, <1>14
  <1> QED
    BY <1>5, <1>8, <1>9, <1>10, <1>11, <1>12, <1>13, <1>14 DEF Next

-----------------------------------------------------------------------------
(* The Bridge's and the provider's side.                                   *)

\* Steps of the Runner, one by one, for an order's command.
LEMMA NextRunnerKnows ==
  ASSUME TypeOK, BridgeOK, RunnerOK, RunnerKnows, [Next]_vars
  PROVE  RunnerKnows'
  <1>1. CASE ~Outside
    BY <1>1, InsideLeavesOutside DEF RunnerKnows
  <1>2. ASSUME NEW p \in Orders, BridgeStep(p) PROVE RunnerKnows'
    <2>1. UNCHANGED <<runner, submissions>>
      BY <1>2 DEF BridgeStep, BridgeEnqueue, BridgeRefuse, LoseRequest
    <2>2. CASE BridgeEnqueue(p)
      <3>1. runner.order # p /\ ~cmd[p].bound
        BY <2>2 DEF BridgeEnqueue, BridgeOK, Silent, RunnerKnows
      <3>2. cmd'[p].bound = cmd[p].bound /\ \A o \in Orders \ {p} : cmd'[o] = cmd[o]
        BY <2>2 DEF BridgeEnqueue, TypeOK, Commands
      <3> QED
        BY <2>1, <3>1, <3>2 DEF RunnerKnows, RunnerOK, TypeOK, RunnerSteps
    <2>3. CASE UNCHANGED cmd
      BY <2>1, <2>3 DEF RunnerKnows
    <2> QED
      BY <1>2, <2>2, <2>3 DEF BridgeStep, BridgeRefuse, LoseRequest
  <1>3. ASSUME NEW p \in Orders, ProviderMoves(p) PROVE RunnerKnows'
    BY <1>3
    DEF ProviderMoves, ProviderFill, ProviderCancel, ProviderReject, ProviderStep, RunnerKnows
  <1>4. ASSUME NEW p \in Orders, RunnerClaim(p) PROVE RunnerKnows'
    <2>1. ~cmd[p].bound
      BY <1>4 DEF RunnerClaim, RunnerKnows
    <2>2. /\ cmd'[p].status = "RUNNING" /\ cmd'[p].bound = cmd[p].bound
          /\ \A o \in Orders \ {p} : cmd'[o] = cmd[o]
      BY <1>4 DEF RunnerClaim, TypeOK, Commands
    <2>3. runner' = [step |-> "checking", order |-> p]
      BY <1>4 DEF RunnerClaim
    <2> QED
      BY <2>1, <2>2, <2>3 DEF RunnerKnows
  <1>5. CASE RunnerArm \/ OrderVolume
    BY <1>5 DEF RunnerArm, OrderVolume, RunnerKnows, TypeOK
  <1>6. ASSUME NEW step \in {"reportSubmitted", "reportRejected", "reportUnknown"},
               runner.order \in Orders, runner' = [runner EXCEPT !.step = step],
               \A o \in Orders \ {runner.order} : cmd'[o] = cmd[o],
               step = "reportSubmitted" => cmd'[runner.order].status = "DONE",
               step = "reportUnknown" => cmd'[runner.order].status = "UNKNOWN",
               step = "reportRejected" => /\ cmd'[runner.order].status = "FAILED"
                                          /\ submissions'[runner.order] = 0,
               cmd'[runner.order].bound => cmd'[runner.order].status \in {"DONE", "UNKNOWN"}
        PROVE  RunnerKnows'
    <2>1. runner'.step = step /\ runner'.order = runner.order
      BY <1>6 DEF TypeOK
    <2> QED
      BY <1>6, <2>1 DEF RunnerKnows
  <1>7. ASSUME NEW o \in Orders, NEW status, cmd' = [cmd EXCEPT ![o].status = status]
        PROVE  /\ cmd'[o].status = status /\ cmd'[o].bound = cmd[o].bound
               /\ \A p \in Orders \ {o} : cmd'[p] = cmd[p]
    BY <1>7 DEF TypeOK, Commands
  <1>8. CASE RunnerRefuse
    <2>1. runner.order \in Orders /\ submissions[runner.order] = 0
      BY <1>8 DEF RunnerRefuse, RunnerOK
    <2>2. ~cmd[runner.order].bound
      BY <1>8, <2>1 DEF RunnerRefuse, RunnerKnows
    <2>3. /\ cmd' = [cmd EXCEPT ![runner.order].status = "FAILED"]
          /\ runner' = [runner EXCEPT !.step = "reportRejected"] /\ submissions' = submissions
      BY <1>8 DEF RunnerRefuse
    <2> QED
      BY <1>6, <1>7, <2>1, <2>2, <2>3
  <1>9. CASE OrderVolumeRaises \/ RecordSubmittedFails
    <2>1. runner.order \in Orders
      BY <1>9 DEF OrderVolumeRaises, RecordSubmittedFails, RunnerOK
    <2>2. /\ cmd' = [cmd EXCEPT ![runner.order].status = "UNKNOWN"]
          /\ runner' = [runner EXCEPT !.step = "reportUnknown"]
      BY <1>9 DEF OrderVolumeRaises, RecordSubmittedFails
    <2> QED
      BY <1>6, <1>7, <2>1, <2>2
  <1>10. CASE BindProviderId
    <2>1. runner.order \in Orders
      BY <1>10 DEF BindProviderId, RunnerOK
    <2>2. /\ cmd' = [cmd EXCEPT ![runner.order] = [status |-> "DONE", bound |-> TRUE]]
          /\ runner' = [runner EXCEPT !.step = "reportSubmitted"]
      BY <1>10 DEF BindProviderId
    <2>3. /\ cmd'[runner.order] = [status |-> "DONE", bound |-> TRUE]
          /\ \A o \in Orders \ {runner.order} : cmd'[o] = cmd[o]
      BY <2>1, <2>2 DEF TypeOK
    <2> QED
      BY <1>6, <2>1, <2>2, <2>3
  <1>11. CASE RecordReport
    BY <1>11 DEF RecordReport, RunnerKnows
  <1>12. CASE RunnerRestart
    <2>1. /\ runner' = [step |-> "idle", order |-> NoOrder]
          /\ cmd' = [o \in Orders |-> IF cmd[o].status = "RUNNING"
                                        THEN [cmd[o] EXCEPT !.status = "UNKNOWN"] ELSE cmd[o]]
      BY <1>12 DEF RunnerRestart
    <2>2. \A o \in Orders : cmd[o].status = "RUNNING" => ~cmd[o].bound
      BY DEF RunnerKnows
    <2>3. \A o \in Orders : cmd[o].status = "RUNNING" => cmd'[o].status = "UNKNOWN"
      BY <2>1 DEF TypeOK, Commands
    <2>4. \A o \in Orders : cmd[o].status # "RUNNING" => cmd'[o] = cmd[o]
      BY <2>1
    <2> QED
      BY <2>1, <2>3, <2>4 DEF RunnerKnows
  <1> QED
    BY <1>1, <1>2, <1>3, <1>4, <1>5, <1>8, <1>9, <1>10, <1>11, <1>12 DEF Outside, RunnerStep

\* What can happen to an order's command in a step: it is enqueued, claimed, or
\* goes on to an end that it keeps.
CommandSteps(o) ==
  \/ cmd'[o] = cmd[o]
  \/ BridgeEnqueue(o) /\ cmd'[o].status = "QUEUED"
  \/ cmd[o].status = "QUEUED" /\ cmd'[o].status = "RUNNING"
  \/ cmd[o].status = "RUNNING" /\ cmd'[o].status \in {"FAILED", "DONE", "UNKNOWN"}
  \/ cmd[o].status = "DONE" /\ cmd'[o].status = "UNKNOWN"

LEMMA CommandsAdvance ==
  ASSUME TypeOK, RunnerOK, RunnerKnows, [Next]_vars, NEW o \in Orders
  PROVE  CommandSteps(o)
  <1>1. CASE ~Outside
    BY <1>1, InsideLeavesOutside DEF CommandSteps
  <1>2. CASE UNCHANGED cmd
    BY <1>2 DEF CommandSteps
  <1>3. ASSUME NEW p \in Orders, BridgeStep(p) \/ ProviderMoves(p) PROVE CommandSteps(o)
    <2>1. CASE BridgeEnqueue(p)
      <3>1. cmd'[p].status = "QUEUED" /\ \A q \in Orders \ {p} : cmd'[q] = cmd[q]
        BY <2>1 DEF BridgeEnqueue, TypeOK, Commands
      <3> QED
        BY <2>1, <3>1 DEF CommandSteps
    <2>2. CASE ~BridgeEnqueue(p)
      BY <1>2, <1>3, <2>2
      DEF BridgeStep, BridgeRefuse, LoseRequest, ProviderMoves, ProviderFill, ProviderCancel,
          ProviderReject, ProviderStep
    <2> QED
      BY <2>1, <2>2
  <1>4. ASSUME NEW p \in Orders, NEW status, cmd' = [cmd EXCEPT ![p].status = status]
        PROVE  cmd'[o] = cmd[o] \/ (o = p /\ cmd'[o].status = status)
    BY <1>4 DEF TypeOK, Commands
  <1>5. ASSUME NEW p \in Orders, RunnerClaim(p) PROVE CommandSteps(o)
    BY <1>4, <1>5 DEF RunnerClaim, CommandSteps
  <1>6. CASE RunnerRefuse \/ OrderVolumeRaises
    <2>1. runner.order \in Orders /\ cmd[runner.order].status = "RUNNING"
      BY <1>6 DEF RunnerRefuse, OrderVolumeRaises, RunnerOK, RunnerKnows
    <2> QED
      BY <1>4, <1>6, <2>1 DEF RunnerRefuse, OrderVolumeRaises, CommandSteps
  <1>7. CASE RecordSubmittedFails
    <2>1. runner.order \in Orders /\ cmd[runner.order].status = "DONE"
      BY <1>7 DEF RecordSubmittedFails, RunnerOK, RunnerKnows
    <2> QED
      BY <1>4, <1>7, <2>1 DEF RecordSubmittedFails, CommandSteps
  <1>8. CASE BindProviderId
    <2>1. runner.order \in Orders /\ cmd[runner.order].status = "RUNNING"
      BY <1>8 DEF BindProviderId, RunnerOK, RunnerKnows
    <2>2. cmd' = [cmd EXCEPT ![runner.order] = [status |-> "DONE", bound |-> TRUE]]
      BY <1>8 DEF BindProviderId
    <2> QED
      BY <2>1, <2>2 DEF CommandSteps, TypeOK
  <1>9. CASE RunnerRestart
    <2>1. cmd' = [p \in Orders |-> IF cmd[p].status = "RUNNING"
                                     THEN [cmd[p] EXCEPT !.status = "UNKNOWN"] ELSE cmd[p]]
      BY <1>9 DEF RunnerRestart
    <2> QED
      BY <2>1 DEF CommandSteps, TypeOK, Commands
  <1> QED
    BY <1>1, <1>2, <1>3, <1>5, <1>6, <1>7, <1>8, <1>9
    DEF Outside, RunnerStep, RunnerArm, OrderVolume, RecordReport

\* The provider's change of a live order, with the shares executed in it.
ProviderMove(o, state, lots) ==
  LET filled == prov[o].filled + lots
      at     == 2 * (prov[o].seq + 1)
      status == IF state = "LIVE" THEN "PARTIALLY_FILLED" ELSE state
  IN  /\ prov[o].state = "LIVE" /\ state \in {"LIVE", "FILLED", "CANCELED", "REJECTED"}
      /\ lots \in Nat /\ filled \in 0..Volume /\ (filled = Volume <=> state = "FILLED")
      /\ prov' = [prov EXCEPT ![o] = [state |-> state, filled |-> filled,
                                      seq |-> prov[o].seq + 1]]
      /\ history' = history \union {StatusFact(o, status, filled, at)}
                             \union IF lots = 0 THEN {} ELSE {FillFact(o, lots, at)}
      /\ submissions' = submissions

LEMMA MoveShape ==
  ASSUME TypeOK, ProviderOK, NEW o \in Orders, ProviderMoves(o)
  PROVE  \E state \in ProviderStates, lots \in 0..Volume : ProviderMove(o, state, lots)
  <1>1. prov[o].seq \in Nat /\ prov[o].filled \in 0..Volume
    BY DEF TypeOK
  <1>2. CASE ProviderFill(o)
    <2>1. PICK lots \in 1..(Volume - prov[o].filled) :
            LET at     == 2 * (prov[o].seq + 1)
                filled == prov[o].filled + lots
                full   == filled = Volume
            IN  ProviderStep(o, IF full THEN "FILLED" ELSE "LIVE", filled,
                  {FillFact(o, lots, at),
                   StatusFact(o, IF full THEN "FILLED" ELSE "PARTIALLY_FILLED", filled, at)})
      BY <1>2 DEF ProviderFill
    <2>2. lots \in 0..Volume /\ lots # 0 /\ prov[o].filled + lots \in 0..Volume
      BY <1>1
    <2> DEFINE at == 2 * (prov[o].seq + 1)
               filled == prov[o].filled + lots
    <2>3. \A a, b, s : s \union {a, b} = s \union {b} \union {a}
      OBVIOUS
    <2>4. CASE prov[o].filled + lots = Volume
      <3>1. ProviderStep(o, "FILLED", filled, {FillFact(o, lots, at), StatusFact(o, "FILLED", filled, at)})
        BY <2>1, <2>4
      <3>2. /\ prov' = [prov EXCEPT ![o] = [state |-> "FILLED", filled |-> filled,
                                            seq |-> prov[o].seq + 1]]
            /\ history' = history \union {StatusFact(o, "FILLED", filled, at)}
                                   \union {FillFact(o, lots, at)}
            /\ submissions' = submissions
        BY <2>3, <3>1 DEF ProviderStep
      <3>3. ProviderMove(o, "FILLED", lots)
        BY <1>2, <2>2, <2>4, <3>2 DEF ProviderFill, ProviderMove
      <3> QED
        BY <2>2, <3>3 DEF ProviderStates
    <2>5. CASE prov[o].filled + lots # Volume
      <3>1. ProviderStep(o, "LIVE", filled, {FillFact(o, lots, at), StatusFact(o, "PARTIALLY_FILLED", filled, at)})
        BY <2>1, <2>5
      <3>2. /\ prov' = [prov EXCEPT ![o] = [state |-> "LIVE", filled |-> filled,
                                            seq |-> prov[o].seq + 1]]
            /\ history' = history \union {StatusFact(o, "PARTIALLY_FILLED", filled, at)}
                                   \union {FillFact(o, lots, at)}
            /\ submissions' = submissions
        BY <2>3, <3>1 DEF ProviderStep
      <3>3. ProviderMove(o, "LIVE", lots)
        BY <1>2, <2>2, <2>5, <3>2 DEF ProviderFill, ProviderMove
      <3> QED
        BY <2>2, <3>3 DEF ProviderStates
    <2> QED
      BY <2>4, <2>5
  <1>3. \A s : s \union {} = s
    OBVIOUS
  <1>4. CASE ProviderCancel(o)
    <2>1. prov[o].state = "LIVE" /\ prov[o].filled # Volume /\ prov[o].filled + 0 = prov[o].filled
      BY <1>1, <1>4 DEF ProviderCancel, ProviderOK
    <2>2. 0 \in 0..Volume
      BY <1>1
    <2>3. ProviderStep(o, "CANCELED", prov[o].filled + 0,
            {StatusFact(o, "CANCELED", prov[o].filled + 0, 2 * (prov[o].seq + 1))})
      BY <1>4, <2>1 DEF ProviderCancel
    <2>4. ProviderMove(o, "CANCELED", 0)
      BY <1>1, <1>3, <2>1, <2>2, <2>3 DEF ProviderMove, ProviderStep
    <2> QED
      BY <2>2, <2>4 DEF ProviderStates
  <1>5. CASE ProviderReject(o)
    <2>1. prov[o].state = "LIVE" /\ prov[o].filled + 0 = 0 /\ 0 # Volume
      BY <1>5 DEF ProviderReject
    <2>2. ProviderMove(o, "REJECTED", 0)
      BY <1>1, <1>3, <1>5, <2>1 DEF ProviderReject, ProviderMove, ProviderStep
    <2> QED
      BY <2>2 DEF ProviderStates
  <1> QED
    BY <1>2, <1>4, <1>5 DEF ProviderMoves

\* order_volume is called: the order's first and only submission.
Submits(o) ==
  /\ runner.step = "armed" /\ runner.order = o /\ submissions[o] = 0
  /\ submissions' = [submissions EXCEPT ![o] = 1]
  /\ Accept(o) \/ UNCHANGED <<prov, history>>

LEMMA ProviderSteps ==
  ASSUME TypeOK, RunnerOK, ProviderOK, [Next]_vars
  PROVE  \/ UNCHANGED <<prov, history, submissions>>
         \/ \E o \in Orders : Submits(o)
         \/ \E o \in Orders : \E state \in ProviderStates, lots \in 0..Volume : ProviderMove(o, state, lots)
  <1>1. CASE OrderVolume \/ OrderVolumeRaises
    <2>1. runner.order \in Orders /\ runner.step = "armed" /\ submissions[runner.order] = 0
      BY <1>1 DEF OrderVolume, OrderVolumeRaises, RunnerOK
    <2>2. submissions' = [submissions EXCEPT ![runner.order] = 1]
      BY <1>1, <2>1 DEF OrderVolume, OrderVolumeRaises, CountSubmission
    <2>3. Accept(runner.order) \/ UNCHANGED <<prov, history>>
      BY <1>1 DEF OrderVolume, OrderVolumeRaises
    <2> QED
      BY <2>1, <2>2, <2>3 DEF Submits
  <1>2. ASSUME NEW o \in Orders, BridgeStep(o)
        PROVE  UNCHANGED <<prov, history, submissions>>
    BY <1>2 DEF BridgeStep, BridgeEnqueue, BridgeRefuse, LoseRequest
  <1>3. (RunnerStep /\ ~OrderVolume /\ ~OrderVolumeRaises) \/ RunnerRestart
          => UNCHANGED <<prov, history, submissions>>
    BY DEF RunnerStep, RunnerClaim, RunnerArm, RunnerRefuse, BindProviderId,
           RecordSubmittedFails, RecordReport, RunnerRestart
  <1> QED
    BY <1>1, <1>2, <1>3, InsideLeavesOutside, MoveShape DEF Outside

\* The provider never goes back, and an order it was never asked for, and that the
\* Runner does not work on, it does not get.
LEMMA ProviderAdvances ==
  ASSUME TypeOK, RunnerOK, RunnerKnows, ProviderOK, [Next]_vars, NEW o \in Orders
  PROVE  /\ prov[o].filled <= prov'[o].filled
         /\ prov[o].state \in {"FILLED", "CANCELED", "REJECTED"} => prov'[o] = prov[o]
         /\ Unplaced(o) /\ cmd[o].status # "RUNNING" => Unplaced(o)'
  <1> DEFINE Goal == /\ prov[o].filled <= prov'[o].filled
                     /\ prov[o].state \in {"FILLED", "CANCELED", "REJECTED"} => prov'[o] = prov[o]
                     /\ Unplaced(o) /\ cmd[o].status # "RUNNING" => Unplaced(o)'
  <1>1. prov[o].filled \in Nat /\ prov[o].seq \in Nat
    BY DEF TypeOK
  <1>2. CASE UNCHANGED <<prov, history, submissions>>
    BY <1>1, <1>2 DEF Unplaced
  <1>3. ASSUME NEW p \in Orders, Submits(p) PROVE Goal
    <2>1. cmd[p].status = "RUNNING" /\ prov[p].state = "NONE" /\ prov[p].filled = 0
      BY <1>3 DEF Submits, RunnerKnows, ProviderOK
    <2>2. \A q \in Orders \ {p} : prov'[q] = prov[q] /\ submissions'[q] = submissions[q]
      BY <1>3 DEF Submits, Accept, TypeOK
    <2>3. prov'[p].filled = 0
      BY <1>3, <2>1 DEF Submits, Accept, TypeOK
    <2> QED
      BY <1>1, <2>1, <2>2, <2>3 DEF Unplaced
  <1>4. ASSUME NEW p \in Orders, NEW state \in ProviderStates, NEW lots \in 0..Volume, ProviderMove(p, state, lots) PROVE Goal
    <2>1. prov[p].state = "LIVE"
      BY <1>4 DEF ProviderMove
    <2>2. /\ lots \in Nat /\ prov'[p].filled = prov[p].filled + lots
          /\ \A q \in Orders \ {p} : prov'[q] = prov[q]
          /\ submissions' = submissions
      BY <1>1, <1>4 DEF ProviderMove, TypeOK
    <2> QED
      BY <1>1, <2>1, <2>2 DEF Unplaced
  <1> QED
    BY <1>2, <1>3, <1>4, ProviderSteps

\* A fact once true stays true.
LEMMA TruthStays ==
  ASSUME TypeOK, TypeOK', RunnerOK, RunnerKnows, ProviderOK, [Next]_vars,
         NEW f \in Facts, Truthful(f)
  PROVE  Truthful(f)'
  <1> DEFINE o == f.order
  <1>1. /\ o \in Orders /\ f.cum \in Nat
        /\ prov[o].filled \in Nat /\ prov'[o].filled \in Nat
    BY DEF TypeOK, Facts
  <1>2. /\ prov[o].filled <= prov'[o].filled
        /\ prov[o].state \in {"FILLED", "CANCELED", "REJECTED"} => prov'[o] = prov[o]
        /\ Unplaced(o) /\ cmd[o].status # "RUNNING" => Unplaced(o)'
    BY <1>1, ProviderAdvances
  <1>3. cmd[o].status = "FAILED" => cmd'[o].status = "FAILED"
    BY <1>1, CommandsAdvance DEF CommandSteps, BridgeEnqueue
  <1> QED
    BY <1>1, <1>2, <1>3 DEF Truthful

\* The Bridge, the Runner and the provider do not touch the server.
LEMMA OutsideLeavesServer ==
  ASSUME Outside
  PROVE  UNCHANGED <<intentVars, laneVars, ledgerVars, recon>>
  BY DEF Outside, BridgeStep, BridgeEnqueue, BridgeRefuse, LoseRequest, ProviderMoves,
         ProviderFill, ProviderCancel, ProviderReject, ProviderStep, RunnerStep, RunnerClaim,
         RunnerArm, RunnerRefuse, OrderVolume, OrderVolumeRaises, BindProviderId,
         RecordSubmittedFails, RecordReport, RunnerRestart

\* What enters the outbox is a fact of an order whose provider id is known, or a
\* report of the Runner.
LEMMA OutboxGrows ==
  ASSUME TypeOK, [Next]_vars, NEW e \in outbox'
  PROVE  \/ e \in outbox
         \/ e.fact \in history' /\ cmd[e.fact.order].bound /\ UNCHANGED cmd
         \/ RecordReport /\ e = Callback(RunnerReport(runner.order))
  <1> DEFINE Goal == \/ e \in outbox
                     \/ e.fact \in history' /\ cmd[e.fact.order].bound /\ UNCHANGED cmd
                     \/ RecordReport /\ e = Callback(RunnerReport(runner.order))
  <1>1. ASSUME NEW p \in Orders, NEW state, NEW filled, NEW facts,
               \A f \in facts : f.order = p, ProviderStep(p, state, filled, facts)
        PROVE  Goal
    <2>1. facts \subseteq history' /\ UNCHANGED cmd
      BY <1>1 DEF ProviderStep
    <2>2. outbox' = outbox \/ (cmd[p].bound /\ outbox' = outbox \union {Callback(f) : f \in facts})
      BY <1>1 DEF ProviderStep
    <2>3. CASE cmd[p].bound /\ outbox' = outbox \union {Callback(f) : f \in facts}
      <3>1. e \in outbox \/ \E f \in facts : e = Callback(f)
        BY <2>3
      <3> QED
        BY <1>1, <2>1, <2>3, <3>1 DEF Callback
    <2> QED
      BY <2>2, <2>3
  <1>2. ASSUME NEW p \in Orders, ProviderMoves(p) PROVE Goal
    <2>1. CASE ProviderFill(p)
      <3>1. PICK lots \in 1..(Volume - prov[p].filled) :
              LET at     == 2 * (prov[p].seq + 1)
                  filled == prov[p].filled + lots
                  full   == filled = Volume
              IN  ProviderStep(p, IF full THEN "FILLED" ELSE "LIVE", filled,
                    {FillFact(p, lots, at),
                     StatusFact(p, IF full THEN "FILLED" ELSE "PARTIALLY_FILLED", filled, at)})
        BY <2>1 DEF ProviderFill
      <3> QED
        BY <1>1, <3>1 DEF FillFact, StatusFact
    <2>2. CASE ProviderCancel(p)
      BY <1>1, <2>2 DEF ProviderCancel, StatusFact
    <2>3. CASE ProviderReject(p)
      BY <1>1, <2>3 DEF ProviderReject, StatusFact
    <2> QED
      BY <1>2, <2>1, <2>2, <2>3 DEF ProviderMoves
  <1>3. ASSUME NEW p \in Orders, BridgeStep(p) PROVE Goal
    BY <1>3 DEF BridgeStep, BridgeEnqueue, BridgeRefuse, LoseRequest
  <1>4. CASE RunnerStep \/ RunnerRestart
    BY <1>4
    DEF RunnerStep, RunnerClaim, RunnerArm, RunnerRefuse, OrderVolume, OrderVolumeRaises,
        BindProviderId, RecordSubmittedFails, RecordReport, RunnerRestart
  <1> QED
    BY <1>2, <1>3, <1>4, InsideLeavesOutside DEF Outside

-----------------------------------------------------------------------------
(* The provider's history.                                                 *)

\* The history only grows, and what is new about an order is later than all that
\* was known of it.
LEMMA NewFactsAreLater ==
  ASSUME TypeOK, RunnerOK, ProviderOK, HistoryOK, [Next]_vars
  PROVE  /\ history \subseteq history'
         /\ \A f \in history' \ history, g \in history : g.order = f.order => g.at < f.at
  <1>1. ASSUME NEW p \in Orders, Submits(p)
        PROVE  /\ history \subseteq history'
               /\ \A f \in history' \ history, g \in history : g.order = f.order => g.at < f.at
    <2>1. \A g \in history : g.order # p
      BY <1>1 DEF Submits, ProviderOK
    <2> QED
      BY <1>1, <2>1 DEF Submits, Accept, StatusFact
  <1>2. ASSUME NEW p \in Orders, NEW state \in ProviderStates, NEW lots \in 0..Volume, ProviderMove(p, state, lots)
        PROVE  /\ history \subseteq history'
               /\ \A f \in history' \ history, g \in history : g.order = f.order => g.at < f.at
    <2> DEFINE at == 2 * (prov[p].seq + 1)
    <2>1. history \subseteq history'
      BY <1>2 DEF ProviderMove, TypeOK
    <2>2. \A f \in history' \ history : f.order = p /\ f.at = at
      BY <1>2 DEF ProviderMove, StatusFact, FillFact
    <2>3. \A g \in history : g.order = p => g.at <= 2 * prov[p].seq /\ g.at \in Nat
      BY DEF HistoryOK, TypeOK, Facts
    <2>4. prov[p].seq \in Nat /\ 2 * prov[p].seq < at
      BY DEF TypeOK
    <2> QED
      BY <2>1, <2>2, <2>3, <2>4
  <1> QED
    BY <1>1, <1>2, ProviderSteps

LEMMA NextProviderOK ==
  ASSUME TypeOK, RunnerOK, ProviderOK, [Next]_vars
  PROVE  ProviderOK'
  <1>1. CASE UNCHANGED <<prov, history, submissions>>
    BY <1>1 DEF ProviderOK
  <1>2. ASSUME NEW p \in Orders, Submits(p) PROVE ProviderOK'
    <2>1. prov[p].state = "NONE" /\ prov[p].filled = 0 /\ \A f \in history : f.order # p
      BY <1>2 DEF Submits, ProviderOK
    <2>2. submissions'[p] = 1
          /\ \A o \in Orders \ {p} : prov'[o] = prov[o] /\ submissions'[o] = submissions[o]
      BY <1>2 DEF Submits, Accept, TypeOK
    <2>3. \A f \in history' \ history : f.order = p
      BY <1>2 DEF Submits, Accept, StatusFact
    <2>4. CASE Accept(p)
      <3>1. prov'[p].state = "LIVE" /\ prov'[p].filled = 0
        BY <2>4 DEF Accept, TypeOK
      <3> QED
        BY <2>2, <2>3, <3>1 DEF ProviderOK
    <2>5. CASE UNCHANGED <<prov, history>>
      BY <2>1, <2>2, <2>5 DEF ProviderOK
    <2> QED
      BY <1>2, <2>4, <2>5 DEF Submits
  <1>3. ASSUME NEW p \in Orders, NEW state \in ProviderStates, NEW lots \in 0..Volume, ProviderMove(p, state, lots)
        PROVE  ProviderOK'
    <2>1. /\ state # "NONE" /\ prov[p].state = "LIVE"
          /\ prov[p].filled + lots = Volume <=> state = "FILLED"
      BY <1>3 DEF ProviderMove
    <2>2. /\ prov'[p].state = state /\ prov'[p].filled = prov[p].filled + lots
          /\ submissions' = submissions
          /\ \A o \in Orders \ {p} : prov'[o] = prov[o]
      BY <1>3 DEF ProviderMove, TypeOK
    <2>3. \A f \in history' \ history : f.order = p
      BY <1>3 DEF ProviderMove, StatusFact, FillFact
    <2> QED
      BY <2>1, <2>2, <2>3 DEF ProviderOK
  <1> QED
    BY <1>1, <1>2, <1>3, ProviderSteps

LEMMA NextHistory ==
  ASSUME TypeOK, RunnerOK, ProviderOK, HistoryOK, FactsOK, [Next]_vars
  PROVE  HistoryOK'
  <1>1. CASE UNCHANGED <<prov, history, submissions>>
    BY <1>1 DEF HistoryOK, Execution, Counts
  <1>2. ASSUME NEW p \in Orders, Submits(p) PROVE HistoryOK'
    <2>1. \A f \in history : f.order # p
      BY <1>2 DEF Submits, ProviderOK
    <2>2. CASE UNCHANGED <<prov, history>>
      BY <2>2 DEF HistoryOK, Execution, Counts
    <2>3. CASE Accept(p)
      <3> DEFINE new == StatusFact(p, "SUBMITTED", 0, 2)
      <3>1. history' = history \union {new}
        BY <2>3 DEF Accept
      <3>2. new.order = p /\ new.kind = "ORDER_STATUS" /\ new.at = 2
        BY DEF StatusFact
      <3>3. prov'[p].seq = 1 /\ \A o \in Orders \ {p} : prov'[o] = prov[o]
        BY <2>3 DEF Accept, TypeOK
      <3>4. \A f \in history : f.order \in Orders \ {p}
        BY <2>1 DEF TypeOK, Facts
      <3> HIDE DEF new
      <3>5. \A f \in history' : f.at <= 2 * prov'[f.order].seq
        BY <3>1, <3>2, <3>3, <3>4 DEF HistoryOK
      <3>6. \A f, g \in history' : f.order = g.order /\ f.kind = g.kind /\ f.at = g.at => f = g
        BY <3>1, <3>2, <3>4 DEF HistoryOK
      <3>7. \A f \in history' : Execution(f) => f \in history
        BY <3>1, <3>2 DEF Execution
      <3>8. \A f \in history, g \in history' : g.order = f.order => g \in history
        BY <3>1, <3>2, <3>4
      <3>9. \A f \in history' : Execution(f) => \E g \in history' : Counts(g, f) /\ f.fill <= g.cum
        BY <3>1, <3>7 DEF HistoryOK
      <3>10. \A f, g, h \in history' :
               Execution(f) /\ Counts(g, f) /\ h.kind = "ORDER_STATUS" /\ h.order = f.order
                 /\ h.at < f.at => h.cum + f.fill <= g.cum
        BY <3>7, <3>8 DEF HistoryOK, Counts
      <3> QED
        BY <3>5, <3>6, <3>9, <3>10 DEF HistoryOK, Execution, Counts
    <2> QED
      BY <1>2, <2>2, <2>3 DEF Submits
  <1>3. ASSUME NEW p \in Orders, NEW state \in ProviderStates, NEW lots \in 0..Volume, ProviderMove(p, state, lots)
        PROVE  HistoryOK'
    <2> DEFINE at     == 2 * (prov[p].seq + 1)
               filled == prov[p].filled + lots
               status == IF state = "LIVE" THEN "PARTIALLY_FILLED" ELSE state
               counts == StatusFact(p, status, filled, at)
               fill   == FillFact(p, lots, at)
    <2>1. /\ lots \in 0..Volume /\ filled \in 0..Volume
          /\ prov'[p].seq = prov[p].seq + 1
          /\ \A o \in Orders \ {p} : prov'[o] = prov[o]
          /\ counts \in history' /\ history \subseteq history'
          /\ history' \subseteq history \union {counts, fill}
      <3> HIDE DEF counts, fill
      <3> QED
        BY <1>3 DEF ProviderMove, TypeOK, counts, fill
    <2>2. /\ counts.order = p /\ counts.kind = "ORDER_STATUS" /\ counts.at = at
          /\ counts.cum = filled
          /\ fill.order = p /\ fill.kind = "EXECUTION_REPORT" /\ fill.at = at
          /\ fill.fill = lots
      BY DEF StatusFact, FillFact
    <2>3. \A f \in history : /\ f.order \in Orders /\ f.at \in Nat /\ f.cum \in Nat
                             /\ f.fill \in Nat /\ prov[f.order].seq \in Nat
                             /\ f.at <= 2 * prov[f.order].seq
      BY DEF TypeOK, Facts, HistoryOK
    <2>4. \A f \in history : f.order = p => f.at < at /\ f.cum <= prov[p].filled
      BY <2>3 DEF FactsOK, Truthful
    <2>5. at \in Nat /\ at = 2 * prov'[p].seq /\ prov[p].seq \in Nat /\ prov[p].filled \in Nat
      BY <2>1 DEF TypeOK
    <2> HIDE DEF at, filled, status, counts, fill
    <2>6. \A f \in history' : f.at <= 2 * prov'[f.order].seq
      <3>1. \A f \in history : f.at <= 2 * prov'[f.order].seq
        BY <2>1, <2>3, <2>5
      <3> QED
        BY <2>1, <2>2, <2>5, <3>1
    <2>7. \A f, g \in history' : f.order = g.order /\ f.kind = g.kind /\ f.at = g.at => f = g
      BY <2>1, <2>2, <2>3, <2>4, <2>5 DEF HistoryOK
    <2>8. \A f \in history' :
            Execution(f) => \E g \in history' : Counts(g, f) /\ f.fill <= g.cum
      <3>1. lots <= filled
        BY <2>1, <2>5 DEF filled
      <3> QED
        BY <2>1, <2>2, <3>1 DEF HistoryOK, Execution, Counts
    <2>9. ASSUME NEW f \in history', NEW g \in history', NEW h \in history',
                 Execution(f), Counts(g, f), h.kind = "ORDER_STATUS", h.order = f.order,
                 h.at < f.at
          PROVE  h.cum + f.fill <= g.cum
      <3>1. CASE f \in history
        <4>1. f.order = p => f.at < at
          BY <2>4, <3>1
        <4>2. g \in history /\ h \in history
          BY <2>1, <2>2, <2>3, <2>5, <2>9, <3>1, <4>1 DEF Counts
        <4> QED
          BY <2>9, <3>1, <4>2 DEF HistoryOK
      <3>2. CASE f \notin history
        <4>1. f = fill
          BY <2>1, <2>2, <2>9, <3>2 DEF Execution
        <4>2. g = counts
          BY <2>1, <2>2, <2>3, <2>4, <2>5, <2>9, <4>1 DEF Counts
        <4>3. h \in history
          BY <2>1, <2>2, <2>5, <2>9, <4>1
        <4>4. h.cum \in Nat /\ h.cum <= prov[p].filled
          BY <2>2, <2>3, <2>4, <2>9, <4>1, <4>3
        <4> QED
          BY <2>1, <2>2, <2>5, <4>1, <4>2, <4>4 DEF filled
      <3> QED
        BY <3>1, <3>2
    <2> QED
      BY <2>6, <2>7, <2>8, <2>9 DEF HistoryOK, Execution, Counts
  <1> QED
    BY <1>1, <1>2, <1>3, ProviderSteps

\* What the Runner reports is true: it says REJECTED only of an order it refused
\* before order_volume was called.
LEMMA RunnerTells ==
  ASSUME TypeOK, RunnerOK, RunnerKnows, ProviderOK, RecordReport
  PROVE  Truthful(RunnerReport(runner.order)) /\ ~Execution(RunnerReport(runner.order))
  <1>1. runner.order \in Orders
    BY DEF RecordReport, RunnerOK
  <1>2. prov[runner.order].filled \in Nat
    BY <1>1 DEF TypeOK
  <1>3. CASE runner.step = "reportRejected"
    <2>1. cmd[runner.order].status = "FAILED" /\ Unplaced(runner.order)
      BY <1>1, <1>3 DEF RunnerKnows, ProviderOK, Unplaced
    <2> QED
      BY <1>2, <1>3, <2>1 DEF RunnerReport, StatusFact, Truthful, Execution
  <1>4. CASE runner.step # "reportRejected"
    BY <1>2, <1>4 DEF RunnerReport, StatusFact, Truthful, Execution
  <1> QED
    BY <1>3, <1>4

\* The provider's new facts are true when they are reported.
LEMMA ProviderTells ==
  ASSUME TypeOK, RunnerOK, ProviderOK, [Next]_vars, NEW f \in history' \ history
  PROVE  Truthful(f)'
  <1>1. ASSUME NEW p \in Orders, Submits(p) PROVE Truthful(f)'
    <2>1. f = StatusFact(p, "SUBMITTED", 0, 2) /\ prov'[p].filled = 0
      BY <1>1 DEF Submits, Accept, TypeOK
    <2> QED
      BY <2>1 DEF Truthful, StatusFact
  <1>2. ASSUME NEW p \in Orders, NEW state \in ProviderStates, NEW lots \in 0..Volume, ProviderMove(p, state, lots)
        PROVE  Truthful(f)'
    <2> DEFINE at     == 2 * (prov[p].seq + 1)
               filled == prov[p].filled + lots
               status == IF state = "LIVE" THEN "PARTIALLY_FILLED" ELSE state
    <2>1. /\ filled \in 0..Volume /\ prov'[p].state = state /\ prov'[p].filled = filled
          /\ f = StatusFact(p, status, filled, at) \/ f = FillFact(p, lots, at)
      BY <1>2 DEF ProviderMove, TypeOK
    <2>2. f.order = p /\ (f.cum = filled \/ f.cum = 0) /\ (f.status = status \/ f.status = "UNKNOWN")
      BY <2>1 DEF StatusFact, FillFact
    <2>3. status = "FILLED" => state = "FILLED"
      OBVIOUS
    <2>4. status = "CANCELED" => state = "CANCELED"
      OBVIOUS
    <2>5. status = "REJECTED" => state = "REJECTED"
      OBVIOUS
    <2> HIDE DEF at, filled, status
    <2> QED
      BY <2>1, <2>2, <2>3, <2>4, <2>5 DEF Truthful
  <1> QED
    BY <1>1, <1>2, ProviderSteps

LEMMA NextFacts ==
  ASSUME TypeOK, TypeOK', RunnerOK, RunnerKnows, ProviderOK, HistoryOK, FactsOK, [Next]_vars
  PROVE  FactsOK'
  <1>1. \A f \in history' : Truthful(f)'
    <2>1. ASSUME NEW f \in history PROVE Truthful(f)'
      <3>1. f \in Facts /\ Truthful(f)
        BY DEF TypeOK, FactsOK
      <3> QED
        BY <3>1, TruthStays
    <2> QED
      BY <2>1, ProviderTells
  <1>2. history \subseteq history'
    BY NewFactsAreLater
  <1>3. recon'.todo \subseteq recon.todo \union history
    <2>1. CASE ~Outside
      BY <2>1, InsideLeavesOutside DEF Snapshot
    <2>2. CASE Outside
      BY <2>2, OutsideLeavesServer
    <2> QED
      BY <2>1, <2>2
  <1>4. ASSUME NEW e \in outbox'
        PROVE  Truthful(e.fact)' /\ (e.fact.kind = "EXECUTION_REPORT" => e.fact \in history')
    <2>1. CASE e \in outbox
      <3>1. e.fact \in Facts /\ Truthful(e.fact)
        BY <2>1 DEF TypeOK, Events, FactsOK
      <3>2. Truthful(e.fact)'
        <4> DEFINE f == e.fact
        <4>1. f \in Facts /\ Truthful(f)
          BY <3>1
        <4> HIDE DEF f
        <4> QED
          BY <4>1, TruthStays DEF f
      <3> QED
        BY <1>2, <2>1, <3>2 DEF FactsOK
    <2>2. CASE e.fact \in history'
      BY <1>1, <2>2
    <2>3. CASE RecordReport /\ e = Callback(RunnerReport(runner.order))
      <3>1. UNCHANGED <<prov, submissions, cmd>>
        BY <2>3 DEF RecordReport
      <3> QED
        BY <2>3, <3>1, RunnerTells DEF Callback, Truthful, Unplaced, Execution
    <2> QED
      BY <2>1, <2>2, <2>3, OutboxGrows
  <1> QED
    BY <1>1, <1>2, <1>3, <1>4 DEF FactsOK

-----------------------------------------------------------------------------
(* The call of the Bridge and its answer.                                  *)

\* A request appears when a lane sends it, an answer when the Bridge gives one.
LEMMA CallSteps ==
  ASSUME TypeOK, LanesOK, [Next]_vars, NEW o \in Orders
  PROVE  /\ o \in request' =>
              \/ o \in request /\ ~BridgeEnqueue(o) /\ ~BridgeRefuse(o)
              \/ \E w \in Workers : SendPlaceOrder(w) /\ placing[w] = o
         /\ reply'[o] \in {reply[o], "NONE"} \/ BridgeEnqueue(o) \/ BridgeRefuse(o)
  <1> DEFINE Goal == /\ o \in request' =>
                          \/ o \in request /\ ~BridgeEnqueue(o) /\ ~BridgeRefuse(o)
                          \/ \E w \in Workers : SendPlaceOrder(w) /\ placing[w] = o
                     /\ reply'[o] \in {reply[o], "NONE"} \/ BridgeEnqueue(o) \/ BridgeRefuse(o)
  <1>1. BridgeEnqueue(o) \/ BridgeRefuse(o) => o \notin request'
    BY DEF BridgeEnqueue, BridgeRefuse
  <1>2. CASE UNCHANGED <<request, reply>>
    BY <1>1, <1>2
  <1>3. ASSUME NEW w \in Workers, LaneStep(w) PROVE Goal
    <2>1. CASE SendPlaceOrder(w)
      BY <1>1, <1>3, <2>1 DEF SendPlaceOrder
    <2>2. CASE ReceiveReply(w)
      BY <1>1, <1>3, <2>2 DEF ReceiveReply, TypeOK
    <2> QED
      BY <1>2, <1>3, <2>1, <2>2
      DEF LaneStep, PassGate, ClaimNothing, ClaimNextReady, Approve, RejectDecision, Defer,
          CreateOrder, AbandonOrder, MarkUnknown, DispatchUpdateFails, FinishClaim
  <1>4. ASSUME NEW p \in Orders, BridgeStep(p) PROVE Goal
    <2>1. request' \subseteq request /\ \A q \in Orders \ {p} : reply'[q] = reply[q]
      BY <1>4 DEF BridgeStep, BridgeEnqueue, BridgeRefuse, LoseRequest, TypeOK
    <2>2. BridgeEnqueue(p) \/ BridgeRefuse(p) \/ reply' = reply
      BY <1>4 DEF BridgeStep, LoseRequest
    <2> QED
      BY <1>1, <2>1, <2>2
  <1>5. ASSUME NEW p \in Orders, ProviderMoves(p) PROVE Goal
    BY <1>2, <1>5 DEF ProviderMoves, ProviderFill, ProviderCancel, ProviderReject, ProviderStep
  <1>6. CASE RunnerStep \/ RunnerRestart
    BY <1>2, <1>6
    DEF RunnerStep, RunnerClaim, RunnerArm, RunnerRefuse, OrderVolume, OrderVolumeRaises,
        BindProviderId, RecordSubmittedFails, RecordReport, RunnerRestart
  <1>7. CASE OutboxStep \/ ControlStep \/ ReconStep
    BY <1>2, <1>7
    DEF OutboxStep, DeliverCallback, OutboxRestart, ControlStep, SetKillSwitch,
        SetKillSwitchBridge, FailClosed, ReconStep, StartReconciliation,
        TakeOverReconciliation, LockReconciliation, RecoverEvent, FinishReconciliation,
        FailReconciliation
  <1>8. ASSUME NEW w \in Workers, Crash(w) PROVE Goal
    BY <1>2, <1>8 DEF Crash
  <1>9. ASSUME NEW i \in Intents, ClaimDeadline(i) \/ ExpireIntent(i) PROVE Goal
    BY <1>2, <1>9 DEF ClaimDeadline, ExpireIntent
  <1>10. CASE UNCHANGED vars
    BY <1>2, <1>10
  <1> QED
    BY <1>3, <1>4, <1>5, <1>6, <1>7, <1>8, <1>9, <1>10 DEF Next

LEMMA NextRequests ==
  ASSUME TypeOK, TypeOK', LanesOK, RunnerOK, RunnerKnows, RequestsOK, [Next]_vars
  PROVE  RequestsOK'
  <1>1. ASSUME NEW o \in Orders, cmd[o].status = "NONE", ~BridgeEnqueue(o)
        PROVE  cmd'[o].status = "NONE"
    BY <1>1, CommandsAdvance DEF CommandSteps
  <1>2. ASSUME NEW o \in request' PROVE cmd'[o].status = "NONE" /\ reply'[o] = "NONE"
    <2>1. CASE o \in request /\ ~BridgeEnqueue(o) /\ ~BridgeRefuse(o)
      <3>1. o \in Orders /\ cmd[o].status = "NONE" /\ reply[o] = "NONE"
        BY <2>1 DEF TypeOK, RequestsOK
      <3> QED
        BY <1>1, <2>1, <3>1, CallSteps
    <2>2. ASSUME NEW w \in Workers, SendPlaceOrder(w), placing[w] = o
          PROVE  cmd'[o].status = "NONE" /\ reply'[o] = "NONE"
      <3>1. Unsent(o)
        BY <2>2 DEF SendPlaceOrder, LanesOK
      <3> QED
        BY <2>2, <3>1 DEF SendPlaceOrder, Unsent
    <2>3. o \in Orders
      BY DEF TypeOK
    <2> QED
      BY <2>1, <2>2, <2>3, CallSteps
  <1>3. ASSUME NEW o \in Orders, reply'[o] = "REFUSED" PROVE cmd'[o].status = "NONE"
    <2>1. CASE BridgeRefuse(o)
      BY <2>1 DEF BridgeRefuse
    <2>2. CASE BridgeEnqueue(o)
      BY <1>3, <2>2 DEF BridgeEnqueue, TypeOK
    <2>3. CASE reply[o] = "REFUSED" /\ ~BridgeEnqueue(o)
      BY <1>1, <2>3 DEF RequestsOK
    <2> QED
      BY <1>3, <2>1, <2>2, <2>3, CallSteps
  <1> QED
    BY <1>2, <1>3 DEF RequestsOK

\* An order that may still be submitted keeps its open row: no event speaks of it
\* yet, and its call has not been refused.
LEMMA UnderwayStaysOpen ==
  ASSUME TypeOK, LanesOK, RequestsOK, UnderwayIsOpen, UnderwayIsSilent, [Next]_vars,
         NEW o \in Orders, Underway(o)
  PROVE  IsOpen(o)'
  <1>1. IsOpen(o) /\ row[o] \in OrderRows
    BY DEF UnderwayIsOpen, TypeOK
  <1>2. ~Merged(o)
    <2>1. cmd[o].status \in Undecided
      BY DEF Underway, RequestsOK, Undecided
    <2> QED
      BY <2>1 DEF Merged, Told, UnderwayIsSilent
  <1>3. reply[o] # "REFUSED"
    BY DEF Underway, RequestsOK
  <1>4. ASSUME NEW status \in OpenStatuses, Restated(o, status) PROVE IsOpen(o)'
    BY <1>1, <1>4 DEF Restated, IsOpen, Exists, OrderRows
  <1>5. CASE Marked(o)
    BY <1>4, <1>5 DEF Marked, OpenStatuses
  <1>6. CASE Answered(o)
    <2>1. row[o].status \in OpenStatuses
      BY <1>1 DEF IsOpen
    <2>2. /\ StatusAfterAccepted(row[o].status) \in OpenStatuses
          /\ StatusAfterDispatchError(row[o].status) \in OpenStatuses
      BY <2>1 DEF StatusAfterAccepted, StatusAfterDispatchError, OpenStatuses
    <2> QED
      BY <1>3, <1>4, <1>6, <2>2 DEF Answered
  <1>7. CASE RowKept(o)
    BY <1>1, <1>7 DEF RowKept, IsOpen, Exists
  <1>8. ~\E w \in Workers : CreateOrder(w, o)
    BY <1>1 DEF CreateOrder, IsOpen
  <1> QED
    BY <1>2, <1>5, <1>6, <1>7, <1>8, LedgerSteps

LEMMA NextUnderwayIsOpen ==
  ASSUME TypeOK, LanesOK, RunnerOK, RunnerKnows, RequestsOK, UnderwayIsOpen,
         UnderwayIsSilent, [Next]_vars
  PROVE  UnderwayIsOpen'
  <1> SUFFICES ASSUME NEW o \in Orders, Underway(o)' PROVE IsOpen(o)'
    BY DEF UnderwayIsOpen
  <1>1. CASE Underway(o)
    BY <1>1, UnderwayStaysOpen
  <1>2. ASSUME NEW w \in Workers, SendPlaceOrder(w), placing[w] = o PROVE IsOpen(o)'
    BY <1>2 DEF SendPlaceOrder, LanesOK, IsOpen, Exists
  <1>3. Underway(o) \/ \E w \in Workers : SendPlaceOrder(w) /\ placing[w] = o
    <2>1. CASE o \in request'
      BY <2>1, CallSteps DEF Underway
    <2>2. CASE cmd'[o].status \in {"QUEUED", "RUNNING"}
      BY <2>2, CommandsAdvance DEF CommandSteps, BridgeEnqueue, Underway
    <2> QED
      BY <2>1, <2>2 DEF Underway
  <1> QED
    BY <1>1, <1>2, <1>3

LEMMA NextUnderwayIsSilent ==
  ASSUME TypeOK, RunnerOK, RunnerKnows, UnderwayIsSilent, [Next]_vars
  PROVE  UnderwayIsSilent'
  <1> SUFFICES ASSUME NEW o \in Orders, cmd'[o].status \in Undecided
               PROVE  /\ \A e \in outbox' : e.fact.order # o
                      /\ \A f \in recon'.todo : f.order # o
    BY DEF UnderwayIsSilent
  <1>1. cmd[o].status \in Undecided
    BY CommandsAdvance DEF CommandSteps, BridgeEnqueue, Undecided
  <1>2. ~cmd[o].bound
    BY <1>1 DEF RunnerKnows, Undecided
  <1>3. ASSUME NEW e \in outbox' PROVE e.fact.order # o
    <2>1. CASE e \in outbox
      BY <1>1, <2>1 DEF UnderwayIsSilent
    <2>2. CASE cmd[e.fact.order].bound
      BY <1>2, <2>2
    <2>3. CASE RecordReport /\ e = Callback(RunnerReport(runner.order))
      <3>1. e.fact.order = runner.order
        BY <2>3 DEF Callback, RunnerReport, StatusFact
      <3>2. cmd[runner.order].status \in {"DONE", "UNKNOWN", "FAILED"}
        BY <2>3 DEF RecordReport, RunnerKnows
      <3> QED
        BY <1>1, <3>1, <3>2 DEF Undecided
    <2> QED
      BY <2>1, <2>2, <2>3, OutboxGrows
  <1>4. recon'.todo \subseteq recon.todo \union Snapshot
    <2>1. CASE ~Outside
      BY <2>1, InsideLeavesOutside
    <2>2. CASE Outside
      BY <2>2, OutsideLeavesServer
    <2> QED
      BY <2>1, <2>2
  <1>5. \A f \in Snapshot : f.order # o
    BY <1>2 DEF Snapshot
  <1> QED
    BY <1>1, <1>3, <1>4, <1>5 DEF UnderwayIsSilent

-----------------------------------------------------------------------------
(* The stored fills count shares of the history.                           *)

\* What happens later does not change what was executed before.
LEMMA LotsStay ==
  ASSUME TypeOK, RunnerOK, ProviderOK, HistoryOK, [Next]_vars, NEW o \in Orders,
         fills'[o].execs \subseteq ExecutionTimes(history, o)
  PROVE  Lots(history', o, fills'[o].execs) = Lots(history, o, fills'[o].execs)
  <1> DEFINE times == fills'[o].execs
  <1>1. /\ history \subseteq history'
        /\ \A f \in history' \ history, g \in history : g.order = f.order => g.at < f.at
    BY NewFactsAreLater
  <1>2. \A t \in times : \E g \in history : g.order = o /\ g.at = t /\ g.at \in Nat
    BY DEF ExecutionTimes, TypeOK, Facts
  <1> HIDE DEF times
  <1>3. \A f \in history' : f.order = o /\ f.at \in times => f \in history
    BY <1>1, <1>2
  <1> QED
    BY <1>1, <1>3 DEF Lots, Counts, times

\* The stored fills never count more than the provider has filled.
LEMMA SumBound ==
  ASSUME TypeOK, FactsOK, NEW o \in Orders, NEW stored, TrueFills(history, o, stored)
  PROVE  /\ IsFiniteSet(Lots(history, o, stored.execs))
         /\ stored.sum \in Nat /\ stored.sum <= prov[o].filled
  <1> DEFINE n == prov[o].filled
             lots == Lots(history, o, stored.execs)
  <1>1. n \in Nat
    BY DEF TypeOK
  <1>2. lots \subseteq 1..n
    <2>1. \A g \in history : g.order = o => g.cum <= n /\ g.cum \in Nat
      BY DEF FactsOK, Truthful, TypeOK, Facts
    <2> QED
      BY <1>1, <2>1 DEF Lots, Counts
  <1>3. IsFiniteSet(1..n) /\ Cardinality(1..n) = n
    <2>1. /\ IsFiniteSet(1..n)
          /\ Cardinality(1..n) = IF 1 > n THEN 0 ELSE n - 1 + 1
      <3> HIDE DEF n
      <3> QED
        BY <1>1, FS_Interval
    <2>2. (IF 1 > n THEN 0 ELSE n - 1 + 1) = n
      BY <1>1
    <2> QED
      BY <2>1, <2>2
  <1> HIDE DEF lots, n
  <1>4. IsFiniteSet(lots) /\ Cardinality(lots) <= n
    BY <1>2, <1>3, FS_Subset
  <1>5. Cardinality(lots) \in Nat
    BY <1>4, FS_CardinalityType
  <1> QED
    BY <1>4, <1>5 DEF TrueFills, lots, n

\* The shares of one execution are the last ones its status counts.
LEMMA LotsOfOne ==
  ASSUME TypeOK, HistoryOK, NEW f \in history, Execution(f),
         NEW g \in history, Counts(g, f), f.fill <= g.cum
  PROVE  Lots(history, f.order, {f.at}) = (g.cum - f.fill + 1)..g.cum
  <1>1. /\ g.cum \in 0..Volume /\ f.fill \in 0..Volume /\ Volume \in Nat
    BY DEF TypeOK, Facts
  <1>2. \A e, h \in history : Execution(e) /\ e.order = f.order /\ e.at = f.at /\ Counts(h, e)
                                => e = f /\ h = g
    BY DEF HistoryOK, Execution, Counts
  <1>3. \A n \in 1..Volume : n \in Lots(history, f.order, {f.at})
                               <=> g.cum - f.fill < n /\ n <= g.cum
    BY <1>2 DEF Lots
  <1>4. Lots(history, f.order, {f.at}) \subseteq 1..Volume
    BY DEF Lots
  <1>5. (g.cum - f.fill + 1)..g.cum \subseteq 1..Volume
    BY <1>1
  <1>6. \A n \in 1..Volume : n \in (g.cum - f.fill + 1)..g.cum
                               <=> g.cum - f.fill < n /\ n <= g.cum
    BY <1>1
  <1> QED
    BY <1>3, <1>4, <1>5, <1>6

\* Executions at different times are of different shares.
LEMMA LotsApart ==
  ASSUME TypeOK, HistoryOK, NEW f \in history, Execution(f), NEW times, f.at \notin times
  PROVE  Lots(history, f.order, times) \cap Lots(history, f.order, {f.at}) = {}
  <1> SUFFICES ASSUME NEW n \in Lots(history, f.order, times),
                      n \in Lots(history, f.order, {f.at})
               PROVE  FALSE
    OBVIOUS
  <1>1. PICK e \in history, h \in history :
          /\ Execution(e) /\ e.order = f.order /\ e.at \in times /\ Counts(h, e)
          /\ h.cum - e.fill < n /\ n <= h.cum
    BY DEF Lots
  <1>2. PICK d \in history, g \in history :
          /\ Execution(d) /\ d.order = f.order /\ d.at = f.at /\ Counts(g, d)
          /\ g.cum - d.fill < n /\ n <= g.cum
    BY DEF Lots
  <1>3. n \in Int
    BY DEF Lots
  <1>4. /\ e.at \in Nat /\ d.at \in Nat /\ e.fill \in Nat /\ d.fill \in Nat
        /\ h.cum \in Nat /\ g.cum \in Nat /\ e.at # d.at
    BY <1>1, <1>2 DEF TypeOK, Facts
  <1>5. CASE e.at < d.at
    <2>1. h.cum + d.fill <= g.cum
      BY <1>1, <1>2, <1>5 DEF HistoryOK, Counts
    <2> QED
      BY <1>1, <1>2, <1>3, <1>4, <2>1
  <1>6. CASE d.at < e.at
    <2>1. g.cum + e.fill <= h.cum
      BY <1>1, <1>2, <1>6 DEF HistoryOK, Counts
    <2> QED
      BY <1>1, <1>2, <1>3, <1>4, <2>1
  <1> QED
    BY <1>4, <1>5, <1>6

\* Storing what an event on its way reports keeps the sum a number of shares.
LEMMA StoredFillsTrue ==
  ASSUME TypeOK, HistoryOK, FactsOK, FillsOK, NEW e \in Events, Told(e)
  PROVE  TrueFills(history, e.fact.order, StoredFills(e))
  <1> DEFINE f == e.fact
             o == f.order
             old == fills[o]
             times == old.execs
             stored == StoredFills(e)
             lots(t) == Lots(history, o, t)
  <1>1. /\ f \in Facts /\ o \in Orders /\ TrueFills(history, o, old)
        /\ times \subseteq ExecutionTimes(history, o)
    BY DEF Events, Facts, FillsOK, TrueFills
  <1>2. CASE stored = old
    BY <1>1, <1>2
  <1>3. CASE stored # old
    <2>1. /\ Execution(f) /\ f.at \notin times
          /\ stored = [execs |-> times \union {f.at}, sum |-> old.sum + f.fill]
      BY <1>3 DEF StoredFills, Execution
    <2>2. f \in history
      BY <2>1 DEF FactsOK, Told, Execution
    <2>3. PICK g \in history : Counts(g, f) /\ f.fill <= g.cum
      BY <2>1, <2>2 DEF HistoryOK
    <2>4. f.fill \in Nat /\ g.cum \in Nat
      BY <1>1, <2>3 DEF TypeOK, Facts
    <2>5. IsFiniteSet(lots({f.at})) /\ Cardinality(lots({f.at})) = f.fill
      <3>1. lots({f.at}) = (g.cum - f.fill + 1)..g.cum
        BY <2>1, <2>2, <2>3, LotsOfOne
      <3>2. g.cum - f.fill + 1 \in Int /\ g.cum \in Int
        BY <2>4
      <3>3. /\ IsFiniteSet((g.cum - f.fill + 1)..g.cum)
            /\ Cardinality((g.cum - f.fill + 1)..g.cum)
                 = IF g.cum - f.fill + 1 > g.cum THEN 0 ELSE g.cum - (g.cum - f.fill + 1) + 1
        BY <3>2, FS_Interval
      <3>4. (IF g.cum - f.fill + 1 > g.cum THEN 0 ELSE g.cum - (g.cum - f.fill + 1) + 1) = f.fill
        BY <2>4
      <3> QED
        BY <3>1, <3>3, <3>4
    <2>6. IsFiniteSet(lots(times)) /\ old.sum = Cardinality(lots(times)) /\ old.sum \in Nat
      BY <1>1, SumBound DEF TrueFills
    <2>7. lots(times) \cap lots({f.at}) = {}
      BY <2>1, <2>2, LotsApart
    <2>8. lots(times \union {f.at}) = lots(times) \union lots({f.at})
      BY DEF Lots
    <2> HIDE DEF lots, times, old, stored
    <2>9. Cardinality(lots(times) \union lots({f.at})) = old.sum + f.fill
      <3>1. Cardinality(lots(times) \union lots({f.at}))
              = Cardinality(lots(times)) + Cardinality(lots({f.at}))
                  - Cardinality(lots(times) \cap lots({f.at}))
        BY <2>5, <2>6, FS_Union
      <3>2. Cardinality(lots(times) \cap lots({f.at})) = 0
        BY <2>7, FS_EmptySet
      <3> QED
        BY <2>4, <2>5, <2>6, <3>1, <3>2
    <2>10. times \union {f.at} \subseteq ExecutionTimes(history, o)
      BY <1>1, <2>1, <2>2 DEF ExecutionTimes
    <2>11. stored.execs = times \union {f.at} /\ stored.sum = old.sum + f.fill
      BY <2>1
    <2> QED
      BY <2>8, <2>9, <2>10, <2>11 DEF TrueFills, lots, stored
  <1> QED
    BY <1>2, <1>3

LEMMA NextFills ==
  ASSUME TypeOK, LanesOK, RunnerOK, ProviderOK, HistoryOK, FactsOK, FillsOK, [Next]_vars
  PROVE  FillsOK'
  <1> SUFFICES ASSUME NEW o \in Orders PROVE TrueFills(history', o, fills'[o])
    BY DEF FillsOK
  <1>1. TrueFills(history, o, fills'[o])
    <2>1. CASE fills'[o] = fills[o]
      BY <2>1 DEF FillsOK
    <2>2. CASE Merged(o)
      BY <2>2, StoredFillsTrue DEF Merged
    <2> QED
      BY <2>1, <2>2, LedgerSteps DEF RowKept, Marked, Answered, Restated
  <1>2. fills'[o].execs \subseteq ExecutionTimes(history, o)
    BY <1>1 DEF TrueFills
  <1>3. ExecutionTimes(history, o) \subseteq ExecutionTimes(history', o)
    BY NewFactsAreLater DEF ExecutionTimes
  <1>4. Lots(history', o, fills'[o].execs) = Lots(history, o, fills'[o].execs)
    BY <1>2, LotsStay
  <1> QED
    BY <1>1, <1>2, <1>3, <1>4 DEF TrueFills

-----------------------------------------------------------------------------
(* The rows tell the truth.                                                *)

\* What a row says after an event, about an order it was true of before.
LEMMA MergedRowTrue ==
  ASSUME TypeOK, HistoryOK, FactsOK, FillsOK, ProviderOK, RowsOK,
         NEW o \in Orders, Merged(o)
  PROVE  TrueRow(o, row'[o])
  <1>1. PICK e \in Events :
          LET stored == StoredFills(e)
              merged == MergeOrderEvent(row[o], e.fact, stored.sum, Volume)
          IN  /\ Told(e) /\ e.fact.order = o /\ Exists(o)
              /\ MergeAccepts(e.fact, stored.sum, Volume)
              /\ fills'[o] = stored
              /\ row'[o] = [intent |-> row[o].intent, status |-> merged.status,
                            filled |-> merged.filled, lastAt |-> merged.lastAt]
    BY DEF Merged
  <1> DEFINE f == e.fact
             sum == StoredFills(e).sum
             filled == MergedVolume(row[o], f, sum)
             n == prov[o].filled
  <1>2. /\ f \in Facts /\ f.order = o /\ Truthful(f) /\ TrueRow(o, row[o])
        /\ row[o] \in OrderRows /\ n \in Nat /\ n <= Volume
    BY <1>1 DEF Events, Told, FactsOK, RowsOK, TypeOK
  <1>3. sum \in Nat /\ sum <= n
    BY <1>1, StoredFillsTrue, SumBound
  <1>4. Mergeable(row[o], f, sum, Volume)
    BY <1>2, <1>3 DEF Mergeable, OrderRows, Facts
  <1>5. row[o].filled <= n /\ f.cum <= n
    BY <1>2 DEF TrueRow, Truthful
  <1> HIDE DEF n, sum, f
  <1>6. filled \in 0..Volume /\ filled <= n
    BY <1>2, <1>3, <1>4, <1>5, MergedVolumeBound, MergedVolumeGrows
  <1>7. filled = Volume => prov[o].state = "FILLED"
    BY <1>2, <1>6 DEF ProviderOK, n
  <1>8. row'[o].status = MergedStatus(row[o], f, sum, Volume) /\ row'[o].filled = filled
    BY <1>1 DEF MergeOrderEvent, f, sum
  <1>9. row'[o].status \in TerminalStatuses =>
          row'[o].status \in {row[o].status, f.status}
            \/ (row'[o].status = "FILLED" /\ filled = Volume)
    BY <1>8, MergedStatusOrigin
  <1>10. "FILLED" \in TerminalStatuses /\ "CANCELED" \in TerminalStatuses
          /\ "REJECTED" \in TerminalStatuses
    BY DEF TerminalStatuses
  <1>11. row'[o].status = "FILLED" => prov[o].state = "FILLED"
    BY <1>2, <1>7, <1>9, <1>10 DEF TrueRow, Truthful
  <1>12. row'[o].status = "CANCELED" => prov[o].state = "CANCELED"
    BY <1>2, <1>9, <1>10 DEF TrueRow, Truthful
  <1>13. row'[o].status = "REJECTED" => prov[o].state = "REJECTED" \/ Unplaced(o)
    BY <1>2, <1>9, <1>10 DEF TrueRow, Truthful
  <1> QED
    BY <1>6, <1>8, <1>11, <1>12, <1>13 DEF TrueRow, n

\* The Bridge refused the order: nothing beyond it has heard of it.
LEMMA RefusedIsUnplaced ==
  ASSUME BridgeOK, RequestsOK, NEW o \in Orders, reply[o] = "REFUSED"
  PROVE  Unplaced(o)
  BY DEF BridgeOK, RequestsOK, Silent, Unplaced

\* Every change of a row is true when it is made.
LEMMA RowsChangeTruly ==
  ASSUME TypeOK, LanesOK, BridgeOK, RequestsOK, HistoryOK, FactsOK, FillsOK, ProviderOK,
         RowsOK, [Next]_vars, NEW o \in Orders
  PROVE  TrueRow(o, row'[o])
  <1>1. TrueRow(o, row[o]) /\ row[o] \in OrderRows /\ prov[o].filled \in Nat
    BY DEF RowsOK, TypeOK
  <1>2. CASE RowKept(o)
    BY <1>1, <1>2 DEF RowKept
  <1>3. ASSUME NEW w \in Workers, CreateOrder(w, o) PROVE TrueRow(o, row'[o])
    <2>1. row'[o].filled = 0 /\ row'[o].status = "DISPATCH_PENDING"
      BY <1>3 DEF CreateOrder, TypeOK
    <2> QED
      BY <1>1, <2>1 DEF TrueRow
  <1>4. ASSUME NEW status, Restated(o, status),
               status = row[o].status \/ status \in OpenStatuses
                 \/ (status = "REJECTED" /\ Unplaced(o))
        PROVE  TrueRow(o, row'[o])
    <2>1. row'[o].status = status /\ row'[o].filled = row[o].filled
      BY <1>1, <1>4 DEF Restated, OrderRows
    <2> QED
      BY <1>1, <1>4, <2>1 DEF TrueRow, OpenStatuses
  <1>5. CASE Marked(o)
    BY <1>4, <1>5 DEF Marked, OpenStatuses
  <1>6. CASE Answered(o)
    <2>1. CASE Restated(o, StatusAfterAccepted(row[o].status))
      BY <1>4, <2>1 DEF StatusAfterAccepted, OpenStatuses
    <2>2. CASE Restated(o, StatusAfterDispatchError(row[o].status))
      BY <1>4, <2>2 DEF StatusAfterDispatchError, OpenStatuses
    <2>3. CASE reply[o] = "REFUSED" /\ Restated(o, StatusAfterRefused)
      BY <1>4, <2>3, RefusedIsUnplaced DEF StatusAfterRefused
    <2> QED
      BY <1>6, <2>1, <2>2, <2>3 DEF Answered
  <1>7. CASE Merged(o)
    BY <1>7, MergedRowTrue
  <1> QED
    BY <1>2, <1>3, <1>5, <1>6, <1>7, LedgerSteps

LEMMA NextRows ==
  ASSUME TypeOK, TypeOK', LanesOK, BridgeOK, RunnerOK, IntentMatchesOrder, RunnerKnows,
         RequestsOK, UnderwayIsOpen, UnderwayIsSilent, HistoryOK, FactsOK, FillsOK,
         ProviderOK, RowsOK, [Next]_vars
  PROVE  RowsOK'
  <1> SUFFICES ASSUME NEW o \in Orders
               PROVE  /\ TrueRow(o, row[o])'
                      /\ ~Exists(o)' => row'[o].filled = 0 /\ row'[o].status \in OpenStatuses
    BY DEF RowsOK
  <1>1. TrueRow(o, row[o])'
    <2>1. TrueRow(o, row'[o])
      BY RowsChangeTruly
    <2>2. /\ prov[o].filled <= prov'[o].filled
          /\ prov[o].state \in {"FILLED", "CANCELED", "REJECTED"} => prov'[o] = prov[o]
          /\ Unplaced(o) /\ cmd[o].status # "RUNNING" => Unplaced(o)'
      BY ProviderAdvances
    <2>3. row'[o].status = "REJECTED" => cmd[o].status # "RUNNING"
      <3>1. cmd[o].status = "RUNNING" => IsOpen(o)'
        BY UnderwayStaysOpen DEF Underway
      <3> QED
        BY <3>1 DEF IsOpen, OpenStatuses
    <2>4. row'[o].filled \in Nat /\ prov[o].filled \in Nat /\ prov'[o].filled \in Nat
      BY DEF TypeOK, OrderRows
    <2> QED
      BY <2>1, <2>2, <2>3, <2>4 DEF TrueRow
  <1>2. ASSUME ~Exists(o)' PROVE row'[o].filled = 0 /\ row'[o].status \in OpenStatuses
    <2>1. ~Exists(o)
      BY <1>2, RowsStay
    <2>2. ~\E w \in Workers : CreateOrder(w, o)
      <3> SUFFICES ASSUME NEW w \in Workers, CreateOrder(w, o) PROVE FALSE
        OBVIOUS
      <3>1. job[w] \in Intents /\ row'[o].intent = job[w]
        BY CreateEffect DEF TypeOK
      <3> QED
        BY <1>2, <3>1 DEF Exists
    <2>3. RowKept(o)
      BY <2>1, <2>2, LedgerSteps DEF Marked, IsOpen, Answered, Merged
    <2> QED
      BY <2>1, <2>3 DEF RowKept, RowsOK
  <1> QED
    BY <1>1, <1>2

-----------------------------------------------------------------------------
(* The kill switches.                                                      *)

LEMMA PendingIsOpen ==
  ASSUME LanesOK, RunnerOK, RunnerKnows, UnderwayIsOpen, NEW o \in Orders, Pending(o)
  PROVE  IsOpen(o)
  <1>1. \A w \in Workers : pc[w] \in {"created", "marked"} /\ placing[w] = o => IsOpen(o)
    BY DEF LanesOK
  <1>2. Underway(o) => IsOpen(o)
    BY DEF UnderwayIsOpen
  <1> QED
    BY <1>1, <1>2 DEF Pending, Underway, RunnerKnows

\* Only a new order becomes pending.
LEMMA PendingSteps ==
  ASSUME TypeOK, LanesOK, RunnerOK, RunnerKnows, [Next]_vars, NEW o \in Orders, Pending(o)'
  PROVE  Pending(o) \/ \E w \in Workers : CreateOrder(w, o)
  <1> DEFINE Goal == Pending(o) \/ \E w \in Workers : CreateOrder(w, o)
  <1>1. ASSUME NEW w \in Workers, pc'[w] \in {"created", "marked"}, placing'[w] = o
        PROVE  Goal
    <2>1. CASE pc'[w] = pc[w] /\ placing'[w] = placing[w]
      BY <1>1, <2>1 DEF Pending
    <2>2. CASE LaneStep(w) \/ Crash(w)
      <3>1. CASE MarkUnknown(w)
        BY <1>1, <3>1 DEF MarkUnknown, Pending
      <3>2. ASSUME NEW p \in Orders, CreateOrder(w, p) PROVE Goal
        <4>1. placing'[w] = p
          BY <3>2 DEF CreateOrder, TypeOK
        <4> QED
          BY <1>1, <3>2, <4>1
      <3> QED
        BY <1>1, <2>2, <3>1, <3>2
        DEF LaneStep, PassGate, ClaimNothing, ClaimNextReady, Approve, RejectDecision, Defer,
            AbandonOrder, SendPlaceOrder, ReceiveReply, DispatchUpdateFails, FinishClaim,
            Crash, TypeOK
    <2>3. ASSUME NEW v \in Workers, LaneStep(v) \/ Crash(v), v # w
          PROVE  pc'[w] = pc[w] /\ placing'[w] = placing[w]
      BY <2>3, OtherLanes
    <2>4. CASE Elsewhere \/ UNCHANGED vars
      BY <2>1, <2>4, ElsewhereLanes
    <2> QED
      BY <2>1, <2>2, <2>3, <2>4 DEF Next, Elsewhere
  <1>2. CASE o \in request'
    <2>1. \A w \in Workers : SendPlaceOrder(w) => pc[w] = "marked"
      BY DEF SendPlaceOrder
    <2> QED
      BY <1>2, <2>1, CallSteps DEF Pending
  <1>3. CASE cmd'[o].status = "QUEUED"
    BY <1>3, CommandsAdvance DEF CommandSteps, BridgeEnqueue, Pending
  <1>4. CASE runner'.step \in {"checking", "armed"} /\ runner'.order = o
    <2>1. CASE UNCHANGED runner
      BY <1>4, <2>1 DEF Pending
    <2>2. ASSUME NEW p \in Orders, RunnerClaim(p) PROVE Goal
      <3>1. p = o
        BY <1>4, <2>2 DEF RunnerClaim
      <3> QED
        BY <2>2, <3>1 DEF RunnerClaim, Pending
    <2>3. CASE RunnerArm
      BY <1>4, <2>3 DEF RunnerArm, Pending, TypeOK
    <2>4. ASSUME NEW p \in Orders, BridgeStep(p) \/ ProviderMoves(p) PROVE UNCHANGED runner
      BY <2>4
      DEF BridgeStep, BridgeEnqueue, BridgeRefuse, LoseRequest, ProviderMoves, ProviderFill,
          ProviderCancel, ProviderReject, ProviderStep
    <2>5. ~(RunnerRefuse \/ OrderVolume \/ OrderVolumeRaises \/ BindProviderId
              \/ RecordSubmittedFails \/ RecordReport \/ RunnerRestart)
      BY <1>4
      DEF RunnerRefuse, OrderVolume, OrderVolumeRaises, BindProviderId, RecordSubmittedFails,
          RecordReport, RunnerRestart, TypeOK
    <2> QED
      BY <2>1, <2>2, <2>3, <2>4, <2>5, InsideLeavesOutside DEF Outside, RunnerStep
  <1> QED
    BY <1>1, <1>2, <1>3, <1>4 DEF Pending

\* The Runner is armed by its own last check only.
LEMMA OnlyArmArms ==
  ASSUME TypeOK, [Next]_vars, runner'.step = "armed"
  PROVE  runner.step = "armed" \/ RunnerArm
  <1>1. CASE UNCHANGED runner
    BY <1>1
  <1>2. ASSUME NEW p \in Orders, BridgeStep(p) \/ ProviderMoves(p) PROVE UNCHANGED runner
    BY <1>2
    DEF BridgeStep, BridgeEnqueue, BridgeRefuse, LoseRequest, ProviderMoves, ProviderFill,
        ProviderCancel, ProviderReject, ProviderStep
  <1>3. CASE RunnerStep \/ RunnerRestart
    BY <1>3
    DEF RunnerStep, RunnerClaim, RunnerArm, RunnerRefuse, OrderVolume, OrderVolumeRaises,
        BindProviderId, RecordSubmittedFails, RecordReport, RunnerRestart, TypeOK
  <1> QED
    BY <1>1, <1>2, <1>3, InsideLeavesOutside DEF Outside

\* The switches and the counts of what left under them change together.
LEMMA KillSteps ==
  ASSUME TypeOK, [Next]_vars
  PROVE  \/ UNCHANGED <<dbKill, bridgeKill, sentUnderKill>>
         \/ \E db, bridge \in BOOLEAN : SetKills(db, bridge)
         \/ /\ OrderVolume \/ OrderVolumeRaises
            /\ CountSubmission(runner.order) /\ UNCHANGED <<dbKill, bridgeKill>>
  <1> DEFINE Goal == \/ UNCHANGED <<dbKill, bridgeKill, sentUnderKill>>
                     \/ \E db, bridge \in BOOLEAN : SetKills(db, bridge)
                     \/ /\ OrderVolume \/ OrderVolumeRaises
                        /\ CountSubmission(runner.order) /\ UNCHANGED <<dbKill, bridgeKill>>
  <1>1. CASE UNCHANGED controlVars
    BY <1>1
  <1>2. CASE ControlStep
    <2>1. dbKill \in BOOLEAN /\ bridgeKill \in BOOLEAN /\ (killOp = "ON") \in BOOLEAN
      BY DEF TypeOK
    <2> QED
      BY <1>2, <2>1 DEF ControlStep, SetKillSwitch, SetKillSwitchBridge, FailClosed
  <1>3. CASE ReconStep
    <2>1. Halt => Goal
      BY DEF Halt
    <2> QED
      BY <1>1, <1>3, <2>1
      DEF ReconStep, StartReconciliation, TakeOverReconciliation, LockReconciliation,
          RecoverEvent, FinishReconciliation, FailReconciliation
  <1>4. CASE OrderVolume \/ OrderVolumeRaises
    BY <1>4 DEF OrderVolume, OrderVolumeRaises
  <1>5. CASE RunnerStep \/ RunnerRestart
    BY <1>1, <1>4, <1>5
    DEF RunnerStep, RunnerClaim, RunnerArm, RunnerRefuse, BindProviderId,
        RecordSubmittedFails, RecordReport, RunnerRestart
  <1>6. ASSUME NEW p \in Orders, BridgeStep(p) \/ ProviderMoves(p) PROVE Goal
    BY <1>1, <1>6
    DEF BridgeStep, BridgeEnqueue, BridgeRefuse, LoseRequest, ProviderMoves, ProviderFill,
        ProviderCancel, ProviderReject, ProviderStep
  <1>7. ASSUME NEW w \in Workers, LaneStep(w) \/ Crash(w) PROVE Goal
    BY <1>1, <1>7
    DEF LaneStep, PassGate, ClaimNothing, ClaimNextReady, Approve, RejectDecision, Defer,
        CreateOrder, AbandonOrder, MarkUnknown, SendPlaceOrder, ReceiveReply,
        DispatchUpdateFails, FinishClaim, Crash
  <1>8. CASE OutboxStep
    BY <1>1, <1>8 DEF OutboxStep, DeliverCallback, OutboxRestart
  <1>9. ASSUME NEW i \in Intents, ClaimDeadline(i) \/ ExpireIntent(i) PROVE Goal
    BY <1>1, <1>9 DEF ClaimDeadline, ExpireIntent
  <1>10. CASE UNCHANGED vars
    BY <1>1, <1>10
  <1> QED
    BY <1>2, <1>3, <1>5, <1>6, <1>7, <1>8, <1>9, <1>10 DEF Next

\* When an order is submitted no other one is pending, nor is it any longer.
LEMMA SubmissionIsAlone ==
  ASSUME TypeOK, LanesOK, RunnerOK, OneOpenOrder, RunnerKnows, RequestsOK, UnderwayIsOpen,
         [Next]_vars, OrderVolume \/ OrderVolumeRaises
  PROVE  /\ runner'.step # "armed"
         /\ Pending(runner.order)
         /\ \A o \in Orders : ~Pending(o)'
  <1>1. PICK p \in Orders : /\ p = runner.order /\ runner.step = "armed"
                            /\ cmd[p].status = "RUNNING"
    BY DEF OrderVolume, OrderVolumeRaises, RunnerOK, RunnerKnows
  <1>2. Pending(p)
    BY <1>1 DEF Pending
  <1>3. /\ runner'.step \in {"accepted", "reportUnknown"}
        /\ UNCHANGED <<pc, placing, request>> /\ cmd'[p].status \in {"RUNNING", "UNKNOWN"}
    BY <1>1 DEF OrderVolume, OrderVolumeRaises, TypeOK, Commands
  <1>4. ~Pending(p)'
    <2>1. p \notin request
      BY <1>1 DEF RequestsOK
    <2>2. \A w \in Workers : pc[w] \in {"created", "marked"} => placing[w] # p
      BY <1>1 DEF LanesOK, Unsent
    <2> QED
      BY <1>1, <1>3, <2>1, <2>2 DEF Pending
  <1>5. ASSUME NEW o \in Orders, Pending(o)' PROVE FALSE
    <2>1. ~\E w \in Workers : CreateOrder(w, o)
      BY DEF OrderVolume, OrderVolumeRaises, CreateOrder, TypeOK
    <2>2. Pending(o)
      BY <1>5, <2>1, PendingSteps
    <2>3. IsOpen(o) /\ IsOpen(p)
      BY <1>1, <1>2, <2>2, PendingIsOpen
    <2>4. o = p
      BY <1>1, <2>3 DEF OneOpenOrder, openOrders
    <2> QED
      BY <1>4, <1>5, <2>4
  <1> QED
    BY <1>1, <1>2, <1>3, <1>5

LEMMA NextKills ==
  ASSUME TypeOK, LanesOK, RunnerOK, OneOpenOrder, RunnerKnows, RequestsOK, UnderwayIsOpen,
         KillsOK, [Next]_vars
  PROVE  KillsOK'
  <1>1. sentUnderKill.db \in Nat /\ sentUnderKill.bridge \in Nat /\ dbKill \in BOOLEAN
        /\ bridgeKill \in BOOLEAN
    BY DEF TypeOK
  <1>2. CASE OrderVolume \/ OrderVolumeRaises
    <2>1. /\ runner.order \in Orders /\ runner.step = "armed"
          /\ runner'.step # "armed" /\ Pending(runner.order)
          /\ \A o \in Orders : ~Pending(o)'
      BY <1>2, SubmissionIsAlone DEF OrderVolume, OrderVolumeRaises, RunnerOK
    <2>2. sentUnderKill.db = 0 /\ sentUnderKill.bridge = 0
      BY <1>1, <2>1 DEF KillsOK
    <2>3. /\ sentUnderKill' = [db     |-> sentUnderKill.db + IF dbKill THEN 1 ELSE 0,
                               bridge |-> sentUnderKill.bridge + IF bridgeKill THEN 1 ELSE 0]
          /\ UNCHANGED <<dbKill, bridgeKill>>
      BY <1>2 DEF OrderVolume, OrderVolumeRaises, CountSubmission
    <2>4. /\ sentUnderKill'.db = IF dbKill THEN 1 ELSE 0
          /\ sentUnderKill'.bridge = IF bridgeKill THEN 1 ELSE 0
      BY <2>2, <2>3
    <2> QED
      BY <1>1, <2>1, <2>3, <2>4 DEF KillsOK
  <1>3. CASE ~(OrderVolume \/ OrderVolumeRaises)
    <2>1. /\ sentUnderKill'.db \in {0, sentUnderKill.db}
          /\ ~dbKill' => sentUnderKill'.db = 0
          /\ sentUnderKill'.bridge \in {0, sentUnderKill.bridge}
          /\ ~bridgeKill' => sentUnderKill'.bridge = 0
      <3>1. CASE UNCHANGED <<dbKill, bridgeKill, sentUnderKill>>
        BY <3>1 DEF KillsOK
      <3>2. ASSUME NEW db \in BOOLEAN, NEW bridge \in BOOLEAN, SetKills(db, bridge)
            PROVE  /\ sentUnderKill'.db \in {0, sentUnderKill.db}
                   /\ ~dbKill' => sentUnderKill'.db = 0
                   /\ sentUnderKill'.bridge \in {0, sentUnderKill.bridge}
                   /\ ~bridgeKill' => sentUnderKill'.bridge = 0
        BY <3>2 DEF SetKills
      <3> QED
        BY <1>3, <3>1, <3>2, KillSteps
    <2>2. sentUnderKill'.db = 1 => \A o \in Orders : ~Pending(o)'
      <3> SUFFICES ASSUME sentUnderKill'.db = 1, NEW o \in Orders, Pending(o)' PROVE FALSE
        OBVIOUS
      <3>1. dbKill /\ ~Pending(o)
        BY <1>1, <2>1 DEF KillsOK
      <3>2. ~\E w \in Workers : CreateOrder(w, o)
        BY <3>1 DEF CreateOrder, OrderTxAllowed
      <3> QED
        BY <3>1, <3>2, PendingSteps
    <2>3. sentUnderKill'.bridge = 1 => runner'.step # "armed"
      <3> SUFFICES ASSUME sentUnderKill'.bridge = 1, runner'.step = "armed" PROVE FALSE
        OBVIOUS
      <3>1. bridgeKill /\ runner.step # "armed"
        BY <1>1, <2>1 DEF KillsOK
      <3> QED
        BY <3>1, OnlyArmArms DEF RunnerArm
    <2> QED
      BY <1>1, <2>1, <2>2, <2>3 DEF KillsOK
  <1> QED
    BY <1>2, <1>3

-----------------------------------------------------------------------------
(* The invariant and what follows from it.                                 *)

LEMMA InitLedger == Init => LedgerInv
  <1> SUFFICES ASSUME Init PROVE LedgerInv
    OBVIOUS
  <1>1. IndInv
    BY InitInv
  <1>2. RunnerKnows /\ RequestsOK
    BY DEF Init, RunnerKnows, RequestsOK
  <1>3. \A o \in Orders : ~Exists(o) /\ Unsent(o) /\ row[o].status \in OpenStatuses
                            /\ row[o].filled = 0
    BY DEF Init, Exists, Unsent, OpenStatuses
  <1>4. outbox = {} /\ history = {} /\ recon.todo = {}
    BY DEF Init, NoRecon
  <1>5. UnderwayIsOpen /\ UnderwayIsSilent
    BY <1>3, <1>4 DEF UnderwayIsOpen, Underway, Unsent, UnderwayIsSilent
  <1>6. \A o \in Orders : prov[o].state = "NONE" /\ prov[o].filled = 0 /\ prov[o].filled # Volume
    BY DEF Init
  <1>7. FactsOK /\ ProviderOK /\ HistoryOK
    BY <1>4, <1>6 DEF FactsOK, ProviderOK, HistoryOK
  <1>8. FillsOK
    <2>1. \A o \in Orders : fills[o].execs = {} /\ fills[o].sum = 0
      BY DEF Init
    <2>2. \A o \in Orders : Lots(history, o, fills[o].execs) = {}
      BY <2>1 DEF Lots
    <2>3. Cardinality({}) = 0
      BY FS_EmptySet
    <2> QED
      BY <2>1, <2>2, <2>3 DEF FillsOK, TrueFills
  <1>9. RowsOK
    BY <1>3, <1>6 DEF RowsOK, TrueRow, OpenStatuses
  <1>10. KillsOK
    BY DEF Init, KillsOK
  <1> QED
    BY <1>1, <1>2, <1>5, <1>7, <1>8, <1>9, <1>10 DEF LedgerInv

LEMMA NextLedger == LedgerInv /\ [Next]_vars => LedgerInv'
  <1> SUFFICES ASSUME LedgerInv, [Next]_vars PROVE LedgerInv'
    OBVIOUS
  <1>1. /\ TypeOK /\ LanesOK /\ BridgeOK /\ RunnerOK /\ OneOpenOrder /\ IntentMatchesOrder
        /\ IndInv
    BY DEF LedgerInv, IndInv
  <1>2. IndInv' /\ TypeOK'
    BY <1>1, NextInv DEF IndInv
  <1> QED
    BY <1>1, <1>2, NextRunnerKnows, NextRequests, NextUnderwayIsOpen, NextUnderwayIsSilent,
       NextFacts, NextProviderOK, NextHistory, NextFills, NextRows, NextKills
    DEF LedgerInv

\* In every reachable state each fact stored, on its way or still to be reported is
\* true of the order as the provider has it.
THEOREM LedgerInvariance == Spec => []LedgerInv
  BY InitLedger, NextLedger, PTL DEF Spec

\* applyBridgeEvent with mergeOrderEvent: whatever is lost, duplicated, reordered
\* or replayed under another hash, a row never says more than the provider did.
THEOREM TruthfulLedger == Spec => []LedgerIsTruthful
  <1>1. LedgerInv => LedgerIsTruthful
    <2> SUFFICES ASSUME LedgerInv, NEW o \in Orders
                 PROVE  /\ row[o].filled <= prov[o].filled
                        /\ fills[o].sum <= prov[o].filled
                        /\ row[o].status = "FILLED" => prov[o].state = "FILLED"
                        /\ row[o].status = "CANCELED" => prov[o].state = "CANCELED"
                        /\ row[o].status = "REJECTED" =>
                             prov[o].state = "REJECTED"
                               \/ (prov[o].state = "NONE" /\ submissions[o] = 0)
      BY DEF LedgerIsTruthful
    <2>1. TrueRow(o, row[o])
      BY DEF LedgerInv, RowsOK
    <2>2. fills[o].sum <= prov[o].filled
      BY SumBound DEF LedgerInv, IndInv, FillsOK
    <2> QED
      BY <2>1, <2>2 DEF TrueRow, Unplaced
  <1> QED
    BY <1>1, LedgerInvariance, PTL

\* persistDecision, the Bridge's queue and the provider: an order that is still at
\* risk anywhere has the one open row that QueryOpen finds.
THEOREM OneOrderAtRisk == Spec => []OneExposure
  <1>1. LedgerInv => OneExposure
    <2> SUFFICES ASSUME LedgerInv PROVE OneExposure
      OBVIOUS
    <2>1. ASSUME NEW o \in Orders, AtRisk(o) PROVE IsOpen(o)
      <3>1. CASE Underway(o)
        BY <3>1 DEF LedgerInv, UnderwayIsOpen
      <3>2. CASE prov[o].state = "LIVE"
        <4>1. submissions[o] # 0
          BY <3>2 DEF LedgerInv, ProviderOK
        <4>2. submissions[o] = 1
          <5>1. submissions[o] \in Nat /\ submissions[o] <= 1
            BY DEF LedgerInv, IndInv, TypeOK, SubmittedOnce
          <5> QED
            BY <4>1, <5>1
        <4>3. Exists(o)
          BY <4>2 DEF LedgerInv, IndInv, SubmittedOnce
        <4>4. TrueRow(o, row[o]) /\ row[o].status \in OrderStatuses
          BY DEF LedgerInv, IndInv, RowsOK, TypeOK, OrderRows
        <4> QED
          BY <3>2, <4>3, <4>4 DEF TrueRow, Unplaced, IsOpen, OrderStatuses, TerminalStatuses
      <3> QED
        BY <2>1, <3>1, <3>2 DEF AtRisk, Underway
    <2>2. OneOpenOrder
      BY DEF LedgerInv, IndInv
    <2> QED
      BY <2>1, <2>2 DEF OneExposure, OneOpenOrder, openOrders
  <1> QED
    BY <1>1, LedgerInvariance, PTL

\* The switch is read under the account lock by the server and again by the Runner:
\* of all that was on its way when it went on, only one order can still leave.
THEOREM KillLeaksOnce == Spec => []BoundedKillLeak
  <1>1. LedgerInv => BoundedKillLeak
    BY DEF LedgerInv, KillsOK, BoundedKillLeak
  <1> QED
    BY <1>1, LedgerInvariance, PTL

\* An intent is decided once: by the fenced decision, by its order, or by expiry.
LEMMA DecisionsStay ==
  ASSUME TypeOK, LanesOK, [Next]_vars, NEW i \in Intents,
         intentStatus[i] # "READY_FOR_EXECUTION"
  PROVE  intentStatus'[i] = intentStatus[i]
  <1>1. CASE UNCHANGED intentStatus
    BY <1>1
  <1>2. ASSUME NEW w \in Workers, LaneStep(w) PROVE intentStatus'[i] = intentStatus[i]
    <2>1. CASE RejectDecision(w)
      <3>1. CASE FenceIntent(w)
        <4>1. job[w] # i /\ intentStatus' = [intentStatus EXCEPT ![job[w]] = "RISK_REJECTED"]
          BY <2>1, <3>1 DEF RejectDecision, FenceIntent
        <4> QED
          BY <4>1 DEF TypeOK
      <3>2. CASE ~FenceIntent(w)
        BY <2>1, <3>2 DEF RejectDecision
      <3> QED
        BY <3>1, <3>2
    <2>2. ASSUME NEW o \in Orders, CreateOrder(w, o) PROVE intentStatus'[i] = intentStatus[i]
      <3>1. job[w] # i /\ intentStatus' = [intentStatus EXCEPT ![job[w]] = "ORDER_CREATED"]
        BY <2>2 DEF CreateOrder, FenceIntent
      <3> QED
        BY <3>1 DEF TypeOK
    <2> QED
      BY <1>1, <1>2, <2>1, <2>2
      DEF LaneStep, PassGate, ClaimNothing, ClaimNextReady, Approve, Defer, AbandonOrder,
          MarkUnknown, SendPlaceOrder, ReceiveReply, DispatchUpdateFails, FinishClaim
  <1>3. ASSUME NEW w \in Workers, Crash(w) PROVE intentStatus'[i] = intentStatus[i]
    BY <1>1, <1>3 DEF Crash
  <1>4. ASSUME NEW j \in Intents, ClaimDeadline(j) PROVE intentStatus'[i] = intentStatus[i]
    BY <1>1, <1>4 DEF ClaimDeadline
  <1>5. ASSUME NEW j \in Intents, ExpireIntent(j) PROVE intentStatus'[i] = intentStatus[i]
    BY <1>5 DEF ExpireIntent, Claimable, TypeOK
  <1>6. CASE Outside
    BY <1>1, <1>6, OutsideLeavesServer
  <1>7. CASE OutboxStep \/ ControlStep \/ ReconStep
    BY <1>1, <1>7
    DEF OutboxStep, DeliverCallback, OutboxRestart, ControlStep, SetKillSwitch,
        SetKillSwitchBridge, FailClosed, ReconStep, StartReconciliation,
        TakeOverReconciliation, LockReconciliation, RecoverEvent, FinishReconciliation,
        FailReconciliation
  <1>8. CASE UNCHANGED vars
    BY <1>1, <1>8
  <1> QED
    BY <1>2, <1>3, <1>4, <1>5, <1>6, <1>7, <1>8 DEF Next, Outside

\* The merge of one event keeps what is final about a row.
LEMMA MergeIsFinal ==
  ASSUME TypeOK, HistoryOK, FactsOK, FillsOK, ProviderOK, RowsOK,
         NEW o \in Orders, Merged(o)
  PROVE  /\ row[o].filled <= row'[o].filled
         /\ row[o].status \in TerminalStatuses => row'[o].status = row[o].status
  <1>1. PICK e \in Events :
          LET stored == StoredFills(e)
              merged == MergeOrderEvent(row[o], e.fact, stored.sum, Volume)
          IN  /\ Told(e) /\ e.fact.order = o
              /\ MergeAccepts(e.fact, stored.sum, Volume)
              /\ row'[o] = [intent |-> row[o].intent, status |-> merged.status,
                            filled |-> merged.filled, lastAt |-> merged.lastAt]
    BY DEF Merged
  <1> DEFINE f == e.fact
             sum == StoredFills(e).sum
             filled == MergedVolume(row[o], f, sum)
  <1>2. f \in Facts /\ row[o] \in OrderRows
    BY DEF Events, TypeOK
  <1>3. sum \in 0..Volume
    <2>1. sum \in Nat
      BY <1>1, StoredFillsTrue, SumBound
    <2> QED
      BY <1>1, <2>1 DEF MergeAccepts
  <1>4. Mergeable(row[o], f, sum, Volume)
    BY <1>2, <1>3 DEF Mergeable, OrderRows, Facts
  <1>5. /\ row'[o].status = MergedStatus(row[o], f, sum, Volume)
        /\ row'[o].filled = filled
    BY <1>1 DEF MergeOrderEvent
  <1> HIDE DEF sum, f
  <1>6. row[o].filled <= filled
    BY <1>4, MergedVolumeGrows
  <1>7. CASE filled # Volume
    BY <1>5, <1>6, <1>7, MergeKeepsStatus
  <1>8. CASE filled = Volume
    <2>1. TrueRow(o, row'[o]) /\ TrueRow(o, row[o]) /\ prov[o].filled \in 0..Volume
      BY MergedRowTrue DEF RowsOK, TypeOK
    <2>2. prov[o].state = "FILLED"
      BY <1>5, <1>8, <2>1 DEF TrueRow, ProviderOK
    <2>3. row[o].status \in TerminalStatuses => row[o].status = "FILLED"
      BY <2>1, <2>2 DEF TrueRow, Unplaced, TerminalStatuses
    <2>4. row[o].status \in TerminalStatuses => row'[o].status \in TerminalStatuses
      BY <1>5, MergeKeepsTerminal
    <2>5. row'[o].status \in TerminalStatuses => row'[o].status = "FILLED"
      BY <2>1, <2>2 DEF TrueRow, Unplaced, TerminalStatuses
    <2> QED
      BY <1>5, <1>6, <2>3, <2>4, <2>5
  <1> QED
    BY <1>7, <1>8

\* So does every other change of a row.
LEMMA RowsAreFinal ==
  ASSUME LedgerInv, [Next]_vars, NEW o \in Orders
  PROVE  /\ row[o].filled <= row'[o].filled
         /\ row[o].status \in TerminalStatuses => row'[o].status = row[o].status
  <1> DEFINE Goal == /\ row[o].filled <= row'[o].filled
                     /\ row[o].status \in TerminalStatuses => row'[o].status = row[o].status
  <1>1. /\ TypeOK /\ LanesOK /\ BridgeOK /\ RequestsOK /\ HistoryOK /\ FactsOK /\ FillsOK
        /\ ProviderOK /\ RowsOK
    BY DEF LedgerInv, IndInv
  <1>2. row[o] \in OrderRows /\ row[o].filled \in Nat /\ TrueRow(o, row[o])
    BY <1>1 DEF TypeOK, OrderRows, RowsOK
  <1>3. CASE RowKept(o)
    BY <1>2, <1>3 DEF RowKept
  <1>4. ASSUME NEW w \in Workers, CreateOrder(w, o) PROVE Goal
    <2>1. ~Exists(o) /\ row'[o].filled = 0
      BY <1>1, <1>4 DEF CreateOrder, TypeOK
    <2>2. row[o].filled = 0 /\ row[o].status \notin TerminalStatuses
      BY <1>1, <2>1, StatusesSplit DEF RowsOK
    <2> QED
      BY <2>1, <2>2
  <1>5. ASSUME NEW status, Restated(o, status),
               row[o].status \in TerminalStatuses => status = row[o].status
        PROVE  Goal
    <2>1. row'[o].status = status /\ row'[o].filled = row[o].filled
      BY <1>2, <1>5 DEF Restated, OrderRows
    <2> QED
      BY <1>2, <1>5, <2>1
  <1>6. CASE Marked(o)
    BY <1>5, <1>6, StatusesSplit DEF Marked, IsOpen
  <1>7. CASE Answered(o)
    <2>1. CASE Restated(o, StatusAfterAccepted(row[o].status))
      BY <1>5, <2>1 DEF StatusAfterAccepted, TerminalStatuses
    <2>2. CASE Restated(o, StatusAfterDispatchError(row[o].status))
      BY <1>5, <2>2 DEF StatusAfterDispatchError, TerminalStatuses
    <2>3. CASE reply[o] = "REFUSED" /\ Restated(o, StatusAfterRefused)
      <3>1. Unplaced(o)
        BY <1>1, <2>3, RefusedIsUnplaced
      <3>2. row[o].status \in TerminalStatuses => row[o].status = "REJECTED"
        BY <1>2, <3>1 DEF TrueRow, Unplaced, TerminalStatuses
      <3> QED
        BY <1>5, <2>3, <3>2 DEF StatusAfterRefused
    <2> QED
      BY <1>7, <2>1, <2>2, <2>3 DEF Answered
  <1>8. CASE Merged(o)
    BY <1>1, <1>8, MergeIsFinal
  <1> QED
    BY <1>1, <1>3, <1>4, <1>6, <1>7, <1>8, LedgerSteps

\* No late answer, callback, replay or second decision changes an outcome: neither
\* the conditional updates after the call nor the merge touch a row that is over.
THEOREM FinalOutcomes == Spec => OutcomesAreFinal
  <1>1. LedgerInv /\ [Next]_vars =>
          [/\ \A o \in Orders :
                /\ row[o].filled <= row'[o].filled
                /\ row[o].status \in TerminalStatuses => row'[o].status = row[o].status
           /\ \A i \in Intents : intentStatus[i] # "READY_FOR_EXECUTION"
                                   => intentStatus'[i] = intentStatus[i]]_vars
    BY RowsAreFinal, DecisionsStay DEF LedgerInv, IndInv
  <1> QED
    BY <1>1, LedgerInvariance, PTL DEF Spec, OutcomesAreFinal

\* requireNoRunningReconciliation: the RUNNING row keeps every lane from opening an
\* order from the claim of the run to its end, whoever owns it meanwhile.
THEOREM ReconciliationIsBarrier == Spec => NoOrderDuringReconciliation
  <1>1. ASSUME IndInv, [Next]_vars, recon.state # "NONE"
        PROVE  openOrders' \subseteq openOrders
    <2>1. ~Creates
      BY <1>1 DEF Creates, CreateOrder, OrderTxAllowed
    <2>2. RowsAdvance
      BY <1>1, <2>1, OnlyCreateOpens DEF IndInv
    <2> QED
      BY <2>2 DEF RowsAdvance, openOrders, IsOpen, Exists
  <1>2. IndInv /\ [Next]_vars =>
          [recon.state # "NONE" /\ recon'.state # "NONE"
             => openOrders' \subseteq openOrders]_vars
    BY <1>1
  <1> QED
    BY <1>2, Invariance, PTL DEF Spec, NoOrderDuringReconciliation
=============================================================================
