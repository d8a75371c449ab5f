---------------------------- MODULE OrderDispatch ----------------------------
(***************************************************************************)
(* The path of one BUY or SELL intent to the simulation account and back:  *)
(*                                                                         *)
(*   execution lane -> trading_orders -> Bridge -> Runner -> provider      *)
(*        ^                                                     |          *)
(*        +---- HandleBridgeEvent <- callback outbox <----------+          *)
(*                                                                         *)
(* Each Worker is a process of the server with an execution lane and a     *)
(* reconciliation lane.  Processes share the database; transactions that   *)
(* begin with TradingRuntimeControls.Lock are serialized by it and are     *)
(* single actions here, everything between two of them is a separate step. *)
(* The Bridge's API process, its Runner and the provider run on another    *)
(* host.  Processes crash between any two steps; requests, replies and     *)
(* callbacks are delayed, lost, duplicated and reordered.                  *)
(***************************************************************************)
EXTENDS OrderLifecycle

CONSTANTS Workers,     \* server processes
          Reconcilers, \* those whose reconciliation lane runs
          Intents,     \* rows of trading_intents for the account
          Orders,      \* client_order_ids that may be generated (UUIDv7, never reused)
          Volume,      \* shares per order, in lots
          Sources,     \* how a snapshot may serialize a fact; callbacks use "CALLBACK"
          MaxFaults,   \* bound on crashes, lost messages and failing calls
          MaxSwitches, \* bound on kill switch changes
          NoWorker, NoIntent, NoOrder

ASSUME DispatchAssumption ==
  /\ Volume \in Nat \ {0}
  /\ MaxFaults \in Nat /\ MaxSwitches \in Nat
  /\ Reconcilers \subseteq Workers
  /\ NoWorker \notin Workers /\ NoIntent \notin Intents /\ NoOrder \notin Orders

VARIABLES
  intentStatus,  \* trading_intents.status
  execStatus,    \* trading_intents.execution_status
  claim,         \* execution_claim_token and whether its deadline is ahead
  pc,            \* where the execution lane of each process is
  job,           \* the intent it claimed
  placing,       \* the order it created
  row,           \* trading_orders, by client_order_id; intent NoIntent: no row
  fills,         \* trading_fills by order: execution ids and the sum of volumes
  applied,       \* trading_order_events: the events recorded so far
  request,       \* PlaceOrder calls on their way to the Bridge
  reply,         \* the Bridge's answer on its way back, by order
  cmd,           \* bridge_commands: the PLACE_ORDER row of each order
  outbox,        \* bridge_callback_outbox rows still to be delivered
  runner,        \* the Runner's position in _execute_command
  prov,          \* the order as the provider has it
  history,       \* every fact the provider can report
  dbKill,        \* trading_runtime_controls KILL_SWITCH
  bridgeKill,    \* runtime_state kill_switch of the Bridge
  killOp,        \* the SetKillSwitch call between its two writes
  recon,         \* the RUNNING reconciliation run and what is left of its snapshot
  submissions,   \* how often order_volume was called for an order
  switches,      \* number of kill switch changes so far
  sentUnderKill, \* order_volume calls since each switch was last set
  faults         \* number of faults so far

intentVars   == <<intentStatus, execStatus, claim>>
laneVars     == <<pc, job, placing>>
ledgerVars   == <<row, fills, applied>>
networkVars  == <<request, reply>>
providerVars == <<prov, history, submissions>>
controlVars  == <<dbKill, bridgeKill, killOp, switches, sentUnderKill>>
vars == <<intentVars, laneVars, ledgerVars, networkVars, cmd, outbox, runner,
          providerVars, controlVars, recon, faults>>

-----------------------------------------------------------------------------
(* State.                                                                  *)

IntentStatuses == {"READY_FOR_EXECUTION", "ORDER_CREATED", "RISK_REJECTED", "EXPIRED"}
ExecStatuses   == {"READY", "CLAIMED", "RETRY", "COMPLETED", "EXPIRED"}
LaneSteps == {"idle", "gated", "claimed", "approved", "created", "marked",
              "sent", "completed", "deferred"}
CommandStatuses == {"NONE", "QUEUED", "RUNNING", "DONE", "FAILED", "UNKNOWN"}
RunnerSteps == {"idle", "checking", "armed", "accepted", "reportSubmitted",
                "reportRejected", "reportUnknown"}
ProviderStates == {"NONE", "LIVE", "FILLED", "CANCELED", "REJECTED"}

\* An event is a fact about an order with the time it happened: the provider's
\* n-th change of an order is at 2n, what the Runner notes between two of them at
\* an odd time.  Callbacks and snapshots wrap the same fact in different bytes
\* (src), hence with different hashes.
Facts == [order: Orders, kind: {"ORDER_STATUS", "EXECUTION_REPORT"},
          status: EventStatuses, cum: 0..Volume, fill: 0..Volume, at: Nat]
Events == [fact: Facts, src: Sources \union {"CALLBACK"}]

Callback(f) == [fact |-> f, src |-> "CALLBACK"]

StatusFact(o, status, cum, at) ==
  [order |-> o, kind |-> "ORDER_STATUS", status |-> status, cum |-> cum,
   fill |-> 0, at |-> at]

\* An execution report has no order status and no cumulative volume.
FillFact(o, volume, at) ==
  [order |-> o, kind |-> "EXECUTION_REPORT", status |-> "UNKNOWN", cum |-> 0,
   fill |-> volume, at |-> at]

Claims == [token: Workers \union {NoWorker}, live: BOOLEAN]
OrderRows == [intent: Intents \union {NoIntent}, status: OrderStatuses,
              filled: 0..Volume, lastAt: Nat]
Commands == [status: CommandStatuses, bound: BOOLEAN]

Exists(o) == row[o].intent # NoIntent
IsOpen(o) == Exists(o) /\ row[o].status \in OpenStatuses
openOrders == {o \in Orders : IsOpen(o)}

Fault == faults < MaxFaults /\ faults' = faults + 1

\* accountActivity: the mutex the two lanes of one process share.
Evaluating(w) == pc[w] \in {"approved", "created", "marked", "sent"}
ActivityHeldByRecon(w) == recon.state = "LOCKED" /\ recon.owner = w

NoRecon == [state |-> "NONE", owner |-> NoWorker, todo |-> {}, seen |-> {}, stray |-> {}]
Running(w) == [NoRecon EXCEPT !.state = "RUNNING", !.owner = w]

Init ==
  /\ intentStatus = [i \in Intents |-> "READY_FOR_EXECUTION"]
  /\ execStatus   = [i \in Intents |-> "READY"]
  /\ claim        = [i \in Intents |-> [token |-> NoWorker, live |-> FALSE]]
  /\ pc           = [w \in Workers |-> "idle"]
  /\ job          = [w \in Workers |-> NoIntent]
  /\ placing      = [w \in Workers |-> NoOrder]
  /\ row          = [o \in Orders |-> [intent |-> NoIntent, status |-> "DISPATCH_PENDING",
                                       filled |-> 0, lastAt |-> 0]]
  /\ fills        = [o \in Orders |-> [execs |-> {}, sum |-> 0]]
  /\ applied      = {}
  /\ request      = {}
  /\ reply        = [o \in Orders |-> "NONE"]
  /\ cmd          = [o \in Orders |-> [status |-> "NONE", bound |-> FALSE]]
  /\ outbox       = {}
  /\ runner       = [step |-> "idle", order |-> NoOrder]
  /\ prov         = [o \in Orders |-> [state |-> "NONE", filled |-> 0, seq |-> 0]]
  /\ history      = {}
  /\ dbKill = FALSE /\ bridgeKill = FALSE /\ killOp = "NONE" /\ switches = 0
  /\ recon        = NoRecon
  /\ faults = 0 /\ sentUnderKill = [db |-> 0, bridge |-> 0]
  /\ submissions  = [o \in Orders |-> 0]

-----------------------------------------------------------------------------
(* Execution lane: ExecuteNextReadyIntent, evaluateIntent, persistDecision. *)

\* The gate is read before, and outside, the transaction that claims.
PassGate(w) ==
  /\ pc[w] = "idle"
  /\ ~dbKill
  /\ pc' = [pc EXCEPT ![w] = "gated"]
  /\ UNCHANGED <<intentVars, job, placing, ledgerVars, networkVars, cmd, outbox,
                 runner, providerVars, controlVars, recon, faults>>

Claimable(i) ==
  /\ intentStatus[i] = "READY_FOR_EXECUTION"
  /\ execStatus[i] \in {"READY", "RETRY", "CLAIMED"}
  /\ ~claim[i].live

ClaimNextReady(w, i) ==
  /\ pc[w] = "gated"
  /\ Claimable(i)
  /\ execStatus' = [execStatus EXCEPT ![i] = "CLAIMED"]
  /\ claim' = [claim EXCEPT ![i] = [token |-> w, live |-> TRUE]]
  /\ pc' = [pc EXCEPT ![w] = "claimed"]
  /\ job' = [job EXCEPT ![w] = i]
  /\ UNCHANGED <<intentStatus, placing, ledgerVars, networkVars, cmd, outbox,
                 runner, providerVars, controlVars, recon, faults>>

\* Nothing to claim: dal.ErrNotFound.
ClaimNothing(w) ==
  /\ pc[w] = "gated"
  /\ \A i \in Intents : ~Claimable(i)
  /\ pc' = [pc EXCEPT ![w] = "idle"]
  /\ UNCHANGED <<intentVars, job, placing, ledgerVars, networkVars, cmd, outbox,
                 runner, providerVars, controlVars, recon, faults>>

\* Mutant: the decision is written without looking at the claim again.
FenceIntentDropped(w) == TRUE

\* The claim holds while its row is still this worker's and not yet decided.
FenceIntent(w) ==
  LET i == job[w]
  IN  /\ claim[i] = [token |-> w, live |-> TRUE]
      /\ intentStatus[i] = "READY_FOR_EXECUTION"

\* Everything evaluateIntent reads before it decides, outside any transaction.
EvaluationClear(w) ==
  /\ ~ActivityHeldByRecon(w)
  /\ recon.state = "NONE"
  /\ ~bridgeKill            \* health must be READY

Approve(w) ==
  /\ pc[w] = "claimed"
  /\ EvaluationClear(w)
  /\ ~dbKill
  /\ pc' = [pc EXCEPT ![w] = "approved"]
  /\ UNCHANGED <<intentVars, job, placing, ledgerVars, networkVars, cmd, outbox,
                 runner, providerVars, controlVars, recon, faults>>

\* The policy says no: RISK_REJECTED in a fenced transaction.
RejectDecision(w) ==
  /\ pc[w] = "claimed"
  /\ EvaluationClear(w)
  /\ IF FenceIntent(w)
     THEN /\ intentStatus' = [intentStatus EXCEPT ![job[w]] = "RISK_REJECTED"]
          /\ pc' = [pc EXCEPT ![w] = "completed"]
          /\ UNCHANGED job
     ELSE /\ pc' = [pc EXCEPT ![w] = "idle"]      \* ErrClaimLost
          /\ job' = [job EXCEPT ![w] = NoIntent]
          /\ UNCHANGED intentStatus
  /\ UNCHANGED <<execStatus, claim, placing, ledgerVars, networkVars, cmd, outbox,
                 runner, providerVars, controlVars, recon, faults>>

\* Any other way out of evaluateIntent: busy, stale snapshot, no quote, ...
Defer(w) ==
  /\ pc[w] = "claimed"
  /\ pc' = [pc EXCEPT ![w] = "deferred"]
  /\ UNCHANGED <<intentVars, job, placing, ledgerVars, networkVars, cmd, outbox,
                 runner, providerVars, controlVars, recon, faults>>

\* Mutants: the transaction trusts what the evaluation had read before it.
OrderTxNoOpenCheck(w) ==
  ~dbKill /\ recon.state = "NONE" /\ \A o \in Orders : row[o].intent # job[w]
OrderTxNoBarrier(w) ==
  ~dbKill /\ openOrders = {} /\ \A o \in Orders : row[o].intent # job[w]
OrderTxNoKillCheck(w) ==
  /\ recon.state = "NONE" /\ openOrders = {}
  /\ \A o \in Orders : row[o].intent # job[w]

\* What the order transaction re-reads under the lock, besides the fence.
OrderTxAllowed(w) ==
  /\ ~dbKill
  /\ \A o \in Orders : row[o].intent # job[w]   \* TradingOrders.ByIntent
  /\ recon.state = "NONE"                       \* requireNoRunningReconciliation
  /\ openOrders = {}                            \* TradingOrders.QueryOpen

CreateOrder(w, o) ==
  /\ pc[w] = "approved"
  /\ ~Exists(o)
  /\ FenceIntent(w) /\ OrderTxAllowed(w)
  /\ row' = [row EXCEPT ![o] = [intent |-> job[w], status |-> "DISPATCH_PENDING",
                                filled |-> 0, lastAt |-> 0]]
  /\ intentStatus' = [intentStatus EXCEPT ![job[w]] = "ORDER_CREATED"]
  /\ placing' = [placing EXCEPT ![w] = o]
  /\ pc' = [pc EXCEPT ![w] = "created"]
  /\ UNCHANGED <<execStatus, claim, job, fills, applied, networkVars, cmd, outbox,
                 runner, providerVars, controlVars, recon, faults>>

\* The transaction rolls back: ErrClaimLost ends the lane's turn without
\* touching the claim, ErrExecutionDeferred schedules a retry.
AbandonOrder(w) ==
  /\ pc[w] = "approved"
  /\ \/ /\ ~FenceIntent(w)
        /\ pc' = [pc EXCEPT ![w] = "idle"]
        /\ job' = [job EXCEPT ![w] = NoIntent]
     \/ /\ FenceIntent(w) /\ ~OrderTxAllowed(w)
        /\ pc' = [pc EXCEPT ![w] = "deferred"]
        /\ UNCHANGED job
  /\ UNCHANGED <<intentVars, placing, ledgerVars, networkVars, cmd, outbox,
                 runner, providerVars, controlVars, recon, faults>>

\* "Persist uncertainty before crossing the external side-effect boundary."
MarkUnknown(w) ==
  /\ pc[w] = "created"
  /\ row' = [row EXCEPT ![placing[w]].status = "UNKNOWN"]
  /\ pc' = [pc EXCEPT ![w] = "marked"]
  /\ UNCHANGED <<intentVars, job, placing, fills, applied, networkVars, cmd, outbox,
                 runner, providerVars, controlVars, recon, faults>>

SendPlaceOrder(w) ==
  /\ pc[w] = "marked"
  /\ request' = request \union {placing[w]}
  /\ pc' = [pc EXCEPT ![w] = "sent"]
  /\ UNCHANGED <<intentVars, job, placing, ledgerVars, reply, cmd, outbox,
                 runner, providerVars, controlVars, recon, faults>>

\* The answer arrives, or the call times out (the request may still be on its way).
ReceiveReply(w) ==
  /\ pc[w] = "sent"
  /\ LET o == placing[w]
         set(status) == row' = [row EXCEPT ![o].status = status]
     IN  \/ reply[o] = "ACCEPTED" /\ set(StatusAfterAccepted(row[o].status))
         \/ reply[o] = "REFUSED"  /\ set(StatusAfterRefused)
         \/ set(StatusAfterDispatchError(row[o].status))
  /\ reply' = [reply EXCEPT ![placing[w]] = "NONE"]
  /\ placing' = [placing EXCEPT ![w] = NoOrder]
  /\ pc' = [pc EXCEPT ![w] = "completed"]
  /\ UNCHANGED <<intentVars, job, fills, applied, request, cmd, outbox,
                 runner, providerVars, controlVars, recon, faults>>

\* The status update itself fails (database error, lease context over): the row
\* keeps what it has and the intent, already ORDER_CREATED, is marked RETRY.
DispatchUpdateFails(w) ==
  /\ pc[w] \in {"created", "sent"}
  /\ Fault
  /\ placing' = [placing EXCEPT ![w] = NoOrder]
  /\ pc' = [pc EXCEPT ![w] = "deferred"]
  /\ UNCHANGED <<intentVars, job, ledgerVars, networkVars, cmd, outbox,
                 runner, providerVars, controlVars, recon>>

\* TradingIntents.FinishClaim: only the live claim's owner writes.
FinishClaim(w) ==
  /\ pc[w] \in {"completed", "deferred"}
  /\ LET i == job[w]
     IN  IF claim[i] = [token |-> w, live |-> TRUE]
         THEN /\ execStatus' = [execStatus EXCEPT ![i] = IF pc[w] = "completed"
                                                        THEN "COMPLETED" ELSE "RETRY"]
              /\ claim' = [claim EXCEPT ![i] = [token |-> NoWorker, live |-> FALSE]]
         ELSE UNCHANGED <<execStatus, claim>>
  /\ pc' = [pc EXCEPT ![w] = "idle"]
  /\ job' = [job EXCEPT ![w] = NoIntent]
  /\ UNCHANGED <<intentStatus, placing, ledgerVars, networkVars, cmd, outbox,
                 runner, providerVars, controlVars, recon, faults>>

\* Time passes the claim deadline.
ClaimDeadline(i) ==
  /\ claim[i].live
  /\ claim' = [claim EXCEPT ![i].live = FALSE]
  /\ UNCHANGED <<intentStatus, execStatus, laneVars, ledgerVars, networkVars, cmd,
                 outbox, runner, providerVars, controlVars, recon, faults>>

\* TradingIntents.Expire: valid_until has passed and nobody holds the claim.
ExpireIntent(i) ==
  /\ Claimable(i)
  /\ intentStatus' = [intentStatus EXCEPT ![i] = "EXPIRED"]
  /\ execStatus' = [execStatus EXCEPT ![i] = "EXPIRED"]
  /\ UNCHANGED <<claim, laneVars, ledgerVars, networkVars, cmd, outbox, runner,
                 providerVars, controlVars, recon, faults>>

-----------------------------------------------------------------------------
(* Bridge API process: POST /v1/orders.                                    *)

\* _enqueue: accepted while the switch is off and the order is valid, else 422.
BridgeEnqueue(o) ==
  /\ o \in request
  /\ cmd[o].status = "NONE"
  /\ ~bridgeKill
  /\ request' = request \ {o}
  /\ cmd' = [cmd EXCEPT ![o].status = "QUEUED"]
  /\ reply' = [reply EXCEPT ![o] = "ACCEPTED"]
  /\ UNCHANGED <<intentVars, laneVars, ledgerVars, outbox, runner, providerVars,
                 controlVars, recon, faults>>

\* Refused before anything is stored: switch on, Runner not ready, stale quote.
BridgeRefuse(o) ==
  /\ o \in request
  /\ cmd[o].status = "NONE"
  /\ request' = request \ {o}
  /\ reply' = [reply EXCEPT ![o] = "REFUSED"]
  /\ UNCHANGED <<intentVars, laneVars, ledgerVars, cmd, outbox, runner, providerVars,
                 controlVars, recon, faults>>

LoseRequest(o) ==
  /\ o \in request
  /\ Fault
  /\ request' = request \ {o}
  /\ UNCHANGED <<intentVars, laneVars, ledgerVars, reply, cmd, outbox, runner,
                 providerVars, controlVars, recon>>

-----------------------------------------------------------------------------
(* Runner: one command at a time, _execute_command for PLACE_ORDER.        *)

serverVars == <<intentVars, laneVars, ledgerVars, networkVars>>

RunnerClaim(o) ==
  /\ runner.step = "idle"
  /\ cmd[o].status = "QUEUED"
  /\ cmd' = [cmd EXCEPT ![o].status = "RUNNING"]
  /\ runner' = [step |-> "checking", order |-> o]
  /\ UNCHANGED <<serverVars, outbox, providerVars, controlVars, recon, faults>>

\* All checks passed, the switch read last.
RunnerArm ==
  /\ runner.step = "checking"
  /\ ~bridgeKill
  /\ runner' = [runner EXCEPT !.step = "armed"]
  /\ UNCHANGED <<serverVars, cmd, outbox, providerVars, controlVars, recon, faults>>

\* Some check raised before the SDK was called: FAILED, to be reported REJECTED.
RunnerRefuse ==
  /\ runner.step = "checking"
  /\ cmd' = [cmd EXCEPT ![runner.order].status = "FAILED"]
  /\ runner' = [runner EXCEPT !.step = "reportRejected"]
  /\ UNCHANGED <<serverVars, outbox, providerVars, controlVars, recon, faults>>

\* The provider accepts the order: it is live from here on.
Accept(o) ==
  /\ prov' = [prov EXCEPT ![o] = [state |-> "LIVE", filled |-> 0, seq |-> 1]]
  /\ history' = history \union {StatusFact(o, "SUBMITTED", 0, 2)}

CountSubmission(o) ==
  /\ submissions' = [submissions EXCEPT ![o] = @ + 1]
  /\ sentUnderKill' = [db     |-> sentUnderKill.db + IF dbKill THEN 1 ELSE 0,
                        bridge |-> sentUnderKill.bridge + IF bridgeKill THEN 1 ELSE 0]

OrderVolume ==
  /\ runner.step = "armed"
  /\ Accept(runner.order)
  /\ CountSubmission(runner.order)
  /\ runner' = [runner EXCEPT !.step = "accepted"]
  /\ UNCHANGED <<serverVars, cmd, outbox, dbKill, bridgeKill, killOp, switches, recon, faults>>

\* order_volume raises or returns nothing: the provider may have the order or not.
OrderVolumeRaises ==
  /\ runner.step = "armed"
  /\ Fault
  /\ Accept(runner.order) \/ UNCHANGED <<prov, history>>
  /\ CountSubmission(runner.order)
  /\ cmd' = [cmd EXCEPT ![runner.order].status = "UNKNOWN"]
  /\ runner' = [runner EXCEPT !.step = "reportUnknown"]
  /\ UNCHANGED <<serverVars, outbox, dbKill, bridgeKill, killOp, switches, recon>>

\* The provider's id is stored: callbacks of the order are recognised from now on.
BindProviderId ==
  /\ runner.step = "accepted"
  /\ cmd' = [cmd EXCEPT ![runner.order] = [status |-> "DONE", bound |-> TRUE]]
  /\ runner' = [runner EXCEPT !.step = "reportSubmitted"]
  /\ UNCHANGED <<serverVars, outbox, providerVars, controlVars, recon, faults>>

\* _record_event raises after a successful call: caught, the row becomes UNKNOWN.
RecordSubmittedFails ==
  /\ runner.step = "reportSubmitted"
  /\ Fault
  /\ cmd' = [cmd EXCEPT ![runner.order].status = "UNKNOWN"]
  /\ runner' = [runner EXCEPT !.step = "reportUnknown"]
  /\ UNCHANGED <<serverVars, outbox, providerVars, controlVars, recon>>

\* Mutant: an order whose submission raised is reported rejected.
RunnerReportRejects(o) ==
  IF runner.step = "reportSubmitted" THEN StatusFact(o, "SUBMITTED", 0, 2)
  ELSE StatusFact(o, "REJECTED", 0, 2 * prov[o].seq + 1)

RunnerReport(o) ==
  IF runner.step = "reportSubmitted" THEN StatusFact(o, "SUBMITTED", 0, 2)
  ELSE LET status == IF runner.step = "reportRejected" THEN "REJECTED" ELSE "UNKNOWN"
       IN  StatusFact(o, status, 0, 2 * prov[o].seq + 1)

\* bridge_order_events and bridge_callback_outbox in one transaction.
RecordReport ==
  /\ runner.step \in {"reportSubmitted", "reportRejected", "reportUnknown"}
  /\ outbox' = outbox \union {Callback(RunnerReport(runner.order))}
  /\ runner' = [step |-> "idle", order |-> NoOrder]
  /\ UNCHANGED <<serverVars, cmd, providerVars, controlVars, recon, faults>>

\* Mutant: an interrupted placement is queued again like any other command.
RunnerRestartRequeues ==
  /\ Fault
  /\ cmd' = [o \in Orders |-> IF cmd[o].status = "RUNNING"
                              THEN [cmd[o] EXCEPT !.status = "QUEUED"] ELSE cmd[o]]
  /\ runner' = [step |-> "idle", order |-> NoOrder]
  /\ UNCHANGED <<serverVars, outbox, providerVars, controlVars, recon>>

\* The Runner stops anywhere; configure() runs when it is started again.
RunnerRestart ==
  /\ Fault
  /\ cmd' = [o \in Orders |-> IF cmd[o].status = "RUNNING"
                              THEN [cmd[o] EXCEPT !.status = "UNKNOWN"] ELSE cmd[o]]
  /\ runner' = [step |-> "idle", order |-> NoOrder]
  /\ UNCHANGED <<serverVars, outbox, providerVars, controlVars, recon>>

-----------------------------------------------------------------------------
(* Provider (external) and its callbacks.                                  *)

\* The provider moves an order; on_order_status and on_execution_report record
\* the facts if the order's provider id is known (and the Runner is there).
ProviderStep(o, state, filled, facts) ==
  /\ prov' = [prov EXCEPT ![o] = [state |-> state, filled |-> filled,
                                  seq |-> prov[o].seq + 1]]
  /\ history' = history \union facts
  /\ IF cmd[o].bound
     THEN \/ outbox' = outbox \union {Callback(f) : f \in facts} /\ UNCHANGED faults
          \/ Fault /\ UNCHANGED outbox
     ELSE UNCHANGED <<outbox, faults>>
  /\ UNCHANGED <<serverVars, cmd, runner, submissions, controlVars, recon>>

ProviderFill(o) ==
  /\ prov[o].state = "LIVE"
  /\ \E lots \in 1..(Volume - prov[o].filled) :
       LET at     == 2 * (prov[o].seq + 1)
           filled == prov[o].filled + lots
           full   == filled = Volume
       IN  ProviderStep(o, IF full THEN "FILLED" ELSE "LIVE", filled,
             {FillFact(o, lots, at),
              StatusFact(o, IF full THEN "FILLED" ELSE "PARTIALLY_FILLED", filled, at)})

\* By a cancel command or by the provider itself at the end of the day.
ProviderCancel(o) ==
  /\ prov[o].state = "LIVE"
  /\ ProviderStep(o, "CANCELED", prov[o].filled,
       {StatusFact(o, "CANCELED", prov[o].filled, 2 * (prov[o].seq + 1))})

ProviderReject(o) ==
  /\ prov[o].state = "LIVE" /\ prov[o].filled = 0
  /\ ProviderStep(o, "REJECTED", 0, {StatusFact(o, "REJECTED", 0, 2 * (prov[o].seq + 1))})

-----------------------------------------------------------------------------
(* applyBridgeEvent: one transaction under the account lock.               *)

\* Mutant: every new event adds its fill, whatever its execution id.
StoredFillsByEvent(e) ==
  LET f == e.fact
  IN  [execs |-> fills[f.order].execs \union {f.at}, sum |-> fills[f.order].sum + f.fill]

StoredFills(e) ==
  LET f == e.fact
      new == /\ f.kind = "EXECUTION_REPORT" /\ f.fill > 0
             /\ f.at \notin fills[f.order].execs      \* TradingFills.CreateIdempotent
  IN  IF new THEN [execs |-> fills[f.order].execs \union {f.at},
                   sum |-> fills[f.order].sum + f.fill]
             ELSE fills[f.order]

Recorded(e) == e \in applied                          \* by event_hash

\* A new event is stored, its fill stored and the order row merged; an event
\* seen before commits nothing; one the merge rejects rolls back.
ApplyBridgeEvent(e) ==
  LET o == e.fact.order
      stored == StoredFills(e)
  IN  /\ Exists(o)
      /\ IF Recorded(e) THEN UNCHANGED ledgerVars
         ELSE /\ MergeAccepts(e.fact, stored.sum, Volume)
              /\ applied' = applied \union {e}
              /\ fills' = [fills EXCEPT ![o] = stored]
              /\ LET merged == MergeOrderEvent(row[o], e.fact, stored.sum, Volume)
                 IN  row' = [row EXCEPT ![o] = [intent |-> row[o].intent,
                                                status |-> merged.status,
                                                filled |-> merged.filled,
                                                lastAt |-> merged.lastAt]]

\* The outbox posts a row; the row is retired unless the answer got lost.
DeliverCallback(e) ==
  /\ e \in outbox
  /\ ApplyBridgeEvent(e)
  /\ \/ outbox' = outbox \ {e} /\ UNCHANGED faults
     \/ Fault /\ UNCHANGED outbox
  /\ UNCHANGED <<intentVars, laneVars, networkVars, cmd, runner, providerVars,
                 controlVars, recon>>

\* The Bridge stops while a row is SENDING: nothing ever selects it again.
OutboxRestart(e) ==
  /\ e \in outbox
  /\ Fault
  /\ outbox' = outbox \ {e}
  /\ UNCHANGED <<serverVars, cmd, runner, providerVars, controlVars, recon>>

-----------------------------------------------------------------------------
(* Kill switches.                                                          *)

Switch == switches < MaxSwitches /\ switches' = switches + 1

SetKills(db, bridge) ==
  /\ dbKill' = db /\ bridgeKill' = bridge
  /\ sentUnderKill' = [db     |-> IF db THEN sentUnderKill.db ELSE 0,
                        bridge |-> IF bridge THEN sentUnderKill.bridge ELSE 0]

\* Service.SetKillSwitch writes the database first ...
SetKillSwitch(on) ==
  /\ killOp = "NONE"
  /\ Switch
  /\ SetKills(on, bridgeKill)
  /\ killOp' = IF on THEN "ON" ELSE "OFF"
  /\ UNCHANGED <<serverVars, cmd, outbox, runner, providerVars, recon, faults>>

\* ... and the Bridge second; the call may fail and leave the two different.
SetKillSwitchBridge ==
  /\ killOp # "NONE"
  /\ \/ SetKills(dbKill, killOp = "ON") /\ UNCHANGED faults
     \/ Fault /\ UNCHANGED <<dbKill, bridgeKill, sentUnderKill>>
  /\ killOp' = "NONE"
  /\ UNCHANGED <<serverVars, cmd, outbox, runner, providerVars, switches, recon>>

\* _fail_closed: terminal lost, token refused, account mismatch.
FailClosed ==
  /\ ~bridgeKill
  /\ Switch
  /\ SetKills(dbKill, TRUE)
  /\ UNCHANGED <<serverVars, cmd, outbox, runner, providerVars, killOp, recon, faults>>

-----------------------------------------------------------------------------
(* Reconciliation, as far as it touches orders: the RUNNING row is a       *)
(* barrier, recovery replays facts from the provider's snapshot, and a     *)
(* difference closes both switches.  Runs, leases and retries have their   *)
(* own module.                                                             *)

ReconUnchanged == <<intentVars, laneVars, networkVars, cmd, outbox, runner, providerVars>>

StartReconciliation(w) ==
  /\ recon.state = "NONE"
  /\ recon' = Running(w)
  /\ UNCHANGED <<ReconUnchanged, ledgerVars, controlVars, faults>>

\* Mutant: only the executions of the snapshot carry a recovery event.
SnapshotOfExecutions ==
  {f \in history : cmd[f.order].bound /\ f.kind = "EXECUTION_REPORT"}

\* What the snapshot reports of the orders whose provider id the Bridge knows:
\* their present status and all their executions.
Snapshot ==
  {f \in history : /\ cmd[f.order].bound
                   /\ f.kind = "EXECUTION_REPORT" \/ f.at = 2 * prov[f.order].seq}

\* lockReconciliationActivity, which waits until the execution lane is out, and
\* the fresh snapshot taken under the lock.
LockReconciliation ==
  /\ recon.state = "RUNNING"
  /\ ~Evaluating(recon.owner)
  /\ recon' = [recon EXCEPT !.state = "LOCKED", !.todo = Snapshot,
                             !.seen = {o \in Orders : cmd[o].bound},
                             !.stray = {o \in Orders : prov[o].state # "NONE" /\ ~cmd[o].bound}]
  /\ UNCHANGED <<ReconUnchanged, ledgerVars, controlVars, faults>>

\* One recovery event, in the bytes the snapshot gives it: first the orders, one
\* status each, then the executions (oldest first; their order makes no difference).
RecoverEvent(f, s) ==
  /\ f \in recon.todo
  /\ \A g \in recon.todo : IF f.kind = g.kind THEN f.at <= g.at
                                               ELSE f.kind = "ORDER_STATUS"
  /\ ApplyBridgeEvent([fact |-> f, src |-> s])
  /\ recon' = [recon EXCEPT !.todo = @ \ {f}]
  /\ UNCHANGED <<ReconUnchanged, controlVars, faults>>

\* MISSING_PROVIDER_ORDER and UNTRACKED_PROVIDER_ORDER: the open rows are read
\* when the recovery is done, the provider's orders are those of the snapshot.
OrderDiffs == {o \in openOrders : o \notin recon.seen} \union recon.stray

Halt ==
  /\ SetKills(TRUE, TRUE)
  /\ UNCHANGED <<killOp, switches>>

FinishReconciliation ==
  /\ recon.state = "LOCKED" /\ recon.todo = {}
  /\ recon' = NoRecon
  /\ IF OrderDiffs = {} THEN UNCHANGED controlVars ELSE Halt
  /\ UNCHANGED <<ReconUnchanged, ledgerVars, faults>>

\* failReconciliation: both latches first, then FAILED.
FailReconciliation ==
  /\ recon.state # "NONE"
  /\ Fault
  /\ recon' = NoRecon
  /\ Halt
  /\ UNCHANGED <<ReconUnchanged, ledgerVars>>

\* The lease of a RUNNING run is over: another lane takes the run, the barrier stays.
TakeOverReconciliation(w) ==
  /\ recon.state # "NONE" /\ recon.owner # w
  /\ Fault
  /\ recon' = Running(w)
  /\ UNCHANGED <<ReconUnchanged, ledgerVars, controlVars>>

-----------------------------------------------------------------------------
\* A server process stops: its lanes forget everything, the database nothing.
Crash(w) ==
  /\ faults < MaxFaults
  /\ pc[w] # "idle"
  /\ faults' = faults + 1
  /\ pc' = [pc EXCEPT ![w] = "idle"]
  /\ job' = [job EXCEPT ![w] = NoIntent]
  /\ placing' = [placing EXCEPT ![w] = NoOrder]
  /\ recon' = IF ActivityHeldByRecon(w) THEN Running(w) ELSE recon
  /\ UNCHANGED <<intentVars, ledgerVars, networkVars, cmd, outbox, runner,
                 providerVars, controlVars>>

LaneStep(w) ==
  \/ PassGate(w) \/ ClaimNothing(w) \/ (\E i \in Intents : ClaimNextReady(w, i))
  \/ Approve(w) \/ RejectDecision(w) \/ Defer(w)
  \/ (\E o \in Orders : CreateOrder(w, o)) \/ AbandonOrder(w)
  \/ MarkUnknown(w) \/ SendPlaceOrder(w) \/ ReceiveReply(w)
  \/ DispatchUpdateFails(w) \/ FinishClaim(w)

BridgeStep(o) == BridgeEnqueue(o) \/ BridgeRefuse(o) \/ LoseRequest(o)

RunnerStep ==
  \/ \E o \in Orders : RunnerClaim(o)
  \/ RunnerArm \/ RunnerRefuse \/ OrderVolume \/ OrderVolumeRaises
  \/ BindProviderId \/ RecordSubmittedFails \/ RecordReport

ProviderMoves(o) == ProviderFill(o) \/ ProviderCancel(o) \/ ProviderReject(o)

OutboxStep == \E e \in outbox : DeliverCallback(e) \/ OutboxRestart(e)

ControlStep ==
  \/ \E on \in BOOLEAN : SetKillSwitch(on)
  \/ SetKillSwitchBridge \/ FailClosed

ReconStep ==
  \/ \E w \in Reconcilers : StartReconciliation(w) \/ TakeOverReconciliation(w)
  \/ LockReconciliation
  \/ \E f \in recon.todo, s \in Sources : RecoverEvent(f, s)
  \/ FinishReconciliation \/ FailReconciliation

Next ==
  \/ \E w \in Workers : LaneStep(w) \/ Crash(w)
  \/ \E i \in Intents : ClaimDeadline(i) \/ ExpireIntent(i)
  \/ \E o \in Orders : BridgeStep(o) \/ ProviderMoves(o)
  \/ RunnerStep \/ RunnerRestart \/ OutboxStep \/ ControlStep \/ ReconStep

Spec == Init /\ [][Next]_vars

-----------------------------------------------------------------------------
(* Types.                                                                  *)

\* A row of trading_orders exists exactly for the orders with an intent; what
\* travels and what is stored about an order stays within its volume.
TypeOK ==
  /\ intentStatus \in [Intents -> IntentStatuses]
  /\ execStatus \in [Intents -> ExecStatuses]
  /\ claim \in [Intents -> Claims]
  /\ pc \in [Workers -> LaneSteps]
  /\ job \in [Workers -> Intents \union {NoIntent}]
  /\ placing \in [Workers -> Orders \union {NoOrder}]
  /\ row \in [Orders -> OrderRows]
  /\ fills \in [Orders -> [execs: SUBSET Nat, sum: 0..Volume]]
  /\ applied \subseteq Events /\ outbox \subseteq Events
  /\ request \subseteq Orders
  /\ reply \in [Orders -> {"NONE", "ACCEPTED", "REFUSED"}]
  /\ cmd \in [Orders -> Commands]
  /\ runner \in [step: RunnerSteps, order: Orders \union {NoOrder}]
  /\ prov \in [Orders -> [state: ProviderStates, filled: 0..Volume, seq: Nat]]
  /\ history \subseteq Facts
  /\ dbKill \in BOOLEAN /\ bridgeKill \in BOOLEAN /\ killOp \in {"NONE", "ON", "OFF"}
  /\ switches \in Nat
  /\ recon \in [state: {"NONE", "RUNNING", "LOCKED"}, owner: Workers \union {NoWorker},
                 todo: SUBSET Facts, seen: SUBSET Orders, stray: SUBSET Orders]
  /\ submissions \in [Orders -> Nat] /\ faults \in Nat
  /\ sentUnderKill \in [db: Nat, bridge: Nat]

-----------------------------------------------------------------------------
(* Safety.                                                                 *)

\* At most one order is at risk at any moment: one that has an open row, that
\* is on its way to the Bridge, waits there, or is live at the provider.
\* QueryOpen under the lock is what must keep several workers, an expired claim
\* whose worker is still running, and requests that outlive their caller apart.
AtRisk(o) ==
  \/ IsOpen(o)
  \/ o \in request
  \/ cmd[o].status \in {"QUEUED", "RUNNING"}
  \/ prov[o].state = "LIVE"

OneExposure == \A o, p \in Orders : AtRisk(o) /\ AtRisk(p) => o = p

\* An intent gets at most one order however often it is claimed and retried, and
\* its status says whether it has one: a worker that lost its claim can neither
\* reject nor expire an intent that was ordered meanwhile.
IntentMatchesOrder ==
  /\ \A o, p \in Orders : Exists(o) /\ row[o].intent = row[p].intent => o = p
  /\ \A i \in Intents :
       intentStatus[i] = "ORDER_CREATED" <=> \E o \in Orders : row[o].intent = i

\* Timeouts, lost answers and Runner restarts never make the Runner call
\* order_volume twice for an order, nor for one the ledger does not know.
SubmittedOnce ==
  \A o \in Orders : submissions[o] <= 1 /\ (submissions[o] = 1 => Exists(o))

\* A status the ledger will not leave is the truth at the provider, and the
\* ledger never counts shares the provider has not filled: not with events lost,
\* duplicated, reordered and reported under several hashes.
LedgerIsTruthful ==
  \A o \in Orders :
    /\ row[o].filled <= prov[o].filled
    /\ fills[o].sum <= prov[o].filled
    /\ CASE row[o].status = "FILLED"   -> prov[o].state = "FILLED"
         [] row[o].status = "CANCELED" -> prov[o].state = "CANCELED"
         [] row[o].status = "REJECTED" ->
              prov[o].state = "REJECTED" \/ (prov[o].state = "NONE" /\ submissions[o] = 0)
         [] OTHER -> TRUE

\* While either switch alone stays on, at most one order goes out: the one that
\* had already passed the last check of that switch, wherever on its way it was.
BoundedKillLeak == sentUnderKill.db <= 1 /\ sentUnderKill.bridge <= 1

\* A row that is over stays over with the same status, volumes never shrink, and
\* an intent once decided is never decided again.
OutcomesAreFinal ==
  [][/\ \A o \in Orders :
          /\ row[o].filled <= row'[o].filled
          /\ row[o].status \in TerminalStatuses => row'[o].status = row[o].status
     /\ \A i \in Intents : intentStatus[i] # "READY_FOR_EXECUTION"
                             => intentStatus'[i] = intentStatus[i]]_vars

\* From the claim of a reconciliation run to its end no order is opened, through
\* takeovers by another process and crashes of its owner: the rows the run
\* compares with its snapshot are those that were there when it was taken.
NoOrderDuringReconciliation ==
  [][recon.state # "NONE" /\ recon'.state # "NONE" => openOrders' \subseteq openOrders]_vars

\* The abstract specification: an intent's order is open, then over, one at a time.
Exposure == INSTANCE SingleExposure WITH
  open <- {row[o].intent : o \in openOrders},
  done <- {row[o].intent : o \in {p \in Orders : Exists(p) /\ ~IsOpen(p)}}

ImplementsSingleExposure == Exposure!Spec

-----------------------------------------------------------------------------
(* The inductive invariant behind the theorems of OrderDispatch_proofs.    *)

OneOpenOrder == \A o, p \in openOrders : o = p

\* Nothing has left the server for the order yet ...
Unsent(o) == o \notin request /\ reply[o] = "NONE" /\ cmd[o].status = "NONE"

\* ... and nothing is known of it beyond the server.
Silent(o) ==
  /\ prov[o].state = "NONE" /\ submissions[o] = 0 /\ runner.order # o
  /\ \A e \in outbox : e.fact.order # o
  /\ \A f \in history \union recon.todo : f.order # o

\* A lane that has created an order and not sent it is the only one to know it.
LanesOK ==
  /\ \A w \in Workers : placing[w] \in Orders <=> pc[w] \in {"created", "marked", "sent"}
  /\ \A w \in Workers : placing[w] \in Orders => Exists(placing[w])
  /\ \A w \in Workers : pc[w] \in {"created", "marked"}
                          => Unsent(placing[w]) /\ IsOpen(placing[w])
  /\ \A w, v \in Workers : placing[w] \in Orders /\ placing[w] = placing[v] => w = v
  /\ \A w \in Workers : pc[w] \in {"claimed", "approved", "created", "marked", "sent",
                                   "completed", "deferred"} => job[w] \in Intents

\* The Bridge knows only orders with a row, and speaks only of those it knows.
BridgeOK ==
  /\ \A o \in Orders : ~Exists(o) => Unsent(o)
  /\ \A o \in Orders : cmd[o].status = "NONE" => Silent(o)

\* A command not yet started has not been submitted, nor has one being checked.
RunnerOK ==
  /\ runner.order \in Orders <=> runner.step # "idle"
  /\ \A o \in Orders : cmd[o].status = "QUEUED" => submissions[o] = 0 /\ runner.order # o
  /\ runner.step \in {"checking", "armed"} => submissions[runner.order] = 0

IndInv ==
  TypeOK /\ LanesOK /\ BridgeOK /\ RunnerOK /\ OneOpenOrder /\ IntentMatchesOrder
    /\ SubmittedOnce

-----------------------------------------------------------------------------
(* Liveness.  The execution and reconciliation lanes are loops that never  *)
(* stop; callbacks, faults, operators and time give no promise.            *)

LaneProgress(w) ==
  \/ ClaimNothing(w) \/ Approve(w) \/ RejectDecision(w) \/ Defer(w)
  \/ (\E o \in Orders : CreateOrder(w, o)) \/ AbandonOrder(w) \/ MarkUnknown(w)
  \/ SendPlaceOrder(w) \/ ReceiveReply(w) \/ FinishClaim(w)

Fairness ==
  /\ \A w \in Workers : WF_vars(LaneProgress(w))
  /\ WF_vars(\E w \in Reconcilers : StartReconciliation(w))
  /\ WF_vars(LockReconciliation)
  /\ WF_vars(\E f \in recon.todo, s \in Sources : RecoverEvent(f, s))
  /\ WF_vars(FinishReconciliation)

FairSpec == Spec /\ Fairness

\* An order that is over at the provider is closed in the ledger, whatever
\* callbacks were lost, stuck or dropped, provided the Runner stored the
\* provider's id and did not have to report the submission itself as uncertain.
OutcomeReachesLedger ==
  \A o \in Orders :
    (/\ prov[o].state \in {"FILLED", "CANCELED", "REJECTED"}
     /\ cmd[o] = [status |-> "DONE", bound |-> TRUE]
     /\ runner.order # o)
    ~> (Exists(o) /\ ~IsOpen(o))
=============================================================================
