--------------------------- MODULE PositionCycles ---------------------------
(***************************************************************************)
(* Position cycles: what the account holds by the orders' confirmed fills, *)
(* and the exit monitor that sells it.                                     *)
(*                                                                         *)
(* The account has one security.  An intent and its order share an id, and *)
(* a cycle has the id of the BUY that opened it.  The lane of OrderDispatch *)
(* is two steps here: an evaluation compares a snapshot with the ledger    *)
(* and decides (Evaluate), and a later transaction creates the order if no *)
(* other is open (CreateOrder).  Between them the provider fills, cancels  *)
(* and reports what is open, in any order.  Any number of processes may    *)
(* evaluate, each an intent it has claimed, and run the exit monitor.      *)
(***************************************************************************)
EXTENDS OrderLifecycle, FiniteSets, FiniteSetsExt

CONSTANTS Scanners,      \* processes that run the exit monitor
          BuyVolume,     \* the volume of a BUY, in lots
          MaxBuys,       \* bound on BUY intents
          MaxIntents,    \* bound on intents
          MaxSetbacks,   \* bound on expiries, refusals, deferrals, cancellations, dry scans
          None

ASSUME PositionsAssumption ==
  /\ BuyVolume \in Nat \ {0} /\ MaxBuys \in Nat /\ MaxIntents \in Nat
  /\ MaxSetbacks \in Nat
  /\ None \notin Nat

Ids == 1..MaxIntents

VARIABLES
  intent,    \* trading_intents
  order,     \* trading_orders, by intent
  cycle,     \* trading_position_cycles, by the BUY that opened them
  evaluated, \* intents a lane has decided to execute, their orders not yet created
  exec,      \* (provider) shares executed of each order
  held,      \* (provider) the account's shares
  live,      \* (provider) orders it still works on
  today,     \* (provider) shares bought today: T+1, not yet sellable
  reports,   \* callbacks that have not been applied
  scan,      \* what each exit monitor has observed
  setbacks

vars == <<intent, order, cycle, evaluated, exec, held, live, today, reports, scan, setbacks>>
provider == <<exec, held, live, today>>
ledger == <<order, cycle, evaluated>>

Reasons == {"STOP_LOSS", "MAX_HOLDING_DAYS"}
IntentStatuses == {"NONE", "READY", "ORDER_CREATED", "RISK_REJECTED", "EXPIRED"}
Quiet == [step |-> "idle", cycles |-> {}, held |-> 0, available |-> 0, twin |-> FALSE]

Init ==
  /\ intent = [i \in Ids |-> [status |-> "NONE", action |-> "BUY", cycle |-> None,
                              volume |-> 0, reason |-> ""]]
  /\ order = [i \in Ids |-> [status |-> "NONE", filled |-> 0, lastAt |-> 0]]
  /\ cycle = [i \in Ids |-> [status |-> "NONE", current |-> 0, reason |-> ""]]
  /\ evaluated = {}
  /\ exec = [i \in Ids |-> 0] /\ held = 0 /\ live = {} /\ today = 0
  /\ reports = {}
  /\ scan = [s \in Scanners |-> Quiet]
  /\ setbacks = 0

Setback == setbacks < MaxSetbacks /\ setbacks' = setbacks + 1
Free(i) == intent[i].status = "NONE" /\ \A j \in Ids : j < i => intent[j].status # "NONE"
IsBuy(i) == intent[i].status # "NONE" /\ intent[i].action = "BUY"
SellsOf(b) == {i \in Ids : intent[i].status # "NONE" /\ intent[i].action = "SELL"
                           /\ intent[i].cycle = b}
OpenOrders == {i \in Ids : order[i].status \in OpenStatuses}
OpenCycles == {b \in Ids : cycle[b].status \in {"OPEN", "EXIT_PENDING"}}

-----------------------------------------------------------------------------
(* The provider.                                                           *)

Frozen == MapThenSumSet(LAMBDA i : intent[i].volume - exec[i],
                        {i \in live : intent[i].action = "SELL"})
Available == IF held - today - Frozen > 0 THEN held - today - Frozen ELSE 0

\* Reports of one order are told apart in time; they may be applied in any order.
Reports(i, status, cum) ==
  reports' = reports \union
    {[order |-> i, status |-> status, cum |-> cum,
      at |-> IF status \in {"CANCELED", "REJECTED"} THEN cum + 1 ELSE cum]}

\* Some of an order is executed.
Fill(i) ==
  /\ i \in live
  /\ \E n \in 1..(intent[i].volume - exec[i]) :
       LET all == exec[i] + n = intent[i].volume IN
       /\ exec' = [exec EXCEPT ![i] = @ + n]
       /\ held' = IF IsBuy(i) THEN held + n ELSE held - n
       /\ live' = IF all THEN live \ {i} ELSE live
       /\ today' = IF IsBuy(i) THEN today + n ELSE today
       /\ Reports(i, IF all THEN "FILLED" ELSE "PARTIALLY_FILLED", exec[i] + n)
  /\ UNCHANGED <<intent, ledger, scan, setbacks>>

\* The provider gives an order up, with what was executed of it.
Cancel(i) ==
  /\ i \in live /\ Setback
  /\ live' = live \ {i}
  /\ Reports(i, IF exec[i] = 0 THEN "REJECTED" ELSE "CANCELED", exec[i])
  /\ UNCHANGED <<intent, ledger, exec, held, today, scan>>

NextDay ==
  /\ today # 0 /\ today' = 0
  /\ UNCHANGED <<intent, ledger, exec, held, live, reports, scan, setbacks>>

-----------------------------------------------------------------------------
(* Intents.                                                                *)

Creates(i, action, b, volume, reason) ==
  /\ Free(i)
  /\ intent' = [intent EXCEPT ![i] = [status |-> "READY", action |-> action, cycle |-> b,
                                      volume |-> volume, reason |-> reason]]

\* A decision run selects the security.
Decide ==
  /\ Cardinality({i \in Ids : IsBuy(i)}) < MaxBuys
  /\ \E i \in Ids : Creates(i, "BUY", None, BuyVolume, "")
  /\ UNCHANGED <<ledger, provider, reports, scan, setbacks>>

\* An intent ends without an order; an evaluation of it under way is fenced.
Ends(i, status) ==
  /\ intent[i].status = "READY"
  /\ intent' = [intent EXCEPT ![i].status = status]
  /\ evaluated' = evaluated \ {i}
  /\ UNCHANGED <<order, cycle, provider, reports, scan>>

\* Its window is over before it was executed.
Expire(i) == Ends(i, "EXPIRED") /\ Setback

-----------------------------------------------------------------------------
(* The lane.                                                               *)

LedgerAgrees == IF OpenCycles = {} THEN held = 0 ELSE \A b \in OpenCycles : cycle[b].current = held

\* A BUY waits while shares are held, an exit must have a cycle that is open; the
\* ledger agrees with the snapshot.  An order may be open.
MayEvaluate(i) ==
  /\ intent[i].status = "READY" /\ LedgerAgrees
  /\ IF IsBuy(i) THEN held = 0 ELSE cycle[intent[i].cycle].status # "CLOSED"

Sellable(i) == Available > 0 /\ intent[i].volume <= Available

Evaluate(i) ==
  /\ MayEvaluate(i) /\ i \notin evaluated
  /\ IsBuy(i) \/ Sellable(i)
  /\ evaluated' = evaluated \union {i}
  /\ UNCHANGED <<intent, order, cycle, provider, reports, scan, setbacks>>

\* The policy refuses a SELL of what cannot be sold, and others for other reasons.
Refuse(i) ==
  /\ MayEvaluate(i) /\ Ends(i, "RISK_REJECTED")
  /\ IF IsBuy(i) \/ Sellable(i) THEN Setback ELSE UNCHANGED setbacks

\* persistDecision looks again only at the intent and for open orders,
MayCreate == OpenOrders = {}

CreateOrder(i) ==
  /\ i \in evaluated /\ intent[i].status = "READY" /\ MayCreate
  /\ intent' = [intent EXCEPT ![i].status = "ORDER_CREATED"]
  /\ order' = [order EXCEPT ![i].status = "BRIDGE_QUEUED"]
  /\ live' = live \union {i}
  /\ evaluated' = evaluated \ {i}
  /\ UNCHANGED <<cycle, exec, held, today, reports, scan, setbacks>>

\* and defers the intent when there is one, or for another reason.
Defer(i) ==
  /\ i \in evaluated
  /\ IF MayCreate THEN Setback ELSE UNCHANGED setbacks
  /\ evaluated' = evaluated \ {i}
  /\ UNCHANGED <<intent, order, cycle, provider, reports, scan>>

-----------------------------------------------------------------------------
(* Fills.                                                                  *)

\* Mutant: what is sold is what the last order sold.
SoldByLast(rows, b) ==
  LET sells == {i \in SellsOf(b) : rows[i].filled > 0}
  IN  IF sells = {} THEN 0 ELSE rows[Max(sells)].filled

\* What the exits of a cycle have sold, over all of its SELL orders.
SoldOf(rows, b) == MapThenSumSet(LAMBDA i : rows[i].filled, SellsOf(b))

\* cyclePosition: recomputed from the orders; closed when all is sold and the
\* entry can fill no more.
CyclePosition(rows, b) ==
  LET remaining == rows[b].filled - SoldOf(rows, b)
      pending == \E i \in SellsOf(b) : rows[i].status \in OpenStatuses
  IN  [remaining |-> remaining,
       status |-> IF remaining = 0 /\ IsTerminalOrderStatus(rows[b].status) THEN "CLOSED"
                  ELSE IF pending THEN "EXIT_PENDING" ELSE "OPEN"]

Least(m, n) == IF m < n THEN m ELSE n

\* The cycle after a report of order i: one cycle of the security is open at a
\* time, and a SELL leaves its reason.
CycleAfter(rows, i, b) ==
  LET position == CyclePosition(rows, b) IN
  [status |-> position.status,
   current |-> position.remaining,
   reason |-> IF IsBuy(i) THEN cycle[b].reason ELSE intent[i].reason]

\* A report is folded into its order, and the cycle follows in the same
\* transaction; where that fails the report stays.
ApplyReport(r) ==
  LET i == r.order
      rows == [order EXCEPT ![i] = MergeOrderEvent(@, r, 0, intent[i].volume)]
      b == IF IsBuy(i) THEN i ELSE intent[i].cycle
      after == CycleAfter(rows, i, b)
  IN  /\ r \in reports
      /\ MergeAccepts(r, 0, intent[i].volume)
      /\ order' = rows
      /\ reports' = reports \ {r}
      /\ IF IsBuy(i) /\ rows[i].filled = 0 THEN UNCHANGED cycle
         ELSE /\ after.current >= 0
              /\ after.status # "CLOSED" => OpenCycles \subseteq {b}
              /\ cycle' = [cycle EXCEPT ![b] = after]
      /\ UNCHANGED <<intent, evaluated, provider, scan, setbacks>>

-----------------------------------------------------------------------------
(* The exit monitor.                                                       *)

\* The open cycles are listed, then a snapshot is taken.
ScanLists(s) ==
  /\ scan[s].step = "idle" /\ OpenCycles # {}
  /\ scan' = [scan EXCEPT ![s] = [Quiet EXCEPT !.step = "listed", !.cycles = OpenCycles]]
  /\ UNCHANGED <<intent, ledger, provider, reports, setbacks>>

ScanSnapshot(s) ==
  /\ scan[s].step = "listed"
  /\ scan' = [scan EXCEPT ![s].step = "observed", ![s].held = held, ![s].available = Available]
  /\ UNCHANGED <<intent, ledger, provider, reports, setbacks>>

\* Mutant: an exit whose order ended without selling is still one.
HasActiveExitForEver(b) == \E i \in SellsOf(b) : intent[i].status \in {"READY", "ORDER_CREATED"}

\* Mutant: an exit that has become an order is over.
HasActiveExitReadyOnly(b) == \E i \in SellsOf(b) : intent[i].status = "READY"

\* A SELL that may still become an order, or whose order is not over.
HasActiveExit(b) ==
  \E i \in SellsOf(b) :
    /\ intent[i].status \in {"READY", "ORDER_CREATED"}
    /\ ~IsTerminalOrderStatus(order[i].status)

\* A reason once found is kept, whatever the price does since.
ExitReason(b, quoted) == IF cycle[b].reason # "" THEN cycle[b].reason ELSE quoted

\* One scan of a 30-second bucket is stored; another of the same bucket fails.
ScanStored(s) ==
  \E same \in SUBSET {e \in Scanners \ {s} : scan[e].step # "idle"} :
    scan' = [e \in Scanners |-> IF e = s THEN Quiet
                                ELSE [scan[e] EXCEPT !.twin = @ \/ e \in same]]

\* The scan's transaction, for a cycle it listed (there is one at a time): the
\* reason is stored, and a SELL is created unless one is active or nothing can be
\* sold.  A scan that is dry makes none that could be executed.
ScanCommits(s) ==
  /\ scan[s].step = "observed" /\ ~scan[s].twin
  /\ \E b \in scan[s].cycles, quoted \in Reasons \union {""} :
       LET reason == ExitReason(b, quoted)
           volume == Least(scan[s].available, cycle[b].current)
       IN  /\ cycle[b].status # "CLOSED"
           /\ scan[s].held = cycle[b].current
           /\ reason # ""
           /\ cycle' = [cycle EXCEPT ![b].status = "EXIT_PENDING", ![b].reason = reason]
           /\ \/ /\ scan[s].available > 0 /\ ~HasActiveExit(b)
                 /\ \/ \E i \in Ids : Creates(i, "SELL", b, volume, reason) /\ UNCHANGED setbacks
                    \/ Setback /\ UNCHANGED intent
              \/ /\ scan[s].available = 0 \/ HasActiveExit(b)
                 /\ UNCHANGED <<intent, setbacks>>
  /\ ScanStored(s)
  /\ UNCHANGED <<order, evaluated, provider, reports>>

\* Nothing to do or nothing that may be done: no reason, a position that differs,
\* a closed cycle, another scan of the bucket.
ScanEnds(s) ==
  /\ scan[s].step = "observed"
  /\ \/ scan[s].twin
     \/ \A b \in scan[s].cycles :
          cycle[b].status = "CLOSED" \/ scan[s].held # cycle[b].current \/ cycle[b].reason = ""
  /\ scan' = [scan EXCEPT ![s] = Quiet]
  /\ UNCHANGED <<intent, ledger, provider, reports, setbacks>>

-----------------------------------------------------------------------------
ScanStep(s) == ScanLists(s) \/ ScanSnapshot(s) \/ ScanCommits(s) \/ ScanEnds(s)
ApplySome == \E r \in reports : ApplyReport(r)

FillSome == \E i \in Ids : Fill(i)
Lane == \E i \in Ids : Evaluate(i) \/ CreateOrder(i)

Next ==
  \/ ApplySome \/ NextDay \/ FillSome \/ Lane \/ Decide
  \/ \E i \in Ids : Refuse(i) \/ Defer(i) \/ Cancel(i) \/ Expire(i)
  \/ \E s \in Scanners : ScanStep(s)

Spec == Init /\ [][Next]_vars

\* The EXECUTION and EXIT lanes of the worker come round; reports arrive, days
\* pass, and an order that is not given up is executed in the end.
Fairness ==
  /\ WF_vars(ApplySome) /\ WF_vars(NextDay) /\ WF_vars(FillSome) /\ WF_vars(Lane)
  /\ WF_vars(\E s \in Scanners : ScanStep(s))
FairSpec == Spec /\ Fairness

-----------------------------------------------------------------------------
(* Properties.                                                             *)

TypeOK ==
  /\ intent \in [Ids -> [status : IntentStatuses, action : {"BUY", "SELL"},
                         cycle : Ids \union {None}, volume : 0..BuyVolume,
                         reason : Reasons \union {""}]]
  /\ order \in [Ids -> [status : OrderStatuses \union {"NONE"}, filled : 0..BuyVolume, lastAt : Nat]]
  /\ cycle \in [Ids -> [status : {"NONE", "OPEN", "EXIT_PENDING", "CLOSED"},
                        current : 0..BuyVolume, reason : Reasons \union {""}]]
  /\ exec \in [Ids -> 0..BuyVolume] /\ live \union evaluated \subseteq Ids
  /\ held \in Nat /\ today \in Nat
  /\ setbacks \in 0..MaxSetbacks

\* Whatever the reports' order was, once all are applied the open cycle holds what
\* the account holds, and no cycle is closed over shares that are still there.
CyclesMatchAccount ==
  reports = {} =>
    /\ LedgerAgrees
    /\ \A b \in Ids : cycle[b].status = "CLOSED" =>
         order[b].filled = SoldOf(order, b) /\ b \notin live

\* Two monitors, a lane that is slow and orders that end early: a cycle never has
\* two exits that could both sell.
OneExitAtATime ==
  \A b \in Ids :
    Cardinality({i \in SellsOf(b) : intent[i].status = "READY" \/ i \in live}) <= 1

\* A cycle that must be left is left: its exit is repeated after every expiry,
\* refusal and cancellation until nothing is held.
ToBeLeft == {b \in Ids : cycle[b].reason # "" /\ cycle[b].status # "CLOSED"}
ExitsComplete == []<>(ToBeLeft = {})

\* What the code says of a BUY (service.go, "pyramiding is disabled"): none is placed
\* while shares are held.
NeverPyramids ==
  [][\A i \in Ids : IsBuy(i) /\ order[i].status = "NONE" /\ order'[i].status # "NONE" => held = 0]_vars

=============================================================================
