---------------------------- MODULE TradingBook ----------------------------
(***************************************************************************)
(* The account's books.  The provider executes orders and charges fees;    *)
(* the service keeps its own ledger of the executions it is told of, finds *)
(* the fees the provider does not tell, compares the two, and decides on   *)
(* an order only while they agree.  A board is traded automatically once   *)
(* an operator's one-lot BUY and SELL on it are settled with known fees.   *)
(*                                                                         *)
(* An order is decided on and created in two steps.  The evaluation takes  *)
(* a snapshot, compares the ledger with it and sizes the order; a later    *)
(* transaction creates it, and looks again only whether a reconciliation   *)
(* runs and an order is open.  Between them the provider works on the      *)
(* order that is open, reports it, and cash may come in.  The evaluations  *)
(* are those of one process, whose accountActivity lets one run at a time; *)
(* reconciliations may be another's.                                       *)
(*                                                                         *)
(* Money is counted in a unit larger than the tolerance of the code's      *)
(* comparisons (0.02), so they compare for equality.  An order that is     *)
(* open here stands for every open status: its journey to the provider,    *)
(* the claims and the kill switches are those of OrderDispatch, and the    *)
(* runs a reconciliation belongs to those of ReconciliationRuns.  One-lot  *)
(* orders need trading.scheduler.enabled off and the lanes need it on; it  *)
(* may be switched between any two steps here and is not kept.             *)
(***************************************************************************)
EXTENDS OrderPolicy, Functions

CONSTANTS Codes,          \* the codes that are traded
          SameDay,        \* codes whose holdings may be sold on the day they are bought
          Cash0,          \* the cash of the flat snapshot the ledger starts from
          Mark,           \* the last price of every code
          Prices,         \* best prices of the other side of the order book that are accepted
          Fees,           \* what an execution may cost
          Deposit,        \* cash that enters the account from outside
          Keys, Symbols,  \* trading.uat: campaigns of one-lot orders and their codes
          Events,         \* recommendation events
          AutoRatio,      \* the share of the account an agent asks for
          UATRatio,       \* the share a one-lot order asks for
          Cooldown,       \* trading days in which an event is not bought again
          MaxOrders, MaxFills, MaxDay      \* bounds

VARIABLES day,       \* the trading day
          deposited, \* cash from outside that is in the account
          orders,    \* the orders, by id: what the provider did and what the row says
          fills,     \* the provider's executions, in their order in time
          rows,      \* trading_fills: by execution, the fee and its commission_status
          snapshot,  \* what a running reconciliation compares with, or None
          capable,   \* trading_board_capabilities: the evidence of a board
          decision   \* the order an evaluation has decided on, not yet created

vars == <<day, deposited, orders, fills, rows, snapshot, capable, decision>>

None == [upto |-> -1]
NoPlan == <<>>
NoDecision == [volume |-> 0]
Sides == {"BUY", "SELL"}
BoardOf(c) == Parse(c, "", "", "").board
TradedBoards == {BoardOf(c) : c \in Codes}

\* Prices are positive and a key of 0 is none; config.Validate refuses limits that
\* leave the reserve no room (validate.go:253).
ASSUME BookAssumption ==
  /\ Prices \subseteq Nat \ {0} /\ Mark \in Nat \ {0}
  /\ Fees \subseteq Nat /\ {Cash0, Deposit, AutoRatio, UATRatio} \subseteq Nat
  /\ 0 \notin Keys
  /\ \A b \in DOMAIN Units : Units[b].max \in Nat
  /\ {Risk.single, Risk.symbol, Risk.total, Risk.reserve} \subseteq Nat
  /\ Risk.total + Risk.reserve <= Scale

-----------------------------------------------------------------------------
(* The provider's account.                                                 *)

Executed == DOMAIN fills
Fills(o) == {i \in Executed : fills[i].order = o}
Code(i) == orders[fills[i].order].code

\* Of each execution.
Volume == [i \in Executed |-> fills[i].volume]
Signed == [i \in Executed |-> IF orders[fills[i].order].side = "BUY" THEN fills[i].volume ELSE -fills[i].volume]
Amount == [i \in Executed |-> fills[i].volume * orders[fills[i].order].price]
Spend == [i \in Executed |-> Signed[i] * orders[fills[i].order].price]
Fee == [i \in Executed |-> fills[i].fee]

FilledAtProvider(o) == SumFunctionOnSet(Volume, Fills(o))
Cash == Cash0 + deposited - SumFunctionOnSet(Spend, Executed) - SumFunctionOnSet(Fee, Executed)
Held(c) == SumFunctionOnSet(Signed, {i \in Executed : Code(i) = c})
BoughtToday(c) == SumFunctionOnSet(Volume, {i \in Executed : Code(i) = c /\ Signed[i] > 0 /\ fills[i].day = day})
Holding == {c \in Codes : Held(c) > 0}
MarketValue == Mark * SumFunction(Signed)
Nav == Cash + MarketValue
Remaining(o) == orders[o].volume - FilledAtProvider(o)
OpenAtProvider == {o \in DOMAIN orders : orders[o].final = "NO"}

\* What its open orders may still cost, and the shares they may still sell.
Buys == {o \in OpenAtProvider : orders[o].side = "BUY"}
Sells(c) == {o \in OpenAtProvider : orders[o].side = "SELL" /\ orders[o].code = c}
FrozenCash == SumFunctionOnSet([o \in Buys |-> Remaining(o) * orders[o].price], Buys)
FrozenShares(c) == SumFunctionOnSet([o \in Sells(c) |-> Remaining(o)], Sells(c))
AvailableCash == Cash - FrozenCash
Available(c) == Held(c) - FrozenShares(c) - (IF c \in SameDay THEN 0 ELSE BoughtToday(c))

-----------------------------------------------------------------------------
(* The local ledger.                                                       *)

Imported == DOMAIN rows
RowFee == [i \in Imported |-> rows[i].fee]
LedgerCash == Cash0 - SumFunctionOnSet(Spend, Imported) - SumFunctionOnSet(RowFee, Imported)
LedgerHeld(c) == SumFunctionOnSet(Signed, {i \in Imported : Code(i) = c})
LedgerFilled(o) == SumFunctionOnSet(Volume, Imported \intersect Fills(o))

\* Mutant: the cash is not compared.
LedgerAgreesButCash ==
  /\ \A i \in Imported : rows[i].status = "VERIFIED"
  /\ SumFunctionOnSet(RowFee, Imported) = SumFunctionOnSet(Fee, Executed)
  /\ \A c \in Codes : LedgerHeld(c) = Held(c)
  /\ \A o \in DOMAIN orders : orders[o].told = LedgerFilled(o)

\* The comparison with a snapshot of this moment finds no difference.
LedgerAgrees ==
  /\ \A i \in Imported : rows[i].status = "VERIFIED"
  /\ LedgerCash = Cash
  /\ SumFunctionOnSet(RowFee, Imported) = SumFunctionOnSet(Fee, Executed)
  /\ \A c \in Codes : LedgerHeld(c) = Held(c)
  /\ \A o \in DOMAIN orders : orders[o].told = LedgerFilled(o)

LocalOpen == {o \in DOMAIN orders : orders[o].status = "OPEN"}

-----------------------------------------------------------------------------
(* The fees.  The provider's account reports the total of its executions'  *)
(* amounts and fees and those of its last execution.                       *)

Pending == [fee |-> 0, status |-> "PENDING"]
Verified(fee) == [fee |-> fee, status |-> "VERIFIED"]
Unresolved(rs) == {i \in DOMAIN rs : rs[i].status # "VERIFIED"}
NotAvailable(rs) ==
  [i \in DOMAIN rs |-> IF rs[i].status = "VERIFIED" THEN rs[i] ELSE [rs[i] EXCEPT !.status = "UNAVAILABLE"]]

\* Mutant: the executions of the snapshot are taken to be the ledger's.
CoversAlways(rs, upto) == TRUE

\* The ledger and the snapshot speak of the same executions.
Covers(rs, upto) == SumFunctionOnSet(Amount, DOMAIN rs) = SumFunctionOnSet(Amount, 1..upto)

\* The last execution's fee, when the ledger's last one is the provider's.
AttributeLast(rs, upto) ==
  LET last == Max(DOMAIN rs) IN
  IF DOMAIN rs # {} /\ upto > 0 /\ Amount[last] = Amount[upto] /\ rs[last].status # "VERIFIED"
  THEN [rs EXCEPT ![last] = Verified(Fee[upto])] ELSE rs

LastDiffers(rs, upto) ==
  LET last == Max(DOMAIN rs) IN
  /\ DOMAIN rs # {} /\ upto > 0 /\ Amount[last] = Amount[upto]
  /\ rs[last].status = "VERIFIED" /\ rs[last].fee # Fee[upto]

\* What the total leaves: all of it is one execution's, or nothing is left for any.
AttributeResidual(rs, upto) ==
  LET left == SumFunctionOnSet(Fee, 1..upto)
                - SumFunction([i \in DOMAIN rs \ Unresolved(rs) |-> rs[i].fee])
      U == Unresolved(rs)
  IN  IF left < 0 THEN rs
      ELSE IF Cardinality(U) = 1 \/ left = 0 THEN [i \in DOMAIN rs |-> IF i \in U THEN Verified(left) ELSE rs[i]]
      ELSE NotAvailable(rs)

ReconcileCommissions(rs, upto, reported) ==
  IF ~reported \/ ~Covers(rs, upto) THEN NotAvailable(rs)
  ELSE IF LastDiffers(rs, upto) THEN rs
  ELSE AttributeResidual(AttributeLast(rs, upto), upto)

-----------------------------------------------------------------------------
(* Deciding on an order, and creating it.                                  *)

\* An order of the same event, or of the same code when there is no event.
ExistsRecentForIntent(event, c) ==
  \E o \in DOMAIN orders :
    /\ orders[o].day >= day - Cooldown
    /\ IF event # 0 THEN orders[o].event = event ELSE orders[o].code = c

Today == {o \in DOMAIN orders : orders[o].day = day}
Turnover == SumFunction([o \in Today |-> orders[o].told * orders[o].price])

\* The provider values a holding by what it cost; the model by its last BUY.
BuyPrice(c) == orders[Max({o \in DOMAIN orders : orders[o].code = c /\ orders[o].side = "BUY"})].price
FloatingLoss == Max({0, SumFunction([c \in Holding |-> Held(c) * (BuyPrice(c) - Mark)])})

Account(event, c, side) ==
  [killed |-> FALSE, simulation |-> TRUE, newlyListed |-> FALSE, ready |-> TRUE, open |-> TRUE,
   available |-> Available(c), held |-> Held(c), positions |-> Cardinality(Holding), last |-> Mark,
   nav |-> Nav, cash |-> AvailableCash,
   totalRatio |-> SafeRatio(MarketValue, Nav), symbolRatio |-> SafeRatio(Mark * Held(c), Nav),
   orders |-> Cardinality(Today), turnoverRatio |-> SafeRatio(Turnover, Nav),
   lossRatio |-> SafeRatio(FloatingLoss, Nav),
   duplicate |-> side = "BUY" /\ ExistsRecentForIntent(event, c)]

Verdict(side, c, event, key, price, ratio, proposed) ==
  LET s == Parse(c, "", "", "") IN
  Evaluate([side |-> side, price |-> price, ratio |-> ratio, volume |-> proposed, uat |-> key # 0,
            asset |-> s.asset, market |-> s.market, board |-> s.board], Account(event, c, side))

\* What defers an intent: an evaluation or a reconciliation that runs, a difference,
\* a holding.  The snapshot and the ledger are read one after the other; an execution
\* reported in between is a difference, one that is not is in neither.
MayEvaluate(side, c) ==
  /\ decision = NoDecision
  /\ snapshot = None
  /\ LedgerAgrees
  /\ side = "BUY" => Held(c) = 0

\* The order that is to be created, with what its snapshot said.
Decide(side, c, event, key, price, volume) ==
  decision' = [side |-> side, code |-> c, event |-> event, uat |-> key, price |-> price, volume |-> volume,
               upto |-> Len(fills), charged |-> SumFunctionOnSet(Fee, Executed), nav |-> Nav]

\* The execution lane takes a ready intent of the agent or of the exit scan.
EvaluateIntent(side, c, event, price) ==
  LET verdict == Verdict(side, c, event, 0, price, AutoRatio, 0) IN
  /\ Len(orders) < MaxOrders
  /\ MayEvaluate(side, c)
  /\ capable[BoardOf(c)] # "NO"
  /\ verdict.approved
  /\ Decide(side, c, event, 0, price, verdict.volume)
  /\ UNCHANGED <<day, deposited, orders, fills, rows, snapshot, capable>>

\* An operator's order of one trading unit, once for an action, a campaign and a
\* code, while no order is open: nothing trades between these checks and the
\* evaluation's.  (An attempt that is refused leaves the books alone.)
ExecuteOneLotUAT(side, c, key, price) ==
  LET unit == Units[BoardOf(c)].minBuy
      verdict == Verdict(side, c, 0, key, price, UATRatio, unit)
  IN  /\ c \in Symbols /\ Len(orders) < MaxOrders
      /\ ~\E o \in DOMAIN orders : <<orders[o].side, orders[o].uat, orders[o].code>> = <<side, key, c>>
      /\ LocalOpen = {}
      /\ IF side = "BUY" THEN Held(c) = 0 ELSE Held(c) = unit /\ Available(c) >= unit
      /\ MayEvaluate(side, c)
      /\ verdict.approved
      /\ Decide(side, c, 0, key, price, verdict.volume)
      /\ UNCHANGED <<day, deposited, orders, fills, rows, snapshot, capable>>

\* What the transaction looks at again.
MayCreate == snapshot = None /\ LocalOpen = {}

\* persistDecision creates the order that was decided on,
CreateOrder ==
  /\ decision # NoDecision /\ MayCreate
  /\ orders' = Append(orders, [side |-> decision.side, code |-> decision.code, event |-> decision.event,
                               uat |-> decision.uat, price |-> decision.price, volume |-> decision.volume,
                               day |-> day, final |-> "NO", told |-> 0, status |-> "OPEN"])
  /\ decision' = NoDecision
  /\ UNCHANGED <<day, deposited, fills, rows, snapshot, capable>>

\* or defers it: also for a kill switch, a changed configuration, a lost claim.
DeferDecision ==
  /\ decision # NoDecision
  /\ decision' = NoDecision
  /\ UNCHANGED <<day, deposited, orders, fills, rows, snapshot, capable>>

-----------------------------------------------------------------------------
(* The provider.                                                           *)

\* A unit of the order, or all that is left of it.
Execute(o) ==
  \E v \in {Remaining(o), 1}, fee \in Fees :
    /\ orders[o].final = "NO" /\ Len(fills) < MaxFills
    /\ fills' = Append(fills, [order |-> o, volume |-> v, fee |-> fee, day |-> day])
    /\ orders' = IF v = Remaining(o) THEN [orders EXCEPT ![o].final = "FILLED"] ELSE orders
    /\ UNCHANGED <<day, deposited, rows, snapshot, capable, decision>>

CancelAtProvider(o) ==
  /\ orders[o].final = "NO"
  /\ orders' = [orders EXCEPT ![o].final = "CANCELED"]
  /\ UNCHANGED <<day, deposited, fills, rows, snapshot, capable, decision>>

\* Bounded to one, on the first day.
Deposits ==
  /\ deposited = 0 /\ Deposit > 0 /\ day = 1
  /\ deposited' = Deposit
  /\ UNCHANGED <<day, orders, fills, rows, snapshot, capable, decision>>

\* An order is good for its day, and an evaluation ends within it.
NextDay ==
  /\ day < MaxDay /\ OpenAtProvider = {} /\ decision = NoDecision
  /\ day' = day + 1
  /\ UNCHANGED <<deposited, orders, fills, rows, snapshot, capable, decision>>

-----------------------------------------------------------------------------
(* What the service is told.                                               *)

\* A row of an execution, whose report may name the fee; a later report of the same
\* execution may still name it.
Reported(rs, i, fee) ==
  [j \in DOMAIN rs \union {i} |-> IF j = i /\ fee > 0 THEN Verified(fee)
                                 ELSE IF j \in DOMAIN rs THEN rs[j] ELSE Pending]

\* An order as its rows leave it, and as the provider's last word told leaves it.
Merged(o, rs, final) ==
  LET order == orders[o]
      sum == SumFunctionOnSet(Volume, Fills(o) \intersect DOMAIN rs)
      told == Max({order.told, sum, IF final THEN FilledAtProvider(o) ELSE 0})
  IN  [order EXCEPT !.told = told,
                    !.status = IF told = order.volume THEN "FILLED"
                               ELSE IF @ = "OPEN" /\ final THEN order.final ELSE @]

\* The callback of an execution, or of its duplicate.
ExecutionReport(i) ==
  \E fee \in {0, Fee[i]} :
    /\ i \in Imported => rows[i].status # "VERIFIED" /\ fee > 0
    /\ rows' = Reported(rows, i, fee)
    /\ orders' = [orders EXCEPT ![fills[i].order] = Merged(fills[i].order, rows', FALSE)]
    /\ UNCHANGED <<day, deposited, fills, snapshot, capable, decision>>

\* The callback of an order's final status; reports of its executions may follow it.
OrderStatus(o) ==
  /\ orders[o].final # "NO"
  /\ orders[o] # Merged(o, rows, TRUE)
  /\ orders' = [orders EXCEPT ![o] = Merged(o, rows, TRUE)]
  /\ UNCHANGED <<day, deposited, fills, rows, snapshot, capable, decision>>

-----------------------------------------------------------------------------
(* Reconciliation of the books.                                            *)

TakeSnapshot ==
  /\ snapshot = None
  /\ snapshot' = [upto |-> Len(fills), final |-> {o \in DOMAIN orders : orders[o].final # "NO"},
                  plan |-> NoPlan]
  /\ UNCHANGED <<day, deposited, orders, fills, rows, capable, decision>>

\* The snapshot's orders and executions are imported, the rows are read and the
\* fees looked for, if the snapshot reports them; callbacks may have added later
\* executions meanwhile.
Recover ==
  LET recovered == [i \in Imported \union 1..snapshot.upto |-> IF i \in Imported THEN rows[i] ELSE Pending]
  IN  /\ snapshot # None /\ snapshot.plan = NoPlan
      /\ rows' = recovered
      /\ orders' = [o \in DOMAIN orders |-> Merged(o, recovered, o \in snapshot.final)]
      /\ \E reported \in BOOLEAN :
           LET planned == ReconcileCommissions(recovered, snapshot.upto, reported)
               updates == {i \in Unresolved(recovered) : planned[i].status # "PENDING"}
           IN  snapshot' = IF updates = {} THEN None
                           ELSE [snapshot EXCEPT !.plan = Restrict(planned, updates)]
      /\ UNCHANGED <<day, deposited, fills, capable, decision>>

\* The plan is written over whatever the rows have become; a fee that was not found
\* leaves the row's.
ReconcileWrites ==
  /\ snapshot # None /\ snapshot.plan # NoPlan
  /\ rows' = [i \in Imported |->
                IF i \notin DOMAIN snapshot.plan THEN rows[i]
                ELSE IF snapshot.plan[i].status = "VERIFIED" THEN snapshot.plan[i]
                ELSE [rows[i] EXCEPT !.status = snapshot.plan[i].status]]
  /\ snapshot' = None
  /\ UNCHANGED <<day, deposited, orders, fills, capable, decision>>

-----------------------------------------------------------------------------
(* The boards.                                                             *)

CompleteVerifiedFills(o) ==
  LET imported == Imported \intersect Fills(o) IN
  /\ imported # {}
  /\ \A i \in imported : rows[i].status = "VERIFIED"
  /\ LedgerFilled(o) = orders[o].told

\* Mutant: that the SELL was placed is enough.
SettledPairOnceSold(buy, sell) ==
  /\ buy < sell /\ orders[buy].side = "BUY" /\ orders[sell].side = "SELL"
  /\ orders[buy].code = orders[sell].code
  /\ orders[buy].uat # 0 /\ orders[sell].uat = orders[buy].uat
  /\ orders[buy].status = "FILLED" /\ orders[buy].told = Units[BoardOf(orders[buy].code)].minBuy
  /\ CompleteVerifiedFills(buy)

\* A one-lot BUY and the SELL of the same campaign that closed it, on a later day
\* unless the code may be sold at once.
SettledPair(buy, sell) ==
  LET first == Imported \intersect Fills(sell)
      last == Imported \intersect Fills(buy)
  IN  /\ buy < sell /\ orders[buy].side = "BUY" /\ orders[sell].side = "SELL"
      /\ orders[buy].code = orders[sell].code
      /\ orders[buy].uat # 0 /\ orders[sell].uat = orders[buy].uat
      /\ {orders[buy].status, orders[sell].status} = {"FILLED"}
      /\ orders[buy].told = Units[BoardOf(orders[buy].code)].minBuy /\ orders[sell].told = orders[buy].told
      /\ CompleteVerifiedFills(buy) /\ CompleteVerifiedFills(sell)
      /\ Min(first) > Max(last)
      /\ orders[buy].code \notin SameDay => fills[Min(first)].day > fills[Max(last)].day

\* The ETF board is proven in both markets.
VerifyBoardAcceptance(b) ==
  LET proven == {Parse(orders[p[1]].code, "", "", "").market :
                   p \in {q \in (DOMAIN orders) \X (DOMAIN orders) :
                            SettledPair(q[1], q[2]) /\ BoardOf(orders[q[1]].code) = b}}
  IN  /\ capable[b] = "NO"
      /\ IF b = "ETF" THEN proven = ChinaMarkets ELSE proven # {}
      /\ capable' = [capable EXCEPT ![b] = "UAT"]
      /\ UNCHANGED <<day, deposited, orders, fills, rows, snapshot, decision>>

-----------------------------------------------------------------------------
\* A board may have been accepted before; the account starts flat.
Init ==
  /\ day = 1 /\ deposited = 0
  /\ orders = <<>> /\ fills = <<>> /\ rows = <<>>
  /\ snapshot = None /\ decision = NoDecision
  /\ capable \in {[b \in TradedBoards |-> e] : e \in {"NO", "EARLIER"}}

Trade ==
  \/ \E c \in Codes, price \in Prices :
       \/ \E event \in Events : EvaluateIntent("BUY", c, event, price)
       \/ EvaluateIntent("SELL", c, 0, price)
       \/ \E side \in Sides, key \in Keys : ExecuteOneLotUAT(side, c, key, price)
  \/ CreateOrder \/ DeferDecision

Provide ==
  \/ \E o \in DOMAIN orders : Execute(o) \/ CancelAtProvider(o)
  \/ Deposits
  \/ NextDay

Told ==
  \/ \E i \in DOMAIN fills : ExecutionReport(i)
  \/ \E o \in DOMAIN orders : OrderStatus(o)

Next ==
  \/ Trade \/ Provide \/ Told
  \/ TakeSnapshot \/ Recover \/ ReconcileWrites
  \/ \E b \in TradedBoards : VerifyBoardAcceptance(b)

Spec == Init /\ [][Next]_vars

-----------------------------------------------------------------------------
(* Properties.                                                             *)

\* A fee the ledger calls verified is the fee the provider charged, whichever
\* way it was found (commission.go).
FeesAreTrue == \A i \in Imported : rows[i].status = "VERIFIED" => RowFee[i] = Fee[i]

\* The provider settled a one-lot BUY and SELL of one code of the board, the SELL
\* over night unless the code may be sold at once, and their fees are known.
ProvenBy(b, buy, sell) ==
  /\ BoardOf(orders[buy].code) = b /\ orders[sell].code = orders[buy].code
  /\ orders[buy].uat # 0 /\ orders[sell].uat = orders[buy].uat
  /\ orders[buy].side = "BUY" /\ orders[sell].side = "SELL"
  /\ FilledAtProvider(buy) = Units[b].minBuy /\ FilledAtProvider(sell) = Units[b].minBuy
  /\ \A i \in Fills(buy), j \in Fills(sell) :
       i < j /\ (orders[buy].code \notin SameDay => fills[i].day < fills[j].day)
  /\ \A i \in Fills(buy) \union Fills(sell) : i \in Imported /\ RowFee[i] = Fee[i]

\* Outside one-lot tests a board is traded only if it was accepted earlier or was
\* proven by orders before (board_acceptance.go).
BoardsProvenFirst ==
  \A o \in DOMAIN orders : orders[o].uat = 0 =>
    LET b == BoardOf(orders[o].code) IN
    capable[b] = "EARLIER" \/ \E buy, sell \in 1..(o - 1) : ProvenBy(b, buy, sell)

\* What was decided on stays affordable.  Whatever the open order executes, ends or
\* is charged until the new one is created, the cash that is available, with the fees
\* charged since given back, pays for it and leaves the reserved share of the value
\* it was sized on (trading_sizing.go, engine.go).
DecisionsWithinReserve ==
  decision # NoDecision /\ decision.side = "BUY" =>
    Scale * (AvailableCash + SumFunctionOnSet(Fee, Executed) - decision.charged - decision.volume * decision.price)
      >= Risk.reserve * decision.nav

\* An order is decided on only while the ledger is the provider's account: every
\* execution is known with its fee and no money came from elsewhere.  Until it is
\* created nothing but the last order has executed, and then every order has ended
\* and is known to have executed what it did (ledger_reconciliation.go, service.go).
OrdersOnTrueBooks ==
  [][/\ decision' \notin {decision, NoDecision} =>
          /\ deposited = 0 /\ Imported = Executed
          /\ \A i \in Imported : RowFee[i] = Fee[i]
     /\ Len(orders') > Len(orders) =>
          /\ \A i \in Executed : i > decision.upto => fills[i].order = Len(orders)
          /\ OpenAtProvider = {}
          /\ \A o \in DOMAIN orders : orders[o].told = FilledAtProvider(o)]_vars
=============================================================================
