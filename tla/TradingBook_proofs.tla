------------------------ MODULE TradingBook_proofs ------------------------
(***************************************************************************)
(* The account's books, for any prices, fees, codes, events, campaigns and *)
(* limits: a verified fee is the provider's, a board is traded after it    *)
(* was proven, an order is decided on true books and created while nothing *)
(* is at work, and what was decided on stays affordable.                   *)
(*                                                                         *)
(* Fees follow from sums.  Amounts are positive, so imported executions    *)
(* whose amounts make up the snapshot's total are exactly the snapshot's   *)
(* executions; what the total of the fees leaves is then the fees of the   *)
(* unresolved ones: all of it is the only one's, and if nothing is left it *)
(* is nothing for each.  Orders follow from what rows may say: an order    *)
(* that is not open has ended at the provider with the volume it is told   *)
(* (ToldIsTrue), so imported executions that make up the told volumes are  *)
(* all there are.  A proven pair has ended, so no later step undoes it     *)
(* (SettledStays).                                                         *)
(*                                                                         *)
(* Only the last order may be open, so that what is missing in the ledger  *)
(* while an order is decided on is of one code and one side, and sums that *)
(* agree leave nothing missing (AgreedBooks).  Until the order is created  *)
(* the open one spends what was frozen for it, or gives it back: the cash  *)
(* that is not committed never falls (UncommittedStays).                   *)
(***************************************************************************)
EXTENDS TradingBook, FiniteSetTheorems, SequenceTheorems, TLAPS

-----------------------------------------------------------------------------
(* The inductive invariant.                                                *)

OrderRow == [side: Sides, code: Codes, event: Events \union {0}, uat: Keys \union {0}, price: Prices,
             volume: Nat \ {0}, day: Nat, final: {"NO", "FILLED", "CANCELED"}, told: Nat,
             status: {"OPEN", "FILLED", "CANCELED"}]
FillRow == [order: Nat, volume: Nat \ {0}, fee: Fees, day: Nat]
FeeRow == [fee: Nat, status: {"PENDING", "VERIFIED", "UNAVAILABLE"}]

RowsTyped ==
  /\ day \in Nat /\ deposited \in Nat
  /\ orders \in Seq(OrderRow)
  /\ fills \in Seq(FillRow) /\ \A i \in Executed : fills[i].order \in DOMAIN orders
  /\ Imported \subseteq Executed /\ \A i \in Imported : rows[i] \in FeeRow
  /\ capable \in [TradedBoards -> {"NO", "EARLIER", "UAT"}]

\* The provider executes no more than was ordered, and ends an order that is filled.
NeverOverfilled ==
  \A o \in DOMAIN orders :
    /\ FilledAtProvider(o) <= orders[o].volume
    /\ orders[o].final = "NO" => FilledAtProvider(o) < orders[o].volume

\* What a row says was filled was, and of an order that is not open it is all.
ToldIsTrue ==
  \A o \in DOMAIN orders :
    /\ orders[o].told <= FilledAtProvider(o)
    /\ orders[o].status # "OPEN" => orders[o].final # "NO" /\ orders[o].told = FilledAtProvider(o)

\* A snapshot is of executions and ends that have happened, and the fees that a
\* reconciliation is about to write are of imported executions, and true.
SnapshotIsPast ==
  snapshot # None =>
    /\ DOMAIN snapshot = {"upto", "final", "plan"}
    /\ snapshot.upto \in 0..Len(fills)
    /\ \A o \in snapshot.final : o \in DOMAIN orders /\ orders[o].final # "NO"
    /\ \A i \in DOMAIN snapshot.plan :
         /\ i \in Imported /\ snapshot.plan[i] \in FeeRow
         /\ snapshot.plan[i].status = "VERIFIED" => snapshot.plan[i].fee = Fee[i]

\* Executions are in the order of their days.
DaysInOrder ==
  /\ \A i \in Executed : fills[i].day <= day
  /\ \A i, j \in Executed : i <= j => fills[i].day <= fills[j].day

\* The orders that prove a board have ended.
Settled(b, buy, sell) ==
  ProvenBy(b, buy, sell) /\ orders[buy].final # "NO" /\ orders[sell].final # "NO"

BoardsSettled ==
  /\ \A b \in TradedBoards : capable[b] = "UAT" => \E buy, sell \in DOMAIN orders : Settled(b, buy, sell)
  /\ \A o \in DOMAIN orders : orders[o].uat = 0 =>
       LET b == BoardOf(orders[o].code) IN
       capable[b] = "EARLIER" \/ \E buy, sell \in 1..(o - 1) : Settled(b, buy, sell)

BookInv ==
  RowsTyped /\ NeverOverfilled /\ ToldIsTrue /\ SnapshotIsPast /\ FeesAreTrue /\ DaysInOrder /\ BoardsSettled

\* An order that was decided on was approved, on a board that was accepted, and what
\* has executed since is of the order that was open.
DecisionStands ==
  decision # NoDecision =>
    /\ decision.side \in Sides /\ decision.code \in Codes /\ decision.event \in Events \union {0}
    /\ decision.uat \in Keys \union {0} /\ decision.price \in Prices /\ decision.volume \in Nat \ {0}
    /\ decision.charged \in Nat /\ decision.nav \in Int /\ decision.upto \in Nat
    /\ decision.uat = 0 => capable[BoardOf(decision.code)] # "NO"
    /\ \A i \in Executed : i > decision.upto => fills[i].order = Len(orders)

LastOpens == \A o \in LocalOpen : o = Len(orders)

AccountInv == BookInv /\ DecisionStands /\ LastOpens

-----------------------------------------------------------------------------
(***************************************************************************)
(* Sums.  The sum of integers over a finite set is the number of the units *)
(* gained less that of the units lost, so that the theorems on finite sets *)
(* speak of it.                                                            *)
(***************************************************************************)
Sum(f, S) == SumFunctionOnSet(f, S)
UnitsOf(f, S) == {p \in S \X Nat : 1 <= p[2] /\ p[2] <= f[p[1]]}
Own(x, n) == {p \in {x} \X Nat : 1 <= p[2] /\ p[2] <= n}
Minus(f, S) == [i \in S |-> -f[i]]
Balance(f, S) == Cardinality(UnitsOf(f, S)) - Cardinality(UnitsOf(Minus(f, S), S))
Integral(f, S) == IsFiniteSet(S) /\ \A i \in S : f[i] \in Int

\* Of some subsets of a finite set, one has no element that it could do without.
LEMMA SmallestSet ==
  ASSUME NEW S, IsFiniteSet(S), NEW bad \in SUBSET (SUBSET S), bad # {}
  PROVE  \E s \in bad : \A x \in s : s \ {x} \notin bad
  <1>1. IsWellFoundedOn(StrictSubsetOrdering(S), SUBSET S)
    BY FS_StrictSubsetOrderingWellFounded, FS_FiniteSubsetsOfFinite
  <1>2. PICK s \in bad : \A t \in bad : ~(<<t, s>> \in StrictSubsetOrdering(S))
    BY <1>1, WFMin
  <1>3. ASSUME NEW x \in s, s \ {x} \in bad
        PROVE  FALSE
    <2>1. <<s \ {x}, s>> \in StrictSubsetOrdering(S)
      BY DEF StrictSubsetOrdering
    <2> QED  BY <1>2, <1>3, <2>1
  <1> QED  BY <1>3

\* The units of an element are as many as its value says.
LEMMA OwnUnits ==
  ASSUME NEW x, NEW n \in Int
  PROVE  IsFiniteSet(Own(x, n)) /\ Cardinality(Own(x, n)) = IF n > 0 THEN n ELSE 0
  <1> DEFINE range == 1..n
  <1>1. Own(x, n) = {x} \X range
    <2>1. \A k \in Nat : 1 <= k /\ k <= n <=> k \in range
      OBVIOUS
    <2>2. range \subseteq Nat
      OBVIOUS
    <2> HIDE DEF range
    <2> QED  BY <2>1, <2>2 DEF Own
  <1>2. IsFiniteSet(range) /\ Cardinality(range) = IF n > 0 THEN n ELSE 0
    BY FS_Interval
  <1>3. IsFiniteSet({x}) /\ Cardinality({x}) = 1
    BY FS_Singleton
  <1> HIDE DEF range
  <1>4. IsFiniteSet({x} \X range) /\ Cardinality({x} \X range) = 1 * Cardinality(range)
    BY <1>2, <1>3, FS_Product
  <1>5. Cardinality(range) \in Nat
    BY <1>2, FS_CardinalityType
  <1> QED  BY <1>1, <1>2, <1>4, <1>5

\* The units of a set are those of an element and those of the others.
LEMMA UnitsSplit ==
  ASSUME NEW f, NEW S, NEW x \in S, f[x] \in Int, IsFiniteSet(UnitsOf(f, S \ {x}))
  PROVE  /\ IsFiniteSet(UnitsOf(f, S))
         /\ Cardinality(UnitsOf(f, S)) =
              (IF f[x] > 0 THEN f[x] ELSE 0) + Cardinality(UnitsOf(f, S \ {x}))
  <1> DEFINE own == Own(x, f[x])
             rest == UnitsOf(f, S \ {x})
  <1>1. UnitsOf(f, S) = own \union rest
    BY DEF UnitsOf, Own
  <1>2. own \intersect rest = {}
    BY DEF UnitsOf, Own
  <1>3. IsFiniteSet(own) /\ Cardinality(own) = IF f[x] > 0 THEN f[x] ELSE 0
    BY OwnUnits
  <1> HIDE DEF own, rest
  <1>4. IsFiniteSet(rest) /\ Cardinality(rest) \in Nat
    BY FS_CardinalityType DEF rest
  <1>5. IsFiniteSet(own \union rest)
        /\ Cardinality(own \union rest)
             = Cardinality(own) + Cardinality(rest) - Cardinality(own \intersect rest)
    BY <1>3, <1>4, FS_Union
  <1>6. Cardinality(own \intersect rest) = 0
    BY <1>2, FS_EmptySet
  <1>7. Cardinality(own \union rest) = Cardinality(own) + Cardinality(rest)
    BY <1>3, <1>4, <1>5, <1>6
  <1> QED  BY <1>1, <1>3, <1>5, <1>7 DEF rest

LEMMA UnitsFinite ==
  ASSUME NEW f, NEW S, Integral(f, S)
  PROVE  IsFiniteSet(UnitsOf(f, S))
  <1> DEFINE bad == {s \in SUBSET S : ~IsFiniteSet(UnitsOf(f, s))}
  <1>1. CASE bad = {}
    BY <1>1
  <1>2. CASE bad # {}
    <2>1. PICK s \in bad : \A x \in s : s \ {x} \notin bad
      BY <1>2, SmallestSet DEF Integral
    <2>2. CASE s = {}
      <3>1. UnitsOf(f, s) = {}
        BY <2>2 DEF UnitsOf
      <3> QED  BY <2>1, <3>1, FS_EmptySet
    <2>3. ASSUME NEW x \in s
          PROVE  FALSE
      <3>1. IsFiniteSet(UnitsOf(f, s \ {x}))
        BY <2>1, <2>3
      <3>2. IsFiniteSet(UnitsOf(f, s))
        BY <2>3, <3>1, UnitsSplit DEF Integral
      <3> QED  BY <2>1, <3>2
    <2> QED  BY <2>2, <2>3
  <1> QED  BY <1>1, <1>2

LEMMA BalanceSplit ==
  ASSUME NEW f, NEW S, Integral(f, S), NEW x \in S
  PROVE  /\ Integral(f, S \ {x}) /\ Balance(f, S \ {x}) \in Int
         /\ Balance(f, S) = f[x] + Balance(f, S \ {x})
  <1> DEFINE T == S \ {x}
             g == Minus(f, S)
  <1>1. Integral(f, T)
    BY FS_RemoveElement DEF Integral
  <1>2. Integral(g, S) /\ Integral(g, T)
    BY <1>1 DEF Integral, Minus
  <1>3. UnitsOf(g, T) = UnitsOf(Minus(f, T), T)
    BY DEF UnitsOf, Minus
  <1>4. IsFiniteSet(UnitsOf(f, T)) /\ IsFiniteSet(UnitsOf(g, T))
    BY <1>1, <1>2, UnitsFinite
  <1>5. g[x] = -f[x] /\ f[x] \in Int
    BY DEF Minus, Integral
  <1>6. Cardinality(UnitsOf(f, T)) \in Nat /\ Cardinality(UnitsOf(g, T)) \in Nat
    BY <1>4, FS_CardinalityType
  <1> HIDE DEF g
  <1>7. Cardinality(UnitsOf(f, S)) = (IF f[x] > 0 THEN f[x] ELSE 0) + Cardinality(UnitsOf(f, T))
    BY <1>4, <1>5, UnitsSplit
  <1>8. Cardinality(UnitsOf(g, S)) = (IF g[x] > 0 THEN g[x] ELSE 0) + Cardinality(UnitsOf(g, T))
    BY <1>2, <1>4, <1>5, UnitsSplit DEF Integral
  <1>9. Balance(f, S) = Cardinality(UnitsOf(f, S)) - Cardinality(UnitsOf(g, S))
        /\ Balance(f, T) = Cardinality(UnitsOf(f, T)) - Cardinality(UnitsOf(g, T))
    BY <1>3 DEF Balance, g
  <1> HIDE DEF T
  <1>10. Balance(f, T) \in Int /\ Balance(f, S) = f[x] + Balance(f, T)
    BY <1>5, <1>6, <1>7, <1>8, <1>9
  <1> QED  BY <1>1, <1>10 DEF T

LEMMA NoBalance == \A f : Balance(f, {}) = 0
  <1> TAKE f
  <1>1. UnitsOf(f, {}) = {} /\ UnitsOf(Minus(f, {}), {}) = {}
    BY DEF UnitsOf
  <1> QED  BY <1>1, FS_EmptySet DEF Balance

\* On the smallest subset on which the two differed, the fold would take one step
\* to a smaller one.
LEMMA SumIsBalance ==
  ASSUME NEW f, NEW S, Integral(f, S)
  PROVE  Sum(f, S) = Balance(f, S)
  <1> DEFINE body(g) == [s \in SUBSET S |->
                           IF s = {} THEN 0
                           ELSE f[CHOOSE x \in s : TRUE] + g[s \ {CHOOSE x \in s : TRUE}]]
             iter == CHOOSE g : g = body(g)
             balance == [s \in SUBSET S |-> Balance(f, s)]
  <1>1. Sum(f, S) = iter[S]
    BY DEF Sum, SumFunctionOnSet, FoldFunctionOnSet, MapThenFoldSet
  <1>2. ASSUME NEW s \in SUBSET S
        PROVE  balance[s] = IF s = {} THEN 0
                            ELSE f[CHOOSE x \in s : TRUE] + balance[s \ {CHOOSE x \in s : TRUE}]
    <2>1. CASE s = {}
      BY <2>1, NoBalance
    <2>2. CASE s # {}
      <3> DEFINE x == CHOOSE y \in s : TRUE
      <3>1. x \in s
        BY <2>2
      <3> HIDE DEF x
      <3>2. Integral(f, s)
        BY FS_Subset DEF Integral
      <3>3. Balance(f, s) = f[x] + Balance(f, s \ {x})
        BY <3>1, <3>2, BalanceSplit
      <3>4. balance[s] = f[x] + balance[s \ {x}]
        BY <3>3
      <3> QED  BY <2>2, <3>4 DEF x
    <2> QED  BY <2>1, <2>2
  <1>3. balance = body(balance)
    BY <1>2
  <1>4. iter = body(iter)
    <2> HIDE DEF body
    <2> QED BY <1>3
  <1>5. \A s \in SUBSET S : iter[s] = IF s = {} THEN 0
                          ELSE f[CHOOSE x \in s : TRUE] + iter[s \ {CHOOSE x \in s : TRUE}]
    <2> DEFINE it == iter
    <2>1. it = body(it)
      BY <1>4
    <2> HIDE DEF it, iter
    <2> QED BY <2>1 DEF it
  <1> HIDE DEF iter, balance, body
  <1> DEFINE bad == {s \in SUBSET S : iter[s] # balance[s]}
  <1>6. CASE bad = {}
    BY <1>1, <1>6 DEF balance
  <1>7. CASE bad # {}
    <2>1. PICK s \in bad : \A x \in s : s \ {x} \notin bad
      BY <1>7, SmallestSet DEF Integral
    <2> DEFINE x == CHOOSE y \in s : TRUE
    <2>2. s # {}
      BY <1>2, <1>5
    <2>3. x \in s
      BY <2>2
    <2>4. iter[s] = f[x] + iter[s \ {x}]
      BY <1>5, <2>2
    <2>5. balance[s] = f[x] + balance[s \ {x}]
      BY <1>2, <2>2
    <2> HIDE DEF x
    <2>6. s \ {x} \notin bad
      BY <2>1, <2>3
    <2> QED  BY <2>1, <2>4, <2>5, <2>6
  <1> QED  BY <1>6, <1>7

\* What every sum of integers is.
LEMMA SumInt ==
  ASSUME NEW f, NEW S, Integral(f, S)
  PROVE  Sum(f, S) \in Int
  <1>1. IsFiniteSet(UnitsOf(f, S))
    BY UnitsFinite
  <1>2. Integral(Minus(f, S), S)
    BY DEF Integral, Minus
  <1>3. IsFiniteSet(UnitsOf(Minus(f, S), S))
    BY <1>2, UnitsFinite
  <1> QED  BY <1>1, <1>3, SumIsBalance, FS_CardinalityType DEF Balance

LEMMA SumOfNone == \A f : Sum(f, {}) = 0
  <1> TAKE f
  <1>1. Integral(f, {})
    BY FS_EmptySet DEF Integral
  <1> QED  BY <1>1, SumIsBalance, NoBalance

LEMMA SumWithout ==
  ASSUME NEW f, NEW S, Integral(f, S), NEW x \in S
  PROVE  Integral(f, S \ {x}) /\ Sum(f, S) = f[x] + Sum(f, S \ {x})
  BY BalanceSplit, SumIsBalance

LEMMA SumOfOne ==
  ASSUME NEW f, NEW x, f[x] \in Int
  PROVE  Sum(f, {x}) = f[x]
  <1>1. Integral(f, {x})
    BY FS_Singleton DEF Integral
  <1>2. {x} \ {x} = {}
    OBVIOUS
  <1> QED  BY <1>1, <1>2, SumWithout, SumOfNone

\* The sum depends on the values in the set alone.
LEMMA SumSame ==
  ASSUME NEW f, NEW g, NEW S, Integral(f, S), \A i \in S : f[i] = g[i]
  PROVE  Integral(g, S) /\ Sum(f, S) = Sum(g, S)
  <1>1. UnitsOf(f, S) = UnitsOf(g, S) /\ UnitsOf(Minus(f, S), S) = UnitsOf(Minus(g, S), S)
    BY DEF UnitsOf, Minus
  <1>2. Integral(g, S)
    BY DEF Integral
  <1> QED  BY <1>1, <1>2, SumIsBalance DEF Balance

\* A sum over a set is that over a part and that over the rest.
LEMMA SumSplit ==
  ASSUME NEW f, NEW S, Integral(f, S), NEW T \in SUBSET S
  PROVE  /\ Integral(f, T) /\ Integral(f, S \ T)
         /\ Sum(f, S) = Sum(f, T) + Sum(f, S \ T)
  <1> DEFINE bad == {s \in SUBSET T : Sum(f, (S \ T) \union s) # Sum(f, s) + Sum(f, S \ T)}
  <1>1. \A s \in SUBSET S : Integral(f, s)
    BY FS_Subset DEF Integral
  <1>2. CASE bad = {}
    <2>1. (S \ T) \union T = S
      OBVIOUS
    <2> QED  BY <1>1, <1>2, <2>1
  <1>3. CASE bad # {}
    <2>1. PICK s \in bad : \A x \in s : s \ {x} \notin bad
      BY <1>1, <1>3, SmallestSet DEF Integral
    <2>2. Sum(f, S \ T) \in Int
      BY <1>1, SumInt
    <2>3. CASE s = {}
      <3>1. (S \ T) \union s = S \ T
        BY <2>3
      <3> QED  BY <2>1, <2>2, <2>3, <3>1, SumOfNone
    <2>4. ASSUME NEW x \in s
          PROVE  FALSE
      <3> DEFINE all == (S \ T) \union s
      <3>1. all \in SUBSET S /\ s \in SUBSET S /\ x \in all
        OBVIOUS
      <3>2. all \ {x} = (S \ T) \union (s \ {x})
        OBVIOUS
      <3>3. Sum(f, all \ {x}) = Sum(f, s \ {x}) + Sum(f, S \ T)
        BY <2>1, <3>2
      <3> HIDE DEF all
      <3>4. Sum(f, all) = f[x] + Sum(f, all \ {x})
        BY <1>1, <3>1, SumWithout
      <3>5. Sum(f, s) = f[x] + Sum(f, s \ {x}) /\ Integral(f, s \ {x})
        BY <1>1, <3>1, SumWithout
      <3>6. Sum(f, s \ {x}) \in Int /\ f[x] \in Int
        BY <1>1, <3>1, <3>5, SumInt DEF Integral
      <3>7. Sum(f, all) = Sum(f, s) + Sum(f, S \ T)
        BY <2>2, <3>3, <3>4, <3>5, <3>6
      <3> QED  BY <2>1, <3>7 DEF all
    <2> QED  BY <2>3, <2>4
  <1> QED  BY <1>2, <1>3

\* A sum of naturals is one, and 0 only if they all are.
LEMMA SumNat ==
  ASSUME NEW f, NEW S, IsFiniteSet(S), \A i \in S : f[i] \in Nat
  PROVE  /\ Integral(f, S) /\ Sum(f, S) \in Nat
         /\ Sum(f, S) = 0 => \A i \in S : f[i] = 0
  <1>1. Integral(f, S)
    BY DEF Integral
  <1>2. ASSUME NEW T \in SUBSET S
        PROVE  Sum(f, T) \in Nat
    <2>1. Integral(f, T)
      BY <1>1, FS_Subset DEF Integral
    <2>2. UnitsOf(Minus(f, T), T) = {}
      BY DEF UnitsOf, Minus
    <2>3. Cardinality(UnitsOf(Minus(f, T), T)) = 0
      BY <2>2, FS_EmptySet
    <2>4. Cardinality(UnitsOf(f, T)) \in Nat
      BY <2>1, UnitsFinite, FS_CardinalityType
    <2> QED  BY <2>1, <2>3, <2>4, SumIsBalance DEF Balance
  <1>3. ASSUME Sum(f, S) = 0, NEW i \in S
        PROVE  f[i] = 0
    <2>1. Sum(f, S) = f[i] + Sum(f, S \ {i})
      BY <1>1, SumWithout
    <2>2. Sum(f, S \ {i}) \in Nat
      BY <1>2
    <2> QED  BY <1>3, <2>1, <2>2
  <1> QED  BY <1>1, <1>2, <1>3

\* A part of positive numbers that has the whole sum is the whole.
LEMMA WholeSum ==
  ASSUME NEW f, NEW S, IsFiniteSet(S), NEW T \in SUBSET S, \A i \in S : f[i] \in Nat \ {0},
         Sum(f, T) = Sum(f, S)
  PROVE  T = S
  <1>1. Integral(f, S)
    BY DEF Integral
  <1>2. Sum(f, S) = Sum(f, T) + Sum(f, S \ T) /\ Integral(f, T)
    BY <1>1, SumSplit
  <1>3. IsFiniteSet(S \ T) /\ \A i \in S \ T : f[i] \in Nat
    BY FS_Subset
  <1>4. Sum(f, T) \in Int /\ Sum(f, S \ T) \in Nat
    BY <1>2, <1>3, SumInt, SumNat
  <1>5. Sum(f, S \ T) = 0
    BY <1>2, <1>4
  <1>6. \A i \in S \ T : f[i] = 0
    BY <1>3, <1>5, SumNat
  <1> QED  BY <1>6

-----------------------------------------------------------------------------
(* The executions.                                                         *)

LEMMA RowsAsTyped ==
  ASSUME RowsTyped
  PROVE  /\ Len(fills) \in Nat /\ Executed = 1..Len(fills) /\ IsFiniteSet(Executed)
         /\ Len(orders) \in Nat /\ DOMAIN orders = 1..Len(orders)
         /\ \A o \in DOMAIN orders : orders[o] \in OrderRow
         /\ \A i \in Executed : fills[i] \in FillRow
  <1>1. Len(fills) \in Nat /\ Executed = 1..Len(fills) /\ \A i \in Executed : fills[i] \in FillRow
    BY DEF RowsTyped, Executed
  <1>2. Len(orders) \in Nat /\ DOMAIN orders = 1..Len(orders)
        /\ \A o \in DOMAIN orders : orders[o] \in OrderRow
    BY DEF RowsTyped
  <1> QED  BY <1>1, <1>2, FS_Interval

LEMMA OfEachExecution ==
  ASSUME RowsTyped, NEW i \in Executed
  PROVE  /\ Volume[i] = fills[i].volume /\ Volume[i] \in Nat \ {0}
         /\ Fee[i] = fills[i].fee /\ Fee[i] \in Nat
         /\ Amount[i] \in Nat \ {0} /\ Signed[i] \in Int /\ Spend[i] \in Int
  <1> DEFINE v == fills[i].volume
             o == orders[fills[i].order]
             x == o.price
  <1>1. v \in Nat \ {0} /\ fills[i].fee \in Nat /\ fills[i].order \in DOMAIN orders
    BY RowsAsTyped, BookAssumption DEF FillRow, RowsTyped
  <1>2. o \in OrderRow
    BY <1>1, RowsAsTyped
  <1>3. x \in Nat \ {0}
    BY <1>2, BookAssumption DEF OrderRow
  <1>4. Volume[i] = v /\ Fee[i] = fills[i].fee /\ Amount[i] = v * x
        /\ Signed[i] = (IF o.side = "BUY" THEN v ELSE -v) /\ Spend[i] = Signed[i] * x
    BY DEF Volume, Fee, Amount, Signed, Spend
  <1> HIDE DEF v, o, x
  <1>5. v * x \in Nat \ {0} /\ Signed[i] \in Int
    BY <1>1, <1>3, <1>4
  <1>6. Spend[i] \in Int
    BY <1>3, <1>4, <1>5
  <1> QED  BY <1>1, <1>4, <1>5, <1>6 DEF v

LEMMA SumsOverExecutions ==
  ASSUME RowsTyped, NEW S \in SUBSET Executed
  PROVE  /\ IsFiniteSet(S) /\ Integral(Volume, S) /\ Integral(Fee, S) /\ Integral(Amount, S)
         /\ Integral(Signed, S) /\ Integral(Spend, S)
         /\ Sum(Volume, S) \in Nat /\ Sum(Fee, S) \in Nat
  <1>1. IsFiniteSet(S)
    BY RowsAsTyped, FS_Subset
  <1>2. \A i \in S : /\ Volume[i] \in Nat /\ Fee[i] \in Nat /\ Amount[i] \in Nat
                     /\ Signed[i] \in Int /\ Spend[i] \in Int
    BY OfEachExecution
  <1>3. Sum(Volume, S) \in Nat /\ Sum(Fee, S) \in Nat
    BY <1>1, <1>2, SumNat
  <1> QED  BY <1>1, <1>2, <1>3 DEF Integral

\* What is filled of an order.
LEMMA FilledNat ==
  ASSUME RowsTyped, NEW o
  PROVE  /\ Fills(o) \in SUBSET Executed /\ FilledAtProvider(o) = Sum(Volume, Fills(o))
         /\ FilledAtProvider(o) \in Nat
  BY SumsOverExecutions DEF Fills, FilledAtProvider, Sum

\* Some executions of an order are no more than all of them, and as much only if
\* they are all.
LEMMA PartFilled ==
  ASSUME RowsTyped, NEW o, NEW T \in SUBSET Fills(o)
  PROVE  /\ Sum(Volume, T) \in Nat /\ Sum(Volume, T) <= FilledAtProvider(o)
         /\ Sum(Volume, T) = FilledAtProvider(o) => T = Fills(o)
  <1> DEFINE S == Fills(o)
  <1>1. S \in SUBSET Executed /\ FilledAtProvider(o) = Sum(Volume, S) /\ FilledAtProvider(o) \in Nat
    BY FilledNat
  <1>2. T \in SUBSET Executed /\ S \ T \in SUBSET Executed
    BY <1>1
  <1>3. IsFiniteSet(S) /\ Integral(Volume, S) /\ Sum(Volume, T) \in Nat /\ Sum(Volume, S \ T) \in Nat
    BY <1>1, <1>2, SumsOverExecutions
  <1>4. Sum(Volume, S) = Sum(Volume, T) + Sum(Volume, S \ T)
    BY <1>3, SumSplit
  <1>5. \A i \in S : Volume[i] \in Nat \ {0}
    BY <1>1, OfEachExecution
  <1>6. Sum(Volume, T) = Sum(Volume, S) => T = S
    BY <1>3, <1>5, WholeSum
  <1> QED  BY <1>1, <1>3, <1>4, <1>6

\* While nothing is executed, what is filled stays.
LEMMA FillsKept ==
  ASSUME UNCHANGED fills
  PROVE  /\ Executed' = Executed /\ Volume' = Volume /\ Fee' = Fee
         /\ \A o : Fills(o)' = Fills(o) /\ FilledAtProvider(o)' = FilledAtProvider(o)
  BY DEF Executed, Volume, Fee, Fills, FilledAtProvider

\* One more execution.
LEMMA FillsExtended ==
  ASSUME RowsTyped, NEW row \in FillRow, fills' = Append(fills, row)
  PROVE  LET n == Len(fills) + 1 IN
         /\ n \notin Executed /\ Executed' = Executed \union {n}
         /\ fills'[n] = row /\ \A i \in Executed : fills'[i] = fills[i]
         /\ \A i \in Executed : Fee'[i] = Fee[i]
         /\ \A o : /\ Fills(o)' = IF o = row.order THEN Fills(o) \union {n} ELSE Fills(o)
                   /\ FilledAtProvider(o)'
                        = FilledAtProvider(o) + IF o = row.order THEN row.volume ELSE 0
  <1> DEFINE n == Len(fills) + 1
  <1>1. /\ n \notin Executed /\ Executed' = Executed \union {n}
        /\ fills'[n] = row /\ \A i \in Executed : fills'[i] = fills[i]
    BY RowsAsTyped DEF RowsTyped, Executed
  <1> HIDE DEF n
  <1>2. \A i \in Executed : Fee'[i] = Fee[i] /\ Volume'[i] = Volume[i]
    BY <1>1 DEF Fee, Volume
  <1>3. Volume'[n] = row.volume /\ row.volume \in Nat
    BY <1>1 DEF Volume, FillRow
  <1>4. ASSUME NEW o
        PROVE  /\ Fills(o)' = IF o = row.order THEN Fills(o) \union {n} ELSE Fills(o)
               /\ FilledAtProvider(o)' = FilledAtProvider(o) + IF o = row.order THEN row.volume ELSE 0
    <2>1. Fills(o)' = IF o = row.order THEN Fills(o) \union {n} ELSE Fills(o)
      BY <1>1 DEF Fills
    <2>2. /\ Fills(o) \in SUBSET Executed /\ FilledAtProvider(o) = Sum(Volume, Fills(o))
          /\ FilledAtProvider(o) \in Nat
      BY FilledNat
    <2>3. Integral(Volume, Fills(o))
      BY <2>2, SumsOverExecutions
    <2>4. Integral(Volume', Fills(o)) /\ Sum(Volume', Fills(o)) = FilledAtProvider(o)
      <3>1. \A i \in Fills(o) : Volume[i] = Volume'[i]
        BY <1>2, <2>2
      <3> QED  BY <2>2, <2>3, <3>1, SumSame
    <2>5. FilledAtProvider(o)' = Sum(Volume', Fills(o)')
      BY DEF FilledAtProvider, Sum
    <2>6. CASE o # row.order
      BY <2>1, <2>2, <2>4, <2>5, <2>6
    <2>7. CASE o = row.order
      <3> DEFINE S == Fills(o) \union {n}
      <3>1. n \in S /\ S \ {n} = Fills(o)
        BY <1>1, <2>2
      <3>2. Integral(Volume', S)
        BY <1>3, <2>4, FS_AddElement DEF Integral
      <3> HIDE DEF S
      <3>3. Sum(Volume', S) = row.volume + FilledAtProvider(o)
        BY <1>3, <2>4, <3>1, <3>2, SumWithout
      <3> QED  BY <1>3, <2>1, <2>2, <2>5, <2>7, <3>3 DEF S
    <2> QED  BY <2>1, <2>6, <2>7
  <1> QED  BY <1>1, <1>2, <1>4 DEF n

-----------------------------------------------------------------------------
(* What the service is told of orders.                                     *)

LEMMA MaxOfThree ==
  ASSUME NEW a \in Int, NEW b \in Int, NEW c \in Int
  PROVE  /\ Max({a, b, c}) \in {a, b, c}
         /\ a <= Max({a, b, c}) /\ b <= Max({a, b, c}) /\ c <= Max({a, b, c})
  <1>1. \E m \in {a, b, c} : \A y \in {a, b, c} : m >= y
    <2>1. CASE a >= b /\ a >= c
      BY <2>1
    <2>2. CASE b >= a /\ b >= c
      BY <2>2
    <2>3. CASE c >= a /\ c >= b
      BY <2>3
    <2> QED  BY <2>1, <2>2, <2>3
  <1> DEFINE m == Max({a, b, c})
  <1>2. m \in {a, b, c} /\ \A y \in {a, b, c} : m >= y
    BY <1>1 DEF Max
  <1> HIDE DEF m
  <1>3. m \in Int
    BY <1>2
  <1>4. a <= m /\ b <= m /\ c <= m
    BY <1>2, <1>3
  <1> QED  BY <1>2, <1>4 DEF m

\* What the provider was asked for and says of an order stays.
Kept(p, q) ==
  /\ p.side = q.side /\ p.code = q.code /\ p.event = q.event /\ p.uat = q.uat
  /\ p.price = q.price /\ p.volume = q.volume /\ p.day = q.day /\ p.final = q.final

\* A row that tells no more of an order than is true.
Truthful(o, p) ==
  /\ p \in OrderRow /\ Kept(p, orders[o])
  /\ p.told <= FilledAtProvider(o)
  /\ p.status # "OPEN" => p.final # "NO" /\ p.told = FilledAtProvider(o)

LEMMA MergedIsTrue ==
  ASSUME BookInv, NEW o \in DOMAIN orders, NEW rs, DOMAIN rs \subseteq Executed,
         NEW final \in BOOLEAN, final => orders[o].final # "NO"
  PROVE  Truthful(o, Merged(o, rs, final))
  <1> DEFINE order == orders[o]
             all == FilledAtProvider(o)
             sum == SumFunctionOnSet(Volume, Fills(o) \intersect DOMAIN rs)
             end == IF final THEN all ELSE 0
             told == Max({order.told, sum, end})
             status == IF told = order.volume THEN "FILLED"
                       ELSE IF order.status = "OPEN" /\ final THEN order.final ELSE order.status
  <1>1. Merged(o, rs, final) = [order EXCEPT !.told = told, !.status = status]
    BY DEF Merged
  <1>2. order \in OrderRow /\ order.told \in Nat /\ order.volume \in Nat
    BY RowsAsTyped DEF BookInv, OrderRow
  <1>3. all \in Nat /\ order.told <= all /\ all <= order.volume /\ (order.final = "NO" => all < order.volume)
    BY FilledNat DEF BookInv, NeverOverfilled, ToldIsTrue
  <1>4. sum \in Nat /\ sum <= all
    BY PartFilled DEF BookInv, Sum
  <1>5. order.status # "OPEN" => order.final # "NO" /\ order.told = all
    BY DEF BookInv, ToldIsTrue
  <1> HIDE DEF order, all, sum
  <1>6. end \in Nat /\ end <= all /\ (final => end = all)
    BY <1>3
  <1> HIDE DEF end
  <1>7. told \in {order.told, sum, end} /\ order.told <= told /\ end <= told
    <2>1. order.told \in Int /\ sum \in Int /\ end \in Int
      BY <1>2, <1>4, <1>6
    <2> QED  BY <2>1, MaxOfThree
  <1> HIDE DEF told
  <1>8. told \in Nat /\ told <= all
    BY <1>2, <1>3, <1>4, <1>6, <1>7
  <1>9. status # "OPEN" => order.final # "NO" /\ told = all
    <2>1. CASE told = order.volume
      BY <1>2, <1>3, <1>8, <2>1
    <2>2. CASE told # order.volume /\ order.status = "OPEN" /\ final
      <3>1. told = all
        BY <1>3, <1>6, <1>7, <1>8, <2>2
      <3> QED  BY <2>2, <3>1 DEF order
    <2>3. CASE told # order.volume /\ ~(order.status = "OPEN" /\ final)
      BY <1>2, <1>3, <1>5, <1>7, <1>8, <2>3
    <2> QED  BY <2>1, <2>2, <2>3
  <1>10. status \in {"OPEN", "FILLED", "CANCELED"}
    <2>1. order.final \in {"NO", "FILLED", "CANCELED"} /\ order.status \in {"OPEN", "FILLED", "CANCELED"}
      BY <1>2 DEF OrderRow
    <2>2. CASE final /\ order.status = "OPEN"
      BY <2>1, <2>2 DEF order
    <2>3. CASE ~(final /\ order.status = "OPEN")
      BY <2>1, <2>3
    <2> QED  BY <2>2, <2>3
  <1> HIDE DEF status
  <1> DEFINE m == [order EXCEPT !.told = told, !.status = status]
  <1>11. m \in OrderRow /\ Kept(m, order) /\ m.told = told /\ m.status = status /\ m.final = order.final
    BY <1>2, <1>8, <1>10 DEF OrderRow, Kept
  <1> HIDE DEF m
  <1>12. m.told <= all /\ (m.status # "OPEN" => m.final # "NO" /\ m.told = all)
    BY <1>8, <1>9, <1>11
  <1> QED  BY <1>1, <1>11, <1>12 DEF Truthful, m, order, all

-----------------------------------------------------------------------------
(* What every step leaves.                                                 *)

\* What was ordered, executed and imported stays, an end is final, and a true fee
\* stays true.
Onward ==
  /\ \A o \in DOMAIN orders :
       /\ o \in DOMAIN orders'
       /\ orders'[o].side = orders[o].side /\ orders'[o].code = orders[o].code
       /\ orders'[o].uat = orders[o].uat
       /\ orders[o].final # "NO" =>
            /\ orders'[o].final # "NO" /\ Fills(o)' = Fills(o)
            /\ FilledAtProvider(o)' = FilledAtProvider(o)
  /\ \A i \in Executed : i \in Executed' /\ fills'[i] = fills[i]
  /\ \A i \in Imported : i \in Imported' /\ (rows[i].fee = fills[i].fee => rows'[i].fee = fills[i].fee)

LEMMA SettledStays ==
  ASSUME BookInv, Onward, NEW b, NEW buy \in DOMAIN orders, NEW sell \in DOMAIN orders,
         Settled(b, buy, sell)
  PROVE  Settled(b, buy, sell)'
  <1>1. /\ ProvenBy(b, buy, sell) /\ orders[buy].final # "NO" /\ orders[sell].final # "NO"
    BY DEF Settled
  <1>2. ASSUME NEW o \in {buy, sell}
        PROVE  /\ orders'[o].side = orders[o].side /\ orders'[o].code = orders[o].code
               /\ orders'[o].uat = orders[o].uat /\ orders'[o].final # "NO"
               /\ Fills(o)' = Fills(o) /\ FilledAtProvider(o)' = FilledAtProvider(o)
    BY <1>1 DEF Onward
  <1>3. ASSUME NEW i \in Fills(buy) \union Fills(sell)
        PROVE  i \in Imported' /\ RowFee'[i] = Fee'[i]
    <2>1. i \in Executed /\ i \in Imported /\ RowFee[i] = Fee[i]
      BY <1>1 DEF ProvenBy, Fills
    <2>2. rows[i].fee = fills[i].fee
      BY <2>1 DEF RowFee, Fee
    <2>3. i \in Imported' /\ i \in Executed' /\ rows'[i].fee = fills'[i].fee
      BY <2>1, <2>2 DEF Onward
    <2> QED  BY <2>3 DEF RowFee, Fee
  <1>4. ASSUME NEW i \in Fills(buy), NEW j \in Fills(sell)
        PROVE  i < j /\ (orders'[buy].code \notin SameDay => fills'[i].day < fills'[j].day)
    <2>1. i \in Executed /\ j \in Executed
      BY DEF Fills
    <2>2. fills'[i] = fills[i] /\ fills'[j] = fills[j]
      BY <2>1 DEF Onward
    <2> QED  BY <1>1, <1>2, <2>2 DEF ProvenBy
  <1>5. ProvenBy(b, buy, sell)'
    BY <1>1, <1>2, <1>3, <1>4 DEF ProvenBy
  <1> QED  BY <1>2, <1>5 DEF Settled

\* A proof is never lost, and only an order on a proven board needs one.
LEMMA BoardsGoOn ==
  ASSUME BookInv, Onward, UNCHANGED capable, Len(orders') \in Nat, DOMAIN orders' = 1..Len(orders'),
         \A o \in DOMAIN orders' \ DOMAIN orders : orders'[o].uat = 0 =>
            \/ capable[BoardOf(orders'[o].code)] = "EARLIER"
            \/ \E buy, sell \in DOMAIN orders :
                 buy < o /\ sell < o /\ Settled(BoardOf(orders'[o].code), buy, sell)
  PROVE  BoardsSettled'
  <1>0. DOMAIN orders = 1..Len(orders) /\ Len(orders) \in Nat
    BY RowsAsTyped DEF BookInv
  <1>1. ASSUME NEW b \in TradedBoards, capable'[b] = "UAT"
        PROVE  \E buy, sell \in DOMAIN orders' : Settled(b, buy, sell)'
    <2>1. PICK buy \in DOMAIN orders, sell \in DOMAIN orders : Settled(b, buy, sell)
      BY <1>1 DEF BookInv, BoardsSettled
    <2>2. Settled(b, buy, sell)'
      BY <2>1, SettledStays
    <2>3. buy \in DOMAIN orders' /\ sell \in DOMAIN orders'
      BY DEF Onward
    <2> QED  BY <2>2, <2>3
  <1>2. ASSUME NEW o \in DOMAIN orders', orders'[o].uat = 0
        PROVE  \/ capable'[BoardOf(orders'[o].code)] = "EARLIER"
               \/ \E buy, sell \in 1..(o - 1) : Settled(BoardOf(orders[o].code), buy, sell)'
    <2>0. PICK b : b = BoardOf(orders'[o].code)
      OBVIOUS
    <2>1. \/ capable[b] = "EARLIER"
          \/ \E buy, sell \in DOMAIN orders : buy < o /\ sell < o /\ Settled(b, buy, sell)
      <3>1. CASE o \in DOMAIN orders
        <4>1. orders[o].uat = 0 /\ b = BoardOf(orders[o].code)
          BY <1>2, <2>0, <3>1 DEF Onward
        <4>2. capable[b] = "EARLIER" \/ \E buy, sell \in 1..(o - 1) : Settled(b, buy, sell)
          BY <3>1, <4>1 DEF BookInv, BoardsSettled
        <4>3. \A p \in 1..(o - 1) : p \in DOMAIN orders /\ p < o
          BY <1>0, <3>1
        <4> QED  BY <4>2, <4>3
      <3>2. CASE o \notin DOMAIN orders
        BY <1>2, <2>0, <3>2
      <3> QED  BY <3>1, <3>2
    <2>2. ASSUME NEW buy \in DOMAIN orders, NEW sell \in DOMAIN orders, buy < o, sell < o, Settled(b, buy, sell)
          PROVE  \E x, y \in 1..(o - 1) : Settled(b, x, y)'
      <3>1. Settled(b, buy, sell)'
        BY <2>2, SettledStays
      <3>2. buy \in 1..(o - 1) /\ sell \in 1..(o - 1)
        BY <1>0, <2>2
      <3> QED  BY <3>1, <3>2
    <2> QED  BY <2>0, <2>1, <2>2
  <1> QED  BY <1>1, <1>2 DEF BoardsSettled

\* A row is as true as the order was.
LEMMA TruthStays ==
  ASSUME BookInv, NEW o \in DOMAIN orders
  PROVE  Truthful(o, orders[o])
  BY RowsAsTyped DEF BookInv, ToldIsTrue, Truthful, Kept

\* Steps that tell the service of orders and executions, or find fees.
Retold ==
  /\ UNCHANGED <<day, deposited, fills, capable>>
  /\ orders' \in Seq(OrderRow) /\ DOMAIN orders' = DOMAIN orders
  /\ \A o \in DOMAIN orders : Truthful(o, orders'[o])
  /\ Imported \subseteq Imported' /\ Imported' \subseteq Executed
  /\ \A i \in Imported' : /\ rows'[i] \in FeeRow
                          /\ rows'[i].status = "VERIFIED" => rows'[i].fee = Fee[i]
  /\ \A i \in Imported : rows[i].fee = Fee[i] => rows'[i].fee = Fee[i]

LEMMA RetoldStep ==
  ASSUME BookInv, Retold, SnapshotIsPast'
  PROVE  BookInv'
  <1>1. /\ Executed' = Executed /\ Fee' = Fee
        /\ \A o : Fills(o)' = Fills(o) /\ FilledAtProvider(o)' = FilledAtProvider(o)
    BY FillsKept DEF Retold
  <1>2. RowsTyped'
    BY <1>1 DEF BookInv, RowsTyped, Retold
  <1>3. NeverOverfilled' /\ ToldIsTrue'
    BY <1>1 DEF BookInv, NeverOverfilled, ToldIsTrue, Retold, Truthful, Kept
  <1>4. FeesAreTrue'
    BY <1>1 DEF Retold, FeesAreTrue, RowFee
  <1>5. DaysInOrder'
    BY <1>1 DEF BookInv, DaysInOrder, Retold
  <1>6. Onward
    <2>1. \A i \in Imported : i \in Executed /\ Fee[i] = fills[i].fee
      BY DEF BookInv, RowsTyped, Fee
    <2> QED  BY <1>1, <2>1 DEF Onward, Retold, Truthful, Kept
  <1>7. BoardsSettled'
    <2>1. Len(orders') \in Nat /\ DOMAIN orders' = 1..Len(orders') /\ DOMAIN orders' \ DOMAIN orders = {}
      BY DEF Retold
    <2> QED  BY <1>6, <2>1, BoardsGoOn DEF Retold
  <1> QED  BY <1>2, <1>3, <1>4, <1>5, <1>7 DEF BookInv

\* What a snapshot and its plan say stays true.
LEMMA SnapshotStays ==
  ASSUME BookInv, UNCHANGED snapshot, Len(fills') \in Nat, Len(fills) <= Len(fills'),
         \A i \in Executed : Fee'[i] = Fee[i], Imported \subseteq Imported',
         \A o \in DOMAIN orders : o \in DOMAIN orders' /\ (orders[o].final # "NO" => orders'[o].final # "NO")
  PROVE  SnapshotIsPast'
  <1> SUFFICES ASSUME snapshot # None
               PROVE  /\ DOMAIN snapshot = {"upto", "final", "plan"}
                      /\ snapshot.upto \in 0..Len(fills')
                      /\ \A o \in snapshot.final : o \in DOMAIN orders' /\ orders'[o].final # "NO"
                      /\ \A i \in DOMAIN snapshot.plan :
                           /\ i \in Imported' /\ snapshot.plan[i] \in FeeRow
                           /\ snapshot.plan[i].status = "VERIFIED" => snapshot.plan[i].fee = Fee'[i]
    BY DEF SnapshotIsPast
  <1>1. /\ DOMAIN snapshot = {"upto", "final", "plan"} /\ snapshot.upto \in 0..Len(fills)
        /\ \A o \in snapshot.final : o \in DOMAIN orders /\ orders[o].final # "NO"
        /\ \A i \in DOMAIN snapshot.plan :
             /\ i \in Imported /\ snapshot.plan[i] \in FeeRow
             /\ snapshot.plan[i].status = "VERIFIED" => snapshot.plan[i].fee = Fee[i]
    BY DEF BookInv, SnapshotIsPast
  <1>2. snapshot.upto \in 0..Len(fills')
    BY <1>1, RowsAsTyped DEF BookInv
  <1>3. \A i \in Imported : i \in Executed
    BY DEF BookInv, RowsTyped
  <1> QED  BY <1>1, <1>2, <1>3

LEMMA OneRetold ==
  ASSUME BookInv, NEW o \in DOMAIN orders, NEW row, Truthful(o, row), orders' = [orders EXCEPT ![o] = row]
  PROVE  /\ orders' \in Seq(OrderRow) /\ DOMAIN orders' = DOMAIN orders
         /\ \A p \in DOMAIN orders : Truthful(p, orders'[p])
  <1>1. orders \in Seq(OrderRow) /\ row \in OrderRow
    BY DEF BookInv, RowsTyped, Truthful
  <1>2. orders' \in Seq(OrderRow) /\ DOMAIN orders' = DOMAIN orders
    BY <1>1
  <1>3. \A p \in DOMAIN orders : orders'[p] = IF p = o THEN row ELSE orders[p]
    OBVIOUS
  <1> QED  BY <1>2, <1>3, TruthStays

LEMMA ExecutionReportStep ==
  ASSUME BookInv, NEW i \in Executed, ExecutionReport(i)
  PROVE  BookInv'
  <1> DEFINE o == fills[i].order
  <1>1. PICK fee \in {0, Fee[i]} :
          /\ i \in Imported => rows[i].status # "VERIFIED" /\ fee > 0
          /\ rows' = Reported(rows, i, fee)
          /\ orders' = [orders EXCEPT ![o] = Merged(o, rows', FALSE)]
          /\ UNCHANGED <<day, deposited, fills, snapshot, capable>>
    BY DEF ExecutionReport
  <1>2. Imported' = Imported \union {i} /\ Imported' \subseteq Executed /\ DOMAIN rows' = Imported'
    BY <1>1 DEF Reported, Imported, BookInv, RowsTyped
  <1>3. \A j \in Imported' : rows'[j] = IF j = i /\ fee > 0 THEN Verified(fee)
                                       ELSE IF j \in Imported THEN rows[j] ELSE Pending
    BY <1>1 DEF Reported, Imported
  <1>4. fee \in Nat /\ (fee > 0 => fee = Fee[i])
    BY <1>1, OfEachExecution DEF BookInv
  <1>5. ASSUME NEW j \in Imported'
        PROVE  /\ rows'[j] \in FeeRow
               /\ rows'[j].status = "VERIFIED" => rows'[j].fee = Fee[j]
               /\ j \in Imported /\ rows[j].fee = Fee[j] => rows'[j].fee = Fee[j]
    <2>1. CASE j = i /\ fee > 0
      BY <1>3, <1>4, <2>1 DEF Verified, FeeRow
    <2>2. CASE ~(j = i /\ fee > 0) /\ j \in Imported
      BY <1>3, <2>2 DEF BookInv, RowsTyped, FeesAreTrue, RowFee
    <2>3. CASE ~(j = i /\ fee > 0) /\ j \notin Imported
      BY <1>3, <2>3 DEF Pending, FeeRow
    <2> QED  BY <2>1, <2>2, <2>3
  <1>6. o \in DOMAIN orders
    BY DEF BookInv, RowsTyped
  <1>7. Truthful(o, Merged(o, rows', FALSE))
    BY <1>2, <1>6, MergedIsTrue
  <1>8. Fee' = Fee
    BY <1>1, FillsKept
  <1> HIDE DEF o
  <1>9. orders' \in Seq(OrderRow) /\ DOMAIN orders' = DOMAIN orders
        /\ \A p \in DOMAIN orders : Truthful(p, orders'[p])
    BY <1>1, <1>6, <1>7, OneRetold
  <1>10. Retold
    BY <1>1, <1>2, <1>5, <1>9 DEF Retold
  <1>11. SnapshotIsPast'
    <2>1. Len(fills') = Len(fills) /\ Len(fills) \in Nat
      BY <1>1, RowsAsTyped DEF BookInv
    <2>2. \A p \in DOMAIN orders : p \in DOMAIN orders' /\ orders'[p].final = orders[p].final
      BY <1>9 DEF Truthful, Kept
    <2>3. Imported \subseteq Imported' /\ UNCHANGED snapshot /\ \A j \in Executed : Fee'[j] = Fee[j]
      BY <1>1, <1>2, <1>8
    <2> QED  BY <2>1, <2>2, <2>3, SnapshotStays
  <1> QED  BY <1>10, <1>11, RetoldStep

LEMMA OrderStatusStep ==
  ASSUME BookInv, NEW o \in DOMAIN orders, OrderStatus(o)
  PROVE  BookInv'
  <1>1. /\ orders[o].final # "NO" /\ orders' = [orders EXCEPT ![o] = Merged(o, rows, TRUE)]
        /\ UNCHANGED <<day, deposited, fills, rows, snapshot, capable>>
    BY DEF OrderStatus
  <1>2. Truthful(o, Merged(o, rows, TRUE))
    BY <1>1, MergedIsTrue DEF BookInv, RowsTyped, Imported
  <1>3. orders' \in Seq(OrderRow) /\ DOMAIN orders' = DOMAIN orders
        /\ \A p \in DOMAIN orders : Truthful(p, orders'[p])
    BY <1>1, <1>2, OneRetold
  <1>4. Imported' = Imported /\ Fee' = Fee
    BY <1>1, FillsKept DEF Imported
  <1>5. Retold
    BY <1>1, <1>3, <1>4 DEF Retold, BookInv, RowsTyped, FeesAreTrue, RowFee
  <1>6. SnapshotIsPast'
    BY <1>1, <1>3, <1>4 DEF BookInv, SnapshotIsPast, Truthful, Kept
  <1> QED  BY <1>5, <1>6, RetoldStep

-----------------------------------------------------------------------------
(* Reconciliation.                                                         *)

\* Steps of a reconciliation that leave the orders.
LEMMA OrdersUntold ==
  ASSUME BookInv, UNCHANGED orders
  PROVE  /\ orders' \in Seq(OrderRow) /\ DOMAIN orders' = DOMAIN orders
         /\ \A p \in DOMAIN orders : Truthful(p, orders'[p])
  BY TruthStays DEF BookInv, RowsTyped

LEMMA TakeSnapshotStep ==
  ASSUME BookInv, TakeSnapshot
  PROVE  BookInv'
  <1>1. /\ snapshot' = [upto |-> Len(fills), final |-> {o \in DOMAIN orders : orders[o].final # "NO"},
                        plan |-> NoPlan]
        /\ UNCHANGED <<day, deposited, orders, fills, rows, capable>>
    BY DEF TakeSnapshot
  <1>2. Imported' = Imported /\ Fee' = Fee
    BY <1>1, FillsKept DEF Imported
  <1>3. Retold
    BY <1>1, <1>2, OrdersUntold DEF Retold, BookInv, RowsTyped, FeesAreTrue, RowFee
  <1>4. SnapshotIsPast'
    <2>1. Len(fills) \in 0..Len(fills) /\ DOMAIN NoPlan = {}
      BY RowsAsTyped DEF BookInv, NoPlan
    <2> QED  BY <1>1, <2>1 DEF SnapshotIsPast
  <1> QED  BY <1>3, <1>4, RetoldStep

\* The plan's fees are true, and a fee that was not found leaves the row's.
LEMMA ReconcileWritesStep ==
  ASSUME BookInv, ReconcileWrites
  PROVE  BookInv'
  <1>1. /\ snapshot # None /\ snapshot' = None
        /\ rows' = [i \in Imported |->
                      IF i \notin DOMAIN snapshot.plan THEN rows[i]
                      ELSE IF snapshot.plan[i].status = "VERIFIED" THEN snapshot.plan[i]
                      ELSE [rows[i] EXCEPT !.status = snapshot.plan[i].status]]
        /\ UNCHANGED <<day, deposited, orders, fills, capable>>
    BY DEF ReconcileWrites
  <1>2. Imported' = Imported /\ Fee' = Fee
    BY <1>1, FillsKept DEF Imported
  <1>3. \A i \in DOMAIN snapshot.plan :
          /\ snapshot.plan[i] \in FeeRow
          /\ snapshot.plan[i].status = "VERIFIED" => snapshot.plan[i].fee = Fee[i]
    BY <1>1 DEF BookInv, SnapshotIsPast
  <1>4. ASSUME NEW i \in Imported
        PROVE  /\ rows'[i] \in FeeRow
               /\ rows'[i].status = "VERIFIED" => rows'[i].fee = Fee[i]
               /\ rows[i].fee = Fee[i] => rows'[i].fee = Fee[i]
    <2>1. rows[i] \in FeeRow /\ (rows[i].status = "VERIFIED" => rows[i].fee = Fee[i])
      BY DEF BookInv, RowsTyped, FeesAreTrue, RowFee
    <2>2. CASE i \notin DOMAIN snapshot.plan
      BY <1>1, <2>1, <2>2
    <2>3. CASE i \in DOMAIN snapshot.plan /\ snapshot.plan[i].status = "VERIFIED"
      BY <1>1, <1>3, <2>3
    <2>4. CASE i \in DOMAIN snapshot.plan /\ snapshot.plan[i].status # "VERIFIED"
      <3>1. rows'[i] = [rows[i] EXCEPT !.status = snapshot.plan[i].status]
        BY <1>1, <2>4
      <3>2. snapshot.plan[i].status \in {"PENDING", "VERIFIED", "UNAVAILABLE"}
        BY <1>3, <2>4 DEF FeeRow
      <3> QED  BY <2>1, <2>4, <3>1, <3>2 DEF FeeRow
    <2> QED  BY <2>2, <2>3, <2>4
  <1>5. Retold
    BY <1>1, <1>2, <1>4, OrdersUntold DEF Retold, BookInv, RowsTyped
  <1>6. SnapshotIsPast'
    BY <1>1 DEF SnapshotIsPast
  <1> QED  BY <1>5, <1>6, RetoldStep

-----------------------------------------------------------------------------
(***************************************************************************)
(* The fees.  A ledger of the same total as the snapshot is of the same    *)
(* executions, as every execution has an amount; what the total of fees    *)
(* leaves is then the sum of those that are not known.                     *)
(***************************************************************************)
TrueRows(rs) ==
  /\ DOMAIN rs \subseteq Executed
  /\ \A i \in DOMAIN rs : rs[i] \in FeeRow /\ (rs[i].status = "VERIFIED" => rs[i].fee = Fee[i])

LEMMA NotAvailableTrue ==
  ASSUME NEW rs, TrueRows(rs)
  PROVE  DOMAIN NotAvailable(rs) = DOMAIN rs /\ TrueRows(NotAvailable(rs))
  <1> DEFINE out == NotAvailable(rs)
  <1>1. DOMAIN out = DOMAIN rs
    BY DEF NotAvailable
  <1>2. ASSUME NEW i \in DOMAIN rs
        PROVE  out[i] \in FeeRow /\ (out[i].status = "VERIFIED" => out[i].fee = Fee[i])
    <2>1. out[i] = IF rs[i].status = "VERIFIED" THEN rs[i] ELSE [rs[i] EXCEPT !.status = "UNAVAILABLE"]
      BY DEF NotAvailable
    <2> HIDE DEF out
    <2>2. rs[i] \in FeeRow /\ (rs[i].status = "VERIFIED" => rs[i].fee = Fee[i])
      BY DEF TrueRows
    <2>3. CASE rs[i].status = "VERIFIED"
      BY <2>1, <2>2, <2>3
    <2>4. CASE rs[i].status # "VERIFIED"
      BY <2>1, <2>2, <2>4 DEF FeeRow
    <2> QED  BY <2>3, <2>4
  <1> HIDE DEF out
  <1>3. TrueRows(out)
    BY <1>1, <1>2 DEF TrueRows
  <1> QED  BY <1>1, <1>3 DEF out

LEMMA CoversAll ==
  ASSUME BookInv, NEW rs, TrueRows(rs), NEW upto \in 0..Len(fills), 1..upto \subseteq DOMAIN rs,
         Covers(rs, upto)
  PROVE  DOMAIN rs = 1..upto
  <1> DEFINE D == DOMAIN rs
             T == 1..upto
  <1>1. D \in SUBSET Executed /\ T \in SUBSET D
    BY DEF TrueRows
  <1>2. IsFiniteSet(D)
    BY <1>1, SumsOverExecutions DEF BookInv
  <1>3. \A i \in D : Amount[i] \in Nat \ {0}
    BY <1>1, OfEachExecution DEF BookInv
  <1>4. Sum(Amount, T) = Sum(Amount, D)
    BY DEF Covers, Sum
  <1> HIDE DEF D, T
  <1>5. T = D
    BY <1>1, <1>2, <1>3, <1>4, WholeSum
  <1> QED  BY <1>5 DEF D, T

LEMMA MaxOfRange ==
  ASSUME NEW n \in Nat, n > 0
  PROVE  Max(1..n) = n
  <1>1. n \in 1..n /\ \A y \in 1..n : n >= y
    OBVIOUS
  <1>2. Max(1..n) \in 1..n /\ \A y \in 1..n : Max(1..n) >= y
    BY <1>1 DEF Max
  <1> DEFINE m == Max(1..n)
  <1> HIDE DEF m
  <1>3. m \in 1..n /\ m >= n
    BY <1>1, <1>2 DEF m
  <1>4. m = n
    BY <1>3
  <1> QED  BY <1>4 DEF m

LEMMA AttributeLastTrue ==
  ASSUME BookInv, NEW rs, TrueRows(rs), NEW upto \in 0..Len(fills), DOMAIN rs = 1..upto
  PROVE  DOMAIN AttributeLast(rs, upto) = 1..upto /\ TrueRows(AttributeLast(rs, upto))
  <1>1. CASE AttributeLast(rs, upto) = rs
    BY <1>1
  <1>2. CASE upto > 0 /\ AttributeLast(rs, upto) = [rs EXCEPT ![upto] = Verified(Fee[upto])]
    <2> DEFINE out == [rs EXCEPT ![upto] = Verified(Fee[upto])]
    <2>1. upto \in Nat /\ upto \in DOMAIN rs /\ upto \in Executed
      BY <1>2, RowsAsTyped DEF BookInv
    <2>2. Fee[upto] \in Nat
      BY <2>1, OfEachExecution DEF BookInv
    <2>3. /\ DOMAIN out = DOMAIN rs
          /\ \A i \in DOMAIN rs : out[i] = IF i = upto THEN Verified(Fee[upto]) ELSE rs[i]
      BY <2>1
    <2> HIDE DEF out
    <2>4. /\ Verified(Fee[upto]) \in FeeRow /\ Verified(Fee[upto]).fee = Fee[upto]
      BY <2>2 DEF Verified, FeeRow
    <2>5. TrueRows(out)
      BY <2>3, <2>4 DEF TrueRows
    <2> QED  BY <1>2, <2>3, <2>5 DEF out
  <1>3. CASE upto = 0
    BY <1>3, <1>1 DEF AttributeLast
  <1>4. CASE upto > 0
    <2>1. Max(DOMAIN rs) = upto
      BY <1>4, RowsAsTyped, MaxOfRange DEF BookInv
    <2> QED  BY <1>1, <1>2, <1>4, <2>1 DEF AttributeLast
  <1>5. upto \in Nat
    BY RowsAsTyped DEF BookInv
  <1> QED  BY <1>3, <1>4, <1>5

\* What the total leaves is the sum of the fees that are not known.
LEMMA WhatIsLeft ==
  ASSUME BookInv, NEW rs, TrueRows(rs), NEW upto \in 0..Len(fills), DOMAIN rs = 1..upto
  PROVE  /\ Unresolved(rs) \in SUBSET Executed /\ Unresolved(rs) \subseteq DOMAIN rs
         /\ SumFunctionOnSet(Fee, 1..upto) - SumFunction([i \in DOMAIN rs \ Unresolved(rs) |-> rs[i].fee])
              = Sum(Fee, Unresolved(rs))
  <1> DEFINE D == 1..upto
             U == Unresolved(rs)
             V == D \ U
             g == [i \in V |-> rs[i].fee]
  <1>1. D \in SUBSET Executed /\ U \in SUBSET D /\ V \in SUBSET D
    BY DEF TrueRows, Unresolved
  <1>2. D \ V = U
    BY <1>1
  <1>3. \A i \in V : Fee[i] = g[i]
    BY DEF TrueRows, Unresolved
  <1>4. SumFunction(g) = Sum(g, V)
    BY DEF SumFunction, SumFunctionOnSet, Sum
  <1>5. SumFunctionOnSet(Fee, D) = Sum(Fee, D)
    BY DEF Sum
  <1> HIDE DEF D, U, V, g
  <1>6. Integral(Fee, D) /\ Integral(Fee, V) /\ Sum(Fee, D) \in Nat /\ Sum(Fee, V) \in Nat
        /\ Sum(Fee, U) \in Nat
    BY <1>1, SumsOverExecutions DEF BookInv
  <1>7. Sum(Fee, D) = Sum(Fee, V) + Sum(Fee, U)
    BY <1>1, <1>2, <1>6, SumSplit
  <1>8. Sum(g, V) = Sum(Fee, V)
    BY <1>3, <1>6, SumSame
  <1>9. SumFunctionOnSet(Fee, D) - SumFunction(g) = Sum(Fee, U)
    BY <1>4, <1>5, <1>6, <1>7, <1>8
  <1>10. U \in SUBSET Executed /\ U \subseteq D
    BY <1>1
  <1> QED  BY <1>9, <1>10 DEF D, U, V, g

LEMMA AttributeResidualTrue ==
  ASSUME BookInv, NEW rs, TrueRows(rs), NEW upto \in 0..Len(fills), DOMAIN rs = 1..upto
  PROVE  DOMAIN AttributeResidual(rs, upto) = 1..upto /\ TrueRows(AttributeResidual(rs, upto))
  <1> DEFINE left == SumFunctionOnSet(Fee, 1..upto)
                       - SumFunction([i \in DOMAIN rs \ Unresolved(rs) |-> rs[i].fee])
             U == Unresolved(rs)
             out == [i \in DOMAIN rs |-> IF i \in U THEN Verified(left) ELSE rs[i]]
  <1>1. AttributeResidual(rs, upto) =
          IF left < 0 THEN rs
          ELSE IF Cardinality(U) = 1 \/ left = 0 THEN out ELSE NotAvailable(rs)
    BY DEF AttributeResidual
  <1>2. U \in SUBSET Executed /\ left = Sum(Fee, U)
    BY WhatIsLeft
  <1>3. IsFiniteSet(U) /\ Sum(Fee, U) \in Nat /\ \A i \in U : Fee[i] \in Nat
    BY <1>2, SumsOverExecutions, OfEachExecution DEF BookInv
  <1>4. ASSUME Cardinality(U) = 1 \/ left = 0, NEW u \in U
        PROVE  left = Fee[u]
    <2>1. CASE Cardinality(U) = 1
      <3>1. PICK x : U = {x}
        BY <1>3, <2>1, FS_Singleton
      <3>2. U = {u}
        BY <3>1
      <3>3. Fee[u] \in Int
        BY <1>3
      <3>4. Sum(Fee, {u}) = Fee[u]
        BY <3>3, SumOfOne
      <3> QED  BY <1>2, <3>2, <3>4
    <2>2. CASE left = 0
      BY <1>2, <1>3, <2>2, SumNat
    <2> QED  BY <1>4, <2>1, <2>2
  <1>5. left \in Nat
    BY <1>2, <1>3
  <1>6. \A i \in DOMAIN rs : out[i] = IF i \in U THEN Verified(left) ELSE rs[i]
    OBVIOUS
  <1>7. DOMAIN out = DOMAIN rs
    OBVIOUS
  <1> HIDE DEF left, U, out
  <1>8. CASE Cardinality(U) = 1 \/ left = 0
    <2>1. \A i \in U : Verified(left) \in FeeRow /\ Verified(left).fee = Fee[i]
      BY <1>4, <1>5, <1>8 DEF Verified, FeeRow
    <2>2. TrueRows(out)
      BY <1>6, <1>7, <2>1 DEF TrueRows
    <2> QED  BY <1>1, <1>5, <1>7, <1>8, <2>2
  <1>9. CASE ~(Cardinality(U) = 1 \/ left = 0)
    BY <1>1, <1>5, <1>9, NotAvailableTrue
  <1> QED  BY <1>8, <1>9

\* However the fees are looked for, those that are found are the charged ones.
LEMMA ReconciledTrue ==
  ASSUME BookInv, NEW rs, TrueRows(rs), NEW upto \in 0..Len(fills), 1..upto \subseteq DOMAIN rs,
         NEW reported \in BOOLEAN
  PROVE  /\ DOMAIN ReconcileCommissions(rs, upto, reported) = DOMAIN rs
         /\ TrueRows(ReconcileCommissions(rs, upto, reported))
  <1>1. CASE ~reported \/ ~Covers(rs, upto)
    BY <1>1, NotAvailableTrue DEF ReconcileCommissions
  <1>2. CASE reported /\ Covers(rs, upto) /\ LastDiffers(rs, upto)
    BY <1>2 DEF ReconcileCommissions
  <1>3. CASE reported /\ Covers(rs, upto) /\ ~LastDiffers(rs, upto)
    <2> DEFINE known == AttributeLast(rs, upto)
    <2>1. DOMAIN rs = 1..upto
      BY <1>3, CoversAll
    <2>2. DOMAIN known = 1..upto /\ TrueRows(known)
      BY <2>1, AttributeLastTrue
    <2>3. ReconcileCommissions(rs, upto, reported) = AttributeResidual(known, upto)
      BY <1>3 DEF ReconcileCommissions
    <2> HIDE DEF known
    <2> QED  BY <2>1, <2>2, <2>3, AttributeResidualTrue
  <1> QED  BY <1>1, <1>2, <1>3

LEMMA RecoverStep ==
  ASSUME BookInv, Recover
  PROVE  BookInv'
  <1> DEFINE upto == snapshot.upto
             recovered == [i \in Imported \union 1..upto |-> IF i \in Imported THEN rows[i] ELSE Pending]
  <1>1. /\ snapshot # None /\ rows' = recovered
        /\ orders' = [o \in DOMAIN orders |-> Merged(o, recovered, o \in snapshot.final)]
        /\ UNCHANGED <<day, deposited, fills, capable>>
    BY DEF Recover
  <1>2. PICK reported \in BOOLEAN :
          LET planned == ReconcileCommissions(recovered, upto, reported)
              updates == {i \in Unresolved(recovered) : planned[i].status # "PENDING"}
          IN  snapshot' = IF updates = {} THEN None
                          ELSE [snapshot EXCEPT !.plan = Restrict(planned, updates)]
    BY DEF Recover
  <1>3. /\ DOMAIN snapshot = {"upto", "final", "plan"} /\ upto \in 0..Len(fills)
        /\ \A o \in snapshot.final : o \in DOMAIN orders /\ orders[o].final # "NO"
    BY <1>1 DEF BookInv, SnapshotIsPast
  <1>4. 1..upto \subseteq Executed /\ Imported \subseteq Executed
    BY <1>3, RowsAsTyped DEF BookInv, RowsTyped
  <1>5. DOMAIN recovered = Imported \union 1..upto
    OBVIOUS
  <1>6. \A i \in Imported \union 1..upto : recovered[i] = IF i \in Imported THEN rows[i] ELSE Pending
    OBVIOUS
  <1> HIDE DEF upto, recovered
  <1>7. TrueRows(recovered)
    <2>1. \A i \in Imported : rows[i] \in FeeRow /\ (rows[i].status = "VERIFIED" => rows[i].fee = Fee[i])
      BY DEF BookInv, RowsTyped, FeesAreTrue, RowFee
    <2>2. Pending \in FeeRow /\ Pending.status # "VERIFIED"
      BY DEF Pending, FeeRow
    <2> QED  BY <1>4, <1>5, <1>6, <2>1, <2>2 DEF TrueRows
  <1>8. Imported' = DOMAIN recovered /\ Fee' = Fee
    BY <1>1, FillsKept DEF Imported
  <1>9. \A o \in DOMAIN orders : orders'[o] = Merged(o, recovered, o \in snapshot.final)
    BY <1>1
  <1>10. \A o \in DOMAIN orders : Truthful(o, orders'[o])
    <2> TAKE o \in DOMAIN orders
    <2>1. DOMAIN recovered \subseteq Executed
      BY <1>7 DEF TrueRows
    <2>2. (o \in snapshot.final) \in BOOLEAN /\ (o \in snapshot.final => orders[o].final # "NO")
      BY <1>3
    <2>3. Truthful(o, Merged(o, recovered, o \in snapshot.final))
      BY <2>1, <2>2, MergedIsTrue
    <2> QED  BY <1>9, <2>3
  <1>11. orders' \in Seq(OrderRow) /\ DOMAIN orders' = DOMAIN orders
    <2>1. DOMAIN orders' = 1..Len(orders) /\ Len(orders) \in Nat /\ DOMAIN orders = 1..Len(orders)
      BY <1>1, RowsAsTyped DEF BookInv
    <2>2. \A o \in 1..Len(orders) : orders'[o] \in OrderRow
      BY <1>10, <2>1 DEF Truthful
    <2>3. orders' = [o \in 1..Len(orders) |-> orders'[o]]
      BY <1>1, <2>1
    <2>4. orders' \in [1..Len(orders) -> OrderRow]
      BY <2>2, <2>3
    <2>5. orders' \in Seq(OrderRow)
      BY <2>1, <2>4, SeqDef
    <2> QED  BY <2>1, <2>5
  <1>12. Retold
    <2>1. \A i \in Imported' : /\ rows'[i] \in FeeRow
                               /\ rows'[i].status = "VERIFIED" => rows'[i].fee = Fee[i]
      BY <1>1, <1>7, <1>8 DEF TrueRows
    <2>2. Imported \subseteq Imported' /\ Imported' \subseteq Executed
      BY <1>4, <1>5, <1>8
    <2>3. \A i \in Imported : rows'[i] = rows[i]
      BY <1>1, <1>6
    <2> QED  BY <1>1, <1>10, <1>11, <2>1, <2>2, <2>3 DEF Retold
  <1>13. SnapshotIsPast'
    <2> DEFINE planned == ReconcileCommissions(recovered, upto, reported)
               updates == {i \in Unresolved(recovered) : planned[i].status # "PENDING"}
               plan == Restrict(planned, updates)
    <2>1. DOMAIN planned = DOMAIN recovered /\ TrueRows(planned)
      BY <1>3, <1>5, <1>7, ReconciledTrue
    <2>2. snapshot' = None \/ snapshot' = [snapshot EXCEPT !.plan = plan]
      BY <1>2
    <2>3. updates \subseteq DOMAIN recovered
      BY DEF Unresolved
    <2>4. DOMAIN plan = updates /\ \A i \in updates : plan[i] = planned[i]
      BY DEF Restrict
    <2> HIDE DEF planned, updates, plan
    <2>5. \A i \in DOMAIN plan : /\ i \in Imported' /\ plan[i] \in FeeRow
                                 /\ plan[i].status = "VERIFIED" => plan[i].fee = Fee'[i]
      BY <1>8, <2>1, <2>3, <2>4 DEF TrueRows
    <2>6. CASE snapshot' = None
      BY <2>6 DEF SnapshotIsPast
    <2>7. CASE snapshot' = [snapshot EXCEPT !.plan = plan]
      <3>1. /\ DOMAIN snapshot' = {"upto", "final", "plan"} /\ snapshot'.upto = upto
            /\ snapshot'.final = snapshot.final /\ snapshot'.plan = plan
        BY <1>3, <2>7 DEF upto
      <3>2. \A o \in snapshot.final : o \in DOMAIN orders' /\ orders'[o].final # "NO"
        BY <1>3, <1>10, <1>11 DEF Truthful, Kept
      <3>3. fills' = fills
        BY <1>1
      <3> QED  BY <1>3, <2>5, <3>1, <3>2, <3>3 DEF SnapshotIsPast
    <2> QED  BY <2>2, <2>6, <2>7
  <1> QED  BY <1>12, <1>13, RetoldStep

-----------------------------------------------------------------------------
(* The provider.                                                           *)

LEMMA OneEnds ==
  ASSUME BookInv, NEW o \in DOMAIN orders, NEW end \in {"NO", "FILLED", "CANCELED"},
         orders' = [orders EXCEPT ![o].final = end]
  PROVE  /\ orders' \in Seq(OrderRow) /\ DOMAIN orders' = DOMAIN orders
         /\ orders'[o] \in OrderRow /\ orders'[o] = [orders[o] EXCEPT !.final = end]
         /\ \A p \in DOMAIN orders : p # o => orders'[p] = orders[p]
  <1> DEFINE row == [orders[o] EXCEPT !.final = end]
  <1>1. orders[o] \in OrderRow /\ orders \in Seq(OrderRow)
    BY RowsAsTyped DEF BookInv, RowsTyped
  <1>2. row \in OrderRow
    BY <1>1 DEF OrderRow
  <1>3. orders' = [orders EXCEPT ![o] = row]
    OBVIOUS
  <1> HIDE DEF row
  <1>4. orders' \in Seq(OrderRow) /\ DOMAIN orders' = DOMAIN orders
        /\ orders'[o] = row /\ \A p \in DOMAIN orders : p # o => orders'[p] = orders[p]
    BY <1>1, <1>2, <1>3
  <1> QED  BY <1>2, <1>4 DEF row

\* An order that the provider works on is open, and is less filled than ordered.
LEMMA WorkedOn ==
  ASSUME BookInv, NEW o \in DOMAIN orders, orders[o].final = "NO"
  PROVE  /\ orders[o] \in OrderRow /\ orders[o].status = "OPEN"
         /\ FilledAtProvider(o) \in Nat /\ orders[o].volume \in Nat
         /\ FilledAtProvider(o) < orders[o].volume /\ orders[o].told <= FilledAtProvider(o)
         /\ orders[o].told \in Nat
  BY RowsAsTyped, FilledNat DEF BookInv, NeverOverfilled, ToldIsTrue, OrderRow

LEMMA CancelStep ==
  ASSUME BookInv, NEW o \in DOMAIN orders, CancelAtProvider(o)
  PROVE  BookInv'
  <1>1. /\ orders[o].final = "NO" /\ orders' = [orders EXCEPT ![o].final = "CANCELED"]
        /\ UNCHANGED <<day, deposited, fills, rows, snapshot, capable>>
    BY DEF CancelAtProvider
  <1>2. /\ orders' \in Seq(OrderRow) /\ DOMAIN orders' = DOMAIN orders
        /\ orders'[o] \in OrderRow /\ orders'[o] = [orders[o] EXCEPT !.final = "CANCELED"]
        /\ \A p \in DOMAIN orders : p # o => orders'[p] = orders[p]
    BY <1>1, OneEnds
  <1>3. /\ Executed' = Executed /\ Fee' = Fee /\ Imported' = Imported
        /\ \A p : Fills(p)' = Fills(p) /\ FilledAtProvider(p)' = FilledAtProvider(p)
    BY <1>1, FillsKept DEF Imported
  <1>4. /\ orders'[o].side = orders[o].side /\ orders'[o].code = orders[o].code
        /\ orders'[o].uat = orders[o].uat /\ orders'[o].volume = orders[o].volume
        /\ orders'[o].told = orders[o].told /\ orders'[o].status = orders[o].status
        /\ orders'[o].final = "CANCELED"
    BY <1>2, WorkedOn, <1>1 DEF OrderRow
  <1>5. RowsTyped'
    BY <1>1, <1>2, <1>3 DEF BookInv, RowsTyped
  <1>6. NeverOverfilled' /\ ToldIsTrue'
    BY <1>1, <1>2, <1>3, <1>4, WorkedOn DEF BookInv, NeverOverfilled, ToldIsTrue
  <1>7. SnapshotIsPast'
    <2>1. Len(fills') = Len(fills) /\ Len(fills) \in Nat
      BY <1>1, RowsAsTyped DEF BookInv
    <2>2. \A p \in DOMAIN orders : p \in DOMAIN orders' /\ (orders[p].final # "NO" => orders'[p].final # "NO")
      BY <1>2, <1>4
    <2> QED  BY <1>1, <1>3, <2>1, <2>2, SnapshotStays
  <1>8. FeesAreTrue' /\ DaysInOrder'
    BY <1>1, <1>3 DEF BookInv, FeesAreTrue, RowFee, DaysInOrder
  <1>9. BoardsSettled'
    <2>1. Onward
      BY <1>1, <1>2, <1>3, <1>4 DEF Onward
    <2>2. Len(orders') \in Nat /\ DOMAIN orders' = 1..Len(orders') /\ DOMAIN orders' \ DOMAIN orders = {}
      BY <1>2
    <2> QED  BY <1>1, <2>1, <2>2, BoardsGoOn
  <1> QED  BY <1>5, <1>6, <1>7, <1>8, <1>9 DEF BookInv

LEMMA ExecuteStep ==
  ASSUME BookInv, NEW o \in DOMAIN orders, Execute(o)
  PROVE  BookInv'
  <1>1. PICK v \in {Remaining(o), 1}, fee \in Fees :
          /\ orders[o].final = "NO"
          /\ fills' = Append(fills, [order |-> o, volume |-> v, fee |-> fee, day |-> day])
          /\ orders' = IF v = Remaining(o) THEN [orders EXCEPT ![o].final = "FILLED"] ELSE orders
          /\ UNCHANGED <<day, deposited, rows, snapshot, capable>>
    BY DEF Execute
  <1> DEFINE row == [order |-> o, volume |-> v, fee |-> fee, day |-> day]
             n == Len(fills) + 1
             end == orders'[o].final
  <1>2. v \in Nat \ {0} /\ v <= Remaining(o) /\ Remaining(o) = orders[o].volume - FilledAtProvider(o)
    BY <1>1, WorkedOn DEF Remaining
  <1>3. row \in FillRow /\ row.order = o /\ row.volume = v /\ row.day = day
    <2>1. o \in Nat /\ day \in Nat
      BY RowsAsTyped DEF BookInv, RowsTyped
    <2> QED  BY <1>2, <2>1 DEF FillRow
  <1>4. fills' = Append(fills, row)
    BY <1>1
  <1>5. /\ orders' \in Seq(OrderRow) /\ DOMAIN orders' = DOMAIN orders
        /\ \A p \in DOMAIN orders : p # o => orders'[p] = orders[p]
        /\ orders'[o].side = orders[o].side /\ orders'[o].code = orders[o].code
        /\ orders'[o].uat = orders[o].uat /\ orders'[o].volume = orders[o].volume
        /\ orders'[o].told = orders[o].told /\ orders'[o].status = orders[o].status
        /\ end = IF v = Remaining(o) THEN "FILLED" ELSE "NO"
    <2>1. CASE v = Remaining(o)
      <3>1. /\ orders' \in Seq(OrderRow) /\ DOMAIN orders' = DOMAIN orders
            /\ orders'[o] = [orders[o] EXCEPT !.final = "FILLED"]
            /\ \A p \in DOMAIN orders : p # o => orders'[p] = orders[p]
        BY <1>1, <2>1, OneEnds
      <3>2. orders[o] \in OrderRow
        BY <1>1, WorkedOn
      <3>3. /\ orders'[o].side = orders[o].side /\ orders'[o].code = orders[o].code
            /\ orders'[o].uat = orders[o].uat /\ orders'[o].volume = orders[o].volume
            /\ orders'[o].told = orders[o].told /\ orders'[o].status = orders[o].status
            /\ orders'[o].final = "FILLED"
        BY <3>1, <3>2 DEF OrderRow
      <3> QED  BY <2>1, <3>1, <3>3
    <2>2. CASE v # Remaining(o)
      BY <1>1, <2>2 DEF BookInv, RowsTyped
    <2> QED  BY <2>1, <2>2
  <1> HIDE DEF row, end
  <1>6. RowsTyped
    BY DEF BookInv
  <1>7. /\ n \notin Executed /\ Executed' = Executed \union {n}
        /\ fills'[n] = row /\ \A i \in Executed : fills'[i] = fills[i]
        /\ \A i \in Executed : Fee'[i] = Fee[i]
        /\ \A p : /\ Fills(p)' = IF p = o THEN Fills(p) \union {n} ELSE Fills(p)
                  /\ FilledAtProvider(p)' = FilledAtProvider(p) + IF p = o THEN v ELSE 0
    BY <1>3, <1>4, <1>6, FillsExtended
  <1>8. Len(fills') = n /\ n \in Nat /\ fills' \in Seq(FillRow) /\ Len(fills) \in Nat
        /\ \A i \in Executed : i < n
    <2>1. fills \in Seq(FillRow)
      BY <1>6 DEF RowsTyped
    <2> QED  BY <1>3, <1>4, <1>6, <2>1, RowsAsTyped
  <1> HIDE DEF n
  <1>9. Imported' = Imported /\ Imported \subseteq Executed
    BY <1>1, <1>6 DEF Imported, RowsTyped
  <1>10. RowsTyped'
    <2>1. \A i \in Executed' : fills'[i].order \in DOMAIN orders'
      BY <1>3, <1>5, <1>6, <1>7 DEF RowsTyped
    <2> QED  BY <1>1, <1>5, <1>6, <1>7, <1>8, <1>9, <2>1 DEF RowsTyped
  <1>11. \A p \in DOMAIN orders : p # o => FilledAtProvider(p)' = FilledAtProvider(p)
    <2> TAKE p \in DOMAIN orders
    <2>1. FilledAtProvider(p) \in Nat
      BY <1>6, FilledNat
    <2> QED  BY <1>7, <2>1
  <1>12. /\ FilledAtProvider(o)' = FilledAtProvider(o) + v
         /\ FilledAtProvider(o)' <= orders[o].volume
         /\ end = "NO" => FilledAtProvider(o)' < orders[o].volume
         /\ orders[o].told <= FilledAtProvider(o)'
    <2>1. FilledAtProvider(o)' = FilledAtProvider(o) + v
      BY <1>7
    <2> QED  BY <1>1, <1>2, <1>5, <2>1, WorkedOn
  <1>13. NeverOverfilled'
    <2> SUFFICES ASSUME NEW p \in DOMAIN orders
                 PROVE  /\ FilledAtProvider(p)' <= orders'[p].volume
                        /\ orders'[p].final = "NO" => FilledAtProvider(p)' < orders'[p].volume
      BY <1>5 DEF NeverOverfilled
    <2>1. CASE p = o
      BY <1>5, <1>12, <2>1 DEF end
    <2>2. CASE p # o
      BY <1>5, <1>11, <2>2 DEF BookInv, NeverOverfilled
    <2> QED  BY <2>1, <2>2
  <1>14. ToldIsTrue'
    <2> SUFFICES ASSUME NEW p \in DOMAIN orders
                 PROVE  /\ orders'[p].told <= FilledAtProvider(p)'
                        /\ orders'[p].status # "OPEN" =>
                             orders'[p].final # "NO" /\ orders'[p].told = FilledAtProvider(p)'
      BY <1>5 DEF ToldIsTrue
    <2>1. CASE p = o
      BY <1>1, <1>5, <1>12, <2>1, WorkedOn
    <2>2. CASE p # o
      BY <1>5, <1>11, <2>2 DEF BookInv, ToldIsTrue
    <2> QED  BY <2>1, <2>2
  <1>15. SnapshotIsPast'
    <2>1. \A p \in DOMAIN orders : p \in DOMAIN orders' /\ (orders[p].final # "NO" => orders'[p].final # "NO")
      BY <1>1, <1>5
    <2>2. Len(fills') \in Nat /\ Len(fills) <= Len(fills')
      BY <1>8 DEF n
    <2> QED  BY <1>1, <1>7, <1>9, <2>1, <2>2, SnapshotStays
  <1>16. FeesAreTrue'
    BY <1>1, <1>7, <1>9 DEF BookInv, FeesAreTrue, RowFee
  <1>17. DaysInOrder'
    <2>1. fills'[n].day = day /\ day' = day
      BY <1>1, <1>3, <1>7
    <2>2. \A i \in Executed : fills'[i].day = fills[i].day /\ fills[i].day <= day
      BY <1>7 DEF BookInv, DaysInOrder
    <2>3. \A i, j \in Executed : i <= j => fills[i].day <= fills[j].day
      BY DEF BookInv, DaysInOrder
    <2>4. day \in Nat /\ \A i \in Executed : i \in Nat /\ ~(n <= i)
      BY <1>6, <1>8, RowsAsTyped DEF RowsTyped
    <2> QED  BY <1>7, <2>1, <2>2, <2>3, <2>4 DEF DaysInOrder
  <1>18. BoardsSettled'
    <2>1. Onward
      <3>1. \A p \in DOMAIN orders : orders[p].final # "NO" =>
              p # o /\ Fills(p)' = Fills(p) /\ FilledAtProvider(p)' = FilledAtProvider(p)
        BY <1>1, <1>7, <1>11
      <3>2. \A i \in Executed : i \in Executed' /\ fills'[i] = fills[i]
        BY <1>7
      <3>3. \A p \in DOMAIN orders : /\ orders'[p].side = orders[p].side /\ orders'[p].code = orders[p].code
                                     /\ orders'[p].uat = orders[p].uat
                                     /\ p # o => orders'[p].final = orders[p].final
        BY <1>5
      <3> QED  BY <1>1, <1>5, <1>9, <3>1, <3>2, <3>3 DEF Onward
    <2>2. Len(orders') \in Nat /\ DOMAIN orders' = 1..Len(orders') /\ DOMAIN orders' \ DOMAIN orders = {}
      BY <1>5
    <2> QED  BY <1>1, <2>1, <2>2, BoardsGoOn
  <1> QED  BY <1>10, <1>13, <1>14, <1>15, <1>16, <1>17, <1>18 DEF BookInv

\* Nothing but the day and the cash from outside.
LEMMA ElsewhereStep ==
  ASSUME BookInv, UNCHANGED <<orders, fills, rows, snapshot, capable>>,
         day' \in Nat, day <= day', deposited' \in Nat
  PROVE  BookInv'
  <1>1. /\ Executed' = Executed /\ Fee' = Fee /\ Imported' = Imported
        /\ \A p : Fills(p)' = Fills(p) /\ FilledAtProvider(p)' = FilledAtProvider(p)
    BY FillsKept DEF Imported
  <1>2. RowsTyped'
    BY <1>1 DEF BookInv, RowsTyped
  <1>3. NeverOverfilled' /\ ToldIsTrue'
    BY <1>1 DEF BookInv, NeverOverfilled, ToldIsTrue
  <1>4. SnapshotIsPast' /\ FeesAreTrue'
    BY <1>1 DEF BookInv, SnapshotIsPast, FeesAreTrue, RowFee
  <1>5. DaysInOrder'
    <2>1. \A i \in Executed : fills[i].day \in Nat /\ fills[i].day <= day /\ day \in Nat
      BY RowsAsTyped DEF BookInv, DaysInOrder, RowsTyped, FillRow
    <2> QED  BY <1>1, <2>1 DEF BookInv, DaysInOrder
  <1>6. BoardsSettled'
    <2>1. Onward
      BY <1>1 DEF Onward
    <2>2. Len(orders') \in Nat /\ DOMAIN orders' = 1..Len(orders') /\ DOMAIN orders' \ DOMAIN orders = {}
      BY RowsAsTyped DEF BookInv
    <2> QED  BY <2>1, <2>2, BoardsGoOn
  <1> QED  BY <1>2, <1>3, <1>4, <1>5, <1>6 DEF BookInv

LEMMA CalendarStep ==
  ASSUME BookInv, NextDay \/ Deposits
  PROVE  BookInv'
  <1>1. day \in Nat /\ deposited \in Nat /\ Deposit \in Nat
    BY BookAssumption DEF BookInv, RowsTyped
  <1>2. CASE NextDay
    BY <1>1, <1>2, ElsewhereStep DEF NextDay
  <1>3. CASE Deposits
    BY <1>1, <1>3, ElsewhereStep DEF Deposits
  <1> QED  BY <1>2, <1>3

-----------------------------------------------------------------------------
(* Boards.                                                                 *)

LEMMA Extremes ==
  ASSUME NEW S \in SUBSET Nat, IsFiniteSet(S), S # {}
  PROVE  /\ Max(S) \in S /\ \A y \in S : y <= Max(S)
         /\ Min(S) \in S /\ \A y \in S : Min(S) <= y
  <1> DEFINE bad == {s \in SUBSET S : s # {} /\ ~\E x, y \in s : \A z \in s : x >= z /\ y <= z}
  <1>1. ASSUME bad # {}
        PROVE  FALSE
    <2>1. PICK s \in bad : \A x \in s : s \ {x} \notin bad
      BY <1>1, SmallestSet
    <2>2. PICK x \in s : TRUE
      BY <2>1
    <2>3. CASE s \ {x} = {}
      <3>1. \A z \in s : x >= z /\ x <= z
        BY <2>1, <2>2, <2>3
      <3> QED  BY <2>1, <2>2, <3>1
    <2>4. CASE s \ {x} # {}
      <3>1. PICK p \in s \ {x}, q \in s \ {x} : \A z \in s \ {x} : p >= z /\ q <= z
        BY <2>1, <2>2, <2>4
      <3>2. x \in Nat /\ p \in Nat /\ q \in Nat /\ \A z \in s : z \in Nat
        BY <2>1, <2>2, <3>1
      <3>3. PICK a \in s : a >= x /\ a >= p
        BY <2>2, <3>1, <3>2
      <3>4. PICK b \in s : b <= x /\ b <= q
        BY <2>2, <3>1, <3>2
      <3>5. ASSUME NEW z \in s
            PROVE  a >= z /\ b <= z
        <4>1. z \in Nat /\ a \in Nat /\ b \in Nat
          BY <3>2, <3>3, <3>4
        <4>2. x \in Nat /\ p \in Nat /\ q \in Nat /\ a >= x /\ a >= p /\ b <= x /\ b <= q
          BY <3>2, <3>3, <3>4
        <4>3. CASE z = x
          BY <4>2, <4>3
        <4>4. CASE z # x
          <5>1. p >= z /\ q <= z
            BY <3>1, <4>4
          <5>2. a >= z
            BY <4>1, <4>2, <5>1
          <5>3. b <= z
            BY <4>1, <4>2, <5>1
          <5> QED  BY <5>2, <5>3
        <4> QED  BY <4>3, <4>4
      <3> QED  BY <2>1, <3>3, <3>4, <3>5
    <2> QED  BY <2>3, <2>4
  <1>2. PICK x \in S, y \in S : \A z \in S : x >= z /\ y <= z
    BY <1>1
  <1>3. Max(S) \in S /\ \A z \in S : Max(S) >= z
    BY <1>2 DEF Max
  <1>4. Min(S) \in S /\ \A z \in S : Min(S) <= z
    BY <1>2 DEF Min
  <1> DEFINE m == Max(S)
  <1>5. m \in S /\ \A z \in S : m >= z
    BY <1>3
  <1> HIDE DEF m
  <1>6. \A z \in S : z <= m
    BY <1>5
  <1> QED  BY <1>3, <1>4, <1>6 DEF m

\* Of an order that has ended and whose imported executions make up what it was told,
\* all executions are imported.
LEMMA AllImported ==
  ASSUME BookInv, NEW o \in DOMAIN orders, orders[o].status # "OPEN", LedgerFilled(o) = orders[o].told
  PROVE  /\ Fills(o) \subseteq Imported /\ FilledAtProvider(o) = orders[o].told
         /\ orders[o].final # "NO"
  <1>1. orders[o].final # "NO" /\ orders[o].told = FilledAtProvider(o)
    BY DEF BookInv, ToldIsTrue
  <1>2. Sum(Volume, Imported \intersect Fills(o)) = FilledAtProvider(o)
    BY <1>1 DEF LedgerFilled, Sum
  <1>3. Imported \intersect Fills(o) = Fills(o)
    BY <1>2, PartFilled DEF BookInv
  <1> QED  BY <1>1, <1>3

LEMMA PairProves ==
  ASSUME BookInv, NEW buy \in DOMAIN orders, NEW sell \in DOMAIN orders, SettledPair(buy, sell)
  PROVE  Settled(BoardOf(orders[buy].code), buy, sell)
  <1> DEFINE b == BoardOf(orders[buy].code)
             first == Imported \intersect Fills(sell)
             last == Imported \intersect Fills(buy)
  <1>1. /\ orders[buy].side = "BUY" /\ orders[sell].side = "SELL"
        /\ orders[buy].code = orders[sell].code
        /\ orders[buy].uat # 0 /\ orders[sell].uat = orders[buy].uat
        /\ orders[buy].status = "FILLED" /\ orders[sell].status = "FILLED"
        /\ orders[buy].told = Units[b].minBuy /\ orders[sell].told = orders[buy].told
        /\ CompleteVerifiedFills(buy) /\ CompleteVerifiedFills(sell)
    BY DEF SettledPair
  <1>2. /\ Min(first) > Max(last)
        /\ orders[buy].code \notin SameDay => fills[Min(first)].day > fills[Max(last)].day
    BY DEF SettledPair
  <1>3. ASSUME NEW o \in {buy, sell}
        PROVE  /\ Fills(o) \subseteq Imported /\ FilledAtProvider(o) = orders[o].told
               /\ orders[o].final # "NO" /\ Fills(o) # {}
               /\ \A i \in Fills(o) : RowFee[i] = Fee[i]
    <2>1. o \in DOMAIN orders /\ orders[o].status # "OPEN" /\ CompleteVerifiedFills(o)
      BY <1>1
    <2>2. /\ Fills(o) \subseteq Imported /\ FilledAtProvider(o) = orders[o].told
          /\ orders[o].final # "NO"
      BY <2>1, AllImported DEF CompleteVerifiedFills
    <2>3. Imported \intersect Fills(o) = Fills(o)
      BY <2>2
    <2>4. Fills(o) # {} /\ \A i \in Fills(o) : rows[i].status = "VERIFIED"
      BY <2>1, <2>3 DEF CompleteVerifiedFills
    <2> QED  BY <2>2, <2>4 DEF BookInv, FeesAreTrue
  <1>4. first = Fills(sell) /\ last = Fills(buy)
    BY <1>3
  <1>5. /\ first \in SUBSET Executed /\ IsFiniteSet(first) /\ first # {}
        /\ last \in SUBSET Executed /\ IsFiniteSet(last) /\ last # {}
    BY <1>3, <1>4, FilledNat, SumsOverExecutions DEF BookInv
  <1>6. first \in SUBSET Nat /\ last \in SUBSET Nat
    BY <1>5, RowsAsTyped DEF BookInv
  <1> HIDE DEF b, first, last
  <1> DEFINE m == Min(first)
             x == Max(last)
  <1>7. m \in first /\ \A j \in first : m <= j
    BY <1>5, <1>6, Extremes
  <1>8. x \in last /\ \A i \in last : i <= x
    BY <1>5, <1>6, Extremes
  <1>9. m > x /\ (orders[buy].code \notin SameDay => fills[m].day > fills[x].day)
    BY <1>2
  <1> HIDE DEF m, x
  <1>10. ASSUME NEW i \in last, NEW j \in first
         PROVE  i < j /\ (orders[buy].code \notin SameDay => fills[i].day < fills[j].day)
    <2>1. i \in Nat /\ j \in Nat /\ m \in Nat /\ x \in Nat /\ i <= x /\ m <= j
      BY <1>6, <1>7, <1>8
    <2>2. i < j
      BY <1>9, <2>1
    <2>3. i \in Executed /\ j \in Executed /\ m \in Executed /\ x \in Executed
      BY <1>5, <1>7, <1>8
    <2>4. fills[i].day <= fills[x].day /\ fills[m].day <= fills[j].day
      BY <2>1, <2>3 DEF BookInv, DaysInOrder
    <2>5. fills[i].day \in Nat /\ fills[j].day \in Nat /\ fills[m].day \in Nat /\ fills[x].day \in Nat
      BY <2>3, RowsAsTyped DEF BookInv, FillRow
    <2>6. orders[buy].code \notin SameDay => fills[i].day < fills[j].day
      BY <1>9, <2>4, <2>5
    <2> QED  BY <2>2, <2>6
  <1>11. ProvenBy(b, buy, sell)
    BY <1>1, <1>3, <1>4, <1>10 DEF ProvenBy, b
  <1> QED  BY <1>3, <1>11 DEF Settled, b

LEMMA VerifyBoardStep ==
  ASSUME BookInv, NEW b \in TradedBoards, VerifyBoardAcceptance(b)
  PROVE  BookInv'
  <1>1. /\ capable[b] = "NO" /\ capable' = [capable EXCEPT ![b] = "UAT"]
        /\ UNCHANGED <<day, deposited, orders, fills, rows, snapshot>>
    BY DEF VerifyBoardAcceptance
  <1>2. PICK buy \in DOMAIN orders, sell \in DOMAIN orders :
          SettledPair(buy, sell) /\ BoardOf(orders[buy].code) = b
    <2> DEFINE pairs == {q \in (DOMAIN orders) \X (DOMAIN orders) :
                           SettledPair(q[1], q[2]) /\ BoardOf(orders[q[1]].code) = b}
               proven == {Parse(orders[p[1]].code, "", "", "").market : p \in pairs}
    <2>1. IF b = "ETF" THEN proven = ChinaMarkets ELSE proven # {}
      BY DEF VerifyBoardAcceptance
    <2>2. proven # {}
      BY <2>1 DEF ChinaMarkets
    <2>3. pairs # {}
      BY <2>2
    <2> QED  BY <2>3
  <1>3. Settled(b, buy, sell)
    BY <1>2, PairProves
  <1>4. /\ Executed' = Executed /\ Fee' = Fee /\ Imported' = Imported
        /\ \A p : Fills(p)' = Fills(p) /\ FilledAtProvider(p)' = FilledAtProvider(p)
    BY <1>1, FillsKept DEF Imported
  <1>5. RowsTyped'
    BY <1>1, <1>4 DEF BookInv, RowsTyped
  <1>6. NeverOverfilled' /\ ToldIsTrue'
    BY <1>1, <1>4 DEF BookInv, NeverOverfilled, ToldIsTrue
  <1>7. SnapshotIsPast' /\ FeesAreTrue' /\ DaysInOrder'
    BY <1>1, <1>4 DEF BookInv, SnapshotIsPast, FeesAreTrue, RowFee, DaysInOrder
  <1>8. Onward
    BY <1>1, <1>4 DEF Onward
  <1>9. ASSUME NEW c, NEW p \in DOMAIN orders, NEW q \in DOMAIN orders, Settled(c, p, q)
        PROVE  Settled(c, p, q)'
    BY <1>8, <1>9, SettledStays
  <1>10. BoardsSettled'
    <2>1. capable \in [TradedBoards -> {"NO", "EARLIER", "UAT"}]
      BY DEF BookInv, RowsTyped
    <2>2. ASSUME NEW c \in TradedBoards, capable'[c] = "UAT"
          PROVE  \E p, q \in DOMAIN orders : Settled(c, p, q)'
      <3>1. \E p, q \in DOMAIN orders : Settled(c, p, q)
        BY <1>1, <1>3, <2>1, <2>2 DEF BookInv, BoardsSettled
      <3> QED  BY <1>9, <3>1
    <2>3. ASSUME NEW o \in DOMAIN orders, orders[o].uat = 0
          PROVE  \/ capable'[BoardOf(orders[o].code)] = "EARLIER"
                 \/ \E p, q \in 1..(o - 1) : Settled(BoardOf(orders[o].code), p, q)'
      <3>1. PICK c : c = BoardOf(orders[o].code)
        OBVIOUS
      <3>2. capable[c] = "EARLIER" \/ \E p, q \in 1..(o - 1) : Settled(c, p, q)
        BY <2>3, <3>1 DEF BookInv, BoardsSettled
      <3>3. capable[c] = "EARLIER" => capable'[c] = "EARLIER"
        BY <1>1, <2>1
      <3>4. \A p \in 1..(o - 1) : p \in DOMAIN orders
        BY RowsAsTyped DEF BookInv
      <3> QED  BY <1>1, <1>9, <3>1, <3>2, <3>3, <3>4
    <2> QED  BY <1>1, <2>2, <2>3 DEF BoardsSettled
  <1> QED  BY <1>5, <1>6, <1>7, <1>10 DEF BookInv

-----------------------------------------------------------------------------
(* New orders.                                                             *)

LEMMA Quotient ==
  ASSUME NEW n \in Int, NEW d \in Nat \ {0}
  PROVE  n \div d \in Int
  OBVIOUS

LEMMA Unit ==
  ASSUME NEW b \in DOMAIN Units
  PROVE  /\ Units[b].minBuy \in Nat \ {0} /\ Units[b].buyStep \in Nat \ {0}
         /\ Units[b].minSell \in Nat \ {0} /\ Units[b].sellStep \in Nat \ {0}
         /\ Units[b].max \in Nat
  BY PolicyAssumption, BookAssumption

LEMMA Steps ==
  ASSUME NEW v \in Int, NEW least \in Int, NEW step \in Nat \ {0}
  PROVE  StepsUp(v, least, step) \in Int
  <1>1. v - least \in Int
    OBVIOUS
  <1> DEFINE k == (v - least) \div step
  <1>2. k \in Int
    BY <1>1, Quotient
  <1> HIDE DEF k
  <1>3. least + k * step \in Int
    BY <1>2
  <1> QED  BY <1>3 DEF StepsUp, k

LEMMA RoundedVolumes ==
  ASSUME NEW b \in DOMAIN Units, NEW v \in Int, NEW available \in Int
  PROVE  RoundBuyVolume(v, Units[b]) \in Int /\ RoundSellVolume(v, available, Units[b]) \in Int
  <1> DEFINE u == Units[b]
  <1>1. /\ u.minBuy \in Nat \ {0} /\ u.buyStep \in Nat \ {0}
        /\ u.minSell \in Nat \ {0} /\ u.sellStep \in Nat \ {0} /\ u.max \in Nat
    BY Unit
  <1> HIDE DEF u
  <1>2. \A x \in Int : Lower(x, u.max) \in Int
    BY <1>1 DEF Lower
  <1>3. ASSUME NEW x \in Int
        PROVE  /\ StepsUp(Lower(x, u.max), u.minBuy, u.buyStep) \in Int
               /\ StepsUp(Lower(x, u.max), u.minSell, u.sellStep) \in Int
    <2> DEFINE l == Lower(x, u.max)
    <2>1. l \in Int
      BY <1>2
    <2> HIDE DEF l
    <2>2. u.minBuy \in Int /\ u.minSell \in Int
      BY <1>1
    <2>3. StepsUp(l, u.minBuy, u.buyStep) \in Int
      BY <1>1, <2>1, <2>2, Steps
    <2>4. StepsUp(l, u.minSell, u.sellStep) \in Int
      BY <1>1, <2>1, <2>2, Steps
    <2> QED  BY <2>3, <2>4 DEF l
  <1>4. RoundBuyVolume(v, u) \in Int
    BY <1>3 DEF RoundBuyVolume
  <1>5. RoundSellVolume(v, available, u) \in Int
    <2> DEFINE t == IF v <= 0 \/ v > available THEN available ELSE v
    <2>1. t \in Int
      OBVIOUS
    <2> HIDE DEF t
    <2>2. StepsUp(Lower(t, u.max), u.minSell, u.sellStep) \in Int
      BY <1>3, <2>1
    <2>3. RoundSellVolume(v, available, u) \in {0, t, StepsUp(Lower(t, u.max), u.minSell, u.sellStep)}
      BY DEF RoundSellVolume, t
    <2> QED  BY <2>1, <2>2, <2>3
  <1> QED  BY <1>4, <1>5 DEF u

LEMMA MinOfFour ==
  ASSUME NEW a \in Int, NEW b \in Int, NEW c \in Int, NEW d \in Int
  PROVE  Min({a, b, c, d}) \in Int
  <1>1. \E m \in {a, b, c, d} : \A y \in {a, b, c, d} : m <= y
    <2>1. PICK p \in {a, b} : p <= a /\ p <= b
      OBVIOUS
    <2>2. PICK q \in {c, d} : q <= c /\ q <= d
      OBVIOUS
    <2>3. PICK m \in {p, q} : m <= p /\ m <= q
      OBVIOUS
    <2>4. m <= a /\ m <= b /\ m <= c /\ m <= d
      BY <2>1, <2>2, <2>3
    <2> QED  BY <2>3, <2>4
  <1>2. Min({a, b, c, d}) \in {a, b, c, d}
    BY <1>1 DEF Min
  <1> QED  BY <1>2

\* The account as the policy sees it, as far as the size of an order depends on it.
Countable(a) ==
  a.nav \in Int /\ a.cash \in Int /\ a.available \in Int /\ a.symbolRatio \in Int /\ a.totalRatio \in Int

LEMMA BudgetInt ==
  ASSUME NEW a, Countable(a), NEW r \in Nat
  PROVE  Budget(a, r) \in Int
  <1> DEFINE effective == Min({r, Risk.single, Risk.symbol - a.symbolRatio, Risk.total - a.totalRatio})
  <1>1. /\ Risk.single \in Int /\ Risk.symbol - a.symbolRatio \in Int /\ Risk.total - a.totalRatio \in Int
        /\ Risk.reserve \in Int /\ a.nav \in Int /\ a.cash \in Int /\ Scale \in Int /\ r \in Int
    BY BookAssumption, PolicyAssumption DEF Countable
  <1>2. effective \in Int
    BY <1>1, MinOfFour
  <1>3. Budget(a, r) = IF effective <= 0 THEN 0
                       ELSE Lower(a.nav * effective, Scale * a.cash - a.nav * Risk.reserve)
    BY DEF Budget
  <1> HIDE DEF effective
  <1>4. a.nav * effective \in Int
    BY <1>1, <1>2
  <1>5. Scale * a.cash \in Int /\ a.nav * Risk.reserve \in Int
    BY <1>1
  <1>6. Scale * a.cash - a.nav * Risk.reserve \in Int
    BY <1>5
  <1> QED  BY <1>3, <1>4, <1>6 DEF Lower

LEMMA VolumeInt ==
  ASSUME NEW side, NEW price \in Nat \ {0}, NEW a, Countable(a), NEW r \in Nat, NEW proposed \in Nat,
         NEW b \in DOMAIN Units
  PROVE  TradingVolume(side, price, a, r, proposed, Units[b]) \in Int
  <1>1. a.available \in Int
    BY DEF Countable
  <1>2. CASE side = "SELL"
    <2> DEFINE v == IF proposed > 0 THEN Lower(proposed, a.available) ELSE a.available
    <2>1. v \in Int
      BY <1>1 DEF Lower
    <2> HIDE DEF v
    <2>2. RoundSellVolume(v, a.available, Units[b]) \in Int
      BY <1>1, <2>1, RoundedVolumes
    <2> QED  BY <1>2, <2>2 DEF TradingVolume, v
  <1>3. CASE side # "SELL"
    <2> DEFINE budget == Budget(a, r)
               v == budget \div (Scale * price)
               w == IF proposed > 0 THEN Lower(proposed, v) ELSE v
    <2>1. budget \in Int
      BY BudgetInt
    <2>2. Scale * price \in Nat \ {0}
      BY PolicyAssumption
    <2> HIDE DEF budget
    <2>3. v \in Int
      BY <2>1, <2>2, Quotient
    <2> HIDE DEF v
    <2>4. w \in Int
      BY <2>3 DEF Lower
    <2> HIDE DEF w
    <2>5. RoundBuyVolume(w, Units[b]) \in Int
      BY <2>4, RoundedVolumes
    <2>6. TradingVolume(side, price, a, r, proposed, Units[b]) \in {0, RoundBuyVolume(w, Units[b])}
      BY <1>3 DEF TradingVolume, budget, v, w
    <2> QED  BY <2>5, <2>6
  <1> QED  BY <1>2, <1>3

\* An approved order has a board with a trading unit, and a volume.
LEMMA ApprovedVolume ==
  ASSUME NEW i, NEW a, Evaluate(i, a).approved
  PROVE  LET volume == TradingVolume(i.side, i.price, a, i.ratio, i.volume, Units[i.board]) IN
         Evaluate(i, a).volume = volume /\ volume > 0 /\ i.board \in DOMAIN Units
  <1> DEFINE checks == RiskChecks(i, a)
             volume == TradingVolume(i.side, i.price, a, i.ratio, i.volume, Units[i.board])
  <1>1. /\ DOMAIN checks = 1..13
        /\ checks[6].ok = (i.board \in DOMAIN Units)
        /\ checks[11].ok = (volume > 0 /\ (a.held > 0 \/ a.positions < Risk.positions))
    BY DEF RiskChecks
  <1> HIDE DEF checks, volume
  <1>2. {k \in DOMAIN checks : ~checks[k].ok} = {}
    BY DEF Evaluate, checks
  <1>3. Evaluate(i, a).volume = volume
    BY <1>2 DEF Evaluate, checks, volume
  <1>4. checks[6].ok /\ checks[11].ok
    BY <1>1, <1>2
  <1> QED  BY <1>1, <1>3, <1>4 DEF volume

LEMMA RatioInt ==
  ASSUME NEW n \in Int, NEW d \in Int
  PROVE  SafeRatio(n, d) \in Int
  <1>1. CASE d <= 0
    BY <1>1 DEF SafeRatio
  <1>2. CASE d > 0
    <2>1. 2 * d \in Nat \ {0} /\ 2 * Scale * n + d \in Int
      BY <1>2, PolicyAssumption
    <2>2. (2 * Scale * n + d) \div (2 * d) \in Int
      BY <2>1, Quotient
    <2> QED  BY <1>2, <2>2 DEF SafeRatio
  <1> QED  BY <1>1, <1>2

\* What open orders freeze.
LEMMA FrozenInt ==
  ASSUME RowsTyped
  PROVE  FrozenCash \in Int /\ \A c : FrozenShares(c) \in Int
  <1>1. IsFiniteSet(DOMAIN orders)
    BY RowsAsTyped, FS_Interval
  <1>2. ASSUME NEW o \in DOMAIN orders
        PROVE  Remaining(o) \in Int /\ Remaining(o) * orders[o].price \in Int
    <2>1. orders[o].volume \in Int /\ orders[o].price \in Int
      <3>1. orders[o] \in OrderRow
        BY RowsAsTyped
      <3>2. orders[o].volume \in Nat /\ orders[o].price \in Prices
        BY <3>1 DEF OrderRow
      <3>3. orders[o].price \in Nat
        BY <3>2, BookAssumption
      <3> QED  BY <3>2, <3>3
    <2>2. Remaining(o) \in Int
      BY <2>1, FilledNat DEF Remaining
    <2> QED  BY <2>1, <2>2
  <1>3. FrozenCash \in Int
    <2> DEFINE due == [o \in Buys |-> Remaining(o) * orders[o].price]
    <2>1. Buys \subseteq DOMAIN orders
      BY DEF Buys, OpenAtProvider
    <2>2. IsFiniteSet(Buys) /\ \A o \in Buys : due[o] \in Int
      BY <1>1, <1>2, <2>1, FS_Subset
    <2>3. FrozenCash = Sum(due, Buys)
      BY DEF FrozenCash, Sum
    <2> HIDE DEF due
    <2>4. Integral(due, Buys)
      BY <2>2 DEF Integral
    <2> QED  BY <2>3, <2>4, SumInt
  <1>4. ASSUME NEW c
        PROVE  FrozenShares(c) \in Int
    <2> DEFINE S == Sells(c)
               left == [o \in S |-> Remaining(o)]
    <2>1. S \subseteq DOMAIN orders
      BY DEF Sells, OpenAtProvider
    <2>2. FrozenShares(c) = Sum(left, S)
      BY DEF FrozenShares, Sum
    <2> HIDE DEF S
    <2>3. IsFiniteSet(S) /\ \A o \in S : left[o] \in Int
      BY <1>1, <1>2, <2>1, FS_Subset
    <2> HIDE DEF left
    <2>4. Integral(left, S)
      BY <2>3 DEF Integral
    <2> QED  BY <2>2, <2>4, SumInt
  <1> QED  BY <1>3, <1>4

LEMMA AccountCountable ==
  ASSUME RowsTyped, NEW event, NEW c, NEW side
  PROVE  Countable(Account(event, c, side))
  <1>1. Sum(Spend, Executed) \in Int /\ Sum(Fee, Executed) \in Int /\ Sum(Signed, Executed) \in Int
    BY SumsOverExecutions, SumInt
  <1>2. ASSUME NEW S \in SUBSET Executed
        PROVE  Sum(Signed, S) \in Int /\ Sum(Volume, S) \in Int
    BY SumsOverExecutions, SumInt
  <1>3. Cash \in Int
    <2>1. Cash0 \in Int /\ deposited \in Int
      BY BookAssumption DEF RowsTyped
    <2> QED  BY <1>1, <2>1 DEF Cash, Sum
  <1>4. MarketValue \in Int
    <2>1. SumFunction(Signed) = Sum(Signed, Executed)
      BY DEF SumFunction, Sum, SumFunctionOnSet, FoldFunction, Signed
    <2>2. Mark \in Int
      BY BookAssumption
    <2> QED  BY <1>1, <2>1, <2>2 DEF MarketValue
  <1>5. Nav \in Int
    BY <1>3, <1>4 DEF Nav
  <1>6. Held(c) \in Int
    <2>1. {i \in Executed : Code(i) = c} \in SUBSET Executed
      OBVIOUS
    <2> QED  BY <1>2, <2>1 DEF Held, Sum
  <1>7. BoughtToday(c) \in Int
    <2>1. {i \in Executed : Code(i) = c /\ Signed[i] > 0 /\ fills[i].day = day} \in SUBSET Executed
      OBVIOUS
    <2> QED  BY <1>2, <2>1 DEF BoughtToday, Sum
  <1>8. Available(c) \in Int /\ AvailableCash \in Int
    BY <1>3, <1>6, <1>7, FrozenInt DEF Available, AvailableCash
  <1>9. Mark * Held(c) \in Int
    BY <1>6, BookAssumption
  <1>10. SafeRatio(MarketValue, Nav) \in Int /\ SafeRatio(Mark * Held(c), Nav) \in Int
    BY <1>4, <1>5, <1>9, RatioInt
  <1>11. /\ Account(event, c, side).nav = Nav /\ Account(event, c, side).cash = AvailableCash
         /\ Account(event, c, side).available = Available(c)
         /\ Account(event, c, side).totalRatio = SafeRatio(MarketValue, Nav)
         /\ Account(event, c, side).symbolRatio = SafeRatio(Mark * Held(c), Nav)
    BY DEF Account
  <1> QED  BY <1>3, <1>5, <1>8, <1>10, <1>11 DEF Countable

LEMMA NavInt ==
  ASSUME RowsTyped
  PROVE  Nav \in Int
  <1>1. Account(0, 0, "BUY").nav = Nav
    BY DEF Account
  <1> QED  BY <1>1, AccountCountable DEF Countable

\* What an approved verdict orders.
LEMMA VerdictVolume ==
  ASSUME RowsTyped, NEW side, NEW c, NEW event, NEW key, NEW price \in Prices, NEW ratio \in Nat,
         NEW proposed, BoardOf(c) \in DOMAIN Units => proposed \in Nat,
         Verdict(side, c, event, key, price, ratio, proposed).approved
  PROVE  Verdict(side, c, event, key, price, ratio, proposed).volume \in Nat \ {0}
  <1> DEFINE s == Parse(c, "", "", "")
             i == [side |-> side, price |-> price, ratio |-> ratio, volume |-> proposed, uat |-> key # 0,
                   asset |-> s.asset, market |-> s.market, board |-> s.board]
             a == Account(event, c, side)
             b == BoardOf(c)
  <1>1. Verdict(side, c, event, key, price, ratio, proposed) = Evaluate(i, a)
    BY DEF Verdict
  <1>2. /\ i.side = side /\ i.price = price /\ i.ratio = ratio /\ i.volume = proposed /\ i.board = b
    BY DEF BoardOf
  <1>3. Countable(a)
    BY AccountCountable
  <1>4. price \in Nat \ {0}
    BY BookAssumption
  <1> HIDE DEF i, a, b, s
  <1>5. LET volume == TradingVolume(i.side, i.price, a, i.ratio, i.volume, Units[i.board]) IN
        Evaluate(i, a).volume = volume /\ volume > 0 /\ i.board \in DOMAIN Units
    BY <1>1, ApprovedVolume
  <1>6. b \in DOMAIN Units /\ proposed \in Nat
    BY <1>2, <1>5 DEF b
  <1> DEFINE v == TradingVolume(side, price, a, ratio, proposed, Units[b])
  <1>7. v \in Int
    BY <1>3, <1>4, <1>6, VolumeInt
  <1> HIDE DEF v
  <1>8. Evaluate(i, a).volume = v /\ v > 0
    BY <1>2, <1>5 DEF v
  <1> QED  BY <1>1, <1>7, <1>8

\* The order that was decided on is created.
LEMMA CreateStep ==
  ASSUME BookInv, DecisionStands, CreateOrder
  PROVE  BookInv'
  <1>0. PICK side \in Sides, c \in Codes, event \in Events \union {0}, key \in Keys \union {0},
             price \in Prices, volume \in Nat \ {0} :
          /\ orders' = Append(orders, [side |-> side, code |-> c, event |-> event, uat |-> key, price |-> price,
                                       volume |-> volume, day |-> day, final |-> "NO", told |-> 0,
                                       status |-> "OPEN"])
          /\ UNCHANGED <<day, deposited, fills, rows, snapshot, capable>>
          /\ key = 0 => capable[BoardOf(c)] # "NO"
    BY DEF CreateOrder, DecisionStands
  <1> DEFINE row == [side |-> side, code |-> c, event |-> event, uat |-> key, price |-> price,
                     volume |-> volume, day |-> day, final |-> "NO", told |-> 0, status |-> "OPEN"]
             n == Len(orders) + 1
  <1>1. orders \in Seq(OrderRow) /\ row \in OrderRow /\ orders' = Append(orders, row)
    BY <1>0 DEF BookInv, RowsTyped, OrderRow
  <1>2. /\ orders' \in Seq(OrderRow) /\ Len(orders') \in Nat /\ DOMAIN orders' = 1..Len(orders')
        /\ n \notin DOMAIN orders /\ DOMAIN orders' = DOMAIN orders \union {n}
        /\ orders'[n] = row /\ \A o \in DOMAIN orders : orders'[o] = orders[o]
        /\ \A o \in DOMAIN orders : o \in Nat /\ o < n
    <2>1. orders' \in Seq(OrderRow) /\ Len(orders') = n /\ n \in Nat
      BY <1>1
    <2> QED  BY <1>1, <2>1
  <1>3. /\ Executed' = Executed /\ Fee' = Fee /\ Imported' = Imported
        /\ \A o : Fills(o)' = Fills(o) /\ FilledAtProvider(o)' = FilledAtProvider(o)
    BY <1>0, FillsKept DEF Imported
  <1> HIDE DEF n, row
  <1>4. FilledAtProvider(n) = 0
    <2>1. Fills(n) = {}
      BY <1>2 DEF Fills, BookInv, RowsTyped
    <2> QED  BY <2>1, SumOfNone DEF FilledAtProvider, Sum
  <1>5. row.volume \in Nat \ {0} /\ row.final = "NO" /\ row.told = 0 /\ row.status = "OPEN"
        /\ row.uat = key /\ row.code = c
    BY DEF row
  <1>6. RowsTyped'
    BY <1>0, <1>2, <1>3 DEF BookInv, RowsTyped
  <1>7. NeverOverfilled'
    <2>1. ASSUME NEW o \in DOMAIN orders'
          PROVE  /\ FilledAtProvider(o) <= orders'[o].volume
                 /\ orders'[o].final = "NO" => FilledAtProvider(o) < orders'[o].volume
      <3>1. CASE o \in DOMAIN orders
        <4>1. orders'[o] = orders[o]
          BY <1>2, <3>1
        <4> QED  BY <3>1, <4>1 DEF BookInv, NeverOverfilled
      <3>2. CASE o = n
        <4>1. orders'[n] = row
          BY <1>2
        <4>2. FilledAtProvider(n) < row.volume /\ FilledAtProvider(n) <= row.volume
          BY <1>4, <1>5
        <4> QED  BY <3>2, <4>1, <4>2
      <3> QED  BY <1>2, <2>1, <3>1, <3>2
    <2>2. \A o : FilledAtProvider(o)' = FilledAtProvider(o)
      BY <1>3
    <2> QED  BY <2>1, <2>2 DEF NeverOverfilled
  <1>8. ToldIsTrue'
    <2>1. ASSUME NEW o \in DOMAIN orders'
          PROVE  /\ orders'[o].told <= FilledAtProvider(o)
                 /\ orders'[o].status # "OPEN" =>
                      orders'[o].final # "NO" /\ orders'[o].told = FilledAtProvider(o)
      <3>1. CASE o \in DOMAIN orders
        <4>1. orders'[o] = orders[o]
          BY <1>2, <3>1
        <4> QED  BY <3>1, <4>1 DEF BookInv, ToldIsTrue
      <3>2. CASE o = n
        <4>1. orders'[n] = row
          BY <1>2
        <4>2. row.told <= FilledAtProvider(n)
          BY <1>4, <1>5
        <4> QED  BY <1>5, <3>2, <4>1, <4>2
      <3> QED  BY <1>2, <2>1, <3>1, <3>2
    <2>2. \A o : FilledAtProvider(o)' = FilledAtProvider(o)
      BY <1>3
    <2> QED  BY <2>1, <2>2 DEF ToldIsTrue
  <1>9. SnapshotIsPast'
    <2>1. UNCHANGED snapshot /\ Len(fills') = Len(fills) /\ Len(fills) \in Nat
      BY <1>0, RowsAsTyped DEF BookInv
    <2>2. Imported' = Imported /\ \A i \in Executed : Fee'[i] = Fee[i]
      BY <1>3
    <2>3. \A o \in DOMAIN orders :
            o \in DOMAIN orders' /\ (orders[o].final # "NO" => orders'[o].final # "NO")
      BY <1>2
    <2> QED  BY <1>0, <2>1, <2>2, <2>3, SnapshotStays
  <1>10. FeesAreTrue' /\ DaysInOrder'
    BY <1>0, <1>3 DEF BookInv, FeesAreTrue, RowFee, DaysInOrder
  <1>11. Onward
    BY <1>0, <1>2, <1>3 DEF Onward
  <1>12. BoardsSettled'
    <2>1. DOMAIN orders' \ DOMAIN orders = {n} /\ orders'[n].uat = key /\ orders'[n].code = c
      BY <1>2, <1>5
    <2>2. ASSUME key = 0
          PROVE  \/ capable[BoardOf(c)] = "EARLIER"
                 \/ \E buy, sell \in DOMAIN orders : buy < n /\ sell < n /\ Settled(BoardOf(c), buy, sell)
      <3>1. BoardOf(c) \in TradedBoards
        BY DEF TradedBoards
      <3>2. capable[BoardOf(c)] \in {"EARLIER", "UAT"}
        BY <1>0, <2>2, <3>1 DEF BookInv, RowsTyped
      <3> QED  BY <1>2, <3>1, <3>2 DEF BookInv, BoardsSettled
    <2> QED  BY <1>0, <1>2, <1>11, <2>1, <2>2, BoardsGoOn
  <1> QED  BY <1>6, <1>7, <1>8, <1>9, <1>10, <1>12 DEF BookInv

\* What an evaluation decides on.
Decided ==
  /\ UNCHANGED <<day, deposited, orders, fills, rows, snapshot, capable>>
  /\ MayEvaluate(decision'.side, decision'.code)
  /\ decision'.side \in Sides /\ decision'.code \in Codes /\ decision'.event \in Events \union {0}
  /\ decision'.uat \in Keys \union {0} /\ decision'.price \in Prices /\ decision'.volume \in Nat \ {0}
  /\ decision'.upto = Len(fills) /\ decision'.charged = SumFunctionOnSet(Fee, Executed) /\ decision'.nav = Nav
  /\ decision'.uat = 0 => capable[BoardOf(decision'.code)] # "NO"

LEMMA EvaluateIntentDecides ==
  ASSUME BookInv, NEW side \in Sides, NEW c \in Codes, NEW event \in Events \union {0}, NEW price \in Prices,
         EvaluateIntent(side, c, event, price)
  PROVE  /\ Decided
         /\ decision'.side = side /\ decision'.price = price
         /\ decision'.volume = Verdict(side, c, event, 0, price, AutoRatio, 0).volume
  <1> DEFINE volume == Verdict(side, c, event, 0, price, AutoRatio, 0).volume
  <1>1. volume \in Nat \ {0}
    BY VerdictVolume, BookAssumption DEF EvaluateIntent, BookInv
  <1>2. /\ Decide(side, c, event, 0, price, volume) /\ capable[BoardOf(c)] # "NO" /\ MayEvaluate(side, c)
        /\ UNCHANGED <<day, deposited, orders, fills, rows, snapshot, capable>>
    BY DEF EvaluateIntent
  <1> HIDE DEF volume
  <1>3. Decided /\ decision'.side = side /\ decision'.price = price /\ decision'.volume = volume
    BY <1>1, <1>2 DEF Decide, Decided
  <1> QED  BY <1>3 DEF volume

LEMMA OneLotUATDecides ==
  ASSUME BookInv, NEW side \in Sides, NEW c \in Codes, NEW key \in Keys, NEW price \in Prices,
         ExecuteOneLotUAT(side, c, key, price)
  PROVE  /\ Decided
         /\ decision'.side = side /\ decision'.price = price
         /\ decision'.volume = Verdict(side, c, 0, key, price, UATRatio, Units[BoardOf(c)].minBuy).volume
  <1> DEFINE unit == Units[BoardOf(c)].minBuy
             volume == Verdict(side, c, 0, key, price, UATRatio, unit).volume
  <1>1. BoardOf(c) \in DOMAIN Units => unit \in Nat
    BY Unit
  <1>2. /\ Verdict(side, c, 0, key, price, UATRatio, unit).approved
        /\ Decide(side, c, 0, key, price, volume) /\ MayEvaluate(side, c)
        /\ UNCHANGED <<day, deposited, orders, fills, rows, snapshot, capable>>
    BY DEF ExecuteOneLotUAT
  <1> HIDE DEF unit
  <1>3. volume \in Nat \ {0}
    BY <1>1, <1>2, VerdictVolume, BookAssumption DEF BookInv
  <1> HIDE DEF volume
  <1>4. key # 0
    BY BookAssumption
  <1>5. Decided /\ decision'.side = side /\ decision'.price = price /\ decision'.volume = volume
    BY <1>2, <1>3, <1>4 DEF Decide, Decided
  <1> QED  BY <1>5 DEF volume, unit

LEMMA TradeDecides ==
  ASSUME BookInv, Trade
  PROVE  Decided \/ CreateOrder \/ DeferDecision
  <1>1. "BUY" \in Sides /\ "SELL" \in Sides /\ Events \subseteq Events \union {0} /\ 0 \in Events \union {0}
    BY DEF Sides
  <1> QED  BY <1>1, EvaluateIntentDecides, OneLotUATDecides DEF Trade

LEMMA SameLength ==
  ASSUME NEW m \in Nat, NEW n \in Nat, 1..m = 1..n
  PROVE  m = n
  <1>1. CASE m < n
    <2>1. n \in 1..n /\ n \notin 1..m
      BY <1>1
    <2> QED  BY <2>1
  <1>2. CASE n < m
    <2>1. m \in 1..m /\ m \notin 1..n
      BY <1>2
    <2> QED  BY <2>1
  <1> QED  BY <1>1, <1>2

\* Steps that leave an order that was decided on as it is.
LEMMA DecisionGoesOn ==
  ASSUME AccountInv, UNCHANGED decision, Len(orders') = Len(orders), DOMAIN orders' = DOMAIN orders,
         \A o \in DOMAIN orders : orders'[o].status = "OPEN" => orders[o].status = "OPEN",
         \A b \in TradedBoards : capable[b] # "NO" => capable'[b] # "NO",
         \A i \in Executed' : IF i \in Executed THEN fills'[i] = fills[i] ELSE fills'[i].order = Len(orders)
  PROVE  DecisionStands' /\ LastOpens'
  <1>1. LastOpens'
    BY DEF AccountInv, LastOpens, LocalOpen
  <1>2. CASE decision = NoDecision
    BY <1>1, <1>2 DEF DecisionStands
  <1>3. CASE decision # NoDecision
    <2>1. BoardOf(decision.code) \in TradedBoards
      BY <1>3 DEF AccountInv, DecisionStands, TradedBoards
    <2>2. \A i \in Executed' : i > decision.upto => fills'[i].order = Len(orders)
      BY <1>3 DEF AccountInv, DecisionStands
    <2> QED  BY <1>1, <1>3, <2>1, <2>2 DEF AccountInv, DecisionStands
  <1> QED  BY <1>2, <1>3

-----------------------------------------------------------------------------
(* The theorems.                                                           *)

LEMMA BookInit == Init => BookInv
  <1> SUFFICES ASSUME Init
               PROVE  BookInv
    OBVIOUS
  <1>1. /\ day = 1 /\ deposited = 0 /\ orders = <<>> /\ fills = <<>> /\ rows = <<>> /\ snapshot = None
        /\ capable \in {[b \in TradedBoards |-> e] : e \in {"NO", "EARLIER"}}
    BY DEF Init
  <1>2. DOMAIN orders = {} /\ Executed = {} /\ Imported = {} /\ orders \in Seq(OrderRow) /\ fills \in Seq(FillRow)
    BY <1>1 DEF Executed, Imported
  <1>3. capable \in [TradedBoards -> {"NO", "EARLIER"}]
    BY <1>1
  <1>4. RowsTyped
    <2>1. capable \in [TradedBoards -> {"NO", "EARLIER", "UAT"}]
      BY <1>3
    <2> QED  BY <1>1, <1>2, <2>1 DEF RowsTyped
  <1>5. NeverOverfilled /\ ToldIsTrue /\ SnapshotIsPast /\ FeesAreTrue /\ DaysInOrder
    BY <1>1, <1>2 DEF NeverOverfilled, ToldIsTrue, SnapshotIsPast, FeesAreTrue, DaysInOrder
  <1>6. BoardsSettled
    BY <1>2, <1>3 DEF BoardsSettled
  <1> QED  BY <1>4, <1>5, <1>6 DEF BookInv

LEMMA AccountInit == Init => AccountInv
  <1> SUFFICES ASSUME Init
               PROVE  DecisionStands /\ LastOpens
    BY BookInit DEF AccountInv
  <1>1. decision = NoDecision /\ LocalOpen = {}
    BY DEF Init, LocalOpen
  <1> QED  BY <1>1 DEF DecisionStands, LastOpens

LEMMA TradeStep ==
  ASSUME AccountInv, Trade
  PROVE  AccountInv'
  <1>1. BookInv
    BY DEF AccountInv
  <1>2. CASE Decided \/ DeferDecision
    <2>1. UNCHANGED <<day, deposited, orders, fills, rows, snapshot, capable>>
      BY <1>2 DEF Decided, DeferDecision
    <2>2. BookInv'
      <3>1. day' \in Nat /\ day <= day' /\ deposited' \in Nat
        BY <1>1, <2>1 DEF BookInv, RowsTyped
      <3> QED  BY <1>1, <2>1, <3>1, ElsewhereStep
    <2>3. LastOpens'
      BY <2>1 DEF AccountInv, LastOpens, LocalOpen
    <2>4. DecisionStands'
      <3>1. CASE DeferDecision
        BY <3>1 DEF DeferDecision, DecisionStands
      <3>2. CASE Decided
        <4>1. decision'.charged \in Nat
          BY <1>1, <3>2, SumsOverExecutions DEF Decided, BookInv, Sum
        <4>2. decision'.nav \in Int
          BY <1>1, <3>2, NavInt DEF Decided, BookInv
        <4>3. Len(fills) \in Nat /\ \A i \in Executed : i \in Nat /\ ~(i > Len(fills))
          BY <1>1, RowsAsTyped DEF BookInv
        <4>4. Executed' = Executed
          BY <2>1 DEF Executed
        <4> QED  BY <2>1, <3>2, <4>1, <4>2, <4>3, <4>4 DEF Decided, DecisionStands
      <3> QED  BY <1>2, <3>1, <3>2
    <2> QED  BY <2>2, <2>3, <2>4 DEF AccountInv
  <1>3. CASE CreateOrder
    <2>1. BookInv'
      BY <1>3, CreateStep DEF AccountInv
    <2>2. DecisionStands'
      BY <1>3 DEF CreateOrder, DecisionStands
    <2>3. LastOpens'
      <3>1. PICK row : orders' = Append(orders, row)
        BY <1>3 DEF CreateOrder
      <3>2. orders \in Seq(OrderRow) /\ \A o \in DOMAIN orders : orders[o].status # "OPEN"
        BY <1>1, <1>3 DEF BookInv, RowsTyped, CreateOrder, MayCreate, LocalOpen
      <3>3. \A o \in DOMAIN orders' : o = Len(orders') \/ (o \in DOMAIN orders /\ orders'[o] = orders[o])
        BY <3>1, <3>2
      <3> QED  BY <3>2, <3>3 DEF LastOpens, LocalOpen
    <2> QED  BY <2>1, <2>2, <2>3 DEF AccountInv
  <1> QED  BY <1>1, <1>2, <1>3, TradeDecides

\* All but deciding on orders and creating them.
Others ==
  \/ Provide \/ Told \/ TakeSnapshot \/ Recover \/ ReconcileWrites
  \/ \E b \in TradedBoards : VerifyBoardAcceptance(b)
  \/ UNCHANGED vars

LEMMA OthersStep ==
  ASSUME BookInv, Others
  PROVE  BookInv'
  <1>1. CASE Provide
    BY <1>1, ExecuteStep, CancelStep, CalendarStep DEF Provide
  <1>2. CASE Told
    BY <1>2, ExecutionReportStep, OrderStatusStep DEF Told, Executed
  <1>3. CASE TakeSnapshot
    BY <1>3, TakeSnapshotStep
  <1>4. CASE Recover
    BY <1>4, RecoverStep
  <1>5. CASE ReconcileWrites
    BY <1>5, ReconcileWritesStep
  <1>6. CASE \E b \in TradedBoards : VerifyBoardAcceptance(b)
    BY <1>6, VerifyBoardStep
  <1>7. CASE UNCHANGED vars
    <2>1. day \in Nat /\ deposited \in Nat
      BY DEF BookInv, RowsTyped
    <2>2. UNCHANGED <<day, deposited>> /\ UNCHANGED <<orders, fills, rows, snapshot, capable>>
      BY <1>7 DEF vars
    <2>3. day' \in Nat /\ day <= day' /\ deposited' \in Nat
      BY <2>1, <2>2
    <2> QED  BY <2>2, <2>3, ElsewhereStep
  <1> QED  BY <1>1, <1>2, <1>3, <1>4, <1>5, <1>6, <1>7 DEF Others

\* What is merged into an order does not open it.
LEMMA MergedNotOpened ==
  ASSUME BookInv, NEW o \in DOMAIN orders, NEW rs, NEW final, Merged(o, rs, final).status = "OPEN"
  PROVE  orders[o].status = "OPEN"
  <1>1. orders[o] \in OrderRow
    BY RowsAsTyped DEF BookInv
  <1> QED  BY <1>1 DEF Merged, OrderRow

\* The orders after a step that tells the service of them.
LEMMA ToldOrders ==
  ASSUME BookInv, Told \/ Recover
  PROVE  /\ UNCHANGED <<decision, capable, fills, deposited>> /\ DOMAIN orders' = DOMAIN orders
         /\ \A o \in DOMAIN orders : \/ orders'[o] = orders[o]
                                     \/ \E rs, final : orders'[o] = Merged(o, rs, final)
  <1>1. CASE Recover
    BY <1>1 DEF Recover
  <1>2. CASE \E i \in DOMAIN fills : ExecutionReport(i)
    <2>1. PICK i \in DOMAIN fills : ExecutionReport(i)
      BY <1>2
    <2>2. orders' = [orders EXCEPT ![fills[i].order] = Merged(fills[i].order, rows', FALSE)]
          /\ UNCHANGED <<decision, capable, fills, deposited>>
      BY <2>1 DEF ExecutionReport
    <2> QED  BY <2>2
  <1>3. CASE \E o \in DOMAIN orders : OrderStatus(o)
    <2>1. PICK o \in DOMAIN orders : OrderStatus(o)
      BY <1>3
    <2>2. orders' = [orders EXCEPT ![o] = Merged(o, rows, TRUE)]
          /\ UNCHANGED <<decision, capable, fills, deposited>>
      BY <2>1 DEF OrderStatus
    <2> QED  BY <2>2
  <1> QED  BY <1>1, <1>2, <1>3 DEF Told

LEMMA OthersKeepDecision ==
  ASSUME AccountInv, BookInv', Others
  PROVE  DecisionStands' /\ LastOpens'
  <1>1. BookInv /\ Len(orders) \in Nat /\ DOMAIN orders = 1..Len(orders)
    BY RowsAsTyped DEF AccountInv, BookInv
  <1>2. Len(orders') \in Nat /\ DOMAIN orders' = 1..Len(orders')
    BY DEF BookInv, RowsTyped
  <1>3. DOMAIN orders' = DOMAIN orders => Len(orders') = Len(orders)
    BY <1>1, <1>2, SameLength
  <1>4. CASE TakeSnapshot \/ ReconcileWrites \/ NextDay \/ Deposits \/ UNCHANGED vars
    <2>1. UNCHANGED <<decision, orders, fills, capable>>
      BY <1>4 DEF TakeSnapshot, ReconcileWrites, NextDay, Deposits, vars
    <2> QED  BY <2>1, DecisionGoesOn DEF Executed
  <1>5. CASE \E b \in TradedBoards : VerifyBoardAcceptance(b)
    <2>1. PICK b \in TradedBoards : capable' = [capable EXCEPT ![b] = "UAT"]
                                    /\ UNCHANGED <<decision, orders, fills>>
      BY <1>5 DEF VerifyBoardAcceptance
    <2>2. capable \in [TradedBoards -> {"NO", "EARLIER", "UAT"}]
      BY <1>1 DEF BookInv, RowsTyped
    <2>3. \A x \in TradedBoards : capable[x] # "NO" => capable'[x] # "NO"
      BY <2>1, <2>2
    <2> QED  BY <2>1, <2>3, DecisionGoesOn DEF Executed
  <1>6. CASE Told \/ Recover
    <2>1. /\ UNCHANGED <<decision, capable, fills>> /\ DOMAIN orders' = DOMAIN orders
          /\ \A o \in DOMAIN orders : orders'[o].status = "OPEN" => orders[o].status = "OPEN"
      BY <1>1, <1>6, ToldOrders, MergedNotOpened
    <2> QED  BY <1>3, <2>1, DecisionGoesOn DEF Executed
  <1>7. ASSUME NEW o \in DOMAIN orders, CancelAtProvider(o)
        PROVE  DecisionStands' /\ LastOpens'
    <2>1. orders[o].final = "NO" /\ orders' = [orders EXCEPT ![o].final = "CANCELED"]
          /\ UNCHANGED <<decision, capable, fills>>
      BY <1>7 DEF CancelAtProvider
    <2>2. /\ DOMAIN orders' = DOMAIN orders /\ orders'[o] = [orders[o] EXCEPT !.final = "CANCELED"]
          /\ \A p \in DOMAIN orders : p # o => orders'[p] = orders[p]
      BY <1>1, <2>1, OneEnds
    <2>3. orders[o].status = "OPEN"
      BY <1>1, <2>1, WorkedOn
    <2>4. \A p \in DOMAIN orders : orders'[p].status = "OPEN" => orders[p].status = "OPEN"
      BY <2>2, <2>3
    <2> QED  BY <1>3, <2>1, <2>2, <2>4, DecisionGoesOn DEF Executed
  <1>8. ASSUME NEW o \in DOMAIN orders, Execute(o)
        PROVE  DecisionStands' /\ LastOpens'
    <2>1. PICK v, row : /\ orders[o].final = "NO" /\ row.order = o /\ fills' = Append(fills, row)
                        /\ orders' = IF v THEN [orders EXCEPT ![o].final = "FILLED"] ELSE orders
                        /\ v \in BOOLEAN /\ UNCHANGED <<decision, capable>>
      <3>1. PICK v \in {Remaining(o), 1}, fee \in Fees :
              /\ orders[o].final = "NO"
              /\ fills' = Append(fills, [order |-> o, volume |-> v, fee |-> fee, day |-> day])
              /\ orders' = IF v = Remaining(o) THEN [orders EXCEPT ![o].final = "FILLED"] ELSE orders
              /\ UNCHANGED <<decision, capable>>
        BY <1>8 DEF Execute
      <3>2. PICK row : row = [order |-> o, volume |-> v, fee |-> fee, day |-> day]
        OBVIOUS
      <3> QED  BY <3>1, <3>2
    <2>2. orders[o].status = "OPEN"
      BY <1>1, <2>1, WorkedOn
    <2>3. o = Len(orders)
      BY <2>2 DEF AccountInv, LastOpens, LocalOpen
    <2>4. /\ DOMAIN orders' = DOMAIN orders
          /\ \A p \in DOMAIN orders : p # o => orders'[p] = orders[p]
      <3>1. CASE v
        BY <1>1, <2>1, <3>1, OneEnds
      <3>2. CASE ~v
        BY <2>1, <3>2
      <3> QED  BY <2>1, <3>1, <3>2
    <2>5. \A p \in DOMAIN orders : orders'[p].status = "OPEN" => orders[p].status = "OPEN"
      BY <2>2, <2>4
    <2>6. \A i \in Executed' : IF i \in Executed THEN fills'[i] = fills[i] ELSE fills'[i].order = Len(orders)
      BY <1>1, <2>1, <2>3 DEF Executed, BookInv, RowsTyped
    <2> QED  BY <1>3, <2>1, <2>4, <2>5, <2>6, DecisionGoesOn
  <1> QED  BY <1>4, <1>5, <1>6, <1>7, <1>8 DEF Others, Provide

LEMMA AccountStep == AccountInv /\ [Next]_vars => AccountInv'
  <1> SUFFICES ASSUME AccountInv, [Next]_vars
               PROVE  AccountInv'
    OBVIOUS
  <1>1. CASE Trade
    BY <1>1, TradeStep
  <1>2. CASE Others
    <2>1. BookInv'
      BY <1>2, OthersStep DEF AccountInv
    <2> QED  BY <1>2, <2>1, OthersKeepDecision DEF AccountInv
  <1> QED  BY <1>1, <1>2 DEF Next, Others

\* The inductive invariant of the account's books.
THEOREM AccountInvariance == Spec => []AccountInv
  <1> QED  BY AccountInit, AccountStep, PTL DEF Spec

\* Every fee the ledger calls verified is the one the provider charged, whatever the
\* executions, the order in which the service learns of them and the reconciliations
\* they overtake (commission.go).
THEOREM FeesVerifiedAreTrue == Spec => []FeesAreTrue
  <1>1. AccountInv => FeesAreTrue
    BY DEF AccountInv, BookInv
  <1> QED  BY <1>1, AccountInvariance, PTL

\* No automatic order on a board that was neither accepted earlier nor proven, with
\* the provider's own executions, by orders before it (board_acceptance.go).
THEOREM BoardsAcceptedFirst == Spec => []BoardsProvenFirst
  <1>1. AccountInv => BoardsProvenFirst
    BY DEF AccountInv, BookInv, BoardsSettled, BoardsProvenFirst, Settled
  <1> QED  BY <1>1, AccountInvariance, PTL

\* What is missing of one order would be missing in the holdings of its code.
LEMMA NothingMissing ==
  ASSUME RowsTyped, NEW o \in DOMAIN orders, Executed \ Imported \subseteq Fills(o),
         LedgerHeld(orders[o].code) = Held(orders[o].code)
  PROVE  Imported = Executed
  <1> DEFINE c == orders[o].code
             all == {i \in Executed : Code(i) = c}
             known == {i \in Imported : Code(i) = c}
             M == Executed \ Imported
             size == IF orders[o].side = "BUY" THEN 1 ELSE -1
  <1>1. Imported \subseteq Executed
    BY DEF RowsTyped
  <1>2. known \in SUBSET all /\ all \ known = M
    <2>1. \A i \in M : Code(i) = c
      BY DEF Code, Fills
    <2> QED  BY <1>1, <2>1
  <1>3. all \in SUBSET Executed /\ M \in SUBSET Executed
    OBVIOUS
  <1>4. \A i \in M : Signed[i] = IF orders[o].side = "BUY" THEN Volume[i] ELSE -Volume[i]
    BY DEF Signed, Volume, Fills
  <1>5. Sum(Signed, all) = Held(c) /\ Sum(Signed, known) = LedgerHeld(c)
    BY DEF Held, LedgerHeld, Sum
  <1> HIDE DEF all, known, M
  <1>6. Integral(Signed, all) /\ IsFiniteSet(M) /\ Integral(Volume, M) /\ Integral(Signed, M)
    BY <1>3, SumsOverExecutions
  <1>7. Sum(Signed, all) = Sum(Signed, known) + Sum(Signed, M) /\ Integral(Signed, known)
    BY <1>2, <1>6, SumSplit
  <1>8. Sum(Signed, M) = 0
    <2>1. Sum(Signed, known) \in Int /\ Sum(Signed, M) \in Int
      BY <1>6, <1>7, SumInt
    <2> QED  BY <1>5, <1>7, <2>1
  <1>9. ASSUME M # {}
        PROVE  FALSE
    <2>1. PICK x \in M : TRUE
      BY <1>9
    <2>2. \A i \in M : Volume[i] \in Nat \ {0}
      BY <1>3, OfEachExecution
    <2>3. CASE orders[o].side = "BUY"
      <3>1. \A i \in M : Signed[i] = Volume[i] /\ Signed[i] \in Nat
        BY <1>4, <2>2, <2>3
      <3> QED  BY <1>6, <1>8, <2>1, <2>2, <3>1, SumNat
    <2>4. CASE orders[o].side # "BUY"
      <3>1. \A i \in M : Minus(Signed, M)[i] = Volume[i] /\ Volume[i] \in Nat
        BY <1>4, <2>2, <2>4 DEF Minus
      <3>2. UnitsOf(Signed, M) = {}
        BY <1>4, <2>2, <2>4 DEF UnitsOf
      <3>3. Balance(Signed, M) = 0 - Cardinality(UnitsOf(Minus(Signed, M), M))
        BY <3>2, FS_EmptySet DEF Balance
      <3>4. Balance(Volume, M) = Cardinality(UnitsOf(Volume, M))
        <4>1. UnitsOf(Minus(Volume, M), M) = {}
          BY <2>2 DEF UnitsOf, Minus
        <4>2. IsFiniteSet(UnitsOf(Volume, M))
          BY <1>6, UnitsFinite
        <4>3. Cardinality(UnitsOf(Volume, M)) \in Nat
          BY <4>2, FS_CardinalityType
        <4> QED  BY <4>1, <4>3, FS_EmptySet DEF Balance
      <3>5. UnitsOf(Minus(Signed, M), M) = UnitsOf(Volume, M)
        BY <3>1 DEF UnitsOf
      <3>6. Sum(Volume, M) = 0
        <4>1. Sum(Signed, M) = Balance(Signed, M) /\ Sum(Volume, M) = Balance(Volume, M)
          BY <1>6, SumIsBalance
        <4>2. Sum(Volume, M) \in Int
          BY <1>6, SumInt
        <4> QED  BY <1>8, <3>3, <3>4, <3>5, <4>1, <4>2
      <3> QED  BY <1>6, <2>1, <2>2, <3>1, <3>6, SumNat
    <2> QED  BY <2>3, <2>4
  <1> QED  BY <1>1, <1>9 DEF M

\* Books that agree are the provider's account, whether or not an order is open.
LEMMA AgreedBooks ==
  ASSUME AccountInv, LedgerAgrees
  PROVE  deposited = 0 /\ Imported = Executed /\ \A i \in Imported : RowFee[i] = Fee[i]
  <1>0. BookInv
    BY DEF AccountInv
  <1>1. \A o \in DOMAIN orders : orders[o].status # "OPEN" => Fills(o) \subseteq Imported
    BY <1>0, AllImported DEF LedgerAgrees
  <1>2. Imported = Executed
    <2>1. Imported \subseteq Executed /\ \A i \in Executed : fills[i].order \in DOMAIN orders
      BY <1>0 DEF BookInv, RowsTyped
    <2>2. CASE LocalOpen = {}
      BY <1>1, <2>1, <2>2 DEF LocalOpen, Fills
    <2>3. CASE LocalOpen # {}
      <3>1. PICK o \in LocalOpen : TRUE
        BY <2>3
      <3>2. o \in DOMAIN orders /\ \A p \in DOMAIN orders : orders[p].status = "OPEN" => p = o
        BY <3>1 DEF AccountInv, LastOpens, LocalOpen
      <3>3. Executed \ Imported \subseteq Fills(o)
        BY <1>1, <2>1, <3>2 DEF Fills
      <3>4. orders[o].code \in Codes
        BY <1>0, <3>2, RowsAsTyped DEF BookInv, OrderRow
      <3>5. LedgerHeld(orders[o].code) = Held(orders[o].code)
        BY <3>4 DEF LedgerAgrees
      <3> QED  BY <1>0, <3>2, <3>3, <3>5, NothingMissing DEF BookInv
    <2> QED  BY <2>2, <2>3
  <1>3. \A i \in Imported : RowFee[i] = Fee[i]
    BY <1>0 DEF LedgerAgrees, BookInv, FeesAreTrue
  <1>4. deposited = 0
    <2> DEFINE spend == SumFunctionOnSet(Spend, Executed)
               fee == SumFunctionOnSet(Fee, Executed)
    <2>1. spend \in Int /\ fee \in Int
      BY <1>0, SumsOverExecutions, SumInt DEF BookInv, Sum
    <2>2. Cash0 \in Int /\ deposited \in Int
      BY <1>0, BookAssumption DEF BookInv, RowsTyped
    <2>3. SumFunctionOnSet(RowFee, Imported) = fee /\ SumFunctionOnSet(Spend, Imported) = spend
      BY <1>2 DEF LedgerAgrees
    <2>4. LedgerCash = Cash0 - spend - fee /\ Cash = Cash0 + deposited - spend - fee
      BY <2>3 DEF LedgerCash, Cash
    <2>5. LedgerCash = Cash
      BY DEF LedgerAgrees
    <2> HIDE DEF spend, fee
    <2> QED  BY <2>1, <2>2, <2>4, <2>5
  <1> QED  BY <1>2, <1>3, <1>4

\* Only a step of Trade decides, and only CreateOrder creates.
LEMMA OthersDecideNothing ==
  ASSUME BookInv, BookInv', Others
  PROVE  decision' = decision /\ Len(orders') = Len(orders)
  <1>1. Len(orders) \in Nat /\ DOMAIN orders = 1..Len(orders) /\ Len(orders') \in Nat
        /\ DOMAIN orders' = 1..Len(orders')
    BY DEF BookInv, RowsTyped
  <1>2. decision' = decision /\ DOMAIN orders' = DOMAIN orders
    BY ToldOrders DEF Others, vars, Provide, Execute, CancelAtProvider, Deposits, NextDay, TakeSnapshot,
                      ReconcileWrites, VerifyBoardAcceptance
  <1> QED  BY <1>1, <1>2, SameLength

\* An order is decided on only while the ledger is the provider's account, with every
\* fee and no cash from elsewhere; when it is created, every order has ended and is
\* told as it ended, and only the one that was open then has executed since
\* (ledger_reconciliation.go, service.go).
THEOREM TrueBooks == Spec => OrdersOnTrueBooks
  <1> DEFINE
        Sound == /\ decision' \notin {decision, NoDecision} =>
                      /\ deposited = 0 /\ Imported = Executed
                      /\ \A i \in Imported : RowFee[i] = Fee[i]
                 /\ Len(orders') > Len(orders) =>
                      /\ \A i \in Executed : i > decision.upto => fills[i].order = Len(orders)
                      /\ OpenAtProvider = {}
                      /\ \A o \in DOMAIN orders : orders[o].told = FilledAtProvider(o)
  <1>1. ASSUME AccountInv, AccountInv', [Next]_vars
        PROVE  Sound
    <2>1. BookInv /\ BookInv' /\ Len(orders) \in Nat
      BY <1>1, RowsAsTyped DEF AccountInv, BookInv
    <2>2. CASE Others
      <3>1. decision' = decision /\ Len(orders') = Len(orders)
        BY <2>1, <2>2, OthersDecideNothing
      <3> QED  BY <2>1, <3>1
    <2>3. CASE Decided
      <3>1. LedgerAgrees /\ Len(orders') = Len(orders)
        BY <2>3 DEF Decided, MayEvaluate
      <3> QED  BY <1>1, <2>1, <3>1, AgreedBooks
    <2>4. CASE DeferDecision
      <3>1. decision' = NoDecision /\ Len(orders') = Len(orders)
        BY <2>4 DEF DeferDecision
      <3> QED  BY <2>1, <3>1
    <2>5. CASE CreateOrder
      <3>1. decision # NoDecision /\ decision' = NoDecision /\ LocalOpen = {}
        BY <2>5 DEF CreateOrder, MayCreate
      <3>2. \A o \in DOMAIN orders : orders[o].final # "NO" /\ orders[o].told = FilledAtProvider(o)
        BY <2>1, <3>1 DEF LocalOpen, BookInv, ToldIsTrue
      <3>3. OpenAtProvider = {}
        BY <3>2 DEF OpenAtProvider
      <3>4. \A i \in Executed : i > decision.upto => fills[i].order = Len(orders)
        BY <1>1, <3>1 DEF AccountInv, DecisionStands
      <3> QED  BY <3>1, <3>2, <3>3, <3>4
    <2> QED  BY <1>1, <2>1, <2>2, <2>3, <2>4, <2>5, TradeDecides DEF Next, Others
  <1>2. AccountInv /\ AccountInv' /\ [Next]_vars => [Sound]_vars
    BY <1>1
  <1> QED  BY <1>2, AccountInvariance, PTL DEF Spec, OrdersOnTrueBooks

-----------------------------------------------------------------------------
(***************************************************************************)
(* The reserve.  What the account has in cash and has not committed, its   *)
(* fees given back, falls only when an order is created.                   *)
(***************************************************************************)
Due == [o \in Buys |-> Remaining(o) * orders[o].price]
Committed == Sum(Due, Buys)
Spent == Sum(Spend, Executed)
Charged == Sum(Fee, Executed)
Uncommitted == Cash0 + deposited - Spent - Committed

LEMMA TotalsTyped ==
  ASSUME BookInv
  PROVE  /\ Spent \in Int /\ Charged \in Nat
         /\ IsFiniteSet(Buys) /\ (\A o \in Buys : Due[o] \in Nat) /\ Integral(Due, Buys) /\ Committed \in Nat
         /\ Cash0 \in Nat /\ deposited \in Nat /\ Uncommitted \in Int
         /\ Scale \in Nat /\ Risk.reserve \in Nat
  <1>1. Spent \in Int /\ Charged \in Nat
    BY SumsOverExecutions, SumInt DEF BookInv, Spent, Charged
  <1>2. IsFiniteSet(Buys)
    <2>1. Len(orders) \in Nat /\ DOMAIN orders = 1..Len(orders)
      BY RowsAsTyped DEF BookInv
    <2>2. IsFiniteSet(DOMAIN orders)
      BY <2>1, FS_Interval
    <2>3. Buys \subseteq DOMAIN orders
      BY DEF Buys, OpenAtProvider
    <2> QED  BY <2>2, <2>3, FS_Subset
  <1>3. ASSUME NEW o \in Buys
        PROVE  Due[o] \in Nat
    <2>1. o \in DOMAIN orders /\ orders[o].final = "NO"
      BY DEF Buys, OpenAtProvider
    <2>2. orders[o] \in OrderRow /\ FilledAtProvider(o) \in Nat /\ orders[o].volume \in Nat
          /\ FilledAtProvider(o) < orders[o].volume
      BY <2>1, WorkedOn
    <2>3. orders[o].price \in Nat
      BY <2>2, BookAssumption DEF OrderRow
    <2>4. Remaining(o) \in Nat
      BY <2>2 DEF Remaining
    <2>5. Remaining(o) * orders[o].price \in Nat
      BY <2>3, <2>4
    <2> QED  BY <2>5 DEF Due
  <1>4. Integral(Due, Buys) /\ Committed \in Nat
    BY <1>2, <1>3, SumNat DEF Committed
  <1>5. Cash0 \in Nat /\ deposited \in Nat
    BY BookAssumption DEF BookInv, RowsTyped
  <1>6. Scale \in Nat /\ Risk.reserve \in Nat
    BY BookAssumption, PolicyAssumption
  <1>7. Uncommitted \in Int
    BY <1>1, <1>4, <1>5 DEF Uncommitted
  <1> QED  BY <1>1, <1>2, <1>3, <1>4, <1>5, <1>6, <1>7

\* The cash that is available in these terms.
LEMMA CashInTerms ==
  ASSUME BookInv
  PROVE  AvailableCash = Uncommitted - Charged /\ Charged = SumFunctionOnSet(Fee, Executed)
  <1>1. Cash = Cash0 + deposited - Spent - Charged /\ Charged = SumFunctionOnSet(Fee, Executed)
    BY DEF Cash, Spent, Charged, Sum
  <1>2. FrozenCash = Committed
    BY DEF FrozenCash, Committed, Sum, Due
  <1> QED  BY <1>1, <1>2, TotalsTyped DEF AvailableCash, Uncommitted

\* What is neither executed nor ordered leaves the sums.
LEMMA SpentKept ==
  ASSUME UNCHANGED fills, \A i \in Executed : fills[i].order \in DOMAIN orders,
         \A o \in DOMAIN orders : orders'[o].side = orders[o].side /\ orders'[o].price = orders[o].price
  PROVE  Spent' = Spent
  <1>1. Executed' = Executed
    BY FillsKept
  <1>2. Signed' = Signed
    BY <1>1 DEF Signed
  <1>3. Spend' = Spend
    BY <1>1, <1>2 DEF Spend
  <1> QED  BY <1>1, <1>3 DEF Spent

LEMMA UncommittedKept ==
  ASSUME BookInv, UNCHANGED <<fills, deposited>>, DOMAIN orders' = DOMAIN orders,
         \A o \in DOMAIN orders : /\ orders'[o].side = orders[o].side /\ orders'[o].price = orders[o].price
                                  /\ orders'[o].volume = orders[o].volume /\ orders'[o].final = orders[o].final
  PROVE  Uncommitted' = Uncommitted
  <1>1. Spent' = Spent
    BY SpentKept DEF BookInv, RowsTyped
  <1>2. Buys' = Buys
    BY DEF Buys, OpenAtProvider
  <1>3. \A o \in Buys : Remaining(o)' = Remaining(o) /\ orders'[o].price = orders[o].price
    BY FillsKept DEF Remaining, Buys, OpenAtProvider
  <1>4. Due' = Due
    BY <1>2, <1>3 DEF Due
  <1>5. Committed' = Committed
    BY <1>2, <1>4 DEF Committed
  <1> QED  BY <1>1, <1>5 DEF Uncommitted

\* What every step that only tells of orders keeps of them.
LEMMA MergedKeeps ==
  ASSUME BookInv, NEW o \in DOMAIN orders, NEW rs, NEW final
  PROVE  /\ Merged(o, rs, final).side = orders[o].side /\ Merged(o, rs, final).price = orders[o].price
         /\ Merged(o, rs, final).volume = orders[o].volume /\ Merged(o, rs, final).final = orders[o].final
  <1>1. orders[o] \in OrderRow
    BY RowsAsTyped DEF BookInv
  <1> QED  BY <1>1 DEF Merged, OrderRow

\* Cash comes in from outside.
LEMMA DepositUncommits ==
  ASSUME BookInv, Deposits
  PROVE  Uncommitted' >= Uncommitted
  <1>1. deposited = 0 /\ deposited' = Deposit /\ UNCHANGED <<orders, fills>> /\ Deposit \in Nat
    BY BookAssumption DEF Deposits
  <1>2. Spent' = Spent
    BY <1>1, SpentKept DEF BookInv, RowsTyped
  <1>3. Buys' = Buys /\ Due' = Due
    BY <1>1, FillsKept DEF Buys, OpenAtProvider, Due, Remaining
  <1>4. Committed' = Committed
    BY <1>3 DEF Committed
  <1>5. Uncommitted' = Uncommitted + Deposit
    BY <1>1, <1>2, <1>4, TotalsTyped DEF Uncommitted
  <1> QED  BY <1>1, <1>5, TotalsTyped

\* A sum of which one element's value is new.
Extended(f, g, S, x) == x \notin S /\ Integral(f, S) /\ (\A i \in S : f[i] = g[i]) /\ g[x] \in Int

LEMMA SumExtended ==
  ASSUME NEW f, NEW g, NEW S, NEW x, Extended(f, g, S, x)
  PROVE  Sum(g, S \union {x}) = Sum(f, S) + g[x]
  <1> DEFINE T == S \union {x}
  <1>1. x \notin S /\ Integral(f, S) /\ (\A i \in S : f[i] = g[i]) /\ g[x] \in Int
    BY DEF Extended
  <1>2. Integral(g, S) /\ Sum(f, S) = Sum(g, S) /\ Sum(g, S) \in Int
    BY <1>1, SumSame, SumInt
  <1>3. Integral(g, T)
    BY <1>1, <1>2, FS_AddElement DEF Integral
  <1>4. x \in T /\ T \ {x} = S
    BY <1>1
  <1> HIDE DEF T
  <1>5. Sum(g, T) = g[x] + Sum(g, S)
    BY <1>3, <1>4, SumWithout
  <1> QED  BY <1>1, <1>2, <1>5 DEF T

\* What is committed, when one order is.
LEMMA CommittedMoves ==
  ASSUME BookInv, NEW o, Buys' \ {o} = Buys \ {o}, \A p \in Buys \ {o} : Due'[p] = Due[p],
         o \in Buys' => Due'[o] \in Int
  PROVE  Committed' = Committed - (IF o \in Buys THEN Due[o] ELSE 0) + (IF o \in Buys' THEN Due'[o] ELSE 0)
  <1> DEFINE R == Buys \ {o}
             before == IF o \in Buys THEN Due[o] ELSE 0
  <1>1. Integral(Due, Buys) /\ Committed = Sum(Due, Buys) /\ before \in Int
    BY TotalsTyped DEF Committed, Integral
  <1>2. Integral(Due, R) /\ Sum(Due, R) \in Int /\ Sum(Due, Buys) = before + Sum(Due, R)
    <2>1. CASE o \in Buys
      <3>1. Integral(Due, R) /\ Sum(Due, Buys) = Due[o] + Sum(Due, R)
        BY <1>1, <2>1, SumWithout
      <3> QED  BY <2>1, <3>1, SumInt
    <2>2. CASE o \notin Buys
      <3>1. R = Buys
        BY <2>2
      <3>2. Integral(Due, R) /\ Sum(Due, R) \in Int
        BY <1>1, <3>1, SumInt
      <3> HIDE DEF R
      <3> QED  BY <2>2, <3>1, <3>2
    <2> QED  BY <2>1, <2>2
  <1>3. o \notin R /\ (\A p \in R : Due[p] = Due'[p]) /\ Buys' = IF o \in Buys' THEN R \union {o} ELSE R
    OBVIOUS
  <1>4. Committed' = Sum(Due', Buys')
    BY DEF Committed, Sum
  <1> HIDE DEF R, before
  <1>5. CASE o \in Buys'
    <2>1. Due'[o] \in Int
      BY <1>5
    <2>2. ASSUME NEW g, g = Due'
          PROVE  Sum(g, R \union {o}) = Sum(Due, R) + g[o]
      <3>1. g[o] \in Int /\ \A p \in R : Due[p] = g[p]
        BY <1>3, <2>1, <2>2
      <3>2. Extended(Due, g, R, o)
        BY <1>2, <1>3, <3>1 DEF Extended
      <3> QED  BY <3>2, SumExtended
    <2>3. Committed' = Sum(Due, R) + Due'[o]
      BY <1>3, <1>4, <1>5, <2>2
    <2>4. Committed - before = Sum(Due, R)
      BY <1>1, <1>2
    <2> QED  BY <1>5, <2>3, <2>4 DEF before
  <1>6. CASE o \notin Buys'
    <2>1. Sum(Due, R) = Sum(Due', R)
      BY <1>2, <1>3, SumSame
    <2> QED  BY <1>1, <1>2, <1>3, <1>4, <1>6, <2>1 DEF before
  <1> QED  BY <1>5, <1>6

\* What is left of a canceled order is freed.
LEMMA CancelUncommits ==
  ASSUME BookInv, NEW o \in DOMAIN orders, CancelAtProvider(o)
  PROVE  Uncommitted' >= Uncommitted
  <1>1. /\ orders[o].final = "NO" /\ orders' = [orders EXCEPT ![o].final = "CANCELED"]
        /\ UNCHANGED <<deposited, fills>>
    BY DEF CancelAtProvider
  <1>2. /\ DOMAIN orders' = DOMAIN orders /\ orders'[o] = [orders[o] EXCEPT !.final = "CANCELED"]
        /\ orders[o] \in OrderRow
        /\ \A p \in DOMAIN orders : p # o => orders'[p] = orders[p]
    BY <1>1, OneEnds, WorkedOn
  <1>3. orders'[o].final = "CANCELED" /\ orders'[o].side = orders[o].side /\ orders'[o].price = orders[o].price
    BY <1>2 DEF OrderRow
  <1>4. Spent' = Spent
    BY <1>1, <1>2, <1>3, SpentKept DEF BookInv, RowsTyped
  <1>5. o \notin Buys' /\ Buys' \ {o} = Buys \ {o}
    BY <1>2, <1>3 DEF Buys, OpenAtProvider
  <1>6. ASSUME NEW p \in Buys \ {o}
        PROVE  Due'[p] = Due[p]
    <2>1. p \in DOMAIN orders /\ orders'[p] = orders[p] /\ FilledAtProvider(p)' = FilledAtProvider(p)
      BY <1>1, <1>2, FillsKept DEF Buys, OpenAtProvider
    <2>2. p \in Buys'
      BY <1>5
    <2> QED  BY <2>1, <2>2 DEF Due, Remaining
  <1> DEFINE freed == IF o \in Buys THEN Due[o] ELSE 0
  <1>7. freed \in Nat
    BY TotalsTyped
  <1>8. Committed' = Committed - freed
    <2>1. Committed' = Committed - freed + (IF o \in Buys' THEN Due'[o] ELSE 0)
      BY <1>5, <1>6, CommittedMoves
    <2>2. Committed - freed \in Int
      BY <1>7, TotalsTyped
    <2> QED  BY <1>5, <2>1, <2>2
  <1> HIDE DEF freed
  <1>9. Uncommitted' = Uncommitted + freed
    BY <1>1, <1>4, <1>7, <1>8, TotalsTyped DEF Uncommitted
  <1> QED  BY <1>7, <1>9, TotalsTyped

\* What an execution of the order o leaves of the orders.
LEMMA ExecutedOrder ==
  ASSUME BookInv, NEW o \in DOMAIN orders, orders[o].final = "NO", NEW ended \in BOOLEAN,
         orders' = IF ended THEN [orders EXCEPT ![o].final = "FILLED"] ELSE orders
  PROVE  /\ DOMAIN orders' = DOMAIN orders
         /\ \A p \in DOMAIN orders : /\ orders'[p].side = orders[p].side /\ orders'[p].price = orders[p].price
                                     /\ orders'[p].volume = orders[p].volume
                                     /\ p # o => orders'[p].final = orders[p].final
         /\ orders'[o].final = IF ended THEN "FILLED" ELSE "NO"
  <1>1. CASE ended
    <2>1. /\ DOMAIN orders' = DOMAIN orders /\ orders'[o] = [orders[o] EXCEPT !.final = "FILLED"]
          /\ \A p \in DOMAIN orders : p # o => orders'[p] = orders[p]
      BY <1>1, OneEnds
    <2>2. orders[o] \in OrderRow
      BY WorkedOn
    <2>3. /\ orders'[o].side = orders[o].side /\ orders'[o].price = orders[o].price
          /\ orders'[o].volume = orders[o].volume /\ orders'[o].final = "FILLED"
      BY <2>1, <2>2 DEF OrderRow
    <2> QED  BY <1>1, <2>1, <2>3
  <1>2. CASE ~ended
    BY <1>2
  <1> QED  BY <1>1, <1>2

\* What is spent after one more execution.
LEMMA SpentExecuted ==
  ASSUME BookInv, NEW o \in DOMAIN orders, NEW row \in FillRow, row.order = o,
         NEW n, n \notin Executed, Executed' = Executed \union {n}, fills'[n] = row,
         \A i \in Executed : fills'[i] = fills[i],
         \A p \in DOMAIN orders : orders'[p].side = orders[p].side /\ orders'[p].price = orders[p].price
  PROVE  Spent' = Spent + (IF orders[o].side = "BUY" THEN row.volume ELSE -row.volume) * orders[o].price
  <1> DEFINE signed == IF orders[o].side = "BUY" THEN row.volume ELSE -row.volume
             price == orders[o].price
  <1>1. /\ n \notin Executed /\ Executed' = Executed \union {n}
        /\ fills'[n] = row /\ \A i \in Executed : fills'[i] = fills[i]
    OBVIOUS
  <1>2. \A i \in Executed : fills[i].order \in DOMAIN orders
    BY DEF BookInv, RowsTyped
  <1>3. \A i \in Executed : Spend'[i] = Spend[i]
    <2> TAKE i \in Executed
    <2>1. i \in Executed' /\ fills'[i] = fills[i] /\ fills[i].order \in DOMAIN orders
      BY <1>1, <1>2
    <2>2. Signed'[i] = Signed[i]
      BY <2>1 DEF Signed
    <2>3. Spend[i] = Signed[i] * orders[fills[i].order].price
      BY DEF Spend
    <2>4. Spend'[i] = Signed'[i] * orders'[fills'[i].order].price
      BY <2>1 DEF Spend
    <2> QED  BY <2>1, <2>2, <2>3, <2>4
  <1>4. Spend'[n] = signed * price
    BY <1>1 DEF Signed, Spend
  <1>5. row.volume \in Nat /\ price \in Nat
    <2>1. orders[o] \in OrderRow
      BY RowsAsTyped DEF BookInv
    <2> QED  BY <2>1, BookAssumption DEF FillRow, OrderRow
  <1> HIDE DEF price
  <1>6. signed \in Int
    BY <1>5
  <1> HIDE DEF signed
  <1>7. signed * price \in Int
    BY <1>5, <1>6
  <1>8. Integral(Spend, Executed) /\ n \notin Executed
    BY SumsOverExecutions DEF BookInv
  <1>9. ASSUME NEW g, g = Spend'
        PROVE  Sum(g, Executed \union {n}) = Spent + signed * price
    <2>1. (\A i \in Executed : Spend[i] = g[i]) /\ g[n] = signed * price /\ g[n] \in Int
      BY <1>1, <1>3, <1>4, <1>7, <1>9
    <2>2. Extended(Spend, g, Executed, n)
      BY <1>8, <2>1 DEF Extended
    <2> QED  BY <2>1, <2>2, SumExtended DEF Spent
  <1>10. Spent' = Sum(Spend', Executed')
    BY DEF Spent, Sum
  <1>11. Spent' = Spent + signed * price
    BY <1>1, <1>9, <1>10
  <1> QED  BY <1>11 DEF signed, price

\* A BUY spends what was committed to it, a SELL brings in cash.
LEMMA ExecuteUncommits ==
  ASSUME BookInv, NEW o \in DOMAIN orders, Execute(o)
  PROVE  Uncommitted' >= Uncommitted
  <1>1. PICK v \in {Remaining(o), 1}, fee \in Fees :
          /\ orders[o].final = "NO"
          /\ fills' = Append(fills, [order |-> o, volume |-> v, fee |-> fee, day |-> day])
          /\ orders' = IF v = Remaining(o) THEN [orders EXCEPT ![o].final = "FILLED"] ELSE orders
          /\ UNCHANGED deposited
    BY DEF Execute
  <1> DEFINE row == [order |-> o, volume |-> v, fee |-> fee, day |-> day]
             price == orders[o].price
             buy == orders[o].side = "BUY"
             left == Remaining(o)
  <1>2. v \in Nat \ {0} /\ left \in Nat /\ v <= left /\ left = orders[o].volume - FilledAtProvider(o)
    BY <1>1, WorkedOn DEF Remaining
  <1>3. row \in FillRow /\ row.order = o /\ row.volume = v /\ row.fee = fee
    <2>1. o \in Nat /\ day \in Nat
      BY RowsAsTyped DEF BookInv, RowsTyped
    <2> QED  BY <1>2, <2>1 DEF FillRow
  <1>4. price \in Prices /\ price \in Nat /\ fee \in Nat
    <2>1. price \in Prices
      BY <1>1, WorkedOn DEF OrderRow
    <2> QED  BY <2>1, BookAssumption
  <1>5. /\ DOMAIN orders' = DOMAIN orders
        /\ \A p \in DOMAIN orders : /\ orders'[p].side = orders[p].side /\ orders'[p].price = orders[p].price
                                    /\ orders'[p].volume = orders[p].volume
                                    /\ p # o => orders'[p].final = orders[p].final
        /\ orders'[o].final = IF v = left THEN "FILLED" ELSE "NO"
    <2>1. (v = left) \in BOOLEAN
      OBVIOUS
    <2> QED  BY <1>1, <2>1, ExecutedOrder
  <1>6. PICK n : /\ n \notin Executed /\ Executed' = Executed \union {n}
                 /\ fills'[n] = row /\ \A i \in Executed : fills'[i] = fills[i]
                 /\ \A p : FilledAtProvider(p)' = FilledAtProvider(p) + IF p = o THEN v ELSE 0
    <2>1. RowsTyped /\ fills' = Append(fills, row)
      BY <1>1 DEF BookInv
    <2> HIDE DEF row
    <2> QED  BY <1>3, <2>1, FillsExtended
  <1> HIDE DEF row, left
  <1>7. Spent' = Spent + (IF buy THEN v ELSE -v) * price
    BY <1>3, <1>5, <1>6, SpentExecuted
  <1>8. /\ o \in Buys <=> buy
        /\ o \in Buys' <=> buy /\ v # left
        /\ Buys' \ {o} = Buys \ {o}
    BY <1>1, <1>5 DEF Buys, OpenAtProvider
  <1>9. ASSUME NEW p \in Buys \ {o}
        PROVE  Due'[p] = Due[p]
    <2>1. p \in DOMAIN orders /\ p \in Buys'
      BY <1>8 DEF Buys, OpenAtProvider
    <2>2. FilledAtProvider(p)' = FilledAtProvider(p)
      BY <1>6, <2>1, FilledNat DEF BookInv
    <2> QED  BY <1>5, <2>1, <2>2 DEF Due, Remaining
  <1>10. buy => Due[o] = left * price
    BY <1>8 DEF Due, left
  <1>11. o \in Buys' => Due'[o] = (left - v) * price
    <2>1. FilledAtProvider(o)' = FilledAtProvider(o) + v /\ FilledAtProvider(o) \in Nat /\ orders[o].volume \in Nat
      BY <1>1, <1>6, WorkedOn
    <2>2. Remaining(o)' = left - v
      BY <1>2, <1>5, <2>1 DEF Remaining
    <2> QED  BY <1>5, <2>2 DEF Due
  <1> HIDE DEF price, buy
  <1>12. Committed' = Committed - IF buy THEN v * price ELSE 0
    <2>1. left * price \in Nat /\ (left - v) * price \in Int /\ v * price \in Nat
      BY <1>2, <1>4
    <2>2. Committed' = Committed - (IF o \in Buys THEN Due[o] ELSE 0) + (IF o \in Buys' THEN Due'[o] ELSE 0)
      BY <1>8, <1>9, <1>11, <2>1, CommittedMoves
    <2>3. (left - v) * price = left * price - v * price
      BY <1>2, <1>4
    <2>4. Committed \in Nat
      BY TotalsTyped
    <2>5. CASE buy /\ v = left
      BY <1>8, <1>10, <2>1, <2>2, <2>4, <2>5
    <2>6. CASE buy /\ v # left
      BY <1>8, <1>10, <1>11, <2>1, <2>2, <2>3, <2>4, <2>6
    <2>7. CASE ~buy
      BY <1>8, <2>2, <2>4, <2>7
    <2> QED  BY <2>5, <2>6, <2>7
  <1>13. v * price \in Nat /\ (-v) * price = -(v * price)
    BY <1>2, <1>4
  <1>14. CASE buy
    BY <1>1, <1>7, <1>12, <1>13, <1>14, TotalsTyped DEF Uncommitted
  <1>15. CASE ~buy
    <2>1. Spent' = Spent - v * price /\ Committed' = Committed
      <3>1. Spent' = Spent + (-v) * price /\ Committed' = Committed - 0
        BY <1>7, <1>12, <1>15
      <3> QED  BY <1>13, <3>1, TotalsTyped
    <2>2. Uncommitted' = Uncommitted + v * price
      BY <1>1, <1>13, <2>1, TotalsTyped DEF Uncommitted
    <2> QED  BY <1>13, <2>2, TotalsTyped
  <1> QED  BY <1>14, <1>15

\* Only a new order commits cash.
LEMMA UncommittedStays ==
  ASSUME BookInv, Others
  PROVE  Uncommitted' >= Uncommitted
  <1>0. Uncommitted \in Int
    BY TotalsTyped
  <1>1. CASE Told \/ Recover
    <2>1. /\ UNCHANGED <<fills, deposited>> /\ DOMAIN orders' = DOMAIN orders
          /\ \A o \in DOMAIN orders : \/ orders'[o] = orders[o]
                                      \/ \E rs, final : orders'[o] = Merged(o, rs, final)
      BY <1>1, ToldOrders
    <2>2. Uncommitted' = Uncommitted
      BY <2>1, MergedKeeps, UncommittedKept
    <2> QED  BY <1>0, <2>2
  <1>2. CASE TakeSnapshot \/ ReconcileWrites \/ (\E b \in TradedBoards : VerifyBoardAcceptance(b)) \/ NextDay
               \/ UNCHANGED vars
    <2>1. UNCHANGED <<orders, fills, deposited>>
      BY <1>2 DEF TakeSnapshot, ReconcileWrites, VerifyBoardAcceptance, NextDay, vars
    <2>2. Uncommitted' = Uncommitted
      BY <2>1, UncommittedKept
    <2> QED  BY <1>0, <2>2
  <1> QED  BY <1>1, <1>2, DepositUncommits, CancelUncommits, ExecuteUncommits DEF Others, Provide

LEMMA RoundedDown ==
  ASSUME NEW v \in Int, NEW least \in Int, NEW step \in Nat \ {0}
  PROVE  StepsUp(v, least, step) \in Int /\ StepsUp(v, least, step) <= v
  <1>1. PICK x \in Int : x = v - least
    OBVIOUS
  <1>2. x \div step \in Int /\ (x \div step) * step <= x
    OBVIOUS
  <1>3. PICK k \in Int : k = x \div step
    BY <1>2
  <1>4. k * step \in Int /\ least + k * step <= v
    BY <1>1, <1>2, <1>3
  <1> QED  BY <1>1, <1>3, <1>4 DEF StepsUp

LEMMA BuyRoundedDown ==
  ASSUME NEW b \in DOMAIN Units, NEW v \in Int, RoundBuyVolume(v, Units[b]) > 0
  PROVE  RoundBuyVolume(v, Units[b]) \in Nat /\ RoundBuyVolume(v, Units[b]) <= v
  <1> DEFINE u == Units[b]
             l == Lower(v, u.max)
  <1>1. u.minBuy \in Int /\ u.buyStep \in Nat \ {0} /\ u.max \in Int
    BY Unit
  <1>2. l \in Int /\ l <= v
    BY <1>1 DEF Lower
  <1>3. RoundBuyVolume(v, u) \in {0, StepsUp(l, u.minBuy, u.buyStep)}
    BY DEF RoundBuyVolume
  <1> HIDE DEF u, l
  <1>4. StepsUp(l, u.minBuy, u.buyStep) \in Int /\ StepsUp(l, u.minBuy, u.buyStep) <= l
    BY <1>1, <1>2, RoundedDown
  <1>5. RoundBuyVolume(v, u) > 0
    BY DEF u
  <1>6. RoundBuyVolume(v, u) \in Nat /\ RoundBuyVolume(v, u) <= v
    BY <1>2, <1>3, <1>4, <1>5
  <1> QED  BY <1>6 DEF u

\* A BUY costs no more than the cash that is not reserved (trading_sizing.go).
LEMMA BuyWithinBudget ==
  ASSUME NEW price \in Nat \ {0}, NEW a, Countable(a), NEW r \in Nat, NEW proposed \in Nat,
         NEW b \in DOMAIN Units, TradingVolume("BUY", price, a, r, proposed, Units[b]) > 0
  PROVE  Scale * (TradingVolume("BUY", price, a, r, proposed, Units[b]) * price)
           <= Scale * a.cash - a.nav * Risk.reserve
  <1> DEFINE budget == Budget(a, r)
             v == budget \div (Scale * price)
             w == IF proposed > 0 THEN Lower(proposed, v) ELSE v
             volume == TradingVolume("BUY", price, a, r, proposed, Units[b])
             free == Scale * a.cash - a.nav * Risk.reserve
  <1>1. volume > 0 /\ volume \in {0, RoundBuyVolume(w, Units[b])} /\ (budget <= 0 => volume = 0)
    BY DEF TradingVolume
  <1>2. budget \in Int /\ free \in Int
    <2>1. budget \in Int
      BY BudgetInt
    <2>2. Scale \in Int /\ a.cash \in Int /\ a.nav \in Int /\ Risk.reserve \in Int
      BY BookAssumption, PolicyAssumption DEF Countable
    <2>3. Scale * a.cash \in Int /\ a.nav * Risk.reserve \in Int
      BY <2>2
    <2> QED  BY <2>1, <2>3
  <1>3. budget > 0 => budget <= free
    <2> DEFINE effective == Min({r, Risk.single, Risk.symbol - a.symbolRatio, Risk.total - a.totalRatio})
               share == a.nav * effective
    <2>1. effective \in Int /\ a.nav \in Int
      <3>1. /\ r \in Int /\ Risk.single \in Int /\ Risk.symbol - a.symbolRatio \in Int
            /\ Risk.total - a.totalRatio \in Int
        BY BookAssumption DEF Countable
      <3> QED  BY <3>1, MinOfFour DEF Countable
    <2>2. budget = IF effective <= 0 THEN 0 ELSE Lower(share, free)
      BY DEF Budget
    <2> HIDE DEF effective
    <2>3. share \in Int
      BY <2>1
    <2> HIDE DEF share, free, budget
    <2> QED  BY <1>2, <2>2, <2>3 DEF Lower
  <1>4. Scale * price \in Nat \ {0} /\ Scale \in Nat \ {0}
    BY PolicyAssumption
  <1> HIDE DEF budget, free
  <1>5. v \in Int /\ Scale * price * v <= budget
    <2>1. PICK d \in Nat \ {0} : d = Scale * price
      BY <1>4
    <2>2. budget \div d \in Int /\ d * (budget \div d) <= budget
      BY <1>2
    <2> QED  BY <2>1, <2>2
  <1> HIDE DEF v
  <1>6. w \in Int /\ w <= v
    BY <1>5 DEF Lower
  <1> HIDE DEF w, volume
  <1>7. volume \in Nat /\ volume <= v
    <2>1. volume = RoundBuyVolume(w, Units[b])
      BY <1>1
    <2>2. volume \in Nat /\ volume <= w
      BY <1>1, <1>6, <2>1, BuyRoundedDown
    <2> QED  BY <1>5, <1>6, <2>2
  <1>8. Scale * (volume * price) <= Scale * price * v
    <2>1. PICK x \in Nat : v = volume + x
      BY <1>5, <1>7
    <2>2. Scale * price * (volume + x) = Scale * (volume * price) + Scale * price * x
      BY <1>4, <1>7
    <2>3. Scale * price * x \in Nat /\ Scale * (volume * price) \in Nat
      BY <1>4, <1>7
    <2> QED  BY <2>1, <2>2, <2>3
  <1>9. budget > 0
    BY <1>1, <1>2
  <1>10. Scale * (volume * price) \in Int /\ Scale * price * v \in Int
    BY <1>4, <1>5, <1>7
  <1>11. Scale * (volume * price) <= free
    BY <1>2, <1>3, <1>5, <1>8, <1>9, <1>10
  <1> QED  BY <1>11 DEF volume, free

\* What an approved BUY costs.
LEMMA VerdictAffordable ==
  ASSUME BookInv, NEW c, NEW event, NEW key, NEW price \in Prices, NEW ratio \in Nat,
         NEW proposed, BoardOf(c) \in DOMAIN Units => proposed \in Nat,
         Verdict("BUY", c, event, key, price, ratio, proposed).approved
  PROVE  Scale * (Verdict("BUY", c, event, key, price, ratio, proposed).volume * price)
           <= Scale * AvailableCash - Nav * Risk.reserve
  <1> DEFINE s == Parse(c, "", "", "")
             i == [side |-> "BUY", price |-> price, ratio |-> ratio, volume |-> proposed, uat |-> key # 0,
                   asset |-> s.asset, market |-> s.market, board |-> s.board]
             a == Account(event, c, "BUY")
             b == BoardOf(c)
  <1>1. Verdict("BUY", c, event, key, price, ratio, proposed) = Evaluate(i, a)
    BY DEF Verdict
  <1>2. i.side = "BUY" /\ i.price = price /\ i.ratio = ratio /\ i.volume = proposed /\ i.board = b
    BY DEF BoardOf
  <1>3. Countable(a)
    BY AccountCountable DEF BookInv
  <1>4. price \in Nat \ {0}
    BY BookAssumption
  <1>5. a.cash = AvailableCash /\ a.nav = Nav
    BY DEF Account
  <1> HIDE DEF i, a, b, s
  <1>6. LET volume == TradingVolume(i.side, i.price, a, i.ratio, i.volume, Units[i.board]) IN
        Evaluate(i, a).volume = volume /\ volume > 0 /\ i.board \in DOMAIN Units
    BY <1>1, ApprovedVolume
  <1>7. b \in DOMAIN Units /\ proposed \in Nat
    BY <1>2, <1>6 DEF b
  <1> DEFINE v == TradingVolume("BUY", price, a, ratio, proposed, Units[b])
  <1>8. Evaluate(i, a).volume = v /\ v > 0
    BY <1>2, <1>6
  <1>9. Scale * (v * price) <= Scale * a.cash - a.nav * Risk.reserve
    BY <1>3, <1>4, <1>7, <1>8, BuyWithinBudget
  <1> QED  BY <1>1, <1>5, <1>8, <1>9

LEMMA DecidedAffordable ==
  ASSUME BookInv, Trade, Decided, decision'.side = "BUY"
  PROVE  Scale * (decision'.volume * decision'.price) <= Scale * AvailableCash - Nav * Risk.reserve
  <1>1. ASSUME NEW c \in Codes, NEW event \in Events \union {0}, NEW price \in Prices, NEW side \in Sides,
               EvaluateIntent(side, c, event, price)
        PROVE  Scale * (decision'.volume * decision'.price) <= Scale * AvailableCash - Nav * Risk.reserve
    <2>1. /\ side = "BUY" /\ decision'.price = price
          /\ decision'.volume = Verdict("BUY", c, event, 0, price, AutoRatio, 0).volume
          /\ Verdict("BUY", c, event, 0, price, AutoRatio, 0).approved
      BY <1>1, EvaluateIntentDecides DEF EvaluateIntent
    <2> QED  BY <2>1, VerdictAffordable, BookAssumption
  <1>2. ASSUME NEW c \in Codes, NEW key \in Keys, NEW price \in Prices, NEW side \in Sides,
               ExecuteOneLotUAT(side, c, key, price)
        PROVE  Scale * (decision'.volume * decision'.price) <= Scale * AvailableCash - Nav * Risk.reserve
    <2> DEFINE unit == Units[BoardOf(c)].minBuy
    <2>1. /\ side = "BUY" /\ decision'.price = price
          /\ decision'.volume = Verdict("BUY", c, 0, key, price, UATRatio, unit).volume
          /\ Verdict("BUY", c, 0, key, price, UATRatio, unit).approved
      BY <1>2, OneLotUATDecides DEF ExecuteOneLotUAT
    <2>2. BoardOf(c) \in DOMAIN Units => unit \in Nat
      BY Unit
    <2> HIDE DEF unit
    <2> QED  BY <2>1, <2>2, VerdictAffordable, BookAssumption
  <1>3. "BUY" \in Sides /\ "SELL" \in Sides /\ Events \subseteq Events \union {0} /\ 0 \in Events \union {0}
    BY DEF Sides
  <1>4. CASE CreateOrder \/ DeferDecision
    <2>1. decision' = NoDecision /\ decision'.volume \in Nat \ {0}
      BY <1>4 DEF CreateOrder, DeferDecision, Decided
    <2> QED  BY <2>1 DEF NoDecision
  <1> QED  BY <1>1, <1>2, <1>3, <1>4 DEF Trade

LEMMA ReserveStep ==
  ASSUME AccountInv, AccountInv', DecisionsWithinReserve, [Next]_vars
  PROVE  DecisionsWithinReserve'
  <1> SUFFICES ASSUME (decision # NoDecision)', (decision.side = "BUY")'
               PROVE  Scale * (AvailableCash' + SumFunctionOnSet(Fee, Executed)' - decision'.charged
                                 - decision'.volume * decision'.price) >= Risk.reserve * decision'.nav
    BY DEF DecisionsWithinReserve
  <1>1. BookInv /\ BookInv'
    BY DEF AccountInv
  <1>2. /\ decision'.charged \in Nat /\ decision'.nav \in Int /\ decision'.volume \in Nat /\ decision'.price \in Nat
    BY BookAssumption DEF AccountInv, DecisionStands
  <1>3. /\ AvailableCash = Uncommitted - Charged /\ Uncommitted \in Int /\ Charged \in Nat
        /\ AvailableCash' = Uncommitted' - Charged' /\ Uncommitted' \in Int /\ Charged' \in Nat
        /\ Scale \in Nat /\ Risk.reserve \in Nat
    <2>1. (AvailableCash = Uncommitted - Charged)'
      BY <1>1, CashInTerms, PTL
    <2>2. (Uncommitted \in Int /\ Charged \in Nat)'
      BY <1>1, TotalsTyped, PTL
    <2> QED  BY <1>1, <2>1, <2>2, CashInTerms, TotalsTyped
  <1>4. PICK cost \in Nat : cost = decision'.volume * decision'.price
    BY <1>2
  <1> SUFFICES Scale * (Uncommitted' - decision'.charged - cost) >= Risk.reserve * decision'.nav
    <2>1. AvailableCash' + Charged' - decision'.charged - cost = Uncommitted' - decision'.charged - cost
      BY <1>2, <1>3
    <2>2. Scale * (AvailableCash' + Charged' - decision'.charged - decision'.volume * decision'.price)
            >= Risk.reserve * decision'.nav
      BY <1>4, <2>1
    <2> QED  BY <2>2 DEF Charged, Sum
  <1>5. decision' = decision =>
          Scale * (Uncommitted - decision'.charged - cost) >= Risk.reserve * decision'.nav
    <2> SUFFICES ASSUME decision' = decision
                 PROVE  Scale * (Uncommitted - decision'.charged - cost) >= Risk.reserve * decision'.nav
      OBVIOUS
    <2>1. Scale * (AvailableCash + Charged - decision.charged - decision.volume * decision.price)
            >= Risk.reserve * decision.nav
      BY DEF DecisionsWithinReserve, Charged, Sum
    <2>2. Scale * (AvailableCash + Charged - decision'.charged - cost) >= Risk.reserve * decision'.nav
      BY <1>4, <2>1
    <2>3. AvailableCash + Charged - decision'.charged - cost = Uncommitted - decision'.charged - cost
      BY <1>2, <1>3
    <2> QED  BY <2>2, <2>3
  <1>6. CASE Others
    <2>1. decision' = decision /\ Uncommitted' >= Uncommitted
      BY <1>1, <1>6, OthersDecideNothing, UncommittedStays
    <2>2. Scale * (Uncommitted - decision'.charged - cost) >= Risk.reserve * decision'.nav
      BY <1>5, <2>1
    <2>3. PICK more \in Nat : Uncommitted' = Uncommitted + more
      BY <1>3, <2>1
    <2>4. PICK x \in Int : x = Uncommitted - decision'.charged - cost
      BY <1>2, <1>3
    <2>5. Uncommitted' - decision'.charged - cost = x + more
      BY <1>2, <1>3, <2>3, <2>4
    <2>6. Scale * (x + more) >= Scale * x
      BY <1>3
    <2>7. Scale * (x + more) \in Int /\ Scale * x \in Int /\ Risk.reserve * decision'.nav \in Int
      BY <1>2, <1>3
    <2> QED  BY <2>2, <2>4, <2>5, <2>6, <2>7
  <1>7. CASE Trade
    <2>1. CASE CreateOrder \/ DeferDecision
      BY <2>1 DEF CreateOrder, DeferDecision
    <2>2. CASE Decided
      <3>1. Scale * cost <= Scale * AvailableCash - Nav * Risk.reserve
        BY <1>1, <1>4, <1>7, <2>2, DecidedAffordable
      <3>2. decision'.charged = Charged /\ decision'.nav = Nav /\ UNCHANGED <<orders, fills, deposited>>
        BY <1>1, <2>2, CashInTerms DEF Decided
      <3>3. Uncommitted' = Uncommitted
        BY <1>1, <3>2, UncommittedKept
      <3>4. Uncommitted' - decision'.charged - cost = AvailableCash - cost
        BY <1>3, <3>2, <3>3
      <3>5. AvailableCash \in Int /\ Nav \in Int
        BY <1>2, <1>3, <3>2
      <3>6. Scale * (AvailableCash - cost) = Scale * AvailableCash - Scale * cost
            /\ Scale * AvailableCash \in Int /\ Scale * cost \in Int
            /\ Nav * Risk.reserve = Risk.reserve * Nav /\ Risk.reserve * Nav \in Int
        BY <1>3, <3>5
      <3>7. Scale * (AvailableCash - cost) >= Risk.reserve * Nav
        BY <3>1, <3>6
      <3> QED  BY <3>2, <3>4, <3>7
    <2> QED  BY <1>1, <1>7, <2>1, <2>2, TradeDecides
  <1> QED  BY <1>6, <1>7 DEF Next, Others

\* What was decided on stays affordable until it is created, whatever the open order
\* executes or gives back, and leaves the reserve it was sized with
\* (trading_sizing.go).
THEOREM ReserveStays == Spec => []DecisionsWithinReserve
  <1>1. Init => DecisionsWithinReserve
    BY DEF Init, DecisionsWithinReserve
  <1>2. AccountInv /\ AccountInv' /\ DecisionsWithinReserve /\ [Next]_vars => DecisionsWithinReserve'
    BY ReserveStep
  <1> QED  BY <1>1, <1>2, AccountInvariance, PTL DEF Spec

=============================================================================
