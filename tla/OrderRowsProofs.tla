-------------------------- MODULE OrderRowsProofs --------------------------
(***************************************************************************)
(* Proofs about the matcher and the book it drives (OrderBook), for any    *)
(* users, prices, quantities and bounds; then lemmas about the rows a      *)
(* transaction of the exchange works on (OrderExchange): what is true of   *)
(* them between two calls, and what one order's creation, cancellation or  *)
(* fill changes of them.  The exchange's inductive invariant               *)
(* (OrderExchangeProofs) is stated of the same rows.                       *)
(*                                                                         *)
(* Loops are folds; what is needed about them comes from FoldTheorems, one *)
(* instance for each loop of the code.                                     *)
(***************************************************************************)
EXTENDS OrderBook, OrderExchange, FiniteSetTheorems, TLAPS

----------------------------------------------------------------------------
\* Induction: on numbers, and on the size of a finite set.
LEMMA NatInduct ==
    ASSUME NEW S, 0 \in S, \A n \in Nat : n \in S => n + 1 \in S
    PROVE  Nat \subseteq S
<1>. SUFFICES ASSUME NEW m \in Nat, m \notin S
              PROVE  FALSE
  OBVIOUS
<1>. DEFINE bad == Nat \ S
<1>1. PICK n \in bad : \A k \in bad : <<k, n>> \notin OpToRel(<, Nat)
  <2>1. bad # {} /\ bad \subseteq Nat
    OBVIOUS
  <2>. QED
    BY <2>1, WFMin, NatLessThanWellFounded, Zenon
<1>2. \A k \in bad : ~(k < n)
  BY <1>1, Zenon DEF OpToRel
<1>3. n \in Nat /\ n # 0
  BY Zenon
<1>4. n - 1 \in Nat /\ n - 1 < n /\ (n - 1) + 1 = n
  BY <1>3
<1>5. n - 1 \in S
  BY <1>2, <1>4
<1>. QED
  BY <1>4, <1>5

\* Every family of subsets of a finite set has a smallest one, by their sizes.
FamilyEnds(S) ==
    \A family \in SUBSET SUBSET S :
        family # {} => \E T \in family : \A R \in family : R \subseteq T => R = T

LEMMA FiniteEnds ==
    ASSUME NEW S, IsFiniteSet(S)
    PROVE  FamilyEnds(S)
<1>. SUFFICES ASSUME NEW family \in SUBSET SUBSET S, family # {}
              PROVE  \E T \in family : \A R \in family : R \subseteq T => R = T
  BY DEF FamilyEnds
<1>. DEFINE sizes == {Cardinality(T) : T \in family}
<1>1. \A T \in family : IsFiniteSet(T) /\ Cardinality(T) \in Nat
  BY FS_Subset, FS_CardinalityType
<1>2. PICK T \in family : \A R \in family : ~(Cardinality(R) < Cardinality(T))
  <2>1. sizes # {} /\ sizes \subseteq Nat
    BY <1>1
  <2>. HIDE DEF sizes
  <2>2. PICK n \in sizes : \A k \in sizes : <<k, n>> \notin OpToRel(<, Nat)
    BY <2>1, WFMin, NatLessThanWellFounded, Zenon
  <2>3. \A k \in sizes : ~(k < n)
    BY <2>1, <2>2, Zenon DEF OpToRel
  <2>. QED
    BY <2>3 DEF sizes
<1>3. ASSUME NEW R \in family, R \subseteq T
      PROVE  R = T
  <2>1. ~(Cardinality(R) < Cardinality(T))
    BY <1>2
  <2>2. Cardinality(R) <= Cardinality(T) /\ (Cardinality(T) = Cardinality(R) => T = R)
    BY <1>1, <1>3, FS_Subset
  <2>. QED
    BY <1>1, <2>1, <2>2
<1>. QED
  BY <1>3

LEMMA RangeEnds ==
    ASSUME NEW n \in Nat
    PROVE  FamilyEnds(1 .. n)
BY FS_Interval, FiniteEnds

----------------------------------------------------------------------------
\* Sums are loops that add.
Plus(f, acc, x) == f[x] + acc
AnyOf(S) == CHOOSE x \in S : TRUE
Sums == INSTANCE FoldTheorems WITH Step <- Plus, Pick <- AnyOf

LEMMA SumLaws ==
    /\ Sums!Adds /\ Sums!PicksAny
    /\ \A S : IsFiniteSet(S) => Sums!Finite(S)
<1>1. Sums!Adds /\ Sums!PicksAny
  BY DEF Sums!Adds, Sums!PicksAny, Plus, AnyOf
<1>2. \A S : IsFiniteSet(S) => Sums!Finite(S)
  BY FiniteEnds DEF FamilyEnds, Sums!Finite, Sums!Smallest
<1>. QED
  BY <1>1, <1>2

LEMMA SumIsTotal == \A f : SumFunction(f) = Sums!Total(f, DOMAIN f)
BY DEF SumFunction, SumFunctionOnSet, FoldFunctionOnSet, MapThenFoldSet,
       Sums!Total, Sums!Fold, Sums!MapThenFoldSet, Plus, AnyOf

LEMMA SumOn ==
    ASSUME NEW f, NEW S, DOMAIN f = S
    PROVE  SumFunction(f) = Sums!Total(f, S)
BY SumIsTotal

LEMMA SumOfNone ==
    ASSUME NEW f, DOMAIN f = {}
    PROVE  SumFunction(f) = 0
BY SumOn, Sums!SumEmpty

LEMMA SumIsInt ==
    ASSUME NEW S, IsFiniteSet(S), NEW f \in [S -> Int]
    PROVE  SumFunction(f) \in Int
<1>1. \A x \in S : f[x] \in Int
  OBVIOUS
<1>. QED
  BY <1>1, SumOn, SumLaws, Sums!SumInt

LEMMA SumIsNat ==
    ASSUME NEW S, IsFiniteSet(S), NEW f \in [S -> Nat]
    PROVE  SumFunction(f) \in Nat
<1>1. \A x \in S : f[x] \in Nat
  OBVIOUS
<1>. QED
  BY <1>1, SumOn, SumLaws, Sums!SumNat

LEMMA SumOfZeros ==
    ASSUME NEW S, IsFiniteSet(S), NEW f \in [S -> {0}]
    PROVE  SumFunction(f) = 0
<1>1. \A x \in S : f[x] = 0
  OBVIOUS
<1>. QED
  BY <1>1, SumOn, SumLaws, Sums!SumZero

\* A sum of naturals is at least each of its terms.
LEMMA SumHasTerm ==
    ASSUME NEW S, IsFiniteSet(S), NEW f \in [S -> Nat], NEW x \in S
    PROVE  f[x] <= SumFunction(f)
<1>1. \A y \in S : f[y] \in Nat /\ f[y] \in Int
  OBVIOUS
<1>2. Sums!Total(f, S) = f[x] + Sums!Total(f, S \ {x})
  BY <1>1, SumLaws, Sums!SumElement
<1>3. Sums!Finite(S \ {x})
  BY FS_RemoveElement, SumLaws
<1>4. Sums!Total(f, S \ {x}) \in Nat
  BY <1>1, <1>3, SumLaws, Sums!SumNat
<1>. QED
  BY <1>1, <1>2, <1>4, SumOn

\* One term changes.
LEMMA SumOneChanges ==
    ASSUME NEW S, IsFiniteSet(S), NEW f \in [S -> Int], NEW g \in [S -> Int],
           NEW x \in S, \A y \in S \ {x} : g[y] = f[y]
    PROVE  SumFunction(g) = SumFunction(f) + (g[x] - f[x])
<1>1. \A y \in S : f[y] \in Int /\ g[y] \in Int
  OBVIOUS
<1>. QED
  BY <1>1, SumOn, SumLaws, Sums!SumChange

\* Two terms change.
LEMMA SumTwoChange ==
    ASSUME NEW S, IsFiniteSet(S), NEW f \in [S -> Int], NEW g \in [S -> Int],
           NEW x \in S, NEW y \in S, x # y,
           \A z \in S \ {x, y} : g[z] = f[z]
    PROVE  SumFunction(g) = SumFunction(f) + (g[x] - f[x]) + (g[y] - f[y])
<1>. DEFINE h == [f EXCEPT ![x] = g[x]]
<1>1. /\ h \in [S -> Int] /\ h[x] = g[x] /\ h[y] = f[y]
      /\ \A z \in S \ {x} : h[z] = f[z]
      /\ \A z \in S \ {y} : g[z] = h[z]
  OBVIOUS
<1>. HIDE DEF h
<1>2. SumFunction(h) = SumFunction(f) + (h[x] - f[x])
  BY <1>1, SumOneChanges
<1>3. SumFunction(g) = SumFunction(h) + (g[y] - h[y])
  BY <1>1, SumOneChanges
<1>4. SumFunction(f) \in Int /\ SumFunction(h) \in Int
  BY <1>1, SumIsInt
<1>5. f[x] \in Int /\ f[y] \in Int /\ g[x] \in Int /\ g[y] \in Int
  OBVIOUS
<1>. QED
  BY <1>1, <1>2, <1>3, <1>4, <1>5

\* A term is added.
\* g is f, over the set S, and a value for one more element x.
Extends(S, f, x, g) ==
    /\ IsFiniteSet(S) /\ f \in [S -> Int] /\ x \notin S
    /\ g \in [S \union {x} -> Int] /\ \A y \in S : g[y] = f[y]

LEMMA SumOneMore ==
    ASSUME NEW S, NEW f, NEW x, NEW g, Extends(S, f, x, g)
    PROVE  SumFunction(g) = SumFunction(f) + g[x]
<1>1. /\ \A y \in S : f[y] \in Int /\ g[y] \in Int
      /\ g[x] \in Int /\ x \notin S /\ IsFiniteSet(S)
      /\ DOMAIN g = S \union {x} /\ DOMAIN f = S
      /\ \A y \in S : g[y] = f[y]
  BY DEF Extends
<1>2. Sums!Total(g, S \union {x}) = g[x] + Sums!Total(g, S)
  BY <1>1, SumLaws, Sums!SumAdd
<1>3. Sums!Total(g, S) = Sums!Total(f, S)
  BY <1>1, SumLaws, Sums!SumSame
<1>4. Sums!Total(f, S) \in Int
  BY <1>1, SumLaws, Sums!SumInt
<1>. QED
  BY <1>1, <1>2, <1>3, <1>4, SumOn
----------------------------------------------------------------------------
\* Rows of a table, numbered from one.
IsRows(s, n) == (\E S : s \in Seq(S)) /\ Len(s) = n

\* t is the n rows of s and one more, x.
RowsWith(s, n, x, t) ==
    IsRows(t, n + 1) /\ t[n + 1] = x /\ \A j \in 1 .. n : t[j] = s[j]

LEMMA RowsAppend ==
    ASSUME NEW s, NEW n \in Nat, IsRows(s, n), NEW x
    PROVE  RowsWith(s, n, x, Append(s, x))
<1>. DEFINE t == Append(s, x)
<1>1. PICK S : s \in Seq(S)
  BY DEF IsRows
<1>2. Len(s) = n
  BY DEF IsRows
<1>3. t \in Seq(S \union {x}) /\ Len(t) = n + 1
  BY <1>1, <1>2
<1>4. t[n + 1] = x /\ \A j \in 1 .. n : t[j] = s[j]
  BY <1>1, <1>2
<1>. HIDE DEF t
<1>5. IsRows(t, n + 1)
  BY <1>3 DEF IsRows
<1>6. RowsWith(s, n, x, t)
  BY <1>4, <1>5 DEF RowsWith
<1>. QED
  BY <1>6 DEF t

----------------------------------------------------------------------------
\* The matcher.  Makers of one side, of distinct ids, are strictly ordered.
MakerFields == {"id", "owner", "stp", "side", "price", "qty", "seq"}

MakerRow(m) ==
    /\ DOMAIN m = MakerFields
    /\ m.id \in Int /\ m.seq \in Int /\ m.price \in Int /\ m.side \in Sides
    /\ m.qty \in Nat /\ m.qty > 0

Queue(T, side) ==
    /\ IsFiniteSet(T)
    /\ \A m \in T : MakerRow(m) /\ m.side = side
    /\ \A a, b \in T : a.id = b.id => a = b

LEMMA BeforeOrders ==
    ASSUME NEW a, NEW b, NEW c, MakerRow(a), MakerRow(b), MakerRow(c),
           a.side = b.side, b.side = c.side
    PROVE  /\ a.id # b.id => Before(a, b) \/ Before(b, a)
           /\ ~(Before(a, b) /\ Before(b, a)) /\ ~Before(a, a)
           /\ Before(a, b) /\ Before(b, c) => Before(a, c)
BY DEF Before, BetterPrice, MakerRow, Sides

LEMMA QueuePart ==
    ASSUME NEW T, NEW side, Queue(T, side), NEW U \in SUBSET T
    PROVE  Queue(U, side)
BY FS_Subset DEF Queue

LEMMA WorstIs ==
    ASSUME NEW T, NEW side, Queue(T, side), T # {}
    PROVE  /\ Worst(T) \in T
           /\ \A o \in T : o = Worst(T) \/ Before(o, Worst(T))
<1>. DEFINE has(U) == \E m \in U : \A o \in U : o = m \/ Before(o, m)
            good == {U \in SUBSET T : U = {} \/ has(U)}
<1>1. {} \in good
  OBVIOUS
<1>2. ASSUME NEW U \in SUBSET T, NEW x \in T \ U, U \in good
      PROVE  U \union {x} \in good
  <2>1. MakerRow(x) /\ x.side = side /\ \A m \in U : MakerRow(m) /\ m.side = side
                                                       /\ m.id # x.id
    BY DEF Queue
  <2>2. CASE U = {}
    <3>1. has(U \union {x})
      BY <2>2
    <3>. QED
      BY <3>1
  <2>3. CASE has(U)
    <3>1. PICK m \in U : \A o \in U : o = m \/ Before(o, m)
      BY <2>3
    <3>2. Before(m, x) \/ Before(x, m)
      BY <2>1, BeforeOrders
    <3>3. CASE Before(m, x)
      <4>1. \A o \in U : Before(o, x)
        <5>1. \A o \in U : o = m \/ Before(o, x)
          BY <2>1, <3>1, <3>3, BeforeOrders
        <5>. QED
          BY <3>3, <5>1
      <4>2. has(U \union {x})
        BY <4>1
      <4>. QED
        BY <4>2
    <3>4. CASE Before(x, m)
      <4>1. has(U \union {x})
        BY <3>1, <3>4
      <4>. QED
        BY <4>1
    <3>. QED
      BY <3>2, <3>3, <3>4
  <2>. QED
    BY <1>2, <2>2, <2>3
<1>. HIDE DEF good
<1>3. T \in good
  BY <1>1, <1>2, SumLaws, Sums!SetInduct DEF Queue
<1>4. has(T)
  BY <1>3 DEF good
<1>. QED
  BY <1>4 DEF Worst

\* The matching loop.
MatchTurn(inc, acc, m) == MatchMaker(inc, acc, m)
Match == INSTANCE FoldTheorems WITH Step <- MatchTurn, Pick <- Worst

LoopStart(makers, inc) ==
    [rem |-> inc.qty, fills |-> <<>>, prevented |-> <<>>, book |-> makers,
     stop |-> FALSE]

LEMMA MatchLoopIs ==
    ASSUME NEW makers, NEW inc
    PROVE  MatchLoop(makers, inc)
             = Match!Fold(inc, LoopStart(makers, inc), CrossingMakers(makers, inc))
BY DEF MatchLoop, OverMakers, LoopStart, Match!Fold, Match!MapThenFoldSet,
       MapThenFoldSet, MatchTurn

LEMMA QueuePicked ==
    ASSUME NEW T, NEW side, Queue(T, side)
    PROVE  Match!Finite(T) /\ Match!Picks(T)
<1>1. Match!Finite(T)
  BY FiniteEnds DEF FamilyEnds, Queue, Match!Finite, Match!Smallest
<1>2. Match!Picks(T)
  BY QueuePart, WorstIs DEF Match!Picks
<1>. QED
  BY <1>1, <1>2

\* One turn of it.
LoopFields == {"rem", "fills", "prevented", "book", "stop"}

FillWith(inc, m, q) ==
    [maker |-> m.id, taker |-> inc.id, makerOwner |-> m.owner,
     takerOwner |-> inc.owner, price |-> m.price, qty |-> q]

LeftOf(m, q) == IF q = m.qty THEN {} ELSE {[m EXCEPT !.qty = @ - q]}

Going(acc) == ~acc.stop /\ acc.rem # 0

LEMMA TurnOver ==
    ASSUME NEW inc, NEW acc, ~Going(acc), NEW m
    PROVE  MatchMaker(inc, acc, m) = acc
BY DEF MatchMaker, Going

\* The maker is the incoming order's own.
TurnPrevented(inc, acc, m, r) ==
    /\ DOMAIN r = LoopFields /\ r.rem = acc.rem /\ r.fills = acc.fills
    /\ r.prevented = Append(acc.prevented, m.id)
    /\ r.stop = (inc.stpMode # "CANCEL_RESTING")
    /\ r.book = IF inc.stpMode = "CANCEL_AGGRESSOR" THEN acc.book
                                                  ELSE acc.book \ {m}

LEMMA TurnPrevents ==
    ASSUME NEW inc, NEW acc, DOMAIN acc = LoopFields, Going(acc),
           NEW m, m.stp = inc.stp
    PROVE  TurnPrevented(inc, acc, m, MatchMaker(inc, acc, m))
<1>1. MatchMaker(inc, acc, m) = PreventSelfTrade(inc, acc, m)
  BY DEF MatchMaker, Going
<1>. DEFINE r == PreventSelfTrade(inc, acc, m)
<1>2. TurnPrevented(inc, acc, m, r)
  BY DEF PreventSelfTrade, LoopFields, TurnPrevented
<1>. QED
  BY <1>1, <1>2

\* The maker is somebody else's, and q of it trades.
TurnTraded(inc, acc, m, q, r) ==
    /\ DOMAIN r = LoopFields /\ r.rem = acc.rem - q
    /\ r.fills = Append(acc.fills, FillWith(inc, m, q))
    /\ r.prevented = acc.prevented /\ r.stop = acc.stop
    /\ r.book = (acc.book \ {m}) \union LeftOf(m, q)

LEMMA TurnTrades ==
    ASSUME NEW inc, NEW acc, DOMAIN acc = LoopFields, Going(acc),
           NEW m, m.stp # inc.stp
    PROVE  TurnTraded(inc, acc, m, MinQty(acc.rem, m.qty), MatchMaker(inc, acc, m))
<1>. DEFINE q == MinQty(acc.rem, m.qty)
            r == [acc EXCEPT !.rem = acc.rem - q,
                             !.fills = Append(acc.fills, FillWith(inc, m, q)),
                             !.book = (acc.book \ {m}) \union LeftOf(m, q)]
<1>1. MatchMaker(inc, acc, m) = TradeWith(inc, acc, m, q, LeftOf(m, q))
  BY DEF MatchMaker, Going, LeftOf
<1>2. TradeWith(inc, acc, m, q, LeftOf(m, q)) = r
  BY DEF TradeWith, FillWith
<1>. HIDE DEF q
<1>3. TurnTraded(inc, acc, m, q, r)
  BY DEF LoopFields, TurnTraded
<1>. QED
  BY <1>1, <1>2, <1>3 DEF q

\* What the loop has done with the makers T: fills[k] left left[k] of the
\* incoming order, each against another maker of somebody else; the own makers
\* in the way are among T.
FillOf(inc, T, f) ==
    /\ f.taker = inc.id /\ f.takerOwner = inc.owner
    /\ \E m \in T : /\ m.stp # inc.stp /\ f.maker = m.id /\ f.makerOwner = m.owner
                    /\ f.price = m.price /\ f.qty \in 1 .. m.qty

Filling(inc, T, fills, n, left) ==
    /\ n \in Nat /\ IsRows(fills, n)
    /\ left \in [0 .. n -> Nat] /\ left[0] = inc.qty
    /\ \A k \in 1 .. n : /\ FillOf(inc, T, fills[k])
                         /\ left[k] = left[k - 1] - fills[k].qty
    /\ \A k, l \in 1 .. n : k # l => fills[k].maker # fills[l].maker

Preventing(inc, T, ids, p) ==
    /\ p \in Nat /\ IsRows(ids, p)
    /\ \A k \in 1 .. p : \E m \in T : m.stp = inc.stp /\ ids[k] = m.id
    /\ \A k, l \in 1 .. p : k # l => ids[k] # ids[l]

Walked(inc, T, acc) ==
    /\ DOMAIN acc = LoopFields /\ acc.rem \in Nat /\ acc.stop \in BOOLEAN
    /\ \E n, left : Filling(inc, T, acc.fills, n, left) /\ acc.rem = left[n]
    /\ \E p : Preventing(inc, T, acc.prevented, p)

\* The same, with rest left of the order.
FilledTo(inc, T, fills, n, rest) ==
    \E left : Filling(inc, T, fills, n, left) /\ left[n] = rest

LEMMA FillingKept ==
    ASSUME NEW inc, NEW U, NEW fills, NEW n, NEW left,
           Filling(inc, U, fills, n, left), NEW w
    PROVE  Filling(inc, U \union {w}, fills, n, left)
BY DEF Filling, FillOf

LEMMA FillingMore ==
    ASSUME NEW inc, NEW U, NEW fills, NEW n, NEW left,
           Filling(inc, U, fills, n, left), NEW w, MakerRow(w),
           \A m \in U : m.id # w.id, w.stp # inc.stp,
           NEW q \in 1 .. w.qty, q <= left[n],
           NEW t, RowsWith(fills, n, FillWith(inc, w, q), t)
    PROVE  FilledTo(inc, U \union {w}, t, n + 1, left[n] - q)
<1>. DEFINE f == FillWith(inc, w, q)
            rest == left[n] - q
            more == [k \in 0 .. n + 1 |-> IF k <= n THEN left[k] ELSE rest]
<1>1. /\ n \in Nat /\ IsRows(fills, n) /\ left \in [0 .. n -> Nat]
      /\ left[0] = inc.qty
      /\ \A k \in 1 .. n : /\ FillOf(inc, U, fills[k])
                           /\ left[k] = left[k - 1] - fills[k].qty
      /\ \A k, l \in 1 .. n : k # l => fills[k].maker # fills[l].maker
  BY DEF Filling
<1>2. \A k \in 1 .. n : FillOf(inc, U \union {w}, fills[k])
  BY <1>1 DEF FillOf
<1>3. /\ IsRows(t, n + 1) /\ t[n + 1] = f /\ \A k \in 1 .. n : t[k] = fills[k]
  BY DEF RowsWith
<1>4. /\ f.taker = inc.id /\ f.takerOwner = inc.owner /\ f.maker = w.id
      /\ f.makerOwner = w.owner /\ f.price = w.price /\ f.qty = q
  BY DEF FillWith
<1>5. FillOf(inc, U \union {w}, f)
  BY <1>4 DEF FillOf
<1>6. rest \in Nat
  <2>1. left[n] \in Nat /\ q \in Nat
    BY <1>1 DEF MakerRow
  <2>. QED
    BY <2>1
<1>. HIDE DEF f, rest
<1>7. /\ more \in [0 .. n + 1 -> Nat] /\ more[0] = inc.qty
      /\ more[n + 1] = rest /\ \A k \in 0 .. n : more[k] = left[k]
  BY <1>1, <1>6
<1>. HIDE DEF more
<1>8. ASSUME NEW k \in 1 .. n + 1
      PROVE  /\ FillOf(inc, U \union {w}, t[k])
             /\ more[k] = more[k - 1] - t[k].qty
  <2>1. CASE k = n + 1
    <3>1. k - 1 = n /\ n \in 0 .. n
      <4>1. n \in Nat
        BY <1>1
      <4>. QED
        BY <2>1, <4>1
    <3>. QED
      BY <1>3, <1>4, <1>5, <1>7, <2>1, <3>1 DEF rest
  <2>2. CASE k # n + 1
    <3>1. k \in 1 .. n /\ k \in 0 .. n /\ k - 1 \in 0 .. n
      BY <1>1, <2>2
    <3>. QED
      BY <1>1, <1>2, <1>3, <1>7, <3>1
  <2>. QED
    BY <2>1, <2>2
<1>9. ASSUME NEW k \in 1 .. n + 1, NEW l \in 1 .. n + 1, k # l
      PROVE  t[k].maker # t[l].maker
  <2>1. \A j \in 1 .. n : t[j].maker # w.id
    <3>1. \A j \in 1 .. n : FillOf(inc, U, t[j])
      BY <1>1, <1>3
    <3>. QED
      BY <3>1 DEF FillOf
  <2>2. t[n + 1].maker = w.id
    BY <1>3, <1>4
  <2>3. CASE k = n + 1
    <3>1. l \in 1 .. n
      BY <1>1, <1>9, <2>3
    <3>. QED
      BY <2>1, <2>2, <2>3, <3>1
  <2>4. CASE l = n + 1
    <3>1. k \in 1 .. n
      BY <1>1, <1>9, <2>4
    <3>. QED
      BY <2>1, <2>2, <2>4, <3>1
  <2>5. CASE k # n + 1 /\ l # n + 1
    <3>1. k \in 1 .. n /\ l \in 1 .. n
      BY <1>1, <2>5
    <3>. QED
      BY <1>1, <1>3, <1>9, <3>1
  <2>. QED
    BY <2>3, <2>4, <2>5
<1>10. Filling(inc, U \union {w}, t, n + 1, more)
  <2>1. n + 1 \in Nat
    BY <1>1
  <2>2. \A k \in 1 .. n + 1 : /\ FillOf(inc, U \union {w}, t[k])
                              /\ more[k] = more[k - 1] - t[k].qty
    BY <1>8
  <2>3. \A k, l \in 1 .. n + 1 : k # l => t[k].maker # t[l].maker
    BY <1>9
  <2>. QED
    BY <1>3, <1>7, <2>1, <2>2, <2>3, Zenon DEF Filling
<1>. QED
  BY <1>7, <1>10 DEF FilledTo, rest, f

LEMMA PreventingMore ==
    ASSUME NEW inc, NEW U, NEW ids, NEW p, Preventing(inc, U, ids, p),
           NEW w, \A m \in U : m.id # w.id
    PROVE  /\ Preventing(inc, U \union {w}, ids, p)
           /\ w.stp = inc.stp
                => Preventing(inc, U \union {w}, Append(ids, w.id), p + 1)
<1>1. /\ p \in Nat /\ IsRows(ids, p)
      /\ \A k \in 1 .. p : \E m \in U : m.stp = inc.stp /\ ids[k] = m.id
      /\ \A k, l \in 1 .. p : k # l => ids[k] # ids[l]
  BY DEF Preventing
<1>2. Preventing(inc, U \union {w}, ids, p)
  BY <1>1 DEF Preventing
<1>3. ASSUME w.stp = inc.stp
      PROVE  Preventing(inc, U \union {w}, Append(ids, w.id), p + 1)
  <2>. DEFINE t == Append(ids, w.id)
  <2>0. RowsWith(ids, p, w.id, t)
    BY <1>1, RowsAppend
  <2>. HIDE DEF t
  <2>1. /\ IsRows(t, p + 1) /\ t[p + 1] = w.id /\ \A k \in 1 .. p : t[k] = ids[k]
    BY <2>0 DEF RowsWith
  <2>2. \A k \in 1 .. p + 1 : k = p + 1 \/ k \in 1 .. p
    BY <1>1
  <2>3. \A k \in 1 .. p + 1 :
           \E m \in U \union {w} : m.stp = inc.stp /\ t[k] = m.id
    BY <1>1, <1>3, <2>1, <2>2
  <2>4. \A k \in 1 .. p : t[k] # w.id
    BY <1>1, <2>1
  <2>5. \A k, l \in 1 .. p + 1 : k # l => t[k] # t[l]
    BY <1>1, <2>1, <2>2, <2>4
  <2>. QED
    BY <1>1, <2>1, <2>3, <2>5 DEF Preventing, t
<1>. QED
  BY <1>2, <1>3

LEMMA WalkOn ==
    ASSUME NEW inc, NEW U, NEW acc, Walked(inc, U, acc), NEW w, MakerRow(w),
           \A m \in U : m.id # w.id, NEW r, r = MatchMaker(inc, acc, w)
    PROVE  Walked(inc, U \union {w}, r)
<1>1. /\ DOMAIN acc = LoopFields /\ acc.rem \in Nat /\ acc.stop \in BOOLEAN
  BY DEF Walked
<1>2. PICK n, left : Filling(inc, U, acc.fills, n, left) /\ acc.rem = left[n]
  BY DEF Walked
<1>3. PICK p : Preventing(inc, U, acc.prevented, p)
  BY DEF Walked
<1>4. /\ Filling(inc, U \union {w}, acc.fills, n, left)
      /\ Preventing(inc, U \union {w}, acc.prevented, p)
  BY <1>2, <1>3, FillingKept, PreventingMore
<1>5. CASE ~Going(acc)
  <2>1. r = acc
    BY <1>1, <1>5, TurnOver
  <2>. QED
    BY <1>1, <1>2, <1>4, <2>1 DEF Walked
<1>6. CASE Going(acc) /\ w.stp = inc.stp
  <2>0. TurnPrevented(inc, acc, w, r)
    BY <1>1, <1>6, TurnPrevents
  <2>1. /\ DOMAIN r = LoopFields /\ r.rem = acc.rem /\ r.fills = acc.fills
        /\ r.prevented = Append(acc.prevented, w.id)
        /\ r.stop = (inc.stpMode # "CANCEL_RESTING")
    BY <2>0 DEF TurnPrevented
  <2>2. Preventing(inc, U \union {w}, r.prevented, p + 1)
    BY <1>3, <1>6, <2>1, PreventingMore
  <2>3. r.stop \in BOOLEAN
    BY <2>1
  <2>. QED
    BY <1>1, <1>2, <1>4, <2>1, <2>2, <2>3 DEF Walked
<1>7. CASE Going(acc) /\ w.stp # inc.stp
  <2>. DEFINE q == MinQty(acc.rem, w.qty)
  <2>0. TurnTraded(inc, acc, w, MinQty(acc.rem, w.qty), r)
    BY <1>1, <1>7, TurnTrades
  <2>1. /\ DOMAIN r = LoopFields /\ r.rem = acc.rem - q
        /\ r.fills = Append(acc.fills, FillWith(inc, w, q))
        /\ r.prevented = acc.prevented /\ r.stop = acc.stop
    BY <2>0 DEF TurnTraded
  <2>2. q \in 1 .. w.qty /\ q <= acc.rem
    BY <1>1, <1>7 DEF MinQty, MakerRow, Going
  <2>. HIDE DEF q
  <2>5. q <= left[n]
    BY <1>2, <2>2
  <2>7. RowsWith(acc.fills, n, FillWith(inc, w, q), r.fills)
    BY <1>2, <2>1, RowsAppend DEF Filling
  <2>6. FilledTo(inc, U \union {w}, r.fills, n + 1, left[n] - q)
    BY <1>2, <1>7, <2>2, <2>5, <2>7, FillingMore
  <2>3. PICK more : /\ Filling(inc, U \union {w}, r.fills, n + 1, more)
                    /\ more[n + 1] = left[n] - q
    BY <2>6 DEF FilledTo
  <2>4. r.rem \in Nat
    BY <1>1, <2>1, <2>2
  <2>. QED
    BY <1>1, <1>2, <1>4, <2>1, <2>3, <2>4 DEF Walked
<1>. QED
  BY <1>5, <1>6, <1>7

LEMMA WalkNone ==
    ASSUME NEW makers, NEW inc, inc.qty \in Nat
    PROVE  Walked(inc, {}, LoopStart(makers, inc))
<1>. DEFINE s == LoopStart(makers, inc)
            left == [k \in 0 .. 0 |-> inc.qty]
<1>1. /\ DOMAIN s = LoopFields /\ s.rem = inc.qty /\ s.stop = FALSE
      /\ s.fills = <<>> /\ s.prevented = <<>>
  BY DEF LoopStart, LoopFields
<1>2. IsRows(<<>>, 0)
  <2>1. <<>> \in Seq({}) /\ Len(<<>>) = 0
    OBVIOUS
  <2>. QED
    BY <2>1 DEF IsRows
<1>3. left \in [0 .. 0 -> Nat] /\ left[0] = inc.qty
  OBVIOUS
<1>. HIDE DEF left
<1>4. Filling(inc, {}, <<>>, 0, left)
  BY <1>2, <1>3 DEF Filling
<1>5. Preventing(inc, {}, <<>>, 0)
  BY <1>2 DEF Preventing
<1>. HIDE DEF s
<1>6. Walked(inc, {}, s)
  BY <1>1, <1>3, <1>4, <1>5 DEF Walked
<1>. QED
  BY <1>6 DEF s

LEMMA LoopWalked ==
    ASSUME NEW makers, NEW inc, inc.qty \in Nat,
           NEW side, Queue(CrossingMakers(makers, inc), side)
    PROVE  Walked(inc, CrossingMakers(makers, inc), MatchLoop(makers, inc))
<1>. DEFINE S == CrossingMakers(makers, inc)
            R(T) == Match!Fold(inc, LoopStart(makers, inc), T)
            good == {T \in SUBSET S : Walked(inc, T, R(T))}
<1>1. Match!Finite(S) /\ Match!Picks(S)
  BY QueuePicked
<1>2. {} \in good
  BY WalkNone, Match!FoldEmpty
<1>3. ASSUME NEW T \in SUBSET S, T # {}, Match!Rest(T) \in good
      PROVE  T \in good
  <2>. DEFINE w == Worst(T)
              U == Match!Rest(T)
  <2>1. Queue(T, side)
    BY QueuePart
  <2>2. Match!Finite(T) /\ Match!Picks(T)
    BY <2>1, QueuePicked
  <2>3. R(T) = MatchMaker(inc, R(U), w)
    BY <1>3, <2>2, Match!FoldLast DEF MatchTurn
  <2>4. w \in T /\ U = T \ {w} /\ MakerRow(w)
    BY <1>3, <2>1, WorstIs DEF Match!Rest, Queue
  <2>5. Walked(inc, U, R(U))
    BY <1>3
  <2>. HIDE DEF R, U, w
  <2>6. \A m \in U : m.id # w.id
    BY <2>1, <2>4 DEF Queue
  <2>7. U \union {w} = T
    BY <2>4
  <2>8. Walked(inc, T, R(T))
    BY <2>3, <2>4, <2>5, <2>6, <2>7, WalkOn
  <2>. QED
    BY <2>8
<1>4. S \in good
  <2>. HIDE DEF good
  <2>. QED
    BY <1>1, <1>2, <1>3, Match!PickInduct
<1>. QED
  BY <1>4, MatchLoopIs

\* What the matcher returns of the end of the loop.
Disposed(end, inc, res) ==
    /\ res.fills = end.fills /\ res.prevented = end.prevented
    /\ res.filled = inc.qty - end.rem
    /\ res.canceled > 0 => end.rem > 0
    /\ res.book = IF ~end.stop /\ end.rem # 0 /\ inc.tif = "GTC"
                  THEN end.book \union {Resting(inc, end.rem)}
                  ELSE end.book

LEMMA DisposeIs ==
    ASSUME NEW end, end.rem \in Nat, NEW inc
    PROVE  Disposed(end, inc, Dispose(end, inc))
<1>. SUFFICES ASSUME NEW res, res = Dispose(end, inc)
               PROVE  Disposed(end, inc, res)
  OBVIOUS
<1>1. CASE end.stop
  <2>1. \E d : res = Matched(end, inc, d, end.book, end.rem, 0)
    BY <1>1 DEF Dispose
  <2>. QED
    BY <1>1, <2>1 DEF Matched, Disposed
<1>2. CASE ~end.stop /\ end.rem = 0
  <2>1. res = Matched(end, inc, "FILLED", end.book, 0, 0)
    BY <1>2 DEF Dispose
  <2>. QED
    BY <1>2, <2>1 DEF Matched, Disposed
<1>3. CASE ~end.stop /\ end.rem # 0 /\ inc.tif = "GTC"
  <2>1. \E d : res = Matched(end, inc, d,
                             end.book \union {Resting(inc, end.rem)}, 0, end.rem)
    BY <1>3 DEF Dispose
  <2>. QED
    BY <1>3, <2>1 DEF Matched, Disposed
<1>4. CASE ~end.stop /\ end.rem # 0 /\ inc.tif # "GTC"
  <2>1. \E d : res = Matched(end, inc, d, end.book, end.rem, 0)
    BY <1>4 DEF Dispose
  <2>. QED
    BY <1>4, <2>1 DEF Matched, Disposed
<1>. QED
  BY <1>1, <1>2, <1>3, <1>4

LEMMA MatchOrderIs ==
    ASSUME NEW makers, NEW inc, NEW res, res = MatchOrder(makers, inc)
    PROVE  \/ \E why \in {"POST_ONLY_WOULD_TRADE", "FOK_NOT_FILLABLE"} :
                 res = Rejected(makers, inc, why)
           \/ /\ ~PostOnlyWouldTrade(makers, inc) /\ ~FokNotFillable(makers, inc)
              /\ res = Dispose(MatchLoop(makers, inc), inc)
<1>1. CASE PostOnlyWouldTrade(makers, inc)
  <2>1. res = Rejected(makers, inc, "POST_ONLY_WOULD_TRADE")
    BY <1>1 DEF MatchOrder
  <2>. QED
    BY <2>1
<1>2. CASE ~PostOnlyWouldTrade(makers, inc) /\ FokNotFillable(makers, inc)
  <2>1. res = Rejected(makers, inc, "FOK_NOT_FILLABLE")
    BY <1>2 DEF MatchOrder
  <2>. QED
    BY <2>1
<1>3. CASE ~PostOnlyWouldTrade(makers, inc) /\ ~FokNotFillable(makers, inc)
  BY <1>3 DEF MatchOrder
<1>. QED
  BY <1>1, <1>2, <1>3

----------------------------------------------------------------------------
\* The book driven by the matcher alone.  A turn of the loop: after the makers
\* U it comes to w, the worst of T.
Turn(inc, T, U, w, acc, r) ==
    /\ \E side : Queue(T, side)
    /\ w \in T /\ U = T \ {w} /\ \A o \in U : Before(o, w)
    /\ Walked(inc, U, acc) /\ r = MatchMaker(inc, acc, w)

LEMMA TurnFacts ==
    ASSUME NEW inc, NEW T, NEW U, NEW w, NEW acc, NEW r, Turn(inc, T, U, w, acc, r)
    PROVE  /\ DOMAIN acc = LoopFields /\ acc.rem \in Nat /\ acc.stop \in BOOLEAN
           /\ MakerRow(w) /\ T = U \union {w} /\ w \notin U
           /\ \A m \in U : MakerRow(m) /\ m.side = w.side /\ m.id # w.id /\ Before(m, w)
           /\ \A a, b \in T : a.id = b.id => a = b
           /\ Walked(inc, T, r)
<1>1. /\ DOMAIN acc = LoopFields /\ acc.rem \in Nat /\ acc.stop \in BOOLEAN
  BY DEF Turn, Walked
<1>2. /\ MakerRow(w) /\ T = U \union {w} /\ w \notin U
      /\ \A m \in U : MakerRow(m) /\ m.side = w.side /\ m.id # w.id /\ Before(m, w)
      /\ \A a, b \in T : a.id = b.id => a = b
  BY DEF Turn, Queue
<1>3. Walked(inc, T, r)
  BY <1>2, WalkOn DEF Turn
<1>. QED
  BY <1>1, <1>2, <1>3

\* Some fill is against the maker; one fills it completely.
Touched(fills, id) == \E k \in DOMAIN fills : fills[k].maker = id
Finished(fills, m) == \E k \in DOMAIN fills : /\ fills[k].maker = m.id
                                              /\ fills[k].qty = m.qty

LEMMA FillsGrow ==
    ASSUME NEW fills, NEW n \in Nat, IsRows(fills, n), NEW f,
           NEW t, RowsWith(fills, n, f, t)
    PROVE  /\ \A id : Touched(t, id) <=> Touched(fills, id) \/ f.maker = id
           /\ \A m : Finished(t, m) <=> \/ Finished(fills, m)
                                        \/ f.maker = m.id /\ f.qty = m.qty
<1>1. /\ t[n + 1] = f /\ \A k \in 1 .. n : t[k] = fills[k]
      /\ DOMAIN fills = 1 .. n /\ DOMAIN t = 1 .. n + 1
  BY DEF RowsWith, IsRows
<1>2. \A k \in 1 .. n + 1 : k = n + 1 \/ k \in 1 .. n
  OBVIOUS
<1>3. n + 1 \in 1 .. n + 1 /\ \A k \in 1 .. n : k \in 1 .. n + 1
  OBVIOUS
<1>4. \A id : Touched(t, id) <=> Touched(fills, id) \/ f.maker = id
  BY <1>1, <1>2, <1>3 DEF Touched
<1>5. \A m : Finished(t, m) <=> \/ Finished(fills, m)
                                \/ f.maker = m.id /\ f.qty = m.qty
  BY <1>1, <1>2, <1>3 DEF Finished
<1>. QED
  BY <1>4, <1>5

\* Priority, of a loop that went over T.
Prior(inc, T, acc) ==
    /\ \A m, b \in T :
          (Touched(acc.fills, m.id) /\ b.stp # inc.stp /\ Before(b, m))
             => Finished(acc.fills, b)
    /\ Going(acc) => \A b \in T : b.stp # inc.stp => Finished(acc.fills, b)

LEMMA PriorOn ==
    ASSUME NEW inc, NEW T, NEW U, NEW w, NEW acc, NEW r, Turn(inc, T, U, w, acc, r),
           Prior(inc, U, acc)
    PROVE  Prior(inc, T, r)
<1>1. /\ DOMAIN acc = LoopFields /\ acc.rem \in Nat /\ acc.stop \in BOOLEAN
      /\ MakerRow(w) /\ T = U \union {w} /\ w \notin U
      /\ \A m \in U : MakerRow(m) /\ m.side = w.side /\ m.id # w.id /\ Before(m, w)
  BY TurnFacts
<1>2. r = MatchMaker(inc, acc, w) /\ Walked(inc, U, acc)
  BY DEF Turn
<1>3. ~Before(w, w) /\ \A m \in U : ~Before(w, m)
  BY <1>1, BeforeOrders
<1>4. PICK n \in Nat : IsRows(acc.fills, n) /\ \A k \in 1 .. n : FillOf(inc, U, acc.fills[k])
  BY <1>2 DEF Walked, Filling
<1>5. ~Touched(acc.fills, w.id)
  BY <1>1, <1>4 DEF Touched, FillOf, IsRows
<1>6. ASSUME r.fills = acc.fills
      PROVE  \A m, b \in T :
               (Touched(r.fills, m.id) /\ b.stp # inc.stp /\ Before(b, m))
                  => Finished(r.fills, b)
  BY <1>1, <1>3, <1>5, <1>6 DEF Prior
<1>7. CASE ~Going(acc)
  <2>1. r = acc
    BY <1>1, <1>2, <1>7, TurnOver
  <2>. QED
    BY <1>6, <1>7, <2>1 DEF Prior
<1>8. CASE Going(acc) /\ w.stp = inc.stp
  <2>0. TurnPrevented(inc, acc, w, r)
    BY <1>1, <1>2, <1>8, TurnPrevents
  <2>1. r.fills = acc.fills
    BY <2>0 DEF TurnPrevented
  <2>2. \A b \in T : b.stp # inc.stp => Finished(r.fills, b)
    BY <1>1, <1>8, <2>1 DEF Prior
  <2>. QED
    BY <1>6, <2>1, <2>2 DEF Prior
<1>9. CASE Going(acc) /\ w.stp # inc.stp
  <2>. DEFINE q == MinQty(acc.rem, w.qty)
              f == FillWith(inc, w, q)
  <2>0. TurnTraded(inc, acc, w, MinQty(acc.rem, w.qty), r)
    BY <1>1, <1>2, <1>9, TurnTrades
  <2>1. /\ r.rem = acc.rem - q /\ r.fills = Append(acc.fills, f)
    BY <2>0 DEF TurnTraded
  <2>2. f.maker = w.id /\ f.qty = q
    BY DEF FillWith
  <2>. HIDE DEF f
  <2>9. RowsWith(acc.fills, n, f, r.fills)
    BY <1>4, <2>1, RowsAppend
  <2>3. /\ \A id : Touched(r.fills, id) <=> Touched(acc.fills, id) \/ w.id = id
        /\ \A m : Finished(acc.fills, m) => Finished(r.fills, m)
        /\ q = w.qty => Finished(r.fills, w)
    BY <1>4, <2>2, <2>9, FillsGrow
  <2>4. \A b \in U : b.stp # inc.stp => Finished(r.fills, b)
    BY <1>9, <2>3 DEF Prior
  <2>5. Going(r) => q = w.qty
    BY <1>1, <2>1 DEF Going, MinQty, MakerRow
  <2>. HIDE DEF q
  <2>6. \A m, b \in T : Before(b, m) => b \in U
    BY <1>1, <1>3
  <2>7. Going(r) => \A b \in T : b.stp # inc.stp => Finished(r.fills, b)
    BY <1>1, <2>3, <2>4, <2>5
  <2>. QED
    BY <2>4, <2>6, <2>7 DEF Prior
<1>. QED
  BY <1>7, <1>8, <1>9

\* The makers the order should trade with, of T, and what they offer.
Own(inc, T) == {m \in T : m.stp = inc.stp}
Reach(inc, T) ==
    {m \in T \ Own(inc, T) :
        inc.stpMode = "CANCEL_RESTING" \/ \A o \in Own(inc, T) : HasPriority(m, o)}
Liquid(inc, T) == SumFunction([m \in Reach(inc, T) |-> m.qty])

\* A maker's id is its priority.
Dated(T) == \A m \in T : m.seq = m.id

\* After the makers U the look-ahead counts w too.
Counted(inc, U, w) ==
    w.stp # inc.stp /\ (inc.stpMode = "CANCEL_RESTING" \/ Own(inc, U) = {})

LEMMA ReachMore ==
    ASSUME NEW inc, NEW T, NEW side, Queue(T, side), Dated(T),
           NEW w \in T, NEW U, U = T \ {w}, \A o \in U : Before(o, w)
    PROVE  /\ Counted(inc, U, w) => Reach(inc, T) = Reach(inc, U) \union {w}
           /\ ~Counted(inc, U, w) => Reach(inc, T) = Reach(inc, U)
<1>1. \A m \in T : MakerRow(m) /\ m.side = side /\ m.seq = m.id
  BY DEF Queue, Dated
<1>2. \A a, b \in T : a.id = b.id => a = b
  BY DEF Queue
<1>3. \A m \in U : HasPriority(m, w) /\ ~HasPriority(w, m)
  <2>1. ASSUME NEW m \in U
        PROVE  HasPriority(m, w) /\ ~HasPriority(w, m)
    <3>1. MakerRow(m) /\ MakerRow(w) /\ m.side = w.side /\ m.seq # w.seq /\ Before(m, w)
      BY <1>1, <1>2
    <3>. QED
      BY <3>1 DEF Before, BetterPrice, HasPriority, MakerRow, Sides
  <2>. QED
    BY <2>1
<1>4. T = U \union {w} /\ w \notin U
  OBVIOUS
<1>5. CASE w.stp = inc.stp
  <2>1. Own(inc, T) = Own(inc, U) \union {w}
    BY <1>4, <1>5 DEF Own
  <2>2. \A m : m \in T \ Own(inc, T) <=> m \in U \ Own(inc, U)
    BY <1>4, <2>1 DEF Own
  <2>3. \A m \in U : (\A o \in Own(inc, T) : HasPriority(m, o))
                        <=> \A o \in Own(inc, U) : HasPriority(m, o)
    BY <1>3, <2>1
  <2>4. Reach(inc, T) = Reach(inc, U)
    BY <2>2, <2>3 DEF Reach
  <2>. QED
    BY <1>5, <2>4 DEF Counted
<1>6. CASE w.stp # inc.stp
  <2>1. Own(inc, T) = Own(inc, U) /\ Own(inc, U) \subseteq U /\ w \notin Own(inc, U)
    BY <1>4, <1>6 DEF Own
  <2>2. T \ Own(inc, T) = (U \ Own(inc, U)) \union {w}
    BY <1>4, <2>1
  <2>3. CASE inc.stpMode = "CANCEL_RESTING" \/ Own(inc, U) = {}
    <3>1. Reach(inc, T) = Reach(inc, U) \union {w}
      BY <2>1, <2>2, <2>3 DEF Reach
    <3>. QED
      BY <1>6, <2>3, <3>1 DEF Counted
  <2>4. CASE ~(inc.stpMode = "CANCEL_RESTING" \/ Own(inc, U) = {})
    <3>1. ~(\A o \in Own(inc, U) : HasPriority(w, o))
      BY <1>3, <2>1, <2>4
    <3>2. Reach(inc, T) = Reach(inc, U)
      BY <2>1, <2>2, <2>4, <3>1 DEF Reach
    <3>. QED
      BY <2>4, <3>2 DEF Counted
  <2>. QED
    BY <2>3, <2>4
<1>. QED
  BY <1>5, <1>6

LEMMA LiquidNat ==
    ASSUME NEW inc, NEW T, NEW side, Queue(T, side)
    PROVE  IsFiniteSet(Reach(inc, T)) /\ Liquid(inc, T) \in Nat
<1>1. Reach(inc, T) \subseteq T /\ \A m \in T : m.qty \in Nat
  BY DEF Reach, Queue, MakerRow
<1>2. IsFiniteSet(Reach(inc, T))
  BY <1>1, FS_Subset DEF Queue
<1>3. [m \in Reach(inc, T) |-> m.qty] \in [Reach(inc, T) -> Nat]
  BY <1>1
<1>. QED
  BY <1>2, <1>3, SumIsNat DEF Liquid

LEMMA LiquidMore ==
    ASSUME NEW inc, NEW T, NEW side, Queue(T, side), Dated(T),
           NEW w \in T, NEW U, U = T \ {w}, \A o \in U : Before(o, w)
    PROVE  /\ Liquid(inc, U) \in Nat /\ Liquid(inc, T) \in Nat
           /\ Counted(inc, U, w) => Liquid(inc, T) = Liquid(inc, U) + w.qty
           /\ ~Counted(inc, U, w) => Liquid(inc, T) = Liquid(inc, U)
<1>1. Queue(U, side)
  BY QueuePart
<1>2. Liquid(inc, U) \in Nat /\ Liquid(inc, T) \in Nat /\ IsFiniteSet(Reach(inc, U))
  BY <1>1, LiquidNat
<1>3. CASE Counted(inc, U, w)
  <2>. DEFINE R == Reach(inc, U)
              V == Reach(inc, T)
              f == [m \in R |-> m.qty]
              g == [m \in V |-> m.qty]
  <2>1. V = R \union {w}
    BY <1>3, ReachMore
  <2>2. w \notin R /\ \A m \in V : m.qty \in Int
    BY DEF Reach, Queue, MakerRow
  <2>. HIDE DEF R, V
  <2>3. f \in [R -> Int] /\ g \in [R \union {w} -> Int] /\ (\A m \in R : g[m] = f[m]) /\ g[w] = w.qty
    BY <2>1, <2>2
  <2>. HIDE DEF f, g
  <2>4. IsFiniteSet(R)
    BY <1>2 DEF R
  <2>5. SumFunction(g) = SumFunction(f) + g[w]
    <3>1. Extends(R, f, w, g)
      BY <2>2, <2>3, <2>4 DEF Extends
    <3>. QED
      BY <3>1, SumOneMore
  <2>6. Liquid(inc, T) = Liquid(inc, U) + w.qty
    BY <2>3, <2>5 DEF Liquid, f, g, R, V
  <2>. QED
    BY <1>2, <1>3, <2>6
<1>4. CASE ~Counted(inc, U, w)
  <2>1. Reach(inc, T) = Reach(inc, U)
    BY <1>4, ReachMore
  <2>. QED
    BY <1>2, <1>4, <2>1 DEF Liquid
<1>. QED
  BY <1>3, <1>4

\* How much is left, and whether the loop was ended, when it went over T.
Exact(inc, T, acc) ==
    /\ acc.rem = inc.qty - MinQty(inc.qty, Liquid(inc, T))
    /\ (inc.stpMode = "CANCEL_RESTING" \/ Own(inc, T) = {}) => ~acc.stop
    /\ ~(inc.stpMode = "CANCEL_RESTING" \/ Own(inc, T) = {}) => ~Going(acc)

LEMMA ExactOn ==
    ASSUME NEW inc, inc.qty \in Nat, NEW T, Dated(T), NEW U, NEW w, NEW acc, NEW r,
           Turn(inc, T, U, w, acc, r), Exact(inc, U, acc)
    PROVE  Exact(inc, T, r)
<1>. DEFINE free == inc.stpMode = "CANCEL_RESTING" \/ Own(inc, U) = {}
            l == Liquid(inc, U)
            k == Liquid(inc, T)
<1>1. /\ DOMAIN acc = LoopFields /\ acc.rem \in Nat /\ acc.stop \in BOOLEAN
      /\ MakerRow(w) /\ T = U \union {w} /\ w \notin U
  BY TurnFacts
<1>2. r = MatchMaker(inc, acc, w) /\ U = T \ {w} /\ w \in T
  BY DEF Turn
<1>3. /\ l \in Nat /\ k \in Nat
      /\ w.stp # inc.stp /\ free => k = l + w.qty
      /\ ~(w.stp # inc.stp /\ free) => k = l
  <2>1. PICK side : Queue(T, side)
    BY DEF Turn
  <2>2. \A o \in U : Before(o, w)
    BY DEF Turn
  <2>3. /\ l \in Nat /\ k \in Nat
        /\ Counted(inc, U, w) => k = l + w.qty
        /\ ~Counted(inc, U, w) => k = l
    BY <1>2, <2>1, <2>2, LiquidMore
  <2>. QED
    BY <2>3 DEF Counted
<1>4. /\ acc.rem = inc.qty - MinQty(inc.qty, l)
      /\ free => ~acc.stop
      /\ ~free => ~Going(acc)
  BY DEF Exact
<1>5. w.stp = inc.stp => Own(inc, T) # {}
  BY <1>1 DEF Own
<1>6. w.stp # inc.stp => Own(inc, T) = Own(inc, U)
  BY <1>1 DEF Own
<1>7. w.qty \in Nat /\ w.qty > 0
  BY <1>1 DEF MakerRow
<1>8. Own(inc, U) # {} => Own(inc, T) # {}
  BY <1>1 DEF Own
<1>. HIDE DEF l, k, free
<1>9. CASE ~Going(acc)
  <2>1. r = acc
    BY <1>1, <1>2, <1>9, TurnOver
  <2>2. MinQty(inc.qty, k) = MinQty(inc.qty, l)
    <3>1. CASE acc.rem = 0
      <4>1. l >= inc.qty /\ k >= inc.qty
        BY <1>3, <1>4, <1>7, <3>1 DEF MinQty
      <4>. QED
        BY <1>3, <4>1 DEF MinQty
    <3>2. CASE acc.rem # 0
      <4>1. ~free
        BY <1>4, <1>9, <3>2 DEF Going
      <4>. QED
        BY <1>3, <4>1
    <3>. QED
      BY <3>1, <3>2
  <2>3. (inc.stpMode = "CANCEL_RESTING" \/ Own(inc, T) = {}) => free
    BY <1>8 DEF free
  <2>. QED
    BY <1>4, <1>9, <2>1, <2>2, <2>3 DEF Exact, k
<1>10. CASE Going(acc) /\ w.stp = inc.stp
  <2>0. TurnPrevented(inc, acc, w, r)
    BY <1>1, <1>2, <1>10, TurnPrevents
  <2>1. r.rem = acc.rem /\ r.stop = (inc.stpMode # "CANCEL_RESTING")
    BY <2>0 DEF TurnPrevented
  <2>2. k = l
    BY <1>3, <1>10
  <2>. QED
    BY <1>4, <1>5, <1>10, <2>1, <2>2 DEF Exact, Going, k
<1>11. CASE Going(acc) /\ w.stp # inc.stp
  <2>0. TurnTraded(inc, acc, w, MinQty(acc.rem, w.qty), r)
    BY <1>1, <1>2, <1>11, TurnTrades
  <2>1. r.rem = acc.rem - MinQty(acc.rem, w.qty) /\ r.stop = acc.stop
    BY <2>0 DEF TurnTraded
  <2>2. free /\ ~acc.stop /\ k = l + w.qty
    BY <1>3, <1>4, <1>11
  <2>3. r.rem = inc.qty - MinQty(inc.qty, k)
    BY <1>3, <1>4, <1>7, <2>1, <2>2 DEF MinQty
  <2>. QED
    BY <1>6, <1>11, <2>1, <2>2, <2>3 DEF Exact, free, k
<1>. QED
  BY <1>9, <1>10, <1>11

\* The rows of a book, and what the loop leaves of them when it went over T.
BookRows(rows) ==
    /\ IsFiniteSet(rows)
    /\ \A m \in rows : MakerRow(m)
    /\ \A a, b \in rows : a.id = b.id => a = b

StillAs(e, m) ==
    /\ MakerRow(e) /\ e.id = m.id /\ e.owner = m.owner /\ e.stp = m.stp
    /\ e.side = m.side /\ e.price = m.price /\ e.seq = m.seq

HasId(rows, id) == \E e \in rows : e.id = id
Among(ids, id) == \E k \in DOMAIN ids : ids[k] = id
Removing(inc) == inc.stpMode # "CANCEL_AGGRESSOR"

Standing(inc, rows, T, acc) ==
    /\ IsFiniteSet(acc.book)
    /\ \A e \in acc.book : \E m \in rows : StillAs(e, m) /\ (m \notin T => e = m)
    /\ \A a, b \in acc.book : a.id = b.id => a = b
    /\ \A m \in rows : \/ HasId(acc.book, m.id) \/ Touched(acc.fills, m.id)
                       \/ Removing(inc) /\ Among(acc.prevented, m.id)
    /\ \A m \in T : Removing(inc) /\ Among(acc.prevented, m.id)
                       => ~HasId(acc.book, m.id)

LEMMA IdsGrow ==
    ASSUME NEW ids, NEW p \in Nat, IsRows(ids, p), NEW x, NEW t,
           RowsWith(ids, p, x, t)
    PROVE  \A id : Among(t, id) <=> Among(ids, id) \/ x = id
<1>1. /\ t[p + 1] = x /\ \A k \in 1 .. p : t[k] = ids[k]
      /\ DOMAIN ids = 1 .. p /\ DOMAIN t = 1 .. p + 1
  BY DEF RowsWith, IsRows
<1>2. \A k \in 1 .. p + 1 : k = p + 1 \/ k \in 1 .. p
  OBVIOUS
<1>3. p + 1 \in 1 .. p + 1 /\ \A k \in 1 .. p : k \in 1 .. p + 1
  OBVIOUS
<1>. QED
  BY <1>1, <1>2, <1>3 DEF Among

\* What a fill leaves of a maker.
LEMMA LeftIs ==
    ASSUME NEW w, MakerRow(w), NEW q \in 1 .. w.qty
    PROVE  /\ IsFiniteSet(LeftOf(w, q))
           /\ \A e \in LeftOf(w, q) : StillAs(e, w)
           /\ \A a, b \in LeftOf(w, q) : a = b
<1>1. CASE q = w.qty
  <2>1. LeftOf(w, q) = {}
    BY <1>1 DEF LeftOf
  <2>. QED
    BY <2>1, FS_EmptySet
<1>2. CASE q # w.qty
  <2>. DEFINE e == [w EXCEPT !.qty = @ - q]
  <2>1. LeftOf(w, q) = {e}
    BY <1>2 DEF LeftOf
  <2>2. /\ DOMAIN e = MakerFields /\ e.id = w.id /\ e.owner = w.owner /\ e.stp = w.stp
        /\ e.side = w.side /\ e.price = w.price /\ e.seq = w.seq
        /\ e.qty = w.qty - q
    BY DEF MakerRow, MakerFields
  <2>3. w.qty - q \in Nat /\ w.qty - q > 0
    BY <1>2 DEF MakerRow
  <2>. HIDE DEF e
  <2>4. StillAs(e, w)
    BY <2>2, <2>3 DEF StillAs, MakerRow
  <2>5. IsFiniteSet({e})
    BY FS_Singleton
  <2>. QED
    BY <2>1, <2>4, <2>5
<1>. QED
  BY <1>1, <1>2

LEMMA StandingOn ==
    ASSUME NEW inc, NEW rows, BookRows(rows), NEW T \in SUBSET rows, NEW U, NEW w,
           NEW acc, NEW r, Turn(inc, T, U, w, acc, r), Standing(inc, rows, U, acc)
    PROVE  Standing(inc, rows, T, r)
<1>1. /\ DOMAIN acc = LoopFields /\ acc.rem \in Nat /\ acc.stop \in BOOLEAN
      /\ MakerRow(w) /\ T = U \union {w} /\ w \notin U /\ w \in rows
      /\ U \subseteq rows /\ \A m \in U : m.id # w.id
  BY TurnFacts
<1>2. r = MatchMaker(inc, acc, w) /\ Walked(inc, U, acc)
  BY DEF Turn
<1>3. \A a, b \in rows : a.id = b.id => a = b
  BY DEF BookRows
<1>4. PICK n \in Nat : IsRows(acc.fills, n)
  BY <1>2 DEF Walked, Filling
<1>5. PICK p \in Nat : /\ IsRows(acc.prevented, p)
                       /\ \A k \in 1 .. p : \E m \in U : acc.prevented[k] = m.id
  BY <1>2 DEF Walked, Preventing
<1>6. ~Among(acc.prevented, w.id)
  BY <1>1, <1>5 DEF Among, IsRows
<1>7. /\ IsFiniteSet(acc.book)
      /\ \A e \in acc.book : \E m \in rows : StillAs(e, m) /\ (m \notin U => e = m)
      /\ \A a, b \in acc.book : a.id = b.id => a = b
      /\ \A m \in rows : \/ HasId(acc.book, m.id) \/ Touched(acc.fills, m.id)
                         \/ Removing(inc) /\ Among(acc.prevented, m.id)
      /\ \A m \in U : Removing(inc) /\ Among(acc.prevented, m.id)
                         => ~HasId(acc.book, m.id)
  BY DEF Standing
<1>8. \A e \in acc.book : e.id = w.id => e = w
  <2>1. ASSUME NEW e \in acc.book, e.id = w.id
        PROVE  e = w
    <3>1. PICK m \in rows : e.id = m.id /\ (m \notin U => e = m)
      BY <1>7 DEF StillAs
    <3>2. m = w
      BY <1>1, <1>3, <2>1, <3>1
    <3>. QED
      BY <1>1, <3>1, <3>2
  <2>. QED
    BY <2>1
<1>9. \A e \in acc.book : \E m \in rows : StillAs(e, m) /\ (m \notin T => e = m)
  BY <1>1, <1>7
<1>10. IsFiniteSet(acc.book \ {w})
  BY <1>7, FS_RemoveElement
<1>11. CASE ~Going(acc)
  <2>1. r = acc
    BY <1>1, <1>2, <1>11, TurnOver
  <2>2. \A m \in T : Removing(inc) /\ Among(acc.prevented, m.id)
                         => ~HasId(acc.book, m.id)
    BY <1>1, <1>6, <1>7
  <2>. QED
    BY <1>7, <1>9, <2>1, <2>2 DEF Standing
<1>12. CASE Going(acc) /\ w.stp = inc.stp
  <2>0. TurnPrevented(inc, acc, w, r)
    BY <1>1, <1>2, <1>12, TurnPrevents
  <2>1. /\ r.fills = acc.fills /\ r.prevented = Append(acc.prevented, w.id)
        /\ r.book = IF Removing(inc) THEN acc.book \ {w} ELSE acc.book
    BY <2>0 DEF TurnPrevented, Removing
  <2>2. \A id : Among(r.prevented, id) <=> Among(acc.prevented, id) \/ w.id = id
    <3>1. RowsWith(acc.prevented, p, w.id, r.prevented)
      BY <1>5, <2>1, RowsAppend
    <3>. QED
      BY <1>5, <3>1, IdsGrow
  <2>3. CASE Removing(inc)
    <3>1. r.book = acc.book \ {w}
      BY <2>1, <2>3
    <3>2. \A id : HasId(r.book, id) <=> HasId(acc.book, id) /\ id # w.id
      BY <1>8, <3>1 DEF HasId
    <3>3. \A m \in rows : \/ HasId(r.book, m.id) \/ Touched(r.fills, m.id)
                          \/ Removing(inc) /\ Among(r.prevented, m.id)
      BY <1>7, <2>1, <2>2, <2>3, <3>2
    <3>4. \A m \in T : Removing(inc) /\ Among(r.prevented, m.id)
                          => ~HasId(r.book, m.id)
      BY <1>1, <1>7, <2>2, <3>2
    <3>5. IsFiniteSet(r.book)
      BY <1>10, <3>1
    <3>6. \A e \in r.book : \E m \in rows : StillAs(e, m) /\ (m \notin T => e = m)
      BY <1>9, <3>1
    <3>7. \A a, b \in r.book : a.id = b.id => a = b
      BY <1>7, <3>1
    <3>. QED
      BY <3>3, <3>4, <3>5, <3>6, <3>7 DEF Standing
  <2>4. CASE ~Removing(inc)
    <3>1. r.book = acc.book
      BY <2>1, <2>4
    <3>2. \A m \in rows : \/ HasId(r.book, m.id) \/ Touched(r.fills, m.id)
                          \/ Removing(inc) /\ Among(r.prevented, m.id)
      BY <1>7, <2>1, <2>4, <3>1
    <3>. QED
      BY <1>7, <1>9, <2>4, <3>1, <3>2 DEF Standing
  <2>. QED
    BY <2>3, <2>4
<1>13. CASE Going(acc) /\ w.stp # inc.stp
  <2>. DEFINE q == MinQty(acc.rem, w.qty)
              f == FillWith(inc, w, q)
              left == LeftOf(w, q)
  <2>0. TurnTraded(inc, acc, w, MinQty(acc.rem, w.qty), r)
    BY <1>1, <1>2, <1>13, TurnTrades
  <2>1. /\ r.fills = Append(acc.fills, f) /\ r.prevented = acc.prevented
        /\ r.book = (acc.book \ {w}) \union left
    BY <2>0 DEF TurnTraded
  <2>2. q \in 1 .. w.qty
    BY <1>1, <1>13 DEF MinQty, MakerRow, Going
  <2>3. f.maker = w.id
    BY DEF FillWith
  <2>. HIDE DEF q, f
  <2>4. IsFiniteSet(left) /\ (\A e \in left : StillAs(e, w)) /\ \A a, b \in left : a = b
    BY <1>1, <2>2, LeftIs
  <2>. HIDE DEF left
  <2>15. RowsWith(acc.fills, n, f, r.fills)
    BY <1>4, <2>1, RowsAppend
  <2>5. \A id : Touched(r.fills, id) <=> Touched(acc.fills, id) \/ w.id = id
    BY <1>4, <2>3, <2>15, FillsGrow
  <2>6. \A e \in left : e.id = w.id
    BY <2>4 DEF StillAs
  <2>7. \A e \in acc.book \ {w} : e.id # w.id
    BY <1>8
  <2>8. \A id : id # w.id => (HasId(r.book, id) <=> HasId(acc.book, id))
    <3>1. ASSUME NEW id, id # w.id
          PROVE  HasId(r.book, id) <=> HasId(acc.book, id)
      <4>1. \A e : e.id = id => (e \in r.book <=> e \in acc.book)
        BY <2>1, <2>6, <3>1
      <4>. QED
        BY <4>1 DEF HasId
    <3>. QED
      BY <3>1
  <2>9. IsFiniteSet(r.book)
    <3>1. IsFiniteSet((acc.book \ {w}) \union left)
      BY <1>10, <2>4, FS_Union
    <3>. QED
      BY <2>1, <3>1
  <2>10. \A e \in r.book : \E m \in rows : StillAs(e, m) /\ (m \notin T => e = m)
    BY <1>1, <1>9, <2>1, <2>4
  <2>11. \A a, b \in r.book : a.id = b.id => a = b
    BY <1>7, <2>1, <2>4, <2>6, <2>7
  <2>12. \A m \in rows : \/ HasId(r.book, m.id) \/ Touched(r.fills, m.id)
                         \/ Removing(inc) /\ Among(r.prevented, m.id)
    BY <1>7, <2>1, <2>5, <2>8
  <2>13. \A m \in T : Removing(inc) /\ Among(r.prevented, m.id)
                         => ~HasId(r.book, m.id)
    BY <1>1, <1>6, <1>7, <2>1, <2>8
  <2>. QED
    BY <2>9, <2>10, <2>11, <2>12, <2>13 DEF Standing
<1>. QED
  BY <1>11, <1>12, <1>13

\* All of it, for the whole loop.
LEMMA LoopDoes ==
    ASSUME NEW rows, BookRows(rows), Dated(rows), NEW inc, inc.qty \in Nat, inc.qty > 0,
           NEW side, Queue(CrossingMakers(rows, inc), side),
           NEW S, S = CrossingMakers(rows, inc), NEW end, end = MatchLoop(rows, inc)
    PROVE  /\ Walked(inc, S, end) /\ Prior(inc, S, end) /\ Exact(inc, S, end)
           /\ Standing(inc, rows, S, end)
<1>. DEFINE R(T) == Match!Fold(inc, LoopStart(rows, inc), T)
            does(T) == /\ Walked(inc, T, R(T)) /\ Prior(inc, T, R(T))
                       /\ Exact(inc, T, R(T)) /\ Standing(inc, rows, T, R(T))
            good == {T \in SUBSET S : does(T)}
<1>1. /\ Match!Finite(S) /\ Match!Picks(S) /\ Queue(S, side) /\ S \subseteq rows
      /\ Dated(S)
  BY QueuePicked DEF CrossingMakers, OppositeMakers, Dated
<1>2. {} \in good
  <2>. DEFINE s == LoopStart(rows, inc)
  <2>1. R({}) = s
    BY Match!FoldEmpty
  <2>2. /\ s.rem = inc.qty /\ s.stop = FALSE /\ s.fills = <<>> /\ s.prevented = <<>>
        /\ s.book = rows
    BY DEF LoopStart
  <2>3. Walked(inc, {}, s)
    BY WalkNone
  <2>. HIDE DEF s
  <2>4. Prior(inc, {}, s)
    BY DEF Prior
  <2>5. Exact(inc, {}, s)
    <3>1. Own(inc, {}) = {}
      BY DEF Own
    <3>2. Reach(inc, {}) = {}
      BY DEF Reach
    <3>3. Liquid(inc, {}) = 0
      BY <3>2, SumOfNone DEF Liquid
    <3>. QED
      BY <2>2, <3>1, <3>3 DEF Exact, MinQty
  <2>6. Standing(inc, rows, {}, s)
    <3>1. \A e \in rows : StillAs(e, e) /\ HasId(rows, e.id)
      BY DEF BookRows, StillAs, HasId
    <3>. QED
      BY <2>2, <3>1 DEF Standing, BookRows
  <2>7. does({})
    BY <2>1, <2>3, <2>4, <2>5, <2>6
  <2>. QED
    BY <2>7
<1>3. ASSUME NEW T \in SUBSET S, T # {}, Match!Rest(T) \in good
      PROVE  T \in good
  <2>. DEFINE w == Worst(T)
              U == Match!Rest(T)
  <2>1. Queue(T, side) /\ Dated(T)
    BY <1>1, QueuePart DEF Dated
  <2>2. Match!Finite(T) /\ Match!Picks(T)
    BY <2>1, QueuePicked
  <2>3. R(T) = MatchMaker(inc, R(U), w)
    BY <1>3, <2>2, Match!FoldLast DEF MatchTurn
  <2>4. w \in T /\ U = T \ {w} /\ \A o \in U : Before(o, w)
    BY <1>3, <2>1, WorstIs DEF Match!Rest
  <2>5. does(U)
    BY <1>3
  <2>6. T \in SUBSET rows
    BY <1>1
  <2>. HIDE DEF R, U, w
  <2>7. Turn(inc, T, U, w, R(U), R(T))
    BY <2>1, <2>3, <2>4, <2>5 DEF Turn
  <2>8. Walked(inc, T, R(T))
    BY <2>7, TurnFacts
  <2>9. Prior(inc, T, R(T))
    BY <2>5, <2>7, PriorOn
  <2>10. Exact(inc, T, R(T))
    BY <2>1, <2>5, <2>7, ExactOn
  <2>11. Standing(inc, rows, T, R(T))
    BY <2>5, <2>6, <2>7, StandingOn
  <2>12. does(T)
    BY <2>8, <2>9, <2>10, <2>11
  <2>. QED
    BY <2>12
<1>4. S \in good
  <2>. HIDE DEF good
  <2>. QED
    BY <1>1, <1>2, <1>3, Match!PickInduct
<1>5. does(S)
  BY <1>4
<1>. QED
  BY <1>5, MatchLoopIs

\* The look-ahead of a FOK order finds what the loop would find.
LookTurn(inc, acc, m) == WalkPast(inc, acc, m)
Look == INSTANCE FoldTheorems WITH Step <- LookTurn, Pick <- Worst

LookStart == [qty |-> 0, stop |-> FALSE]

Looked(inc, T, acc) ==
    /\ acc \in [qty : Nat, stop : BOOLEAN]
    /\ \/ acc.qty = Liquid(inc, T)
       \/ acc.qty >= inc.qty /\ Liquid(inc, T) >= inc.qty
    /\ acc.stop => \/ acc.qty >= inc.qty
                   \/ ~(inc.stpMode = "CANCEL_RESTING" \/ Own(inc, T) = {})
    /\ ~(inc.stpMode = "CANCEL_RESTING" \/ Own(inc, T) = {}) => acc.stop

LEMMA LookOn ==
    ASSUME NEW inc, inc.qty \in Nat, NEW T, NEW side, Queue(T, side), Dated(T),
           NEW w \in T, NEW U, U = T \ {w}, \A o \in U : Before(o, w),
           NEW acc, Looked(inc, U, acc), NEW r, r = WalkPast(inc, acc, w)
    PROVE  Looked(inc, T, r)
<1>. DEFINE free == inc.stpMode = "CANCEL_RESTING" \/ Own(inc, U) = {}
            all == inc.stpMode = "CANCEL_RESTING" \/ Own(inc, T) = {}
            l == Liquid(inc, U)
            k == Liquid(inc, T)
            resting == inc.stpMode = "CANCEL_RESTING"
<1>1. /\ l \in Nat /\ k \in Nat
      /\ w.stp # inc.stp /\ free => k = l + w.qty
      /\ ~(w.stp # inc.stp /\ free) => k = l
  <2>1. /\ l \in Nat /\ k \in Nat
        /\ Counted(inc, U, w) => k = l + w.qty
        /\ ~Counted(inc, U, w) => k = l
    BY LiquidMore
  <2>. QED
    BY <2>1 DEF Counted
<1>2. w.qty \in Nat
  BY DEF Queue, MakerRow
<1>3. /\ acc \in [qty : Nat, stop : BOOLEAN]
      /\ \/ acc.qty = l
         \/ acc.qty >= inc.qty /\ l >= inc.qty
      /\ acc.stop => acc.qty >= inc.qty \/ ~free
      /\ ~free => acc.stop
  BY DEF Looked
<1>4. /\ w.stp = inc.stp => (all <=> resting)
      /\ w.stp # inc.stp => (all <=> free)
      /\ resting => free /\ all
      /\ all => free
  BY DEF Own
<1>. HIDE DEF free, all, l, k, resting
<1>5. /\ r \in [qty : Nat, stop : BOOLEAN]
      /\ r.qty = k \/ (r.qty >= inc.qty /\ k >= inc.qty)
      /\ r.stop => r.qty >= inc.qty \/ ~all
      /\ ~all => r.stop
  <2>1. CASE acc.stop
    <3>1. r = acc
      BY <2>1 DEF WalkPast
    <3>2. k = l \/ (acc.qty >= inc.qty /\ l >= inc.qty /\ k >= l)
      BY <1>1, <1>2, <1>3, <2>1
    <3>3. ~all => acc.stop
      BY <2>1
    <3>. QED
      BY <1>1, <1>3, <1>4, <2>1, <3>1, <3>2
  <2>2. CASE ~acc.stop /\ w.stp = inc.stp
    <3>1. r = [acc EXCEPT !.stop = inc.stpMode # "CANCEL_RESTING"]
      BY <2>2 DEF WalkPast
    <3>2. /\ r \in [qty : Nat, stop : BOOLEAN] /\ r.qty = acc.qty
          /\ r.stop <=> ~resting
      BY <1>3, <3>1 DEF resting
    <3>. QED
      BY <1>1, <1>3, <1>4, <2>2, <3>2
  <2>3. CASE ~acc.stop /\ w.stp # inc.stp
    <3>1. r = [qty |-> acc.qty + w.qty, stop |-> acc.qty + w.qty >= inc.qty]
      BY <2>3 DEF WalkPast
    <3>2. /\ r \in [qty : Nat, stop : BOOLEAN] /\ r.qty = acc.qty + w.qty
          /\ r.stop <=> acc.qty + w.qty >= inc.qty
      <4>. DEFINE enough == acc.qty + w.qty >= inc.qty
      <4>1. acc.qty + w.qty \in Nat /\ enough \in BOOLEAN
        BY <1>2, <1>3
      <4>2. r = [qty |-> acc.qty + w.qty, stop |-> enough]
        BY <3>1
      <4>. HIDE DEF enough
      <4>3. r \in [qty : Nat, stop : BOOLEAN] /\ r.qty = acc.qty + w.qty
            /\ r.stop = enough
        BY <4>1, <4>2
      <4>. QED
        BY <4>3 DEF enough
    <3>3. free /\ k = l + w.qty /\ acc.qty \in Nat
      BY <1>1, <1>3, <2>3
    <3>. QED
      BY <1>1, <1>2, <1>3, <1>4, <2>3, <3>2, <3>3
  <2>. QED
    BY <2>1, <2>2, <2>3
<1>. QED
  BY <1>5 DEF Looked, all, k

LEMMA LookAhead ==
    ASSUME NEW rows, NEW inc, inc.qty \in Nat, inc.qty > 0,
           NEW side, Queue(CrossingMakers(rows, inc), side),
           NEW S, S = CrossingMakers(rows, inc), Dated(S)
    PROVE  /\ Liquid(inc, S) \in Nat
           /\ ExecutableQuantity(rows, inc) = MinQty(inc.qty, Liquid(inc, S))
<1>. DEFINE R(T) == Look!Fold(inc, LookStart, T)
            good == {T \in SUBSET S : Looked(inc, T, R(T))}
<1>1. Look!Finite(S) /\ Look!Picks(S)
  <2>1. Look!Finite(S)
    BY FiniteEnds DEF FamilyEnds, Queue, Look!Finite, Look!Smallest
  <2>2. Look!Picks(S)
    BY QueuePart, WorstIs DEF Look!Picks
  <2>. QED
    BY <2>1, <2>2
<1>2. {} \in good
  <2>1. R({}) = LookStart
    BY Look!FoldEmpty
  <2>2. Own(inc, {}) = {} /\ Reach(inc, {}) = {}
    BY DEF Own, Reach
  <2>3. Liquid(inc, {}) = 0
    BY <2>2, SumOfNone DEF Liquid
  <2>4. Looked(inc, {}, LookStart)
    BY <2>2, <2>3 DEF Looked, LookStart
  <2>. QED
    BY <2>1, <2>4
<1>3. ASSUME NEW T \in SUBSET S, T # {}, Look!Rest(T) \in good
      PROVE  T \in good
  <2>. DEFINE w == Worst(T)
              U == Look!Rest(T)
  <2>1. Queue(T, side) /\ Dated(T)
    BY QueuePart DEF Dated
  <2>2. Look!Finite(T) /\ Look!Picks(T)
    <3>1. Look!Finite(T)
      BY <2>1, FiniteEnds DEF FamilyEnds, Queue, Look!Finite, Look!Smallest
    <3>2. Look!Picks(T)
      BY <1>1 DEF Look!Picks
    <3>. QED
      BY <3>1, <3>2
  <2>3. R(T) = WalkPast(inc, R(U), w)
    BY <1>3, <2>2, Look!FoldLast DEF LookTurn
  <2>4. w \in T /\ U = T \ {w} /\ \A o \in U : Before(o, w)
    BY <1>3, <2>1, WorstIs DEF Look!Rest
  <2>5. Looked(inc, U, R(U))
    BY <1>3
  <2>. HIDE DEF R, U, w
  <2>6. Looked(inc, T, R(T))
    BY <2>1, <2>3, <2>4, <2>5, LookOn
  <2>. QED
    BY <2>6
<1>4. S \in good
  <2>. HIDE DEF good
  <2>. QED
    BY <1>1, <1>2, <1>3, Look!PickInduct
<1>5. Looked(inc, S, R(S)) /\ Liquid(inc, S) \in Nat
  BY <1>4, LiquidNat
<1>6. ExecutableQuantity(rows, inc)
        = IF R(S).qty >= inc.qty THEN inc.qty ELSE R(S).qty
  BY DEF ExecutableQuantity, OverMakers, LookStart, Look!Fold, Look!MapThenFoldSet,
         MapThenFoldSet, LookTurn
<1>. HIDE DEF R, good
<1>. QED
  BY <1>5, <1>6 DEF Looked, MinQty

\* The book's invariant: orders of distinct ids, which are their priorities,
\* none beyond the orders submitted.
BookKept(rows, count) ==
    /\ count \in Nat /\ BookRows(rows) /\ Dated(rows)
    /\ \A m \in rows : m.stp = m.owner /\ m.id \in 1 .. count

Asked(inc, count) ==
    /\ ValidIncoming(inc) /\ inc.stp = inc.owner
    /\ inc.id = count + 1 /\ inc.seq = count + 1

LEMMA AskedIs ==
    ASSUME NEW rows, NEW count, BookKept(rows, count), NEW inc, Asked(inc, count),
           NEW S, S = CrossingMakers(rows, inc)
    PROVE  /\ inc.qty \in Nat /\ inc.qty > 0 /\ inc.side \in Sides /\ inc.price \in Int
           /\ inc.id \in Int /\ count \in Nat /\ S \subseteq rows
           /\ Queue(S, Opposite(inc.side)) /\ Dated(S)
<1>1. inc.side \in Sides /\ inc.price \in Prices /\ inc.qty \in 1 .. MaxQuantity
  BY DEF Asked, ValidIncoming
<1>2. inc.qty \in Nat /\ inc.qty > 0 /\ inc.price \in Int
  BY <1>1, PayoutAssumption, MaxQuantityAssumption DEF Prices
<1>3. count \in Nat /\ inc.id \in Int
  BY DEF BookKept, Asked
<1>4. S \subseteq rows /\ \A m \in S : m.side # inc.side
  BY DEF CrossingMakers, OppositeMakers
<1>5. IsFiniteSet(S)
  BY <1>4, FS_Subset DEF BookKept, BookRows
<1>6. \A m \in S : MakerRow(m) /\ m.side = Opposite(inc.side)
  BY <1>1, <1>4 DEF BookKept, BookRows, MakerRow, Sides, Opposite
<1>7. Queue(S, Opposite(inc.side))
  BY <1>4, <1>5, <1>6 DEF Queue, BookKept, BookRows
<1>8. Dated(S)
  BY <1>4 DEF BookKept, Dated
<1>. QED
  BY <1>1, <1>2, <1>3, <1>4, <1>7, <1>8

LEMMA SubmissionIs ==
    ASSUME NEW rows, NEW count, BookKept(rows, count), NEW inc, Asked(inc, count),
           NEW S, S = CrossingMakers(rows, inc),
           NEW res, res = MatchOrder(rows, inc)
    PROVE  \/ /\ PostOnlyWouldTrade(rows, inc) \/ FokNotFillable(rows, inc)
              /\ res.fills = <<>> /\ res.prevented = <<>> /\ res.book = rows
              /\ res.filled = 0
           \/ /\ ~PostOnlyWouldTrade(rows, inc) /\ ~FokNotFillable(rows, inc)
              /\ \E end : /\ Walked(inc, S, end) /\ Prior(inc, S, end)
                          /\ Exact(inc, S, end) /\ Standing(inc, rows, S, end)
                          /\ res = Dispose(end, inc)
<1>1. CASE PostOnlyWouldTrade(rows, inc) \/ FokNotFillable(rows, inc)
  <2>1. \E why : res = Rejected(rows, inc, why)
    BY <1>1 DEF MatchOrder
  <2>. QED
    BY <1>1, <2>1 DEF Rejected
<1>2. CASE ~PostOnlyWouldTrade(rows, inc) /\ ~FokNotFillable(rows, inc)
  <2>. DEFINE end == MatchLoop(rows, inc)
  <2>1. res = Dispose(end, inc)
    BY <1>2 DEF MatchOrder
  <2>2. /\ Walked(inc, S, end) /\ Prior(inc, S, end)
        /\ Exact(inc, S, end) /\ Standing(inc, rows, S, end)
    BY AskedIs, LoopDoes DEF BookKept
  <2>. QED
    BY <1>2, <2>1, <2>2
<1>. QED
  BY <1>1, <1>2

LEMMA SubmissionKeeps ==
    ASSUME NEW rows, NEW count, BookKept(rows, count), NEW inc, Asked(inc, count),
           NEW res, res = MatchOrder(rows, inc)
    PROVE  BookKept(res.book, count + 1)
<1>. DEFINE S == CrossingMakers(rows, inc)
<1>1. /\ count \in Nat /\ BookRows(rows) /\ Dated(rows)
      /\ \A m \in rows : m.stp = m.owner /\ m.id \in 1 .. count
  BY DEF BookKept
<1>2. inc.qty \in Nat /\ inc.side \in Sides /\ inc.price \in Int /\ S \subseteq rows
  BY AskedIs
<1>3. inc.id = count + 1 /\ inc.seq = count + 1 /\ inc.stp = inc.owner
  BY DEF Asked
<1>4. CASE res.book = rows
  <2>1. \A m \in rows : m.id \in 1 .. count + 1
    BY <1>1
  <2>. QED
    BY <1>1, <1>4, <2>1 DEF BookKept
<1>5. ASSUME NEW end, Walked(inc, S, end), Standing(inc, rows, S, end),
             res = Dispose(end, inc)
      PROVE  BookKept(res.book, count + 1)
  <2>. DEFINE new == Resting(inc, end.rem)
  <2>1. end.rem \in Nat
    BY <1>5 DEF Walked
  <2>2. /\ res.book = end.book
        \/ (end.rem # 0 /\ res.book = end.book \union {new})
    <3>1. Disposed(end, inc, res)
      BY <1>5, <2>1, DisposeIs
    <3>. QED
      BY <3>1 DEF Disposed
  <2>3. /\ IsFiniteSet(end.book)
        /\ \A a, b \in end.book : a.id = b.id => a = b
        /\ \A e \in end.book : \E m \in rows : StillAs(e, m)
    BY <1>5 DEF Standing
  <2>4. \A e \in end.book : /\ MakerRow(e) /\ e.seq = e.id /\ e.stp = e.owner
                            /\ e.id \in 1 .. count
    BY <1>1, <2>3 DEF StillAs, Dated
  <2>5. end.rem # 0 => /\ MakerRow(new) /\ new.seq = new.id /\ new.stp = new.owner
                       /\ new.id = count + 1
    BY <1>1, <1>2, <1>3, <2>1 DEF Resting, MakerRow, MakerFields
  <2>6. IsFiniteSet(end.book \union {new})
    BY <2>3, FS_AddElement
  <2>. HIDE DEF new
  <2>7. \A e \in res.book : /\ MakerRow(e) /\ e.seq = e.id /\ e.stp = e.owner
                            /\ e.id \in 1 .. count + 1
    BY <1>1, <2>2, <2>4, <2>5
  <2>8. IsFiniteSet(res.book)
    BY <2>2, <2>3, <2>6
  <2>9. \A a, b \in res.book : a.id = b.id => a = b
    BY <1>1, <2>2, <2>3, <2>4, <2>5
  <2>. QED
    BY <1>1, <2>7, <2>8, <2>9 DEF BookKept, BookRows, Dated
<1>. QED
  BY <1>4, <1>5, SubmissionIs

\* What the three properties of a submission say, of the effects.
LEMMA PriorityKept ==
    ASSUME NEW rows, NEW count, BookKept(rows, count), NEW inc, Asked(inc, count),
           NEW res, res = MatchOrder(rows, inc),
           NEW m \in rows, Touched(res.fills, m.id),
           NEW b \in rows, b.side = m.side, b.stp # inc.stp, HasPriority(b, m)
    PROVE  \E k \in DOMAIN res.fills :
              /\ res.fills[k].maker = b.id /\ res.fills[k].qty = b.qty
              /\ \A l \in DOMAIN res.fills : res.fills[l].maker = b.id => l = k
<1>. DEFINE S == CrossingMakers(rows, inc)
<1>1. ~(res.fills = <<>>)
  BY DEF Touched
<1>2. PICK end : /\ Walked(inc, S, end) /\ Prior(inc, S, end)
                 /\ res = Dispose(end, inc)
  BY <1>1, SubmissionIs
<1>3. res.fills = end.fills
  <2>1. Disposed(end, inc, res)
    BY <1>2, DisposeIs DEF Walked
  <2>. QED
    BY <2>1 DEF Disposed
<1>4. PICK n \in Nat : /\ DOMAIN res.fills = 1 .. n
                       /\ \A k \in 1 .. n : FillOf(inc, S, res.fills[k])
                       /\ \A k, l \in 1 .. n : k # l => res.fills[k].maker # res.fills[l].maker
  BY <1>2, <1>3 DEF Walked, Filling, IsRows
<1>5. S \subseteq rows /\ inc.price \in Int /\ inc.side \in Sides
  BY AskedIs
<1>6. MakerRow(m) /\ MakerRow(b) /\ m.seq = m.id /\ b.seq = b.id
  BY DEF BookKept, BookRows, Dated
<1>7. m \in S
  <2>1. PICK o \in S : o.id = m.id
    BY <1>4 DEF Touched, FillOf
  <2>. QED
    BY <1>5, <2>1 DEF BookKept, BookRows
<1>8. Before(b, m)
  BY <1>6 DEF Before, BetterPrice, HasPriority, MakerRow, Sides
<1>9. b \in S
  <2>1. inc.side # m.side /\ Crosses(inc, m)
    BY <1>7 DEF CrossingMakers, OppositeMakers
  <2>2. Crosses(inc, b)
    BY <1>5, <1>6, <2>1 DEF Crosses, HasPriority, MakerRow, Sides
  <2>. QED
    BY <2>1, <2>2 DEF CrossingMakers, OppositeMakers
<1>. HIDE DEF S
<1>10. Finished(res.fills, b)
  BY <1>2, <1>3, <1>7, <1>8, <1>9 DEF Prior
<1>. QED
  BY <1>4, <1>10 DEF Finished

LEMMA FilledIs ==
    ASSUME NEW rows, NEW count, BookKept(rows, count), NEW inc, Asked(inc, count),
           NEW res, res = MatchOrder(rows, inc)
    PROVE  res.filled = ShouldFill(rows, inc)
<1>. DEFINE S == CrossingMakers(rows, inc)
            l == Liquid(inc, S)
            taken == MinQty(inc.qty, l)
<1>1. /\ inc.qty \in Nat /\ inc.qty > 0 /\ Queue(S, Opposite(inc.side)) /\ Dated(S)
  BY AskedIs
<1>2. l \in Nat /\ ExecutableQuantity(rows, inc) = taken
  BY <1>1, LookAhead
<1>3. Reachable(rows, inc) = Reach(inc, S)
  <2>1. {m \in rows : Crosses(inc, m)} = S
    BY DEF CrossingMakers, OppositeMakers, Crosses
  <2>. QED
    BY <2>1 DEF Reachable, Reach, Own
<1>4. ShouldFill(rows, inc)
        = IF inc.postOnly \/ (inc.tif = "FOK" /\ l < inc.qty) THEN 0 ELSE taken
  BY <1>3 DEF ShouldFill, Liquid
<1>5. S = {} => l = 0
  <2>1. S = {} => Reach(inc, S) = {}
    BY DEF Reach, Own
  <2>. QED
    BY <2>1, SumOfNone DEF Liquid
<1>6. taken \in Nat /\ (taken < inc.qty <=> l < inc.qty) /\ (l = 0 => taken = 0)
  BY <1>1, <1>2 DEF MinQty
<1>7. FokNotFillable(rows, inc) <=> inc.tif = "FOK" /\ l < inc.qty
  BY <1>2, <1>6 DEF FokNotFillable
<1>8. PostOnlyWouldTrade(rows, inc) <=> inc.postOnly /\ S # {}
  BY DEF PostOnlyWouldTrade
<1>9. CASE PostOnlyWouldTrade(rows, inc) \/ FokNotFillable(rows, inc)
  <2>1. res.filled = 0
    BY <1>9, SubmissionIs
  <2>. QED
    BY <1>4, <1>7, <1>8, <1>9, <2>1
<1>10. CASE ~PostOnlyWouldTrade(rows, inc) /\ ~FokNotFillable(rows, inc)
  <2>1. PICK end : /\ Walked(inc, S, end) /\ Exact(inc, S, end)
                   /\ res = Dispose(end, inc)
    BY <1>10, SubmissionIs
  <2>2. res.filled = inc.qty - end.rem /\ end.rem = inc.qty - taken
    BY <2>1, DisposeIs DEF Disposed, Walked, Exact
  <2>. HIDE DEF taken, l, S
  <2>3. res.filled = taken
    BY <1>1, <1>6, <2>2
  <2>. QED
    BY <1>4, <1>5, <1>6, <1>7, <1>8, <1>10, <2>3
<1>. QED
  BY <1>9, <1>10

LEMMA OwnOrdersOnly ==
    ASSUME NEW rows, NEW count, BookKept(rows, count), NEW inc, Asked(inc, count),
           NEW res, res = MatchOrder(rows, inc)
    PROVE  /\ \A i \in DOMAIN res.fills :
                 res.fills[i].makerOwner # res.fills[i].takerOwner
           /\ \A m \in rows : (~HasId(res.book, m.id) /\ ~Touched(res.fills, m.id))
                                <=> Among(res.prevented, m.id) /\ Removing(inc)
           /\ \A m \in rows : Among(res.prevented, m.id)
                                => m.stp = inc.stp /\ Crosses(inc, m)
<1>. DEFINE S == CrossingMakers(rows, inc)
<1>1. /\ \A m \in rows : m.stp = m.owner /\ m.id \in 1 .. count
      /\ \A a, b \in rows : a.id = b.id => a = b
      /\ S \subseteq rows /\ count \in Nat
  BY AskedIs DEF BookKept, BookRows
<1>2. inc.id = count + 1 /\ inc.stp = inc.owner
  BY DEF Asked
<1>3. \A m \in S : Crosses(inc, m)
  BY DEF CrossingMakers
<1>4. CASE res.fills = <<>> /\ res.prevented = <<>> /\ res.book = rows
  BY <1>4 DEF HasId, Touched, Among
<1>5. ASSUME NEW end, Walked(inc, S, end), Standing(inc, rows, S, end),
             res = Dispose(end, inc)
      PROVE  /\ \A i \in DOMAIN res.fills :
                   res.fills[i].makerOwner # res.fills[i].takerOwner
             /\ \A m \in rows : (~HasId(res.book, m.id) /\ ~Touched(res.fills, m.id))
                                  <=> Among(res.prevented, m.id) /\ Removing(inc)
             /\ \A m \in rows : Among(res.prevented, m.id)
                                  => m.stp = inc.stp /\ Crosses(inc, m)
  <2>1. /\ end.rem \in Nat
        /\ \E n : /\ DOMAIN end.fills = 1 .. n
                  /\ \A k \in 1 .. n : FillOf(inc, S, end.fills[k])
        /\ \E p : /\ DOMAIN end.prevented = 1 .. p
                  /\ \A k \in 1 .. p : \E m \in S : /\ m.stp = inc.stp
                                                    /\ end.prevented[k] = m.id
    BY <1>5 DEF Walked, Filling, Preventing, IsRows
  <2>2. /\ res.fills = end.fills /\ res.prevented = end.prevented
        /\ res.book = end.book \/ res.book = end.book \union {Resting(inc, end.rem)}
    <3>1. Disposed(end, inc, res)
      BY <1>5, <2>1, DisposeIs
    <3>. QED
      BY <3>1 DEF Disposed
  <2>3. /\ \A m \in rows : \/ HasId(end.book, m.id) \/ Touched(end.fills, m.id)
                           \/ Removing(inc) /\ Among(end.prevented, m.id)
        /\ \A m \in S : Removing(inc) /\ Among(end.prevented, m.id)
                           => ~HasId(end.book, m.id)
    BY <1>5 DEF Standing
  <2>4. Resting(inc, end.rem).id = inc.id
    BY DEF Resting
  <2>5. \A m \in rows : HasId(res.book, m.id) <=> HasId(end.book, m.id)
    <3>1. \A m \in rows : m.id # inc.id
      BY <1>1, <1>2
    <3>. QED
      BY <2>2, <2>4, <3>1 DEF HasId
  <2>6. \A i \in DOMAIN res.fills :
           res.fills[i].makerOwner # res.fills[i].takerOwner
    <3>1. ASSUME NEW i \in DOMAIN end.fills
          PROVE  end.fills[i].makerOwner # end.fills[i].takerOwner
      <4>1. FillOf(inc, S, end.fills[i])
        BY <2>1
      <4>2. PICK m \in S : m.stp # inc.stp /\ end.fills[i].makerOwner = m.owner
        BY <4>1 DEF FillOf
      <4>3. end.fills[i].takerOwner = inc.owner
        BY <4>1 DEF FillOf
      <4>. QED
        BY <1>1, <1>2, <4>2, <4>3
    <3>. QED
      BY <2>2, <3>1
  <2>. HIDE DEF S
  <2>7. ASSUME NEW m \in rows, Among(end.prevented, m.id)
        PROVE  m \in S /\ m.stp = inc.stp /\ ~Touched(end.fills, m.id)
    <3>1. PICK o \in S : o.stp = inc.stp /\ o.id = m.id
      BY <2>1, <2>7 DEF Among
    <3>2. o = m
      BY <1>1, <3>1
    <3>3. ~Touched(end.fills, m.id)
      <4>1. ASSUME NEW k \in DOMAIN end.fills, end.fills[k].maker = m.id
            PROVE  FALSE
        <5>1. PICK v \in S : v.stp # inc.stp /\ v.id = m.id
          BY <2>1, <4>1 DEF FillOf
        <5>. QED
          BY <1>1, <3>1, <3>2, <5>1
      <4>. QED
        BY <4>1 DEF Touched
    <3>. QED
      BY <3>1, <3>2, <3>3
  <2>8. \A m \in rows : (~HasId(res.book, m.id) /\ ~Touched(res.fills, m.id))
                          <=> Among(res.prevented, m.id) /\ Removing(inc)
    BY <2>2, <2>3, <2>5, <2>7
  <2>9. \A m \in rows : Among(res.prevented, m.id)
                          => m.stp = inc.stp /\ Crosses(inc, m)
    BY <1>3, <2>2, <2>7
  <2>. QED
    BY <2>6, <2>8, <2>9
<1>. QED
  BY <1>4, <1>5, SubmissionIs

\* Every state of the book, and of what is remembered of the last submission.
BookInv ==
    /\ BookKept(book, submitted)
    /\ SelfTradePrevented /\ PriceTimePriority /\ FilledAsDefined

LEMMA BookInitSound ==
    ASSUME BookInit
    PROVE  BookInv
<1>1. BookKept({}, 0)
  BY FS_EmptySet DEF BookKept, BookRows, Dated
<1>2. ~Submission
  BY DEF BookInit, Submission
<1>. QED
  BY <1>1, <1>2 DEF BookInit, BookInv, SelfTradePrevented, PriceTimePriority,
                    FilledAsDefined

LEMMA SumOfOne ==
    ASSUME NEW x, NEW f \in [{x} -> Int]
    PROVE  SumFunction(f) = f[x]
<1>. DEFINE none == [y \in {} |-> 0]
<1>1. IsFiniteSet({})
  BY FS_EmptySet
<1>4. /\ none \in [{} -> Int] /\ x \notin {} /\ \A y \in {} : f[y] = none[y]
      /\ f \in [{} \union {x} -> Int]
  <2>1. {x} = {} \union {x}
    OBVIOUS
  <2>. QED
    BY <2>1
<1>. HIDE DEF none
<1>2. SumFunction(f) = SumFunction(none) + f[x]
  <2>1. Extends({}, none, x, f)
    BY <1>1, <1>4 DEF Extends
  <2>. QED
    BY <2>1, SumOneMore
<1>3. SumFunction(none) = 0
  BY <1>4, SumOfNone
<1>. QED
  BY <1>2, <1>3

LEMMA SubmitKeeps ==
    ASSUME BookInv, NEW user, NEW req, SubmitOrder(user, req)
    PROVE  BookInv'
<1>. DEFINE inc == Incoming(user, req)
            res == MatchOrder(book, inc)
<1>1. /\ ValidIncoming(inc) /\ book' = res.book /\ submitted' = submitted + 1
      /\ last' = [before |-> book, inc |-> inc, res |-> res, fills |-> res.fills]
  BY DEF SubmitOrder
<1>2. inc.id = submitted + 1 /\ inc.seq = submitted + 1 /\ inc.stp = inc.owner
  BY DEF Incoming
<1>. HIDE DEF inc
<1>3. BookKept(book, submitted) /\ Asked(inc, submitted)
  BY <1>1, <1>2 DEF BookInv, Asked
<1>4. /\ last'.before = book /\ last'.inc = inc /\ last'.res = res
      /\ last'.fills = res.fills
  BY <1>1
<1>5. \A m \in book : m.qty \in Int
  BY <1>3 DEF BookKept, BookRows, MakerRow
<1>. HIDE DEF res
<1>6. BookKept(book, submitted)'
  BY <1>1, <1>3, SubmissionKeeps DEF res
<1>7. FilledAsDefined'
  <2>1. res.filled = ShouldFill(book, inc)
    BY <1>3, FilledIs DEF res
  <2>. QED
    BY <1>4, <2>1 DEF FilledAsDefined
<1>8. \A id : (Filled(id) # {})' <=> Touched(res.fills, id)
  BY <1>4 DEF Filled, Touched
<1>9. PriceTimePriority'
  <2>1. ASSUME NEW m \in book, NEW b \in book, Touched(res.fills, m.id),
               b.side = m.side, b.stp # inc.stp, HasPriority(b, m)
        PROVE  FilledOf(b.id)' = b.qty
    <3>1. PICK k \in DOMAIN res.fills :
              /\ res.fills[k].maker = b.id /\ res.fills[k].qty = b.qty
              /\ \A l \in DOMAIN res.fills : res.fills[l].maker = b.id => l = k
      BY <1>3, <2>1, PriorityKept DEF res
    <3>2. Filled(b.id)' = {k}
      BY <1>4, <3>1 DEF Filled
    <3>. DEFINE f == [i \in {k} |-> res.fills[i].qty]
    <3>3. f \in [{k} -> Int] /\ f[k] = b.qty
      BY <1>5, <3>1
    <3>4. FilledOf(b.id)' = SumFunction(f)
      BY <1>4, <3>2 DEF FilledOf
    <3>. HIDE DEF f
    <3>. QED
      BY <1>5, <3>3, <3>4, SumOfOne
  <2>2. \A m, b \in book :
           (/\ (Filled(m.id) # {})' /\ b.side = m.side /\ b.stp # inc.stp
            /\ HasPriority(b, m)) => FilledOf(b.id)' = b.qty
    BY <1>8, <2>1
  <2>. QED
    BY <1>4, <2>2 DEF PriceTimePriority
<1>10. SelfTradePrevented'
  <2>1. \A id : (id \in PreventedIds)' <=> Among(res.prevented, id)
    BY <1>4 DEF PreventedIds, ToSet, Among
  <2>2. \A id : id \notin {o.id : o \in res.book} <=> ~HasId(res.book, id)
    BY DEF HasId
  <2>3. /\ \A i \in DOMAIN res.fills :
                 res.fills[i].makerOwner # res.fills[i].takerOwner
        /\ \A m \in book : (~HasId(res.book, m.id) /\ ~Touched(res.fills, m.id))
                                <=> Among(res.prevented, m.id) /\ Removing(inc)
        /\ \A m \in book : Among(res.prevented, m.id)
                                => m.stp = inc.stp /\ Crosses(inc, m)
    BY <1>3, OwnOrdersOnly DEF res
  <2>4. \A m \in book :
           (m.id \notin {o.id : o \in res.book} /\ (Filled(m.id) = {})')
              <=> (m.id \in PreventedIds)' /\ inc.stpMode # "CANCEL_AGGRESSOR"
    BY <1>8, <2>1, <2>2, <2>3 DEF Removing
  <2>. QED
    BY <1>4, <2>1, <2>3, <2>4 DEF SelfTradePrevented
<1>. QED
  BY <1>6, <1>7, <1>9, <1>10 DEF BookInv

LEMMA BookStep ==
    ASSUME BookInv, [BookNext]_bookVars
    PROVE  BookInv'
<1>1. CASE \E user \in Traders, req \in Asks : SubmitOrder(user, req)
  BY <1>1, SubmitKeeps
<1>2. ASSUME NEW order \in book, CancelOrder(order)
      PROVE  BookInv'
  <2>1. last' = Nothing /\ book' = book \ {order} /\ submitted' = submitted
    BY <1>2 DEF CancelOrder
  <2>2. BookKept(book', submitted')
    BY <2>1, FS_RemoveElement DEF BookInv, BookKept, BookRows, Dated
  <2>3. ~Submission'
    BY <2>1 DEF Submission
  <2>. QED
    BY <2>2, <2>3 DEF BookInv, SelfTradePrevented, PriceTimePriority, FilledAsDefined
<1>3. CASE Forget
  <2>1. last' = Nothing /\ book' = book /\ submitted' = submitted
    BY <1>3 DEF Forget
  <2>2. BookKept(book', submitted')
    BY <2>1 DEF BookInv
  <2>3. ~Submission'
    BY <2>1 DEF Submission
  <2>. QED
    BY <2>2, <2>3 DEF BookInv, SelfTradePrevented, PriceTimePriority, FilledAsDefined
<1>4. CASE UNCHANGED bookVars
  <2>1. last' = last /\ book' = book /\ submitted' = submitted
    BY <1>4 DEF bookVars
  <2>. QED
    BY <2>1 DEF BookInv, SelfTradePrevented, PriceTimePriority, FilledAsDefined,
                Submission, Filled, FilledOf, PreventedIds
<1>. QED
  BY <1>1, <1>2, <1>3, <1>4 DEF BookNext

\* The book's orders keep distinct ids, and every submission did what the
\* three properties below say of it.
THEOREM BookSound == BookSpec => []BookInv
<1>1. BookInit => BookInv
  BY BookInitSound
<1>2. BookInv /\ [BookNext]_bookVars => BookInv'
  BY BookStep
<1>. QED
  BY <1>1, <1>2, PTL DEF BookSpec

\* Self-trade prevention: nobody trades with himself, and only the crossing
\* orders of the aggressor are cancelled, in the modes that cancel them.
THEOREM NoSelfTrade == BookSpec => []SelfTradePrevented
<1>1. BookInv => SelfTradePrevented
  BY DEF BookInv
<1>. QED
  BY <1>1, BookSound, PTL

\* Price-time priority: a maker trades only when every maker of somebody else
\* with better priority was filled completely.
THEOREM PriorityRespected == BookSpec => []PriceTimePriority
<1>1. BookInv => PriceTimePriority
  BY DEF BookInv
<1>. QED
  BY <1>1, BookSound, PTL

\* An order fills exactly what it can reach, all of it or nothing for FOK,
\* nothing for post-only: the look-ahead and the loop never disagree.
THEOREM FillsAsDefined == BookSpec => []FilledAsDefined
<1>1. BookInv => FilledAsDefined
  BY DEF BookInv
<1>. QED
  BY <1>1, BookSound, PTL

----------------------------------------------------------------------------
\* Fees, and what a chain of orders must hold back for them (the same facts
\* as of OrderReserve, for the fee rate of the market).

\* Ceiling division returns the least natural whose multiple covers n.
LEMMA CeilDivBounds ==
    ASSUME NEW n \in Nat
    PROVE  /\ CeilDiv(n, 10000) \in Nat
           /\ 10000 * CeilDiv(n, 10000) >= n
           /\ 10000 * CeilDiv(n, 10000) < n + 10000
<1>1. CASE n = 0
  BY <1>1 DEF CeilDiv
<1>2. CASE n # 0
  <2>1. CeilDiv(n, 10000) = (n + 9999) \div 10000
    BY <1>2 DEF CeilDiv
  <2>. QED
    BY <2>1, <1>2
<1>. QED
  BY <1>1, <1>2

\* A product of naturals is a natural, and grows with its left factor.
LEMMA ProductMonotone ==
    ASSUME NEW a \in Nat, NEW b \in Nat, NEW k \in Nat, a <= b
    PROVE  /\ a * k \in Nat
           /\ b * k \in Nat
           /\ a * k <= b * k
  OBVIOUS

LEMMA CumulativeFeeNat ==
    ASSUME NEW n \in Nat
    PROVE  CumulativeFee(n, FeeBps) \in Nat
<1>1. n * FeeBps \in Nat
  BY ExchangeAssumption DEF FeeBasisPoints
<1>. QED
  BY <1>1, CeilDivBounds DEF CumulativeFee, FeeBasisPoints

\* The fee on more is not less.
LEMMA CumulativeFeeMonotone ==
    ASSUME NEW m \in Nat, NEW n \in Nat, m <= n
    PROVE  CumulativeFee(m, FeeBps) <= CumulativeFee(n, FeeBps)
<1>. DEFINE x == m * FeeBps
            y == n * FeeBps
<1>1. x \in Nat /\ y \in Nat /\ x <= y
  BY ProductMonotone, ExchangeAssumption DEF FeeBasisPoints
<1>. HIDE DEF x, y
<1>2. CeilDiv(x, 10000) <= CeilDiv(y, 10000)
  BY <1>1, CeilDivBounds
<1>. QED
  BY <1>2 DEF CumulativeFee, FeeBasisPoints, x, y

\* Fees are naturals, and nothing is charged on nothing.
LEMMA FeeDeltaNat ==
    ASSUME NEW e \in Nat, NEW a \in Nat
    PROVE  /\ FeeDelta(e, a, FeeBps) \in Nat
           /\ FeeDelta(e, 0, FeeBps) = 0
           /\ CumulativeFee(e, FeeBps) + FeeDelta(e, a, FeeBps)
                = CumulativeFee(e + a, FeeBps)
<1>1. e + a \in Nat /\ e <= e + a /\ e + 0 = e
  OBVIOUS
<1>2. /\ CumulativeFee(e, FeeBps) \in Nat
      /\ CumulativeFee(e + a, FeeBps) \in Nat
  BY <1>1, CumulativeFeeNat
<1>3. CumulativeFee(e, FeeBps) <= CumulativeFee(e + a, FeeBps)
  BY <1>1, CumulativeFeeMonotone
<1>. QED
  BY <1>1, <1>2, <1>3 DEF FeeDelta

\* Charging a and then b is charging their sum.
LEMMA FeeDeltaAdds ==
    ASSUME NEW e \in Nat, NEW a \in Nat, NEW b \in Nat
    PROVE  FeeDelta(e, a, FeeBps) + FeeDelta(e + a, b, FeeBps)
                = FeeDelta(e, a + b, FeeBps)
<1>1. e + a \in Nat /\ e + a + b \in Nat /\ e + (a + b) = e + a + b
  OBVIOUS
<1>2. /\ CumulativeFee(e, FeeBps) \in Nat
      /\ CumulativeFee(e + a, FeeBps) \in Nat
      /\ CumulativeFee(e + a + b, FeeBps) \in Nat
  BY <1>1, CumulativeFeeNat
<1>. QED
  BY <1>1, <1>2 DEF FeeDelta

\* Reserving more costs no less in fees.
LEMMA FeeDeltaMonotone ==
    ASSUME NEW e \in Nat, NEW a \in Nat, NEW b \in Nat, a <= b
    PROVE  FeeDelta(e, a, FeeBps) <= FeeDelta(e, b, FeeBps)
<1>1. e + a \in Nat /\ e + b \in Nat /\ e + a <= e + b
  OBVIOUS
<1>2. CumulativeFee(e + a, FeeBps) <= CumulativeFee(e + b, FeeBps)
  BY <1>1, CumulativeFeeMonotone
<1>. QED
  BY <1>1, <1>2, CumulativeFeeNat DEF FeeDelta

\* No fee exceeds what it is charged on.
LEMMA FeeAtMostNotional ==
    ASSUME NEW e \in Nat, NEW n \in Nat
    PROVE  FeeDelta(e, n, FeeBps) <= n
<1>. DEFINE x == e * FeeBps
            y == n * FeeBps
<1>1. x \in Nat /\ y \in Nat /\ y <= n * 10000
  BY ExchangeAssumption DEF FeeBasisPoints
<1>2. (e + n) * FeeBps = x + y
  BY ExchangeAssumption DEF FeeBasisPoints
<1>. HIDE DEF x, y
<1>3. CeilDiv(x + y, 10000) - CeilDiv(x, 10000) <= n
  BY <1>1, CeilDivBounds
<1>. QED
  BY <1>2, <1>3 DEF FeeDelta, CumulativeFee, FeeBasisPoints, x

\* What an order holds back pays for a fill at its limit or better, and for
\* what its rest must hold back.
LEMMA HeldCovers ==
    ASSUME NEW e \in Nat, NEW l \in Nat, NEW r \in Nat, NEW q \in 1 .. r,
           NEW n \in Nat, n <= l * q
    PROVE  /\ l * r \in Nat /\ l * (r - q) \in Nat
           /\ n + FeeDelta(e, n, FeeBps) + l * (r - q)
                + FeeDelta(e + n, l * (r - q), FeeBps)
                <= l * r + FeeDelta(e, l * r, FeeBps)
<1>. DEFINE rest == l * (r - q)
<1>1. /\ rest \in Nat /\ l * q \in Nat /\ l * r \in Nat
      /\ l * r = l * q + rest
  OBVIOUS
<1>. HIDE DEF rest
<1>2. n + rest <= l * r /\ n + rest \in Nat /\ e + n \in Nat
  BY <1>1
<1>3. FeeDelta(e, n, FeeBps) + FeeDelta(e + n, rest, FeeBps)
        = FeeDelta(e, n + rest, FeeBps)
  BY <1>1, FeeDeltaAdds
<1>4. FeeDelta(e, n + rest, FeeBps) <= FeeDelta(e, l * r, FeeBps)
  BY <1>1, <1>2, FeeDeltaMonotone
<1>5. /\ FeeDelta(e, n, FeeBps) \in Nat
      /\ FeeDelta(e + n, rest, FeeBps) \in Nat
      /\ FeeDelta(e, l * r, FeeBps) \in Nat
  BY <1>1, <1>2, FeeDeltaNat
<1>. QED
  BY <1>1, <1>2, <1>3, <1>4, <1>5 DEF rest
----------------------------------------------------------------------------
\* The rows of a transaction.  Accounts are distinct.
LEMMA AccountNames ==
    /\ \A u \in Users : Wallet(u) \in Accounts
    /\ \A i \in 1 .. MaxOrders : Escrow(i) \in Accounts
    /\ Collateral \in Accounts /\ Revenue \in Accounts
    /\ \A u, v : Wallet(u) = Wallet(v) <=> u = v
    /\ \A i, j : Escrow(i) = Escrow(j) <=> i = j
    /\ \A u, i : Wallet(u) # Escrow(i)
    /\ \A u : Wallet(u) # Collateral /\ Wallet(u) # Revenue
    /\ \A i : Escrow(i) # Collateral /\ Escrow(i) # Revenue
    /\ Collateral # Revenue
BY DEF Accounts, Wallet, Escrow, Collateral, Revenue

Fields == {"balance", "acct", "orders", "resv", "pos", "supply", "fault",
           "offsets", "eventIndex"}
Reservation == [{"principal", "fee", "yes", "no"} -> Nat]
Position == [{"yes", "no", "rYes", "rNo"} -> Nat]

LEMMA NoReservationIs ==
    /\ NoReservation = [k \in {"principal", "fee", "yes", "no"} |-> 0]
    /\ NoReservation \in Reservation
<1>1. NoReservation = [k \in {"principal", "fee", "yes", "no"} |-> 0]
  BY DEF NoReservation
<1>. QED
  BY <1>1 DEF Reservation

OrderFields == {"owner", "outcome", "action", "side", "price", "original",
                "rem", "filled", "canceled", "status", "tif", "chain", "exp",
                "notional", "fee"}

\* An order is as it was placed, and counts what happened to it.  It is live
\* exactly as long as something remains.
OrderRow(o) ==
    /\ DOMAIN o = OrderFields
    /\ o.owner \in Users /\ o.outcome \in Outcomes /\ o.action \in Sides
    /\ o.side = (IF o.outcome = "YES" THEN o.action ELSE Opposite(o.action))
    /\ o.price \in Prices
    /\ o.rem \in Nat /\ o.filled \in Nat /\ o.canceled \in Nat
    /\ o.notional \in Nat /\ o.fee \in Nat
    /\ o.rem > 0 => o.status \in ActiveStatus

\* What is true of the rows at any point of a transaction.
Typed(st) ==
    /\ DOMAIN st = Fields
    /\ st.balance \in [Users -> Nat]
    /\ st.acct \in [Accounts -> Nat]
    /\ IsRows(st.orders, Len(st.orders)) /\ Len(st.orders) <= MaxOrders
    /\ \A i \in DOMAIN st.orders : OrderRow(st.orders[i])
    /\ IsRows(st.resv, Len(st.orders))
    /\ \A i \in DOMAIN st.orders : st.resv[i] \in Reservation
    /\ st.pos \in [Users -> Position]
    /\ st.supply.yes \in Nat /\ st.supply.no \in Nat

\* A step changes some fields and keeps the others.
Keeps(st, r, changed) ==
    DOMAIN r = Fields /\ \A f \in Fields \ changed : r[f] = st[f]

LEMMA RowsDomain ==
    ASSUME NEW st, Typed(st)
    PROVE  /\ Len(st.orders) \in Nat
           /\ DOMAIN st.orders = 1 .. Len(st.orders)
           /\ DOMAIN st.resv = 1 .. Len(st.orders)
           /\ \A i \in DOMAIN st.orders : i \in 1 .. MaxOrders
BY ExchangeAssumption DEF Typed, IsRows

LEMMA UserLimitNat ==
    ASSUME NEW o, OrderRow(o)
    PROVE  UserLimit(o) \in Nat /\ UserLimit(o) > 0
BY PayoutAssumption DEF OrderRow, UserLimit, UserPrice, Prices, Outcomes

\* What a chain executed adds up.
LEMMA ChainExecutedNat ==
    ASSUME NEW st, Typed(st), NEW i
    PROVE  ChainExecuted(st, i) \in Nat
<1>1. IsFiniteSet(Chain(st, i))
  <2>1. IsFiniteSet(1 .. Len(st.orders))
    BY RowsDomain, FS_Interval
  <2>. QED
    BY <2>1, RowsDomain, FS_Subset DEF Chain
<1>2. [j \in Chain(st, i) |-> st.orders[j].notional] \in [Chain(st, i) -> Nat]
  BY DEF Chain, Typed, OrderRow
<1>. QED
  BY <1>1, <1>2, SumIsNat DEF ChainExecuted
----------------------------------------------------------------------------
\* The loops of the exchange go over numbers, the greatest last.
Greatest(S) == Max(S)

LEMMA FiniteHasGreatest ==
    ASSUME NEW S, IsFiniteSet(S), S \subseteq Int, S # {}
    PROVE  Max(S) \in S /\ \A i \in S : i <= Max(S)
<1>. DEFINE has(T) == \E m \in T : \A i \in T : m >= i
            good == {T \in SUBSET S : T = {} \/ has(T)}
<1>1. {} \in good
  OBVIOUS
<1>2. ASSUME NEW T \in SUBSET S, NEW x \in S \ T, T \in good
      PROVE  T \union {x} \in good
  <2>1. x \in Int /\ T \subseteq Int
    OBVIOUS
  <2>2. CASE T = {}
    <3>1. has(T \union {x})
      BY <2>1, <2>2
    <3>. QED
      BY <3>1
  <2>3. CASE has(T)
    <3>1. PICK m \in T : \A i \in T : m >= i
      BY <2>3
    <3>2. CASE m >= x
      <4>1. has(T \union {x})
        BY <3>1, <3>2
      <4>. QED
        BY <4>1
    <3>3. CASE x > m
      <4>1. \A i \in T \union {x} : x >= i
        BY <2>1, <3>1, <3>3
      <4>2. has(T \union {x})
        BY <4>1
      <4>. QED
        BY <4>2
    <3>. QED
      BY <2>1, <3>1, <3>2, <3>3
  <2>. QED
    BY <2>2, <2>3, <1>2
<1>. HIDE DEF good
<1>3. S \in good
  BY <1>1, <1>2, SumLaws, Sums!SetInduct
<1>4. has(S)
  BY <1>3 DEF good
<1>5. PICK m \in S : \A i \in S : m >= i
  BY <1>4
<1>6. Max(S) \in S /\ \A i \in S : Max(S) >= i
  BY <1>5 DEF Max
<1>. QED
  BY <1>6

\* createJournal posts one account after the other.
PostOne(postings, acc, k) == MutateAccount(acc, postings[k])
Journal == INSTANCE FoldTheorems WITH Step <- PostOne, Pick <- Greatest

RealPostings(postings) == {k \in DOMAIN postings : postings[k].amt # 0}

LEMMA JournalLoop ==
    ASSUME NEW st, NEW postings,
           ~(Cardinality(RealPostings(postings)) < 2),
           SumFunction([k \in DOMAIN postings |-> postings[k].amt]) = 0
    PROVE  CreateJournal(st, postings)
             = Journal!Fold(postings, st, RealPostings(postings))
BY DEF CreateJournal, RealPostings, Journal!Fold, Journal!MapThenFoldSet,
       MapThenFoldSet, PostOne, Greatest

\* Postings to distinct accounts that can take them.
Possible(st, postings, n) ==
    /\ DOMAIN postings = 1 .. n
    /\ \A k \in 1 .. n : /\ postings[k].acct \in Accounts
                         /\ postings[k].amt \in Int
                         /\ st.acct[postings[k].acct] + postings[k].amt >= 0
    /\ \A k, l \in 1 .. n : k # l => postings[k].acct # postings[l].acct

Posted(st, r, postings, S) ==
    /\ Keeps(st, r, {"acct"})
    /\ r.acct \in [Accounts -> Nat]
    /\ \A k \in S : r.acct[postings[k].acct]
                        = st.acct[postings[k].acct] + postings[k].amt
    /\ \A a \in Accounts : (\A k \in S : postings[k].acct # a)
                               => r.acct[a] = st.acct[a]

LEMMA JournalPosts ==
    ASSUME NEW st, DOMAIN st = Fields, st.acct \in [Accounts -> Nat],
           NEW n \in Nat, NEW postings, Possible(st, postings, n),
           SumFunction([k \in DOMAIN postings |-> postings[k].amt]) = 0,
           NEW first \in 1 .. n, postings[first].amt # 0
    PROVE  Posted(st, CreateJournal(st, postings), postings, 1 .. n)
<1>. DEFINE real == RealPostings(postings)
            amts == [k \in DOMAIN postings |-> postings[k].amt]
            R(T) == Journal!Fold(postings, st, T)
<1>1. /\ IsFiniteSet(real) /\ IsFiniteSet(1 .. n) /\ real \subseteq 1 .. n
      /\ first \in real /\ \A k \in (1 .. n) \ real : postings[k].amt = 0
  <2>1. IsFiniteSet(1 .. n)
    BY FS_Interval
  <2>. QED
    BY <2>1, FS_Subset DEF Possible, RealPostings
<1>2. amts \in [1 .. n -> Int]
  BY DEF Possible
\* One posting cannot sum to zero alone.
<1>3. Cardinality(real) >= 2
  <2>1. Cardinality(real) \in Nat
    BY <1>1, FS_CardinalityType
  <2>2. Cardinality(real) # 0
    BY <1>1, FS_EmptySet
  <2>3. ASSUME Cardinality(real) = 1
        PROVE  FALSE
    <3>1. real = {first}
      BY <1>1, <2>3, FS_Singleton
    <3>2. \A k \in (1 .. n) \ {first} : amts[k] = 0
      BY <1>1, <3>1 DEF Possible
    <3>. DEFINE zeros == [k \in 1 .. n |-> 0]
    <3>3. zeros \in [1 .. n -> {0}] /\ zeros \in [1 .. n -> Int]
      OBVIOUS
    <3>4. SumFunction(zeros) = 0
      BY <1>1, <3>3, SumOfZeros
    <3>5. SumFunction(amts) = SumFunction(zeros) + (amts[first] - zeros[first])
      <4>. HIDE DEF amts
      <4>1. \A k \in (1 .. n) \ {first} : amts[k] = zeros[k]
        BY <3>2
      <4>. HIDE DEF zeros
      <4>. QED
        BY <1>1, <1>2, <3>3, <4>1, SumOneChanges
    <3>6. amts[first] # 0 /\ amts[first] \in Int /\ zeros[first] = 0
      BY <1>2 DEF Possible
    <3>. QED
      BY <3>4, <3>5, <3>6
  <2>. QED
    BY <2>1, <2>2, <2>3
<1>4. CreateJournal(st, postings) = R(real)
  <2>1. ~(Cardinality(real) < 2)
    BY <1>1, <1>3, FS_CardinalityType
  <2>. QED
    BY <2>1, JournalLoop
<1>. HIDE DEF real
<1>5. Journal!Finite(real) /\ Journal!Picks(real)
  <2>1. Journal!Finite(real)
    <3>1. FamilyEnds(real)
      BY <1>1, FiniteEnds
    <3>. QED
      BY <3>1, Zenon DEF FamilyEnds, Journal!Finite, Journal!Smallest
  <2>2. ASSUME NEW T \in SUBSET real, T # {}
        PROVE  Greatest(T) \in T
    <3>1. IsFiniteSet(T)
      BY <1>1, FS_Subset
    <3>2. T \subseteq Int
      BY <1>1
    <3>. QED
      BY <2>2, <3>1, <3>2, FiniteHasGreatest DEF Greatest
  <2>. QED
    BY <2>1, <2>2 DEF Journal!Picks
<1>. DEFINE good == {T \in SUBSET real : Posted(st, R(T), postings, T)}
<1>6. {} \in good
  <2>1. R({}) = st
    BY Journal!FoldEmpty
  <2>. HIDE DEF R
  <2>. QED
    BY <2>1 DEF Posted, Keeps
<1>7. ASSUME NEW T \in SUBSET real, T # {}, Journal!Rest(T) \in good
      PROVE  T \in good
  <2>. DEFINE x == Greatest(T)
              U == Journal!Rest(T)
  <2>1. R(T) = PostOne(postings, R(U), x)
    <3>1. Journal!Finite(T) /\ Journal!Picks(T)
      <4>1. IsFiniteSet(T)
        BY <1>1, FS_Subset
      <4>. QED
        BY <1>5, <4>1, FiniteEnds DEF FamilyEnds, Journal!Picks, Journal!Finite, Journal!Smallest
    <3>. QED
      BY <1>7, <3>1, Journal!FoldLast
  <2>2. x \in T /\ T = U \union {x} /\ x \notin U /\ U \subseteq T
    BY <1>5, <1>7 DEF Journal!Picks, Journal!Rest
  <2>3. Posted(st, R(U), postings, U)
    BY <1>7
  <2>. HIDE DEF R, x, U
  <2>4. x \in 1 .. n /\ U \subseteq 1 .. n
    BY <1>1, <2>2
  <2>5. R(U).acct[postings[x].acct] = st.acct[postings[x].acct]
    BY <2>2, <2>3, <2>4 DEF Posted, Possible
  <2>6. /\ postings[x].acct \in Accounts /\ postings[x].amt \in Int
        /\ st.acct[postings[x].acct] + postings[x].amt >= 0
        /\ st.acct[postings[x].acct] \in Nat
    BY <2>4 DEF Possible
  <2>7. /\ Keeps(R(U), R(T), {"acct"})
        /\ R(T).acct = [R(U).acct EXCEPT ![postings[x].acct] =
                            @ + postings[x].amt]
    BY <2>1, <2>3, <2>5, <2>6 DEF PostOne, MutateAccount, Posted, Keeps, Fields
  <2>8. Posted(st, R(T), postings, T)
    <3>1. Keeps(st, R(T), {"acct"})
      BY <2>3, <2>7 DEF Posted, Keeps
    <3>2. R(T).acct \in [Accounts -> Nat]
      BY <2>3, <2>5, <2>6, <2>7 DEF Posted
    <3>3. ASSUME NEW k \in T
          PROVE  R(T).acct[postings[k].acct]
                   = st.acct[postings[k].acct] + postings[k].amt
      <4>1. CASE k = x
        BY <2>3, <2>5, <2>6, <2>7, <4>1 DEF Posted
      <4>2. CASE k # x
        <5>1. k \in U /\ k \in 1 .. n /\ postings[k].acct # postings[x].acct
          BY <2>2, <2>4, <4>2 DEF Possible
        <5>2. postings[k].acct \in Accounts
          BY <5>1 DEF Possible
        <5>. QED
          BY <2>3, <2>7, <5>1, <5>2 DEF Posted
      <4>. QED
        BY <4>1, <4>2
    <3>4. ASSUME NEW a \in Accounts, \A k \in T : postings[k].acct # a
          PROVE  R(T).acct[a] = st.acct[a]
      BY <2>2, <2>3, <2>7, <3>4 DEF Posted
    <3>. QED
      BY <3>1, <3>2, <3>3, <3>4 DEF Posted
  <2>. QED
    BY <2>8
<1>8. Posted(st, R(real), postings, real)
  <2>. HIDE DEF good
  <2>1. real \in good
    BY <1>5, <1>6, <1>7, Journal!PickInduct
  <2>. QED
    BY <2>1 DEF good
<1>. HIDE DEF R
<1>9. ASSUME NEW k \in 1 .. n
       PROVE  R(real).acct[postings[k].acct]
                = st.acct[postings[k].acct] + postings[k].amt
  <2>1. CASE k \in real
    BY <1>8, <2>1 DEF Posted
  <2>2. CASE k \notin real
    <3>1. \A l \in real : postings[l].acct # postings[k].acct
      BY <1>1, <2>2 DEF Possible
    <3>2. postings[k].acct \in Accounts /\ postings[k].amt = 0
      BY <1>1, <2>2 DEF Possible
    <3>3. R(real).acct[postings[k].acct] = st.acct[postings[k].acct]
      BY <1>8, <3>1, <3>2 DEF Posted
    <3>4. st.acct[postings[k].acct] \in Nat
      BY <3>2
    <3>. QED
      BY <3>2, <3>3, <3>4
  <2>. QED
    BY <2>1, <2>2
<1>. QED
  BY <1>1, <1>4, <1>8, <1>9 DEF Posted
----------------------------------------------------------------------------
\* Once something has failed, nothing else fails: only the first error of a
\* command counts.
Stays(st, r) ==
    DOMAIN st = Fields =>
        DOMAIN r = Fields /\ (st.fault # "NONE" => r.fault = st.fault)

LEMMA StaysTransitive ==
    ASSUME NEW st, NEW r, NEW t, Stays(st, r), Stays(r, t)
    PROVE  Stays(st, t)
BY DEF Stays

LEMMA CheckStays ==
    ASSUME NEW st, NEW cond, NEW why
    PROVE  Stays(st, Check(st, cond, why)) /\ Stays(st, Fail(st, why))
BY DEF Stays, Check, Fail, Fields

LEMMA CashStays ==
    ASSUME NEW st, NEW u, NEW delta
    PROVE  /\ Stays(st, EnsureWallet(st, u))
           /\ Stays(st, MutateCash(st, u, delta))
<1>1. Stays(st, EnsureWallet(st, u))
  BY CheckStays DEF EnsureWallet
<1>2. Stays(st, MutateCash(st, u, delta))
  BY CheckStays DEF MutateCash, Stays, Fields
<1>. QED
  BY <1>1, <1>2

LEMMA PostStays ==
    ASSUME NEW st, NEW posting
    PROVE  Stays(st, MutateAccount(st, posting))
BY CheckStays DEF MutateAccount, Stays, Fields

\* A loop over a finite set of numbers.
LEMMA NumbersPicked ==
    ASSUME NEW S, IsFiniteSet(S), S \subseteq Int
    PROVE  \A T \in SUBSET S : T # {} => Greatest(T) \in T
<1>. SUFFICES ASSUME NEW T \in SUBSET S, T # {} PROVE Greatest(T) \in T
  OBVIOUS
<1>1. IsFiniteSet(T)
  BY FS_Subset
<1>2. T \subseteq Int
  OBVIOUS
<1>. QED
  BY <1>1, <1>2, FiniteHasGreatest DEF Greatest

LEMMA JournalStays ==
    ASSUME NEW st, NEW n \in Nat, NEW postings, DOMAIN postings = 1 .. n
    PROVE  Stays(st, CreateJournal(st, postings))
<1>. DEFINE real == RealPostings(postings)
            R(T) == Journal!Fold(postings, st, T)
            good == {T \in SUBSET real : Stays(st, R(T))}
<1>1. IsFiniteSet(real) /\ real \subseteq Int
  <2>1. IsFiniteSet(1 .. n)
    BY FS_Interval
  <2>. QED
    BY <2>1, FS_Subset DEF RealPostings
<1>2. Journal!Finite(real) /\ Journal!Picks(real)
  BY <1>1, NumbersPicked, FiniteEnds DEF FamilyEnds, Journal!Picks, Journal!Finite, Journal!Smallest
<1>3. {} \in good
  <2>1. R({}) = st
    BY Journal!FoldEmpty
  <2>. HIDE DEF R
  <2>. QED
    BY <2>1 DEF Stays
<1>4. ASSUME NEW T \in SUBSET real, T # {}, Journal!Rest(T) \in good
      PROVE  T \in good
  <2>1. Journal!Finite(T) /\ Journal!Picks(T)
    <3>1. IsFiniteSet(T)
      BY <1>1, FS_Subset
    <3>. QED
      BY <1>2, <3>1, FiniteEnds DEF FamilyEnds, Journal!Picks, Journal!Finite, Journal!Smallest
  <2>2. R(T) = MutateAccount(R(Journal!Rest(T)), postings[Greatest(T)])
    BY <1>4, <2>1, Journal!FoldLast DEF PostOne
  <2>. HIDE DEF R
  <2>. QED
    BY <1>4, <2>2, PostStays, StaysTransitive
<1>5. Stays(st, R(real))
  <2>. HIDE DEF good
  <2>1. real \in good
    BY <1>2, <1>3, <1>4, Journal!PickInduct
  <2>. QED
    BY <2>1 DEF good
<1>6. CASE /\ ~(Cardinality(real) < 2)
           /\ SumFunction([k \in DOMAIN postings |-> postings[k].amt]) = 0
  BY <1>5, <1>6, JournalLoop
<1>7. CASE ~(/\ ~(Cardinality(real) < 2)
             /\ SumFunction([k \in DOMAIN postings |-> postings[k].amt]) = 0)
  <2>1. CreateJournal(st, postings) = Fail(st, "BROKEN")
    BY <1>7, Zenon DEF CreateJournal, RealPostings
  <2>. QED
    BY <2>1, CheckStays
<1>. QED
  BY <1>6, <1>7

LEMMA MoveStays ==
    ASSUME NEW st, NEW u, NEW i, NEW cash
    PROVE  Stays(st, MoveCash(st, u, i, cash))
<1>. DEFINE r == MutateCash(EnsureWallet(st, u), u, -cash)
            postings == <<Posting(Wallet(u), -cash), Posting(Escrow(i), cash)>>
<1>1. Stays(st, r)
  BY CashStays, StaysTransitive
<1>2. DOMAIN postings = 1 .. 2
  OBVIOUS
<1>. HIDE DEF r, postings
<1>3. Stays(r, CreateJournal(r, postings))
  BY <1>2, JournalStays
<1>. QED
  BY <1>1, <1>3, StaysTransitive DEF MoveCash, r, postings

LEMMA CancelStays ==
    ASSUME NEW st, NEW i
    PROVE  Stays(st, CancelRemainder(st, i))
<1>. DEFINE r == st.resv[i]
            u == st.orders[i].owner
            cash == r.principal + r.fee
            moved == MoveCash(st, u, i, -cash)
            held == Check(st, st.pos[u].rYes >= r.yes /\ st.pos[u].rNo >= r.no,
                          "BROKEN")
            released == ReleaseReservation(st, i)
<1>1. Stays(st, moved) /\ Stays(st, held)
  BY MoveStays, CheckStays
<1>2. released =
        IF cash > 0
        THEN [moved EXCEPT !.resv[i] = [@ EXCEPT !.principal = 0, !.fee = 0]]
        ELSE [held EXCEPT !.pos[u] = Freed(@, r), !.resv[i] = NoReservation]
  BY DEF ReleaseReservation
<1>. HIDE DEF moved, held, cash, released
<1>3. ASSUME cash > 0
      PROVE  Stays(st, released)
  BY <1>1, <1>2, <1>3 DEF Stays, Fields
<1>4. ASSUME ~(cash > 0)
      PROVE  Stays(st, released)
  BY <1>1, <1>2, <1>4 DEF Stays, Fields
<1>5. Stays(st, released)
  BY <1>3, <1>4
<1>. QED
  BY <1>5 DEF CancelRemainder, Stays, Fields, released

LEMMA PositionStays ==
    ASSUME NEW st, NEW o, NEW q
    PROVE  Stays(st, ApplyPositionLeg(st, o, q))
<1>. DEFINE p == st.pos[o.owner]
            yes == Check(st, p.yes >= q /\ p.rYes >= q, "BROKEN")
            no == Check(st, p.no >= q /\ p.rNo >= q, "BROKEN")
            r == ApplyPositionLeg(st, o, q)
<1>1. Stays(st, yes) /\ Stays(st, no) /\ Stays(st, st)
  BY CheckStays DEF Stays
<1>2. r = IF o.action = "BUY"
          THEN IF o.outcome = "YES"
               THEN [st EXCEPT !.pos[o.owner].yes = @ + q]
               ELSE [st EXCEPT !.pos[o.owner].no = @ + q]
          ELSE IF o.outcome = "YES"
               THEN [yes EXCEPT !.pos[o.owner] = [p EXCEPT !.yes = @ - q,
                                                           !.rYes = @ - q]]
               ELSE [no EXCEPT !.pos[o.owner] = [p EXCEPT !.no = @ - q,
                                                          !.rNo = @ - q]]
  BY DEF ApplyPositionLeg
<1>. HIDE DEF yes, no, r
<1>3. ASSUME o.action = "BUY", o.outcome = "YES"
      PROVE  Stays(st, r)
  BY <1>1, <1>2, <1>3 DEF Stays, Fields
<1>4. ASSUME o.action = "BUY", o.outcome # "YES"
      PROVE  Stays(st, r)
  BY <1>1, <1>2, <1>4 DEF Stays, Fields
<1>5. ASSUME o.action # "BUY", o.outcome = "YES"
      PROVE  Stays(st, r)
  BY <1>1, <1>2, <1>5 DEF Stays, Fields
<1>6. ASSUME o.action # "BUY", o.outcome # "YES"
      PROVE  Stays(st, r)
  BY <1>1, <1>2, <1>6 DEF Stays, Fields
<1>. QED
  BY <1>3, <1>4, <1>5, <1>6 DEF r

LEMMA SupplyStays ==
    ASSUME NEW st, NEW kind, NEW q
    PROVE  Stays(st, ApplySupply(st, kind, q))
<1>. DEFINE mint == Check(st, /\ st.supply.yes <= MaxQuantity - q
                              /\ st.supply.no <= MaxQuantity - q, "REFUSED")
            burn == Check(st, st.supply.yes >= q /\ st.supply.no >= q, "BROKEN")
<1>1. Stays(st, mint) /\ Stays(st, burn) /\ Stays(st, st)
  <2>1. Stays(st, mint) /\ Stays(st, burn)
    BY CheckStays
  <2>. QED
    BY <2>1 DEF Stays
<1>2. ApplySupply(st, kind, q) =
        CASE kind = "MINT" ->
                [mint EXCEPT !.supply = [yes |-> @.yes + q, no |-> @.no + q]]
          [] kind = "BURN" ->
                [burn EXCEPT !.supply = [yes |-> @.yes - q, no |-> @.no - q]]
          [] OTHER -> st
  BY DEF ApplySupply
<1>. HIDE DEF mint, burn
<1>3. CASE kind = "MINT"
  <2>1. ApplySupply(st, kind, q) =
          [mint EXCEPT !.supply = [yes |-> @.yes + q, no |-> @.no + q]]
    BY <1>2, <1>3
  <2>. QED
    BY <1>1, <2>1 DEF Stays, Fields
<1>4. CASE kind = "BURN"
  <2>1. ApplySupply(st, kind, q) =
          [burn EXCEPT !.supply = [yes |-> @.yes - q, no |-> @.no - q]]
    BY <1>2, <1>4
  <2>. QED
    BY <1>1, <2>1 DEF Stays, Fields
<1>5. CASE kind # "MINT" /\ kind # "BURN"
  BY <1>1, <1>2, <1>5
<1>. QED
  BY <1>3, <1>4, <1>5

LEMMA AdjustStays ==
    ASSUME NEW st, NEW i, NEW q, NEW notional, NEW fee, NEW prior
    PROVE  Stays(st, AdjustReservation(st, i, q, notional, fee, prior))
<1>. DEFINE o == st.orders[i]
            left == o.rem - q
            principal == UserLimit(o) * left
            maxFee == FeeDelta(prior + notional, principal, FeeBps)
            held == st.resv[i].principal + st.resv[i].fee
            release == held - notional - fee - principal - maxFee
            moved == MoveCash(st, o.owner, i, -release)
            paid == IF release > 0 THEN moved ELSE st
            r == AdjustReservation(st, i, q, notional, fee, prior)
<1>1. Stays(st, moved) /\ Stays(st, st) /\ Stays(st, Fail(st, "BROKEN"))
  <2>1. Stays(st, st)
    BY DEF Stays
  <2>2. Stays(st, moved)
    <3>. HIDE DEF release
    <3>. QED
      BY MoveStays, Zenon
  <2>. QED
    BY <2>1, <2>2, CheckStays
<1>2. /\ o.action = "SELL" /\ o.outcome = "YES"
            => r = [st EXCEPT !.resv[i].yes = left]
      /\ o.action = "SELL" /\ o.outcome # "YES"
            => r = [st EXCEPT !.resv[i].no = left]
      /\ o.action # "SELL" /\ release < 0 => r = Fail(st, "BROKEN")
      /\ o.action # "SELL" /\ ~(release < 0)
            => r = [paid EXCEPT !.resv[i] = [@ EXCEPT !.principal = principal,
                                                      !.fee = maxFee]]
  BY Zenon DEF AdjustReservation
<1>. HIDE DEF moved, release, held, maxFee, principal, left, r
<1>2a. Stays(st, paid)
  BY <1>1
<1>. HIDE DEF paid
<1>3. ASSUME o.action = "SELL", o.outcome = "YES"
      PROVE  Stays(st, r)
  BY <1>1, <1>2, <1>3 DEF Stays, Fields
<1>4. ASSUME o.action = "SELL", o.outcome # "YES"
      PROVE  Stays(st, r)
  BY <1>1, <1>2, <1>4 DEF Stays, Fields
<1>5. ASSUME o.action # "SELL", release < 0
      PROVE  Stays(st, r)
  BY <1>1, <1>2, <1>5
<1>6. ASSUME o.action # "SELL", ~(release < 0)
      PROVE  Stays(st, r)
  BY <1>2, <1>2a, <1>6 DEF Stays, Fields
<1>. QED
  BY <1>3, <1>4, <1>5, <1>6 DEF r

LEMMA UpdateStays ==
    ASSUME NEW st, NEW i, NEW q, NEW notional, NEW fee, NEW prior
    PROVE  Stays(st, UpdateFilledOrder(st, i, q, notional, fee, prior))
<1>. DEFINE r == AdjustReservation(st, i, q, notional, fee, prior)
<1>1. Stays(st, r)
  BY AdjustStays
<1>. HIDE DEF r
<1>. QED
  BY <1>1 DEF UpdateFilledOrder, Stays, Fields, r

LEMMA FillStays ==
    ASSUME NEW st, NEW fill
    PROVE  Stays(st, ApplyFill(st, fill))
<1>. SUFFICES ASSUME NEW q, NEW m, NEW t, NEW kind
              PROVE  Stays(st, SettleFill(st, q, m, t, kind))
  BY DEF ApplyFill
<1>. DEFINE s1 == Check(EnsureWallet(EnsureWallet(st, m.order.owner),
                                     t.order.owner),
                        \A leg \in {m, t} : leg.order.action = "SELL"
                                                => leg.fee <= leg.notional,
                        "BROKEN")
            ps == <<Posting(Collateral, CollateralPosting(kind, PayoutMilli, q)),
                    Posting(CashAccount(m.order, m.id), m.amt),
                    Posting(CashAccount(t.order, t.id), t.amt),
                    Posting(Revenue, m.fee + t.fee)>>
            s2 == CreateJournal(s1, ps)
            s3 == CreditSeller(CreditSeller(s2, m.order, m.amt), t.order, t.amt)
            s4 == ApplyPositionLeg(ApplyPositionLeg(s3, m.order, q), t.order, q)
            s5 == ApplySupply(s4, kind, q)
            s6 == UpdateFilledOrder(s5, m.id, q, m.notional, m.fee, m.prior)
            s7 == UpdateFilledOrder(s6, t.id, q, t.notional, t.fee, t.prior)
<1>1. Stays(st, s1)
  BY CashStays, CheckStays, StaysTransitive
<1>2. Stays(s1, s2)
  <2>1. DOMAIN ps = 1 .. 4
    OBVIOUS
  <2>. HIDE DEF ps, s1
  <2>. QED
    BY <2>1, JournalStays
<1>3. Stays(s2, s3)
  <2>1. \A s, o, amount : Stays(s, CreditSeller(s, o, amount))
    BY CashStays DEF CreditSeller, Stays
  <2>. HIDE DEF s2
  <2>. QED
    BY <2>1, StaysTransitive
<1>4. Stays(s3, s4)
  <2>. HIDE DEF s3
  <2>. QED
    BY PositionStays, StaysTransitive
<1>5. Stays(s4, s5)
  <2>. HIDE DEF s4
  <2>. QED
    BY SupplyStays
<1>6. Stays(s5, s6)
  <2>. HIDE DEF s5
  <2>. QED
    BY UpdateStays
<1>7. Stays(s6, s7)
  <2>. HIDE DEF s6
  <2>. QED
    BY UpdateStays
<1>8. SettleFill(st, q, m, t, kind) = s7
  BY DEF SettleFill
<1>. HIDE DEF s1, s2, s3, s4, s5, s6, s7
<1>. QED
  BY <1>1, <1>2, <1>3, <1>4, <1>5, <1>6, <1>7, <1>8, StaysTransitive

LEMMA EventStays ==
    ASSUME NEW st, NEW offset
    PROVE  Stays(st, Emit(st, offset)) /\ Stays(st, EmitNext(st))
<1>1. Stays(st, Emit(st, offset))
  BY DEF Emit, Stays, Fields
<1>2. Stays(st, EmitNext(st))
  BY DEF EmitNext, Emit, Stays, Fields
<1>. QED
  BY <1>1, <1>2

LEMMA StepStays ==
    ASSUME NEW st, NEW fill, NEW i
    PROVE  Stays(st, FillStep(st, fill)) /\ Stays(st, PreventStep(st, i))
BY FillStays, CancelStays, EventStays, StaysTransitive DEF FillStep, PreventStep

----------------------------------------------------------------------------
\* What an order moved of its owner's money and contracts, and how a change
\* of one order changes what adds up over a user's orders.
Proceeds(o) == PartyPosting(o, o.notional, o.fee)

LEMMA OrderNumbers ==
    ASSUME NEW o, OrderRow(o)
    PROVE  /\ Proceeds(o) \in Int
           /\ Bought(o, "YES") \in Int /\ Bought(o, "NO") \in Int
BY DEF OrderRow, Proceeds, PartyPosting, Bought

LEMMA OwnFinite ==
    ASSUME NEW st, Typed(st), NEW u
    PROVE  IsFiniteSet(OwnOrders(st, u)) /\ OwnOrders(st, u) \subseteq DOMAIN st.orders
<1>1. IsFiniteSet(1 .. Len(st.orders))
  BY RowsDomain, FS_Interval
<1>2. OwnOrders(st, u) \subseteq 1 .. Len(st.orders)
  BY RowsDomain DEF OwnOrders
<1>. QED
  BY <1>1, <1>2, RowsDomain, FS_Subset

\* The terms of a user's sums.
YesHeld(st, u) == [i \in OwnOrders(st, u) |-> st.resv[i].yes]
NoHeld(st, u) == [i \in OwnOrders(st, u) |-> st.resv[i].no]
CashHeld(st, u) == [i \in OwnOrders(st, u) |-> st.acct[Escrow(i)]]
Earned(st, u) == [i \in OwnOrders(st, u) |-> Proceeds(st.orders[i])]
Gained(st, u, outcome) ==
    [i \in OwnOrders(st, u) |-> Bought(st.orders[i], outcome)]

LEMMA UserTerms ==
    ASSUME NEW st, Typed(st), NEW u
    PROVE  /\ YesHeld(st, u) \in [OwnOrders(st, u) -> Nat]
           /\ NoHeld(st, u) \in [OwnOrders(st, u) -> Nat]
           /\ CashHeld(st, u) \in [OwnOrders(st, u) -> Nat]
           /\ Earned(st, u) \in [OwnOrders(st, u) -> Int]
           /\ Gained(st, u, "YES") \in [OwnOrders(st, u) -> Int]
           /\ Gained(st, u, "NO") \in [OwnOrders(st, u) -> Int]
<1>1. ASSUME NEW i \in OwnOrders(st, u)
      PROVE  /\ st.resv[i].yes \in Nat /\ st.resv[i].no \in Nat
             /\ st.acct[Escrow(i)] \in Nat
             /\ Proceeds(st.orders[i]) \in Int
             /\ Bought(st.orders[i], "YES") \in Int
             /\ Bought(st.orders[i], "NO") \in Int
  <2>1. i \in DOMAIN st.orders /\ i \in 1 .. MaxOrders
    BY RowsDomain DEF OwnOrders
  <2>2. st.resv[i] \in Reservation /\ OrderRow(st.orders[i])
        /\ st.acct \in [Accounts -> Nat]
    BY <2>1 DEF Typed
  <2>3. Escrow(i) \in Accounts
    BY <2>1, AccountNames
  <2>. QED
    BY <2>2, <2>3, OrderNumbers DEF Reservation
<1>. QED
  BY <1>1 DEF YesHeld, NoHeld, CashHeld, Earned, Gained

LEMMA UserSums ==
    ASSUME NEW st, Typed(st), NEW u
    PROVE  /\ SumFunction(YesHeld(st, u)) \in Nat
           /\ SumFunction(NoHeld(st, u)) \in Nat
           /\ SumFunction(CashHeld(st, u)) \in Nat
           /\ SumFunction(Earned(st, u)) \in Int
           /\ SumFunction(Gained(st, u, "YES")) \in Int
           /\ SumFunction(Gained(st, u, "NO")) \in Int
BY UserTerms, OwnFinite, SumIsNat, SumIsInt

\* What SharesReserved and Explained say, by the names of the terms.
Redeemed(st, u) ==
    InitialYes[u] + SumFunction(Gained(st, u, "YES")) - st.pos[u].yes

LEMMA SharesAre ==
    ASSUME NEW st, NEW u
    PROVE  SharesReserved(st, u) <=>
             /\ st.pos[u].rYes = SumFunction(YesHeld(st, u))
             /\ st.pos[u].rNo = SumFunction(NoHeld(st, u))
             /\ st.pos[u].rYes <= st.pos[u].yes
             /\ st.pos[u].rNo <= st.pos[u].no
BY DEF SharesReserved, YesHeld, NoHeld

LEMMA ExplainedIs ==
    ASSUME NEW st, NEW u
    PROVE  Explained(st, u) <=>
             /\ Redeemed(st, u) >= 0
             /\ Redeemed(st, u) = InitialNo[u] + SumFunction(Gained(st, u, "NO"))
                                     - st.pos[u].no
             /\ st.balance[u] + SumFunction(CashHeld(st, u))
                  = InitialCash + SumFunction(Earned(st, u))
                                + PayoutMilli * Redeemed(st, u)
BY DEF Explained, Redeemed, CashHeld, Earned, Gained, Proceeds

\* A user nothing happened to.
SameFor(st, r, u) ==
    /\ OwnOrders(r, u) = OwnOrders(st, u)
    /\ \A i \in OwnOrders(st, u) :
          /\ r.orders[i] = st.orders[i] /\ r.resv[i] = st.resv[i]
          /\ r.acct[Escrow(i)] = st.acct[Escrow(i)]
    /\ r.balance[u] = st.balance[u] /\ r.pos[u] = st.pos[u]

LEMMA OthersUnaffected ==
    ASSUME NEW st, NEW r, NEW u, SameFor(st, r, u)
    PROVE  /\ SharesReserved(st, u) => SharesReserved(r, u)
           /\ Explained(st, u) => Explained(r, u)
<1>1. /\ YesHeld(r, u) = YesHeld(st, u) /\ NoHeld(r, u) = NoHeld(st, u)
      /\ CashHeld(r, u) = CashHeld(st, u) /\ Earned(r, u) = Earned(st, u)
      /\ Gained(r, u, "YES") = Gained(st, u, "YES")
      /\ Gained(r, u, "NO") = Gained(st, u, "NO")
  BY DEF SameFor, YesHeld, NoHeld, CashHeld, Earned, Gained
<1>. QED
  BY <1>1, SharesAre, ExplainedIs DEF SameFor, Redeemed

\* A user one of whose orders changes.
OneOrderOf(st, r, u, i) ==
    /\ OwnOrders(r, u) = OwnOrders(st, u) /\ i \in OwnOrders(st, u)
    /\ \A j \in OwnOrders(st, u) \ {i} :
          /\ r.orders[j] = st.orders[j] /\ r.resv[j] = st.resv[j]
          /\ r.acct[Escrow(j)] = st.acct[Escrow(j)]

LEMMA OneOrderShares ==
    ASSUME NEW st, NEW r, Typed(st), Typed(r), NEW u \in Users, NEW i,
           OneOrderOf(st, r, u, i), SharesReserved(st, u),
           r.pos[u].rYes - st.pos[u].rYes = r.resv[i].yes - st.resv[i].yes,
           r.pos[u].rNo - st.pos[u].rNo = r.resv[i].no - st.resv[i].no,
           r.pos[u].rYes <= r.pos[u].yes, r.pos[u].rNo <= r.pos[u].no
    PROVE  SharesReserved(r, u)
<1>. DEFINE S == OwnOrders(st, u)
<1>1. /\ IsFiniteSet(S) /\ i \in S
      /\ YesHeld(st, u) \in [S -> Int] /\ YesHeld(r, u) \in [S -> Int]
      /\ NoHeld(st, u) \in [S -> Int] /\ NoHeld(r, u) \in [S -> Int]
  BY OwnFinite, UserTerms DEF OneOrderOf
<1>2. \A j \in S \ {i} : /\ YesHeld(r, u)[j] = YesHeld(st, u)[j]
                          /\ NoHeld(r, u)[j] = NoHeld(st, u)[j]
  BY DEF OneOrderOf, YesHeld, NoHeld
<1>3. /\ SumFunction(YesHeld(r, u)) = SumFunction(YesHeld(st, u))
            + (YesHeld(r, u)[i] - YesHeld(st, u)[i])
      /\ SumFunction(NoHeld(r, u)) = SumFunction(NoHeld(st, u))
            + (NoHeld(r, u)[i] - NoHeld(st, u)[i])
  BY <1>1, <1>2, SumOneChanges
<1>4. /\ YesHeld(r, u)[i] = r.resv[i].yes /\ YesHeld(st, u)[i] = st.resv[i].yes
      /\ NoHeld(r, u)[i] = r.resv[i].no /\ NoHeld(st, u)[i] = st.resv[i].no
  BY DEF OneOrderOf, YesHeld, NoHeld
<1>5. st.pos[u] \in Position /\ r.pos[u] \in Position
  BY DEF Typed
<1>6. /\ st.pos[u].rYes \in Nat /\ st.pos[u].rNo \in Nat
      /\ r.pos[u].rYes \in Nat /\ r.pos[u].rNo \in Nat
      /\ YesHeld(st, u)[i] \in Int /\ YesHeld(r, u)[i] \in Int
      /\ NoHeld(st, u)[i] \in Int /\ NoHeld(r, u)[i] \in Int
  BY <1>1, <1>5 DEF Position
<1>. QED
  BY <1>3, <1>4, <1>6, SharesAre

LEMMA OneOrderExplained ==
    ASSUME NEW st, NEW r, Typed(st), Typed(r), NEW u \in Users, NEW i,
           OneOrderOf(st, r, u, i), Explained(st, u),
           r.pos[u].yes - st.pos[u].yes
             = Bought(r.orders[i], "YES") - Bought(st.orders[i], "YES"),
           r.pos[u].no - st.pos[u].no
             = Bought(r.orders[i], "NO") - Bought(st.orders[i], "NO"),
           r.balance[u] + r.acct[Escrow(i)] - st.balance[u] - st.acct[Escrow(i)]
             = Proceeds(r.orders[i]) - Proceeds(st.orders[i])
    PROVE  Explained(r, u)
<1>. DEFINE S == OwnOrders(st, u)
<1>1. /\ IsFiniteSet(S) /\ i \in S
      /\ CashHeld(st, u) \in [S -> Int] /\ CashHeld(r, u) \in [S -> Int]
      /\ Earned(st, u) \in [S -> Int] /\ Earned(r, u) \in [S -> Int]
      /\ Gained(st, u, "YES") \in [S -> Int] /\ Gained(r, u, "YES") \in [S -> Int]
      /\ Gained(st, u, "NO") \in [S -> Int] /\ Gained(r, u, "NO") \in [S -> Int]
  BY OwnFinite, UserTerms DEF OneOrderOf
<1>2. \A j \in S \ {i} : /\ CashHeld(r, u)[j] = CashHeld(st, u)[j]
                          /\ Earned(r, u)[j] = Earned(st, u)[j]
                          /\ Gained(r, u, "YES")[j] = Gained(st, u, "YES")[j]
                          /\ Gained(r, u, "NO")[j] = Gained(st, u, "NO")[j]
  BY DEF OneOrderOf, CashHeld, Earned, Gained
<1>3. /\ SumFunction(CashHeld(r, u)) = SumFunction(CashHeld(st, u))
            + (CashHeld(r, u)[i] - CashHeld(st, u)[i])
      /\ SumFunction(Earned(r, u)) = SumFunction(Earned(st, u))
            + (Earned(r, u)[i] - Earned(st, u)[i])
      /\ SumFunction(Gained(r, u, "YES")) = SumFunction(Gained(st, u, "YES"))
            + (Gained(r, u, "YES")[i] - Gained(st, u, "YES")[i])
      /\ SumFunction(Gained(r, u, "NO")) = SumFunction(Gained(st, u, "NO"))
            + (Gained(r, u, "NO")[i] - Gained(st, u, "NO")[i])
  BY <1>1, <1>2, SumOneChanges
<1>4. /\ CashHeld(r, u)[i] = r.acct[Escrow(i)]
      /\ CashHeld(st, u)[i] = st.acct[Escrow(i)]
      /\ Earned(r, u)[i] = Proceeds(r.orders[i])
      /\ Earned(st, u)[i] = Proceeds(st.orders[i])
      /\ Gained(r, u, "YES")[i] = Bought(r.orders[i], "YES")
      /\ Gained(st, u, "YES")[i] = Bought(st.orders[i], "YES")
      /\ Gained(r, u, "NO")[i] = Bought(r.orders[i], "NO")
      /\ Gained(st, u, "NO")[i] = Bought(st.orders[i], "NO")
  BY DEF OneOrderOf, CashHeld, Earned, Gained
<1>5. /\ st.pos[u].yes \in Nat /\ st.pos[u].no \in Nat
      /\ r.pos[u].yes \in Nat /\ r.pos[u].no \in Nat
      /\ st.balance[u] \in Nat /\ r.balance[u] \in Nat
      /\ InitialYes[u] \in Nat /\ InitialNo[u] \in Nat /\ InitialCash \in Nat
  <2>1. st.pos[u] \in Position /\ r.pos[u] \in Position
    BY DEF Typed
  <2>. QED
    BY <2>1, ExchangeAssumption DEF Typed, Position
<1>6. /\ CashHeld(r, u)[i] \in Int /\ CashHeld(st, u)[i] \in Int
      /\ Earned(r, u)[i] \in Int /\ Earned(st, u)[i] \in Int
      /\ Gained(r, u, "YES")[i] \in Int /\ Gained(st, u, "YES")[i] \in Int
      /\ Gained(r, u, "NO")[i] \in Int /\ Gained(st, u, "NO")[i] \in Int
  BY <1>1
<1>7. Redeemed(r, u) = Redeemed(st, u)
  BY <1>3, <1>4, <1>5, <1>6, UserSums DEF Redeemed
<1>8. InitialNo[u] + SumFunction(Gained(r, u, "NO")) - r.pos[u].no
        = InitialNo[u] + SumFunction(Gained(st, u, "NO")) - st.pos[u].no
  BY <1>3, <1>4, <1>5, <1>6, UserSums
<1>9. PayoutMilli * Redeemed(st, u) \in Int
  <2>1. Redeemed(st, u) \in Int
    BY <1>5, UserSums DEF Redeemed
  <2>. QED
    BY <2>1, PayoutAssumption
<1>10. r.balance[u] + SumFunction(CashHeld(r, u))
         = InitialCash + SumFunction(Earned(r, u))
                       + PayoutMilli * Redeemed(r, u)
  <2>1. st.balance[u] + SumFunction(CashHeld(st, u))
         = InitialCash + SumFunction(Earned(st, u))
                       + PayoutMilli * Redeemed(st, u)
    BY ExplainedIs
  <2>. QED
    BY <1>3, <1>4, <1>5, <1>6, <1>7, <1>9, <2>1, UserSums
<1>. QED
  BY <1>7, <1>8, <1>10, ExplainedIs

----------------------------------------------------------------------------
\* Journals of two and of four postings.
LEMMA SumNext ==
    ASSUME NEW n \in Nat, NEW f \in [1 .. n + 1 -> Int]
    PROVE  SumFunction(f) = SumFunction([k \in 1 .. n |-> f[k]]) + f[n + 1]
<1>. DEFINE g == [k \in 1 .. n |-> f[k]]
            S == 1 .. n
            x == n + 1
<1>1. /\ DOMAIN g = S /\ DOMAIN f = S \union {x} /\ x \notin S
      /\ f[x] \in Int /\ \A k \in S : f[k] \in Int /\ g[k] = f[k]
  OBVIOUS
<1>2. IsFiniteSet(S)
  BY FS_Interval
<1>. HIDE DEF g, S, x
<1>3. Sums!Total(f, S \union {x}) = f[x] + Sums!Total(f, S)
  BY <1>1, <1>2, SumLaws, Sums!SumAdd
<1>4. Sums!Total(g, S) = Sums!Total(f, S)
  BY <1>1, <1>2, SumLaws, Sums!SumSame
<1>5. Sums!Total(f, S) \in Int
  BY <1>1, <1>2, SumLaws, Sums!SumInt
<1>6. SumFunction(f) = SumFunction(g) + f[x]
  BY <1>1, <1>3, <1>4, <1>5, SumOn
<1>. QED
  BY <1>6 DEF g, x

LEMMA SumOfTwo ==
    ASSUME NEW a \in Int, NEW b \in Int,
           NEW f, DOMAIN f = 1 .. 2, f = [k \in 1 .. 2 |-> f[k]],
           f[1] = a, f[2] = b
    PROVE  SumFunction(f) = a + b
<1>. DEFINE g1 == [k \in 1 .. 1 |-> f[k]]
            g0 == [k \in 1 .. 0 |-> g1[k]]
<1>1. f \in [1 .. 1 + 1 -> Int] /\ g1 \in [1 .. 0 + 1 -> Int] /\ g1[0 + 1] = a
  OBVIOUS
<1>2. SumFunction(g0) = 0
  BY SumOfNone
<1>3. SumFunction(f) = SumFunction(g1) + f[1 + 1]
  BY <1>1, SumNext
<1>4. SumFunction(g1) = SumFunction(g0) + g1[0 + 1]
  <2>. HIDE DEF g1
  <2>. QED
    BY <1>1, SumNext
<1>. HIDE DEF g0, g1
<1>. QED
  BY <1>1, <1>2, <1>3, <1>4

LEMMA SumOfFour ==
    ASSUME NEW a \in Int, NEW b \in Int, NEW c \in Int, NEW d \in Int,
           NEW f, DOMAIN f = 1 .. 4, f = [k \in 1 .. 4 |-> f[k]],
           f[1] = a, f[2] = b, f[3] = c, f[4] = d
    PROVE  SumFunction(f) = a + b + c + d
<1>. DEFINE g3 == [k \in 1 .. 3 |-> f[k]]
            g2 == [k \in 1 .. 2 |-> g3[k]]
<1>1. f \in [1 .. 3 + 1 -> Int] /\ g3 \in [1 .. 2 + 1 -> Int]
      /\ g3[2 + 1] = c /\ g3[1] = a /\ g3[2] = b
  OBVIOUS
<1>2. SumFunction(f) = SumFunction(g3) + f[3 + 1]
  BY <1>1, SumNext
<1>. HIDE DEF g3
<1>3. SumFunction(g3) = SumFunction(g2) + g3[2 + 1]
  BY <1>1, SumNext
<1>4. DOMAIN g2 = 1 .. 2 /\ g2 = [k \in 1 .. 2 |-> g2[k]]
      /\ g2[1] = a /\ g2[2] = b
  BY <1>1
<1>. HIDE DEF g2
<1>5. SumFunction(g2) = a + b
  BY <1>4, SumOfTwo
<1>. QED
  BY <1>1, <1>2, <1>3, <1>5

\* Cash that moves between a wallet and the escrow of an order.
Moved(st, r, u, i, cash) ==
    /\ Keeps(st, r, {"balance", "acct"})
    /\ r.balance = [st.balance EXCEPT ![u] = @ - cash]
    /\ r.acct \in [Accounts -> Nat]
    /\ r.acct[Wallet(u)] = st.acct[Wallet(u)] - cash
    /\ r.acct[Escrow(i)] = st.acct[Escrow(i)] + cash
    /\ \A a \in Accounts \ {Wallet(u), Escrow(i)} : r.acct[a] = st.acct[a]

LEMMA MoveCashWorks ==
    ASSUME NEW st, DOMAIN st = Fields, st.balance \in [Users -> Nat],
           st.acct \in [Accounts -> Nat],
           NEW u \in Users, NEW i \in 1 .. MaxOrders, NEW cash \in Int,
           cash # 0, st.acct[Wallet(u)] = st.balance[u],
           st.balance[u] - cash >= 0, st.acct[Escrow(i)] + cash >= 0,
           cash > 0 => u \in active
    PROVE  /\ Moved(st, MoveCash(st, u, i, cash), u, i, cash)
           /\ MoveCash(st, u, i, cash).balance \in [Users -> Nat]
<1>. DEFINE s == MutateCash(EnsureWallet(st, u), u, -cash)
            ps == <<Posting(Wallet(u), -cash), Posting(Escrow(i), cash)>>
            amts == [k \in DOMAIN ps |-> ps[k].amt]
            r == CreateJournal(s, ps)
<1>1. EnsureWallet(st, u) = st
  BY DEF EnsureWallet, Check
<1>2. s = [st EXCEPT !.balance[u] = @ + (-cash)]
  BY <1>1 DEF MutateCash
<1>3. /\ Keeps(st, s, {"balance"})
      /\ s.balance = [st.balance EXCEPT ![u] = @ - cash]
      /\ DOMAIN s = Fields /\ s.acct = st.acct
  BY <1>2 DEF Keeps, Fields
<1>4. s.balance \in [Users -> Nat]
  BY <1>3
<1>5. Wallet(u) \in Accounts /\ Escrow(i) \in Accounts /\ Wallet(u) # Escrow(i)
  BY AccountNames
<1>6. /\ DOMAIN ps = 1 .. 2
      /\ ps[1].acct = Wallet(u) /\ ps[1].amt = -cash
      /\ ps[2].acct = Escrow(i) /\ ps[2].amt = cash
  BY DEF Posting
<1>7. DOMAIN amts = 1 .. 2 /\ amts = [k \in 1 .. 2 |-> amts[k]]
      /\ amts[1] = -cash /\ amts[2] = cash
  BY <1>6
<1>. HIDE DEF s, ps
<1>8. SumFunction(amts) = 0
  <2>. HIDE DEF amts
  <2>1. -cash \in Int /\ -cash + cash = 0
    OBVIOUS
  <2>. DEFINE minus == -cash
  <2>2. minus \in Int /\ minus + cash = 0 /\ amts[1] = minus
    BY <1>7
  <2>. HIDE DEF minus
  <2>. QED
    BY <1>7, <2>2, SumOfTwo
<1>9. Possible(s, ps, 2)
  <2>1. st.acct[Wallet(u)] + (-cash) >= 0
    BY <1>5
  <2>. QED
    BY <1>3, <1>5, <1>6, <2>1 DEF Possible
<1>10. Posted(s, r, ps, 1 .. 2)
  <2>1. s.acct \in [Accounts -> Nat] /\ 1 \in 1 .. 2 /\ ps[1].amt # 0
    BY <1>3, <1>6
  <2>. QED
    BY <1>3, <1>8, <1>9, <2>1, JournalPosts
<1>. HIDE DEF r
<1>11. Moved(st, r, u, i, cash) /\ r.balance \in [Users -> Nat]
  <2>1. Keeps(s, r, {"acct"})
    BY <1>10 DEF Posted
  <2>2. Keeps(st, r, {"balance", "acct"}) /\ r.balance = s.balance
    BY <1>3, <2>1 DEF Keeps, Fields
  <2>3. /\ r.acct[Wallet(u)] = st.acct[Wallet(u)] - cash
        /\ r.acct[Escrow(i)] = st.acct[Escrow(i)] + cash
        /\ r.acct \in [Accounts -> Nat]
    BY <1>3, <1>5, <1>6, <1>10 DEF Posted
  <2>4. ASSUME NEW a \in Accounts \ {Wallet(u), Escrow(i)}
        PROVE  r.acct[a] = st.acct[a]
    <3>1. \A k \in 1 .. 2 : ps[k].acct # a
      BY <1>6
    <3>. QED
      BY <1>3, <1>10, <3>1 DEF Posted
  <2>. QED
    BY <1>3, <1>4, <2>2, <2>3, <2>4 DEF Moved
<1>. QED
  BY <1>11 DEF MoveCash, r, s, ps

\* A debit the wallet cannot pay is refused.
LEMMA MoveCashRefused ==
    ASSUME NEW st, DOMAIN st = Fields, st.fault = "NONE",
           st.balance \in [Users -> Nat], NEW u \in Users, NEW i, NEW cash \in Int,
           st.acct[Wallet(u)] = st.balance[u], st.balance[u] < cash
    PROVE  /\ DOMAIN MoveCash(st, u, i, cash) = Fields
           /\ MoveCash(st, u, i, cash).fault = "REFUSED"
<1>. DEFINE s == MutateCash(EnsureWallet(st, u), u, -cash)
            ps == <<Posting(Wallet(u), -cash), Posting(Escrow(i), cash)>>
<1>1. EnsureWallet(st, u) = st
  BY DEF EnsureWallet, Check
<1>2. -cash < 0 /\ st.balance[u] < -(-cash)
  <2>1. st.balance[u] \in Nat
    OBVIOUS
  <2>. QED
    BY <2>1
<1>3. s = [st EXCEPT !.fault = "REFUSED"]
  BY <1>1, <1>2 DEF MutateCash, Fail
<1>4. DOMAIN s = Fields /\ s.fault = "REFUSED"
  BY <1>3 DEF Fields
<1>5. DOMAIN ps = 1 .. 2
  BY DEF Posting
<1>. HIDE DEF s, ps
<1>6. Stays(s, CreateJournal(s, ps))
  BY <1>5, JournalStays
<1>. QED
  BY <1>4, <1>6 DEF MoveCash, Stays, s, ps
----------------------------------------------------------------------------
\* The inductive invariant, of the rows.  All orders but those of D are
\* backed; an order is placed first and backed in the next step.
UnusedEscrow(st) ==
    \A i \in 1 .. MaxOrders : i > Len(st.orders) => st.acct[Escrow(i)] = 0

\* Replacements keep the owner, and one order of a chain is live at a time.
Chained(st) ==
    /\ \A i \in DOMAIN st.orders : st.orders[i].chain \in 1 .. i
    /\ \A i, j \in DOMAIN st.orders :
          st.orders[i].chain = st.orders[j].chain =>
             /\ st.orders[i].owner = st.orders[j].owner
             /\ IsLive(st.orders[i]) /\ IsLive(st.orders[j]) => i = j

SoundBut(st, D) ==
    /\ Typed(st)
    /\ Custody(st)
    /\ UnusedEscrow(st)
    /\ \A i \in DOMAIN st.orders \ D : st.resv[i] = Backing(st, i)
    /\ Chained(st)
    /\ \A u \in Users : SharesReserved(st, u)
    /\ \A u \in Users : Explained(st, u)
    /\ SupplyCollateralized(st)
    /\ \A i \in DOMAIN st.orders : Protected(st.orders[i])

Sound(st) == SoundBut(st, {})

\* What a step does to an order it changes, and to its owner.
OrderChange(st, r, i) ==
    /\ OrderRow(r.orders[i]) /\ Protected(r.orders[i])
    /\ r.orders[i].owner = st.orders[i].owner
    /\ r.orders[i].chain = st.orders[i].chain
    /\ r.resv[i] \in Reservation /\ r.resv[i] = Backing(r, i)
    /\ r.acct[Escrow(i)] = r.resv[i].principal + r.resv[i].fee

OwnerChange(st, r, i, u) ==
    /\ r.balance[u] \in Nat /\ r.acct[Wallet(u)] = r.balance[u]
    /\ r.pos[u] \in Position
    /\ r.pos[u].rYes - st.pos[u].rYes = r.resv[i].yes - st.resv[i].yes
    /\ r.pos[u].rNo - st.pos[u].rNo = r.resv[i].no - st.resv[i].no
    /\ r.pos[u].rYes <= r.pos[u].yes /\ r.pos[u].rNo <= r.pos[u].no
    /\ r.pos[u].yes - st.pos[u].yes
         = Bought(r.orders[i], "YES") - Bought(st.orders[i], "YES")
    /\ r.pos[u].no - st.pos[u].no
         = Bought(r.orders[i], "NO") - Bought(st.orders[i], "NO")
    /\ r.balance[u] + r.acct[Escrow(i)] - st.balance[u] - st.acct[Escrow(i)]
         = Proceeds(r.orders[i]) - Proceeds(st.orders[i])

\* The rows are those of st but for the live orders of D, one of a user.
Changes(st, r, D) ==
    /\ D \subseteq DOMAIN st.orders
    /\ \A i \in D : IsLive(st.orders[i])
    /\ \A i, j \in D : i # j => st.orders[i].owner # st.orders[j].owner
    /\ DOMAIN r = Fields
    /\ IsRows(r.orders, Len(st.orders)) /\ IsRows(r.resv, Len(st.orders))
    /\ DOMAIN r.balance = Users /\ DOMAIN r.pos = Users
    /\ r.balance = [u \in Users |-> r.balance[u]]
    /\ r.pos = [u \in Users |-> r.pos[u]]
    /\ r.acct \in [Accounts -> Nat]
    /\ \A i \in DOMAIN st.orders \ D : /\ r.orders[i] = st.orders[i]
                                       /\ r.resv[i] = st.resv[i]
    /\ \A i \in (1 .. MaxOrders) \ D :
          r.acct[Escrow(i)] = st.acct[Escrow(i)]
    /\ \A u \in Users : (\A i \in D : st.orders[i].owner # u) =>
          /\ r.balance[u] = st.balance[u] /\ r.pos[u] = st.pos[u]
          /\ r.acct[Wallet(u)] = st.acct[Wallet(u)]

LEMMA LiveIs ==
    ASSUME NEW o, OrderRow(o)
    PROVE  IsLive(o) <=> o.rem > 0
BY DEF OrderRow, IsLive

LEMMA ChangesRows ==
    ASSUME NEW st, Typed(st), NEW r, NEW D, Changes(st, r, D)
    PROVE  /\ Len(r.orders) = Len(st.orders)
           /\ DOMAIN r.orders = DOMAIN st.orders
           /\ DOMAIN r.orders = 1 .. Len(st.orders)
           /\ DOMAIN r.resv = 1 .. Len(st.orders)
           /\ D \subseteq 1 .. MaxOrders
<1>1. /\ Len(st.orders) \in Nat /\ DOMAIN st.orders = 1 .. Len(st.orders)
      /\ \A i \in DOMAIN st.orders : i \in 1 .. MaxOrders
  BY RowsDomain
<1>2. Len(r.orders) = Len(st.orders) /\ DOMAIN r.orders = 1 .. Len(st.orders)
  BY <1>1 DEF Changes, IsRows
<1>3. DOMAIN r.resv = 1 .. Len(st.orders)
  BY <1>1 DEF Changes, IsRows
<1>4. D \subseteq 1 .. MaxOrders
  BY <1>1 DEF Changes
<1>. QED
  BY <1>1, <1>2, <1>3, <1>4

LEMMA ChangesTyped ==
    ASSUME NEW st, Typed(st), NEW r, NEW D, Changes(st, r, D),
           \A i \in D : /\ OrderChange(st, r, i)
                        /\ OwnerChange(st, r, i, st.orders[i].owner),
           r.supply.yes \in Nat, r.supply.no \in Nat
    PROVE  Typed(r)
<1>1. \A u \in Users : r.balance[u] \in Nat /\ r.pos[u] \in Position
  <2>. SUFFICES ASSUME NEW u \in Users
                PROVE  r.balance[u] \in Nat /\ r.pos[u] \in Position
    OBVIOUS
  <2>1. CASE \E i \in D : st.orders[i].owner = u
    BY <2>1 DEF OwnerChange
  <2>2. CASE \A i \in D : st.orders[i].owner # u
    BY <2>2 DEF Changes, Typed
  <2>. QED
    BY <2>1, <2>2
<1>2. r.balance \in [Users -> Nat] /\ r.pos \in [Users -> Position]
  BY <1>1 DEF Changes
<1>3. \A i \in DOMAIN r.orders : OrderRow(r.orders[i]) /\ r.resv[i] \in Reservation
  <2>. SUFFICES ASSUME NEW i \in DOMAIN r.orders
                PROVE  OrderRow(r.orders[i]) /\ r.resv[i] \in Reservation
    OBVIOUS
  <2>1. i \in DOMAIN st.orders
    BY ChangesRows
  <2>2. CASE i \in D
    BY <2>2 DEF OrderChange
  <2>3. CASE i \notin D
    BY <2>1, <2>3 DEF Changes, Typed
  <2>. QED
    BY <2>2, <2>3
<1>4. /\ Len(r.orders) = Len(st.orders)
      /\ DOMAIN r.orders = DOMAIN st.orders
  BY ChangesRows
<1>. QED
  BY <1>2, <1>3, <1>4 DEF Typed, Changes

LEMMA ChangesChains ==
    ASSUME NEW st, Typed(st), Chained(st), NEW r, NEW D, Changes(st, r, D),
           \A i \in D : OrderChange(st, r, i)
    PROVE  /\ \A i \in DOMAIN st.orders :
                 /\ r.orders[i].chain = st.orders[i].chain
                 /\ r.orders[i].owner = st.orders[i].owner
                 /\ IsLive(r.orders[i]) => IsLive(st.orders[i])
           /\ Chained(r)
           /\ \A i : Chain(r, i) = {j \in DOMAIN st.orders :
                                      st.orders[j].chain = r.orders[i].chain}
<1>1. \A i \in DOMAIN st.orders :
          /\ r.orders[i].chain = st.orders[i].chain
          /\ r.orders[i].owner = st.orders[i].owner
          /\ IsLive(r.orders[i]) => IsLive(st.orders[i])
  <2>. SUFFICES ASSUME NEW i \in DOMAIN st.orders
                PROVE  /\ r.orders[i].chain = st.orders[i].chain
                       /\ r.orders[i].owner = st.orders[i].owner
                       /\ IsLive(r.orders[i]) => IsLive(st.orders[i])
    OBVIOUS
  <2>1. CASE i \in D
    BY <2>1 DEF OrderChange, Changes
  <2>2. CASE i \notin D
    BY <2>2 DEF Changes
  <2>. QED
    BY <2>1, <2>2
<1>2. DOMAIN r.orders = DOMAIN st.orders
  BY ChangesRows
<1>3. Chained(r)
  BY <1>1, <1>2 DEF Chained
<1>4. ASSUME NEW i
      PROVE  Chain(r, i) = {j \in DOMAIN st.orders :
                              st.orders[j].chain = r.orders[i].chain}
  BY <1>1, <1>2 DEF Chain
<1>. QED
  BY <1>1, <1>3, <1>4

\* A live order no step changed has as much behind it as before.
LEMMA OthersBacked ==
    ASSUME NEW st, Typed(st), Chained(st), NEW r, NEW D, Changes(st, r, D),
           \A i \in D : OrderChange(st, r, i),
           NEW j \in DOMAIN st.orders \ D
    PROVE  Backing(r, j) = Backing(st, j)
<1>1. r.orders[j] = st.orders[j]
  BY DEF Changes
<1>2. CASE ~IsLive(st.orders[j])
  BY <1>1, <1>2 DEF Backing
<1>3. CASE IsLive(st.orders[j])
  <2>1. \A i \in D : st.orders[i].chain # st.orders[j].chain
    BY <1>3 DEF Changes, Chained
  <2>2. Chain(r, j) = Chain(st, j)
    BY <1>1, ChangesChains DEF Chain
  <2>3. \A k \in Chain(st, j) : r.orders[k].notional = st.orders[k].notional
    BY <2>1 DEF Chain, Changes
  <2>4. [k \in Chain(r, j) |-> r.orders[k].notional]
          = [k \in Chain(st, j) |-> st.orders[k].notional]
    BY <2>2, <2>3
  <2>5. ChainExecuted(r, j) = ChainExecuted(st, j)
    BY <2>4 DEF ChainExecuted
  <2>. QED
    BY <1>1, <2>5 DEF Backing
<1>. QED
  BY <1>2, <1>3

LEMMA ChangesSound ==
    ASSUME NEW st, NEW D, SoundBut(st, D), NEW r, Changes(st, r, D),
           \A i \in D : /\ OrderChange(st, r, i)
                        /\ OwnerChange(st, r, i, st.orders[i].owner),
           r.supply.yes \in Nat, r.supply.no \in Nat, SupplyCollateralized(r)
    PROVE  Sound(r)
<1>1. Typed(st) /\ Chained(st) /\ Typed(r)
  BY ChangesTyped DEF SoundBut
<1>2. DOMAIN r.orders = DOMAIN st.orders /\ Len(r.orders) = Len(st.orders)
      /\ \A i \in DOMAIN st.orders : i \in 1 .. MaxOrders
  BY <1>1, ChangesRows, RowsDomain
<1>3. Custody(r)
  <2>1. ASSUME NEW u \in Users
        PROVE  r.acct[Wallet(u)] = r.balance[u]
    <3>1. CASE \E i \in D : st.orders[i].owner = u
      BY <3>1 DEF OwnerChange
    <3>2. CASE \A i \in D : st.orders[i].owner # u
      BY <3>2 DEF Changes, SoundBut, Custody
    <3>. QED
      BY <3>1, <3>2
  <2>2. ASSUME NEW i \in DOMAIN st.orders
        PROVE  r.acct[Escrow(i)] = r.resv[i].principal + r.resv[i].fee
    <3>1. CASE i \in D
      BY <3>1 DEF OrderChange
    <3>2. CASE i \notin D
      BY <1>2, <3>2 DEF Changes, SoundBut, Custody
    <3>. QED
      BY <3>1, <3>2
  <2>. QED
    BY <1>2, <2>1, <2>2 DEF Custody
<1>4. UnusedEscrow(r)
  <2>1. ASSUME NEW i \in 1 .. MaxOrders, i > Len(st.orders)
        PROVE  r.acct[Escrow(i)] = 0
    <3>1. i \notin D
      BY <1>1, <2>1, RowsDomain DEF Changes
    <3>. QED
      BY <2>1, <3>1 DEF Changes, SoundBut, UnusedEscrow
  <2>. QED
    BY <1>2, <2>1 DEF UnusedEscrow
<1>5. ASSUME NEW i \in DOMAIN r.orders
      PROVE  r.resv[i] = Backing(r, i)
  <2>1. CASE i \in D
    BY <2>1 DEF OrderChange
  <2>2. CASE i \notin D
    <3>1. i \in DOMAIN st.orders \ D
      BY <1>2, <2>2
    <3>2. r.resv[i] = st.resv[i]
      BY <3>1 DEF Changes
    <3>3. st.resv[i] = Backing(st, i)
      BY <3>1 DEF SoundBut
    <3>4. Backing(r, i) = Backing(st, i)
      BY <1>1, <3>1, OthersBacked
    <3>. QED
      BY <3>2, <3>3, <3>4
  <2>. QED
    BY <2>1, <2>2
<1>6. Chained(r)
  BY <1>1, ChangesChains
<1>7. ASSUME NEW u \in Users
      PROVE  SharesReserved(r, u) /\ Explained(r, u)
  <2>1. OwnOrders(r, u) = OwnOrders(st, u)
    BY <1>1, <1>2, ChangesChains DEF OwnOrders
  <2>2. \A i \in OwnOrders(st, u) : i \in DOMAIN st.orders
                                    /\ st.orders[i].owner = u
    BY DEF OwnOrders
  <2>3. CASE \A i \in D : st.orders[i].owner # u
    <3>1. \A i \in OwnOrders(st, u) : i \in DOMAIN st.orders \ D
      BY <2>2, <2>3
    <3>2. SameFor(st, r, u)
      BY <1>2, <2>1, <2>3, <3>1 DEF SameFor, Changes
    <3>. QED
      BY <3>2, OthersUnaffected DEF SoundBut
  <2>4. ASSUME NEW i \in D, st.orders[i].owner = u
        PROVE  SharesReserved(r, u) /\ Explained(r, u)
    <3>1. i \in OwnOrders(st, u)
      BY <2>4 DEF OwnOrders, Changes
    <3>2. \A j \in OwnOrders(st, u) \ {i} : j \in DOMAIN st.orders \ D
      BY <2>2, <2>4 DEF Changes
    <3>3. OneOrderOf(st, r, u, i)
      BY <1>2, <2>1, <3>1, <3>2 DEF OneOrderOf, Changes
    <3>4. OwnerChange(st, r, i, u) /\ SharesReserved(st, u) /\ Explained(st, u)
      BY <2>4 DEF SoundBut
    <3>. QED
      BY <1>1, <3>3, <3>4, OneOrderShares, OneOrderExplained DEF OwnerChange
  <2>. QED
    BY <2>3, <2>4
<1>8. ASSUME NEW i \in DOMAIN r.orders
      PROVE  Protected(r.orders[i])
  <2>1. CASE i \in D
    BY <2>1 DEF OrderChange
  <2>2. CASE i \notin D
    BY <1>2, <2>2 DEF Changes, SoundBut
  <2>. QED
    BY <2>1, <2>2
<1>. QED
  BY <1>1, <1>3, <1>4, <1>5, <1>6, <1>7, <1>8 DEF Sound, SoundBut
----------------------------------------------------------------------------
\* What backs an order, field by field.
Holds(x, principal, fee, yes, no) ==
    /\ x \in Reservation
    /\ x.principal = principal /\ x.fee = fee /\ x.yes = yes /\ x.no = no

LEMMA HoldsSame ==
    ASSUME NEW x, NEW y, NEW p, NEW f, NEW a, NEW b,
           Holds(x, p, f, a, b), Holds(y, p, f, a, b)
    PROVE  x = y
BY DEF Holds, Reservation

Principal(st, i) == UserLimit(st.orders[i]) * st.orders[i].rem
FeeHeld(st, i) == FeeDelta(ChainExecuted(st, i), Principal(st, i), FeeBps)

LEMMA BackingIs ==
    ASSUME NEW st, NEW i
    PROVE  /\ ~IsLive(st.orders[i]) => Backing(st, i) = NoReservation
           /\ IsLive(st.orders[i]) =>
                /\ st.orders[i].action = "BUY" =>
                     Backing(st, i) = [NoReservation EXCEPT
                                         !.principal = Principal(st, i),
                                         !.fee = FeeHeld(st, i)]
                /\ st.orders[i].action = "SELL" /\ st.orders[i].outcome = "YES"
                     => Backing(st, i) = [NoReservation EXCEPT
                                            !.yes = st.orders[i].rem]
                /\ st.orders[i].action = "SELL" /\ st.orders[i].outcome = "NO"
                     => Backing(st, i) = [NoReservation EXCEPT
                                            !.no = st.orders[i].rem]
BY Zenon DEF Backing, FeeHeld, Principal, ReservedPrincipal

LEMMA BackingFields ==
    ASSUME NEW st, Typed(st), NEW i \in DOMAIN st.orders
    PROVE  /\ Principal(st, i) \in Nat /\ FeeHeld(st, i) \in Nat
           /\ ~IsLive(st.orders[i]) => Holds(Backing(st, i), 0, 0, 0, 0)
           /\ IsLive(st.orders[i]) =>
                /\ st.orders[i].action = "BUY" =>
                     Holds(Backing(st, i), Principal(st, i), FeeHeld(st, i), 0, 0)
                /\ st.orders[i].action = "SELL" /\ st.orders[i].outcome = "YES"
                     => Holds(Backing(st, i), 0, 0, st.orders[i].rem, 0)
                /\ st.orders[i].action = "SELL" /\ st.orders[i].outcome = "NO"
                     => Holds(Backing(st, i), 0, 0, 0, st.orders[i].rem)
<1>1. OrderRow(st.orders[i])
  BY DEF Typed
<1>2. /\ UserLimit(st.orders[i]) \in Nat /\ st.orders[i].rem \in Nat
      /\ st.orders[i].action \in {"BUY", "SELL"}
      /\ st.orders[i].outcome \in {"YES", "NO"}
  BY <1>1, UserLimitNat DEF OrderRow, Sides, Outcomes
<1>3. Principal(st, i) \in Nat
  BY <1>2 DEF Principal
<1>4. FeeHeld(st, i) \in Nat
  BY <1>3, ChainExecutedNat, FeeDeltaNat DEF FeeHeld
<1>. DEFINE x == Backing(st, i)
<1>5. CASE ~IsLive(st.orders[i])
  <2>1. x = NoReservation
    BY <1>5, BackingIs, Zenon
  <2>. HIDE DEF x
  <2>2. Holds(x, 0, 0, 0, 0)
    BY <2>1, NoReservationIs DEF Holds
  <2>. QED
    BY <1>3, <1>4, <1>5, <2>2 DEF x
<1>6. CASE IsLive(st.orders[i])
  <2>1. ASSUME st.orders[i].action = "BUY"
        PROVE  Holds(x, Principal(st, i), FeeHeld(st, i), 0, 0)
    <3>1. x = [NoReservation EXCEPT !.principal = Principal(st, i),
                                    !.fee = FeeHeld(st, i)]
      BY <1>6, <2>1, BackingIs, Zenon
    <3>. HIDE DEF x
    <3>. QED
      BY <1>3, <1>4, <3>1, NoReservationIs DEF Holds, Reservation
  <2>2. ASSUME st.orders[i].action = "SELL", st.orders[i].outcome = "YES"
        PROVE  Holds(x, 0, 0, st.orders[i].rem, 0)
    <3>1. x = [NoReservation EXCEPT !.yes = st.orders[i].rem]
      BY <1>6, <2>2, BackingIs, Zenon
    <3>. HIDE DEF x
    <3>. QED
      BY <1>2, <3>1, NoReservationIs DEF Holds, Reservation
  <2>3. ASSUME st.orders[i].action = "SELL", st.orders[i].outcome = "NO"
        PROVE  Holds(x, 0, 0, 0, st.orders[i].rem)
    <3>1. x = [NoReservation EXCEPT !.no = st.orders[i].rem]
      BY <1>6, <2>3, BackingIs, Zenon
    <3>. HIDE DEF x
    <3>. QED
      BY <1>2, <3>1, NoReservationIs DEF Holds, Reservation
  <2>. HIDE DEF x
  <2>. QED
    BY <1>3, <1>4, <1>6, <2>1, <2>2, <2>3 DEF x
<1>. QED
  BY <1>5, <1>6

LEMMA BackingReservation ==
    ASSUME NEW st, Typed(st), NEW i \in DOMAIN st.orders
    PROVE  Backing(st, i) \in Reservation
<1>1. /\ st.orders[i].action = "BUY" \/ st.orders[i].action = "SELL"
      /\ st.orders[i].outcome = "YES" \/ st.orders[i].outcome = "NO"
  BY DEF Typed, OrderRow, Sides, Outcomes
<1>2. \E p, f, a, b : Holds(Backing(st, i), p, f, a, b)
  BY <1>1, BackingFields
<1>. QED
  BY <1>2 DEF Holds

\* The contracts a live order holds are among those its owner's position has
\* reserved.
LEMMA HeldByOwner ==
    ASSUME NEW st, Typed(st), NEW i \in DOMAIN st.orders,
           SharesReserved(st, st.orders[i].owner)
    PROVE  /\ st.resv[i].yes <= st.pos[st.orders[i].owner].rYes
           /\ st.resv[i].no <= st.pos[st.orders[i].owner].rNo
<1>. DEFINE u == st.orders[i].owner
            S == OwnOrders(st, u)
<1>1. i \in S
  BY DEF OwnOrders
<1>2. IsFiniteSet(S)
  BY OwnFinite
<1>3. YesHeld(st, u) \in [S -> Nat] /\ NoHeld(st, u) \in [S -> Nat]
  BY UserTerms
<1>4. YesHeld(st, u)[i] = st.resv[i].yes /\ NoHeld(st, u)[i] = st.resv[i].no
  BY <1>1 DEF YesHeld, NoHeld
<1>. HIDE DEF S, u
<1>5. /\ YesHeld(st, u)[i] <= SumFunction(YesHeld(st, u))
      /\ NoHeld(st, u)[i] <= SumFunction(NoHeld(st, u))
  BY <1>1, <1>2, <1>3, SumHasTerm
<1>6. /\ st.pos[u].rYes = SumFunction(YesHeld(st, u))
      /\ st.pos[u].rNo = SumFunction(NoHeld(st, u))
  BY SharesAre DEF u
<1>. QED
  BY <1>4, <1>5, <1>6 DEF u

\* A row keeps the fields a step does not change.
OrderKept(o, e, changed) ==
    DOMAIN e = OrderFields /\ \A f \in OrderFields \ changed : e[f] = o[f]

Replaces(s, t, i, x) == t = [s EXCEPT ![i] = x]

LEMMA RowsExcept ==
    ASSUME NEW s, NEW n \in Nat, IsRows(s, n), NEW i \in 1 .. n, NEW x, NEW t,
           Replaces(s, t, i, x)
    PROVE  /\ IsRows(t, n)
           /\ t[i] = x
           /\ \A j \in (1 .. n) \ {i} : t[j] = s[j]
<1>1. PICK S : s \in Seq(S)
  BY DEF IsRows
<1>2. DOMAIN s = 1 .. n
  BY <1>1 DEF IsRows
<1>3. t \in Seq(S \union {x}) /\ Len(t) = n
  BY <1>1, <1>2 DEF IsRows, Replaces
<1>. QED
  BY <1>2, <1>3 DEF IsRows, Replaces
----------------------------------------------------------------------------
\* Releasing and cancelling a live order.
LEMMA CanceledRow ==
    ASSUME NEW o, OrderRow(o)
    PROVE  /\ OrderRow(CanceledOrder(o)) /\ ~IsLive(CanceledOrder(o))
           /\ OrderKept(o, CanceledOrder(o), {"canceled", "rem", "status"})
           /\ Protected(o) => Protected(CanceledOrder(o))
           /\ Proceeds(CanceledOrder(o)) = Proceeds(o)
           /\ Bought(CanceledOrder(o), "YES") = Bought(o, "YES")
           /\ Bought(CanceledOrder(o), "NO") = Bought(o, "NO")
<1>. DEFINE e == CanceledOrder(o)
<1>1. /\ OrderKept(o, e, {"canceled", "rem", "status"})
      /\ e.canceled = o.canceled + o.rem /\ e.rem = 0
      /\ e.status = "CANCELED"
  BY DEF CanceledOrder, OrderRow, OrderKept, OrderFields
<1>. HIDE DEF e
<1>2. /\ e.owner = o.owner /\ e.outcome = o.outcome /\ e.action = o.action
      /\ e.side = o.side /\ e.price = o.price /\ e.filled = o.filled
      /\ e.notional = o.notional /\ e.fee = o.fee /\ e.chain = o.chain
  BY <1>1 DEF OrderKept, OrderFields
<1>3. OrderRow(e)
  BY <1>1, <1>2 DEF OrderRow, OrderKept
<1>4. ~IsLive(e)
  BY <1>1 DEF IsLive, ActiveStatus
<1>5. Protected(o) => Protected(e)
  BY <1>2 DEF Protected, UserLimit
<1>6. /\ Proceeds(e) = Proceeds(o) /\ Bought(e, "YES") = Bought(o, "YES")
      /\ Bought(e, "NO") = Bought(o, "NO")
  BY <1>2 DEF Proceeds, PartyPosting, Bought
<1>. QED
  BY <1>1, <1>3, <1>4, <1>5, <1>6 DEF e
\* The rows of an order that holds nothing any more.
CancelRows(st, r, i, u) ==
    /\ DOMAIN r = Fields
    /\ IsRows(r.orders, Len(st.orders)) /\ IsRows(r.resv, Len(st.orders))
    /\ r.orders[i] = CanceledOrder(st.orders[i]) /\ Holds(r.resv[i], 0, 0, 0, 0)
    /\ \A j \in DOMAIN st.orders \ {i} : /\ r.orders[j] = st.orders[j]
                                         /\ r.resv[j] = st.resv[j]
    /\ r.balance \in [Users -> Nat] /\ r.pos \in [Users -> Position]
    /\ r.acct \in [Accounts -> Nat] /\ r.supply = st.supply
    /\ r.balance[u] = st.balance[u] + st.resv[i].principal + st.resv[i].fee
    /\ r.acct[Wallet(u)] = r.balance[u] /\ r.acct[Escrow(i)] = 0
    /\ \A a \in Accounts \ {Wallet(u), Escrow(i)} : r.acct[a] = st.acct[a]
    /\ \A v \in Users \ {u} : /\ r.balance[v] = st.balance[v]
                              /\ r.pos[v] = st.pos[v]
    /\ r.pos[u].yes = st.pos[u].yes /\ r.pos[u].no = st.pos[u].no
    /\ r.pos[u].rYes = st.pos[u].rYes - st.resv[i].yes
    /\ r.pos[u].rNo = st.pos[u].rNo - st.resv[i].no

LEMMA CancelOwner ==
    ASSUME NEW st, NEW i \in DOMAIN st.orders, NEW r,
           Sound(st), CancelRows(st, r, i, st.orders[i].owner)
    PROVE  OwnerChange(st, r, i, st.orders[i].owner)
<1>. DEFINE u == st.orders[i].owner
<1>1. /\ Typed(st) /\ OrderRow(st.orders[i]) /\ u \in Users
      /\ Escrow(i) \in Accounts
  BY RowsDomain, AccountNames DEF Sound, SoundBut, Typed, OrderRow
<1>2. /\ r.orders[i] = CanceledOrder(st.orders[i]) /\ Holds(r.resv[i], 0, 0, 0, 0)
      /\ r.balance[u] \in Nat /\ r.pos[u] \in Position
      /\ r.balance[u] = st.balance[u] + st.resv[i].principal + st.resv[i].fee
      /\ r.acct[Wallet(u)] = r.balance[u] /\ r.acct[Escrow(i)] = 0
      /\ r.pos[u].yes = st.pos[u].yes /\ r.pos[u].no = st.pos[u].no
      /\ r.pos[u].rYes = st.pos[u].rYes - st.resv[i].yes
      /\ r.pos[u].rNo = st.pos[u].rNo - st.resv[i].no
  BY <1>1 DEF CancelRows
<1>3. /\ Proceeds(r.orders[i]) = Proceeds(st.orders[i])
      /\ Bought(r.orders[i], "YES") = Bought(st.orders[i], "YES")
      /\ Bought(r.orders[i], "NO") = Bought(st.orders[i], "NO")
      /\ Proceeds(st.orders[i]) \in Int
      /\ Bought(st.orders[i], "YES") \in Int /\ Bought(st.orders[i], "NO") \in Int
  BY <1>1, <1>2, CanceledRow, OrderNumbers
<1>4. /\ st.balance[u] \in Nat /\ st.pos[u] \in Position
      /\ st.resv[i] \in Reservation /\ st.acct[Escrow(i)] \in Nat
      /\ st.acct[Escrow(i)] = st.resv[i].principal + st.resv[i].fee
      /\ SharesReserved(st, u)
  BY <1>1 DEF Sound, SoundBut, Typed, Custody
<1>5. /\ st.pos[u].yes \in Nat /\ st.pos[u].no \in Nat
      /\ st.pos[u].rYes \in Nat /\ st.pos[u].rNo \in Nat
      /\ st.resv[i].yes \in Nat /\ st.resv[i].no \in Nat
      /\ st.resv[i].principal \in Nat /\ st.resv[i].fee \in Nat
      /\ r.resv[i].yes = 0 /\ r.resv[i].no = 0
  BY <1>2, <1>4 DEF Position, Reservation, Holds
<1>6. st.pos[u].rYes <= st.pos[u].yes /\ st.pos[u].rNo <= st.pos[u].no
  BY <1>4, SharesAre
<1>. HIDE DEF u
<1>7. /\ r.pos[u].rYes - st.pos[u].rYes = r.resv[i].yes - st.resv[i].yes
      /\ r.pos[u].rNo - st.pos[u].rNo = r.resv[i].no - st.resv[i].no
      /\ r.pos[u].rYes <= r.pos[u].yes /\ r.pos[u].rNo <= r.pos[u].no
  BY <1>2, <1>5, <1>6
<1>8. /\ r.pos[u].yes - st.pos[u].yes
           = Bought(r.orders[i], "YES") - Bought(st.orders[i], "YES")
      /\ r.pos[u].no - st.pos[u].no
           = Bought(r.orders[i], "NO") - Bought(st.orders[i], "NO")
  BY <1>2, <1>3, <1>5
<1>9. r.balance[u] + r.acct[Escrow(i)] - st.balance[u] - st.acct[Escrow(i)]
        = Proceeds(r.orders[i]) - Proceeds(st.orders[i])
  BY <1>2, <1>3, <1>4, <1>5
<1>10. OwnerChange(st, r, i, u)
  BY <1>2, <1>7, <1>8, <1>9 DEF OwnerChange
<1>. QED
  BY <1>10 DEF u

LEMMA CancelSound ==
    ASSUME NEW st, Sound(st), NEW i \in DOMAIN st.orders, IsLive(st.orders[i]),
           NEW r, CancelRows(st, r, i, st.orders[i].owner)
    PROVE  Sound(r)
<1>. DEFINE u == st.orders[i].owner
<1>1. /\ Typed(st) /\ OrderRow(st.orders[i]) /\ Protected(st.orders[i])
      /\ u \in Users /\ i \in 1 .. MaxOrders
  BY RowsDomain DEF Sound, SoundBut, Typed, OrderRow
<1>2. r.orders[i] = CanceledOrder(st.orders[i]) /\ Holds(r.resv[i], 0, 0, 0, 0)
      /\ r.acct[Escrow(i)] = 0
  BY DEF CancelRows
<1>3. /\ OrderRow(r.orders[i]) /\ ~IsLive(r.orders[i])
      /\ Protected(r.orders[i])
      /\ r.orders[i].owner = u /\ r.orders[i].chain = st.orders[i].chain
  BY <1>1, <1>2, CanceledRow DEF OrderKept, OrderFields
<1>4. r.resv[i] = Backing(r, i)
  <2>1. Backing(r, i) = NoReservation
    BY <1>3, BackingIs, Zenon
  <2>2. Holds(NoReservation, 0, 0, 0, 0)
    BY NoReservationIs DEF Holds
  <2>. QED
    BY <1>2, <2>1, <2>2, HoldsSame
<1>5. OrderChange(st, r, i)
  BY <1>2, <1>3, <1>4 DEF OrderChange, Holds
<1>6. OwnerChange(st, r, i, u)
  BY CancelOwner
<1>7. Changes(st, r, {i})
  <2>1. \A j \in (1 .. MaxOrders) \ {i} :
           Escrow(j) \in Accounts \ {Wallet(u), Escrow(i)}
    BY AccountNames
  <2>2. \A v \in Users \ {u} : Wallet(v) \in Accounts \ {Wallet(u), Escrow(i)}
    BY AccountNames
  <2>. QED
    BY <1>1, <2>1, <2>2, Zenon DEF Changes, CancelRows
<1>8. SoundBut(st, {i})
  BY DEF Sound, SoundBut
<1>9. SupplyCollateralized(r) /\ r.supply.yes \in Nat /\ r.supply.no \in Nat
  <2>1. SupplyCollateralized(st) /\ st.supply.yes \in Nat /\ st.supply.no \in Nat
    BY <1>1 DEF Sound, SoundBut, Typed
  <2>2. \A v \in Users : r.pos[v].yes = st.pos[v].yes /\ r.pos[v].no = st.pos[v].no
    BY DEF CancelRows
  <2>3. r.acct[Collateral] = st.acct[Collateral] /\ r.supply = st.supply
    BY AccountNames DEF CancelRows
  <2>. QED
    BY <2>1, <2>2, <2>3 DEF SupplyCollateralized
<1>. QED
  BY <1>5, <1>6, <1>7, <1>8, <1>9, ChangesSound

\* What cancelling leaves alone.
SameEvents(st, r) ==
    /\ r.fault = st.fault /\ r.offsets = st.offsets
    /\ r.eventIndex = st.eventIndex

\* The rows once the reservation is released, before the order is terminal.
ReleaseRows(st, r, i, u) ==
    /\ Keeps(st, r, {"balance", "acct", "resv", "pos"})
    /\ IsRows(r.resv, Len(st.orders)) /\ Holds(r.resv[i], 0, 0, 0, 0)
    /\ \A j \in DOMAIN st.orders \ {i} : r.resv[j] = st.resv[j]
    /\ r.balance \in [Users -> Nat] /\ r.pos \in [Users -> Position]
    /\ r.acct \in [Accounts -> Nat]
    /\ r.balance[u] = st.balance[u] + st.resv[i].principal + st.resv[i].fee
    /\ r.acct[Wallet(u)] = r.balance[u] /\ r.acct[Escrow(i)] = 0
    /\ \A a \in Accounts \ {Wallet(u), Escrow(i)} : r.acct[a] = st.acct[a]
    /\ \A v \in Users \ {u} : /\ r.balance[v] = st.balance[v]
                              /\ r.pos[v] = st.pos[v]
    /\ r.pos[u].yes = st.pos[u].yes /\ r.pos[u].no = st.pos[u].no
    /\ r.pos[u].rYes = st.pos[u].rYes - st.resv[i].yes
    /\ r.pos[u].rNo = st.pos[u].rNo - st.resv[i].no

\* What is known of the rows of a live order and of its owner.
OwnerRows(st, i, u) ==
    /\ u \in Users /\ i \in 1 .. MaxOrders /\ i \in 1 .. Len(st.orders)
    /\ DOMAIN st = Fields /\ Len(st.orders) \in Nat
    /\ st.balance \in [Users -> Nat] /\ st.acct \in [Accounts -> Nat]
    /\ st.pos \in [Users -> Position]
    /\ IsRows(st.orders, Len(st.orders)) /\ IsRows(st.resv, Len(st.orders))
    /\ st.acct[Wallet(u)] = st.balance[u]
    /\ st.acct[Escrow(i)] = st.resv[i].principal + st.resv[i].fee
    /\ st.resv[i] \in Reservation
    /\ st.resv[i].yes <= st.pos[u].rYes /\ st.resv[i].no <= st.pos[u].rNo
    /\ st.pos[u].rYes <= st.pos[u].yes /\ st.pos[u].rNo <= st.pos[u].no

LEMMA OwnersRows ==
    ASSUME NEW st, Sound(st), NEW i \in DOMAIN st.orders
    PROVE  /\ OwnerRows(st, i, st.orders[i].owner)
           /\ DOMAIN st.orders = 1 .. Len(st.orders)
<1>. DEFINE u == st.orders[i].owner
<1>1. Typed(st) /\ OrderRow(st.orders[i]) /\ Custody(st)
  BY DEF Sound, SoundBut, Typed
<1>2. u \in Users
  BY <1>1 DEF OrderRow
<1>3. SharesReserved(st, u)
  BY <1>2 DEF Sound, SoundBut
<1>4. /\ st.resv[i].yes <= st.pos[u].rYes /\ st.resv[i].no <= st.pos[u].rNo
      /\ st.pos[u].rYes <= st.pos[u].yes /\ st.pos[u].rNo <= st.pos[u].no
  BY <1>1, <1>3, HeldByOwner, SharesAre
<1>5. /\ Len(st.orders) \in Nat /\ DOMAIN st.orders = 1 .. Len(st.orders)
      /\ i \in 1 .. MaxOrders
  BY <1>1, RowsDomain
<1>. QED
  BY <1>1, <1>2, <1>4, <1>5 DEF OwnerRows, Typed, Custody

LEMMA ReleaseCash ==
    ASSUME NEW st, NEW i, NEW u, OwnerRows(st, i, u),
           u = st.orders[i].owner,
           st.resv[i].principal + st.resv[i].fee > 0,
           st.resv[i].yes = 0, st.resv[i].no = 0
    PROVE  ReleaseRows(st, ReleaseReservation(st, i), i, u)
<1>. DEFINE cash == st.resv[i].principal + st.resv[i].fee
            back == -cash
            m == MoveCash(st, u, i, back)
            x == [st.resv[i] EXCEPT !.principal = 0, !.fee = 0]
            r == ReleaseReservation(st, i)
<1>1. /\ cash \in Nat /\ cash > 0 /\ back \in Int /\ back # 0
      /\ back + cash = 0 /\ st.balance[u] - back >= 0
      /\ st.acct[Escrow(i)] + back >= 0 /\ ~(back > 0)
  <2>1. /\ cash \in Nat /\ cash > 0 /\ st.acct[Escrow(i)] = cash
        /\ st.balance[u] \in Nat
    BY DEF OwnerRows, Reservation
  <2>. HIDE DEF cash
  <2>. QED
    BY <2>1
<1>2. r = [m EXCEPT !.resv[i] = [@ EXCEPT !.principal = 0, !.fee = 0]]
  BY <1>1 DEF ReleaseReservation
<1>3. Holds(x, 0, 0, 0, 0)
  BY DEF OwnerRows, Reservation, Holds
<1>. HIDE DEF cash, back
<1>4. Moved(st, m, u, i, back) /\ m.balance \in [Users -> Nat]
  BY <1>1, MoveCashWorks DEF OwnerRows
<1>. HIDE DEF m, x, r
<1>5. m.resv = st.resv /\ DOMAIN m = Fields
  BY <1>4 DEF Moved, Keeps, Fields
<1>6. Keeps(m, r, {"resv"}) /\ r.resv = [st.resv EXCEPT ![i] = x]
  BY <1>2, <1>5 DEF Keeps, Fields, x
<1>7. /\ IsRows(r.resv, Len(st.orders)) /\ r.resv[i] = x
      /\ \A j \in (1 .. Len(st.orders)) \ {i} : r.resv[j] = st.resv[j]
  <2>1. /\ IsRows(st.resv, Len(st.orders)) /\ Len(st.orders) \in Nat
        /\ i \in 1 .. Len(st.orders)
    BY DEF OwnerRows
  <2>2. Replaces(st.resv, r.resv, i, x)
    BY <1>6 DEF Replaces
  <2>. QED
    BY <2>1, <2>2, RowsExcept
<1>8. /\ Keeps(st, r, {"balance", "acct", "resv", "pos"})
      /\ r.balance = m.balance /\ r.acct = m.acct /\ r.pos = st.pos
  BY <1>4, <1>6 DEF Moved, Keeps, Fields
<1>9. /\ r.balance[u] = st.balance[u] + st.resv[i].principal + st.resv[i].fee
      /\ r.acct[Wallet(u)] = r.balance[u] /\ r.acct[Escrow(i)] = 0
  <2>1. /\ st.balance[u] \in Nat /\ st.resv[i].principal \in Nat
        /\ st.resv[i].fee \in Nat
    BY DEF OwnerRows, Reservation
  <2>2. /\ r.balance[u] = st.balance[u] - back
        /\ r.acct[Wallet(u)] = st.balance[u] - back
        /\ r.acct[Escrow(i)] = cash + back
    BY <1>4, <1>8 DEF Moved, OwnerRows, cash
  <2>. QED
    BY <1>1, <2>1, <2>2 DEF cash
<1>10. /\ \A v \in Users \ {u} : r.balance[v] = st.balance[v]
       /\ \A a \in Accounts \ {Wallet(u), Escrow(i)} : r.acct[a] = st.acct[a]
       /\ r.acct \in [Accounts -> Nat]
  <2>1. /\ m.balance = [st.balance EXCEPT ![u] = @ - back]
        /\ m.acct \in [Accounts -> Nat]
        /\ \A a \in Accounts \ {Wallet(u), Escrow(i)} : m.acct[a] = st.acct[a]
    BY <1>4 DEF Moved
  <2>2. st.balance \in [Users -> Nat]
    BY DEF OwnerRows
  <2>3. \A v \in Users \ {u} : m.balance[v] = st.balance[v]
    BY <2>1, <2>2
  <2>. QED
    BY <1>8, <2>1, <2>3
<1>11. DOMAIN st.orders = 1 .. Len(st.orders)
  BY DEF OwnerRows, IsRows
<1>12. /\ st.pos \in [Users -> Position] /\ st.pos[u].rYes \in Nat
       /\ st.pos[u].rNo \in Nat
  BY DEF OwnerRows, Position
<1>13. /\ IsRows(r.resv, Len(st.orders)) /\ Holds(r.resv[i], 0, 0, 0, 0)
       /\ \A j \in DOMAIN st.orders \ {i} : r.resv[j] = st.resv[j]
  BY <1>3, <1>7, <1>11
<1>14. /\ r.balance \in [Users -> Nat] /\ r.pos \in [Users -> Position]
       /\ \A v \in Users \ {u} : /\ r.balance[v] = st.balance[v]
                                 /\ r.pos[v] = st.pos[v]
  BY <1>4, <1>8, <1>10, <1>12
<1>15. /\ r.pos[u].yes = st.pos[u].yes /\ r.pos[u].no = st.pos[u].no
       /\ r.pos[u].rYes = st.pos[u].rYes - st.resv[i].yes
       /\ r.pos[u].rNo = st.pos[u].rNo - st.resv[i].no
  BY <1>8, <1>12
<1>16. ReleaseRows(st, r, i, u)
  BY <1>8, <1>9, <1>10, <1>13, <1>14, <1>15, Zenon DEF ReleaseRows
<1>. QED
  BY <1>16 DEF r

LEMMA SharesReleased ==
    ASSUME NEW p \in Position, NEW x, x.yes \in Nat, x.no \in Nat,
           x.yes <= p.rYes, x.no <= p.rNo
    PROVE  /\ Freed(p, x) \in Position
           /\ Freed(p, x).yes = p.yes /\ Freed(p, x).no = p.no
           /\ Freed(p, x).rYes = p.rYes - x.yes
           /\ Freed(p, x).rNo = p.rNo - x.no
<1>. DEFINE c == p.rYes - x.yes
            d == p.rNo - x.no
            r == Freed(p, x)
<1>1. c \in Nat /\ d \in Nat
  BY DEF Position
<1>2. r = [p EXCEPT !.rYes = c, !.rNo = d]
  BY DEF Freed
<1>. HIDE DEF c, d, r
<1>3. /\ r \in Position /\ r.yes = p.yes /\ r.no = p.no
      /\ r.rYes = c /\ r.rNo = d
  BY <1>1, <1>2 DEF Position
<1>. QED
  BY <1>3 DEF c, d, r

LEMMA ReleaseShares ==
    ASSUME NEW st, NEW i, NEW u, OwnerRows(st, i, u),
           u = st.orders[i].owner,
           st.resv[i].principal = 0, st.resv[i].fee = 0
    PROVE  ReleaseRows(st, ReleaseReservation(st, i), i, u)
<1>. DEFINE x == st.resv[i]
            p == Freed(st.pos[u], x)
            r == ReleaseReservation(st, i)
<1>1. /\ ~(x.principal + x.fee > 0)
      /\ st.pos[u].rYes >= x.yes /\ st.pos[u].rNo >= x.no
  BY DEF OwnerRows, Reservation, Position
<1>2. r = [st EXCEPT !.pos[u] = Freed(@, x), !.resv[i] = NoReservation]
  BY <1>1 DEF ReleaseReservation, Check
<1>3. /\ p \in Position /\ p.yes = st.pos[u].yes /\ p.no = st.pos[u].no
      /\ p.rYes = st.pos[u].rYes - x.yes /\ p.rNo = st.pos[u].rNo - x.no
  <2>1. st.pos[u] \in Position /\ x \in Reservation
    BY DEF OwnerRows
  <2>2. x.yes \in Nat /\ x.no \in Nat
    BY <2>1 DEF Reservation
  <2>. QED
    <3>. HIDE DEF x
    <3>. QED
      BY <1>1, <2>1, <2>2, SharesReleased
<1>4. /\ Keeps(st, r, {"resv", "pos"})
      /\ r.pos = [st.pos EXCEPT ![u] = p]
      /\ r.resv = [st.resv EXCEPT ![i] = NoReservation]
  <2>. HIDE DEF r, x
  <2>1. DOMAIN st = Fields
    BY DEF OwnerRows
  <2>. QED
    BY <1>2, <2>1 DEF Keeps, Fields
<1>. HIDE DEF p, r
<1>5. /\ IsRows(r.resv, Len(st.orders)) /\ r.resv[i] = NoReservation
      /\ \A j \in (1 .. Len(st.orders)) \ {i} : r.resv[j] = st.resv[j]
  <2>1. /\ IsRows(st.resv, Len(st.orders)) /\ Len(st.orders) \in Nat
        /\ i \in 1 .. Len(st.orders)
    BY DEF OwnerRows
  <2>2. Replaces(st.resv, r.resv, i, NoReservation)
    BY <1>4 DEF Replaces
  <2>. QED
    BY <2>1, <2>2, RowsExcept
<1>6. Holds(r.resv[i], 0, 0, 0, 0)
  BY <1>5, NoReservationIs DEF Holds
<1>7. /\ Keeps(st, r, {"balance", "acct", "resv", "pos"})
      /\ r.balance = st.balance /\ r.acct = st.acct
  BY <1>4 DEF Keeps, Fields
<1>8. DOMAIN st.orders = 1 .. Len(st.orders)
  BY DEF OwnerRows, IsRows
<1>9. /\ r.balance \in [Users -> Nat] /\ r.acct \in [Accounts -> Nat]
      /\ st.balance[u] \in Nat /\ st.acct[Wallet(u)] = st.balance[u]
      /\ st.acct[Escrow(i)] = 0
  BY <1>7 DEF OwnerRows
<1>10. /\ r.pos \in [Users -> Position]
       /\ \A v \in Users \ {u} : r.pos[v] = st.pos[v]
       /\ r.pos[u] = p
  BY <1>3, <1>4 DEF OwnerRows
<1>11. /\ \A j \in DOMAIN st.orders \ {i} : r.resv[j] = st.resv[j]
       /\ \A v \in Users \ {u} : /\ r.balance[v] = st.balance[v]
                                 /\ r.pos[v] = st.pos[v]
       /\ \A a \in Accounts \ {Wallet(u), Escrow(i)} : r.acct[a] = st.acct[a]
  BY <1>5, <1>7, <1>8, <1>10
<1>12. /\ r.balance[u] = st.balance[u] + st.resv[i].principal + st.resv[i].fee
       /\ r.acct[Wallet(u)] = r.balance[u] /\ r.acct[Escrow(i)] = 0
  BY <1>7, <1>9
<1>13. /\ r.pos[u].yes = st.pos[u].yes /\ r.pos[u].no = st.pos[u].no
       /\ r.pos[u].rYes = st.pos[u].rYes - st.resv[i].yes
       /\ r.pos[u].rNo = st.pos[u].rNo - st.resv[i].no
  BY <1>3, <1>10
<1>14. ReleaseRows(st, r, i, u)
  BY <1>5, <1>6, <1>7, <1>9, <1>10, <1>11, <1>12, <1>13 DEF ReleaseRows
<1>. QED
  BY <1>14 DEF r

LEMMA CancelWorks ==
    ASSUME NEW st, Sound(st), NEW i \in DOMAIN st.orders, IsLive(st.orders[i])
    PROVE  /\ CancelRows(st, CancelRemainder(st, i), i, st.orders[i].owner)
           /\ SameEvents(st, CancelRemainder(st, i))
<1>. DEFINE u == st.orders[i].owner
            s == ReleaseReservation(st, i)
            r == CancelRemainder(st, i)
<1>1. OwnerRows(st, i, u) /\ DOMAIN st.orders = 1 .. Len(st.orders)
  BY OwnersRows
<1>2. ReleaseRows(st, s, i, u)
  <2>1. /\ Typed(st) /\ OrderRow(st.orders[i]) /\ st.resv[i] = Backing(st, i)
    BY DEF Sound, SoundBut, Typed
  <2>2. CASE st.orders[i].action = "BUY"
    <3>1. Holds(st.resv[i], Principal(st, i), FeeHeld(st, i), 0, 0)
          /\ Principal(st, i) \in Nat /\ FeeHeld(st, i) \in Nat
      BY <2>1, <2>2, BackingFields
    <3>2. Principal(st, i) > 0
      <4>1. st.orders[i].rem > 0 /\ st.orders[i].rem \in Nat
        BY <2>1, LiveIs DEF OrderRow
      <4>. QED
        BY <2>1, <4>1, UserLimitNat DEF Principal
    <3>. QED
      BY <1>1, <3>1, <3>2, ReleaseCash DEF Holds
  <2>3. CASE st.orders[i].action = "SELL"
    <3>1. st.resv[i].principal = 0 /\ st.resv[i].fee = 0
      BY <2>1, <2>3, BackingFields DEF Holds, OrderRow, Outcomes
    <3>. QED
      BY <1>1, <3>1, ReleaseShares
  <2>. QED
    BY <2>1, <2>2, <2>3 DEF OrderRow, Sides
<1>3. /\ DOMAIN s = Fields /\ s.orders = st.orders /\ s.supply = st.supply
      /\ s.fault = st.fault /\ s.offsets = st.offsets
      /\ s.eventIndex = st.eventIndex
  BY <1>2 DEF ReleaseRows, Keeps, Fields
<1>4. r = [s EXCEPT !.orders[i] = CanceledOrder(@)]
  BY DEF CancelRemainder
<1>. DEFINE x == CanceledOrder(st.orders[i])
<1>. HIDE DEF s, r
<1>5. Keeps(s, r, {"orders"}) /\ r.orders = [st.orders EXCEPT ![i] = x]
  BY <1>3, <1>4 DEF Keeps, Fields
<1>. HIDE DEF x
<1>6. /\ IsRows(r.orders, Len(st.orders)) /\ r.orders[i] = x
      /\ \A j \in (1 .. Len(st.orders)) \ {i} : r.orders[j] = st.orders[j]
  <2>1. /\ IsRows(st.orders, Len(st.orders)) /\ Len(st.orders) \in Nat
        /\ i \in 1 .. Len(st.orders)
    BY <1>1 DEF OwnerRows
  <2>2. Replaces(st.orders, r.orders, i, x)
    BY <1>5 DEF Replaces
  <2>. QED
    BY <2>1, <2>2, RowsExcept
<1>7. /\ DOMAIN r = Fields /\ r.resv = s.resv /\ r.balance = s.balance
      /\ r.pos = s.pos /\ r.acct = s.acct /\ r.supply = st.supply
      /\ SameEvents(st, r)
  BY <1>3, <1>5 DEF Keeps, Fields, SameEvents
<1>8. CancelRows(st, r, i, u)
  BY ZenonT(30), <1>1, <1>2, <1>6, <1>7 DEF CancelRows, ReleaseRows, x
<1>. QED
  BY <1>7, <1>8 DEF r

LEMMA CancelStep ==
    ASSUME NEW st, Sound(st), NEW i \in DOMAIN st.orders, IsLive(st.orders[i]),
           NEW r, r = CancelRemainder(st, i)
    PROVE  /\ Sound(r) /\ SameEvents(st, r)
           /\ DOMAIN r.orders = DOMAIN st.orders
           /\ r.orders[i] = CanceledOrder(st.orders[i])
           /\ ~IsLive(r.orders[i])
           /\ \A j \in DOMAIN st.orders \ {i} : r.orders[j] = st.orders[j]
<1>1. CancelRows(st, r, i, st.orders[i].owner) /\ SameEvents(st, r)
  BY CancelWorks
<1>2. Sound(r)
  BY <1>1, CancelSound
<1>3. /\ r.orders[i] = CanceledOrder(st.orders[i])
      /\ \A j \in DOMAIN st.orders \ {i} : r.orders[j] = st.orders[j]
      /\ IsRows(r.orders, Len(st.orders))
  BY <1>1 DEF CancelRows
<1>4. Typed(st) /\ OrderRow(st.orders[i])
  BY DEF Sound, SoundBut, Typed
<1>5. DOMAIN r.orders = DOMAIN st.orders
  BY <1>3, <1>4, RowsDomain DEF IsRows
<1>. QED
  BY <1>1, <1>2, <1>3, <1>4, <1>5, CanceledRow
----------------------------------------------------------------------------
\* Backing an order that was just placed.
ReserveRows(st, r, i, u) ==
    /\ Keeps(st, r, {"balance", "acct", "resv", "pos"})
    /\ IsRows(r.resv, Len(st.orders)) /\ r.resv[i] = Backing(st, i)
    /\ \A j \in DOMAIN st.orders \ {i} : r.resv[j] = st.resv[j]
    /\ r.balance \in [Users -> Nat] /\ r.pos \in [Users -> Position]
    /\ r.acct \in [Accounts -> Nat]
    /\ r.balance[u] + r.resv[i].principal + r.resv[i].fee = st.balance[u]
    /\ r.acct[Wallet(u)] = r.balance[u]
    /\ r.acct[Escrow(i)] = r.resv[i].principal + r.resv[i].fee
    /\ \A a \in Accounts \ {Wallet(u), Escrow(i)} : r.acct[a] = st.acct[a]
    /\ \A v \in Users \ {u} : /\ r.balance[v] = st.balance[v]
                              /\ r.pos[v] = st.pos[v]
    /\ r.pos[u].yes = st.pos[u].yes /\ r.pos[u].no = st.pos[u].no
    /\ r.pos[u].rYes = st.pos[u].rYes + r.resv[i].yes
    /\ r.pos[u].rNo = st.pos[u].rNo + r.resv[i].no
    /\ r.pos[u].rYes <= r.pos[u].yes /\ r.pos[u].rNo <= r.pos[u].no

\* An order as it was placed: live, and nothing backs it yet.
Placed(st, i) ==
    /\ SoundBut(st, {i}) /\ i \in DOMAIN st.orders /\ IsLive(st.orders[i])
    /\ Holds(st.resv[i], 0, 0, 0, 0)

LEMMA PlacedRows ==
    ASSUME NEW st, NEW i, Placed(st, i)
    PROVE  /\ OwnerRows(st, i, st.orders[i].owner)
           /\ Typed(st) /\ OrderRow(st.orders[i])
           /\ DOMAIN st.orders = 1 .. Len(st.orders)
<1>. DEFINE u == st.orders[i].owner
<1>1. /\ Typed(st) /\ OrderRow(st.orders[i]) /\ Custody(st)
      /\ i \in DOMAIN st.orders
  BY DEF Placed, SoundBut, Typed
<1>2. u \in Users
  BY <1>1 DEF OrderRow
<1>3. SharesReserved(st, u)
  BY <1>2 DEF Placed, SoundBut
<1>4. /\ st.resv[i].yes <= st.pos[u].rYes /\ st.resv[i].no <= st.pos[u].rNo
      /\ st.pos[u].rYes <= st.pos[u].yes /\ st.pos[u].rNo <= st.pos[u].no
  BY <1>1, <1>3, HeldByOwner, SharesAre
<1>5. /\ Len(st.orders) \in Nat /\ DOMAIN st.orders = 1 .. Len(st.orders)
      /\ i \in 1 .. MaxOrders
  BY <1>1, RowsDomain
<1>. QED
  BY <1>1, <1>2, <1>4, <1>5 DEF OwnerRows, Typed, Custody

LEMMA ReserveOwner ==
    ASSUME NEW st, NEW i, Placed(st, i), NEW r,
           ReserveRows(st, r, i, st.orders[i].owner)
    PROVE  OwnerChange(st, r, i, st.orders[i].owner)
<1>. DEFINE u == st.orders[i].owner
<1>1. OwnerRows(st, i, u) /\ OrderRow(st.orders[i]) /\ Typed(st)
      /\ i \in DOMAIN st.orders
  BY PlacedRows DEF Placed
<1>2. r.orders[i] = st.orders[i]
  BY DEF ReserveRows, Keeps, Fields
<1>3. r.resv[i] \in Reservation
  <2>1. r.resv[i] = Backing(st, i)
    BY DEF ReserveRows
  <2>. QED
    BY <1>1, <2>1, BackingReservation
<1>4. /\ r.balance[u] \in Nat /\ r.pos[u] \in Position
      /\ r.balance[u] + r.resv[i].principal + r.resv[i].fee = st.balance[u]
      /\ r.acct[Wallet(u)] = r.balance[u]
      /\ r.acct[Escrow(i)] = r.resv[i].principal + r.resv[i].fee
      /\ r.pos[u].yes = st.pos[u].yes /\ r.pos[u].no = st.pos[u].no
      /\ r.pos[u].rYes = st.pos[u].rYes + r.resv[i].yes
      /\ r.pos[u].rNo = st.pos[u].rNo + r.resv[i].no
      /\ r.pos[u].rYes <= r.pos[u].yes /\ r.pos[u].rNo <= r.pos[u].no
  BY <1>1, Zenon DEF ReserveRows, OwnerRows
<1>5. /\ r.resv[i].principal \in Nat /\ r.resv[i].fee \in Nat
      /\ r.resv[i].yes \in Nat /\ r.resv[i].no \in Nat
      /\ st.resv[i].yes = 0 /\ st.resv[i].no = 0
      /\ st.pos[u].yes \in Nat /\ st.pos[u].no \in Nat
      /\ st.pos[u].rYes \in Nat /\ st.pos[u].rNo \in Nat
      /\ st.balance[u] \in Nat /\ st.acct[Escrow(i)] = 0
  <2>1. r.resv[i].principal \in Nat /\ r.resv[i].fee \in Nat
        /\ r.resv[i].yes \in Nat /\ r.resv[i].no \in Nat
    BY <1>3 DEF Reservation
  <2>2. /\ st.resv[i].principal = 0 /\ st.resv[i].fee = 0
        /\ st.resv[i].yes = 0 /\ st.resv[i].no = 0
    BY DEF Placed, Holds
  <2>3. st.pos[u] \in Position /\ st.balance[u] \in Nat
    BY <1>1 DEF OwnerRows
  <2>4. st.acct[Escrow(i)] = 0
    BY <1>1, <2>2 DEF OwnerRows
  <2>. HIDE DEF u
  <2>. QED
    BY <2>1, <2>2, <2>3, <2>4 DEF Position
<1>6. /\ Proceeds(st.orders[i]) \in Int
      /\ Bought(st.orders[i], "YES") \in Int /\ Bought(st.orders[i], "NO") \in Int
  BY <1>1, OrderNumbers
<1>. HIDE DEF u
<1>7. /\ r.pos[u].rYes - st.pos[u].rYes = r.resv[i].yes - st.resv[i].yes
      /\ r.pos[u].rNo - st.pos[u].rNo = r.resv[i].no - st.resv[i].no
  BY <1>4, <1>5
<1>8. /\ r.pos[u].yes - st.pos[u].yes
           = Bought(r.orders[i], "YES") - Bought(st.orders[i], "YES")
      /\ r.pos[u].no - st.pos[u].no
           = Bought(r.orders[i], "NO") - Bought(st.orders[i], "NO")
  BY <1>2, <1>4, <1>5, <1>6
<1>9. r.balance[u] + r.acct[Escrow(i)] - st.balance[u] - st.acct[Escrow(i)]
        = Proceeds(r.orders[i]) - Proceeds(st.orders[i])
  BY <1>2, <1>4, <1>5, <1>6
<1>10. OwnerChange(st, r, i, u)
  BY <1>4, <1>7, <1>8, <1>9 DEF OwnerChange
<1>. QED
  BY <1>10 DEF u

LEMMA ReserveSound ==
    ASSUME NEW st, NEW i, Placed(st, i), NEW r,
           ReserveRows(st, r, i, st.orders[i].owner)
    PROVE  Sound(r)
<1>. DEFINE u == st.orders[i].owner
<1>1. /\ Typed(st) /\ OrderRow(st.orders[i]) /\ Protected(st.orders[i])
      /\ u \in Users /\ i \in 1 .. MaxOrders /\ i \in DOMAIN st.orders
      /\ SoundBut(st, {i}) /\ IsLive(st.orders[i])
  BY RowsDomain DEF Placed, SoundBut, Typed, OrderRow
<1>2. /\ r.orders = st.orders /\ r.supply = st.supply /\ DOMAIN r = Fields
  BY DEF ReserveRows, Keeps, Fields
<1>3. r.resv[i] = Backing(r, i)
  <2>1. Backing(r, i) = Backing(st, i)
    BY <1>2 DEF Backing, ChainExecuted, Chain
  <2>. QED
    BY <2>1 DEF ReserveRows
<1>4. r.resv[i] \in Reservation
  <2>1. r.resv[i] = Backing(st, i)
    BY DEF ReserveRows
  <2>. QED
    BY <1>1, <2>1, BackingReservation
<1>5. OrderChange(st, r, i)
  BY <1>1, <1>2, <1>3, <1>4 DEF OrderChange, ReserveRows
<1>6. OwnerChange(st, r, i, u)
  BY ReserveOwner
<1>7. Changes(st, r, {i})
  <2>1. \A j \in (1 .. MaxOrders) \ {i} :
           Escrow(j) \in Accounts \ {Wallet(u), Escrow(i)}
    BY AccountNames
  <2>2. \A v \in Users \ {u} : Wallet(v) \in Accounts \ {Wallet(u), Escrow(i)}
    BY AccountNames
  <2>3. IsRows(r.orders, Len(st.orders))
    BY <1>1, <1>2 DEF Typed
  <2>. QED
    BY <1>1, <1>2, <2>1, <2>2, <2>3, Zenon DEF Changes, ReserveRows
<1>8. SupplyCollateralized(r) /\ r.supply.yes \in Nat /\ r.supply.no \in Nat
  <2>1. SupplyCollateralized(st) /\ st.supply.yes \in Nat /\ st.supply.no \in Nat
    BY <1>1 DEF SoundBut, Typed
  <2>2. \A v \in Users : r.pos[v].yes = st.pos[v].yes /\ r.pos[v].no = st.pos[v].no
    BY DEF ReserveRows
  <2>3. r.acct[Collateral] = st.acct[Collateral]
    BY AccountNames DEF ReserveRows
  <2>. QED
    BY <1>2, <2>1, <2>2, <2>3 DEF SupplyCollateralized
<1>. QED
  BY <1>1, <1>5, <1>6, <1>7, <1>8, ChangesSound

\* Cash is set aside for a BUY, or the wallet cannot pay and the order is
\* refused.
LEMMA ReserveCash ==
    ASSUME NEW st, NEW i, NEW u, Placed(st, i), st.fault = "NONE",
           u = st.orders[i].owner, u \in active,
           st.orders[i].action = "BUY", NEW r, r = ReserveAssets(st, i)
    PROVE  \/ DOMAIN r = Fields /\ r.fault = "REFUSED"
           \/ ReserveRows(st, r, i, u) /\ SameEvents(st, r)
<1>. DEFINE p == Principal(st, i)
            f == FeeHeld(st, i)
            cash == p + f
            m == MoveCash(st, u, i, cash)
            x == [st.resv[i] EXCEPT !.principal = p, !.fee = f]
<1>1. /\ OwnerRows(st, i, u) /\ Typed(st) /\ OrderRow(st.orders[i])
      /\ DOMAIN st.orders = 1 .. Len(st.orders) /\ IsLive(st.orders[i])
      /\ i \in DOMAIN st.orders /\ Holds(st.resv[i], 0, 0, 0, 0)
  BY PlacedRows DEF Placed
<1>2. r = [m EXCEPT !.resv[i] = [@ EXCEPT !.principal = p, !.fee = f]]
  BY DEF ReserveAssets, FeeToReserve, ReservedFee, ReservedPrincipal,
         Principal, FeeHeld
<1>3. /\ p \in Nat /\ f \in Nat /\ Holds(Backing(st, i), p, f, 0, 0)
  BY <1>1, BackingFields
<1>4. p > 0
  <2>1. st.orders[i].rem > 0 /\ st.orders[i].rem \in Nat
    BY <1>1, LiveIs DEF OrderRow
  <2>. QED
    BY <1>1, <2>1, UserLimitNat DEF Principal
<1>. HIDE DEF p, f
<1>5. Holds(x, p, f, 0, 0) /\ x = Backing(st, i)
  <2>1. Holds(x, p, f, 0, 0)
    BY <1>1, <1>3 DEF Holds, Reservation
  <2>. QED
    BY <1>3, <2>1, HoldsSame
<1>6. /\ st.balance[u] \in Nat /\ st.acct[Escrow(i)] = 0
      /\ st.acct[Wallet(u)] = st.balance[u] /\ st.balance \in [Users -> Nat]
      /\ st.acct \in [Accounts -> Nat] /\ u \in Users /\ i \in 1 .. MaxOrders
      /\ DOMAIN st = Fields
  BY <1>1 DEF OwnerRows, Holds
<1>7. cash \in Int /\ cash > 0 /\ cash = p + f
  BY <1>3, <1>4
<1>. HIDE DEF cash, x
<1>8. CASE st.balance[u] < cash
  <2>1. DOMAIN m = Fields /\ m.fault = "REFUSED"
    BY <1>6, <1>7, <1>8, MoveCashRefused
  <2>. HIDE DEF m
  <2>. QED
    BY <1>2, <2>1 DEF Fields
<1>9. CASE ~(st.balance[u] < cash)
  <2>1. Moved(st, m, u, i, cash) /\ m.balance \in [Users -> Nat]
    <3>1. st.balance[u] - cash >= 0 /\ st.acct[Escrow(i)] + cash >= 0 /\ cash # 0
      BY <1>6, <1>7, <1>9
    <3>. QED
      BY <1>6, <1>7, <3>1, MoveCashWorks
  <2>. HIDE DEF m
  <2>2. m.resv = st.resv /\ DOMAIN m = Fields
    BY <2>1 DEF Moved, Keeps, Fields
  <2>3. Keeps(m, r, {"resv"}) /\ r.resv = [st.resv EXCEPT ![i] = x]
    BY <1>2, <2>2 DEF Keeps, Fields, x
  <2>4. /\ IsRows(r.resv, Len(st.orders)) /\ r.resv[i] = x
        /\ \A j \in (1 .. Len(st.orders)) \ {i} : r.resv[j] = st.resv[j]
    <3>1. /\ IsRows(st.resv, Len(st.orders)) /\ Len(st.orders) \in Nat
          /\ i \in 1 .. Len(st.orders)
      BY <1>1 DEF OwnerRows
    <3>2. Replaces(st.resv, r.resv, i, x)
      BY <2>3 DEF Replaces
    <3>. QED
      BY <3>1, <3>2, RowsExcept
  <2>5. /\ Keeps(st, r, {"balance", "acct", "resv", "pos"})
        /\ r.balance = m.balance /\ r.acct = m.acct /\ r.pos = st.pos
        /\ SameEvents(st, r)
    BY <2>1, <2>3 DEF Moved, Keeps, Fields, SameEvents
  <2>6. /\ r.resv[i].principal = p /\ r.resv[i].fee = f
        /\ r.resv[i].yes = 0 /\ r.resv[i].no = 0
    BY <1>5, <2>4 DEF Holds
  <2>7. /\ r.balance[u] = st.balance[u] - cash
        /\ r.acct[Wallet(u)] = st.balance[u] - cash
        /\ r.acct[Escrow(i)] = cash
    BY <1>6, <1>7, <2>1, <2>5 DEF Moved
  <2>8. /\ r.balance[u] + r.resv[i].principal + r.resv[i].fee = st.balance[u]
        /\ r.acct[Wallet(u)] = r.balance[u]
        /\ r.acct[Escrow(i)] = r.resv[i].principal + r.resv[i].fee
    BY <1>3, <1>6, <1>7, <2>6, <2>7
  <2>9. /\ \A v \in Users \ {u} : r.balance[v] = st.balance[v]
        /\ \A a \in Accounts \ {Wallet(u), Escrow(i)} : r.acct[a] = st.acct[a]
        /\ r.acct \in [Accounts -> Nat] /\ r.balance \in [Users -> Nat]
    BY <1>6, <2>1, <2>5 DEF Moved
  <2>10. /\ r.pos \in [Users -> Position] /\ r.pos = st.pos
         /\ st.pos[u].rYes \in Nat /\ st.pos[u].rNo \in Nat
         /\ st.pos[u].rYes <= st.pos[u].yes /\ st.pos[u].rNo <= st.pos[u].no
    BY <1>1, <2>5 DEF OwnerRows, Position
  <2>11. /\ r.pos[u].rYes = st.pos[u].rYes + r.resv[i].yes
         /\ r.pos[u].rNo = st.pos[u].rNo + r.resv[i].no
    BY <2>6, <2>10
  <2>. QED
    BY <1>1, <1>5, <2>4, <2>5, <2>8, <2>9, <2>10, <2>11, Zenon DEF ReserveRows
<1>. QED
  BY <1>8, <1>9

\* Contracts are set aside for a SELL, or the position has too few.
ForSale(p, q, outcome) ==
    IF outcome = "YES" THEN [p EXCEPT !.rYes = @ + q] ELSE [p EXCEPT !.rNo = @ + q]

LEMMA SharesForSale ==
    ASSUME NEW p \in Position, NEW q \in Nat, NEW outcome \in {"YES", "NO"},
           p.rYes <= p.yes, p.rNo <= p.no, Available(p, outcome) >= q,
           NEW r, r = ForSale(p, q, outcome)
    PROVE  /\ r \in Position /\ r.yes = p.yes /\ r.no = p.no
           /\ r.rYes = p.rYes + (IF outcome = "YES" THEN q ELSE 0)
           /\ r.rNo = p.rNo + (IF outcome = "NO" THEN q ELSE 0)
           /\ r.rYes <= r.yes /\ r.rNo <= r.no
<1>1. /\ p.yes \in Nat /\ p.no \in Nat /\ p.rYes \in Nat /\ p.rNo \in Nat
  BY DEF Position
<1>2. CASE outcome = "YES"
  <2>. DEFINE v == p.rYes + q
  <2>1. r = [p EXCEPT !.rYes = v] /\ v \in Nat /\ v <= p.yes
    BY <1>1, <1>2 DEF ForSale, Available
  <2>. HIDE DEF v
  <2>2. /\ r \in Position /\ r.yes = p.yes /\ r.no = p.no
        /\ r.rYes = v /\ r.rNo = p.rNo
    BY <2>1 DEF Position
  <2>. QED
    BY <1>1, <1>2, <2>1, <2>2 DEF v
<1>3. CASE outcome = "NO"
  <2>. DEFINE v == p.rNo + q
  <2>1. r = [p EXCEPT !.rNo = v] /\ v \in Nat /\ v <= p.no
    BY <1>1, <1>3 DEF ForSale, Available
  <2>. HIDE DEF v
  <2>2. /\ r \in Position /\ r.yes = p.yes /\ r.no = p.no
        /\ r.rNo = v /\ r.rYes = p.rYes
    BY <2>1 DEF Position
  <2>. QED
    BY <1>1, <1>3, <2>1, <2>2 DEF v
<1>. QED
  BY <1>2, <1>3

LEMMA ReserveShares ==
    ASSUME NEW st, NEW i, NEW u, Placed(st, i), st.fault = "NONE",
           u = st.orders[i].owner, st.orders[i].action = "SELL",
           NEW r, r = ReserveAssets(st, i)
    PROVE  \/ DOMAIN r = Fields /\ r.fault = "REFUSED"
           \/ ReserveRows(st, r, i, u) /\ SameEvents(st, r)
<1>. DEFINE o == st.orders[i]
            q == o.rem
            c == o.outcome
            x == IF c = "YES" THEN [st.resv[i] EXCEPT !.yes = q]
                              ELSE [st.resv[i] EXCEPT !.no = q]
            p == ForSale(st.pos[u], q, c)
            owned == Check(st, Available(st.pos[u], c) >= q, "REFUSED")
<1>1. /\ OwnerRows(st, i, u) /\ Typed(st) /\ OrderRow(o)
      /\ DOMAIN st.orders = 1 .. Len(st.orders) /\ IsLive(o)
      /\ i \in DOMAIN st.orders /\ Holds(st.resv[i], 0, 0, 0, 0)
  BY PlacedRows DEF Placed
<1>2. /\ q \in Nat /\ c \in {"YES", "NO"}
  BY <1>1 DEF OrderRow, Outcomes
<1>3. r = IF c = "YES"
          THEN [owned EXCEPT !.pos[u].rYes = @ + q, !.resv[i].yes = q]
          ELSE [owned EXCEPT !.pos[u].rNo = @ + q, !.resv[i].no = q]
  BY DEF ReserveAssets
<1>4. CASE ~(Available(st.pos[u], c) >= q)
  <2>1. owned = [st EXCEPT !.fault = "REFUSED"]
    BY <1>4 DEF Check, Fail
  <2>2. DOMAIN owned = Fields /\ owned.fault = "REFUSED"
    BY <1>1, <2>1 DEF OwnerRows, Fields
  <2>. HIDE DEF owned
  <2>3. DOMAIN r = Fields /\ r.fault = "REFUSED"
    <3>1. CASE c = "YES"
      BY <1>3, <2>2, <3>1 DEF Fields
    <3>2. CASE c # "YES"
      BY <1>3, <2>2, <3>2 DEF Fields
    <3>. QED
      BY <3>1, <3>2
  <2>. QED
    BY <2>3
<1>5. CASE Available(st.pos[u], c) >= q
  <2>1. owned = st
    BY <1>5 DEF Check
  <2>. HIDE DEF owned
  <2>2. /\ st.pos[u] \in Position
        /\ st.pos[u].rYes <= st.pos[u].yes /\ st.pos[u].rNo <= st.pos[u].no
    BY <1>1 DEF OwnerRows
  <2>3. /\ p \in Position /\ p.yes = st.pos[u].yes /\ p.no = st.pos[u].no
        /\ p.rYes = st.pos[u].rYes + (IF c = "YES" THEN q ELSE 0)
        /\ p.rNo = st.pos[u].rNo + (IF c = "NO" THEN q ELSE 0)
        /\ p.rYes <= p.yes /\ p.rNo <= p.no
    <3>. HIDE DEF q, c
    <3>. QED
      BY <1>2, <1>5, <2>2, SharesForSale
  <2>4. /\ Keeps(st, r, {"resv", "pos"})
        /\ r.pos = [st.pos EXCEPT ![u] = p]
        /\ r.resv = [st.resv EXCEPT ![i] = x]
    <3>1. DOMAIN st = Fields
      BY <1>1 DEF OwnerRows
    <3>. HIDE DEF q, c
    <3>2. CASE c = "YES"
      <4>1. r = [st EXCEPT !.pos[u].rYes = @ + q, !.resv[i].yes = q]
        BY <1>3, <2>1, <3>2
      <4>. QED
        BY <3>1, <3>2, <4>1 DEF Keeps, Fields, ForSale
    <3>3. CASE c # "YES"
      <4>1. r = [st EXCEPT !.pos[u].rNo = @ + q, !.resv[i].no = q]
        BY <1>3, <2>1, <3>3
      <4>. QED
        BY <3>1, <3>3, <4>1 DEF Keeps, Fields, ForSale
    <3>. QED
      BY <3>2, <3>3
  <2>5. /\ Holds(x, 0, 0, IF c = "YES" THEN q ELSE 0, IF c = "NO" THEN q ELSE 0)
        /\ x = Backing(st, i)
    <3>1. Holds(x, 0, 0, IF c = "YES" THEN q ELSE 0, IF c = "NO" THEN q ELSE 0)
      BY <1>1, <1>2 DEF Holds, Reservation
    <3>2. Holds(Backing(st, i), 0, 0, IF c = "YES" THEN q ELSE 0,
                                      IF c = "NO" THEN q ELSE 0)
      BY <1>1, <1>2, BackingFields
    <3>. QED
      BY <3>1, <3>2, HoldsSame
  <2>. HIDE DEF p, x
  <2>6. /\ IsRows(r.resv, Len(st.orders)) /\ r.resv[i] = x
        /\ \A j \in (1 .. Len(st.orders)) \ {i} : r.resv[j] = st.resv[j]
    <3>1. /\ IsRows(st.resv, Len(st.orders)) /\ Len(st.orders) \in Nat
          /\ i \in 1 .. Len(st.orders)
      BY <1>1 DEF OwnerRows
    <3>2. Replaces(st.resv, r.resv, i, x)
      BY <2>4 DEF Replaces
    <3>. QED
      BY <3>1, <3>2, RowsExcept
  <2>7. /\ Keeps(st, r, {"balance", "acct", "resv", "pos"})
        /\ r.balance = st.balance /\ r.acct = st.acct /\ SameEvents(st, r)
    BY <2>4 DEF Keeps, Fields, SameEvents
  <2>8. /\ r.resv[i].principal = 0 /\ r.resv[i].fee = 0
        /\ r.resv[i].yes = (IF c = "YES" THEN q ELSE 0)
        /\ r.resv[i].no = (IF c = "NO" THEN q ELSE 0)
    BY <2>5, <2>6 DEF Holds
  <2>9. /\ r.balance \in [Users -> Nat] /\ r.acct \in [Accounts -> Nat]
        /\ st.balance[u] \in Nat /\ r.acct[Wallet(u)] = r.balance[u]
        /\ st.acct[Escrow(i)] = 0
    BY <1>1, <2>7 DEF OwnerRows, Holds
  <2>10. /\ r.pos \in [Users -> Position] /\ r.pos[u] = p
         /\ \A v \in Users \ {u} : r.pos[v] = st.pos[v]
    BY <1>1, <2>3, <2>4, Zenon DEF OwnerRows
  <2>11. /\ r.balance[u] + r.resv[i].principal + r.resv[i].fee = st.balance[u]
         /\ r.acct[Escrow(i)] = r.resv[i].principal + r.resv[i].fee
    BY <2>7, <2>8, <2>9
  <2>. QED
    BY <1>1, <2>3, <2>5, <2>6, <2>7, <2>8, <2>9, <2>10, <2>11 DEF ReserveRows
<1>. QED
  BY <1>4, <1>5

\* Either the order is refused, or everything is as it must be.
LEMMA ReserveStep ==
    ASSUME NEW st, NEW i, Placed(st, i), st.fault = "NONE",
           st.orders[i].owner \in active, NEW r, r = ReserveAssets(st, i)
    PROVE  \/ DOMAIN r = Fields /\ r.fault = "REFUSED"
           \/ Sound(r) /\ SameEvents(st, r) /\ r.orders = st.orders
<1>1. st.orders[i].action \in {"BUY", "SELL"}
  BY PlacedRows DEF OrderRow, Sides
<1>2. \/ DOMAIN r = Fields /\ r.fault = "REFUSED"
      \/ ReserveRows(st, r, i, st.orders[i].owner) /\ SameEvents(st, r)
  BY <1>1, ReserveCash, ReserveShares
<1>3. ASSUME ReserveRows(st, r, i, st.orders[i].owner)
      PROVE  Sound(r) /\ r.orders = st.orders
  <2>1. Sound(r)
    BY <1>3, ReserveSound
  <2>. QED
    BY <1>3, <2>1 DEF ReserveRows, Keeps, Fields
<1>. QED
  BY <1>2, <1>3
----------------------------------------------------------------------------
\* A new order at the end of the book's rows.
ExtendsByNone(S, f, x, g) ==
    /\ IsFiniteSet(S) /\ x \notin S
    /\ DOMAIN f = S /\ DOMAIN g = S \union {x} /\ g[x] = 0
    /\ \A y \in S : f[y] \in Int /\ g[y] = f[y]

LEMMA SumExtended ==
    ASSUME NEW S, NEW f, NEW x, NEW g, ExtendsByNone(S, f, x, g)
    PROVE  SumFunction(g) = SumFunction(f)
<1>1. /\ IsFiniteSet(S) /\ x \notin S /\ g[x] = 0
      /\ DOMAIN f = S /\ DOMAIN g = S \union {x}
      /\ \A y \in S : f[y] \in Int /\ g[y] \in Int /\ g[y] = f[y]
  BY DEF ExtendsByNone
<1>2. Sums!Total(g, S \union {x}) = g[x] + Sums!Total(g, S)
  <2>1. g[x] \in Int
    BY <1>1
  <2>. QED
    BY <1>1, <2>1, SumLaws, Sums!SumAdd
<1>3. Sums!Total(g, S) = Sums!Total(f, S)
  BY <1>1, SumLaws, Sums!SumSame
<1>4. Sums!Total(f, S) \in Int
  BY <1>1, SumLaws, Sums!SumInt
<1>. QED
  BY <1>1, <1>2, <1>3, <1>4, SumOn

Appended(st, o) ==
    [st EXCEPT !.orders = Append(@, o), !.resv = Append(@, NoReservation)]

\* An order nothing happened to yet, whose chain is its own or has no live
\* order.
Fresh(st, o) ==
    /\ OrderRow(o) /\ o.rem > 0
    /\ o.filled = 0 /\ o.notional = 0 /\ o.fee = 0
    /\ o.chain \in 1 .. Len(st.orders) + 1
    /\ \A j \in DOMAIN st.orders : st.orders[j].chain = o.chain =>
          st.orders[j].owner = o.owner /\ ~IsLive(st.orders[j])

\* The rows with the new order n.
AppendRows(st, r, o, n) ==
    /\ Keeps(st, r, {"orders", "resv"})
    /\ n = Len(st.orders) + 1
    /\ IsRows(r.orders, n) /\ IsRows(r.resv, n)
    /\ r.orders[n] = o /\ r.resv[n] = NoReservation
    /\ \A j \in DOMAIN st.orders : /\ r.orders[j] = st.orders[j]
                                   /\ r.resv[j] = st.resv[j]

LEMMA AppendWorks ==
    ASSUME NEW st, Typed(st), NEW o, NEW r, r = Appended(st, o)
    PROVE  AppendRows(st, r, o, Len(st.orders) + 1)
<1>1. /\ DOMAIN st = Fields /\ Len(st.orders) \in Nat
      /\ IsRows(st.orders, Len(st.orders)) /\ IsRows(st.resv, Len(st.orders))
      /\ DOMAIN st.orders = 1 .. Len(st.orders)
  BY RowsDomain DEF Typed
<1>2. /\ Keeps(st, r, {"orders", "resv"})
      /\ r.orders = Append(st.orders, o)
      /\ r.resv = Append(st.resv, NoReservation)
  BY <1>1 DEF Appended, Keeps, Fields
<1>. QED
  <2>1. /\ RowsWith(st.orders, Len(st.orders), o, r.orders)
        /\ RowsWith(st.resv, Len(st.orders), NoReservation, r.resv)
    BY <1>1, <1>2, RowsAppend
  <2>. QED
    BY <1>1, <1>2, <2>1 DEF AppendRows, RowsWith

LEMMA AppendTyped ==
    ASSUME NEW st, Sound(st), Len(st.orders) < MaxOrders, NEW o, Fresh(st, o),
           NEW r, NEW n, AppendRows(st, r, o, n)
    PROVE  /\ Typed(r) /\ Custody(r) /\ UnusedEscrow(r)
           /\ Len(r.orders) = n /\ DOMAIN r.orders = DOMAIN st.orders \union {n}
           /\ n \notin DOMAIN st.orders /\ DOMAIN st.orders = 1 .. n - 1
           /\ n \in 1 .. MaxOrders
<1>1. /\ Len(st.orders) \in Nat /\ DOMAIN st.orders = 1 .. Len(st.orders)
      /\ Typed(st) /\ n = Len(st.orders) + 1 /\ MaxOrders \in Nat
  BY RowsDomain, ExchangeAssumption DEF Sound, SoundBut, AppendRows
<1>2. /\ Len(r.orders) = n /\ DOMAIN r.orders = 1 .. n /\ n \in 1 .. MaxOrders
      /\ DOMAIN r.orders = DOMAIN st.orders \union {n}
      /\ n \notin DOMAIN st.orders /\ DOMAIN st.orders = 1 .. n - 1
  BY <1>1 DEF AppendRows, IsRows
<1>3. /\ r.balance = st.balance /\ r.acct = st.acct /\ r.pos = st.pos
      /\ r.supply = st.supply /\ DOMAIN r = Fields
  BY DEF AppendRows, Keeps, Fields
<1>4. \A j \in DOMAIN r.orders : OrderRow(r.orders[j]) /\ r.resv[j] \in Reservation
  BY <1>1, <1>2, NoReservationIs DEF AppendRows, Typed, Fresh
<1>5. Typed(r)
  BY <1>1, <1>2, <1>3, <1>4 DEF Typed, AppendRows
<1>6. Custody(r)
  <2>1. r.acct[Escrow(n)] = 0 /\ r.resv[n].principal = 0 /\ r.resv[n].fee = 0
    BY <1>1, <1>2, <1>3 DEF Sound, SoundBut, UnusedEscrow, AppendRows,
                            NoReservation
  <2>. QED
    BY <1>2, <1>3, <2>1 DEF Sound, SoundBut, Custody, AppendRows
<1>7. UnusedEscrow(r)
  BY <1>1, <1>2, <1>3 DEF Sound, SoundBut, UnusedEscrow
<1>. QED
  BY <1>2, <1>5, <1>6, <1>7

LEMMA AppendBacked ==
    ASSUME NEW st, Sound(st), Len(st.orders) < MaxOrders, NEW o, Fresh(st, o),
           NEW r, NEW n, AppendRows(st, r, o, n)
    PROVE  /\ Chained(r)
           /\ \A j \in DOMAIN st.orders : r.resv[j] = Backing(r, j)
<1>1. /\ Typed(st) /\ Chained(st)
      /\ n = Len(st.orders) + 1 /\ n \in Nat
      /\ DOMAIN r.orders = DOMAIN st.orders \union {n}
      /\ n \notin DOMAIN st.orders /\ DOMAIN st.orders = 1 .. n - 1
      /\ r.orders[n] = o
  BY AppendTyped DEF Sound, SoundBut, AppendRows
<1>2. \A j \in DOMAIN st.orders : r.orders[j] = st.orders[j]
  BY DEF AppendRows
<1>3. Chained(r)
  <2>1. \A j \in DOMAIN r.orders : r.orders[j].chain \in 1 .. j
    BY <1>1, <1>2 DEF Chained, Fresh
  <2>2. ASSUME NEW j \in DOMAIN r.orders, NEW k \in DOMAIN r.orders,
               r.orders[j].chain = r.orders[k].chain
        PROVE  /\ r.orders[j].owner = r.orders[k].owner
               /\ IsLive(r.orders[j]) /\ IsLive(r.orders[k]) => j = k
    <3>1. CASE j \in DOMAIN st.orders /\ k \in DOMAIN st.orders
      BY <1>1, <1>2, <2>2, <3>1 DEF Chained
    <3>2. CASE j = n \/ k = n
      BY <1>1, <1>2, <2>2, <3>2 DEF Fresh
    <3>. QED
      BY <1>1, <3>1, <3>2
  <2>. QED
    BY <2>1, <2>2 DEF Chained
<1>4. ASSUME NEW j \in DOMAIN st.orders
      PROVE  r.resv[j] = Backing(r, j)
  <2>1. r.resv[j] = st.resv[j] /\ st.resv[j] = Backing(st, j)
        /\ r.orders[j] = st.orders[j]
    BY <1>2 DEF Sound, SoundBut, AppendRows
  <2>2. CASE st.orders[j].chain = o.chain
    <3>1. ~IsLive(st.orders[j])
      BY <2>2 DEF Fresh
    <3>. QED
      BY <2>1, <3>1 DEF Backing
  <2>3. CASE st.orders[j].chain # o.chain
    <3>1. Chain(r, j) = Chain(st, j)
      BY <1>1, <1>2, <2>1, <2>3 DEF Chain
    <3>2. [k \in Chain(r, j) |-> r.orders[k].notional]
            = [k \in Chain(st, j) |-> st.orders[k].notional]
      BY <1>2, <3>1 DEF Chain
    <3>3. ChainExecuted(r, j) = ChainExecuted(st, j)
      BY <3>2 DEF ChainExecuted
    <3>. QED
      BY <2>1, <3>3 DEF Backing
  <2>. QED
    BY <2>2, <2>3
<1>. QED
  BY <1>3, <1>4

\* The new order adds nothing to what its owner's orders add up to.
LEMMA AppendUsers ==
    ASSUME NEW st, Sound(st), Len(st.orders) < MaxOrders, NEW o, Fresh(st, o),
           NEW r, NEW n, AppendRows(st, r, o, n), NEW u \in Users
    PROVE  SharesReserved(r, u) /\ Explained(r, u)
<1>1. /\ Typed(st) /\ Typed(r) /\ SharesReserved(st, u) /\ Explained(st, u)
      /\ DOMAIN r.orders = DOMAIN st.orders \union {n}
      /\ n \notin DOMAIN st.orders /\ n \in 1 .. MaxOrders
      /\ n = Len(st.orders) + 1 /\ Len(st.orders) \in Nat
      /\ r.orders[n] = o /\ r.resv[n] = NoReservation
  BY AppendTyped, RowsDomain DEF Sound, SoundBut, AppendRows
<1>2. \A j \in DOMAIN st.orders : /\ r.orders[j] = st.orders[j]
                                  /\ r.resv[j] = st.resv[j]
  BY DEF AppendRows
<1>3. /\ r.balance = st.balance /\ r.acct = st.acct /\ r.pos = st.pos
  BY DEF AppendRows, Keeps, Fields
<1>4. CASE o.owner # u
  <2>1. OwnOrders(r, u) = OwnOrders(st, u)
    BY <1>1, <1>2, <1>4 DEF OwnOrders
  <2>2. SameFor(st, r, u)
    BY <1>2, <1>3, <2>1 DEF SameFor, OwnOrders
  <2>. QED
    BY <1>1, <2>2, OthersUnaffected
<1>5. CASE o.owner = u
  <2>. DEFINE S == OwnOrders(st, u)
  <2>1. OwnOrders(r, u) = S \union {n} /\ n \notin S /\ IsFiniteSet(S)
        /\ \A j \in S : r.orders[j] = st.orders[j] /\ r.resv[j] = st.resv[j]
    <3>1. IsFiniteSet(S) /\ S \subseteq DOMAIN st.orders
      BY <1>1, OwnFinite
    <3>2. OwnOrders(r, u) = S \union {n}
      BY <1>1, <1>2, <1>5 DEF OwnOrders
    <3>. QED
      BY <1>1, <1>2, <3>1, <3>2
  <2>2. /\ r.resv[n].yes = 0 /\ r.resv[n].no = 0
        /\ r.acct[Escrow(n)] = 0
        /\ Proceeds(r.orders[n]) = 0
        /\ Bought(r.orders[n], "YES") = 0 /\ Bought(r.orders[n], "NO") = 0
    <3>1. r.acct[Escrow(n)] = 0
      BY <1>1, <1>3 DEF Sound, SoundBut, UnusedEscrow
    <3>2. /\ Proceeds(o) = 0 /\ Bought(o, "YES") = 0 /\ Bought(o, "NO") = 0
      <4>1. o.notional = 0 /\ o.fee = 0 /\ o.filled = 0
        BY DEF Fresh
      <4>. DEFINE m == o.notional
                  e == o.fee
                  k == o.filled
      <4>2. \A x \in Int : -x = 0 - x
        OBVIOUS
      <4>3. /\ Proceeds(o) = IF o.action = "BUY" THEN -(m + e) ELSE m - e
            /\ \A c : Bought(o, c) = IF o.outcome # c THEN 0
                                     ELSE IF o.action = "BUY" THEN k ELSE -k
        BY DEF Proceeds, PartyPosting, Bought
      <4>. HIDE DEF m, e, k
      <4>4. m \in Int /\ e \in Int /\ k \in Int
        BY <4>1 DEF m, e, k
      <4>5. -(m + e) = 0 - (m + e) /\ -k = 0 - k
        BY <4>2, <4>4
      <4>6. -(m + e) = 0 /\ m - e = 0 /\ -k = 0
        <5>1. m + e = 0 /\ m - e = 0 /\ 0 - k = 0
          BY <4>1 DEF m, e, k
        <5>. HIDE DEF m, e, k
        <5>. DEFINE s == m + e
        <5>2. s = 0 /\ 0 - s = 0 /\ -s = 0 - s
          BY <4>5, <5>1
        <5>. HIDE DEF s
        <5>. QED
          BY <4>5, <5>1, <5>2, Zenon DEF s
      <4>. QED
        BY <4>1, <4>3, <4>6, Zenon DEF k
    <3>. QED
      BY <1>1, <3>1, <3>2 DEF NoReservation
  <2>3. /\ SumFunction(YesHeld(r, u)) = SumFunction(YesHeld(st, u))
        /\ SumFunction(NoHeld(r, u)) = SumFunction(NoHeld(st, u))
    <3>1. /\ DOMAIN YesHeld(st, u) = S /\ DOMAIN YesHeld(r, u) = S \union {n}
          /\ YesHeld(r, u)[n] = 0
          /\ \A j \in S : /\ YesHeld(st, u)[j] \in Int
                          /\ YesHeld(r, u)[j] = YesHeld(st, u)[j]
      <4>1. YesHeld(st, u) \in [S -> Nat]
        BY <1>1, UserTerms
      <4>. QED
        BY <2>1, <2>2, <4>1 DEF YesHeld
    <3>2. /\ DOMAIN NoHeld(st, u) = S /\ DOMAIN NoHeld(r, u) = S \union {n}
          /\ NoHeld(r, u)[n] = 0
          /\ \A j \in S : /\ NoHeld(st, u)[j] \in Int
                          /\ NoHeld(r, u)[j] = NoHeld(st, u)[j]
      <4>1. NoHeld(st, u) \in [S -> Nat]
        BY <1>1, UserTerms
      <4>. QED
        BY <2>1, <2>2, <4>1 DEF NoHeld
    <3>. HIDE DEF S
    <3>. QED
      <4>1. /\ ExtendsByNone(S, YesHeld(st, u), n, YesHeld(r, u))
            /\ ExtendsByNone(S, NoHeld(st, u), n, NoHeld(r, u))
        BY <2>1, <3>1, <3>2 DEF ExtendsByNone
      <4>. QED
        BY <4>1, SumExtended
  <2>4. /\ SumFunction(CashHeld(r, u)) = SumFunction(CashHeld(st, u))
        /\ SumFunction(Earned(r, u)) = SumFunction(Earned(st, u))
    <3>1. /\ DOMAIN CashHeld(st, u) = S /\ DOMAIN CashHeld(r, u) = S \union {n}
          /\ CashHeld(r, u)[n] = 0
          /\ \A j \in S : /\ CashHeld(st, u)[j] \in Int
                          /\ CashHeld(r, u)[j] = CashHeld(st, u)[j]
      <4>1. CashHeld(st, u) \in [S -> Nat]
        BY <1>1, UserTerms
      <4>. QED
        BY <1>3, <2>1, <2>2, <4>1 DEF CashHeld
    <3>2. /\ DOMAIN Earned(st, u) = S /\ DOMAIN Earned(r, u) = S \union {n}
          /\ Earned(r, u)[n] = 0
          /\ \A j \in S : /\ Earned(st, u)[j] \in Int
                          /\ Earned(r, u)[j] = Earned(st, u)[j]
      <4>1. Earned(st, u) \in [S -> Int]
        BY <1>1, UserTerms
      <4>. QED
        BY <2>1, <2>2, <4>1 DEF Earned
    <3>. HIDE DEF S
    <3>. QED
      <4>1. /\ ExtendsByNone(S, CashHeld(st, u), n, CashHeld(r, u))
            /\ ExtendsByNone(S, Earned(st, u), n, Earned(r, u))
        BY <2>1, <3>1, <3>2 DEF ExtendsByNone
      <4>. QED
        BY <4>1, SumExtended
  <2>5. ASSUME NEW c \in {"YES", "NO"}
        PROVE  SumFunction(Gained(r, u, c)) = SumFunction(Gained(st, u, c))
    <3>1. Gained(st, u, c) \in [S -> Int]
      BY <1>1, UserTerms
    <3>2. /\ DOMAIN Gained(st, u, c) = S /\ DOMAIN Gained(r, u, c) = S \union {n}
          /\ Gained(r, u, c)[n] = 0
          /\ \A j \in S : /\ Gained(st, u, c)[j] \in Int
                          /\ Gained(r, u, c)[j] = Gained(st, u, c)[j]
      BY <2>1, <2>2, <3>1 DEF Gained
    <3>. HIDE DEF S
    <3>. QED
      <4>1. ExtendsByNone(S, Gained(st, u, c), n, Gained(r, u, c))
        BY <2>1, <3>2 DEF ExtendsByNone
      <4>. QED
        BY <4>1, SumExtended
  <2>. HIDE DEF S
  <2>6. SharesReserved(r, u)
    BY <1>1, <1>3, <2>3, SharesAre
  <2>7. Redeemed(r, u) = Redeemed(st, u)
    BY <1>3, <2>5 DEF Redeemed
  <2>. QED
    BY <1>1, <1>3, <2>4, <2>5, <2>6, <2>7, ExplainedIs
<1>. QED
  BY <1>4, <1>5

LEMMA AppendStep ==
    ASSUME NEW st, Sound(st), Len(st.orders) < MaxOrders, NEW o, Fresh(st, o),
           NEW r, r = Appended(st, o)
    PROVE  /\ Placed(r, Len(st.orders) + 1) /\ SameEvents(st, r)
           /\ AppendRows(st, r, o, Len(st.orders) + 1)
<1>. DEFINE n == Len(st.orders) + 1
<1>1. Typed(st) /\ AppendRows(st, r, o, n)
  BY AppendWorks DEF Sound, SoundBut
<1>2. /\ Typed(r) /\ Custody(r) /\ UnusedEscrow(r)
      /\ DOMAIN r.orders = DOMAIN st.orders \union {n}
      /\ n \notin DOMAIN st.orders
  BY <1>1, AppendTyped
<1>3. Chained(r) /\ \A j \in DOMAIN st.orders : r.resv[j] = Backing(r, j)
  BY <1>1, AppendBacked
<1>4. \A u \in Users : SharesReserved(r, u) /\ Explained(r, u)
  BY <1>1, AppendUsers
<1>5. /\ r.pos = st.pos /\ r.acct = st.acct /\ r.supply = st.supply
      /\ SameEvents(st, r)
  BY <1>1 DEF AppendRows, Keeps, Fields, SameEvents
<1>6. SupplyCollateralized(r)
  <2>1. SupplyCollateralized(st)
    BY DEF Sound, SoundBut
  <2>. QED
    BY <1>5, <2>1 DEF SupplyCollateralized
<1>7. \A j \in DOMAIN r.orders : Protected(r.orders[j])
  <2>1. Protected(o)
    <3>1. UserLimit(o) \in Nat
      BY UserLimitNat DEF Fresh
    <3>. QED
      BY <3>1 DEF Fresh, Protected
  <2>. QED
    BY <1>1, <1>2, <2>1 DEF AppendRows, Sound, SoundBut
<1>8. SoundBut(r, {n})
  BY <1>2, <1>3, <1>4, <1>6, <1>7 DEF SoundBut
<1>9. IsLive(r.orders[n]) /\ Holds(r.resv[n], 0, 0, 0, 0)
  BY <1>1, NoReservationIs, LiveIs DEF AppendRows, Fresh, Holds
<1>. QED
  BY <1>1, <1>2, <1>5, <1>8, <1>9 DEF Placed
----------------------------------------------------------------------------
\* One side of a fill.  Its price is the order's limit or better.
BetterFor(o, price) ==
    IF o.side = "BUY" THEN price <= o.price ELSE price >= o.price

LegNumbers(leg, o, i, q) ==
    /\ leg.id = i /\ leg.order = o
    /\ leg.prior \in Nat /\ leg.notional \in Nat /\ leg.notional > 0
    /\ leg.fee = FeeDelta(leg.prior, leg.notional, FeeBps)
    /\ leg.fee \in Nat /\ leg.fee <= leg.notional
    /\ o.action = "BUY" => /\ leg.notional <= UserLimit(o) * q
                           /\ leg.amt = -(leg.notional + leg.fee)
    /\ o.action = "SELL" => /\ leg.notional >= UserLimit(o) * q
                            /\ leg.amt = leg.notional - leg.fee

LEMMA PositiveProduct ==
    ASSUME NEW a \in Nat, NEW b \in Nat, a > 0, b > 0
    PROVE  a * b \in Nat /\ a * b > 0
  OBVIOUS

LEMMA LegWorks ==
    ASSUME NEW st, Typed(st), NEW i \in DOMAIN st.orders,
           NEW fill, fill.price \in Prices, fill.qty \in Nat, fill.qty > 0,
           BetterFor(st.orders[i], fill.price)
    PROVE  /\ LegNumbers(FillLeg(st, fill, i), st.orders[i], i, fill.qty)
           /\ FillLeg(st, fill, i).prior = ChainExecuted(st, i)
           /\ FillLeg(st, fill, i).notional
                = UserPrice(st.orders[i].outcome, fill.price, PayoutMilli) * fill.qty
<1>. DEFINE o == st.orders[i]
            q == fill.qty
            up == UserPrice(o.outcome, fill.price, PayoutMilli)
            n == up * q
            e == ChainExecuted(st, i)
            f == FeeDelta(e, n, FeeBps)
            leg == FillLeg(st, fill, i)
<1>1. OrderRow(o) /\ q \in Nat /\ q > 0
  BY DEF Typed
<1>2. leg = [id |-> i, order |-> o, notional |-> n, prior |-> e,
             fee |-> f, amt |-> PartyPosting(o, n, f)]
  BY DEF FillLeg
<1>3. /\ up \in Nat /\ up > 0 /\ UserLimit(o) \in Nat
      /\ o.action = "BUY" => up <= UserLimit(o)
      /\ o.action = "SELL" => UserLimit(o) <= up
  BY <1>1, PayoutAssumption
     DEF OrderRow, UserLimit, UserPrice, Prices, Outcomes, Sides, BetterFor,
         Opposite
<1>. HIDE DEF o, q, up, e
<1>4. n \in Nat /\ n > 0
  BY <1>1, <1>3, PositiveProduct
<1>5. /\ o.action = "BUY" => n <= UserLimit(o) * q
      /\ o.action = "SELL" => UserLimit(o) * q <= n
  BY <1>1, <1>3, ProductMonotone
<1>6. e \in Nat
  BY ChainExecutedNat DEF e
<1>. HIDE DEF n
<1>7. f \in Nat /\ f <= n
  BY <1>4, <1>6, FeeDeltaNat, FeeAtMostNotional
<1>8. UserLimit(o) * q \in Int
  BY <1>1, <1>3
<1>9. LegNumbers(leg, o, i, q)
  <2>1. /\ leg.id = i /\ leg.order = o /\ leg.prior = e /\ leg.notional = n
        /\ leg.fee = f /\ leg.amt = PartyPosting(o, n, f)
    BY <1>2
  <2>. HIDE DEF leg
  <2>. QED
    BY <1>4, <1>5, <1>6, <1>7, <1>8, <2>1 DEF LegNumbers, PartyPosting
<1>10. leg.prior = e /\ leg.notional = n
  BY <1>2
<1>. QED
  BY <1>9, <1>10 DEF o, q, up, e, n

\* A seller is paid.
Credited(st, r, o, amount) ==
    /\ Keeps(st, r, {"balance"}) /\ r.balance \in [Users -> Nat]
    /\ r.balance[o.owner]
         = st.balance[o.owner] + (IF o.action = "SELL" THEN amount ELSE 0)
    /\ \A v \in Users \ {o.owner} : r.balance[v] = st.balance[v]

LEMMA CreditWorks ==
    ASSUME NEW st, DOMAIN st = Fields, st.balance \in [Users -> Nat],
           NEW o, o.owner \in Users, NEW amount \in Int,
           o.action = "SELL" => amount >= 0
    PROVE  Credited(st, CreditSeller(st, o, amount), o, amount)
<1>. DEFINE r == CreditSeller(st, o, amount)
            u == o.owner
<1>1. CASE o.action = "SELL"
  <2>1. r = [st EXCEPT !.balance[u] = @ + amount]
    BY <1>1 DEF CreditSeller, MutateCash
  <2>2. Keeps(st, r, {"balance"})
        /\ r.balance = [st.balance EXCEPT ![u] = @ + amount]
    BY <2>1 DEF Keeps, Fields
  <2>3. st.balance[u] + amount \in Nat
    BY <1>1
  <2>. HIDE DEF r
  <2>. QED
    BY <1>1, <2>2, <2>3 DEF Credited, r
<1>2. CASE o.action # "SELL"
  <2>1. r = st
    BY <1>2 DEF CreditSeller
  <2>2. st.balance[u] \in Nat
    OBVIOUS
  <2>. QED
    BY <1>2, <2>1, <2>2 DEF Credited, Keeps
<1>. QED
  BY <1>1, <1>2

\* Contracts change hands.
Delivered(o, outcome, q) ==
    IF o.outcome # outcome THEN 0 ELSE IF o.action = "BUY" THEN q ELSE -q
Sold(o, outcome, q) ==
    IF o.action = "SELL" /\ o.outcome = outcome THEN q ELSE 0

Traded(p, o, q) ==
    IF o.action = "BUY"
    THEN IF o.outcome = "YES" THEN [p EXCEPT !.yes = @ + q]
                              ELSE [p EXCEPT !.no = @ + q]
    ELSE IF o.outcome = "YES" THEN [p EXCEPT !.yes = @ - q, !.rYes = @ - q]
                              ELSE [p EXCEPT !.no = @ - q, !.rNo = @ - q]

\* The contracts of order o are for sale.
Offered(p, o, q) ==
    /\ p \in Position /\ p.rYes <= p.yes /\ p.rNo <= p.no
    /\ o.action \in {"BUY", "SELL"} /\ o.outcome \in {"YES", "NO"}
    /\ Sold(o, "YES", q) <= p.rYes /\ Sold(o, "NO", q) <= p.rNo

LEMMA TradedShares ==
    ASSUME NEW p, NEW o, NEW q \in Nat, Offered(p, o, q),
           NEW r, r = Traded(p, o, q)
    PROVE  /\ r \in Position /\ r.rYes <= r.yes /\ r.rNo <= r.no
           /\ r.yes = p.yes + Delivered(o, "YES", q)
           /\ r.no = p.no + Delivered(o, "NO", q)
           /\ r.rYes = p.rYes - Sold(o, "YES", q)
           /\ r.rNo = p.rNo - Sold(o, "NO", q)
<1>1. /\ p \in Position /\ p.yes \in Nat /\ p.no \in Nat
      /\ p.rYes \in Nat /\ p.rNo \in Nat
      /\ p.rYes <= p.yes /\ p.rNo <= p.no
      /\ o.action \in {"BUY", "SELL"} /\ o.outcome \in {"YES", "NO"}
  BY DEF Offered, Position
<1>2. CASE o.action = "BUY" /\ o.outcome = "YES"
  <2>. DEFINE v == p.yes + q
  <2>1. r = [p EXCEPT !.yes = v] /\ v \in Nat /\ p.rYes <= v
    BY <1>1, <1>2 DEF Traded
  <2>. HIDE DEF v
  <2>2. /\ r \in Position /\ r.yes = v /\ r.no = p.no
        /\ r.rYes = p.rYes /\ r.rNo = p.rNo
    BY <1>1, <2>1 DEF Position
  <2>. QED
    BY <1>1, <1>2, <2>1, <2>2 DEF Delivered, Sold, v
<1>3. CASE o.action = "BUY" /\ o.outcome = "NO"
  <2>. DEFINE v == p.no + q
  <2>1. r = [p EXCEPT !.no = v] /\ v \in Nat /\ p.rNo <= v
    BY <1>1, <1>3 DEF Traded
  <2>. HIDE DEF v
  <2>2. /\ r \in Position /\ r.yes = p.yes /\ r.no = v
        /\ r.rYes = p.rYes /\ r.rNo = p.rNo
    BY <1>1, <2>1 DEF Position
  <2>. QED
    BY <1>1, <1>3, <2>1, <2>2 DEF Delivered, Sold, v
<1>4. CASE o.action = "SELL" /\ o.outcome = "YES"
  <2>. DEFINE v == p.yes - q
              w == p.rYes - q
  <2>1. q <= p.rYes
    BY <1>4 DEF Offered, Sold
  <2>2. r = [p EXCEPT !.yes = v, !.rYes = w] /\ v \in Nat /\ w \in Nat /\ w <= v
    BY <1>1, <1>4, <2>1 DEF Traded
  <2>. HIDE DEF v, w
  <2>3. /\ r \in Position /\ r.yes = v /\ r.no = p.no
        /\ r.rYes = w /\ r.rNo = p.rNo
    BY <1>1, <2>2 DEF Position
  <2>. QED
    BY <1>1, <1>4, <2>2, <2>3 DEF Delivered, Sold, v, w
<1>5. CASE o.action = "SELL" /\ o.outcome = "NO"
  <2>. DEFINE v == p.no - q
              w == p.rNo - q
  <2>1. q <= p.rNo
    BY <1>5 DEF Offered, Sold
  <2>2. r = [p EXCEPT !.no = v, !.rNo = w] /\ v \in Nat /\ w \in Nat /\ w <= v
    BY <1>1, <1>5, <2>1 DEF Traded
  <2>. HIDE DEF v, w
  <2>3. /\ r \in Position /\ r.yes = p.yes /\ r.no = v
        /\ r.rYes = p.rYes /\ r.rNo = w
    BY <1>1, <2>2 DEF Position
  <2>. QED
    BY <1>1, <1>5, <2>2, <2>3 DEF Delivered, Sold, v, w
<1>. QED
  BY <1>1, <1>2, <1>3, <1>4, <1>5

Exchanged(st, r, o, q) ==
    /\ Keeps(st, r, {"pos"}) /\ r.pos \in [Users -> Position]
    /\ r.pos[o.owner] = Traded(st.pos[o.owner], o, q)
    /\ \A v \in Users \ {o.owner} : r.pos[v] = st.pos[v]

LEMMA PositionLegWorks ==
    ASSUME NEW st, DOMAIN st = Fields, st.pos \in [Users -> Position],
           NEW o, o.owner \in Users, NEW q \in Nat,
           Offered(st.pos[o.owner], o, q)
    PROVE  Exchanged(st, ApplyPositionLeg(st, o, q), o, q)
<1>. DEFINE u == o.owner
            p == st.pos[u]
            x == Traded(p, o, q)
            r == ApplyPositionLeg(st, o, q)
<1>1. /\ p.yes \in Nat /\ p.no \in Nat /\ p.rYes \in Nat /\ p.rNo \in Nat
      /\ p.rYes <= p.yes /\ p.rNo <= p.no
      /\ o.action \in {"BUY", "SELL"} /\ o.outcome \in {"YES", "NO"}
  BY DEF Offered, Position
<1>2. x \in Position
  BY TradedShares
<1>3. Keeps(st, r, {"pos"}) /\ r.pos = [st.pos EXCEPT ![u] = x]
  <2>1. CASE o.action = "BUY" /\ o.outcome = "YES"
    <3>1. r = [st EXCEPT !.pos[u].yes = @ + q]
      BY <2>1 DEF ApplyPositionLeg
    <3>. QED
      BY <2>1, <3>1 DEF Keeps, Fields, Traded
  <2>2. CASE o.action = "BUY" /\ o.outcome = "NO"
    <3>1. r = [st EXCEPT !.pos[u].no = @ + q]
      BY <2>2 DEF ApplyPositionLeg
    <3>. QED
      BY <2>2, <3>1 DEF Keeps, Fields, Traded
  <2>3. CASE o.action = "SELL" /\ o.outcome = "YES"
    <3>1. p.yes >= q /\ p.rYes >= q
      BY <1>1, <2>3 DEF Offered, Sold
    <3>2. r = [st EXCEPT !.pos[u] = [p EXCEPT !.yes = @ - q, !.rYes = @ - q]]
      BY <2>3, <3>1 DEF ApplyPositionLeg, Check
    <3>3. x = [p EXCEPT !.yes = @ - q, !.rYes = @ - q]
      BY <2>3 DEF Traded
    <3>. HIDE DEF r
    <3>4. r = [st EXCEPT !.pos[u] = x]
      BY <3>2, <3>3, Zenon
    <3>. HIDE DEF x
    <3>. QED
      BY <3>4 DEF Keeps, Fields
  <2>4. CASE o.action = "SELL" /\ o.outcome = "NO"
    <3>1. p.no >= q /\ p.rNo >= q
      BY <1>1, <2>4 DEF Offered, Sold
    <3>2. r = [st EXCEPT !.pos[u] = [p EXCEPT !.no = @ - q, !.rNo = @ - q]]
      BY <2>4, <3>1 DEF ApplyPositionLeg, Check
    <3>3. x = [p EXCEPT !.no = @ - q, !.rNo = @ - q]
      BY <2>4 DEF Traded
    <3>. HIDE DEF r
    <3>4. r = [st EXCEPT !.pos[u] = x]
      BY <3>2, <3>3, Zenon
    <3>. HIDE DEF x
    <3>. QED
      BY <3>4 DEF Keeps, Fields
  <2>. QED
    BY <1>1, <2>1, <2>2, <2>3, <2>4
<1>. HIDE DEF x, r
<1>. QED
  BY <1>2, <1>3 DEF Exchanged, x, r

\* The supply of both outcomes grows or shrinks, or stays.
SupplyGrowth(kind, q) ==
    IF kind = "MINT" THEN q ELSE IF kind = "BURN" THEN -q ELSE 0

Supplied(st, r, kind, q) ==
    /\ Keeps(st, r, {"supply"})
    /\ r.supply.yes = st.supply.yes + SupplyGrowth(kind, q)
    /\ r.supply.no = st.supply.no + SupplyGrowth(kind, q)

LEMMA SupplyWorks ==
    ASSUME NEW st, DOMAIN st = Fields, st.fault = "NONE",
           st.supply.yes \in Nat, st.supply.no \in Nat, NEW q \in Nat, NEW kind,
           kind = "BURN" => st.supply.yes >= q /\ st.supply.no >= q,
           NEW r, r = ApplySupply(st, kind, q)
    PROVE  \/ DOMAIN r = Fields /\ r.fault = "REFUSED"
           \/ Supplied(st, r, kind, q)
<1>1. CASE kind = "MINT"
  <2>. DEFINE room == /\ st.supply.yes <= MaxQuantity - q
                      /\ st.supply.no <= MaxQuantity - q
              s == Check(st, room, "REFUSED")
  <2>1. r = [s EXCEPT !.supply = [yes |-> @.yes + q, no |-> @.no + q]]
    BY <1>1 DEF ApplySupply
  <2>2. CASE room
    <3>1. s = st
      BY <2>2 DEF Check
    <3>. HIDE DEF s
    <3>. QED
      BY <1>1, <2>1, <3>1 DEF Supplied, SupplyGrowth, Keeps, Fields
  <2>3. CASE ~room
    <3>1. s = [st EXCEPT !.fault = "REFUSED"]
      BY <2>3 DEF Check, Fail
    <3>2. DOMAIN s = Fields /\ s.fault = "REFUSED"
      BY <3>1 DEF Fields
    <3>. HIDE DEF s
    <3>. QED
      BY <2>1, <3>2 DEF Fields
  <2>. QED
    BY <2>2, <2>3
<1>2. CASE kind = "BURN"
  <2>1. r = [st EXCEPT !.supply = [yes |-> @.yes - q, no |-> @.no - q]]
    BY <1>2 DEF ApplySupply, Check
  <2>. QED
    BY <1>2, <2>1 DEF Supplied, SupplyGrowth, Keeps, Fields
<1>3. CASE kind # "MINT" /\ kind # "BURN"
  <2>1. r = st
    BY <1>3 DEF ApplySupply
  <2>. QED
    BY <1>3, <2>1 DEF Supplied, SupplyGrowth, Keeps
<1>. QED
  BY <1>1, <1>2, <1>3
----------------------------------------------------------------------------
\* The reservation after a fill.
HoldsFor(x, o, left, executed) ==
    /\ o.action = "BUY" =>
         Holds(x, UserLimit(o) * left,
               FeeDelta(executed, UserLimit(o) * left, FeeBps), 0, 0)
    /\ o.action = "SELL" /\ o.outcome = "YES" => Holds(x, 0, 0, left, 0)
    /\ o.action = "SELL" /\ o.outcome = "NO" => Holds(x, 0, 0, 0, left)

\* The rows of an order whose fill is posted but whose reservation still is
\* the one from before; e is what its chain had executed.
LegRows(st, i, u, q, n, f, e) ==
    /\ u \in Users /\ i \in 1 .. MaxOrders /\ i \in 1 .. Len(st.orders)
    /\ DOMAIN st = Fields /\ Len(st.orders) \in Nat
    /\ st.balance \in [Users -> Nat] /\ st.acct \in [Accounts -> Nat]
    /\ IsRows(st.orders, Len(st.orders)) /\ IsRows(st.resv, Len(st.orders))
    /\ OrderRow(st.orders[i]) /\ st.orders[i].owner = u
    /\ q \in 1 .. st.orders[i].rem /\ n \in Nat /\ e \in Nat
    /\ f = FeeDelta(e, n, FeeBps)
    /\ st.acct[Wallet(u)] = st.balance[u]
    /\ HoldsFor(st.resv[i], st.orders[i], st.orders[i].rem, e)
    /\ st.orders[i].action = "BUY" => n <= UserLimit(st.orders[i]) * q
    /\ st.acct[Escrow(i)]
         = IF st.orders[i].action = "BUY"
           THEN st.resv[i].principal + st.resv[i].fee - n - f ELSE 0

AdjustRows(st, r, i, u, left, executed) ==
    /\ Keeps(st, r, {"balance", "acct", "resv"})
    /\ IsRows(r.resv, Len(st.orders))
    /\ HoldsFor(r.resv[i], st.orders[i], left, executed)
    /\ \A j \in (1 .. Len(st.orders)) \ {i} : r.resv[j] = st.resv[j]
    /\ r.balance \in [Users -> Nat] /\ r.acct \in [Accounts -> Nat]
    /\ r.acct[Wallet(u)] = r.balance[u]
    /\ r.acct[Escrow(i)] = r.resv[i].principal + r.resv[i].fee
    /\ r.balance[u] + r.acct[Escrow(i)] = st.balance[u] + st.acct[Escrow(i)]
    /\ \A a \in Accounts \ {Wallet(u), Escrow(i)} : r.acct[a] = st.acct[a]
    /\ \A v \in Users \ {u} : r.balance[v] = st.balance[v]

\* A seller keeps the contracts of the rest of the order reserved.
LEMMA AdjustShares ==
    ASSUME NEW st, NEW i, NEW u, NEW q, NEW n, NEW f, NEW e,
           LegRows(st, i, u, q, n, f, e), st.orders[i].action = "SELL",
           NEW r, r = AdjustReservation(st, i, q, n, f, e)
    PROVE  AdjustRows(st, r, i, u, st.orders[i].rem - q, e + n)
<1>. DEFINE o == st.orders[i]
            left == o.rem - q
            x == IF o.outcome = "YES" THEN [st.resv[i] EXCEPT !.yes = left]
                                      ELSE [st.resv[i] EXCEPT !.no = left]
<1>1. /\ DOMAIN st = Fields /\ o.outcome \in {"YES", "NO"}
      /\ left \in Nat /\ st.acct[Escrow(i)] = 0
      /\ HoldsFor(st.resv[i], o, o.rem, e)
      /\ IsRows(st.resv, Len(st.orders)) /\ Len(st.orders) \in Nat
      /\ i \in 1 .. Len(st.orders)
  <2>1. /\ DOMAIN st = Fields /\ OrderRow(o) /\ q \in 1 .. o.rem
        /\ st.acct[Escrow(i)] = 0 /\ HoldsFor(st.resv[i], o, o.rem, e)
        /\ IsRows(st.resv, Len(st.orders)) /\ Len(st.orders) \in Nat
        /\ i \in 1 .. Len(st.orders)
    BY DEF LegRows
  <2>. HIDE DEF o
  <2>2. o.outcome \in {"YES", "NO"} /\ o.rem \in Nat
    BY <2>1 DEF OrderRow, Outcomes
  <2>. QED
    BY <2>1, <2>2
<1>. HIDE DEF left
<1>2. HoldsFor(x, o, left, e + n) /\ x.principal = 0 /\ x.fee = 0
  <2>1. CASE o.outcome = "YES"
    <3>1. Holds(st.resv[i], 0, 0, o.rem, 0)
      BY <1>1, <2>1 DEF HoldsFor
    <3>2. Holds(x, 0, 0, left, 0)
      BY <1>1, <2>1, <3>1 DEF Holds, Reservation
    <3>. QED
      BY <2>1, <3>2 DEF HoldsFor, Holds
  <2>2. CASE o.outcome = "NO"
    <3>1. Holds(st.resv[i], 0, 0, 0, o.rem)
      BY <1>1, <2>2 DEF HoldsFor
    <3>2. Holds(x, 0, 0, 0, left)
      BY <1>1, <2>2, <3>1 DEF Holds, Reservation
    <3>. QED
      BY <2>2, <3>2 DEF HoldsFor, Holds
  <2>. QED
    BY <1>1, <2>1, <2>2
<1>3. Keeps(st, r, {"resv"}) /\ r.resv = [st.resv EXCEPT ![i] = x]
  <2>1. CASE o.outcome = "YES"
    <3>1. r = [st EXCEPT !.resv[i].yes = left]
      BY <2>1 DEF AdjustReservation, left
    <3>. QED
      BY <1>1, <2>1, <3>1 DEF Keeps, Fields
  <2>2. CASE o.outcome # "YES"
    <3>1. r = [st EXCEPT !.resv[i].no = left]
      BY <2>2 DEF AdjustReservation, left
    <3>. QED
      BY <1>1, <2>2, <3>1 DEF Keeps, Fields
  <2>. QED
    BY <2>1, <2>2
<1>. HIDE DEF x
<1>4. /\ IsRows(r.resv, Len(st.orders)) /\ r.resv[i] = x
      /\ \A j \in (1 .. Len(st.orders)) \ {i} : r.resv[j] = st.resv[j]
  <2>1. Replaces(st.resv, r.resv, i, x)
    BY <1>3 DEF Replaces
  <2>. QED
    BY <1>1, <2>1, RowsExcept
<1>5. /\ Keeps(st, r, {"balance", "acct", "resv"})
      /\ r.balance = st.balance /\ r.acct = st.acct
  BY <1>3 DEF Keeps, Fields
<1>6. /\ r.balance \in [Users -> Nat] /\ r.acct \in [Accounts -> Nat]
      /\ r.acct[Wallet(u)] = r.balance[u]
  BY <1>5 DEF LegRows
<1>7. /\ r.acct[Escrow(i)] = r.resv[i].principal + r.resv[i].fee
      /\ r.balance[u] + r.acct[Escrow(i)] = st.balance[u] + st.acct[Escrow(i)]
  BY <1>1, <1>2, <1>4, <1>5
<1>8. /\ \A a \in Accounts \ {Wallet(u), Escrow(i)} : r.acct[a] = st.acct[a]
      /\ \A v \in Users \ {u} : r.balance[v] = st.balance[v]
  BY <1>5
<1>9. HoldsFor(r.resv[i], o, left, e + n)
  BY <1>2, <1>4
<1>10. AdjustRows(st, r, i, u, left, e + n)
  BY <1>4, <1>5, <1>6, <1>7, <1>8, <1>9 DEF AdjustRows
<1>. QED
  BY <1>10 DEF left

\* A buyer gets back what a better price or a smaller fee freed.
LEMMA AdjustCash ==
    ASSUME NEW st, NEW i, NEW u, NEW q, NEW n, NEW f, NEW e,
           LegRows(st, i, u, q, n, f, e), st.orders[i].action = "BUY",
           NEW r, r = AdjustReservation(st, i, q, n, f, e)
    PROVE  AdjustRows(st, r, i, u, st.orders[i].rem - q, e + n)
<1>. DEFINE o == st.orders[i]
            l == UserLimit(o)
            left == o.rem - q
            p == l * left
            g == FeeDelta(e + n, p, FeeBps)
            held == st.resv[i].principal + st.resv[i].fee
            release == held - n - f - p - g
            back == -release
            m == MoveCash(st, u, i, back)
            s == IF release > 0 THEN m ELSE st
            x == [st.resv[i] EXCEPT !.principal = p, !.fee = g]
<1>1. /\ DOMAIN st = Fields /\ Len(st.orders) \in Nat
      /\ IsRows(st.resv, Len(st.orders)) /\ i \in 1 .. Len(st.orders)
      /\ o.rem \in Nat /\ q \in 1 .. o.rem /\ n \in Nat /\ e \in Nat
      /\ l \in Nat /\ n <= l * q /\ f = FeeDelta(e, n, FeeBps)
      /\ Holds(st.resv[i], l * o.rem, FeeDelta(e, l * o.rem, FeeBps), 0, 0)
      /\ st.acct[Escrow(i)] = held - n - f
  <2>1. /\ DOMAIN st = Fields /\ Len(st.orders) \in Nat
        /\ IsRows(st.resv, Len(st.orders)) /\ i \in 1 .. Len(st.orders)
        /\ OrderRow(o) /\ q \in 1 .. o.rem /\ n \in Nat /\ e \in Nat
        /\ n <= l * q /\ f = FeeDelta(e, n, FeeBps)
        /\ HoldsFor(st.resv[i], o, o.rem, e)
        /\ st.acct[Escrow(i)] = held - n - f
    <3>1. /\ DOMAIN st = Fields /\ Len(st.orders) \in Nat
          /\ IsRows(st.resv, Len(st.orders)) /\ i \in 1 .. Len(st.orders)
          /\ OrderRow(o) /\ q \in 1 .. o.rem /\ n \in Nat /\ e \in Nat
      BY DEF LegRows
    <3>2. n <= l * q /\ f = FeeDelta(e, n, FeeBps)
      BY DEF LegRows
    <3>3. HoldsFor(st.resv[i], o, o.rem, e)
      BY DEF LegRows
    <3>4. st.acct[Escrow(i)] = held - n - f
      <4>1. st.acct[Escrow(i)]
              = IF o.action = "BUY"
                THEN st.resv[i].principal + st.resv[i].fee - n - f ELSE 0
        BY Zenon DEF LegRows
      <4>2. /\ st.resv[i].principal \in Nat /\ st.resv[i].fee \in Nat
            /\ n \in Nat
        BY <3>1, <3>3 DEF HoldsFor, Holds, Reservation
      <4>3. f \in Nat
        BY <3>1, <3>2, FeeDeltaNat
      <4>. QED
        BY <4>1, <4>2, <4>3
    <3>. HIDE DEF l, o, held
    <3>. QED
      BY <3>1, <3>2, <3>3, <3>4
  <2>2. l \in Nat
    BY <2>1, UserLimitNat
  <2>3. o.rem \in Nat
    BY <2>1 DEF OrderRow
  <2>4. Holds(st.resv[i], l * o.rem, FeeDelta(e, l * o.rem, FeeBps), 0, 0)
    BY <2>1 DEF HoldsFor
  <2>. HIDE DEF l, o, held
  <2>. QED
    BY <2>1, <2>2, <2>3, <2>4
<1>2. /\ left \in Nat /\ p \in Nat /\ g \in Nat /\ f \in Nat /\ held \in Nat
      /\ n + f + p + g <= held
  <2>1. /\ l * o.rem \in Nat /\ p \in Nat
        /\ n + FeeDelta(e, n, FeeBps) + p + g
             <= l * o.rem + FeeDelta(e, l * o.rem, FeeBps)
    <3>. HIDE DEF l, o
    <3>. QED
      BY <1>1, HeldCovers
  <2>2. e + n \in Nat
    BY <1>1
  <2>. HIDE DEF p, l, o
  <2>3. /\ g \in Nat /\ f \in Nat /\ FeeDelta(e, l * o.rem, FeeBps) \in Nat
    BY <1>1, <2>1, <2>2, FeeDeltaNat
  <2>4. held = l * o.rem + FeeDelta(e, l * o.rem, FeeBps) /\ held \in Nat
    <3>1. /\ st.resv[i].principal = l * o.rem
          /\ st.resv[i].fee = FeeDelta(e, l * o.rem, FeeBps)
      BY <1>1 DEF Holds
    <3>2. held = l * o.rem + FeeDelta(e, l * o.rem, FeeBps)
      BY <3>1, Zenon
    <3>. HIDE DEF held
    <3>. QED
      BY <2>1, <2>3, <3>2
  <2>. HIDE DEF g, held
  <2>5. left \in Nat
    BY <1>1
  <2>. QED
    BY <1>1, <2>1, <2>3, <2>4, <2>5
<1>3. Holds(x, p, g, 0, 0) /\ HoldsFor(x, o, left, e + n)
  <2>. HIDE DEF p, g
  <2>1. Holds(x, p, g, 0, 0)
    BY <1>1, <1>2 DEF Holds, Reservation
  <2>. HIDE DEF x
  <2>. QED
    BY <2>1 DEF HoldsFor, p, g
<1>4. r = [s EXCEPT !.resv[i] = [@ EXCEPT !.principal = p, !.fee = g]]
  <2>1. ~(release < 0)
    <3>1. n \in Nat /\ f \in Nat /\ p \in Nat /\ g \in Nat /\ held \in Nat
          /\ n + f + p + g <= held
      BY <1>1, <1>2
    <3>. HIDE DEF p, g, held
    <3>. QED
      BY <3>1
  <2>2. o.action # "SELL" /\ u = o.owner
    BY DEF LegRows
  <2>. HIDE DEF release
  <2>. QED
    BY <2>1, <2>2, Zenon DEF AdjustReservation, release, p, l, left, g, held
<1>. HIDE DEF p, g, held, l, left, o
<1>5. /\ release \in Nat /\ release = st.acct[Escrow(i)] - p - g
      /\ st.acct[Escrow(i)] \in Nat
  <2>1. /\ n \in Nat /\ f \in Nat /\ p \in Nat /\ g \in Nat /\ held \in Nat
        /\ n + f + p + g <= held /\ st.acct[Escrow(i)] = held - n - f
    BY <1>1, <1>2
  <2>. QED
    BY <2>1
<1>6. /\ u \in Users /\ i \in 1 .. MaxOrders
      /\ st.balance \in [Users -> Nat] /\ st.acct \in [Accounts -> Nat]
      /\ st.acct[Wallet(u)] = st.balance[u] /\ st.balance[u] \in Nat
  BY DEF LegRows
<1>. HIDE DEF release
<1>7. /\ Keeps(st, s, {"balance", "acct"})
      /\ s.balance \in [Users -> Nat] /\ s.acct \in [Accounts -> Nat]
      /\ s.balance[u] = st.balance[u] + release
      /\ s.acct[Wallet(u)] = st.balance[u] + release
      /\ s.acct[Escrow(i)] = st.acct[Escrow(i)] - release
      /\ \A a \in Accounts \ {Wallet(u), Escrow(i)} : s.acct[a] = st.acct[a]
      /\ \A v \in Users \ {u} : s.balance[v] = st.balance[v]
  <2>1. CASE release > 0
    <3>1. /\ back \in Int /\ back # 0 /\ ~(back > 0)
          /\ st.balance[u] - back >= 0 /\ st.acct[Escrow(i)] + back >= 0
          /\ st.balance[u] - back = st.balance[u] + release
          /\ st.acct[Escrow(i)] + back = st.acct[Escrow(i)] - release
      BY <1>2, <1>5, <1>6, <2>1
    <3>. HIDE DEF back
    <3>2. Moved(st, m, u, i, back) /\ m.balance \in [Users -> Nat]
      BY <1>1, <1>6, <3>1, MoveCashWorks
    <3>. HIDE DEF m
    <3>3. s = m
      BY <2>1
    <3>. HIDE DEF s
    <3>. QED
      BY <1>6, <3>1, <3>2, <3>3 DEF Moved
  <2>2. CASE ~(release > 0)
    <3>1. s = st /\ release = 0
      BY <1>5, <2>2
    <3>. HIDE DEF s
    <3>2. s.balance = st.balance /\ s.acct = st.acct /\ Keeps(st, s, {"balance", "acct"})
      BY <1>1, <3>1 DEF Keeps
    <3>. QED
      BY <1>5, <1>6, <3>1, <3>2
  <2>. QED
    BY <2>1, <2>2
<1>. HIDE DEF s
<1>8. s.resv = st.resv /\ DOMAIN s = Fields
  BY <1>7 DEF Keeps, Fields
<1>9. Keeps(s, r, {"resv"}) /\ r.resv = [st.resv EXCEPT ![i] = x]
  BY <1>4, <1>8 DEF Keeps, Fields
<1>. HIDE DEF x
<1>10. /\ IsRows(r.resv, Len(st.orders)) /\ r.resv[i] = x
       /\ \A j \in (1 .. Len(st.orders)) \ {i} : r.resv[j] = st.resv[j]
  <2>1. Replaces(st.resv, r.resv, i, x)
    BY <1>9 DEF Replaces
  <2>. QED
    BY <1>1, <2>1, RowsExcept
<1>11. /\ Keeps(st, r, {"balance", "acct", "resv"})
       /\ r.balance = s.balance /\ r.acct = s.acct
  BY <1>7, <1>9 DEF Keeps, Fields
<1>12. /\ r.resv[i].principal = p /\ r.resv[i].fee = g
  BY <1>3, <1>10 DEF Holds
<1>13. /\ r.acct[Wallet(u)] = r.balance[u]
       /\ r.acct[Escrow(i)] = r.resv[i].principal + r.resv[i].fee
       /\ r.balance[u] + r.acct[Escrow(i)] = st.balance[u] + st.acct[Escrow(i)]
  BY <1>2, <1>5, <1>6, <1>7, <1>11, <1>12
<1>14. AdjustRows(st, r, i, u, left, e + n)
  BY <1>3, <1>7, <1>10, <1>11, <1>13 DEF AdjustRows, o
<1>. QED
  BY <1>14 DEF left, o

\* The order's row counts the fill.
UpdateRows(st, r, i, u, q, n, f, e) ==
    /\ Keeps(st, r, {"balance", "acct", "resv", "orders"})
    /\ IsRows(r.orders, Len(st.orders)) /\ IsRows(r.resv, Len(st.orders))
    /\ r.orders[i] = FilledOrder(st.orders[i], q, n, f)
    /\ HoldsFor(r.resv[i], st.orders[i], st.orders[i].rem - q, e + n)
    /\ \A j \in (1 .. Len(st.orders)) \ {i} : /\ r.resv[j] = st.resv[j]
                                              /\ r.orders[j] = st.orders[j]
    /\ r.balance \in [Users -> Nat] /\ r.acct \in [Accounts -> Nat]
    /\ r.acct[Wallet(u)] = r.balance[u]
    /\ r.acct[Escrow(i)] = r.resv[i].principal + r.resv[i].fee
    /\ r.balance[u] + r.acct[Escrow(i)] = st.balance[u] + st.acct[Escrow(i)]
    /\ \A a \in Accounts \ {Wallet(u), Escrow(i)} : r.acct[a] = st.acct[a]
    /\ \A v \in Users \ {u} : r.balance[v] = st.balance[v]

LEMMA UpdateWorks ==
    ASSUME NEW st, NEW i, NEW u, NEW q, NEW n, NEW f, NEW e,
           LegRows(st, i, u, q, n, f, e)
    PROVE  UpdateRows(st, UpdateFilledOrder(st, i, q, n, f, e), i, u, q, n, f, e)
<1>. DEFINE s == AdjustReservation(st, i, q, n, f, e)
            r == UpdateFilledOrder(st, i, q, n, f, e)
            x == FilledOrder(st.orders[i], q, n, f)
<1>1. AdjustRows(st, s, i, u, st.orders[i].rem - q, e + n)
  <2>1. st.orders[i].action \in {"BUY", "SELL"}
    BY DEF LegRows, OrderRow, Sides
  <2>. QED
    BY <2>1, AdjustShares, AdjustCash
<1>2. r = [s EXCEPT !.orders[i] = FilledOrder(@, q, n, f)]
  BY DEF UpdateFilledOrder
<1>. HIDE DEF s, r
<1>3. DOMAIN s = Fields /\ s.orders = st.orders
  BY <1>1 DEF AdjustRows, Keeps, Fields
<1>4. Keeps(s, r, {"orders"}) /\ r.orders = [st.orders EXCEPT ![i] = x]
  BY <1>2, <1>3 DEF Keeps, Fields
<1>. HIDE DEF x
<1>5. /\ IsRows(r.orders, Len(st.orders)) /\ r.orders[i] = x
      /\ \A j \in (1 .. Len(st.orders)) \ {i} : r.orders[j] = st.orders[j]
  <2>1. /\ IsRows(st.orders, Len(st.orders)) /\ Len(st.orders) \in Nat
        /\ i \in 1 .. Len(st.orders)
    BY DEF LegRows
  <2>2. Replaces(st.orders, r.orders, i, x)
    BY <1>4 DEF Replaces
  <2>. QED
    BY <2>1, <2>2, RowsExcept
<1>6. /\ Keeps(st, r, {"balance", "acct", "resv", "orders"})
      /\ r.balance = s.balance /\ r.acct = s.acct /\ r.resv = s.resv
  BY <1>1, <1>4 DEF AdjustRows, Keeps, Fields
<1>7. UpdateRows(st, r, i, u, q, n, f, e)
  BY <1>1, <1>5, <1>6 DEF AdjustRows, UpdateRows, x
<1>. QED
  BY <1>7 DEF r

LEMMA FilledRow ==
    ASSUME NEW o, OrderRow(o), NEW q \in 1 .. o.rem, NEW n \in Nat, NEW f \in Nat,
           NEW e, e = FilledOrder(o, q, n, f)
    PROVE  /\ OrderRow(e)
           /\ e.owner = o.owner /\ e.outcome = o.outcome /\ e.action = o.action
           /\ e.side = o.side /\ e.price = o.price /\ e.chain = o.chain
           /\ e.tif = o.tif /\ e.exp = o.exp
           /\ e.rem = o.rem - q /\ e.filled = o.filled + q
           /\ e.notional = o.notional + n /\ e.fee = o.fee + f
<1>. DEFINE v == o.rem - q
            w == o.filled + q
            a == o.notional + n
            b == o.fee + f
            c == IF o.rem = q THEN "FILLED" ELSE "PARTIALLY_FILLED"
<1>1. /\ v \in Nat /\ w \in Nat /\ a \in Nat /\ b \in Nat
      /\ v > 0 => c \in ActiveStatus
  BY DEF OrderRow, ActiveStatus
<1>2. e = [o EXCEPT !.rem = v, !.filled = w, !.fee = b, !.notional = a,
                    !.status = c]
  BY DEF FilledOrder
<1>. HIDE DEF v, w, a, b, c
<1>3. /\ OrderKept(o, e, {"rem", "filled", "fee", "notional", "status"})
      /\ e.rem = v /\ e.filled = w /\ e.fee = b /\ e.notional = a
      /\ e.status = c
  BY <1>2 DEF OrderRow, OrderKept, OrderFields
<1>4. /\ e.owner = o.owner /\ e.outcome = o.outcome /\ e.action = o.action
      /\ e.side = o.side /\ e.price = o.price /\ e.chain = o.chain
      /\ e.tif = o.tif /\ e.exp = o.exp /\ e.canceled = o.canceled
  BY <1>3 DEF OrderKept, OrderFields
<1>5. OrderRow(e)
  BY <1>1, <1>3, <1>4 DEF OrderRow, OrderKept
<1>. QED
  BY <1>3, <1>4, <1>5 DEF v, w, a, b
----------------------------------------------------------------------------
\* One leg of a fill, in rows where everything is as it must be.
LegReady(st, x, q) ==
    /\ Sound(st) /\ x.id \in DOMAIN st.orders /\ IsLive(st.orders[x.id])
    /\ q \in 1 .. st.orders[x.id].rem
    /\ LegNumbers(x, st.orders[x.id], x.id, q)
    /\ x.prior = ChainExecuted(st, x.id)

LEMMA LegHolds ==
    ASSUME NEW st, NEW x, NEW q, LegReady(st, x, q)
    PROVE  /\ HoldsFor(st.resv[x.id], st.orders[x.id], st.orders[x.id].rem, x.prior)
           /\ Offered(st.pos[st.orders[x.id].owner], st.orders[x.id], q)
           /\ st.acct[Escrow(x.id)]
                = st.resv[x.id].principal + st.resv[x.id].fee
           /\ st.acct[Wallet(st.orders[x.id].owner)]
                = st.balance[st.orders[x.id].owner]
<1>. DEFINE i == x.id
            o == st.orders[i]
            u == o.owner
<1>1. /\ Typed(st) /\ OrderRow(o) /\ i \in DOMAIN st.orders /\ IsLive(o)
      /\ st.resv[i] = Backing(st, i) /\ q \in 1 .. o.rem
      /\ x.prior = ChainExecuted(st, i) /\ Custody(st)
  BY DEF LegReady, Sound, SoundBut, Typed
<1>2. /\ u \in Users /\ o.action \in {"BUY", "SELL"}
      /\ o.outcome \in {"YES", "NO"} /\ o.rem \in Nat
  BY <1>1 DEF OrderRow, Sides, Outcomes
<1>3. HoldsFor(st.resv[i], o, o.rem, x.prior)
  BY <1>1, BackingFields DEF HoldsFor, FeeHeld, Principal
<1>4. OwnerRows(st, i, u)
  BY <1>1, OwnersRows DEF LegReady
<1>5. Sold(o, "YES", q) <= st.resv[i].yes /\ Sold(o, "NO", q) <= st.resv[i].no
  <2>1. st.resv[i].yes \in Nat /\ st.resv[i].no \in Nat
    BY <1>4 DEF OwnerRows, Reservation
  <2>. QED
    BY <1>1, <1>2, <1>3, <2>1 DEF HoldsFor, Holds, Sold
<1>6. Offered(st.pos[u], o, q)
  <2>1. /\ st.pos[u] \in Position
        /\ st.resv[i].yes <= st.pos[u].rYes /\ st.resv[i].no <= st.pos[u].rNo
        /\ st.pos[u].rYes <= st.pos[u].yes /\ st.pos[u].rNo <= st.pos[u].no
    BY <1>4 DEF OwnerRows
  <2>2. /\ st.resv[i].yes \in Nat /\ st.resv[i].no \in Nat
        /\ st.pos[u].rYes \in Nat /\ st.pos[u].rNo \in Nat
    BY <1>4, <2>1, Zenon DEF OwnerRows, Reservation, Position
  <2>3. Sold(o, "YES", q) \in Nat /\ Sold(o, "NO", q) \in Nat
    BY <1>1 DEF Sold
  <2>. HIDE DEF i, o, u
  <2>4. Sold(o, "YES", q) <= st.pos[u].rYes /\ Sold(o, "NO", q) <= st.pos[u].rNo
    BY <1>5, <2>1, <2>2, <2>3
  <2>. QED
    BY <1>2, <2>1, <2>4 DEF Offered
<1>. QED
  BY <1>1, <1>2, <1>3, <1>6 DEF Custody

\* A buyer's escrow pays for the fill.
LEMMA LegPays ==
    ASSUME NEW st, NEW x, NEW q, LegReady(st, x, q),
           st.orders[x.id].action = "BUY"
    PROVE  st.acct[Escrow(x.id)] + x.amt >= 0
<1>. DEFINE i == x.id
            o == st.orders[i]
            l == UserLimit(o)
            n == x.notional
            e == x.prior
            rest == l * (o.rem - q)
            g == FeeDelta(e + n, rest, FeeBps)
<1>1. /\ l \in Nat /\ o.rem \in Nat /\ q \in 1 .. o.rem /\ e \in Nat /\ n \in Nat
      /\ n <= l * q /\ x.fee = FeeDelta(e, n, FeeBps) /\ x.fee \in Nat
      /\ x.amt = -(n + x.fee)
  <2>1. OrderRow(o)
    BY DEF LegReady, Sound, SoundBut, Typed
  <2>. QED
    BY <2>1, UserLimitNat DEF OrderRow, LegReady, LegNumbers
<1>2. st.acct[Escrow(i)] = l * o.rem + FeeDelta(e, l * o.rem, FeeBps)
  BY LegHolds DEF HoldsFor, Holds
<1>. HIDE DEF i, o, l, n, e
<1>3. /\ l * o.rem \in Nat /\ rest \in Nat
      /\ n + x.fee + rest + g <= l * o.rem + FeeDelta(e, l * o.rem, FeeBps)
  BY <1>1, HeldCovers
<1>4. g \in Nat /\ FeeDelta(e, l * o.rem, FeeBps) \in Nat
  <2>1. e + n \in Nat
    BY <1>1
  <2>. QED
    BY <1>1, <1>3, <2>1, FeeDeltaNat
<1>. HIDE DEF g, rest
<1>5. st.acct[Escrow(i)] + x.amt >= 0
  BY <1>1, <1>2, <1>3, <1>4
<1>. QED
  BY <1>5 DEF i

\* What a leg leaves of its order and of its owner's rows.
LegDone(st, r, x, q) ==
    LET o == st.orders[x.id]
        u == o.owner
    IN  /\ r.orders[x.id] = FilledOrder(o, q, x.notional, x.fee)
        /\ HoldsFor(r.resv[x.id], o, o.rem - q, x.prior + x.notional)
        /\ r.balance[u] \in Nat /\ r.acct[Escrow(x.id)] \in Nat
        /\ r.acct[Wallet(u)] = r.balance[u]
        /\ r.acct[Escrow(x.id)] = r.resv[x.id].principal + r.resv[x.id].fee
        /\ r.balance[u] + r.acct[Escrow(x.id)]
             = st.balance[u] + st.acct[Escrow(x.id)] + x.amt
        /\ r.pos[u] = Traded(st.pos[u], o, q)

LEMMA LegFacts ==
    ASSUME NEW st, NEW x, NEW q, LegReady(st, x, q)
    PROVE  /\ Typed(st) /\ OrderRow(st.orders[x.id])
           /\ Protected(st.orders[x.id])
           /\ st.orders[x.id].owner \in Users
           /\ st.orders[x.id].action \in {"BUY", "SELL"}
           /\ st.orders[x.id].outcome \in {"YES", "NO"}
           /\ st.orders[x.id].rem \in Nat
           /\ q \in 1 .. st.orders[x.id].rem /\ q \in Nat /\ q > 0
           /\ x.id \in DOMAIN st.orders /\ x.id \in 1 .. MaxOrders
           /\ IsLive(st.orders[x.id])
           /\ LegNumbers(x, st.orders[x.id], x.id, q)
<1>. DEFINE o == st.orders[x.id]
<1>1. /\ Sound(st) /\ x.id \in DOMAIN st.orders /\ IsLive(o)
      /\ q \in 1 .. o.rem /\ LegNumbers(x, o, x.id, q)
  BY DEF LegReady
<1>2. Typed(st) /\ Protected(o)
  BY <1>1 DEF Sound, SoundBut
<1>3. OrderRow(o) /\ x.id \in 1 .. MaxOrders
  BY <1>1, <1>2, RowsDomain DEF Typed
<1>. HIDE DEF o
<1>4. /\ o.owner \in Users /\ o.action \in {"BUY", "SELL"}
      /\ o.outcome \in {"YES", "NO"} /\ o.rem \in Nat
  BY <1>3 DEF OrderRow, Sides, Outcomes
<1>5. q \in Nat /\ q > 0
  BY <1>1, <1>4
<1>. QED
  BY <1>1, <1>2, <1>3, <1>4, <1>5 DEF o

LEMMA LegOwner ==
    ASSUME NEW st, NEW r, NEW x, NEW q, LegReady(st, x, q), LegDone(st, r, x, q)
    PROVE  OwnerChange(st, r, x.id, st.orders[x.id].owner)
<1>. DEFINE i == x.id
            o == st.orders[i]
            u == o.owner
            e == r.orders[i]
            p == st.pos[u]
            s == r.pos[u]
<1>1. /\ Typed(st) /\ OrderRow(o) /\ u \in Users /\ q \in 1 .. o.rem /\ q \in Nat
      /\ o.action \in {"BUY", "SELL"} /\ o.outcome \in {"YES", "NO"}
      /\ i \in DOMAIN st.orders /\ i \in 1 .. MaxOrders
  BY LegFacts
<1>2. /\ x.notional \in Nat /\ x.fee \in Nat
      /\ o.action = "BUY" => x.amt = -(x.notional + x.fee)
      /\ o.action = "SELL" => x.amt = x.notional - x.fee
  BY DEF LegReady, LegNumbers
<1>3. /\ e.outcome = o.outcome /\ e.action = o.action
      /\ e.filled = o.filled + q /\ e.notional = o.notional + x.notional
      /\ e.fee = o.fee + x.fee
  <2>1. e = FilledOrder(o, q, x.notional, x.fee)
    BY DEF LegDone
  <2>. HIDE DEF e, o
  <2>. QED
    BY <1>1, <1>2, <2>1, FilledRow
<1>4. /\ p.yes \in Nat /\ p.no \in Nat /\ p.rYes \in Nat /\ p.rNo \in Nat
      /\ Offered(p, o, q)
  <2>1. Offered(p, o, q)
    BY LegHolds
  <2>. QED
    BY <2>1 DEF Offered, Position
<1>5. /\ s \in Position /\ s.rYes <= s.yes /\ s.rNo <= s.no
      /\ s.yes = p.yes + Delivered(o, "YES", q)
      /\ s.no = p.no + Delivered(o, "NO", q)
      /\ s.rYes = p.rYes - Sold(o, "YES", q)
      /\ s.rNo = p.rNo - Sold(o, "NO", q)
  <2>1. s = Traded(p, o, q)
    BY DEF LegDone
  <2>. HIDE DEF s, p, o
  <2>. QED
    BY <1>1, <1>4, <2>1, TradedShares
<1>6. /\ r.resv[i].yes - st.resv[i].yes = -Sold(o, "YES", q)
      /\ r.resv[i].no - st.resv[i].no = -Sold(o, "NO", q)
  <2>1. /\ HoldsFor(st.resv[i], o, o.rem, x.prior)
        /\ HoldsFor(r.resv[i], o, o.rem - q, x.prior + x.notional)
    BY LegHolds, Zenon DEF LegDone
  <2>2. o.rem \in Nat
    BY <1>1 DEF OrderRow
  <2>. QED
    BY <1>1, <2>1, <2>2 DEF HoldsFor, Holds, Sold
<1>7. /\ Bought(e, "YES") - Bought(o, "YES") = Delivered(o, "YES", q)
      /\ Bought(e, "NO") - Bought(o, "NO") = Delivered(o, "NO", q)
  <2>1. o.filled \in Nat
    BY <1>1 DEF OrderRow
  <2>. QED
    BY <1>1, <1>3, <2>1 DEF Bought, Delivered
<1>8. Proceeds(e) - Proceeds(o) = x.amt
  <2>1. o.notional \in Nat /\ o.fee \in Nat
    BY <1>1 DEF OrderRow
  <2>. QED
    BY <1>1, <1>2, <1>3, <2>1 DEF Proceeds, PartyPosting
<1>9. /\ Delivered(o, "YES", q) \in Int /\ Delivered(o, "NO", q) \in Int
      /\ Sold(o, "YES", q) \in Int /\ Sold(o, "NO", q) \in Int
  BY <1>1 DEF Delivered, Sold
<1>10. /\ r.balance[u] \in Nat /\ r.acct[Wallet(u)] = r.balance[u]
       /\ r.balance[u] + r.acct[Escrow(i)]
             = st.balance[u] + st.acct[Escrow(i)] + x.amt
       /\ r.acct[Escrow(i)] \in Nat
  BY DEF LegDone
<1>11. st.balance[u] \in Nat /\ st.acct[Escrow(i)] \in Nat
  BY <1>1, AccountNames DEF Typed
<1>12. x.amt \in Int
  BY <1>1, <1>2
<1>. HIDE DEF i, o, u, e, p, s
<1>13. /\ s.rYes - p.rYes = r.resv[i].yes - st.resv[i].yes
       /\ s.rNo - p.rNo = r.resv[i].no - st.resv[i].no
       /\ s.yes - p.yes = Bought(e, "YES") - Bought(o, "YES")
       /\ s.no - p.no = Bought(e, "NO") - Bought(o, "NO")
  BY <1>4, <1>5, <1>6, <1>7, <1>9
<1>14. r.balance[u] + r.acct[Escrow(i)] - st.balance[u] - st.acct[Escrow(i)]
         = Proceeds(e) - Proceeds(o)
  BY <1>8, <1>10, <1>11, <1>12
<1>. QED
  BY <1>5, <1>10, <1>13, <1>14, Zenon DEF OwnerChange, i, o, u, e, p, s

LEMMA Distributes ==
    ASSUME NEW a \in Int, NEW b \in Int, NEW c \in Int
    PROVE  a * (b + c) = a * b + a * c
  OBVIOUS

LEMMA FillProtected ==
    ASSUME NEW l \in Nat, NEW a \in Nat, NEW q \in Nat, NEW n \in Nat, NEW b \in Nat
    PROVE  /\ n <= l * a /\ b <= l * q => n + b <= l * (a + q)
           /\ n >= l * a /\ b >= l * q => n + b >= l * (a + q)
<1>1. l * (a + q) = l * a + l * q /\ l * a \in Nat /\ l * q \in Nat
  OBVIOUS
<1>. QED
  BY <1>1

LEMMA LegOrder ==
    ASSUME NEW st, NEW r, NEW x, NEW q, LegReady(st, x, q), LegDone(st, r, x, q),
           ChainExecuted(r, x.id) = x.prior + x.notional
    PROVE  OrderChange(st, r, x.id)
<1>. DEFINE i == x.id
            o == st.orders[i]
            e == r.orders[i]
            left == o.rem - q
            b == Backing(r, i)
<1>1. /\ OrderRow(o) /\ q \in 1 .. o.rem /\ Protected(o)
      /\ o.action \in {"BUY", "SELL"} /\ o.outcome \in {"YES", "NO"}
  BY LegFacts
<1>2. /\ x.notional \in Nat /\ x.fee \in Nat /\ x.prior \in Nat
      /\ o.action = "BUY" => x.notional <= UserLimit(o) * q
      /\ o.action = "SELL" => x.notional >= UserLimit(o) * q
  BY DEF LegReady, LegNumbers
<1>3. /\ OrderRow(e) /\ e.owner = o.owner /\ e.chain = o.chain
      /\ e.outcome = o.outcome /\ e.action = o.action /\ e.price = o.price
      /\ e.rem = left /\ e.filled = o.filled + q
      /\ e.notional = o.notional + x.notional
  <2>1. e = FilledOrder(o, q, x.notional, x.fee)
    BY DEF LegDone
  <2>. HIDE DEF e, o
  <2>. QED
    BY <1>1, <1>2, <2>1, FilledRow
<1>4. Protected(e)
  <2>1. /\ UserLimit(e) = UserLimit(o) /\ UserLimit(o) \in Nat
        /\ o.filled \in Nat /\ o.notional \in Nat /\ q \in Nat
    BY <1>1, <1>3, UserLimitNat DEF UserLimit, OrderRow
  <2>. DEFINE l == UserLimit(o)
  <2>2. /\ o.action = "BUY" => o.notional <= l * o.filled
        /\ o.action = "SELL" => o.notional >= l * o.filled
    BY <1>1 DEF Protected
  <2>3. /\ o.action = "BUY" => o.notional + x.notional <= l * (o.filled + q)
        /\ o.action = "SELL" => o.notional + x.notional >= l * (o.filled + q)
    <3>. HIDE DEF l, o
    <3>. QED
      BY <1>2, <2>1, <2>2, FillProtected DEF l
  <2>. QED
    BY <1>1, <1>3, <2>1, <2>3 DEF Protected
<1>5. /\ HoldsFor(r.resv[i], o, left, x.prior + x.notional)
      /\ r.acct[Escrow(i)] = r.resv[i].principal + r.resv[i].fee
  BY DEF LegDone
<1>6. r.resv[i] \in Reservation
  BY <1>1, <1>5 DEF HoldsFor, Holds
<1>7. HoldsFor(b, o, left, x.prior + x.notional)
  <2>1. UserLimit(e) = UserLimit(o) /\ UserLimit(o) \in Nat
    BY <1>1, <1>3, UserLimitNat DEF UserLimit
  <2>2. left \in Nat
    BY <1>1 DEF OrderRow
  <2>3. IsLive(e) <=> left > 0
    BY <1>3, LiveIs
  <2>. DEFINE p == UserLimit(o) * left
              g == FeeDelta(x.prior + x.notional, p, FeeBps)
  <2>4. p \in Nat /\ g \in Nat /\ (left = 0 => p = 0 /\ g = 0)
    <3>1. p \in Nat /\ (left = 0 => p = 0) /\ x.prior + x.notional \in Nat
      BY <1>2, <2>1, <2>2
    <3>. HIDE DEF p
    <3>. QED
      BY <3>1, FeeDeltaNat
  <2>5. Principal(r, i) = p /\ FeeHeld(r, i) = g
    BY <1>3, <2>1 DEF Principal, FeeHeld
  <2>6. CASE left > 0
    <3>1. /\ e.action = "BUY" => b = [NoReservation EXCEPT !.principal = p,
                                                           !.fee = g]
          /\ e.action = "SELL" /\ e.outcome = "YES"
                => b = [NoReservation EXCEPT !.yes = left]
          /\ e.action = "SELL" /\ e.outcome = "NO"
                => b = [NoReservation EXCEPT !.no = left]
      <4>1. /\ IsLive(e) /\ e.rem = left
        BY <1>3, <2>3, <2>6
      <4>. HIDE DEF e, b, left, p, g
      <4>2. /\ e.action = "BUY" => b = [NoReservation EXCEPT
                                          !.principal = Principal(r, i),
                                          !.fee = FeeHeld(r, i)]
            /\ e.action = "SELL" /\ e.outcome = "YES"
                  => b = [NoReservation EXCEPT !.yes = e.rem]
            /\ e.action = "SELL" /\ e.outcome = "NO"
                  => b = [NoReservation EXCEPT !.no = e.rem]
        BY <4>1, BackingIs, Zenon DEF e, b
      <4>. QED
        BY <2>5, <4>1, <4>2
    <3>. HIDE DEF p, g, b, left
    <3>2. /\ e.action = "BUY" => Holds(b, p, g, 0, 0)
          /\ e.action = "SELL" /\ e.outcome = "YES" => Holds(b, 0, 0, left, 0)
          /\ e.action = "SELL" /\ e.outcome = "NO" => Holds(b, 0, 0, 0, left)
      <4>1. ASSUME e.action = "BUY"
            PROVE  Holds(b, p, g, 0, 0)
        BY <2>4, <3>1, <4>1, NoReservationIs DEF Holds, Reservation
      <4>2. ASSUME e.action = "SELL", e.outcome = "YES"
            PROVE  Holds(b, 0, 0, left, 0)
        BY <2>2, <3>1, <4>2, NoReservationIs DEF Holds, Reservation
      <4>3. ASSUME e.action = "SELL", e.outcome = "NO"
            PROVE  Holds(b, 0, 0, 0, left)
        BY <2>2, <3>1, <4>3, NoReservationIs DEF Holds, Reservation
      <4>. QED
        BY <4>1, <4>2, <4>3
    <3>. QED
      BY <1>3, <3>2 DEF HoldsFor, p, g
  <2>7. CASE left = 0
    <3>1. b = NoReservation
      <4>1. ~IsLive(e)
        BY <2>2, <2>3, <2>7
      <4>. QED
        BY <4>1, BackingIs, Zenon
    <3>. HIDE DEF b, p, g, left
    <3>2. Holds(b, 0, 0, 0, 0)
      BY <3>1, NoReservationIs DEF Holds
    <3>. QED
      BY <2>4, <2>7, <3>2 DEF HoldsFor, p, g
  <2>. QED
    BY <2>2, <2>6, <2>7
<1>8. r.resv[i] = b
  <2>. HIDE DEF b
  <2>. QED
    BY <1>1, <1>5, <1>7, HoldsSame DEF HoldsFor
<1>. QED
  BY <1>3, <1>4, <1>5, <1>6, <1>8 DEF OrderChange
=============================================================================
