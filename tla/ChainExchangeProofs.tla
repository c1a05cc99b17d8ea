------------------------ MODULE ChainExchangeProofs ------------------------
(***************************************************************************)
(* Proofs about the on-chain program (ChainExchange) and the book it keeps *)
(* (ChainBook), for any market, traders, orders, fee rate and capacity.    *)
(*                                                                         *)
(* First the heaps, then one order's way through the book, the reserves    *)
(* and the sums of the seats, and last the invariant every instruction     *)
(* keeps.  Loops are folds; what is needed about them comes from           *)
(* FoldTheorems, one instance for each loop of the code.                   *)
(***************************************************************************)
EXTENDS ChainExchange, FiniteSetTheorems, SequenceTheorems, TLAPS

----------------------------------------------------------------------------
\* Induction: on numbers, and on the size of a finite set.
LEMMA NatInduct ==
    ASSUME NEW S, 0 \in S, \A n \in Nat : n \in S => n + 1 \in S
    PROVE  Nat \subseteq S
<1>. SUFFICES ASSUME NEW m \in Nat, m \notin S
              PROVE  FALSE
  OBVIOUS
<1>. DEFINE bad == Nat \ S
<1>1. PICK n \in bad : \A k \in bad : <<k, n>> \notin OpToRel(<, Nat)
  <2>1. bad # {} /\ bad \subseteq Nat
    OBVIOUS
  <2>. QED
    BY <2>1, WFMin, NatLessThanWellFounded, Zenon
<1>2. \A k \in bad : ~(k < n)
  BY <1>1, Zenon DEF OpToRel
<1>3. n \in Nat /\ n # 0
  BY Zenon
<1>4. n - 1 \in Nat /\ n - 1 < n /\ (n - 1) + 1 = n
  BY <1>3
<1>5. n - 1 \in S
  BY <1>2, <1>4
<1>. QED
  BY <1>4, <1>5

\* Every family of subsets of a finite set has a smallest one, by their sizes.
FamilyEnds(S) ==
    \A family \in SUBSET SUBSET S :
        family # {} => \E T \in family : \A R \in family : R \subseteq T => R = T

LEMMA FiniteEnds ==
    ASSUME NEW S, IsFiniteSet(S)
    PROVE  FamilyEnds(S)
<1>. SUFFICES ASSUME NEW family \in SUBSET SUBSET S, family # {}
              PROVE  \E T \in family : \A R \in family : R \subseteq T => R = T
  BY DEF FamilyEnds
<1>. DEFINE sizes == {Cardinality(T) : T \in family}
<1>1. \A T \in family : IsFiniteSet(T) /\ Cardinality(T) \in Nat
  BY FS_Subset, FS_CardinalityType
<1>2. PICK T \in family : \A R \in family : ~(Cardinality(R) < Cardinality(T))
  <2>1. sizes # {} /\ sizes \subseteq Nat
    BY <1>1
  <2>. HIDE DEF sizes
  <2>2. PICK n \in sizes : \A k \in sizes : <<k, n>> \notin OpToRel(<, Nat)
    BY <2>1, WFMin, NatLessThanWellFounded, Zenon
  <2>3. \A k \in sizes : ~(k < n)
    BY <2>1, <2>2, Zenon DEF OpToRel
  <2>. QED
    BY <2>3 DEF sizes
<1>3. ASSUME NEW R \in family, R \subseteq T
      PROVE  R = T
  <2>1. ~(Cardinality(R) < Cardinality(T))
    BY <1>2
  <2>2. Cardinality(R) <= Cardinality(T) /\ (Cardinality(T) = Cardinality(R) => T = R)
    BY <1>1, <1>3, FS_Subset
  <2>. QED
    BY <1>1, <2>1, <2>2
<1>. QED
  BY <1>3

LEMMA RangeEnds ==
    ASSUME NEW n \in Nat
    PROVE  FamilyEnds(1 .. n)
BY FS_Interval, FiniteEnds

----------------------------------------------------------------------------
\* A slot's way to its place: the context names the book, the side and the slot.
RiseIn(c, h, p) == Rise(c.book, c.side, c.slot, h, p)
SinkIn(c, h, p) == Sink(c.book, c.side, c.slot, h, p)
Up == INSTANCE FoldTheorems WITH Step <- RiseIn, Pick <- Min
Down == INSTANCE FoldTheorems WITH Step <- SinkIn, Pick <- Max

----------------------------------------------------------------------------
\* The loops of the model are the folds of these instances.
LEMMA UpIs ==
    ASSUME NEW c, NEW h
    PROVE  SiftUp(c.book, c.side, h, c.slot) = Up!Fold(c, h, DOMAIN h)
BY DEF SiftUp, Up!Fold, Up!MapThenFoldSet, MapThenFoldSet, RiseIn

LEMMA DownIs ==
    ASSUME NEW c, NEW h
    PROVE  SiftDown(c.book, c.side, h, c.slot) = Down!Fold(c, h, DOMAIN h)
BY DEF SiftDown, Down!Fold, Down!MapThenFoldSet, MapThenFoldSet, SinkIn

----------------------------------------------------------------------------
\* The first and the last position of a loop.
LEMMA FiniteHasEnds ==
    ASSUME NEW S, IsFiniteSet(S), S \subseteq Int, S # {}
    PROVE  /\ Max(S) \in S /\ \A i \in S : i <= Max(S)
           /\ Min(S) \in S /\ \A i \in S : i >= Min(S)
<1>. DEFINE has(T) == /\ \E m \in T : \A i \in T : m >= i
                      /\ \E m \in T : \A i \in T : m <= i
            good == {T \in SUBSET S : T = {} \/ has(T)}
<1>1. {} \in good
  OBVIOUS
<1>2. ASSUME NEW T \in SUBSET S, NEW x \in S \ T, T \in good
      PROVE  T \union {x} \in good
  <2>1. x \in Int /\ T \subseteq Int
    OBVIOUS
  <2>2. CASE T = {}
    <3>1. has(T \union {x})
      BY <2>1, <2>2
    <3>. QED
      BY <3>1
  <2>3. CASE has(T)
    <3>1. PICK m \in T : \A i \in T : m >= i
      BY <2>3
    <3>2. PICK l \in T : \A i \in T : l <= i
      BY <2>3
    <3>3. \E k \in T \union {x} : \A i \in T \union {x} : k >= i
      <4>1. CASE m >= x
        BY <3>1, <4>1
      <4>2. CASE x > m
        <5>1. \A i \in T \union {x} : x >= i
          BY <2>1, <3>1, <4>2
        <5>. QED
          BY <5>1
      <4>. QED
        BY <2>1, <3>1, <4>1, <4>2
    <3>4. \E k \in T \union {x} : \A i \in T \union {x} : k <= i
      <4>1. CASE l <= x
        BY <3>2, <4>1
      <4>2. CASE x < l
        <5>1. \A i \in T \union {x} : x <= i
          BY <2>1, <3>2, <4>2
        <5>. QED
          BY <5>1
      <4>. QED
        BY <2>1, <3>2, <4>1, <4>2
    <3>. QED
      BY <3>3, <3>4
  <2>. QED
    BY <1>2, <2>2, <2>3
<1>. HIDE DEF good
<1>3. S \in good
  <2>1. FamilyEnds(S)
    BY FiniteEnds
  <2>2. Up!Finite(S)
    BY <2>1, Zenon DEF FamilyEnds, Up!Finite, Up!Smallest
  <2>. QED
    BY <1>1, <1>2, <2>2, Up!SetInduct
<1>4. has(S)
  BY <1>3 DEF good
<1>5. PICK m \in S : \A i \in S : m >= i
  BY <1>4
<1>6. PICK l \in S : \A i \in S : l <= i
  BY <1>4
<1>. QED
  BY <1>5, <1>6 DEF Max, Min

LEMMA EndsOfRange ==
    ASSUME NEW n \in Nat, NEW T \in SUBSET (1 .. n), T # {}
    PROVE  /\ Max(T) \in T /\ \A i \in T : i <= Max(T)
           /\ Min(T) \in T /\ \A i \in T : i >= Min(T)
<1>1. IsFiniteSet(T)
  <2>1. IsFiniteSet(1 .. n)
    BY FS_Interval
  <2>. QED
    BY <2>1, FS_Subset
<1>2. T \subseteq Int
  OBVIOUS
<1>. QED
  BY <1>1, <1>2, FiniteHasEnds

LEMMA DownInOrder == \A n \in Nat : Down!InOrder(n)
BY EndsOfRange, RangeEnds DEF FamilyEnds, Down!InOrder, Down!Finite, Down!Smallest

----------------------------------------------------------------------------
\* Heaps.  Their entries are distinct slots, each better than those below it.
\* On a set of slots of one side the order is strict.
Ranked(b, side, S) ==
    \A x, y, z \in S :
       /\ ~Better(b, side, x, x)
       /\ x # y => Better(b, side, x, y) \/ Better(b, side, y, x)
       /\ Better(b, side, x, y) /\ Better(b, side, y, z) => Better(b, side, x, z)

Distinct(h) == \A i, j \in 1 .. Len(h) : h[i] = h[j] => i = j
Entries(h) == {h[i] : i \in 1 .. Len(h)}
IsRow(h) == h \in Seq(Int) /\ Distinct(h)

\* g has the entries of h, in another order.
Rearranged(h, g) == IsRow(g) /\ Len(g) = Len(h) /\ Entries(g) = Entries(h)

Parent(i) == i \div 2
Above(b, side, h, i) == Better(b, side, h[Parent(i)], h[i])
Heaped(b, side, h) == \A i \in 2 .. Len(h) : Above(b, side, h, i)

LEMMA Family ==
    ASSUME NEW i \in Nat, i > 1
    PROVE  /\ Parent(i) \in 1 .. i - 1
           /\ i = 2 * Parent(i) \/ i = 2 * Parent(i) + 1
BY DEF Parent

LEMMA Children ==
    ASSUME NEW i \in Nat, i > 0
    PROVE  Parent(2 * i) = i /\ Parent(2 * i + 1) = i
BY DEF Parent

LEMMA SwappedIs ==
    ASSUME NEW h, IsRow(h), NEW i \in 1 .. Len(h), NEW j \in 1 .. Len(h), i # j
    PROVE  /\ Rearranged(h, Swapped(h, i, j))
           /\ Swapped(h, i, j)[i] = h[j] /\ Swapped(h, i, j)[j] = h[i]
           /\ \A k \in 1 .. Len(h) \ {i, j} : Swapped(h, i, j)[k] = h[k]
<1>. DEFINE g == Swapped(h, i, j)
<1>1. h \in Seq(Int) /\ Distinct(h) /\ h[i] \in Int /\ h[j] \in Int
  BY DEF IsRow
<1>2. /\ g \in Seq(Int) /\ Len(g) = Len(h)
      /\ g[i] = h[j] /\ g[j] = h[i]
      /\ \A k \in 1 .. Len(h) \ {i, j} : g[k] = h[k]
  <2>1. [h EXCEPT ![i] = h[j]] \in Seq(Int) /\ Len([h EXCEPT ![i] = h[j]]) = Len(h)
    BY <1>1, ExceptSeq
  <2>2. g = [[h EXCEPT ![i] = h[j]] EXCEPT ![j] = h[i]]
    BY DEF Swapped
  <2>3. g \in Seq(Int) /\ Len(g) = Len(h)
    BY <1>1, <2>1, <2>2, ExceptSeq
  <2>. QED
    BY <1>1, <2>3 DEF Swapped
<1>. HIDE DEF g
<1>3. Distinct(g)
  BY <1>1, <1>2 DEF Distinct
<1>4. Entries(g) = Entries(h)
  <2>1. ASSUME NEW k \in 1 .. Len(h)
        PROVE  (\E m \in 1 .. Len(h) : h[m] = g[k]) /\ (\E m \in 1 .. Len(h) : g[m] = h[k])
    <3>1. CASE k = i
      BY <1>2, <3>1
    <3>2. CASE k = j
      BY <1>2, <3>2
    <3>3. CASE k \notin {i, j}
      BY <1>2, <3>3
    <3>. QED
      BY <3>1, <3>2, <3>3
  <2>2. ASSUME NEW k \in 1 .. Len(h)
        PROVE  g[k] \in Entries(h) /\ h[k] \in Entries(g)
    <3>1. PICK m \in 1 .. Len(h) : h[m] = g[k]
      BY <2>1
    <3>2. PICK o \in 1 .. Len(h) : g[o] = h[k]
      BY <2>1
    <3>. QED
      BY <1>2, <3>1, <3>2 DEF Entries
  <2>3. Entries(g) \subseteq Entries(h) /\ Entries(h) \subseteq Entries(g)
    BY <1>2, <2>2 DEF Entries
  <2>. QED
    BY <2>2, <2>3
<1>5. Rearranged(h, g)
  BY <1>2, <1>3, <1>4 DEF Rearranged, IsRow
<1>. QED
  BY <1>2, <1>5 DEF g

LEMMA RearrangedAgain ==
    ASSUME NEW f, NEW g, NEW h, Rearranged(f, g), Rearranged(g, h)
    PROVE  Rearranged(f, h)
BY DEF Rearranged

----------------------------------------------------------------------------
\* The way up: only the entry at p may be better than its parent.
Rising(b, side, h, p) ==
    /\ p \in 1 .. Len(h)
    /\ \A i \in 2 .. Len(h) : i # p => Above(b, side, h, i)
    /\ \A i \in 2 .. Len(h) :
          Parent(i) = p /\ p > 1 => Better(b, side, h[Parent(p)], h[i])

\* Where the slot came to rest.
Risen(b, side, h, p) == p = 1 \/ ~Better(b, side, h[p], h[Parent(p)])

LEMMA RisenIsHeaped ==
    ASSUME NEW b, NEW side, NEW h, IsRow(h), Ranked(b, side, Entries(h)), NEW p,
           Rising(b, side, h, p), Risen(b, side, h, p)
    PROVE  Heaped(b, side, h)
<1>. SUFFICES ASSUME NEW i \in 2 .. Len(h) PROVE Above(b, side, h, i)
  BY DEF Heaped
<1>1. CASE i # p
  BY <1>1 DEF Rising
<1>2. CASE i = p
  <2>1. i \in Nat /\ i > 1 /\ Len(h) \in Nat
    BY DEF IsRow
  <2>2. Parent(i) \in 1 .. i - 1
    BY <2>1, Family
  <2>3. i \in 1 .. Len(h) /\ Parent(i) \in 1 .. Len(h) /\ Parent(i) # i
    BY <2>1, <2>2
  <2>4. h[i] # h[Parent(i)]
    BY <2>3 DEF IsRow, Distinct
  <2>5. h[i] \in Entries(h) /\ h[Parent(i)] \in Entries(h)
    BY <2>3 DEF Entries
  <2>6. ~Better(b, side, h[i], h[Parent(i)])
    BY <1>2, <2>1 DEF Risen
  <2>. QED
    BY <2>4, <2>5, <2>6 DEF Ranked, Above
<1>. QED
  BY <1>1, <1>2

LEMMA RiseGoesOn ==
    ASSUME NEW b, NEW side, NEW h, IsRow(h), Ranked(b, side, Entries(h)), NEW p,
           Rising(b, side, h, p), p > 1, Better(b, side, h[p], h[Parent(p)])
    PROVE  Rising(b, side, Swapped(h, p, Parent(p)), Parent(p))
<1>. DEFINE q == Parent(p)
            g == Swapped(h, p, q)
            up(x, y) == Better(b, side, x, y)
<1>1. Len(h) \in Nat /\ p \in Nat /\ p \in 1 .. Len(h)
  BY DEF IsRow, Rising
<1>2. q \in 1 .. p - 1
  BY <1>1, Family
<1>3. q \in 1 .. Len(h) /\ q # p
  BY <1>1, <1>2
<1>4. /\ Len(g) = Len(h) /\ g[p] = h[q] /\ g[q] = h[p]
      /\ \A k \in 1 .. Len(h) \ {p, q} : g[k] = h[k]
  BY <1>1, <1>3, SwappedIs DEF Rearranged
<1>5. \A i \in 1 .. Len(h) : h[i] \in Entries(h)
  BY DEF Entries
<1>6. \A i, j, k \in 1 .. Len(h) : up(h[i], h[j]) /\ up(h[j], h[k]) => up(h[i], h[k])
  BY <1>5 DEF Ranked
<1>7. ASSUME NEW i \in 2 .. Len(h)
      PROVE  /\ i \in 1 .. Len(h) /\ Parent(i) \in 1 .. Len(h) /\ Parent(i) # i
             /\ i # p => up(h[Parent(i)], h[i])
             /\ Parent(i) = p => up(h[q], h[i])
  <2>1. i \in Nat /\ i > 1
    OBVIOUS
  <2>2. Parent(i) \in 1 .. i - 1
    BY <2>1, Family
  <2>. QED
    BY <1>1, <2>2 DEF Rising, Above
<1>. HIDE DEF g, up
<1>8. ASSUME NEW i \in 2 .. Len(h), i # q
      PROVE  up(g[Parent(i)], g[i])
  <2>1. CASE i = p
    BY <1>3, <1>4, <2>1 DEF up
  <2>2. CASE i # p /\ Parent(i) = p
    BY <1>4, <1>7, <1>8, <2>2
  <2>3. CASE i # p /\ Parent(i) = q
    <3>1. up(h[p], h[q]) /\ up(h[q], h[i])
      BY <1>7, <2>3 DEF up
    <3>2. up(h[p], h[i])
      BY <1>1, <1>3, <1>6, <1>7, <3>1
    <3>. QED
      BY <1>4, <1>7, <1>8, <2>3, <3>2
  <2>4. CASE i # p /\ Parent(i) \notin {p, q}
    BY <1>4, <1>7, <1>8, <2>4
  <2>. QED
    BY <2>1, <2>2, <2>3, <2>4
<1>9. ASSUME NEW i \in 2 .. Len(h), Parent(i) = q, q > 1
      PROVE  up(g[Parent(q)], g[i])
  <2>1. q \in 2 .. Len(h)
    BY <1>1, <1>3, <1>9
  <2>2. Parent(q) \in 1 .. q - 1
    BY <1>1, <1>3, <1>9, Family
  <2>3. Parent(q) \in 1 .. Len(h) /\ Parent(q) \notin {p, q}
    BY <1>1, <1>2, <2>2
  <2>4. g[Parent(q)] = h[Parent(q)] /\ up(h[Parent(q)], h[q])
    BY <1>3, <1>4, <1>7, <2>1, <2>3
  <2>5. CASE i = p
    BY <1>4, <2>4, <2>5
  <2>6. CASE i # p
    <3>1. i # q /\ up(h[q], h[i]) /\ i \in 1 .. Len(h)
      BY <1>7, <1>9, <2>6
    <3>2. up(h[Parent(q)], h[i])
      BY <1>3, <1>6, <2>3, <2>4, <3>1
    <3>. QED
      BY <1>4, <2>4, <2>6, <3>1, <3>2
  <2>. QED
    BY <2>5, <2>6
<1>. QED
  BY <1>3, <1>4, <1>8, <1>9 DEF Rising, Above, up, g

\* A loop down from n to 1 takes the positions in that order.
LEMMA UpLoop ==
    ASSUME NEW c, NEW h, NEW n \in Nat, NEW m \in 1 .. n
    PROVE  /\ Up!Fold(c, h, (n + 1) .. n) = h
           /\ Up!Fold(c, h, m .. n) = RiseIn(c, Up!Fold(c, h, (m + 1) .. n), m)
<1>1. (n + 1) .. n = {}
  OBVIOUS
<1>2. \A T \in SUBSET (1 .. n) : T # {} => Min(T) \in T /\ \A i \in T : i >= Min(T)
  BY EndsOfRange
<1>3. IsFiniteSet(m .. n) /\ m .. n # {} /\ m .. n \in SUBSET (1 .. n)
  <2>1. m \in m .. n /\ m .. n \in SUBSET (1 .. n)
    OBVIOUS
  <2>2. IsFiniteSet(m .. n)
    BY FS_Interval
  <2>. QED
    BY <2>1, <2>2
<1>4. Up!Finite(m .. n)
  <2>1. FamilyEnds(m .. n)
    BY <1>3, FiniteEnds
  <2>. QED
    BY <2>1, Zenon DEF FamilyEnds, Up!Finite, Up!Smallest
<1>5. Up!Picks(m .. n)
  BY <1>2, <1>3 DEF Up!Picks
<1>6. Min(m .. n) = m
  <2>1. Min(m .. n) \in m .. n /\ \A i \in m .. n : i >= Min(m .. n)
    BY <1>2, <1>3
  <2>2. m \in m .. n
    OBVIOUS
  <2>. QED
    BY <2>1, <2>2
<1>7. Up!Rest(m .. n) = (m + 1) .. n
  BY <1>6 DEF Up!Rest
<1>. QED
  BY <1>1, <1>3, <1>4, <1>5, <1>6, <1>7, Up!FoldEmpty, Up!FoldLast

\* The positions from m on are done: the slot is above them or has come to rest.
RisenTo(b, side, slot, h, g, m) ==
    /\ Rearranged(h, g)
    /\ \E p \in 1 .. Len(h) :
          /\ g[p] = slot /\ Rising(b, side, g, p)
          /\ p >= m => Risen(b, side, g, p)

LEMMA RiseTurn ==
    ASSUME NEW b, NEW side, NEW h, IsRow(h), Ranked(b, side, Entries(h)), NEW slot,
           NEW g, NEW m \in 1 .. Len(h), RisenTo(b, side, slot, h, g, m + 1)
    PROVE  RisenTo(b, side, slot, h, Rise(b, side, slot, g, m), m)
<1>1. Rearranged(h, g) /\ IsRow(g) /\ Len(g) = Len(h) /\ Ranked(b, side, Entries(g))
  BY DEF RisenTo, Rearranged
<1>2. PICK p \in 1 .. Len(h) :
         /\ g[p] = slot /\ Rising(b, side, g, p)
         /\ p >= m + 1 => Risen(b, side, g, p)
  BY DEF RisenTo
<1>3. Len(h) \in Nat /\ m \in Nat /\ p \in Nat
  BY DEF IsRow
<1>4. g[m] = slot => m = p
  BY <1>1, <1>2 DEF IsRow, Distinct
<1>5. CASE m > 1 /\ g[m] = slot /\ Better(b, side, slot, g[m \div 2])
  <2>1. m = p /\ Parent(m) = m \div 2
    BY <1>4, <1>5 DEF Parent
  <2>2. Parent(m) \in 1 .. m - 1
    BY <1>3, <1>5, Family
  <2>3. Rising(b, side, Swapped(g, m, Parent(m)), Parent(m))
    BY <1>1, <1>2, <1>5, <2>1, RiseGoesOn
  <2>4. Parent(m) \in 1 .. Len(h) /\ Parent(m) # m /\ ~(Parent(m) >= m)
    BY <1>3, <2>2
  <2>5. Rearranged(g, Swapped(g, m, Parent(m))) /\ Swapped(g, m, Parent(m))[Parent(m)] = slot
    BY <1>1, <1>5, <2>4, SwappedIs
  <2>6. Rearranged(h, Swapped(g, m, Parent(m)))
    BY <1>1, <2>5, RearrangedAgain
  <2>7. RisenTo(b, side, slot, h, Swapped(g, m, Parent(m)), m)
    BY <2>3, <2>4, <2>5, <2>6 DEF RisenTo
  <2>. QED
    BY <1>5, <2>1, <2>7 DEF Rise
<1>6. CASE ~(m > 1 /\ g[m] = slot /\ Better(b, side, slot, g[m \div 2]))
  <2>1. p >= m => Risen(b, side, g, p)
    <3>1. CASE p = m
      BY <1>2, <1>3, <1>6, <3>1 DEF Risen, Parent
    <3>2. CASE p # m
      BY <1>2, <1>3, <3>2
    <3>. QED
      BY <3>1, <3>2
  <2>2. RisenTo(b, side, slot, h, g, m)
    BY <1>1, <1>2, <2>1 DEF RisenTo
  <2>. QED
    BY <1>6, <2>2 DEF Rise
<1>. QED
  BY <1>5, <1>6

\* A slot that only its parent may be worse than rises to its place.
LEMMA SiftUpHeaps ==
    ASSUME NEW b, NEW side, NEW h, IsRow(h), Ranked(b, side, Entries(h)),
           NEW hole, Rising(b, side, h, hole)
    PROVE  /\ Rearranged(h, SiftUp(b, side, h, h[hole]))
           /\ Heaped(b, side, SiftUp(b, side, h, h[hole]))
<1>. DEFINE slot == h[hole]
            c == [book |-> b, side |-> side, slot |-> slot]
            n == Len(h)
            R(m) == Up!Fold(c, h, m .. n)
            good == {k \in Nat : k <= n => RisenTo(b, side, slot, h, R((n + 1) - k), (n + 1) - k)}
<1>1. n \in Nat /\ hole \in 1 .. n
  BY DEF IsRow, Rising
<1>2. SiftUp(b, side, h, slot) = R(1)
  <2>1. c.book = b /\ c.side = side /\ c.slot = slot
    OBVIOUS
  <2>2. DOMAIN h = 1 .. n
    BY DEF IsRow
  <2>. HIDE DEF c, slot
  <2>. QED
    BY <2>1, <2>2, UpIs
<1>3. \A m \in 1 .. n : R(n + 1) = h /\ R(m) = Rise(b, side, slot, R(m + 1), m)
  BY <1>1, UpLoop DEF RiseIn
<1>4. 0 \in good
  <2>1. R(n + 1) = h /\ (n + 1) - 0 = n + 1
    BY <1>1, <1>3
  <2>2. RisenTo(b, side, slot, h, h, n + 1)
    BY <1>1 DEF RisenTo, Rearranged
  <2>. HIDE DEF R
  <2>. QED
    BY <2>1, <2>2
<1>5. ASSUME NEW k \in Nat, k \in good
      PROVE  k + 1 \in good
  <2>. DEFINE m == (n + 1) - (k + 1)
  <2>. SUFFICES ASSUME k + 1 <= n PROVE RisenTo(b, side, slot, h, R(m), m)
    BY <1>1
  <2>1. m \in 1 .. n /\ m + 1 = (n + 1) - k /\ k <= n
    BY <1>1
  <2>2. RisenTo(b, side, slot, h, R(m + 1), m + 1)
    BY <1>5, <2>1
  <2>. HIDE DEF R, m
  <2>. QED
    BY <1>3, <2>1, <2>2, RiseTurn
<1>. HIDE DEF good
<1>6. Nat \subseteq good
  BY <1>4, <1>5, NatInduct
<1>7. RisenTo(b, side, slot, h, R(1), 1)
  <2>1. n \in good /\ (n + 1) - n = 1
    BY <1>1, <1>6
  <2>. HIDE DEF R
  <2>. QED
    BY <2>1 DEF good
<1>. HIDE DEF R
<1>8. PICK p \in 1 .. n : Rising(b, side, R(1), p) /\ Risen(b, side, R(1), p)
  BY <1>7 DEF RisenTo
<1>9. Rearranged(h, R(1)) /\ IsRow(R(1)) /\ Ranked(b, side, Entries(R(1)))
  BY <1>7 DEF RisenTo, Rearranged
<1>10. Heaped(b, side, R(1))
  BY <1>8, <1>9, RisenIsHeaped
<1>. QED
  BY <1>2, <1>9, <1>10

----------------------------------------------------------------------------
\* The way down: only the entry at p may be worse than its children.
Sinking(b, side, h, p) ==
    /\ p \in 1 .. Len(h)
    /\ \A i \in 2 .. Len(h) : Parent(i) # p => Above(b, side, h, i)
    /\ \A i \in 2 .. Len(h) :
          Parent(i) = p /\ p > 1 => Better(b, side, h[Parent(p)], h[i])

Sunk(b, side, h, p) ==
    2 * p > Len(h) \/ ~Better(b, side, h[BetterChild(b, side, h, p)], h[p])

\* The better child is a child, and no child is better than it.
LEMMA BetterChildIs ==
    ASSUME NEW b, NEW side, NEW h, IsRow(h), Ranked(b, side, Entries(h)),
           NEW p \in 1 .. Len(h), 2 * p <= Len(h)
    PROVE  /\ BetterChild(b, side, h, p) \in 2 .. Len(h)
           /\ Parent(BetterChild(b, side, h, p)) = p
           /\ BetterChild(b, side, h, p) > p
           /\ \A i \in 2 .. Len(h) :
                 Parent(i) = p => \/ i = BetterChild(b, side, h, p)
                                  \/ Better(b, side, h[BetterChild(b, side, h, p)], h[i])
<1>. DEFINE c == BetterChild(b, side, h, p)
<1>1. Len(h) \in Nat /\ p \in Nat /\ p > 0
  BY DEF IsRow
<1>2. Parent(2 * p) = p /\ Parent(2 * p + 1) = p
  BY <1>1, Children
<1>3. \A i \in 2 .. Len(h) : Parent(i) = p => i = 2 * p \/ i = 2 * p + 1
  <2>1. \A i \in 2 .. Len(h) : i \in Nat /\ i > 1
    OBVIOUS
  <2>. QED
    BY <2>1, Family
<1>4. 2 * p \in 2 .. Len(h) /\ 2 * p > p /\ 2 * p + 1 > p
  BY <1>1
<1>5. CASE 2 * p + 1 <= Len(h) /\ Better(b, side, h[2 * p + 1], h[2 * p])
  <2>1. c = 2 * p + 1 /\ 2 * p + 1 \in 2 .. Len(h)
    BY <1>1, <1>5 DEF BetterChild
  <2>. QED
    BY <1>2, <1>3, <1>4, <1>5, <2>1
<1>6. CASE ~(2 * p + 1 <= Len(h) /\ Better(b, side, h[2 * p + 1], h[2 * p]))
  <2>1. c = 2 * p
    BY <1>6 DEF BetterChild
  <2>2. 2 * p + 1 \in 2 .. Len(h) => Better(b, side, h[2 * p], h[2 * p + 1])
    <3>. SUFFICES ASSUME 2 * p + 1 \in 2 .. Len(h)
                  PROVE  Better(b, side, h[2 * p], h[2 * p + 1])
      OBVIOUS
    <3>1. 2 * p \in 1 .. Len(h) /\ 2 * p + 1 \in 1 .. Len(h) /\ 2 * p # 2 * p + 1
      BY <1>1
    <3>2. h[2 * p] # h[2 * p + 1]
      BY <3>1 DEF IsRow, Distinct
    <3>3. h[2 * p] \in Entries(h) /\ h[2 * p + 1] \in Entries(h)
      BY <3>1 DEF Entries
    <3>. QED
      BY <1>6, <3>2, <3>3 DEF Ranked
  <2>. QED
    BY <1>2, <1>3, <1>4, <2>1, <2>2
<1>. QED
  BY <1>5, <1>6

LEMMA SunkIsHeaped ==
    ASSUME NEW b, NEW side, NEW h, IsRow(h), Ranked(b, side, Entries(h)), NEW p,
           Sinking(b, side, h, p), Sunk(b, side, h, p)
    PROVE  Heaped(b, side, h)
<1>. SUFFICES ASSUME NEW i \in 2 .. Len(h) PROVE Above(b, side, h, i)
  BY DEF Heaped
<1>1. CASE Parent(i) # p
  BY <1>1 DEF Sinking
<1>2. CASE Parent(i) = p
  <2>. DEFINE c == BetterChild(b, side, h, p)
  <2>1. Len(h) \in Nat /\ p \in Nat /\ p \in 1 .. Len(h) /\ i \in Nat /\ i > 1
    BY DEF IsRow, Sinking
  <2>2. 2 * p <= Len(h)
    <3>1. i = 2 * Parent(i) \/ i = 2 * Parent(i) + 1
      BY <2>1, Family
    <3>2. i = 2 * p \/ i = 2 * p + 1
      BY <1>2, <3>1
    <3>. QED
      BY <2>1, <3>2
  <2>3. c \in 2 .. Len(h) /\ c > p /\ (i = c \/ Better(b, side, h[c], h[i]))
    BY <1>2, <2>1, <2>2, BetterChildIs
  <2>4. ~Better(b, side, h[c], h[p])
    BY <2>1, <2>2 DEF Sunk
  <2>. HIDE DEF c
  <2>5. c \in 1 .. Len(h) /\ c # p /\ i \in 1 .. Len(h)
    BY <2>1, <2>3
  <2>6. h[c] # h[p]
    BY <2>1, <2>5 DEF IsRow, Distinct
  <2>7. h[c] \in Entries(h) /\ h[p] \in Entries(h) /\ h[i] \in Entries(h)
    BY <2>1, <2>5 DEF Entries
  <2>8. Better(b, side, h[p], h[c])
    BY <2>4, <2>6, <2>7 DEF Ranked
  <2>9. Better(b, side, h[p], h[i])
    BY <2>3, <2>7, <2>8 DEF Ranked
  <2>. QED
    BY <1>2, <2>9 DEF Above
<1>. QED
  BY <1>1, <1>2

LEMMA SinkGoesOn ==
    ASSUME NEW b, NEW side, NEW h, IsRow(h), Ranked(b, side, Entries(h)), NEW p,
           Sinking(b, side, h, p), 2 * p <= Len(h), NEW c, c = BetterChild(b, side, h, p),
           Better(b, side, h[c], h[p])
    PROVE  Sinking(b, side, Swapped(h, p, c), c)
<1>. DEFINE g == Swapped(h, p, c)
            up(x, y) == Better(b, side, x, y)
<1>1. Len(h) \in Nat /\ p \in Nat /\ p \in 1 .. Len(h) /\ p > 0
  BY DEF IsRow, Sinking
<1>2. /\ c \in 2 .. Len(h) /\ Parent(c) = p /\ c > p
      /\ \A i \in 2 .. Len(h) : Parent(i) = p => i = c \/ up(h[c], h[i])
  BY <1>1, BetterChildIs
<1>3. c \in 1 .. Len(h) /\ c # p
  BY <1>1, <1>2
<1>4. /\ Len(g) = Len(h) /\ g[p] = h[c] /\ g[c] = h[p]
      /\ \A k \in 1 .. Len(h) \ {p, c} : g[k] = h[k]
  BY <1>1, <1>3, SwappedIs DEF Rearranged
<1>7. ASSUME NEW i \in 2 .. Len(h)
      PROVE  /\ i \in 1 .. Len(h) /\ Parent(i) \in 1 .. Len(h) /\ Parent(i) # i
             /\ Parent(i) # p => up(h[Parent(i)], h[i])
             /\ Parent(i) = p /\ p > 1 => up(h[Parent(p)], h[i])
  <2>1. i \in Nat /\ i > 1
    OBVIOUS
  <2>2. Parent(i) \in 1 .. i - 1
    BY <2>1, Family
  <2>. QED
    BY <1>1, <2>2 DEF Sinking, Above
<1>8. ASSUME NEW i \in 2 .. Len(h), Parent(i) # c
      PROVE  up(g[Parent(i)], g[i])
  <2>. HIDE DEF g, up
  <2>1. CASE i = p
    <3>1. p > 1 /\ Parent(p) \notin {p, c}
      BY <1>7, <1>8, <2>1
    <3>2. up(h[Parent(p)], h[c])
      BY <1>2, <1>7, <3>1
    <3>. QED
      BY <1>4, <1>7, <1>8, <2>1, <3>1, <3>2
  <2>2. CASE i = c
    BY <1>2, <1>4, <2>2 DEF up
  <2>3. CASE i \notin {p, c} /\ Parent(i) = p
    BY <1>2, <1>4, <1>7, <1>8, <2>3
  <2>4. CASE i \notin {p, c} /\ Parent(i) # p
    BY <1>4, <1>7, <1>8, <2>4
  <2>. QED
    BY <2>1, <2>2, <2>3, <2>4
<1>9. ASSUME NEW i \in 2 .. Len(h), Parent(i) = c
      PROVE  up(g[Parent(c)], g[i])
  <2>. HIDE DEF g, up
  <2>1. i # c /\ i # p
    <3>1. i # c
      BY <1>7, <1>9
    <3>2. i = p => FALSE
      <4>. SUFFICES ASSUME i = p PROVE FALSE
        OBVIOUS
      <4>1. p > 1
        OBVIOUS
      <4>2. Parent(p) \in 1 .. p - 1
        BY <1>1, <4>1, Family
      <4>. QED
        BY <1>1, <1>2, <1>9, <4>2
    <3>. QED
      BY <3>1, <3>2
  <2>2. up(h[c], h[i])
    BY <1>3, <1>7, <1>9
  <2>. QED
    BY <1>2, <1>4, <1>7, <2>1, <2>2
<1>. HIDE DEF g, up
<1>. QED
  BY <1>3, <1>4, <1>8, <1>9 DEF Sinking, Above, up, g

\* The positions up to m are done: the slot is below them or has come to rest.
SunkTo(b, side, slot, h, g, m) ==
    /\ Rearranged(h, g)
    /\ \E p \in 1 .. Len(h) :
          /\ g[p] = slot /\ Sinking(b, side, g, p)
          /\ p <= m => Sunk(b, side, g, p)

LEMMA SinkTurn ==
    ASSUME NEW b, NEW side, NEW h, IsRow(h), Ranked(b, side, Entries(h)), NEW slot,
           NEW g, NEW m \in Nat, m + 1 \in 1 .. Len(h), SunkTo(b, side, slot, h, g, m)
    PROVE  SunkTo(b, side, slot, h, Sink(b, side, slot, g, m + 1), m + 1)
<1>. DEFINE k == m + 1
            c == BetterChild(b, side, g, k)
<1>1. Rearranged(h, g) /\ IsRow(g) /\ Len(g) = Len(h) /\ Ranked(b, side, Entries(g))
  BY DEF SunkTo, Rearranged
<1>2. PICK p \in 1 .. Len(h) :
         /\ g[p] = slot /\ Sinking(b, side, g, p)
         /\ p <= m => Sunk(b, side, g, p)
  BY DEF SunkTo
<1>3. Len(h) \in Nat /\ k \in Nat /\ p \in Nat /\ k \in 1 .. Len(g)
  BY <1>1 DEF IsRow
<1>4. g[k] = slot => k = p
  BY <1>1, <1>2, <1>3 DEF IsRow, Distinct
<1>. HIDE DEF k
<1>5. CASE g[k] = slot /\ 2 * k <= Len(g) /\ Better(b, side, g[c], slot)
  <2>1. k = p
    BY <1>4, <1>5
  <2>2. Sinking(b, side, Swapped(g, k, c), c)
    BY <1>1, <1>2, <1>5, <2>1, SinkGoesOn
  <2>3. c \in 2 .. Len(g) /\ c > k
    BY <1>1, <1>3, <1>5, BetterChildIs
  <2>. HIDE DEF c
  <2>4. c \in 1 .. Len(h) /\ c # k /\ ~(c <= k) /\ c \in 1 .. Len(g)
    BY <1>1, <1>3, <2>3
  <2>5. Rearranged(g, Swapped(g, k, c)) /\ Swapped(g, k, c)[c] = slot
    BY <1>1, <1>3, <1>5, <2>4, SwappedIs
  <2>6. Rearranged(h, Swapped(g, k, c))
    BY <1>1, <2>5, RearrangedAgain
  <2>7. SunkTo(b, side, slot, h, Swapped(g, k, c), k)
    BY <2>2, <2>4, <2>5, <2>6 DEF SunkTo
  <2>8. Sink(b, side, slot, g, k) = Swapped(g, k, c)
    BY <1>5 DEF Sink, c
  <2>. QED
    BY <2>7, <2>8 DEF k
<1>6. CASE ~(g[k] = slot /\ 2 * k <= Len(g) /\ Better(b, side, g[c], slot))
  <2>1. p <= k => Sunk(b, side, g, p)
    <3>1. CASE p = k
      BY <1>1, <1>2, <1>3, <1>6, <3>1 DEF Sunk
    <3>2. CASE p # k
      BY <1>2, <1>3, <3>2 DEF k
    <3>. QED
      BY <3>1, <3>2
  <2>2. SunkTo(b, side, slot, h, g, k)
    BY <1>1, <1>2, <2>1 DEF SunkTo
  <2>3. Sink(b, side, slot, g, k) = g
    BY <1>6 DEF Sink
  <2>. QED
    BY <2>2, <2>3 DEF k
<1>. QED
  BY <1>5, <1>6

\* A slot that only its children may be better than sinks to its place.
LEMMA SiftDownHeaps ==
    ASSUME NEW b, NEW side, NEW h, IsRow(h), Ranked(b, side, Entries(h)),
           NEW hole, Sinking(b, side, h, hole)
    PROVE  /\ Rearranged(h, SiftDown(b, side, h, h[hole]))
           /\ Heaped(b, side, SiftDown(b, side, h, h[hole]))
<1>. DEFINE slot == h[hole]
            c == [book |-> b, side |-> side, slot |-> slot]
            n == Len(h)
            R(m) == Down!Fold(c, h, 1 .. m)
            good == {m \in Nat : m <= n => SunkTo(b, side, slot, h, R(m), m)}
<1>1. n \in Nat /\ hole \in 1 .. n
  BY DEF IsRow, Sinking
<1>2. SiftDown(b, side, h, slot) = R(n)
  <2>1. c.book = b /\ c.side = side /\ c.slot = slot
    OBVIOUS
  <2>2. DOMAIN h = 1 .. n
    BY DEF IsRow
  <2>. HIDE DEF c, slot
  <2>. QED
    BY <2>1, <2>2, DownIs
<1>3. \A m \in Nat : R(m + 1) = Sink(b, side, slot, R(m), m + 1)
  <2>1. \A m \in Nat : m + 1 \in Nat
    OBVIOUS
  <2>. QED
    BY <2>1, DownInOrder, Down!LoopLast DEF SinkIn
<1>4. 0 \in good
  <2>1. R(0) = h
    <3>1. 1 .. 0 = {}
      OBVIOUS
    <3>. QED
      BY <3>1, Down!FoldEmpty
  <2>2. SunkTo(b, side, slot, h, h, 0)
    BY <1>1 DEF SunkTo, Rearranged
  <2>. HIDE DEF R
  <2>. QED
    BY <2>1, <2>2
<1>5. ASSUME NEW m \in Nat, m \in good
      PROVE  m + 1 \in good
  <2>. SUFFICES ASSUME m + 1 <= n PROVE SunkTo(b, side, slot, h, R(m + 1), m + 1)
    OBVIOUS
  <2>1. m + 1 \in 1 .. n /\ m <= n
    BY <1>1
  <2>2. SunkTo(b, side, slot, h, R(m), m)
    BY <1>5, <2>1
  <2>. HIDE DEF R
  <2>. QED
    BY <1>3, <2>1, <2>2, SinkTurn
<1>. HIDE DEF good
<1>6. Nat \subseteq good
  BY <1>4, <1>5, NatInduct
<1>7. SunkTo(b, side, slot, h, R(n), n)
  <2>1. n \in good
    BY <1>1, <1>6
  <2>. HIDE DEF R
  <2>. QED
    BY <1>1, <2>1 DEF good
<1>. HIDE DEF R
<1>8. PICK p \in 1 .. n : Sinking(b, side, R(n), p) /\ Sunk(b, side, R(n), p)
  BY <1>1, <1>7 DEF SunkTo
<1>9. Rearranged(h, R(n)) /\ IsRow(R(n)) /\ Ranked(b, side, Entries(R(n)))
  BY <1>7 DEF SunkTo, Rearranged
<1>10. Heaped(b, side, R(n))
  BY <1>8, <1>9, SunkIsHeaped
<1>. QED
  BY <1>2, <1>9, <1>10

----------------------------------------------------------------------------
\* What a heap is for: its first entry is its best.
LEMMA FirstIsBest ==
    ASSUME NEW b, NEW side, NEW h, IsRow(h), Ranked(b, side, Entries(h)),
           Heaped(b, side, h)
    PROVE  \A i \in 2 .. Len(h) : Better(b, side, h[1], h[i])
<1>. DEFINE best(n) == \A i \in 2 .. Len(h) : i <= n => Better(b, side, h[1], h[i])
            good == {n \in Nat : best(n)}
<1>1. 0 \in good
  OBVIOUS
<1>2. ASSUME NEW n \in Nat, n \in good
      PROVE  n + 1 \in good
  <2>. SUFFICES ASSUME NEW i \in 2 .. Len(h), i <= n + 1
                PROVE  Better(b, side, h[1], h[i])
    OBVIOUS
  <2>1. i \in Nat /\ i > 1 /\ Len(h) \in Nat
    BY DEF IsRow
  <2>2. Parent(i) \in 1 .. i - 1
    BY <2>1, Family
  <2>3. Better(b, side, h[Parent(i)], h[i])
    BY DEF Heaped, Above
  <2>4. CASE Parent(i) = 1
    BY <2>3, <2>4
  <2>5. CASE Parent(i) # 1
    <3>1. Parent(i) \in 2 .. Len(h) /\ Parent(i) <= n
      BY <2>1, <2>2, <2>5
    <3>2. Better(b, side, h[1], h[Parent(i)])
      BY <1>2, <3>1
    <3>3. h[1] \in Entries(h) /\ h[Parent(i)] \in Entries(h) /\ h[i] \in Entries(h)
      BY <2>1, <3>1 DEF Entries
    <3>. QED
      BY <2>3, <3>2, <3>3 DEF Ranked
  <2>. QED
    BY <2>4, <2>5
<1>. HIDE DEF good
<1>3. Nat \subseteq good
  BY <1>1, <1>2, NatInduct
<1>4. Len(h) \in good
  BY <1>3 DEF IsRow
<1>5. best(Len(h))
  BY <1>4 DEF good
<1>. QED
  BY <1>5

\* The last entry takes the place of the one that leaves.
FilledIn(h, index, g) ==
    /\ IsRow(g) /\ Len(g) = Len(h) - 1 /\ Entries(g) = Entries(h) \ {h[index]}
    /\ g[index] = h[Len(h)]
    /\ \A i \in 1 .. Len(h) - 1 : i # index => g[i] = h[i]

LEMMA HoleFilled ==
    ASSUME NEW h, IsRow(h), NEW index \in 1 .. Len(h), index # Len(h)
    PROVE  FilledIn(h, index, [SubSeq(h, 1, Len(h) - 1) EXCEPT ![index] = h[Len(h)]])
<1>. DEFINE n == Len(h)
            s == SubSeq(h, 1, n - 1)
            g == [s EXCEPT ![index] = h[n]]
<1>1. /\ h \in Seq(Int) /\ n \in Nat /\ h[n] \in Int /\ index \in 1 .. n - 1
      /\ n - 1 \in Nat /\ n \in 1 .. n
  BY DEF IsRow
<1>2. s \in Seq(Int) /\ Len(s) = n - 1 /\ \A i \in 1 .. n - 1 : s[i] = h[i]
  BY <1>1, SubSeqProperties
<1>. HIDE DEF s, n
<1>3. g \in Seq(Int) /\ Len(g) = n - 1
  BY <1>1, <1>2, ExceptSeq
<1>4. g[index] = h[n] /\ \A i \in 1 .. n - 1 : i # index => g[i] = h[i]
  BY <1>1, <1>2
<1>. HIDE DEF g
<1>5. \A i, j \in 1 .. n : h[i] = h[j] => i = j
  BY DEF IsRow, Distinct, n
<1>6. \A i \in 1 .. n - 1 : i \in 1 .. n /\ i # n
  BY <1>1
<1>7. Distinct(g)
  BY <1>1, <1>3, <1>4, <1>5, <1>6 DEF Distinct
<1>8. Entries(g) \subseteq Entries(h) \ {h[index]}
  <2>1. ASSUME NEW k \in 1 .. n - 1
        PROVE  \E m \in 1 .. n : g[k] = h[m] /\ m # index
    BY <1>1, <1>4, <1>6
  <2>2. ASSUME NEW k \in 1 .. n - 1
        PROVE  g[k] \in Entries(h) \ {h[index]}
    <3>1. PICK m \in 1 .. n : g[k] = h[m] /\ m # index
      BY <2>1
    <3>2. h[m] \in Entries(h)
      BY DEF Entries, n
    <3>3. h[m] # h[index] 
      BY <1>5, <3>1 DEF n
    <3>. QED
      BY <3>1, <3>2, <3>3
  <2>. QED
    BY <1>3, <2>2 DEF Entries
<1>9. Entries(h) \ {h[index]} \subseteq Entries(g)
  <2>1. ASSUME NEW m \in 1 .. n, m # index
        PROVE  h[m] \in Entries(g)
    <3>1. CASE m = n
      BY <1>1, <1>3, <1>4, <3>1 DEF Entries
    <3>2. CASE m # n
      <4>1. m \in 1 .. n - 1
        BY <1>1, <3>2
      <4>. QED
        BY <1>3, <1>4, <2>1, <4>1 DEF Entries
    <3>. QED
      BY <3>1, <3>2
  <2>. QED
    BY <2>1 DEF Entries, n
<1>10. FilledIn(h, index, g)
  BY <1>3, <1>4, <1>7, <1>8, <1>9 DEF FilledIn, IsRow, n
<1>. QED
  BY <1>10 DEF g, s, n

ShortOf(h, g) ==
    /\ IsRow(g) /\ Len(g) = Len(h) - 1 /\ Entries(g) = Entries(h) \ {h[Len(h)]}
    /\ \A i \in 1 .. Len(h) - 1 : g[i] = h[i]

LEMMA Shortened ==
    ASSUME NEW h, IsRow(h), Len(h) > 0
    PROVE  ShortOf(h, SubSeq(h, 1, Len(h) - 1))
<1>. DEFINE n == Len(h)
            g == SubSeq(h, 1, n - 1)
<1>1. /\ h \in Seq(Int) /\ n \in Nat /\ n - 1 \in Nat /\ n \in 1 .. n
      /\ 1 \in 1 .. n + 1 /\ n - 1 \in 1 - 1 .. n
  BY DEF IsRow
<1>2. g \in Seq(Int) /\ Len(g) = n - 1 /\ \A i \in 1 .. n - 1 : g[i] = h[i]
  <2>1. CASE n - 1 >= 1
    BY <1>1, <2>1, SubSeqProperties
  <2>2. CASE n = 1
    <3>1. g = << >>
      BY <1>1, <2>2, SubSeqEmpty
    <3>. HIDE DEF g
    <3>. QED
      BY <2>2, <3>1
  <2>. HIDE DEF g, n
  <2>3. n - 1 >= 1 \/ n = 1
    BY <1>1
  <2>. QED
    BY <2>1, <2>2, <2>3
<1>. HIDE DEF n, g
<1>3. \A i, j \in 1 .. n : h[i] = h[j] => i = j
  BY DEF IsRow, Distinct, n
<1>4. \A i \in 1 .. n - 1 : i \in 1 .. n /\ i # n
  BY <1>1
<1>5. Distinct(g)
  BY <1>2, <1>3, <1>4 DEF Distinct
<1>6. Entries(g) \subseteq Entries(h) \ {h[n]}
  <2>1. \A k \in 1 .. n - 1 : g[k] \in Entries(h) \ {h[n]}
    BY <1>1, <1>2, <1>3, <1>4 DEF Entries, n
  <2>. QED
    BY <1>2, <2>1 DEF Entries
<1>7. Entries(h) \ {h[n]} \subseteq Entries(g)
  <2>1. ASSUME NEW m \in 1 .. n, m # n
        PROVE  h[m] \in Entries(g)
    <3>1. m \in 1 .. n - 1
      BY <1>1, <2>1
    <3>. QED
      BY <1>2, <3>1 DEF Entries
  <2>. QED
    BY <2>1 DEF Entries, n
<1>8. ShortOf(h, g)
  BY <1>2, <1>5, <1>6, <1>7 DEF ShortOf, IsRow, n
<1>. QED
  BY <1>8 DEF g, n

\* Whatever position an entry is taken from, the rest is a heap.
LEMMA WithoutHeaps ==
    ASSUME NEW b, NEW side, NEW h, h = b.heap[side], IsRow(h),
           Ranked(b, side, Entries(h)), Heaped(b, side, h), NEW index \in 1 .. Len(h)
    PROVE  /\ IsRow(Without(b, side, index))
           /\ Len(Without(b, side, index)) = Len(h) - 1
           /\ Entries(Without(b, side, index)) = Entries(h) \ {h[index]}
           /\ Heaped(b, side, Without(b, side, index))
<1>. DEFINE n == Len(h)
            last == h[n]
            s == SubSeq(h, 1, n - 1)
            g == [s EXCEPT ![index] = last]
            up(x, y) == Better(b, side, x, y)
            q == Parent(index)
            w == Without(b, side, index)
<1>0. h \in Seq(Int) /\ n \in Nat /\ index \in Nat /\ index > 0 /\ n > 0
  BY DEF IsRow
<1>a. ASSUME NEW i \in 2 .. n
      PROVE  i \in 1 .. n /\ Parent(i) \in 1 .. i - 1 /\ up(h[Parent(i)], h[i])
  <2>1. i \in Nat /\ i > 1 /\ i \in 1 .. n
    BY <1>0
  <2>. QED
    BY <2>1, Family DEF Heaped, Above
<1>b. \A i, j, k \in 1 .. n : up(h[i], h[j]) /\ up(h[j], h[k]) => up(h[i], h[k])
  <2>1. \A i \in 1 .. n : h[i] \in Entries(h)
    BY DEF Entries
  <2>. HIDE DEF n
  <2>. QED
    BY <2>1 DEF Ranked
<1>1. CASE index = n
  <2>1. w = s
    BY <1>1 DEF Without
  <2>2. /\ IsRow(s) /\ Len(s) = n - 1 /\ Entries(s) = Entries(h) \ {h[n]}
        /\ \A i \in 1 .. n - 1 : s[i] = h[i]
    BY <1>0, Shortened DEF ShortOf
  <2>. HIDE DEF w, s
  <2>3. Heaped(b, side, s)
    <3>1. ASSUME NEW i \in 2 .. n - 1 PROVE up(s[Parent(i)], s[i])
      <4>1. i \in 2 .. n /\ i \in 1 .. n - 1
        BY <1>0
      <4>2. Parent(i) \in 1 .. i - 1
        BY <1>a, <4>1
      <4>3. Parent(i) \in 1 .. n - 1
        BY <1>0, <4>2
      <4>. QED
        BY <1>a, <2>2, <4>1, <4>3
    <3>. QED
      BY <2>2, <3>1 DEF Heaped, Above
  <2>. QED
    BY <1>1, <2>1, <2>2, <2>3 DEF w
<1>2. CASE index # n
  <2>1. /\ IsRow(g) /\ Len(g) = n - 1 /\ Entries(g) = Entries(h) \ {h[index]}
        /\ g[index] = last /\ \A i \in 1 .. n - 1 : i # index => g[i] = h[i]
    <3>1. FilledIn(h, index, g)
      BY <1>2, HoleFilled
    <3>. HIDE DEF g
    <3>. QED
      BY <3>1 DEF FilledIn
  <2>2. w = IF index > 1 /\ up(last, h[q]) THEN SiftUp(b, side, g, g[index])
                                           ELSE SiftDown(b, side, g, g[index])
    BY <1>2, <2>1 DEF Without, Parent
  <2>3. Ranked(b, side, Entries(g))
    <3>1. Entries(g) \subseteq Entries(h)
      BY <2>1
    <3>. HIDE DEF g
    <3>. QED
      BY <3>1 DEF Ranked
  <2>4. index \in 1 .. n - 1 /\ n \in 1 .. n /\ index \in 1 .. n
    BY <1>0, <1>2
  <2>. HIDE DEF g, w, s
  <2>5. ASSUME NEW i \in 2 .. n - 1, i # index, Parent(i) # index
        PROVE  up(g[Parent(i)], g[i])
    <3>1. i \in 2 .. n /\ i \in 1 .. n - 1
      BY <1>0
    <3>2. Parent(i) \in 1 .. i - 1
      BY <1>a, <3>1
    <3>3. Parent(i) \in 1 .. n - 1
      BY <1>0, <3>2
    <3>. QED
      BY <1>a, <2>1, <2>5, <3>1, <3>3
  <2>6. ASSUME index > 1
        PROVE  q \in 1 .. n - 1 /\ q # index /\ g[q] = h[q] /\ up(h[q], h[index])
               /\ q \in 1 .. n
    <3>1. index \in 2 .. n
      BY <1>0, <2>6
    <3>2. q \in 1 .. index - 1
      BY <1>a, <3>1
    <3>3. q \in 1 .. n - 1 /\ q # index /\ q \in 1 .. n
      BY <1>0, <2>4, <3>2
    <3>. QED
      BY <1>a, <2>1, <3>1, <3>3
  <2>7. ASSUME NEW i \in 2 .. n - 1, Parent(i) = index, index > 1
        PROVE  i # index /\ i \in 1 .. n /\ g[i] = h[i] /\ up(h[q], h[i]) /\ up(h[index], h[i])
    <3>1. i \in 2 .. n /\ i \in 1 .. n - 1
      BY <1>0
    <3>2. Parent(i) \in 1 .. i - 1 /\ up(h[index], h[i]) /\ i \in 1 .. n
      BY <1>a, <2>7, <3>1
    <3>3. i # index
      BY <1>0, <2>7, <3>2
    <3>. QED
      BY <1>b, <2>1, <2>4, <2>6, <2>7, <3>1, <3>2, <3>3
  <2>8. CASE index > 1 /\ up(last, h[q])
    <3>1. Rising(b, side, g, index)
      <4>1. ASSUME NEW i \in 2 .. n - 1, i # index
            PROVE  up(g[Parent(i)], g[i])
        <5>1. CASE Parent(i) = index
          <6>1. up(last, h[index])
            BY <1>b, <2>4, <2>6, <2>8
          <6>2. up(last, h[i])
            BY <1>b, <2>4, <2>7, <2>8, <5>1, <6>1
          <6>. QED
            BY <2>1, <2>7, <2>8, <5>1, <6>2
        <5>2. CASE Parent(i) # index
          BY <2>5, <4>1, <5>2
        <5>. QED
          BY <5>1, <5>2
      <4>2. ASSUME NEW i \in 2 .. n - 1, Parent(i) = index, index > 1
            PROVE  up(g[Parent(index)], g[i])
        BY <2>6, <2>7, <4>2
      <4>. QED
        BY <2>1, <2>4, <4>1, <4>2 DEF Rising, Above
    <3>2. w = SiftUp(b, side, g, g[index])
      BY <2>2, <2>8
    <3>3. Rearranged(g, w) /\ Heaped(b, side, w)
      BY <2>1, <2>3, <3>1, <3>2, SiftUpHeaps
    <3>. QED
      BY <2>1, <3>3 DEF Rearranged, w
  <2>9. CASE ~(index > 1 /\ up(last, h[q]))
    <3>1. Sinking(b, side, g, index)
      <4>1. ASSUME NEW i \in 2 .. n - 1, Parent(i) # index
            PROVE  up(g[Parent(i)], g[i])
        <5>1. CASE i = index
          <6>1. index > 1
            BY <1>0, <5>1
          <6>2. q \in 1 .. n - 1 /\ q \in 1 .. n /\ g[q] = h[q]
            BY <2>6, <6>1
          <6>3. q # n
            BY <1>0, <6>2
          <6>4. h[q] # last
            BY <2>4, <6>2, <6>3 DEF IsRow, Distinct
          <6>5. h[q] \in Entries(h) /\ last \in Entries(h)
            BY <2>4, <6>2 DEF Entries
          <6>6. up(h[q], last)
            BY <2>9, <6>1, <6>4, <6>5 DEF Ranked
          <6>. QED
            BY <2>1, <5>1, <6>2, <6>6
        <5>2. CASE i # index
          BY <2>5, <4>1, <5>2
        <5>. QED
          BY <5>1, <5>2
      <4>2. ASSUME NEW i \in 2 .. n - 1, Parent(i) = index, index > 1
            PROVE  up(g[Parent(index)], g[i])
        BY <2>6, <2>7, <4>2
      <4>. QED
        BY <2>1, <2>4, <4>1, <4>2 DEF Sinking, Above
    <3>2. w = SiftDown(b, side, g, g[index])
      BY <2>2, <2>9
    <3>3. Rearranged(g, w) /\ Heaped(b, side, w)
      BY <2>1, <2>3, <3>1, <3>2, SiftDownHeaps
    <3>. QED
      BY <2>1, <3>3 DEF Rearranged, w
  <2>. QED
    BY <2>8, <2>9
<1>. QED
  BY <1>1, <1>2

\* A new entry at the end rises to its place.
Joined(b, side, h, slot, g) ==
    /\ IsRow(g) /\ Len(g) = Len(h) + 1 /\ Entries(g) = Entries(h) \union {slot}
    /\ Heaped(b, side, g)

LEMMA JoinedHeap ==
    ASSUME NEW b, NEW side, NEW h, IsRow(h), NEW slot \in Int, slot \notin Entries(h),
           Ranked(b, side, Entries(h) \union {slot}), Heaped(b, side, h)
    PROVE  Joined(b, side, h, slot, SiftUp(b, side, Append(h, slot), slot))
<1>. DEFINE n == Len(h)
            a == Append(h, slot)
            w == SiftUp(b, side, a, slot)
<1>1. h \in Seq(Int) /\ n \in Nat
  BY DEF IsRow
<1>2. a \in Seq(Int) /\ Len(a) = n + 1 /\ a[n + 1] = slot /\ \A i \in 1 .. n : a[i] = h[i]
  BY <1>1, AppendProperties
<1>. HIDE DEF a
<1>3. \A i \in 1 .. n : h[i] # slot
  BY DEF Entries
<1>4. \A i, j \in 1 .. n : h[i] = h[j] => i = j
  BY DEF IsRow, Distinct
<1>. HIDE DEF n
<1>5. \A i \in 1 .. n + 1 : i \in 1 .. n \/ i = n + 1
  BY <1>1
<1>6. Distinct(a)
  BY <1>2, <1>3, <1>4, <1>5 DEF Distinct
<1>7. Entries(a) = Entries(h) \union {slot}
  <2>1. \A i \in 1 .. n : i \in 1 .. n + 1
    BY <1>1
  <2>2. n + 1 \in 1 .. n + 1
    BY <1>1
  <2>3. Entries(a) \subseteq Entries(h) \union {slot}
    BY <1>2, <1>5 DEF Entries, n
  <2>4. Entries(h) \subseteq Entries(a)
    BY <1>2, <2>1 DEF Entries, n
  <2>5. slot \in Entries(a)
    BY <1>2, <2>2 DEF Entries
  <2>. QED
    BY <2>3, <2>4, <2>5
<1>8. Rising(b, side, a, n + 1)
  <2>1. ASSUME NEW i \in 2 .. n + 1, i # n + 1
        PROVE  Better(b, side, a[Parent(i)], a[i])
    <3>1. i \in Nat /\ i > 1 /\ i \in 2 .. n /\ i \in 1 .. n
      BY <1>1, <2>1
    <3>2. Parent(i) \in 1 .. i - 1
      BY <3>1, Family
    <3>3. Parent(i) \in 1 .. n
      BY <1>1, <3>1, <3>2
    <3>4. Better(b, side, h[Parent(i)], h[i])
      BY <3>1 DEF Heaped, Above, n
    <3>. QED
      BY <1>2, <3>1, <3>3, <3>4
  <2>2. ASSUME NEW i \in 2 .. n + 1
        PROVE  Parent(i) # n + 1
    <3>1. i \in Nat /\ i > 1 /\ i <= n + 1
      BY <1>1
    <3>2. Parent(i) \in 1 .. i - 1
      BY <3>1, Family
    <3>. QED
      BY <1>1, <3>1, <3>2
  <2>3. n + 1 \in 1 .. Len(a)
    BY <1>1, <1>2
  <2>. QED
    BY <1>2, <2>1, <2>2, <2>3 DEF Rising, Above
<1>9. IsRow(a) /\ Ranked(b, side, Entries(a))
  BY <1>2, <1>6, <1>7 DEF IsRow
<1>10. Rearranged(a, w) /\ Heaped(b, side, w)
  BY <1>2, <1>8, <1>9, SiftUpHeaps
<1>. HIDE DEF w
<1>11. Joined(b, side, h, slot, w)
  BY <1>2, <1>7, <1>10 DEF Joined, Rearranged, n
<1>. QED
  BY <1>11 DEF w, a

----------------------------------------------------------------------------
\* The order book.  An order of a market, possibly traded in full, and a book
\* of such orders.
OrderRows(payout) ==
    [id : Nat \ {0}, owner : Nat, outcome : {"YES", "NO"}, action : {"BUY", "SELL"},
     price : 1 .. payout - 1, remaining : Nat, expires : Nat, notional : Nat]

Books(capacity, payout, feeBps) ==
    [slots : [1 .. capacity -> OrderRows(payout) \union {Vacant}],
     heap : [Sides -> Seq(Int)], free : Seq(Int), next : Nat \ {0},
     payout : {payout}, feeBps : {feeBps}]

\* The slots of the orders of a side.
SlotsOf(b, side) == {s \in Resting(b) : Side(b.slots[s]) = side}

\* Every slot is in the heap of its order's side or on the free list, once, and
\* both heaps are heaps.
Tidy(b) ==
    /\ \A side \in Sides : /\ IsRow(b.heap[side])
                           /\ Entries(b.heap[side]) = SlotsOf(b, side)
                           /\ Heaped(b, side, b.heap[side])
    /\ IsRow(b.free) /\ Entries(b.free) = DOMAIN b.slots \ Resting(b)
    /\ \A s \in Resting(b) : b.slots[s].remaining > 0
    /\ \A s, t \in Resting(b) : b.slots[s].id = b.slots[t].id => s = t

\* Orders are numbered in the order they came.
Numbered(b) == \A s \in Resting(b) : b.slots[s].id < b.next

LEMMA RestingOrder ==
    ASSUME NEW capacity, NEW payout \in Nat, NEW feeBps, NEW b \in Books(capacity, payout, feeBps)
    PROVE  /\ b.payout = payout /\ b.feeBps = feeBps /\ DOMAIN b.slots = 1 .. capacity
           /\ \A s \in Resting(b) : s \in 1 .. capacity /\ b.slots[s] \in OrderRows(payout)
           /\ Resting(b) \subseteq 1 .. capacity
BY DEF Books, Resting

LEMMA OrderFields ==
    ASSUME NEW payout \in Nat, NEW o \in OrderRows(payout)
    PROVE  /\ Side(o) \in Sides /\ CanonicalPrice(o, payout) \in 1 .. payout - 1
           /\ o.id \in Nat /\ o.remaining \in Nat /\ o.notional \in Nat
           /\ o.price \in Nat /\ o.price > 0 /\ o.expires \in Nat /\ o # Vacant
           /\ o.outcome \in {"YES", "NO"} /\ o.action \in {"BUY", "SELL"} /\ o.owner \in Nat
<1>1. o # Vacant
  BY DEF OrderRows, Vacant
<1>. QED
  BY <1>1 DEF OrderRows, Side, CanonicalPrice, Sides

\* The order of a side is strict on its slots.
LEMMA SideRanked ==
    ASSUME NEW capacity, NEW payout \in Nat, NEW feeBps, NEW b \in Books(capacity, payout, feeBps),
           NEW S \in SUBSET Resting(b), NEW side \in Sides,
           \A s, t \in Resting(b) : b.slots[s].id = b.slots[t].id => s = t
    PROVE  Ranked(b, side, S)
<1>. SUFFICES ASSUME NEW x \in S, NEW y \in S, NEW z \in S
     PROVE  /\ ~Better(b, side, x, x)
            /\ x # y => Better(b, side, x, y) \/ Better(b, side, y, x)
            /\ Better(b, side, x, y) /\ Better(b, side, y, z) => Better(b, side, x, z)
  BY DEF Ranked
<1>0. b.payout = payout /\ \A r \in Resting(b) : b.slots[r] \in OrderRows(payout)
  <2>1. b.payout = payout
    BY DEF Books
  <2>2. \A r \in Resting(b) : b.slots[r] \in OrderRows(payout)
    BY RestingOrder
  <2>. QED
    BY <2>1, <2>2
<1>. DEFINE price(s) == CanonicalPrice(b.slots[s], b.payout)
            id(s) == b.slots[s].id
<1>1. ASSUME NEW s \in S PROVE price(s) \in Int /\ id(s) \in Int
  <2>1. b.slots[s] \in OrderRows(payout) /\ b.payout = payout
    BY <1>0
  <2>2. CanonicalPrice(b.slots[s], payout) \in 1 .. payout - 1 /\ b.slots[s].id \in Nat
    BY <2>1, OrderFields
  <2>. QED
    BY <2>1, <2>2
<1>2. x # y => id(x) # id(y)
  OBVIOUS
<1>3. \A s, t \in S : Better(b, side, s, t) <=>
         IF price(s) # price(t) THEN IF side = "Bid" THEN price(s) > price(t) ELSE price(s) < price(t)
         ELSE id(s) < id(t)
  BY DEF Better
<1>. HIDE DEF price, id
<1>4. price(x) \in Int /\ price(y) \in Int /\ price(z) \in Int /\ id(x) \in Int /\ id(y) \in Int
      /\ id(z) \in Int
  BY <1>1
<1>5. CASE side = "Bid"
  <2>1. ASSUME NEW s \in S, NEW t \in S
        PROVE  Better(b, side, s, t)
                 <=> price(s) > price(t) \/ (price(s) = price(t) /\ id(s) < id(t))
    BY <1>1, <1>3, <1>5
  <2>. QED
    BY <1>2, <1>4, <2>1
<1>6. CASE side # "Bid"
  <2>1. ASSUME NEW s \in S, NEW t \in S
        PROVE  Better(b, side, s, t)
                 <=> price(s) < price(t) \/ (price(s) = price(t) /\ id(s) < id(t))
    BY <1>1, <1>3, <1>6
  <2>. QED
    BY <1>2, <1>4, <2>1
<1>. QED
  BY <1>5, <1>6

\* It reads nothing of a book but the prices and the numbers of the two orders.
SameRank(b, c, s) ==
    /\ CanonicalPrice(c.slots[s], c.payout) = CanonicalPrice(b.slots[s], b.payout)
    /\ c.slots[s].id = b.slots[s].id

LEMMA HeapedSame ==
    ASSUME NEW b, NEW c, NEW side, NEW h, IsRow(h), Heaped(b, side, h),
           \A s \in Entries(h) : SameRank(b, c, s)
    PROVE  Heaped(c, side, h)
<1>. SUFFICES ASSUME NEW i \in 2 .. Len(h) PROVE Above(c, side, h, i)
  BY DEF Heaped
<1>1. i \in Nat /\ i > 1 /\ i \in 1 .. Len(h) /\ Len(h) \in Nat
  BY DEF IsRow
<1>2. Parent(i) \in 1 .. i - 1
  BY <1>1, Family
<1>3. Parent(i) \in 1 .. Len(h)
  BY <1>1, <1>2
<1>4. h[i] \in Entries(h) /\ h[Parent(i)] \in Entries(h)
  BY <1>1, <1>3 DEF Entries
<1>5. SameRank(b, c, h[i]) /\ SameRank(b, c, h[Parent(i)])
  BY <1>4
<1>6. Above(b, side, h, i)
  BY DEF Heaped
<1>. QED
  BY <1>5, <1>6 DEF Above, Better, SameRank

----------------------------------------------------------------------------
\* The free list grows and shrinks at its head.
LEMMA RowsJoined ==
    ASSUME NEW f, NEW g, IsRow(f), IsRow(g), Entries(f) \intersect Entries(g) = {}
    PROVE  IsRow(f \o g) /\ Entries(f \o g) = Entries(f) \union Entries(g)
<1>. DEFINE k == Len(f)
            n == Len(g)
            h == f \o g
<1>1. f \in Seq(Int) /\ g \in Seq(Int) /\ k \in Nat /\ n \in Nat
  BY DEF IsRow
<1>2. /\ h \in Seq(Int) /\ Len(h) = k + n
      /\ \A i \in 1 .. k + n : h[i] = IF i <= k THEN f[i] ELSE g[i - k]
  BY <1>1, ConcatProperties
<1>3. /\ \A i, j \in 1 .. k : f[i] = f[j] => i = j
      /\ \A i, j \in 1 .. n : g[i] = g[j] => i = j
  BY DEF IsRow, Distinct
<1>4. \A i \in 1 .. k : \A j \in 1 .. n : f[i] # g[j]
  BY DEF Entries
<1>. HIDE DEF h, k, n
<1>5. /\ \A i \in 1 .. k : i \in 1 .. k + n /\ h[i] = f[i]
      /\ \A i \in 1 .. n : i + k \in 1 .. k + n /\ h[i + k] = g[i]
  BY <1>1, <1>2
<1>6. ASSUME NEW i \in 1 .. k + n
      PROVE  \/ i \in 1 .. k /\ h[i] = f[i]
             \/ i - k \in 1 .. n /\ h[i] = g[i - k] /\ i = (i - k) + k
  BY <1>1, <1>2
<1>7. Distinct(h)
  <2>1. ASSUME NEW i \in 1 .. k + n, NEW j \in 1 .. k + n, h[i] = h[j]
        PROVE  i = j
    <3>1. \/ i \in 1 .. k /\ h[i] = f[i]
          \/ i - k \in 1 .. n /\ h[i] = g[i - k] /\ i = (i - k) + k
      BY <1>6
    <3>2. \/ j \in 1 .. k /\ h[j] = f[j]
          \/ j - k \in 1 .. n /\ h[j] = g[j - k] /\ j = (j - k) + k
      BY <1>6
    <3>. QED
      BY <1>3, <1>4, <2>1, <3>1, <3>2
  <2>. QED
    BY <1>2, <2>1 DEF Distinct
<1>8. \A i \in 1 .. k + n : h[i] \in Entries(f) \union Entries(g)
  BY <1>6 DEF Entries, k, n
<1>9. \A i \in 1 .. k : f[i] \in Entries(h)
  BY <1>2, <1>5 DEF Entries
<1>10. \A i \in 1 .. n : g[i] \in Entries(h)
  BY <1>2, <1>5 DEF Entries
<1>11. Entries(h) \subseteq Entries(f) \union Entries(g)
  BY <1>2, <1>8 DEF Entries
<1>12. Entries(f) \subseteq Entries(h) /\ Entries(g) \subseteq Entries(h)
  BY <1>9, <1>10 DEF Entries, k, n
<1>. QED
  BY <1>2, <1>7, <1>11, <1>12 DEF IsRow, h

LEMMA HeadAdded ==
    ASSUME NEW f, IsRow(f), NEW x \in Int, x \notin Entries(f)
    PROVE  IsRow(<<x>> \o f) /\ Entries(<<x>> \o f) = Entries(f) \union {x}
<1>1. IsRow(<<x>>) /\ Entries(<<x>>) = {x}
  BY DEF IsRow, Distinct, Entries
<1>. QED
  BY <1>1, RowsJoined

\* f without its first entry.
HeadGone(f, g) ==
    /\ IsRow(g) /\ Entries(g) = Entries(f) \ {Head(f)}
    /\ Head(f) \in Entries(f) /\ Head(f) \in Int

LEMMA HeadTaken ==
    ASSUME NEW f, IsRow(f), f # << >>
    PROVE  HeadGone(f, Tail(f))
<1>. DEFINE n == Len(f)
            g == Tail(f)
<1>1. f \in Seq(Int) /\ n \in Nat
  BY DEF IsRow
<1>2. /\ Head(f) = f[1] /\ g \in Seq(Int) /\ Len(g) = n - 1
      /\ \A i \in 1 .. n - 1 : g[i] = f[i + 1]
  BY <1>1, HeadTailProperties
<1>3. n > 0
  BY <1>1, EmptySeq
<1>. HIDE DEF g
<1>4. \A i, j \in 1 .. n : f[i] = f[j] => i = j
  BY DEF IsRow, Distinct
<1>. HIDE DEF n
<1>5. 1 \in 1 .. n /\ \A i \in 1 .. n - 1 : i + 1 \in 1 .. n /\ i + 1 # 1
  BY <1>1, <1>3
<1>6. Distinct(g)
  <2>1. ASSUME NEW i \in 1 .. n - 1, NEW j \in 1 .. n - 1, g[i] = g[j]
        PROVE  i = j
    <3>1. i + 1 = j + 1
      BY <1>2, <1>4, <1>5, <2>1
    <3>. QED
      BY <1>1, <3>1
  <2>. QED
    BY <1>2, <2>1 DEF Distinct
<1>7. Head(f) \in Entries(f) /\ Head(f) \in Int
  BY <1>1, <1>2, <1>5 DEF Entries, n
<1>8. Entries(g) \subseteq Entries(f) \ {Head(f)}
  <2>1. \A i \in 1 .. n - 1 : g[i] \in Entries(f) \ {Head(f)}
    BY <1>2, <1>4, <1>5 DEF Entries, n
  <2>. QED
    BY <1>2, <2>1 DEF Entries
<1>9. Entries(f) \ {Head(f)} \subseteq Entries(g)
  <2>1. ASSUME NEW i \in 1 .. n, f[i] # Head(f)
        PROVE  f[i] \in Entries(g)
    <3>1. i - 1 \in 1 .. n - 1 /\ (i - 1) + 1 = i
      BY <1>1, <1>2, <2>1
    <3>2. g[i - 1] = f[i]
      BY <1>2, <3>1
    <3>3. i - 1 \in 1 .. Len(g)
      BY <1>2, <3>1
    <3>. QED
      BY <3>2, <3>3 DEF Entries
  <2>. QED
    BY <2>1 DEF Entries, n
<1>10. HeadGone(f, g)
  BY <1>2, <1>6, <1>7, <1>8, <1>9 DEF HeadGone, IsRow
<1>. QED
  BY <1>10 DEF g

----------------------------------------------------------------------------
\* What an operation does to a book.  A market gives its book's parameters.
MarketRules(m) == m.capacity \in Nat /\ m.payout \in Nat /\ m.feeBps \in 0 .. FeeBasis

GoodBook(m, b) == b \in Books(m.capacity, m.payout, m.feeBps) /\ Tidy(b)

LEMMA BookFields ==
    ASSUME NEW m, MarketRules(m), NEW b, GoodBook(m, b)
    PROVE  /\ b.payout = m.payout /\ b.feeBps = m.feeBps /\ b.next \in Nat \ {0}
           /\ DOMAIN b.slots = 1 .. m.capacity /\ DOMAIN b.heap = Sides
           /\ b.slots \in [1 .. m.capacity -> OrderRows(m.payout) \union {Vacant}]
           /\ b.heap \in [Sides -> Seq(Int)] /\ b.free \in Seq(Int)
<1>1. b \in Books(m.capacity, m.payout, m.feeBps)
  BY DEF GoodBook
<1>. QED
  BY <1>1 DEF Books

LEMMA BookOrders ==
    ASSUME NEW m, MarketRules(m), NEW b, GoodBook(m, b)
    PROVE  /\ Resting(b) \subseteq 1 .. m.capacity
           /\ \A s \in Resting(b) : /\ b.slots[s] \in OrderRows(m.payout)
                                    /\ b.slots[s].remaining > 0
                                    /\ s \in SlotsOf(b, Side(b.slots[s]))
           /\ \A s, t \in Resting(b) : b.slots[s].id = b.slots[t].id => s = t
<1>1. b.slots \in [1 .. m.capacity -> OrderRows(m.payout) \union {Vacant}]
  BY BookFields
<1>2. Tidy(b)
  BY DEF GoodBook
<1>. QED
  BY <1>1, <1>2 DEF Resting, Tidy, SlotsOf

LEMMA HeapOf ==
    ASSUME NEW m, MarketRules(m), NEW b, GoodBook(m, b), NEW side \in Sides
    PROVE  /\ IsRow(b.heap[side]) /\ Entries(b.heap[side]) = SlotsOf(b, side)
           /\ Heaped(b, side, b.heap[side])
           /\ Ranked(b, side, Entries(b.heap[side]))
<1>1. Tidy(b) /\ b \in Books(m.capacity, m.payout, m.feeBps) /\ m.payout \in Nat
  BY DEF GoodBook, MarketRules
<1>2. \A s, t \in Resting(b) : b.slots[s].id = b.slots[t].id => s = t
  BY <1>1 DEF Tidy
<1>3. SlotsOf(b, side) \in SUBSET Resting(b)
  BY DEF SlotsOf
<1>4. Ranked(b, side, SlotsOf(b, side))
  BY <1>1, <1>2, <1>3, SideRanked
<1>. QED
  BY <1>1, <1>4 DEF Tidy

\* The orders of c are those of b but for the slot s, which holds x.
Changed(b, c, s, x) ==
    /\ c.slots = [b.slots EXCEPT ![s] = x]
    /\ c.payout = b.payout /\ c.feeBps = b.feeBps

ChangedAt(b, c, s, x) ==
    /\ DOMAIN c.slots = DOMAIN b.slots /\ c.slots[s] = x
    /\ \A t \in DOMAIN b.slots : t # s => c.slots[t] = b.slots[t]
    /\ x = Vacant => Resting(c) = Resting(b) \ {s}
    /\ x # Vacant => Resting(c) = Resting(b) \union {s}

LEMMA ChangedRests ==
    ASSUME NEW b, NEW c, NEW s \in DOMAIN b.slots, NEW x, Changed(b, c, s, x)
    PROVE  ChangedAt(b, c, s, x)
<1>1. /\ DOMAIN c.slots = DOMAIN b.slots /\ c.slots[s] = x
      /\ \A t \in DOMAIN b.slots : t # s => c.slots[t] = b.slots[t]
  BY DEF Changed
<1>2. /\ x = Vacant => Resting(c) = Resting(b) \ {s}
      /\ x # Vacant => Resting(c) = Resting(b) \union {s}
  BY <1>1 DEF Resting
<1>. QED
  BY <1>1, <1>2 DEF ChangedAt

LEMMA StillHeaped ==
    ASSUME NEW b, NEW c, NEW s \in DOMAIN b.slots, NEW x, Changed(b, c, s, x),
           NEW side, NEW h, IsRow(h), Heaped(b, side, h),
           Entries(h) \subseteq DOMAIN b.slots, s \notin Entries(h)
    PROVE  Heaped(c, side, h)
<1>1. \A t \in Entries(h) : SameRank(b, c, t)
  BY ChangedRests DEF SameRank, Changed, ChangedAt
<1>. QED
  BY <1>1, HeapedSame

\* An order leaves the book.
RemovedFrom(m, b, slot, c) ==
    /\ GoodBook(m, c) /\ slot \in Resting(b) /\ Changed(b, c, slot, Vacant)
    /\ c.next = b.next

LEMMA RemoveKeeps ==
    ASSUME NEW m, MarketRules(m), NEW b, GoodBook(m, b), NEW side \in Sides,
           NEW index \in 1 .. Len(b.heap[side])
    PROVE  RemovedFrom(m, b, b.heap[side][index], RemoveOrder(b, side, index))
<1>. DEFINE slot == b.heap[side][index]
            c == RemoveOrder(b, side, index)
            w == Without(b, side, index)
<1>1. b \in Books(m.capacity, m.payout, m.feeBps) /\ Tidy(b) /\ m.payout \in Nat
  BY DEF GoodBook, MarketRules
<1>2. slot \in Entries(b.heap[side])
  BY DEF Entries
<1>3. slot \in SlotsOf(b, side) /\ slot \in Int
  BY <1>2, HeapOf DEF IsRow
<1>4. slot \in Resting(b) /\ Side(b.slots[slot]) = side
  BY <1>3 DEF SlotsOf
<1>5. /\ IsRow(w) /\ Entries(w) = SlotsOf(b, side) \ {slot} /\ Heaped(b, side, w)
  BY HeapOf, WithoutHeaps
<1>. HIDE DEF w
<1>6. /\ c.slots = [b.slots EXCEPT ![slot] = Vacant]
      /\ c.heap = [b.heap EXCEPT ![side] = w] /\ c.free = <<slot>> \o b.free
      /\ c.next = b.next /\ c.payout = b.payout /\ c.feeBps = b.feeBps
      /\ c \in [slots : {c.slots}, heap : {c.heap}, free : {c.free}, next : {c.next},
                payout : {c.payout}, feeBps : {c.feeBps}]
  BY <1>1 DEF RemoveOrder, Books, w
<1>. HIDE DEF c, slot
<1>7. slot \in DOMAIN b.slots /\ DOMAIN b.heap = Sides
  BY <1>4, BookFields DEF Resting
<1>8. Changed(b, c, slot, Vacant)
  BY <1>6 DEF Changed
<1>9. Resting(c) = Resting(b) \ {slot} /\ DOMAIN c.slots = DOMAIN b.slots
      /\ \A t \in Resting(c) : c.slots[t] = b.slots[t] /\ t \in DOMAIN b.slots
  <2>2. ChangedAt(b, c, slot, Vacant)
    BY <1>7, <1>8, ChangedRests
  <2>1. /\ DOMAIN c.slots = DOMAIN b.slots
        /\ \A t \in DOMAIN b.slots : t # slot => c.slots[t] = b.slots[t]
        /\ Resting(c) = Resting(b) \ {slot}
    BY <2>2 DEF ChangedAt
  <2>3. Resting(b) \subseteq DOMAIN b.slots
    BY DEF Resting
  <2>. QED
    BY <2>1, <2>3
<1>10. IsRow(c.free) /\ Entries(c.free) = DOMAIN c.slots \ Resting(c)
  <2>1. IsRow(b.free) /\ Entries(b.free) = DOMAIN b.slots \ Resting(b)
    BY <1>1 DEF Tidy
  <2>2. slot \notin Entries(b.free)
    BY <1>4, <2>1
  <2>3. IsRow(c.free) /\ Entries(c.free) = Entries(b.free) \union {slot}
    BY <1>3, <1>6, <2>1, <2>2, HeadAdded
  <2>. QED
    BY <1>4, <1>7, <1>9, <2>1, <2>3
<1>11. c \in Books(m.capacity, m.payout, m.feeBps)
  <2>1. c.slots \in [1 .. m.capacity -> OrderRows(m.payout) \union {Vacant}]
    <3>1. b.slots \in [1 .. m.capacity -> OrderRows(m.payout) \union {Vacant}]
      BY BookFields
    <3>. QED
      BY <1>6, <3>1
  <2>2. c.heap \in [Sides -> Seq(Int)]
    BY <1>5, <1>6, BookFields DEF IsRow
  <2>3. c.free \in Seq(Int) /\ c.next \in Nat \ {0}
    BY <1>6, <1>10, BookFields DEF IsRow
  <2>4. c.payout = m.payout /\ c.feeBps = m.feeBps
    BY <1>6, BookFields
  <2>. QED
    BY <1>6, <2>1, <2>2, <2>3, <2>4 DEF Books
<1>12. ASSUME NEW s \in Sides
       PROVE  /\ IsRow(c.heap[s]) /\ Entries(c.heap[s]) = SlotsOf(c, s)
              /\ Heaped(c, s, c.heap[s])
  <2>1. SlotsOf(c, s) = SlotsOf(b, s) \ {slot}
    BY <1>9 DEF SlotsOf
  <2>2. IsRow(c.heap[s]) /\ Entries(c.heap[s]) = SlotsOf(b, s) \ {slot} /\ Heaped(b, s, c.heap[s])
    <3>1. CASE s = side
      BY <1>5, <1>6, <1>7, <3>1
    <3>2. CASE s # side
      <4>1. c.heap[s] = b.heap[s]
        BY <1>6, <1>7, <3>2
      <4>2. slot \notin SlotsOf(b, s)
        BY <1>4, <3>2 DEF SlotsOf
      <4>. QED
        BY <4>1, <4>2, HeapOf
    <3>. QED
      BY <3>1, <3>2
  <2>3. SlotsOf(b, s) \subseteq DOMAIN b.slots
    BY DEF SlotsOf, Resting
  <2>4. Heaped(c, s, c.heap[s])
    BY <1>7, <1>8, <2>2, <2>3, StillHeaped
  <2>. QED
    BY <2>1, <2>2, <2>4
<1>13. Tidy(c)
  <2>1. /\ \A s \in Resting(c) : c.slots[s].remaining > 0
        /\ \A s, t \in Resting(c) : c.slots[s].id = c.slots[t].id => s = t
    BY <1>1, <1>9 DEF Tidy
  <2>. QED
    BY <1>10, <1>12, <2>1 DEF Tidy
<1>. QED
  BY <1>4, <1>6, <1>8, <1>11, <1>13 DEF RemovedFrom, GoodBook, c, slot

\* The same order, of which more or less remains.
SameOrder(o, p) ==
    /\ p.id = o.id /\ p.owner = o.owner /\ p.outcome = o.outcome /\ p.action = o.action
    /\ p.price = o.price /\ p.expires = o.expires

\* A resting order is written again.
Rewritten(b, slot, x) == [b EXCEPT !.slots[slot] = x]
RewrittenTo(m, b, slot, x, c) ==
    GoodBook(m, c) /\ Changed(b, c, slot, x) /\ c.next = b.next /\ Resting(c) = Resting(b)

LEMMA RewriteKeeps ==
    ASSUME NEW m, MarketRules(m), NEW b, GoodBook(m, b), NEW slot \in Resting(b),
           NEW x \in OrderRows(m.payout), x.remaining > 0, SameOrder(b.slots[slot], x)
    PROVE  RewrittenTo(m, b, slot, x, Rewritten(b, slot, x))
<1>. DEFINE c == Rewritten(b, slot, x)
<1>1. b \in Books(m.capacity, m.payout, m.feeBps) /\ Tidy(b) /\ m.payout \in Nat
  BY DEF GoodBook, MarketRules
<1>2. /\ c.slots = [b.slots EXCEPT ![slot] = x] /\ c.heap = b.heap /\ c.free = b.free
      /\ c.next = b.next /\ c.payout = b.payout /\ c.feeBps = b.feeBps
      /\ c \in [slots : {c.slots}, heap : {c.heap}, free : {c.free}, next : {c.next},
                payout : {c.payout}, feeBps : {c.feeBps}]
  BY <1>1 DEF Rewritten, Books
<1>. HIDE DEF c
<1>3. Changed(b, c, slot, x) /\ slot \in DOMAIN b.slots /\ x # Vacant
  BY <1>1, <1>2, OrderFields DEF Changed, Resting
<1>4. /\ DOMAIN c.slots = DOMAIN b.slots /\ c.slots[slot] = x
      /\ \A t \in DOMAIN b.slots : t # slot => c.slots[t] = b.slots[t]
  <2>1. ChangedAt(b, c, slot, x)
    BY <1>3, ChangedRests
  <2>. QED
    BY <2>1 DEF ChangedAt
<1>5. Resting(c) = Resting(b)
  <2>1. ChangedAt(b, c, slot, x)
    BY <1>3, ChangedRests
  <2>. QED
    BY <1>3, <2>1 DEF ChangedAt
<1>6. Resting(b) \subseteq DOMAIN b.slots
  BY DEF Resting
<1>7. \A t \in Resting(b) : SameOrder(b.slots[t], c.slots[t]) /\ c.slots[t].remaining > 0
  <2>1. \A t \in Resting(b) : b.slots[t].remaining > 0
    BY <1>1 DEF Tidy
  <2>. QED
    BY <1>4, <1>6, <2>1 DEF SameOrder
<1>8. c \in Books(m.capacity, m.payout, m.feeBps)
  <2>1. b.slots \in [1 .. m.capacity -> OrderRows(m.payout) \union {Vacant}]
    BY BookFields
  <2>2. c.slots \in [1 .. m.capacity -> OrderRows(m.payout) \union {Vacant}]
    BY <1>2, <2>1
  <2>. QED
    BY <1>2, <2>2, BookFields DEF Books
<1>9. ASSUME NEW s \in Sides
      PROVE  /\ IsRow(c.heap[s]) /\ Entries(c.heap[s]) = SlotsOf(c, s)
             /\ Heaped(c, s, c.heap[s])
  <2>1. SlotsOf(c, s) = SlotsOf(b, s)
    BY <1>5, <1>7 DEF SlotsOf, SameOrder, Side
  <2>2. /\ IsRow(b.heap[s]) /\ Entries(b.heap[s]) = SlotsOf(b, s)
        /\ Heaped(b, s, b.heap[s])
    BY HeapOf
  <2>3. \A t \in SlotsOf(b, s) : SameRank(b, c, t)
    BY <1>2, <1>7 DEF SlotsOf, SameRank, SameOrder, CanonicalPrice
  <2>4. Heaped(c, s, b.heap[s])
    BY <2>2, <2>3, HeapedSame
  <2>. QED
    BY <1>2, <2>1, <2>2, <2>4
<1>10. Tidy(c)
  <2>1. /\ \A s \in Resting(c) : c.slots[s].remaining > 0
        /\ \A s, t \in Resting(c) : c.slots[s].id = c.slots[t].id => s = t
    BY <1>1, <1>5, <1>7 DEF Tidy, SameOrder
  <2>2. IsRow(c.free) /\ Entries(c.free) = DOMAIN c.slots \ Resting(c)
    BY <1>1, <1>2, <1>4, <1>5 DEF Tidy
  <2>. QED
    BY <1>9, <2>1, <2>2 DEF Tidy
<1>11. RewrittenTo(m, b, slot, x, c)
  BY <1>2, <1>3, <1>5, <1>8, <1>10 DEF RewrittenTo, GoodBook
<1>. QED
  BY <1>11 DEF c

\* An order joins the book in a free slot.
PlacedIn(m, b, slot, o, c) ==
    /\ GoodBook(m, c) /\ slot \in DOMAIN b.slots \ Resting(b) /\ Changed(b, c, slot, o)
    /\ c.next = b.next

LEMMA InsertKeeps ==
    ASSUME NEW m, MarketRules(m), NEW b, GoodBook(m, b), b.free # << >>,
           NEW o \in OrderRows(m.payout), o.remaining > 0,
           \A s \in Resting(b) : b.slots[s].id # o.id
    PROVE  PlacedIn(m, b, Head(b.free), o, Insert(b, o))
<1>. DEFINE slot == Head(b.free)
            side == Side(o)
            placed == [b EXCEPT !.slots[slot] = o, !.free = Tail(@)]
            c == Insert(b, o)
            w == SiftUp(placed, side, Append(b.heap[side], slot), slot)
<1>1. b \in Books(m.capacity, m.payout, m.feeBps) /\ Tidy(b) /\ m.payout \in Nat
  BY DEF GoodBook, MarketRules
<1>2. IsRow(b.free) /\ Entries(b.free) = DOMAIN b.slots \ Resting(b)
  BY <1>1 DEF Tidy
<1>3. /\ IsRow(Tail(b.free)) /\ Entries(Tail(b.free)) = Entries(b.free) \ {slot}
      /\ slot \in DOMAIN b.slots \ Resting(b) /\ slot \in Int
  BY <1>2, HeadTaken DEF HeadGone
<1>4. side \in Sides /\ o # Vacant /\ o.id \in Nat
  BY <1>1, OrderFields
<1>5. /\ placed.slots = [b.slots EXCEPT ![slot] = o] /\ placed.payout = b.payout
      /\ placed.heap = b.heap /\ placed.free = Tail(b.free) /\ placed.next = b.next
      /\ placed.feeBps = b.feeBps
  BY <1>1 DEF Books
<1>6. c = [placed EXCEPT !.heap[side] = w]
  BY DEF Insert
<1>. HIDE DEF w
<1>7. /\ c.slots = [b.slots EXCEPT ![slot] = o]
      /\ c.heap = [b.heap EXCEPT ![side] = w] /\ c.free = Tail(b.free)
      /\ c.next = b.next /\ c.payout = b.payout /\ c.feeBps = b.feeBps
      /\ c \in [slots : {c.slots}, heap : {c.heap}, free : {c.free}, next : {c.next},
                payout : {c.payout}, feeBps : {c.feeBps}]
  BY <1>1, <1>6 DEF Books
<1>8. placed \in Books(m.capacity, m.payout, m.feeBps)
  <2>1. b.slots \in [1 .. m.capacity -> OrderRows(m.payout) \union {Vacant}]
    BY BookFields
  <2>2. placed.slots \in [1 .. m.capacity -> OrderRows(m.payout) \union {Vacant}]
    <3>. HIDE DEF placed
    <3>. QED
      BY <1>4, <1>5, <2>1
  <2>3. Tail(b.free) \in Seq(Int)
    BY <1>3 DEF IsRow
  <2>4. placed \in [slots : {placed.slots}, heap : {b.heap}, free : {Tail(b.free)},
                    next : {b.next}, payout : {b.payout}, feeBps : {b.feeBps}]
    BY <1>1 DEF Books
  <2>. HIDE DEF placed
  <2>. QED
    BY <1>5, <2>2, <2>3, <2>4, BookFields DEF Books
<1>9. Changed(b, placed, slot, o) /\ Changed(b, c, slot, o)
  BY <1>5, <1>7 DEF Changed
<1>. HIDE DEF placed, c, slot, side
<1>10. /\ DOMAIN placed.slots = DOMAIN b.slots /\ placed.slots[slot] = o
       /\ \A t \in DOMAIN b.slots : t # slot => placed.slots[t] = b.slots[t]
       /\ Resting(placed) = Resting(b) \union {slot}
  <2>1. ChangedAt(b, placed, slot, o)
    BY <1>3, <1>9, ChangedRests
  <2>. QED
    BY <1>4, <2>1 DEF ChangedAt
<1>11. Resting(b) \subseteq DOMAIN b.slots
  BY DEF Resting
<1>12. /\ \A s, t \in Resting(placed) : placed.slots[s].id = placed.slots[t].id => s = t
       /\ \A s \in Resting(placed) : placed.slots[s].remaining > 0
  <2>1. /\ \A s, t \in Resting(b) : b.slots[s].id = b.slots[t].id => s = t
        /\ \A s \in Resting(b) : b.slots[s].remaining > 0
    BY <1>1 DEF Tidy
  <2>. QED
    BY <1>3, <1>10, <1>11, <2>1
<1>13. \A s \in Sides : SlotsOf(placed, s) = SlotsOf(b, s) \union (IF s = side THEN {slot} ELSE {})
  BY <1>3, <1>10, <1>11 DEF SlotsOf, side
<1>14. ASSUME NEW s \in Sides
       PROVE  IsRow(b.heap[s]) /\ Entries(b.heap[s]) = SlotsOf(b, s) /\ Heaped(placed, s, b.heap[s])
  <2>1. IsRow(b.heap[s]) /\ Entries(b.heap[s]) = SlotsOf(b, s) /\ Heaped(b, s, b.heap[s])
    BY HeapOf
  <2>2. Entries(b.heap[s]) \subseteq DOMAIN b.slots /\ slot \notin Entries(b.heap[s])
    BY <1>3, <1>11, <2>1 DEF SlotsOf
  <2>3. Heaped(placed, s, b.heap[s])
    BY <1>3, <1>9, <2>1, <2>2, StillHeaped
  <2>. QED
    BY <2>1, <2>3
<1>15. /\ IsRow(w) /\ Entries(w) = SlotsOf(placed, side) /\ Heaped(placed, side, w)
  <2>1. Ranked(placed, side, SlotsOf(placed, side))
    <3>1. SlotsOf(placed, side) \in SUBSET Resting(placed)
      BY DEF SlotsOf
    <3>2. \A s, t \in Resting(placed) : placed.slots[s].id = placed.slots[t].id => s = t
      BY <1>12
    <3>. QED
      BY <1>1, <1>4, <1>8, <3>1, <3>2, SideRanked
  <2>2. SlotsOf(placed, side) = Entries(b.heap[side]) \union {slot}
    BY <1>4, <1>13, <1>14
  <2>3. slot \notin Entries(b.heap[side])
    BY <1>3, <1>4, <1>14 DEF SlotsOf
  <2>4. Joined(placed, side, b.heap[side], slot, w)
    <3>1. IsRow(b.heap[side]) /\ Heaped(placed, side, b.heap[side])
      BY <1>4, <1>14
    <3>2. Ranked(placed, side, Entries(b.heap[side]) \union {slot})
      BY <2>1, <2>2
    <3>. QED
      BY <1>3, <2>3, <3>1, <3>2, JoinedHeap DEF w
  <2>. QED
    BY <2>2, <2>4 DEF Joined
<1>16. \A s : SlotsOf(c, s) = SlotsOf(placed, s) /\ Resting(c) = Resting(placed)
              /\ \A h : IsRow(h) /\ Heaped(placed, s, h) => Heaped(c, s, h)
  <2>1. c.slots = placed.slots /\ c.payout = placed.payout
    BY <1>5, <1>7
  <2>2. Resting(c) = Resting(placed)
    BY <2>1 DEF Resting
  <2>3. \A s : SlotsOf(c, s) = SlotsOf(placed, s)
    BY <2>1, <2>2 DEF SlotsOf
  <2>4. \A s : \A h : IsRow(h) /\ Heaped(placed, s, h) => Heaped(c, s, h)
    BY <2>1, HeapedSame DEF SameRank
  <2>. QED
    BY <2>2, <2>3, <2>4
<1>17. ASSUME NEW s \in Sides
       PROVE  /\ IsRow(c.heap[s]) /\ Entries(c.heap[s]) = SlotsOf(c, s)
              /\ Heaped(c, s, c.heap[s])
  <2>1. IsRow(c.heap[s]) /\ Entries(c.heap[s]) = SlotsOf(placed, s) /\ Heaped(placed, s, c.heap[s])
    <3>1. CASE s = side
      BY <1>7, <1>15, <3>1, BookFields
    <3>2. CASE s # side
      <4>1. c.heap[s] = b.heap[s]
        BY <1>7, <3>2, BookFields
      <4>. QED
        BY <1>13, <1>14, <3>2, <4>1
    <3>. QED
      BY <3>1, <3>2
  <2>. QED
    BY <1>16, <2>1
<1>18. c \in Books(m.capacity, m.payout, m.feeBps)
  <2>1. c.heap \in [Sides -> Seq(Int)]
    <3>1. w \in Seq(Int) /\ b.heap \in [Sides -> Seq(Int)]
      BY <1>15, BookFields DEF IsRow
    <3>. QED
      BY <1>7, <3>1
  <2>2. c.slots = placed.slots /\ c.free = placed.free
    BY <1>5, <1>7
  <2>. QED
    BY <1>7, <1>8, <2>1, <2>2, BookFields DEF Books
<1>19. Tidy(c)
  <2>1. DOMAIN c.slots = DOMAIN b.slots /\ c.slots = placed.slots
    BY <1>5, <1>7
  <2>2. IsRow(c.free) /\ Entries(c.free) = DOMAIN c.slots \ Resting(c)
    BY <1>2, <1>3, <1>7, <1>10, <1>16, <2>1
  <2>3. /\ \A s \in Resting(c) : c.slots[s].remaining > 0
        /\ \A s, t \in Resting(c) : c.slots[s].id = c.slots[t].id => s = t
    BY <1>12, <1>16, <2>1
  <2>. QED
    BY <1>17, <2>2, <2>3 DEF Tidy
<1>. QED
  BY <1>3, <1>7, <1>9, <1>18, <1>19 DEF PlacedIn, GoodBook, c, slot

LEMMA EmptyKeeps ==
    ASSUME NEW m, MarketRules(m)
    PROVE  LET b == EmptyBook(m.capacity, m.payout, m.feeBps)
           IN GoodBook(m, b) /\ Resting(b) = {} /\ b.next = 1
<1>. DEFINE b == EmptyBook(m.capacity, m.payout, m.feeBps)
            n == m.capacity
<1>1. n \in Nat
  BY DEF MarketRules
<1>2. /\ b.slots = [s \in 1 .. n |-> Vacant] /\ b.heap = [Bid |-> << >>, Ask |-> << >>]
      /\ b.free = [s \in 1 .. n |-> s] /\ b.next = 1 /\ b.payout = m.payout
      /\ b.feeBps = m.feeBps
      /\ b \in [slots : {b.slots}, heap : {b.heap}, free : {b.free}, next : {b.next},
                payout : {b.payout}, feeBps : {b.feeBps}]
  BY DEF EmptyBook
<1>. HIDE DEF b, n
<1>3. Resting(b) = {} /\ DOMAIN b.slots = 1 .. n
  BY <1>2 DEF Resting
<1>4. b.free \in Seq(Int) /\ Len(b.free) = n /\ \A i \in 1 .. n : b.free[i] = i
  <2>1. \A i \in 1 .. n : i \in Int
    BY <1>1
  <2>2. b.free \in Seq(Int) /\ Len(b.free) = n
    BY <1>1, <1>2, <2>1, IsASeq
  <2>. QED
    BY <1>2, <2>2
<1>5. IsRow(b.free) /\ Entries(b.free) = 1 .. n
  <2>1. Distinct(b.free)
    BY <1>4 DEF Distinct
  <2>2. Entries(b.free) = 1 .. n
    BY <1>4 DEF Entries
  <2>. QED
    BY <1>4, <2>1, <2>2 DEF IsRow
<1>6. << >> \in Seq(Int) /\ Len(<< >>) = 0 /\ 1 .. 0 = {}
  BY EmptySeq
<1>7. IsRow(<< >>) /\ Entries(<< >>) = {} /\ \A side : Heaped(b, side, << >>)
  <2>1. 2 .. 0 = {}
    OBVIOUS
  <2>2. IsRow(<< >>)
    BY <1>6 DEF IsRow, Distinct
  <2>3. Entries(<< >>) = {}
    BY <1>6 DEF Entries
  <2>. QED
    BY <1>6, <2>1, <2>2, <2>3 DEF Heaped
<1>8. \A side \in Sides : b.heap[side] = << >> /\ SlotsOf(b, side) = {}
  BY <1>2, <1>3 DEF Sides, SlotsOf
<1>9. Tidy(b)
  <2>1. ASSUME NEW side \in Sides
        PROVE  /\ IsRow(b.heap[side]) /\ Entries(b.heap[side]) = SlotsOf(b, side)
               /\ Heaped(b, side, b.heap[side])
    BY <1>7, <1>8
  <2>. QED
    BY <1>3, <1>5, <2>1 DEF Tidy
<1>10. b \in Books(m.capacity, m.payout, m.feeBps)
  <2>1. b.heap \in [Sides -> Seq(Int)]
    <3>1. DOMAIN b.heap = Sides /\ b.heap = [s \in Sides |-> b.heap[s]]
      BY <1>2 DEF Sides
    <3>. QED
      BY <1>6, <1>8, <3>1
  <2>2. b.slots \in [1 .. m.capacity -> OrderRows(m.payout) \union {Vacant}]
    BY <1>2 DEF n
  <2>3. 1 \in Nat \ {0}
    OBVIOUS
  <2>. QED
    BY <1>2, <1>4, <2>1, <2>2, <2>3 DEF Books
<1>. QED
  BY <1>2, <1>3, <1>9, <1>10 DEF GoodBook, b

\* The storage is well formed, as the program's own checks state it.
LEMMA GoodIsWellFormed ==
    ASSUME NEW m, MarketRules(m), NEW b, GoodBook(m, b)
    PROVE  WellFormed(b)
<1>. DEFINE bid == b.heap.Bid
            ask == b.heap.Ask
<1>1. /\ IsRow(bid) /\ Entries(bid) = SlotsOf(b, "Bid") /\ Heaped(b, "Bid", bid)
      /\ IsRow(ask) /\ Entries(ask) = SlotsOf(b, "Ask") /\ Heaped(b, "Ask", ask)
  BY HeapOf DEF Sides
<1>2. IsRow(b.free) /\ Entries(b.free) = DOMAIN b.slots \ Resting(b)
  BY DEF GoodBook, Tidy
<1>3. \A s \in Resting(b) : b.slots[s].remaining > 0 /\ Side(b.slots[s]) \in {"Bid", "Ask"}
  BY BookOrders DEF Side
<1>4. /\ SlotsOf(b, "Bid") \union SlotsOf(b, "Ask") = Resting(b)
      /\ SlotsOf(b, "Bid") \intersect SlotsOf(b, "Ask") = {}
  BY <1>3 DEF SlotsOf
<1>5. IsRow(bid \o ask) /\ Entries(bid \o ask) = Resting(b)
  BY <1>1, <1>4, RowsJoined
<1>6. IsRow((bid \o ask) \o b.free)
  BY <1>2, <1>5, RowsJoined
<1>7. ASSUME NEW h, IsRow(h)
      PROVE  IsInjective(h) /\ Range(h) = Entries(h) /\ DOMAIN h = 1 .. Len(h) /\ Len(h) \in Nat
  <2>1. h \in Seq(Int) /\ DOMAIN h = 1 .. Len(h) /\ Len(h) \in Nat
    BY <1>7 DEF IsRow
  <2>. QED
    BY <1>7, <2>1 DEF IsRow, Distinct, IsInjective, Range, Entries
<1>8. ASSUME NEW side \in Sides, NEW i \in DOMAIN b.heap[side]
      PROVE  /\ Side(OrderAt(b, side, i)) = side /\ OrderAt(b, side, i).remaining > 0
             /\ i > 1 => Better(b, side, b.heap[side][i \div 2], b.heap[side][i])
  <2>. DEFINE h == b.heap[side]
  <2>1. IsRow(h) /\ Entries(h) = SlotsOf(b, side) /\ Heaped(b, side, h)
    BY HeapOf
  <2>2. i \in 1 .. Len(h) /\ Len(h) \in Nat
    BY <1>7, <2>1
  <2>3. h[i] \in SlotsOf(b, side)
    BY <2>1, <2>2 DEF Entries
  <2>4. i > 1 => Above(b, side, h, i)
    BY <2>1, <2>2 DEF Heaped
  <2>. QED
    BY <1>3, <2>3, <2>4 DEF OrderAt, SlotsOf, Above, Parent
<1>. QED
  BY <1>2, <1>5, <1>6, <1>7, <1>8 DEF WellFormed, Sides

----------------------------------------------------------------------------
\* The best order of a side stands first.
LEMMA BestFirst ==
    ASSUME NEW m, MarketRules(m), NEW b, GoodBook(m, b), NEW side \in Sides,
           b.heap[side] # << >>
    PROVE  /\ b.heap[side][1] \in SlotsOf(b, side) /\ 1 \in 1 .. Len(b.heap[side])
           /\ \A s \in SlotsOf(b, side) : s = b.heap[side][1] \/ Better(b, side, b.heap[side][1], s)
<1>. DEFINE h == b.heap[side]
<1>1. /\ IsRow(h) /\ Entries(h) = SlotsOf(b, side) /\ Heaped(b, side, h)
      /\ Ranked(b, side, Entries(h))
  BY HeapOf
<1>2. h \in Seq(Int) /\ Len(h) \in Nat /\ Len(h) # 0
  BY <1>1, EmptySeq DEF IsRow
<1>3. 1 \in 1 .. Len(h)
  BY <1>2
<1>4. h[1] \in SlotsOf(b, side)
  BY <1>1, <1>3 DEF Entries
<1>5. \A i \in 1 .. Len(h) : i = 1 \/ Better(b, side, h[1], h[i])
  BY <1>1, FirstIsBest
<1>6. \A s \in SlotsOf(b, side) : s = h[1] \/ Better(b, side, h[1], s)
  BY <1>1, <1>5 DEF Entries
<1>. QED
  BY <1>3, <1>4, <1>6

LEMMA EmptyHeap ==
    ASSUME NEW m, MarketRules(m), NEW b, GoodBook(m, b), NEW side \in Sides
    PROVE  b.heap[side] = << >> <=> SlotsOf(b, side) = {}
<1>1. IsRow(b.heap[side]) /\ Entries(b.heap[side]) = SlotsOf(b, side)
  BY HeapOf
<1>2. b.heap[side] \in Seq(Int) /\ Len(b.heap[side]) \in Nat
  BY <1>1 DEF IsRow
<1>3. b.heap[side] = << >> => 1 .. Len(b.heap[side]) = {}
  BY EmptySeq
<1>4. b.heap[side] # << >> => 1 \in 1 .. Len(b.heap[side])
  BY <1>2, EmptySeq
<1>. QED
  BY <1>1, <1>3, <1>4 DEF Entries

----------------------------------------------------------------------------
\* One turn of the matching loop.
Ends == {"Matching", "Stopped", "Worked", "MatchLimitExceeded", "PostOnlyRejected"}

EffectRows(payout) ==
    [kind : {"Fill"}, maker : OrderRows(payout), taker : OrderRows(payout),
     price : 1 .. payout - 1, quantity : Nat \ {0}]
    \union [kind : {"Removed"}, order : OrderRows(payout)]

MatchStates(m) ==
    [book : Books(m.capacity, m.payout, m.feeBps), taker : OrderRows(m.payout),
     effects : Seq(EffectRows(m.payout)), end : Ends]

\* What is true of the loop at every turn, for an order that meets the book b: the
\* orders left are b's, and so is the taker the order it was.
Matched(m, b, order, st) ==
    /\ st \in MatchStates(m) /\ Tidy(st.book) /\ st.book.next = b.next
    /\ SameOrder(order, st.taker)
    /\ Resting(st.book) \subseteq Resting(b)
    /\ \A s \in Resting(st.book) : SameOrder(b.slots[s], st.book.slots[s])

\* The best opposing order, in the slot it rests in.
Facing(m, st, side, slot, maker) ==
    /\ side = Opposite(Side(st.taker)) /\ side \in Sides
    /\ slot = st.book.heap[side][1] /\ maker = OrderAt(st.book, side, 1)
    /\ slot \in Resting(st.book) /\ 1 \in 1 .. Len(st.book.heap[side])
    /\ maker = st.book.slots[slot] /\ maker \in OrderRows(m.payout)
    /\ maker.remaining > 0 /\ Side(maker) = side

LEMMA FacesBest ==
    ASSUME NEW m, MarketRules(m), NEW b, NEW order, NEW st, Matched(m, b, order, st),
           NEW side, side = Opposite(Side(st.taker)), st.book.heap[side] # << >>
    PROVE  Facing(m, st, side, st.book.heap[side][1], OrderAt(st.book, side, 1))
<1>1. GoodBook(m, st.book) /\ st.taker \in OrderRows(m.payout)
  BY DEF Matched, MatchStates, GoodBook
<1>2. side \in Sides
  BY DEF Opposite, Sides
<1>3. st.book.heap[side][1] \in SlotsOf(st.book, side) /\ 1 \in 1 .. Len(st.book.heap[side])
  BY <1>1, <1>2, BestFirst
<1>4. st.book.heap[side][1] \in Resting(st.book)
  BY <1>3 DEF SlotsOf
<1>5. /\ st.book.slots[st.book.heap[side][1]] \in OrderRows(m.payout)
      /\ st.book.slots[st.book.heap[side][1]].remaining > 0
  BY <1>1, <1>4, BookOrders
<1>. QED
  BY <1>2, <1>3, <1>4, <1>5 DEF Facing, OrderAt, SlotsOf

LEMMA PrincipalNat ==
    ASSUME NEW payout \in Nat, NEW price \in 1 .. payout - 1, NEW quantity \in Nat,
           NEW outcome
    PROVE  Principal(outcome, price, quantity, payout) \in Nat
<1>1. price \in Nat /\ payout - price \in Nat
  OBVIOUS
<1>2. quantity * price \in Nat /\ quantity * (payout - price) \in Nat
  BY <1>1
<1>. QED
  BY <1>2 DEF Principal

FilledOrder(o, price, quantity, payout, f) ==
    /\ f \in OrderRows(payout) /\ SameOrder(o, f) /\ f.remaining = o.remaining - quantity
    /\ f.notional = o.notional + Principal(o.outcome, price, quantity, payout)

LEMMA FilledIsOrder ==
    ASSUME NEW payout \in Nat, NEW o \in OrderRows(payout), NEW price \in 1 .. payout - 1,
           NEW quantity \in Nat, quantity <= o.remaining
    PROVE  FilledOrder(o, price, quantity, payout, Filled(o, price, quantity, payout))
<1>. DEFINE paid == Principal(o.outcome, price, quantity, payout)
<1>1. paid \in Nat /\ o.remaining - quantity \in Nat /\ o.notional \in Nat
  BY PrincipalNat, OrderFields
<1>. HIDE DEF paid
<1>2. o.notional + paid \in Nat
  BY <1>1
<1>. QED
  BY <1>1, <1>2 DEF FilledOrder, Filled, OrderRows, SameOrder, paid

LEMMA SameOrderAgain ==
    ASSUME NEW o, NEW p, NEW q, SameOrder(o, p), SameOrder(p, q)
    PROVE  SameOrder(o, q)
BY DEF SameOrder

LEMMA RemovedMatches ==
    ASSUME NEW m, MarketRules(m), NEW b, NEW order, NEW st, Matched(m, b, order, st),
           NEW side, NEW slot, NEW maker, Facing(m, st, side, slot, maker)
    PROVE  /\ Matched(m, b, order, Removed(st, side, maker))
           /\ RemovedFrom(m, st.book, slot, Removed(st, side, maker).book)
           /\ Removed(st, side, maker).taker = st.taker
           /\ Removed(st, side, maker).effects
                = Append(st.effects, [kind |-> "Removed", order |-> maker])
           /\ Removed(st, side, maker).end = st.end
<1>. DEFINE c == RemoveOrder(st.book, side, 1)
            r == Removed(st, side, maker)
            e == [kind |-> "Removed", order |-> maker]
<1>1. /\ st \in MatchStates(m) /\ GoodBook(m, st.book) /\ maker \in OrderRows(m.payout)
      /\ side \in Sides /\ 1 \in 1 .. Len(st.book.heap[side]) /\ slot = st.book.heap[side][1]
  BY DEF Matched, MatchStates, GoodBook, Facing
<1>2. RemovedFrom(m, st.book, slot, c)
  BY <1>1, RemoveKeeps
<1>3. r.book = c /\ r.taker = st.taker /\ r.effects = Append(st.effects, e) /\ r.end = st.end
      /\ r \in [book : {r.book}, taker : {r.taker}, effects : {r.effects}, end : {r.end}]
  BY <1>1 DEF Removed, Pop, MatchStates
<1>. HIDE DEF c, r
<1>4. e \in EffectRows(m.payout)
  BY <1>1 DEF EffectRows
<1>. HIDE DEF e
<1>5. Append(st.effects, e) \in Seq(EffectRows(m.payout))
  <2>1. st.effects \in Seq(EffectRows(m.payout))
    BY <1>1 DEF MatchStates
  <2>. QED
    BY <1>4, <2>1, AppendProperties
<1>6. GoodBook(m, c) /\ Changed(st.book, c, slot, Vacant) /\ c.next = st.book.next
      /\ slot \in Resting(st.book)
  BY <1>2 DEF RemovedFrom
<1>7. r \in MatchStates(m)
  BY <1>1, <1>3, <1>5, <1>6 DEF MatchStates, GoodBook
<1>8. slot \in DOMAIN st.book.slots
  BY <1>6 DEF Resting
<1>9. ChangedAt(st.book, c, slot, Vacant)
  BY <1>6, <1>8, ChangedRests
<1>10. Resting(c) = Resting(st.book) \ {slot} /\ \A s \in Resting(c) : c.slots[s] = st.book.slots[s]
  BY <1>9 DEF ChangedAt, Resting
<1>11. Matched(m, b, order, r)
  BY <1>3, <1>6, <1>7, <1>10 DEF Matched, GoodBook
<1>. QED
  BY <1>2, <1>3, <1>11 DEF r, e

\* The book after a fill: the maker is gone or waits with what remains of it.
FilledBook(m, st, side, slot, maker, price, quantity) ==
    IF maker.remaining = quantity THEN Pop(st.book, side)
    ELSE Rewritten(st.book, slot, Filled(maker, price, quantity, m.payout))

LEMMA TradedMatches ==
    ASSUME NEW m, MarketRules(m), NEW b, NEW order, NEW st, Matched(m, b, order, st),
           NEW side, NEW slot, NEW maker, Facing(m, st, side, slot, maker),
           NEW price \in 1 .. m.payout - 1, NEW quantity \in Nat \ {0},
           quantity <= maker.remaining, quantity <= st.taker.remaining
    PROVE  LET r == Traded(st, side, slot, maker, price, quantity)
               left == Filled(maker, price, quantity, m.payout)
           IN /\ Matched(m, b, order, r)
              /\ maker.remaining = quantity => RemovedFrom(m, st.book, slot, r.book)
              /\ maker.remaining # quantity => RewrittenTo(m, st.book, slot, left, r.book)
              /\ r.taker = Filled(st.taker, price, quantity, m.payout)
              /\ r.effects = Append(st.effects, [kind |-> "Fill", maker |-> maker,
                                                 taker |-> st.taker, price |-> price,
                                                 quantity |-> quantity])
              /\ r.end = st.end
<1>. DEFINE r == Traded(st, side, slot, maker, price, quantity)
            left == Filled(maker, price, quantity, m.payout)
            taker == Filled(st.taker, price, quantity, m.payout)
            c == FilledBook(m, st, side, slot, maker, price, quantity)
            e == [kind |-> "Fill", maker |-> maker, taker |-> st.taker, price |-> price,
                  quantity |-> quantity]
<1>1. /\ st \in MatchStates(m) /\ GoodBook(m, st.book) /\ maker \in OrderRows(m.payout)
      /\ side \in Sides /\ 1 \in 1 .. Len(st.book.heap[side]) /\ slot = st.book.heap[side][1]
      /\ st.taker \in OrderRows(m.payout) /\ slot \in Resting(st.book)
      /\ maker = st.book.slots[slot]
  BY DEF Matched, MatchStates, GoodBook, Facing
<1>2. st.book.payout = m.payout /\ m.payout \in Nat
  <2>1. st.book.payout = m.payout
    BY <1>1, BookFields
  <2>2. m.payout \in Nat
    BY DEF MarketRules
  <2>. QED
    BY <2>1, <2>2
<1>3. r.book = c /\ r.taker = taker /\ r.effects = Append(st.effects, e) /\ r.end = st.end
      /\ r \in [book : {r.book}, taker : {r.taker}, effects : {r.effects}, end : {r.end}]
  BY <1>1, <1>2, Zenon DEF Traded, FilledBook, Rewritten, MatchStates
<1>4. /\ left \in OrderRows(m.payout) /\ SameOrder(maker, left)
      /\ left.remaining = maker.remaining - quantity
      /\ taker \in OrderRows(m.payout) /\ SameOrder(st.taker, taker)
  <2>1. FilledOrder(maker, price, quantity, m.payout, left)
    BY <1>1, <1>2, FilledIsOrder
  <2>2. FilledOrder(st.taker, price, quantity, m.payout, taker)
    BY <1>1, <1>2, FilledIsOrder
  <2>. HIDE DEF left, taker
  <2>. QED
    BY <2>1, <2>2 DEF FilledOrder
<1>5. e \in EffectRows(m.payout)
  BY <1>1 DEF EffectRows
<1>. HIDE DEF r, e, left, taker
<1>6. r.effects \in Seq(EffectRows(m.payout))
  <2>1. st.effects \in Seq(EffectRows(m.payout))
    BY <1>1 DEF MatchStates
  <2>. QED
    BY <1>3, <1>5, <2>1, AppendProperties
<1>7. CASE maker.remaining = quantity
  <2>1. c = RemoveOrder(st.book, side, 1)
    BY <1>7 DEF FilledBook, Pop
  <2>2. RemovedFrom(m, st.book, slot, c)
    BY <1>1, <2>1, RemoveKeeps
  <2>. HIDE DEF c
  <2>3. GoodBook(m, c) /\ Changed(st.book, c, slot, Vacant) /\ c.next = st.book.next
    BY <2>2 DEF RemovedFrom
  <2>4. slot \in DOMAIN st.book.slots
    BY <1>1 DEF Resting
  <2>5. ChangedAt(st.book, c, slot, Vacant)
    BY <2>3, <2>4, ChangedRests
  <2>6. Resting(c) \subseteq Resting(st.book)
        /\ \A s \in Resting(c) : SameOrder(st.book.slots[s], c.slots[s])
    BY <2>5 DEF ChangedAt, Resting, SameOrder
  <2>7. r \in MatchStates(m)
    BY <1>1, <1>3, <1>4, <1>6, <2>3 DEF MatchStates, GoodBook
  <2>8. Matched(m, b, order, r)
    BY <1>3, <1>4, <2>3, <2>6, <2>7, SameOrderAgain DEF Matched, GoodBook
  <2>. QED
    BY <1>3, <1>7, <2>2, <2>8 DEF r, e, left, taker
<1>8. CASE maker.remaining # quantity
  <2>1. c = Rewritten(st.book, slot, left)
    BY <1>8 DEF FilledBook, left
  <2>2. left.remaining > 0
    <3>1. maker.remaining \in Nat
      BY <1>1, Zenon DEF OrderRows
    <3>. QED
      BY <1>4, <1>8, <3>1
  <2>3. RewrittenTo(m, st.book, slot, left, c)
    BY <1>1, <1>4, <2>1, <2>2, RewriteKeeps, Zenon
  <2>. HIDE DEF c
  <2>4. /\ GoodBook(m, c) /\ Changed(st.book, c, slot, left) /\ c.next = st.book.next
        /\ Resting(c) = Resting(st.book)
    BY <2>3 DEF RewrittenTo
  <2>5. slot \in DOMAIN st.book.slots
    BY <1>1 DEF Resting
  <2>6. ChangedAt(st.book, c, slot, left)
    BY <2>4, <2>5, ChangedRests
  <2>7. Resting(c) \subseteq Resting(st.book)
        /\ \A s \in Resting(c) : SameOrder(st.book.slots[s], c.slots[s])
    <3>1. /\ c.slots[slot] = left
          /\ \A t \in DOMAIN st.book.slots : t # slot => c.slots[t] = st.book.slots[t]
      BY <2>6 DEF ChangedAt
    <3>2. Resting(c) \subseteq DOMAIN st.book.slots
      BY <2>4 DEF Resting
    <3>. QED
      BY <1>1, <1>4, <2>4, <3>1, <3>2, Zenon DEF SameOrder
  <2>8. r \in MatchStates(m)
    BY <1>1, <1>3, <1>4, <1>6, <2>4, Zenon DEF MatchStates, GoodBook
  <2>9. Matched(m, b, order, r)
    BY <1>3, <1>4, <2>4, <2>7, <2>8, SameOrderAgain DEF Matched, GoodBook
  <2>. QED
    BY <1>3, <1>8, <2>3, <2>9 DEF r, e, left, taker
<1>. QED
  BY <1>7, <1>8

LEMMA EndedMatches ==
    ASSUME NEW m, NEW b, NEW order, NEW st, Matched(m, b, order, st), NEW end \in Ends
    PROVE  /\ Matched(m, b, order, [st EXCEPT !.end = end])
           /\ [st EXCEPT !.end = end].book = st.book
           /\ [st EXCEPT !.end = end].taker = st.taker
           /\ [st EXCEPT !.end = end].effects = st.effects
           /\ [st EXCEPT !.end = end].end = end
BY DEF Matched, MatchStates

\* The smaller remainder of the two orders.
Smaller(st, maker) == IF maker.remaining < st.taker.remaining
                      THEN maker.remaining ELSE st.taker.remaining

\* What one turn may do: nothing, to the best opposing order in `slot`; or end the
\* loop, drop that order, or trade with it.
TurnDoes(m, st, time, side, slot, maker, r) ==
    \/ ~Touching(st, time, side) /\ r = st
    \/ /\ Touching(st, time, side) /\ Facing(m, st, side, slot, maker)
       /\ \/ \E end \in Ends \ {"Matching"} : r = [st EXCEPT !.end = end]
          \/ r = Removed(st, side, maker)
          \/ \E end \in Ends : r = [Removed(st, side, maker) EXCEPT !.end = end]
          \/ /\ r = Traded(st, side, slot, maker, CanonicalPrice(maker, m.payout),
                           Smaller(st, maker))
             /\ ~Expired(maker, time) /\ maker.owner # st.taker.owner

LEMMA TurnIsOne ==
    ASSUME NEW m, MarketRules(m), NEW b, NEW order, NEW st, Matched(m, b, order, st),
           NEW in \in Arrivals(m.payout), NEW time, NEW limit, NEW turn,
           NEW side, side = Opposite(Side(st.taker))
    PROVE  TurnDoes(m, st, time, side, st.book.heap[side][1], OrderAt(st.book, side, 1),
                    Turn(st, in, time, limit, turn))
<1>. DEFINE slot == st.book.heap[side][1]
            maker == OrderAt(st.book, side, 1)
            r == Turn(st, in, time, limit, turn)
<1>1. CASE ~Touching(st, time, side)
  BY <1>1 DEF Turn, TurnDoes
<1>2. CASE Touching(st, time, side)
  <2>1. Facing(m, st, side, slot, maker)
    BY <1>2, FacesBest DEF Touching
  <2>2. GoodBook(m, st.book)
    BY DEF Matched, MatchStates, GoodBook
  <2>3. st.book.payout = m.payout
    BY <2>2, BookFields
  <2>4. CASE turn > limit
    <3>. DEFINE end == IF in.tif = "IOC" THEN "Worked" ELSE "MatchLimitExceeded"
    <3>1. r = [st EXCEPT !.end = end]
      BY <1>2, <2>4 DEF Turn
    <3>2. end \in Ends \ {"Matching"}
      BY DEF Ends
    <3>. HIDE DEF r, end
    <3>3. \E x \in Ends \ {"Matching"} : r = [st EXCEPT !.end = x]
      BY <3>1, <3>2
    <3>4. TurnDoes(m, st, time, side, slot, maker, r)
      BY <1>2, <2>1, <3>3 DEF TurnDoes
    <3>. QED
      BY <3>4 DEF r
  <2>5. CASE ~(turn > limit)
    <3>1. r = Touch(st, in, time, side, maker)
      BY <1>2, <2>5 DEF Turn
    <3>. HIDE DEF r, slot, maker
    <3>2. CASE Expired(maker, time)
      <4>1. r = Removed(st, side, maker)
        BY <3>1, <3>2 DEF Touch
      <4>. QED
        BY <1>2, <2>1, <4>1 DEF TurnDoes, r, slot, maker
    <3>3. CASE ~Expired(maker, time) /\ in.postOnly
      <4>1. r = [st EXCEPT !.end = "PostOnlyRejected"]
        BY <3>1, <3>3 DEF Touch
      <4>2. "PostOnlyRejected" \in Ends \ {"Matching"}
        BY DEF Ends
      <4>3. \E x \in Ends \ {"Matching"} : r = [st EXCEPT !.end = x]
        BY <4>1, <4>2
      <4>. QED
        BY <1>2, <2>1, <4>3 DEF TurnDoes, r, slot, maker
    <3>4. CASE ~Expired(maker, time) /\ ~in.postOnly /\ maker.owner = st.taker.owner
      <4>1. in.selfTrade \in {"CancelAggressor", "CancelResting", "CancelBoth"}
        BY DEF Arrivals
      <4>2. CASE in.selfTrade = "CancelAggressor"
        <5>1. r = [st EXCEPT !.end = "Stopped"]
          BY <3>1, <3>4, <4>2 DEF Touch
        <5>2. "Stopped" \in Ends \ {"Matching"}
          BY DEF Ends
        <5>3. \E x \in Ends \ {"Matching"} : r = [st EXCEPT !.end = x]
          BY <5>1, <5>2
        <5>. QED
          BY <1>2, <2>1, <5>3 DEF TurnDoes, r, slot, maker
      <4>3. CASE in.selfTrade # "CancelAggressor"
        <5>1. \E x \in Ends : r = [Removed(st, side, maker) EXCEPT !.end = x]
          <6>1. CASE in.selfTrade = "CancelResting"
            <7>1. r = [Removed(st, side, maker) EXCEPT !.end = @]
              BY <3>1, <3>4, <6>1 DEF Touch
            <7>2. Removed(st, side, maker).end \in Ends
              BY DEF Removed, Matched, MatchStates
            <7>. QED
              BY <7>1, <7>2
          <6>2. CASE in.selfTrade # "CancelResting"
            <7>1. r = [Removed(st, side, maker) EXCEPT !.end = "Stopped"]
              BY <3>1, <3>4, <4>3, <6>2 DEF Touch
            <7>2. "Stopped" \in Ends
              BY DEF Ends
            <7>. QED
              BY <7>1, <7>2
          <6>. QED
            BY <6>1, <6>2
        <5>. QED
          BY <1>2, <2>1, <5>1 DEF TurnDoes, r, slot, maker
      <4>. QED
        BY <4>2, <4>3
    <3>5. CASE ~Expired(maker, time) /\ ~in.postOnly /\ maker.owner # st.taker.owner
      <4>1. r = Traded(st, side, slot, maker, CanonicalPrice(maker, m.payout), Smaller(st, maker))
        BY <2>3, <3>1, <3>5 DEF Touch, Smaller, slot
      <4>. QED
        BY <1>2, <2>1, <3>5, <4>1 DEF TurnDoes, r, slot, maker
    <3>. QED
      BY <3>2, <3>3, <3>4, <3>5
  <2>. QED
    BY <2>4, <2>5
<1>. QED
  BY <1>1, <1>2

\* A fill's price and quantity.
LEMMA FillBounds ==
    ASSUME NEW m, MarketRules(m), NEW b, NEW order, NEW st, Matched(m, b, order, st),
           NEW time, NEW side, NEW slot, NEW maker, Facing(m, st, side, slot, maker),
           Touching(st, time, side)
    PROVE  /\ CanonicalPrice(maker, m.payout) \in 1 .. m.payout - 1
           /\ Smaller(st, maker) \in Nat \ {0}
           /\ Smaller(st, maker) <= maker.remaining
           /\ Smaller(st, maker) <= st.taker.remaining
<1>1. maker \in OrderRows(m.payout) /\ maker.remaining > 0
  BY DEF Facing
<1>2. st.taker \in OrderRows(m.payout)
  BY DEF Matched, MatchStates
<1>3. maker.remaining \in Nat /\ st.taker.remaining \in Nat
  BY <1>1, <1>2 DEF OrderRows
<1>4. st.taker.remaining > 0
  BY DEF Touching
<1>5. CanonicalPrice(maker, m.payout) \in 1 .. m.payout - 1
  <2>1. m.payout \in Nat
    BY DEF MarketRules
  <2>. QED
    BY <1>1, <2>1, OrderFields
<1>. QED
  BY <1>1, <1>3, <1>4, <1>5 DEF Smaller

LEMMA TurnMatches ==
    ASSUME NEW m, MarketRules(m), NEW b, NEW order, NEW st, Matched(m, b, order, st),
           NEW in \in Arrivals(m.payout), NEW time, NEW limit, NEW turn
    PROVE  Matched(m, b, order, Turn(st, in, time, limit, turn))
<1>. DEFINE side == Opposite(Side(st.taker))
            slot == st.book.heap[side][1]
            maker == OrderAt(st.book, side, 1)
            r == Turn(st, in, time, limit, turn)
<1>1. TurnDoes(m, st, time, side, slot, maker, r)
  BY TurnIsOne
<1>. HIDE DEF side, slot, maker, r
<1>2. CASE ~Touching(st, time, side) /\ r = st
  BY <1>2 DEF r
<1>3. ASSUME Facing(m, st, side, slot, maker)
      PROVE  Matched(m, b, order, Removed(st, side, maker))
  BY <1>3, RemovedMatches
<1>4. ASSUME Facing(m, st, side, slot, maker), NEW end \in Ends, r = [st EXCEPT !.end = end]
      PROVE  Matched(m, b, order, r)
  BY <1>4, EndedMatches
<1>5. ASSUME Facing(m, st, side, slot, maker), NEW end \in Ends,
             r = [Removed(st, side, maker) EXCEPT !.end = end]
      PROVE  Matched(m, b, order, r)
  BY <1>3, <1>5, EndedMatches
<1>6. ASSUME Facing(m, st, side, slot, maker), Touching(st, time, side),
             r = Traded(st, side, slot, maker, CanonicalPrice(maker, m.payout), Smaller(st, maker))
      PROVE  Matched(m, b, order, r)
  <2>1. /\ CanonicalPrice(maker, m.payout) \in 1 .. m.payout - 1
        /\ Smaller(st, maker) \in Nat \ {0}
        /\ Smaller(st, maker) <= maker.remaining
        /\ Smaller(st, maker) <= st.taker.remaining
    BY <1>6, FillBounds
  <2>. QED
    BY <1>6, <2>1, TradedMatches
<1>. QED
  BY <1>1, <1>2, <1>3, <1>4, <1>5, <1>6 DEF TurnDoes, r

----------------------------------------------------------------------------
\* The matching loop: its context names the order, the time and the limit.
TurnIn(c, st, turn) == Turn(st, c.in, c.now, c.limit, turn)
Turns == INSTANCE FoldTheorems WITH Step <- TurnIn, Pick <- Max

LEMMA TurnsAre ==
    ASSUME NEW c, NEW st
    PROVE  Match(st, c.in, c.now, c.limit) = Turns!Fold(c, st, 1 .. c.limit + 1)
BY DEF Match, Turns!Fold, Turns!MapThenFoldSet, MapThenFoldSet, TurnIn

LEMMA TurnsInOrder == \A n \in Nat : Turns!InOrder(n)
BY EndsOfRange, RangeEnds DEF FamilyEnds, Turns!InOrder, Turns!Finite, Turns!Smallest

\* What every turn keeps, the last one finds and leaves.
LEMMA MatchInduct ==
    ASSUME NEW c, c.limit \in Nat, NEW st, NEW Good, st \in Good,
           \A s \in Good : \A turn \in Nat : TurnIn(c, s, turn) \in Good
    PROVE  \E s \in Good : Match(st, c.in, c.now, c.limit) = TurnIn(c, s, c.limit + 1)
<1>. DEFINE after(n) == Turns!Fold(c, st, 1 .. n)
            fine == {n \in Nat : after(n) \in Good}
<1>1. 0 \in fine
  <2>1. 1 .. 0 = {}
    OBVIOUS
  <2>. QED
    BY <2>1, Turns!FoldEmpty
<1>2. ASSUME NEW n \in Nat
      PROVE  after(n + 1) = TurnIn(c, after(n), n + 1)
  <2>1. Turns!InOrder(n + 1)
    BY TurnsInOrder
  <2>. QED
    BY <2>1, Turns!LoopLast
<1>. HIDE DEF after
<1>3. ASSUME NEW n \in Nat, n \in fine
      PROVE  n + 1 \in fine
  BY <1>2, <1>3
<1>4. Nat \subseteq fine
  <2>. HIDE DEF fine
  <2>. QED
    BY <1>1, <1>3, NatInduct
<1>5. after(c.limit) \in Good
  BY <1>4
<1>6. Match(st, c.in, c.now, c.limit) = after(c.limit + 1)
  BY TurnsAre DEF after
<1>. QED
  BY <1>2, <1>5, <1>6

\* The order that an arrival becomes, and the loop before its first turn.
OrderOf(b, in) ==
    [id |-> b.next, owner |-> in.owner, outcome |-> in.outcome, action |-> in.action,
     price |-> in.price, remaining |-> in.quantity, expires |-> in.expires, notional |-> 0]
Unmatched(b, in) ==
    [book |-> b, taker |-> OrderOf(b, in), effects |-> << >>, end |-> "Matching"]

LEMMA PlanIs ==
    ASSUME NEW b, NEW in, NEW time, NEW limit
    PROVE  LET st == Match(Unmatched(b, in), in, time, limit)
           IN Plan(b, in, time, limit) = Planned(in, OrderOf(b, in), st, PlanFault(in, time, st))
BY DEF Plan, Unmatched, OrderOf

LEMMA OrderOfIs ==
    ASSUME NEW m, MarketRules(m), NEW b, GoodBook(m, b), NEW in \in Arrivals(m.payout)
    PROVE  /\ OrderOf(b, in) \in OrderRows(m.payout)
           /\ Matched(m, b, OrderOf(b, in), Unmatched(b, in))
<1>1. b.next \in Nat \ {0} /\ b \in Books(m.capacity, m.payout, m.feeBps) /\ Tidy(b)
  BY BookFields DEF GoodBook
<1>2. OrderOf(b, in) \in OrderRows(m.payout)
  BY <1>1 DEF OrderOf, OrderRows, Arrivals
<1>3. << >> \in Seq(EffectRows(m.payout))
  BY EmptySeq
<1>4. Unmatched(b, in) \in MatchStates(m)
  BY <1>1, <1>2, <1>3 DEF Unmatched, MatchStates, Ends
<1>. QED
  BY <1>1, <1>2, <1>4 DEF Unmatched, Matched, SameOrder

\* Where the loop ends: no turn is left undone.
Exhausted(st, time) == st.end = "Matching" => ~Touching(st, time, Opposite(Side(st.taker)))

LEMMA MatchEnds ==
    ASSUME NEW m, MarketRules(m), NEW b, GoodBook(m, b), NEW in \in Arrivals(m.payout),
           NEW time, NEW limit \in Nat
    PROVE  LET st == Match(Unmatched(b, in), in, time, limit)
           IN Matched(m, b, OrderOf(b, in), st) /\ Exhausted(st, time)
<1>. DEFINE c == [in |-> in, now |-> time, limit |-> limit]
            order == OrderOf(b, in)
            Good == {s \in MatchStates(m) : Matched(m, b, order, s)}
            st == Match(Unmatched(b, in), in, time, limit)
<1>1. c.in = in /\ c.now = time /\ c.limit = limit
  OBVIOUS
<1>2. Unmatched(b, in) \in Good
  BY OrderOfIs DEF Matched
<1>3. ASSUME NEW s \in Good, NEW turn \in Nat
      PROVE  TurnIn(c, s, turn) \in Good
  <2>1. Matched(m, b, order, Turn(s, in, time, limit, turn))
    BY TurnMatches
  <2>. QED
    BY <1>1, <2>1 DEF TurnIn, Matched
<1>. HIDE DEF c, Good
<1>4. PICK s \in Good : st = TurnIn(c, s, limit + 1)
  <2>1. \E s \in Good : Match(Unmatched(b, in), c.in, c.now, c.limit) = TurnIn(c, s, c.limit + 1)
    BY <1>1, <1>2, <1>3, MatchInduct
  <2>. QED
    BY <1>1, <2>1
<1>5. st \in Good
  BY <1>3, <1>4
<1>6. Matched(m, b, order, s) /\ Matched(m, b, order, st)
  BY <1>5 DEF Good
<1>7. st = Turn(s, in, time, limit, limit + 1)
  BY <1>1, <1>4 DEF TurnIn
<1>. HIDE DEF st
<1>8. Exhausted(st, time)
  <2>1. CASE ~Touching(s, time, Opposite(Side(s.taker)))
    <3>1. st = s
      BY <1>7, <2>1 DEF Turn
    <3>. QED
      BY <2>1, <3>1 DEF Exhausted
  <2>2. CASE Touching(s, time, Opposite(Side(s.taker)))
    <3>1. limit + 1 > limit
      OBVIOUS
    <3>2. st = [s EXCEPT !.end = IF in.tif = "IOC" THEN "Worked" ELSE "MatchLimitExceeded"]
      BY <1>7, <2>2, <3>1 DEF Turn
    <3>3. s \in MatchStates(m)
      BY <1>6 DEF Matched
    <3>4. st.end = IF in.tif = "IOC" THEN "Worked" ELSE "MatchLimitExceeded"
      BY <3>2, <3>3 DEF MatchStates
    <3>. QED
      BY <3>4 DEF Exhausted
  <2>. QED
    BY <2>1, <2>2
<1>. QED
  BY <1>6, <1>8 DEF st

----------------------------------------------------------------------------
\* The book between two instructions: orders are numbered as they come, and no
\* bid meets an ask.
Uncrossed(b) ==
    \A s, t \in Resting(b) :
       Side(b.slots[s]) = "Bid" /\ Side(b.slots[t]) = "Ask" =>
          CanonicalPrice(b.slots[s], b.payout) < CanonicalPrice(b.slots[t], b.payout)

BookInv(m, b) == GoodBook(m, b) /\ Numbered(b) /\ Uncrossed(b)

\* The orders of c were in b.
FromBook(b, c) ==
    /\ c.payout = b.payout /\ c.next = b.next
    /\ Resting(c) \subseteq Resting(b) /\ \A s \in Resting(c) : SameOrder(b.slots[s], c.slots[s])

LEMMA FewerKeep ==
    ASSUME NEW b, NEW c, FromBook(b, c), Numbered(b), Uncrossed(b)
    PROVE  Numbered(c) /\ Uncrossed(c)
<1>1. Numbered(c)
  BY DEF FromBook, Numbered, SameOrder
<1>2. \A s \in Resting(c) : /\ s \in Resting(b) /\ Side(c.slots[s]) = Side(b.slots[s])
                            /\ CanonicalPrice(c.slots[s], c.payout) = CanonicalPrice(b.slots[s], b.payout)
  BY DEF FromBook, SameOrder, Side, CanonicalPrice
<1>. QED
  BY <1>1, <1>2 DEF Uncrossed

LEMMA RemoveKeepsInv ==
    ASSUME NEW m, MarketRules(m), NEW b, BookInv(m, b), NEW side \in Sides,
           NEW index \in 1 .. Len(b.heap[side])
    PROVE  BookInv(m, RemoveOrder(b, side, index))
<1>. DEFINE c == RemoveOrder(b, side, index)
            slot == b.heap[side][index]
<1>1. RemovedFrom(m, b, slot, c)
  BY RemoveKeeps DEF BookInv
<1>. HIDE DEF c, slot
<1>2. /\ GoodBook(m, c) /\ slot \in Resting(b) /\ Changed(b, c, slot, Vacant) /\ c.next = b.next
  BY <1>1 DEF RemovedFrom
<1>3. slot \in DOMAIN b.slots
  BY <1>2 DEF Resting
<1>4. ChangedAt(b, c, slot, Vacant)
  BY <1>2, <1>3, ChangedRests
<1>5. FromBook(b, c)
  BY <1>2, <1>4 DEF ChangedAt, FromBook, Changed, Resting, SameOrder
<1>6. BookInv(m, c)
  BY <1>2, <1>5, FewerKeep DEF BookInv
<1>. QED
  BY <1>6 DEF c

\* The next number does not matter to the storage.
LEMMA RenumberKeeps ==
    ASSUME NEW m, NEW b, GoodBook(m, b), NEW n \in Nat \ {0}
    PROVE  LET c == [b EXCEPT !.next = n]
           IN /\ GoodBook(m, c) /\ c.next = n /\ c.slots = b.slots /\ c.payout = b.payout
              /\ c.feeBps = b.feeBps /\ c.heap = b.heap /\ c.free = b.free
              /\ Resting(c) = Resting(b)
<1>. DEFINE c == [b EXCEPT !.next = n]
<1>1. b \in Books(m.capacity, m.payout, m.feeBps) /\ Tidy(b)
  BY DEF GoodBook
<1>2. /\ c.next = n /\ c.slots = b.slots /\ c.payout = b.payout
      /\ c.feeBps = b.feeBps /\ c.heap = b.heap /\ c.free = b.free
      /\ c \in Books(m.capacity, m.payout, m.feeBps)
  BY <1>1 DEF Books
<1>. HIDE DEF c
<1>3. Resting(c) = Resting(b) /\ \A side : SlotsOf(c, side) = SlotsOf(b, side)
  BY <1>2 DEF Resting, SlotsOf
<1>4. ASSUME NEW side \in Sides
      PROVE  Heaped(c, side, b.heap[side])
  <2>1. IsRow(b.heap[side]) /\ Heaped(b, side, b.heap[side])
    BY <1>1 DEF Tidy
  <2>2. \A s \in Entries(b.heap[side]) : SameRank(b, c, s)
    BY <1>2 DEF SameRank
  <2>. QED
    BY <2>1, <2>2, HeapedSame
<1>5. Tidy(c)
  BY <1>1, <1>2, <1>3, <1>4 DEF Tidy
<1>. QED
  BY <1>2, <1>3, <1>5 DEF GoodBook, c

\* An order whose loop ran out meets nobody on the other side.
MeetsNone(o, p, payout) ==
    IF Side(o) = "Bid" THEN CanonicalPrice(o, payout) < CanonicalPrice(p, payout)
                       ELSE CanonicalPrice(o, payout) > CanonicalPrice(p, payout)

LEMMA BetterPrice ==
    ASSUME NEW b, NEW side, NEW s, NEW t, Better(b, side, s, t),
           CanonicalPrice(b.slots[s], b.payout) \in Int, CanonicalPrice(b.slots[t], b.payout) \in Int
    PROVE  /\ side = "Bid" => CanonicalPrice(b.slots[s], b.payout) >= CanonicalPrice(b.slots[t], b.payout)
           /\ side # "Bid" => CanonicalPrice(b.slots[s], b.payout) <= CanonicalPrice(b.slots[t], b.payout)
<1>. DEFINE p == CanonicalPrice(b.slots[s], b.payout)
            q == CanonicalPrice(b.slots[t], b.payout)
<1>1. p # q => IF side = "Bid" THEN p > q ELSE p < q
  BY DEF Better
<1>2. p \in Int /\ q \in Int
  OBVIOUS
<1>. HIDE DEF p, q
<1>3. /\ side = "Bid" => p >= q
      /\ side # "Bid" => p <= q
  BY <1>1, <1>2
<1>. QED
  BY <1>3 DEF p, q

LEMMA PriceOf ==
    ASSUME NEW m, MarketRules(m), NEW b, GoodBook(m, b), NEW s \in Resting(b)
    PROVE  CanonicalPrice(b.slots[s], b.payout) \in 1 .. m.payout - 1
<1>1. b.slots[s] \in OrderRows(m.payout)
  BY BookOrders
<1>2. m.payout \in Nat
  BY DEF MarketRules
<1>3. b.payout = m.payout
  BY BookFields
<1>. QED
  BY <1>1, <1>2, <1>3, OrderFields

LEMMA NoneCross ==
    ASSUME NEW m, MarketRules(m), NEW b, NEW order, NEW st, Matched(m, b, order, st), NEW time,
           st.end = "Matching", Exhausted(st, time), st.taker.remaining > 0,
           NEW s \in SlotsOf(st.book, Opposite(Side(st.taker)))
    PROVE  MeetsNone(st.taker, st.book.slots[s], st.book.payout)
<1>. DEFINE side == Opposite(Side(st.taker))
            slot == st.book.heap[side][1]
            price(t) == CanonicalPrice(st.book.slots[t], st.book.payout)
            limit == CanonicalPrice(st.taker, st.book.payout)
<1>1. GoodBook(m, st.book) /\ side \in Sides /\ ~Touching(st, time, side)
  BY DEF Matched, MatchStates, GoodBook, Exhausted, Opposite, Sides
<1>2. st.book.heap[side] # << >>
  BY <1>1, EmptyHeap
<1>3. ~Crosses(st.taker, st.book.slots[slot], st.book.payout)
  BY <1>1, <1>2 DEF Touching, OrderAt
<1>4. slot \in SlotsOf(st.book, side) /\ (s = slot \/ Better(st.book, side, slot, s))
  BY <1>1, <1>2, BestFirst
<1>5. price(s) \in Int /\ price(slot) \in Int
  <2>1. s \in Resting(st.book) /\ slot \in Resting(st.book)
    BY <1>4 DEF SlotsOf
  <2>2. price(s) \in 1 .. m.payout - 1 /\ price(slot) \in 1 .. m.payout - 1
    BY <1>1, <2>1, PriceOf
  <2>. QED
    BY <2>2
<1>6. limit \in Int
  <2>1. st.taker \in OrderRows(m.payout)
    BY DEF Matched, MatchStates
  <2>2. m.payout \in Nat
    BY DEF MarketRules
  <2>3. st.book.payout = m.payout
    BY <1>1, BookFields
  <2>4. limit \in 1 .. m.payout - 1
    BY <2>1, <2>2, <2>3, OrderFields
  <2>. QED
    BY <2>4
<1>7. /\ side = "Bid" => price(slot) >= price(s)
      /\ side # "Bid" => price(slot) <= price(s)
  <2>1. CASE s = slot
    BY <1>5, <2>1
  <2>2. CASE Better(st.book, side, slot, s)
    BY <1>5, <2>2, BetterPrice
  <2>. QED
    BY <1>4, <2>1, <2>2
<1>8. IF Side(st.taker) = "Bid" THEN ~(limit >= price(slot)) ELSE ~(limit <= price(slot))
  BY <1>3 DEF Crosses
<1>9. side = "Bid" <=> Side(st.taker) # "Bid"
  BY DEF Opposite, Side
<1>10. MeetsNone(st.taker, st.book.slots[s], st.book.payout)
         <=> IF Side(st.taker) = "Bid" THEN limit < price(s) ELSE limit > price(s)
  BY DEF MeetsNone
<1>. HIDE DEF side, slot, price, limit
<1>. QED
  BY <1>5, <1>6, <1>7, <1>8, <1>9, <1>10

\* An order rests only where it meets nobody.
RestsIn(m, b, slot, o, c) ==
    /\ BookInv(m, [c EXCEPT !.next = @ + 1]) /\ [c EXCEPT !.next = @ + 1].slots = c.slots
    /\ PlacedIn(m, b, slot, o, c)

LEMMA RestKeepsInv ==
    ASSUME NEW m, MarketRules(m), NEW b, BookInv(m, b), b.free # << >>,
           NEW o \in OrderRows(m.payout), o.remaining > 0, o.id = b.next,
           \A s \in SlotsOf(b, Opposite(Side(o))) : MeetsNone(o, b.slots[s], b.payout)
    PROVE  RestsIn(m, b, Head(b.free), o, Insert(b, o))
<1>. DEFINE c == Insert(b, o)
            slot == Head(b.free)
            d == [c EXCEPT !.next = @ + 1]
<1>1. GoodBook(m, b) /\ Numbered(b) /\ Uncrossed(b)
  BY DEF BookInv
<1>2. b.next \in Nat \ {0}
  BY <1>1, BookFields
<1>3. \A s \in Resting(b) : b.slots[s].id # o.id
  <2>1. \A s \in Resting(b) : b.slots[s].id \in Nat /\ b.slots[s].id < b.next
    BY <1>1, BookOrders DEF Numbered, OrderRows
  <2>. QED
    BY <1>2, <2>1
<1>4. PlacedIn(m, b, slot, o, c)
  BY <1>1, <1>3, InsertKeeps
<1>. HIDE DEF c, slot
<1>5. /\ GoodBook(m, c) /\ slot \in DOMAIN b.slots \ Resting(b) /\ Changed(b, c, slot, o)
      /\ c.next = b.next
  BY <1>4 DEF PlacedIn
<1>6. b.next + 1 \in Nat \ {0} /\ d = [c EXCEPT !.next = b.next + 1]
  <2>1. d = [c EXCEPT !.next = c.next + 1]
    OBVIOUS
  <2>. QED
    BY <1>2, <1>5, <2>1
<1>7. /\ GoodBook(m, d) /\ d.next = b.next + 1 /\ d.slots = c.slots /\ d.payout = c.payout
      /\ Resting(d) = Resting(c)
  BY <1>5, <1>6, RenumberKeeps
<1>. HIDE DEF d
<1>8. /\ o # Vacant /\ Side(o) \in Sides
  <2>1. m.payout \in Nat
    BY DEF MarketRules
  <2>. QED
    BY <2>1, OrderFields
<1>9. /\ c.slots[slot] = o /\ Resting(c) = Resting(b) \union {slot}
      /\ \A t \in Resting(b) : c.slots[t] = b.slots[t] /\ t # slot
  <2>1. ChangedAt(b, c, slot, o)
    BY <1>5, ChangedRests
  <2>. QED
    BY <1>5, <1>8, <2>1 DEF ChangedAt, Resting
<1>10. d.payout = b.payout
  BY <1>5, <1>7 DEF Changed
<1>11. Numbered(d)
  <2>1. \A s \in Resting(b) : b.slots[s].id \in Nat /\ b.slots[s].id < b.next
    BY <1>1, BookOrders DEF Numbered, OrderRows
  <2>2. \A s \in Resting(b) : b.slots[s].id < b.next + 1
    BY <1>2, <2>1
  <2>3. o.id < b.next + 1
    BY <1>2
  <2>. QED
    BY <1>7, <1>9, <2>2, <2>3 DEF Numbered
<1>12. Uncrossed(d)
  <2>. SUFFICES ASSUME NEW s \in Resting(d), NEW t \in Resting(d),
                       Side(d.slots[s]) = "Bid", Side(d.slots[t]) = "Ask"
                PROVE  CanonicalPrice(d.slots[s], b.payout) < CanonicalPrice(d.slots[t], b.payout)
    BY <1>10 DEF Uncrossed
  <2>1. CASE s # slot /\ t # slot
    BY <1>1, <1>7, <1>9, <2>1 DEF Uncrossed
  <2>2. CASE s = slot
    <3>1. t # slot /\ t \in Resting(b) /\ d.slots[s] = o /\ d.slots[t] = b.slots[t]
      BY <1>7, <1>9, <2>2
    <3>2. t \in SlotsOf(b, Opposite(Side(o)))
      BY <3>1 DEF SlotsOf, Opposite
    <3>. QED
      BY <3>1, <3>2 DEF MeetsNone
  <2>3. CASE t = slot
    <3>1. s # slot /\ s \in Resting(b) /\ d.slots[t] = o /\ d.slots[s] = b.slots[s]
      BY <1>7, <1>9, <2>3
    <3>2. s \in SlotsOf(b, Opposite(Side(o)))
      BY <3>1 DEF SlotsOf, Opposite
    <3>3. CanonicalPrice(o, b.payout) > CanonicalPrice(b.slots[s], b.payout)
      BY <3>1, <3>2 DEF MeetsNone
    <3>4. b.payout = m.payout /\ m.payout \in Nat
      <4>1. b.payout = m.payout
        BY <1>1, BookFields
      <4>. QED
        BY <4>1 DEF MarketRules
    <3>5. CanonicalPrice(o, b.payout) \in Int /\ CanonicalPrice(b.slots[s], b.payout) \in Int
      <4>1. CanonicalPrice(b.slots[s], b.payout) \in 1 .. m.payout - 1
        BY <1>1, <3>1, PriceOf
      <4>2. CanonicalPrice(o, m.payout) \in 1 .. m.payout - 1
        BY <3>4, OrderFields
      <4>. QED
        BY <3>4, <4>1, <4>2
    <3>. QED
      BY <3>1, <3>3, <3>5
  <2>. QED
    BY <2>1, <2>2, <2>3
<1>13. BookInv(m, d)
  BY <1>7, <1>11, <1>12 DEF BookInv
<1>14. RestsIn(m, b, slot, o, c)
  BY <1>4, <1>7, <1>13 DEF RestsIn, d
<1>. QED
  BY <1>14 DEF c, slot

\* The book a plan leaves: what is left of the order rests in a free slot, or not.
PlanLeaves(m, in, st, c) ==
    /\ BookInv(m, c)
    /\ IF Rests(in, st)
       THEN \E slot \in DOMAIN st.book.slots \ Resting(st.book) :
              c.slots = [st.book.slots EXCEPT ![slot] = st.taker]
       ELSE c.slots = st.book.slots

LEMMA PlanKeepsInv ==
    ASSUME NEW m, MarketRules(m), NEW b, BookInv(m, b), NEW in \in Arrivals(m.payout),
           NEW time, NEW limit \in Nat, Plan(b, in, time, limit).fault = "None"
    PROVE  PlanLeaves(m, in, Match(Unmatched(b, in), in, time, limit), Plan(b, in, time, limit).book)
<1>. DEFINE st == Match(Unmatched(b, in), in, time, limit)
            order == OrderOf(b, in)
            plan == Plan(b, in, time, limit)
<1>1. GoodBook(m, b)
  BY DEF BookInv
<1>2. Matched(m, b, order, st) /\ Exhausted(st, time)
  BY <1>1, MatchEnds
<1>3. plan = Planned(in, order, st, PlanFault(in, time, st))
  BY PlanIs
<1>. HIDE DEF st, plan, order
<1>4. plan.fault = PlanFault(in, time, st) /\ plan.fault = "None"
  BY <1>3 DEF Planned, plan
<1>5. GoodBook(m, st.book) /\ st.book.next = b.next /\ st.taker \in OrderRows(m.payout)
      /\ st.taker.id = b.next
  BY <1>2 DEF Matched, MatchStates, GoodBook, SameOrder, order, OrderOf
<1>6. BookInv(m, st.book)
  <2>1. st.book.payout = b.payout
    <3>1. st.book.payout = m.payout
      BY <1>5, BookFields
    <3>2. b.payout = m.payout
      BY <1>1, BookFields
    <3>. QED
      BY <3>1, <3>2
  <2>2. FromBook(b, st.book)
    BY <1>2, <2>1 DEF FromBook, Matched
  <2>. QED
    BY <1>5, <2>2, FewerKeep DEF BookInv
<1>7. CASE Rests(in, st)
  <2>1. st.taker.remaining > 0 /\ st.end = "Matching"
    BY <1>7 DEF Rests
  <2>2. st.book.free # << >>
    BY <1>4, <1>7 DEF PlanFault
  <2>3. \A s \in SlotsOf(st.book, Opposite(Side(st.taker))) :
          MeetsNone(st.taker, st.book.slots[s], st.book.payout)
    BY <1>2, <2>1, NoneCross
  <2>4. plan.book = [Insert(st.book, st.taker) EXCEPT !.next = @ + 1]
    BY <1>3, <1>4, <1>7 DEF Planned
  <2>. DEFINE slot == Head(st.book.free)
              placed == Insert(st.book, st.taker)
  <2>5. RestsIn(m, st.book, slot, st.taker, placed)
    BY <1>5, <1>6, <2>1, <2>2, <2>3, RestKeepsInv
  <2>6. plan.book = [placed EXCEPT !.next = @ + 1]
    BY <2>4
  <2>. HIDE DEF placed, slot
  <2>7. /\ BookInv(m, [placed EXCEPT !.next = @ + 1]) /\ PlacedIn(m, st.book, slot, st.taker, placed)
        /\ [placed EXCEPT !.next = @ + 1].slots = placed.slots
    BY <2>5 DEF RestsIn
  <2>8. /\ slot \in DOMAIN st.book.slots \ Resting(st.book)
        /\ placed.slots = [st.book.slots EXCEPT ![slot] = st.taker]
    BY <2>7 DEF PlacedIn, Changed
  <2>9. BookInv(m, plan.book) /\ plan.book.slots = placed.slots
    BY <2>6, <2>7
  <2>10. PlanLeaves(m, in, st, plan.book)
    BY <1>7, <2>8, <2>9 DEF PlanLeaves
  <2>. QED
    BY <2>10 DEF plan, st
<1>8. CASE ~Rests(in, st)
  <2>1. plan.book = [st.book EXCEPT !.next = @ + 1]
    BY <1>3, <1>8 DEF Planned
  <2>2. plan.book = [st.book EXCEPT !.next = st.book.next + 1]
    BY <2>1
  <2>3. st.book.next \in Nat \ {0}
    BY <1>5, BookFields
  <2>4. st.book.next + 1 \in Nat \ {0}
    BY <2>3
  <2>. DEFINE d == [st.book EXCEPT !.next = st.book.next + 1]
  <2>5. /\ GoodBook(m, d) /\ d.next = st.book.next + 1 /\ d.slots = st.book.slots
        /\ d.payout = st.book.payout /\ Resting(d) = Resting(st.book)
    BY <1>5, <2>4, RenumberKeeps
  <2>. HIDE DEF d
  <2>6. \A s \in Resting(st.book) : st.book.slots[s].id \in Nat
    BY <1>5, BookOrders DEF OrderRows
  <2>7. Numbered(d)
    BY <1>6, <2>3, <2>5, <2>6 DEF Numbered, BookInv
  <2>8. Uncrossed(d)
    BY <1>6, <2>5 DEF Uncrossed, BookInv
  <2>9. plan.book = d
    BY <2>2 DEF d
  <2>10. PlanLeaves(m, in, st, plan.book)
    BY <1>8, <2>5, <2>7, <2>8, <2>9 DEF BookInv, PlanLeaves
  <2>. QED
    BY <2>10 DEF plan, st
<1>. QED
  BY <1>7, <1>8

----------------------------------------------------------------------------
\* Sums are loops that add.
Plus(f, acc, x) == f[x] + acc
AnyOf(S) == CHOOSE x \in S : TRUE
Sums == INSTANCE FoldTheorems WITH Step <- Plus, Pick <- AnyOf

LEMMA SumLaws ==
    /\ Sums!Adds /\ Sums!PicksAny
    /\ \A S : IsFiniteSet(S) => Sums!Finite(S)
<1>1. Sums!Adds /\ Sums!PicksAny
  BY DEF Sums!Adds, Sums!PicksAny, Plus, AnyOf
<1>2. \A S : IsFiniteSet(S) => Sums!Finite(S)
  BY FiniteEnds DEF FamilyEnds, Sums!Finite, Sums!Smallest
<1>. QED
  BY <1>1, <1>2

LEMMA SumIsTotal == \A f : SumFunction(f) = Sums!Total(f, DOMAIN f)
BY DEF SumFunction, SumFunctionOnSet, FoldFunctionOnSet, MapThenFoldSet,
       Sums!Total, Sums!Fold, Sums!MapThenFoldSet, Plus, AnyOf

LEMMA SumOn ==
    ASSUME NEW f, NEW S, DOMAIN f = S
    PROVE  SumFunction(f) = Sums!Total(f, S)
BY SumIsTotal

LEMMA SumOfNone ==
    ASSUME NEW f, DOMAIN f = {}
    PROVE  SumFunction(f) = 0
BY SumOn, Sums!SumEmpty

LEMMA SumIsInt ==
    ASSUME NEW S, IsFiniteSet(S), NEW f \in [S -> Int]
    PROVE  SumFunction(f) \in Int
<1>1. \A x \in S : f[x] \in Int
  OBVIOUS
<1>. QED
  BY <1>1, SumOn, SumLaws, Sums!SumInt

LEMMA SumIsNat ==
    ASSUME NEW S, IsFiniteSet(S), NEW f \in [S -> Nat]
    PROVE  SumFunction(f) \in Nat
<1>1. \A x \in S : f[x] \in Nat
  OBVIOUS
<1>. QED
  BY <1>1, SumOn, SumLaws, Sums!SumNat

LEMMA SumOfZeros ==
    ASSUME NEW S, IsFiniteSet(S), NEW f \in [S -> {0}]
    PROVE  SumFunction(f) = 0
<1>1. \A x \in S : f[x] = 0
  OBVIOUS
<1>. QED
  BY <1>1, SumOn, SumLaws, Sums!SumZero

\* A sum of naturals is at least each of its terms.
LEMMA SumHasTerm ==
    ASSUME NEW S, IsFiniteSet(S), NEW f \in [S -> Nat], NEW x \in S
    PROVE  f[x] <= SumFunction(f)
<1>1. \A y \in S : f[y] \in Nat /\ f[y] \in Int
  OBVIOUS
<1>2. Sums!Total(f, S) = f[x] + Sums!Total(f, S \ {x})
  BY <1>1, SumLaws, Sums!SumElement
<1>3. Sums!Finite(S \ {x})
  BY FS_RemoveElement, SumLaws
<1>4. Sums!Total(f, S \ {x}) \in Nat
  BY <1>1, <1>3, SumLaws, Sums!SumNat
<1>. QED
  BY <1>1, <1>2, <1>4, SumOn

\* One term changes.
LEMMA SumOneChanges ==
    ASSUME NEW S, IsFiniteSet(S), NEW f \in [S -> Int], NEW g \in [S -> Int],
           NEW x \in S, \A y \in S \ {x} : g[y] = f[y]
    PROVE  SumFunction(g) = SumFunction(f) + (g[x] - f[x])
<1>1. \A y \in S : f[y] \in Int /\ g[y] \in Int
  OBVIOUS
<1>. QED
  BY <1>1, SumOn, SumLaws, Sums!SumChange

\* A term is added.
\* g is f, over the set S, and a value for one more element x.
Extends(S, f, x, g) ==
    /\ IsFiniteSet(S) /\ f \in [S -> Int] /\ x \notin S
    /\ g \in [S \union {x} -> Int] /\ \A y \in S : g[y] = f[y]

LEMMA SumOneMore ==
    ASSUME NEW S, NEW f, NEW x, NEW g, Extends(S, f, x, g)
    PROVE  SumFunction(g) = SumFunction(f) + g[x]
<1>1. /\ \A y \in S : f[y] \in Int /\ g[y] \in Int
      /\ g[x] \in Int /\ x \notin S /\ IsFiniteSet(S)
      /\ DOMAIN g = S \union {x} /\ DOMAIN f = S
      /\ \A y \in S : g[y] = f[y]
  BY DEF Extends
<1>2. Sums!Total(g, S \union {x}) = g[x] + Sums!Total(g, S)
  BY <1>1, SumLaws, Sums!SumAdd
<1>3. Sums!Total(g, S) = Sums!Total(f, S)
  BY <1>1, SumLaws, Sums!SumSame
<1>4. Sums!Total(f, S) \in Int
  BY <1>1, SumLaws, Sums!SumInt
<1>. QED
  BY <1>1, <1>2, <1>3, <1>4, SumOn

----------------------------------------------------------------------------
\* Every step is one of these; some only move the clock or the terms, and the
\* rest of the market stays as it is.
Quiet == UNCHANGED <<setup, market, vault, tokens, seats, book, resolution, proposals,
                     signed, receipts>>

Moves ==
    \/ \E in \in Incoming : Place(in)
    \/ \E w \in DOMAIN tokens : RegisterSeat(w)
    \/ \E w \in DOMAIN tokens : Donate(w)
    \/ \E i \in DOMAIN seats, amount \in setup.amounts : MoveCash(i, amount) \/ MoveCash(i, -amount)
    \/ \E i \in DOMAIN seats : ClaimResolution(i)
    \/ \E side \in Sides : \E index \in DOMAIN book.heap[side], spent \in {0, 1} :
          Release(side, index, spent)
    \/ InitializeResolution
    \/ CloseResolution
    \/ \E outcome \in setup.outcomes : Propose(outcome)
    \/ SignApproval
    \/ \E f \in signed : Approve(f)
    \/ \E f : Reject(f)
    \/ FinalizeResolution
    \/ Quiet

LEMMA EveryStep ==
    ASSUME [Next]_vars
    PROVE  Moves
<1>1. CASE UNCHANGED vars
  BY <1>1 DEF vars, Moves, Quiet
<1>2. CASE Next
  <2>1. CASE \E in \in Incoming : Place(in)
    BY <2>1 DEF Moves
  <2>2. CASE \E w \in DOMAIN tokens : RegisterSeat(w) \/ Donate(w)
    BY <2>2 DEF Moves
  <2>3. CASE \E i \in DOMAIN seats : Deposit(i) \/ Withdraw(i) \/ ClaimResolution(i)
    BY <2>3 DEF Moves, Deposit, Withdraw, DepositAmounts
  <2>4. CASE \E side \in Sides : \E index \in DOMAIN book.heap[side] :
               CancelOrder(side, index) \/ CleanupOrder(side, index)
    BY <2>4 DEF Moves, CancelOrder, CleanupOrder
  <2>5. CASE InitializeTerms \/ (\E r \in Reviewers : AcceptTerms(r)) \/ SealTerms \/ Tick
    BY <2>5 DEF Moves, Quiet, InitializeTerms, AcceptTerms, SealTerms, TermsUnchanged, Tick
  <2>6. CASE InitializeResolution \/ CloseResolution \/ SignApproval \/ FinalizeResolution
    BY <2>6 DEF Moves
  <2>7. CASE \E outcome \in setup.outcomes : Propose(outcome)
    BY <2>7 DEF Moves
  <2>8. CASE (\E f \in signed : Approve(f)) \/ (\E s \in DOMAIN proposals : Reject(Fingerprint(s)))
    BY <2>8 DEF Moves
  <2>. QED
    BY <1>2, <2>1, <2>2, <2>3, <2>4, <2>5, <2>6, <2>7, <2>8 DEF Next
<1>. QED
  BY <1>1, <1>2

----------------------------------------------------------------------------
\* The review of the outcome: every proposal but the last one is rejected, and the
\* last one is the active one while it is pending.
Phases == {"Absent", "Open", "Closed", "ProposalPending", "Resolved", "Finalized"}
ProposalRows == [outcome : setup.outcomes, status : {"Pending", "Approved", "Rejected"}]
IsResolution(r) ==
    /\ r = [phase |-> r.phase, active |-> r.active, outcome |-> r.outcome, yes |-> r.yes, no |-> r.no]
    /\ r.phase \in Phases

AllBut(last, status) ==
    \A s \in DOMAIN proposals : proposals[s].status = IF s = last THEN status ELSE "Rejected"

Review ==
    /\ proposals \in Seq(ProposalRows)
    /\ IsResolution(resolution)
    /\ resolution.phase \in {"Absent", "Open"} => proposals = << >>
    /\ resolution.phase = "Closed" => AllBut(0, "Rejected")
    /\ resolution.phase = "ProposalPending" =>
         /\ resolution.active = Len(proposals) /\ Len(proposals) # 0
         /\ AllBut(Len(proposals), "Pending")
    /\ ResolvedAsSigned

\* What the review is about.
ReviewOf(r) == <<r.phase, r.active, r.outcome>>
SameReview ==
    /\ IsResolution(resolution) => IsResolution(resolution')
    /\ ReviewOf(resolution') = ReviewOf(resolution)
    /\ UNCHANGED <<setup, proposals, signed>>

LEMMA SameReviewKeeps ==
    ASSUME Review, SameReview
    PROVE  Review'
BY DEF Review, SameReview, ReviewOf, AllBut, ProposalRows, ResolvedAsSigned, Fingerprint

LEMMA ReviewStarts ==
    ASSUME Init
    PROVE  Review
<1>1. proposals = << >> /\ proposals \in Seq(ProposalRows)
  BY DEF Init
<1>2. /\ resolution.phase \in {"Absent", "Open"}
      /\ resolution = [phase |-> resolution.phase, active |-> resolution.active,
                       outcome |-> resolution.outcome, yes |-> resolution.yes, no |-> resolution.no]
  <2>1. \E phase \in {"Absent", "Open"} :
          resolution = [phase |-> phase, active |-> 0, outcome |-> NoOutcome, yes |-> 0, no |-> 0]
    BY DEF Init, Ready, Created
  <2>. QED
    BY <2>1
<1>. QED
  BY <1>1, <1>2 DEF Review, ResolvedAsSigned, IsResolution, Phases

\* The steps of the review.
LEMMA ReviewStep ==
    ASSUME Review,
           \/ InitializeResolution \/ CloseResolution \/ SignApproval \/ FinalizeResolution
           \/ \E outcome \in setup.outcomes : Propose(outcome)
           \/ \E f \in signed : Approve(f)
           \/ \E f : Reject(f)
    PROVE  Review'
<1>1. /\ proposals \in Seq(ProposalRows) /\ IsResolution(resolution)
      /\ Len(proposals) \in Nat /\ DOMAIN proposals = 1 .. Len(proposals)
  BY DEF Review
<1>2. CASE InitializeResolution
  <2>1. resolution.phase = "Absent" /\ resolution' = [resolution EXCEPT !.phase = "Open"]
        /\ UNCHANGED <<setup, proposals, signed>>
    BY <1>2 DEF InitializeResolution, TermsUnchanged
  <2>2. resolution'.phase = "Open" /\ IsResolution(resolution')
    BY <1>1, <2>1 DEF IsResolution, Phases
  <2>. QED
    BY <2>1, <2>2 DEF Review, ProposalRows, ResolvedAsSigned
<1>3. CASE CloseResolution
  <2>1. resolution.phase = "Open"
        /\ resolution' = [resolution EXCEPT !.phase = "Closed", !.yes = Shares(seats, "yes"),
                                            !.no = Shares(seats, "no")]
        /\ UNCHANGED <<setup, proposals, signed>>
    BY <1>3 DEF CloseResolution
  <2>2. resolution'.phase = "Closed" /\ IsResolution(resolution')
    BY <1>1, <2>1 DEF IsResolution, Phases
  <2>. QED
    BY <2>1, <2>2 DEF Review, ProposalRows, ResolvedAsSigned, AllBut
<1>4. CASE SignApproval
  <2>1. resolution.phase = "ProposalPending" /\ UNCHANGED <<setup, proposals, resolution>>
    BY <1>4 DEF SignApproval, ProposalsUnchanged
  <2>. QED
    BY <2>1 DEF Review, ProposalRows, ResolvedAsSigned, AllBut
<1>5. CASE FinalizeResolution
  <2>1. resolution.phase = "Resolved" /\ resolution' = [resolution EXCEPT !.phase = "Finalized"]
        /\ UNCHANGED <<setup, proposals, signed>>
    BY <1>5 DEF FinalizeResolution
  <2>2. resolution'.phase = "Finalized" /\ resolution'.outcome = resolution.outcome
        /\ IsResolution(resolution')
    BY <1>1, <2>1 DEF IsResolution, Phases
  <2>. QED
    BY <2>1, <2>2 DEF Review, ProposalRows, ResolvedAsSigned, Fingerprint
<1>6. CASE \E outcome \in setup.outcomes : Propose(outcome)
  <2>1. PICK outcome \in setup.outcomes : Propose(outcome)
    BY <1>6
  <2>2. /\ resolution.phase = "Closed"
        /\ proposals' = Append(proposals, [outcome |-> outcome, status |-> "Pending"])
        /\ resolution' = [resolution EXCEPT !.phase = "ProposalPending", !.active = Len(proposals) + 1]
        /\ UNCHANGED <<setup, signed>>
    BY <2>1 DEF Propose, ProposalsUnchanged
  <2>3. /\ resolution'.phase = "ProposalPending" /\ resolution'.active = Len(proposals) + 1
        /\ IsResolution(resolution')
    BY <1>1, <2>2 DEF IsResolution, Phases
  <2>. DEFINE new == [outcome |-> outcome, status |-> "Pending"]
  <2>4. new \in ProposalRows /\ new.status = "Pending"
    BY DEF ProposalRows
  <2>. HIDE DEF new
  <2>5. /\ proposals' \in Seq(ProposalRows) /\ Len(proposals') = Len(proposals) + 1
        /\ \A s \in DOMAIN proposals' :
              proposals'[s] = IF s = Len(proposals) + 1 THEN new ELSE proposals[s]
        /\ \A s \in DOMAIN proposals' : s # Len(proposals) + 1 => s \in DOMAIN proposals
    BY <1>1, <2>2, <2>4 DEF new
  <2>6. \A s \in DOMAIN proposals : s # 0 /\ proposals[s].status = "Rejected"
    BY <1>1, <2>2 DEF Review, AllBut
  <2>7. AllBut(Len(proposals), "Pending")'
    BY <2>4, <2>5, <2>6 DEF AllBut
  <2>8. ProposalRows' = ProposalRows
    BY <2>2 DEF ProposalRows
  <2>9. Len(proposals') = Len(proposals) + 1 /\ Len(proposals') # 0
    BY <1>1, <2>5
  <2>. QED
    BY <2>3, <2>5, <2>7, <2>8, <2>9 DEF Review, ResolvedAsSigned
<1>7. CASE \E f \in signed : Approve(f)
  <2>1. PICK f \in signed : Approve(f)
    BY <1>7
  <2>2. /\ resolution.phase = "ProposalPending" /\ f.sequence = resolution.active
        /\ Fingerprint(f.sequence) = f
        /\ proposals' = [proposals EXCEPT ![f.sequence].status = "Approved"]
        /\ resolution' = [resolution EXCEPT !.phase = "Resolved", !.active = 0,
                                            !.outcome = proposals[f.sequence].outcome]
        /\ proposals[f.sequence].status = "Pending"
        /\ UNCHANGED <<setup, signed>>
    BY <2>1 DEF Approve, Pending, ProposalsUnchanged
  <2>. DEFINE last == Len(proposals)
  <2>3. f.sequence = last /\ last # 0 /\ AllBut(last, "Pending")
    BY <2>2 DEF Review
  <2>4. /\ resolution'.phase = "Resolved" /\ resolution'.outcome = proposals[last].outcome
        /\ IsResolution(resolution')
    BY <1>1, <2>2, <2>3 DEF IsResolution, Phases
  <2>5. \A s \in DOMAIN proposals :
          /\ proposals[s] \in ProposalRows
          /\ proposals'[s] = IF s = last THEN [proposals[s] EXCEPT !.status = "Approved"] ELSE proposals[s]
    BY <1>1, <2>2, <2>3
  <2>6. \A r \in ProposalRows : /\ [r EXCEPT !.status = "Approved"] \in ProposalRows
                                /\ [r EXCEPT !.status = "Approved"].status = "Approved"
                                /\ [r EXCEPT !.status = "Approved"].outcome = r.outcome
    BY DEF ProposalRows
  <2>7. /\ proposals' \in Seq(ProposalRows) /\ Len(proposals') = last
        /\ DOMAIN proposals' = DOMAIN proposals
    <3>1. DOMAIN proposals' = DOMAIN proposals
      BY <2>2
    <3>2. \A s \in DOMAIN proposals : proposals'[s] \in ProposalRows
      BY <2>5, <2>6
    <3>3. proposals' = [s \in 1 .. last |-> proposals'[s]]
      BY <1>1, <2>2
    <3>. QED
      BY <1>1, <3>1, <3>2, <3>3
  <2>8. ProposalRows' = ProposalRows
    BY <2>2 DEF ProposalRows
  <2>9. AllBut(last, "Approved")'
    <3>1. ASSUME NEW s \in DOMAIN proposals
          PROVE  proposals'[s].status = IF s = last THEN "Approved" ELSE "Rejected"
      <4>1. s # last => proposals[s].status = "Rejected"
        BY <2>3 DEF AllBut
      <4>. HIDE DEF last
      <4>2. CASE s = last
        BY <2>5, <2>6, <4>2
      <4>3. CASE s # last
        BY <2>5, <4>1, <4>3
      <4>. QED
        BY <4>2, <4>3
    <3>. QED
      BY <2>7, <3>1 DEF AllBut
  <2>10. last \in DOMAIN proposals
    BY <1>1, <2>3
  <2>11. proposals'[last].outcome = proposals[last].outcome
    BY <2>5, <2>6, <2>10
  <2>12. Fingerprint(last)' = f
    BY <2>2, <2>3, <2>11 DEF Fingerprint
  <2>13. f \in signed'
    BY <2>2
  <2>. QED
    BY <2>4, <2>7, <2>8, <2>9, <2>11, <2>12, <2>13 DEF Review, ResolvedAsSigned, AllBut
<1>8. CASE \E f : Reject(f)
  <2>1. PICK f : Reject(f)
    BY <1>8
  <2>2. /\ resolution.phase = "ProposalPending" /\ f.sequence = resolution.active
        /\ proposals' = [proposals EXCEPT ![f.sequence].status = "Rejected"]
        /\ resolution' = [resolution EXCEPT !.phase = "Closed", !.active = 0]
        /\ UNCHANGED <<setup, signed>>
    BY <2>1 DEF Reject, Pending, ProposalsUnchanged
  <2>. DEFINE last == Len(proposals)
  <2>3. f.sequence = last /\ AllBut(last, "Pending")
    BY <2>2 DEF Review
  <2>4. resolution'.phase = "Closed" /\ IsResolution(resolution')
    BY <1>1, <2>2, <2>3 DEF IsResolution, Phases
  <2>5. \A s \in DOMAIN proposals :
          /\ proposals[s] \in ProposalRows
          /\ proposals'[s] = IF s = last THEN [proposals[s] EXCEPT !.status = "Rejected"] ELSE proposals[s]
    BY <1>1, <2>2, <2>3
  <2>6. \A r \in ProposalRows : /\ [r EXCEPT !.status = "Rejected"] \in ProposalRows
                                /\ [r EXCEPT !.status = "Rejected"].status = "Rejected"
    BY DEF ProposalRows
  <2>7. proposals' \in Seq(ProposalRows) /\ DOMAIN proposals' = DOMAIN proposals
    <3>1. DOMAIN proposals' = DOMAIN proposals
      BY <2>2
    <3>2. \A s \in DOMAIN proposals : proposals'[s] \in ProposalRows
      BY <2>5, <2>6
    <3>3. proposals' = [s \in 1 .. last |-> proposals'[s]]
      BY <1>1, <2>2
    <3>. QED
      BY <1>1, <3>1, <3>2, <3>3
  <2>8. ProposalRows' = ProposalRows
    BY <2>2 DEF ProposalRows
  <2>9. AllBut(0, "Rejected")'
    <3>1. ASSUME NEW s \in DOMAIN proposals
          PROVE  proposals'[s].status = "Rejected"
      <4>1. s # last => proposals[s].status = "Rejected"
        BY <2>3 DEF AllBut
      <4>. HIDE DEF last
      <4>2. CASE s = last
        BY <2>5, <2>6, <4>2
      <4>3. CASE s # last
        BY <2>5, <4>1, <4>3
      <4>. QED
        BY <4>2, <4>3
    <3>. QED
      BY <2>7, <3>1 DEF AllBut
  <2>. QED
    BY <2>4, <2>7, <2>8, <2>9 DEF Review, ResolvedAsSigned
<1>. QED
  BY <1>2, <1>3, <1>4, <1>5, <1>6, <1>7, <1>8

LEMMA ReviewKept ==
    ASSUME Review, [Next]_vars
    PROVE  Review'
<1>1. Moves
  BY EveryStep
<1>2. CASE \E in \in Incoming : Place(in)
  BY <1>2, SameReviewKeeps DEF Place, SameReview
<1>3. CASE \E w \in DOMAIN tokens : RegisterSeat(w) \/ Donate(w)
  BY <1>3, SameReviewKeeps DEF RegisterSeat, Donate, SameReview
<1>4. CASE \E i \in DOMAIN seats, amount \in setup.amounts : MoveCash(i, amount) \/ MoveCash(i, -amount)
  BY <1>4, SameReviewKeeps DEF MoveCash, SameReview
<1>5. CASE \E i \in DOMAIN seats : ClaimResolution(i)
  <2>1. PICK i \in DOMAIN seats : ClaimResolution(i)
    BY <1>5
  <2>2. /\ resolution' = [resolution EXCEPT !.yes = @ - seats[i].yes, !.no = @ - seats[i].no]
        /\ UNCHANGED <<setup, proposals, signed>>
    BY <2>1 DEF ClaimResolution
  <2>3. IsResolution(resolution)
    BY DEF Review
  <2>4. SameReview
    BY <2>2, <2>3 DEF SameReview, ReviewOf, IsResolution
  <2>. QED
    BY <2>4, SameReviewKeeps
<1>6. CASE \E side \in Sides : \E index \in DOMAIN book.heap[side], spent \in {0, 1} :
              Release(side, index, spent)
  BY <1>6, SameReviewKeeps DEF Release, SameReview
<1>7. CASE Quiet
  BY <1>7, SameReviewKeeps DEF Quiet, SameReview
<1>. QED
  BY <1>1, <1>2, <1>3, <1>4, <1>5, <1>6, <1>7, ReviewStep DEF Moves

\* The outcome of a resolved market is that of the last proposal, which the
\* approver signed; every other one was rejected (resolution.rs require_pending).
THEOREM OutcomeWasSigned == Spec => []ResolvedAsSigned
<1>1. Init => Review
  BY ReviewStarts
<1>2. Review /\ [Next]_vars => Review'
  BY ReviewKept
<1>3. Review => ResolvedAsSigned
  BY DEF Review
<1>. QED
  BY <1>1, <1>2, <1>3, PTL DEF Spec

----------------------------------------------------------------------------
\* The book: what a committed execution wrote is its plan's.
PlanOf(in) == Plan(book, in, now, setup.touches)
LockedSeat(in) == Lock(seats[in.owner], PlanOf(in).required)
Unstaged(in) ==
    [seats |-> [seats EXCEPT ![in.owner] = LockedSeat(in)], market |-> market,
     reserve |-> PlanOf(in).required, sound |-> TRUE]
StagedBy(in) == StageAll(Unstaged(in), PlanOf(in).effects)

LEMMA ExecutionIs ==
    ASSUME NEW in
    PROVE  Execution(in) = IF PlanOf(in).fault # "None" THEN [fault |-> PlanOf(in).fault]
                           ELSE IF ~Sound(LockedSeat(in)) THEN [fault |-> "Insufficient"]
                           ELSE Finish(PlanOf(in), StagedBy(in), in.owner)
BY DEF Execution, PlanOf, LockedSeat, Unstaged, StagedBy

LEMMA CommittedIs ==
    ASSUME NEW in, Execution(in).fault = "None"
    PROVE  /\ PlanOf(in).fault = "None" /\ Sound(LockedSeat(in))
           /\ Execution(in) = Finish(PlanOf(in), StagedBy(in), in.owner)
           /\ Execution(in).book = PlanOf(in).book
<1>1. Execution(in) = IF PlanOf(in).fault # "None" THEN [fault |-> PlanOf(in).fault]
                      ELSE IF ~Sound(LockedSeat(in)) THEN [fault |-> "Insufficient"]
                      ELSE Finish(PlanOf(in), StagedBy(in), in.owner)
  BY ExecutionIs
<1>2. PlanOf(in).fault = "None"
  BY <1>1
<1>3. Sound(LockedSeat(in))
  BY <1>1, <1>2
<1>4. Execution(in) = Finish(PlanOf(in), StagedBy(in), in.owner)
  BY <1>1, <1>2, <1>3
<1>5. Finish(PlanOf(in), StagedBy(in), in.owner).book = PlanOf(in).book
  BY DEF Finish, Checked
<1>. QED
  BY <1>2, <1>3, <1>4, <1>5

LEMMA SetupRules ==
    ASSUME setup \in Setups
    PROVE  MarketRules(setup) /\ setup.touches \in Nat /\ ValidSetup(setup)
<1>1. ValidSetup(setup)
  BY SetupsAssumption
<1>2. setup.capacity \in Nat /\ setup.touches \in Nat
  BY <1>1, Zenon DEF ValidSetup
<1>3. setup.payout \in Nat
  BY <1>1, Zenon DEF ValidSetup
<1>4. setup.feeBps \in 0 .. FeeBasis
  BY <1>1, Zenon DEF ValidSetup
<1>5. MarketRules(setup)
  BY <1>2, <1>3, <1>4, Zenon DEF MarketRules
<1>. QED
  BY <1>1, <1>2, <1>5

LEMMA ArrivalsArrive ==
    ASSUME setup \in Setups, book.next \in Nat \ {0}
    PROVE  Incoming \subseteq Arrivals(setup.payout)
<1>1. setup.orders \subseteq Arrivals(setup.payout)
  BY SetupRules DEF ValidSetup
<1>2. setup.opening \in Seq(Arrivals(setup.payout))
  BY SetupRules DEF ValidSetup
<1>3. book.next <= Len(setup.opening) => setup.opening[book.next] \in Arrivals(setup.payout)
  BY <1>2
<1>. QED
  BY <1>1, <1>3 DEF Incoming

LEMMA InHeap ==
    ASSUME NEW m, MarketRules(m), NEW b, GoodBook(m, b), NEW side \in Sides,
           NEW index \in DOMAIN b.heap[side]
    PROVE  b.heap[side][index] \in SlotsOf(b, side)
<1>1. IsRow(b.heap[side]) /\ Entries(b.heap[side]) = SlotsOf(b, side)
  BY HeapOf
<1>2. b.heap[side][index] \in Entries(b.heap[side])
  BY <1>1 DEF IsRow, Entries
<1>. QED
  BY <1>1, <1>2

BookKept == setup \in Setups /\ BookInv(setup, book)

LEMMA BookStarts ==
    ASSUME Init
    PROVE  BookKept
<1>1. setup \in Setups /\ book = EmptyBook(setup.capacity, setup.payout, setup.feeBps)
  BY DEF Init, Ready, Created
<1>2. MarketRules(setup)
  BY <1>1, SetupRules
<1>3. GoodBook(setup, book) /\ Resting(book) = {}
  BY <1>1, <1>2, EmptyKeeps
<1>. QED
  BY <1>1, <1>3 DEF BookKept, BookInv, Numbered, Uncrossed

LEMMA PlaceKeepsBook ==
    ASSUME BookKept, NEW in \in Incoming, Place(in)
    PROVE  BookKept'
<1>1. setup \in Setups /\ BookInv(setup, book) /\ MarketRules(setup) /\ setup.touches \in Nat
  BY SetupRules DEF BookKept
<1>2. in \in Arrivals(setup.payout)
  <2>1. book.next \in Nat \ {0}
    BY <1>1, BookFields DEF BookInv
  <2>. QED
    BY <1>1, <2>1, ArrivalsArrive
<1>3. Execution(in).fault = "None" /\ book' = Execution(in).book /\ UNCHANGED setup
  BY DEF Place
<1>4. PlanOf(in).fault = "None" /\ Execution(in).book = PlanOf(in).book
  BY <1>3, CommittedIs
<1>5. Plan(book, in, now, setup.touches).fault = "None"
  BY <1>4 DEF PlanOf
<1>6. BookInv(setup, Plan(book, in, now, setup.touches).book)
  BY <1>1, <1>2, <1>5, PlanKeepsInv DEF PlanLeaves
<1>7. book' = Plan(book, in, now, setup.touches).book
  BY <1>3, <1>4 DEF PlanOf
<1>. QED
  BY <1>1, <1>3, <1>6, <1>7 DEF BookKept

LEMMA BookIsKept ==
    ASSUME BookKept, [Next]_vars
    PROVE  BookKept'
<1>1. Moves
  BY EveryStep
<1>2. CASE \E in \in Incoming : Place(in)
  BY <1>2, PlaceKeepsBook
<1>3. CASE \E side \in Sides : \E index \in DOMAIN book.heap[side], spent \in {0, 1} :
              Release(side, index, spent)
  <2>1. PICK side \in Sides : \E index \in DOMAIN book.heap[side] :
          book' = RemoveOrder(book, side, index) /\ setup' = setup
    BY <1>3 DEF Release
  <2>2. MarketRules(setup)
    BY SetupRules DEF BookKept
  <2>3. PICK index \in DOMAIN book.heap[side] :
          book' = RemoveOrder(book, side, index) /\ setup' = setup
    BY <2>1
  <2>4. BookInv(setup, RemoveOrder(book, side, index))
    BY <2>2, RemoveKeepsInv DEF BookKept
  <2>. QED
    BY <2>3, <2>4 DEF BookKept
<1>4. CASE ~\E in \in Incoming : Place(in)
  <2>1. UNCHANGED <<setup, book>> \/ \E side \in Sides : \E index \in DOMAIN book.heap[side],
          spent \in {0, 1} : Release(side, index, spent)
    BY <1>1, <1>4, Zenon DEF Moves, Quiet, RegisterSeat, Donate, MoveCash, ClaimResolution,
         InitializeResolution, TermsUnchanged, CloseResolution, Propose, ProposalsUnchanged,
         SignApproval, Approve, Reject, FinalizeResolution
  <2>2. ASSUME UNCHANGED <<setup, book>>
        PROVE  BookKept'
    BY <2>2 DEF BookKept
  <2>. QED
    BY <1>3, <2>1, <2>2
<1>. QED
  BY <1>2, <1>4

\* The storage is a book: every slot is in one heap or free, and every heap is in
\* the order of priority (matching.rs pop and insert, cancellation.rs
\* plan_removal).
THEOREM BookStaysWellFormed == Spec => []BookWellFormed
<1>1. BookKept => BookWellFormed
  BY SetupRules, GoodIsWellFormed DEF BookKept, BookInv, BookWellFormed
<1>. QED
  BY <1>1, BookStarts, BookIsKept, PTL DEF Spec

\* No two resting orders cross: what a placement rests did not cross the best
\* order of the other side (matching.rs plan).
THEOREM RestingOrdersNeverCross == Spec => []NeverCrossed
<1>1. ASSUME BookKept
      PROVE  NeverCrossed
  <2>1. GoodBook(setup, book) /\ Uncrossed(book)
    BY <1>1 DEF BookKept, BookInv
  <2>2. ASSUME NEW i \in DOMAIN book.heap.Bid, NEW j \in DOMAIN book.heap.Ask
        PROVE  CanonicalPrice(OrderAt(book, "Bid", i), book.payout)
                 < CanonicalPrice(OrderAt(book, "Ask", j), book.payout)
    <3>1. /\ MarketRules(setup) /\ "Bid" \in Sides /\ "Ask" \in Sides
          /\ i \in DOMAIN book.heap["Bid"] /\ j \in DOMAIN book.heap["Ask"]
      BY <1>1, SetupRules DEF Sides, BookKept
    <3>2. book.heap["Bid"][i] \in SlotsOf(book, "Bid")
      BY <2>1, <3>1, InHeap
    <3>3. book.heap["Ask"][j] \in SlotsOf(book, "Ask")
      BY <2>1, <3>1, InHeap
    <3>. QED
      BY <2>1, <3>2, <3>3 DEF Uncrossed, SlotsOf, OrderAt
  <2>. QED
    BY <2>2 DEF NeverCrossed
<1>. QED
  BY <1>1, BookStarts, BookIsKept, PTL DEF Spec

----------------------------------------------------------------------------
\* Fees: on more they are more, and never more than what they are charged on.
LEMMA FeeOfMore ==
    ASSUME NEW bps \in 0 .. FeeBasis, NEW n \in Nat, NEW a \in Nat
    PROVE  /\ CumulativeFee(n, bps) \in Nat
           /\ CumulativeFee(n, bps) <= CumulativeFee(n + a, bps)
           /\ CumulativeFee(n + a, bps) <= CumulativeFee(n, bps) + a
<1>1. bps \in Nat /\ bps <= 10000
  BY DEF FeeBasis
<1>. DEFINE x == n * bps
            y == a * bps
<1>2. x \in Nat /\ y \in Nat
  BY <1>1
<1>3. y <= a * 10000
  BY <1>1
<1>4. (n + a) * bps = x + y
  BY <1>1
<1>. HIDE DEF x, y
<1>5. /\ (x + 9999) \div 10000 \in Nat
      /\ (x + 9999) \div 10000 <= (x + y + 9999) \div 10000
      /\ (x + y + 9999) \div 10000 <= (x + 9999) \div 10000 + a
  BY <1>2, <1>3
<1>6. CumulativeFee(n, bps) = (x + 9999) \div 10000
  BY <1>2 DEF CumulativeFee, FeeBasis, x
<1>7. CumulativeFee(n + a, bps) = (x + y + 9999) \div 10000
  BY <1>2, <1>4 DEF CumulativeFee, FeeBasis
<1>. QED
  BY <1>5, <1>6, <1>7

LEMMA FeeIs ==
    ASSUME NEW bps \in 0 .. FeeBasis, NEW n \in Nat, NEW a \in Nat
    PROVE  FeeDelta(n, a, bps) \in Nat /\ FeeDelta(n, a, bps) <= a
<1>1. n + a \in Nat
  OBVIOUS
<1>2. CumulativeFee(n, bps) \in Nat /\ CumulativeFee(n + a, bps) \in Nat
  BY <1>1, FeeOfMore
<1>3. CumulativeFee(n, bps) <= CumulativeFee(n + a, bps)
      /\ CumulativeFee(n + a, bps) <= CumulativeFee(n, bps) + a
  BY FeeOfMore
<1>. QED
  BY <1>2, <1>3 DEF FeeDelta

\* What is reserved for a principal pays a part of it, with its fee, and reserves
\* what that part leaves, or less.
LEMMA FeesSplit ==
    ASSUME NEW bps \in 0 .. FeeBasis, NEW n \in Nat, NEW whole \in Nat,
           NEW amount \in Nat, NEW left \in Nat, amount + left <= whole
    PROVE  amount + FeeDelta(n, amount, bps) + (left + FeeDelta(n + amount, left, bps))
             <= whole + FeeDelta(n, whole, bps)
<1>. DEFINE f(z) == CumulativeFee(z, bps)
<1>1. n + amount \in Nat /\ n + amount + left \in Nat /\ n + whole \in Nat
      /\ whole - (amount + left) \in Nat
  OBVIOUS
<1>2. f(n) \in Nat /\ f(n + amount) \in Nat /\ f(n + amount + left) \in Nat /\ f(n + whole) \in Nat
  BY <1>1, FeeOfMore
<1>3. f(n + amount + left) <= f((n + amount + left) + (whole - (amount + left)))
  BY <1>1, FeeOfMore
<1>4. (n + amount + left) + (whole - (amount + left)) = n + whole
  OBVIOUS
<1>5. f(n + amount + left) <= f(n + whole)
  BY <1>3, <1>4
<1>. HIDE DEF f
<1>6. amount + (f(n + amount) - f(n)) + (left + (f(n + amount + left) - f(n + amount)))
        <= whole + (f(n + whole) - f(n))
  BY <1>2, <1>5
<1>. QED
  BY <1>6 DEF FeeDelta, f

----------------------------------------------------------------------------
\* Reserves and seats.
Kinds == {"cash", "yes", "no"}

LEMMA ZeroIs == Zero \in [Kinds -> Nat] /\ DOMAIN Zero = Kinds /\ \A k \in Kinds : Zero[k] = 0
BY DEF Zero, Kinds

LEMMA ReserveIs ==
    ASSUME NEW payout \in Nat, NEW o \in OrderRows(payout), NEW bps \in 0 .. FeeBasis
    PROVE  /\ Reserve(o, bps) \in [Kinds -> Nat] /\ DOMAIN Reserve(o, bps) = Kinds
           /\ o.price * o.remaining \in Nat
           /\ Reserve(o, bps).cash = IF o.action = "BUY"
                THEN o.price * o.remaining + FeeDelta(o.notional, o.price * o.remaining, bps) ELSE 0
           /\ Reserve(o, bps).yes = IF o.action = "SELL" /\ o.outcome = "YES" THEN o.remaining ELSE 0
           /\ Reserve(o, bps).no = IF o.action = "SELL" /\ o.outcome = "NO" THEN o.remaining ELSE 0
<1>. DEFINE whole == o.price * o.remaining
            fee == FeeDelta(o.notional, whole, bps)
<1>1. o.price \in Nat /\ o.remaining \in Nat /\ o.notional \in Nat
  BY OrderFields
<1>2. whole \in Nat
  BY <1>1
<1>3. fee \in Nat
  BY <1>1, <1>2, FeeIs
<1>4. Reserve(o, bps) =
        [cash |-> IF o.action = "BUY" THEN whole + fee ELSE 0,
         yes |-> IF o.action = "SELL" /\ o.outcome = "YES" THEN o.remaining ELSE 0,
         no |-> IF o.action = "SELL" /\ o.outcome = "NO" THEN o.remaining ELSE 0]
  BY DEF Reserve
<1>. HIDE DEF whole, fee
<1>5. /\ (IF o.action = "BUY" THEN whole + fee ELSE 0) \in Nat
      /\ (IF o.action = "SELL" /\ o.outcome = "YES" THEN o.remaining ELSE 0) \in Nat
      /\ (IF o.action = "SELL" /\ o.outcome = "NO" THEN o.remaining ELSE 0) \in Nat
  BY <1>1, <1>2, <1>3
<1>6. Reserve(o, bps) \in [Kinds -> Nat] /\ DOMAIN Reserve(o, bps) = Kinds
  BY <1>4, <1>5 DEF Kinds
<1>7. /\ Reserve(o, bps).cash = IF o.action = "BUY" THEN whole + fee ELSE 0
      /\ Reserve(o, bps).yes = IF o.action = "SELL" /\ o.outcome = "YES" THEN o.remaining ELSE 0
      /\ Reserve(o, bps).no = IF o.action = "SELL" /\ o.outcome = "NO" THEN o.remaining ELSE 0
  BY <1>4
<1>. QED
  BY <1>2, <1>6, <1>7 DEF whole, fee

SeatRows(W) ==
    [wallet : W, available : Int, reserved : [Kinds -> Int], yes : Int, no : Int,
     nonce : Nat, traded : BOOLEAN]

\* The seat t is s with these amounts.
SeatWith(s, t, available, reserved, yes, no) ==
    /\ t.wallet = s.wallet /\ t.available = available /\ t.reserved = reserved
    /\ t.yes = yes /\ t.no = no

Plused(r, q) == [k \in Kinds |-> r[k] + q[k]]
Minused(r, q) == [k \in Kinds |-> r[k] - q[k]]

LEMMA LockIs ==
    ASSUME NEW W, NEW s \in SeatRows(W), NEW r \in [Kinds -> Int]
    PROVE  /\ Lock(s, r) \in SeatRows(W)
           /\ SeatWith(s, Lock(s, r), s.available - r.cash, Plused(s.reserved, r), s.yes, s.no)
<1>1. DOMAIN r = Kinds /\ r.cash \in Int /\ s.available \in Int /\ s.reserved \in [Kinds -> Int]
  BY DEF SeatRows, Kinds
<1>2. Plused(s.reserved, r) \in [Kinds -> Int] /\ s.available - r.cash \in Int
  BY <1>1 DEF Plused
<1>3. Lock(s, r) = [s EXCEPT !.available = s.available - r.cash, !.reserved = Plused(s.reserved, r)]
  BY <1>1 DEF Lock, Plused
<1>. QED
  BY <1>2, <1>3 DEF SeatWith, SeatRows

LEMMA UnlockIs ==
    ASSUME NEW W, NEW s \in SeatRows(W), NEW r \in [Kinds -> Int]
    PROVE  /\ Unlock(s, r) \in SeatRows(W)
           /\ SeatWith(s, Unlock(s, r), s.available + r.cash, Minused(s.reserved, r), s.yes, s.no)
<1>1. DOMAIN r = Kinds /\ r.cash \in Int /\ s.available \in Int /\ s.reserved \in [Kinds -> Int]
  BY DEF SeatRows, Kinds
<1>2. Minused(s.reserved, r) \in [Kinds -> Int] /\ s.available + r.cash \in Int
  BY <1>1 DEF Minused
<1>3. Unlock(s, r) = [s EXCEPT !.available = s.available + r.cash, !.reserved = Minused(s.reserved, r)]
  BY <1>1 DEF Unlock, Minused
<1>. QED
  BY <1>2, <1>3 DEF SeatWith, SeatRows

LEMMA SoundIs ==
    ASSUME NEW W, NEW s \in SeatRows(W)
    PROVE  Sound(s) <=> /\ s.available >= 0 /\ \A k \in Kinds : s.reserved[k] >= 0
                        /\ s.yes >= s.reserved["yes"] /\ s.no >= s.reserved["no"]
<1>1. DOMAIN s.reserved = Kinds
  BY DEF SeatRows
<1>. QED
  BY <1>1 DEF Sound

\* What a fill of q at this price costs one of its orders, and what that order
\* becomes.
Paid(m, o, price, q) == Principal(o.outcome, price, q, m.payout)
Charged(m, o, price, q) == FeeDelta(o.notional, Paid(m, o, price, q), m.feeBps)
Left(m, o, price, q) == Filled(o, price, q, m.payout)
Earned(m, o, price, q) ==
    IF o.action = "BUY" THEN -Paid(m, o, price, q) - Charged(m, o, price, q)
                        ELSE Paid(m, o, price, q) - Charged(m, o, price, q)
Traded1(o, q) == IF o.action = "BUY" THEN q ELSE -q
Moved(o, q, outcome) == IF o.outcome = outcome THEN Traded1(o, q) ELSE 0

Fillable(m, o, price, q) ==
    /\ o \in OrderRows(m.payout) /\ price \in 1 .. m.payout - 1
    /\ q \in Nat \ {0} /\ q <= o.remaining
    /\ o.action = "BUY" => Paid(m, o, price, q) <= q * o.price

LEMMA FillCosts ==
    ASSUME NEW m, MarketRules(m), NEW o, NEW price, NEW q, Fillable(m, o, price, q)
    PROVE  /\ Paid(m, o, price, q) \in Nat /\ Charged(m, o, price, q) \in Nat
           /\ Charged(m, o, price, q) <= Paid(m, o, price, q)
           /\ Left(m, o, price, q) \in OrderRows(m.payout)
           /\ SameOrder(o, Left(m, o, price, q))
           /\ Left(m, o, price, q).remaining = o.remaining - q
           /\ Left(m, o, price, q).notional = o.notional + Paid(m, o, price, q)
<1>1. /\ o \in OrderRows(m.payout) /\ price \in 1 .. m.payout - 1
      /\ q \in Nat \ {0} /\ q <= o.remaining
  BY DEF Fillable
<1>2. m.payout \in Nat
  BY DEF MarketRules
<1>3. m.feeBps \in 0 .. FeeBasis
  BY DEF MarketRules
<1>4. Paid(m, o, price, q) \in Nat
  BY <1>1, <1>2, PrincipalNat DEF Paid
<1>5. o.notional \in Nat
  BY <1>1, <1>2, OrderFields
<1>6. Charged(m, o, price, q) \in Nat /\ Charged(m, o, price, q) <= Paid(m, o, price, q)
  BY <1>3, <1>4, <1>5, FeeIs DEF Charged
<1>7. q \in Nat
  BY <1>1
<1>8. FilledOrder(o, price, q, m.payout, Left(m, o, price, q))
  BY <1>1, <1>2, <1>7, FilledIsOrder DEF Left
<1>. QED
  BY <1>4, <1>6, <1>8 DEF FilledOrder, Paid

\* The reserve of a buyer pays the fill, its fee and the reserve of what is left;
\* a seller's gives up what it sold.
LEMMA ReservePays ==
    ASSUME NEW m, MarketRules(m), NEW o, NEW price, NEW q, Fillable(m, o, price, q)
    PROVE  LET before == Reserve(o, m.feeBps)
               after == Reserve(Left(m, o, price, q), m.feeBps)
           IN /\ before \in [Kinds -> Nat] /\ after \in [Kinds -> Nat]
              /\ o.action = "BUY" =>
                   /\ Paid(m, o, price, q) + Charged(m, o, price, q) + after.cash <= before.cash
                   /\ before.yes = 0 /\ before.no = 0 /\ after.yes = 0 /\ after.no = 0
              /\ o.action = "SELL" =>
                   /\ before.cash = 0 /\ after.cash = 0
                   /\ before.yes = after.yes + (IF o.outcome = "YES" THEN q ELSE 0)
                   /\ before.no = after.no + (IF o.outcome = "NO" THEN q ELSE 0)
<1>. DEFINE left == Left(m, o, price, q)
            before == Reserve(o, m.feeBps)
            after == Reserve(left, m.feeBps)
            amount == Paid(m, o, price, q)
            whole == o.price * o.remaining
            rest == left.price * left.remaining
<1>1. /\ amount \in Nat /\ left \in OrderRows(m.payout) /\ SameOrder(o, left)
      /\ left.remaining = o.remaining - q /\ left.notional = o.notional + amount
  BY FillCosts
<1>2. o \in OrderRows(m.payout) /\ q \in Nat \ {0} /\ q <= o.remaining
  BY DEF Fillable
<1>3. m.payout \in Nat
  BY DEF MarketRules
<1>4. m.feeBps \in 0 .. FeeBasis
  BY DEF MarketRules
<1>5. /\ before \in [Kinds -> Nat] /\ whole \in Nat
      /\ before.cash = IF o.action = "BUY" THEN whole + FeeDelta(o.notional, whole, m.feeBps) ELSE 0
      /\ before.yes = IF o.action = "SELL" /\ o.outcome = "YES" THEN o.remaining ELSE 0
      /\ before.no = IF o.action = "SELL" /\ o.outcome = "NO" THEN o.remaining ELSE 0
  BY <1>2, <1>3, <1>4, ReserveIs
<1>6. /\ after \in [Kinds -> Nat] /\ rest \in Nat
      /\ after.cash = IF left.action = "BUY" THEN rest + FeeDelta(left.notional, rest, m.feeBps) ELSE 0
      /\ after.yes = IF left.action = "SELL" /\ left.outcome = "YES" THEN left.remaining ELSE 0
      /\ after.no = IF left.action = "SELL" /\ left.outcome = "NO" THEN left.remaining ELSE 0
  BY <1>1, <1>3, <1>4, ReserveIs
<1>7. left.action = o.action /\ left.outcome = o.outcome /\ left.price = o.price
  BY <1>1 DEF SameOrder
<1>8. o.price \in Nat /\ o.remaining \in Nat /\ o.notional \in Nat /\ o.action \in {"BUY", "SELL"}
  BY <1>2, <1>3, OrderFields DEF OrderRows
<1>9. CASE o.action = "BUY"
  <2>1. amount <= q * o.price
    BY <1>9 DEF Fillable
  <2>2. amount + rest <= whole
    <3>1. whole = o.price * q + o.price * (o.remaining - q)
      BY <1>2, <1>8
    <3>2. rest = o.price * (o.remaining - q)
      BY <1>1, <1>7
    <3>3. q * o.price = o.price * q
      BY <1>2, <1>8
    <3>. HIDE DEF amount, whole, rest
    <3>4. o.price * q \in Nat /\ o.price * (o.remaining - q) \in Nat
      BY <1>2, <1>8
    <3>. QED
      BY <1>1, <2>1, <3>1, <3>2, <3>3, <3>4
  <2>. HIDE DEF amount, whole, rest
  <2>3. amount + FeeDelta(o.notional, amount, m.feeBps)
          + (rest + FeeDelta(o.notional + amount, rest, m.feeBps))
          <= whole + FeeDelta(o.notional, whole, m.feeBps)
    BY <1>1, <1>4, <1>5, <1>6, <1>8, <2>2, FeesSplit
  <2>4. after.cash = rest + FeeDelta(o.notional + amount, rest, m.feeBps)
    BY <1>1, <1>6, <1>7, <1>9
  <2>5. before.cash = whole + FeeDelta(o.notional, whole, m.feeBps)
    BY <1>5, <1>9
  <2>6. amount + Charged(m, o, price, q) + after.cash <= before.cash
    BY <2>3, <2>4, <2>5 DEF Charged, amount
  <2>7. before.yes = 0 /\ before.no = 0 /\ after.yes = 0 /\ after.no = 0
    BY <1>5, <1>6, <1>7, <1>9
  <2>. QED
    BY <1>5, <1>6, <1>9, <2>6, <2>7 DEF amount
<1>10. CASE o.action = "SELL"
  <2>. HIDE DEF before, after, amount, whole, rest, left
  <2>1. before.cash = 0 /\ after.cash = 0
    BY <1>5, <1>6, <1>7, <1>10
  <2>2. before.yes = after.yes + (IF o.outcome = "YES" THEN q ELSE 0)
    BY <1>1, <1>2, <1>5, <1>6, <1>7, <1>8, <1>10
  <2>3. before.no = after.no + (IF o.outcome = "NO" THEN q ELSE 0)
    BY <1>1, <1>2, <1>5, <1>6, <1>7, <1>8, <1>10
  <2>. QED
    BY <1>5, <1>6, <1>10, <2>1, <2>2, <2>3 DEF before, after, left
<1>. QED
  BY <1>8, <1>9, <1>10

\* One side of a fill settles.
Covers(m, seat, o) == \A k \in Kinds : Reserve(o, m.feeBps)[k] <= seat.reserved[k]
OnBook(m) == book.payout = m.payout /\ book.feeBps = m.feeBps

SettledTo(m, W, s, o, price, q, r) ==
    /\ r.sound = TRUE /\ r.seat \in SeatRows(W) /\ Sound(r.seat) /\ r.seat.wallet = s.wallet
    /\ r.seat.reserved = Plused(Minused(s.reserved, Reserve(o, m.feeBps)),
                                Reserve(Left(m, o, price, q), m.feeBps))
    /\ r.seat.available + r.seat.reserved.cash
         = s.available + s.reserved.cash + Earned(m, o, price, q)
    /\ r.seat.yes = s.yes + Moved(o, q, "YES") /\ r.seat.no = s.no + Moved(o, q, "NO")

LEMMA SeatMoved ==
    ASSUME NEW W, NEW s \in SeatRows(W), NEW a \in Int, NEW y \in Int, NEW n \in Int
    PROVE  LET t == [s EXCEPT !.available = a, !.yes = y, !.no = n, !.traded = TRUE]
           IN t \in SeatRows(W) /\ SeatWith(s, t, a, s.reserved, y, n)
BY DEF SeatRows, SeatWith

LEMMA SeatPaid ==
    ASSUME NEW W, NEW s \in SeatRows(W), NEW a \in Int, NEW y \in Int, NEW n \in Int
    PROVE  LET t == [s EXCEPT !.available = a, !.yes = y, !.no = n]
           IN t \in SeatRows(W) /\ SeatWith(s, t, a, s.reserved, y, n)
BY DEF SeatRows, SeatWith

LEMMA SettleIs ==
    ASSUME NEW m, MarketRules(m), OnBook(m), NEW W, NEW s \in SeatRows(W), Sound(s),
           NEW o, NEW fill, Fillable(m, o, fill.price, fill.quantity), Covers(m, s, o)
    PROVE  SettledTo(m, W, s, o, fill.price, fill.quantity,
                     Settle(s, o, fill, Charged(m, o, fill.price, fill.quantity)))
<1>. DEFINE price == fill.price
            q == fill.quantity
            before == Reserve(o, m.feeBps)
            after == Reserve(Left(m, o, price, q), m.feeBps)
            amount == Paid(m, o, price, q)
            fee == Charged(m, o, price, q)
            earned == Earned(m, o, price, q)
            free == Unlock(s, before)
            moved == [free EXCEPT !.available = free.available + earned,
                                  !.yes = free.yes + Moved(o, q, "YES"),
                                  !.no = free.no + Moved(o, q, "NO"),
                                  !.traded = TRUE]
            locked == Lock(moved, after)
            r == Settle(s, o, fill, fee)
<1>1. r = [seat |-> locked, sound |-> Sound(free) /\ Sound(moved) /\ Sound(locked)]
  BY DEF Settle, OnBook, Earned, Paid, Moved, Traded1, Left
<1>2. /\ before \in [Kinds -> Nat] /\ after \in [Kinds -> Nat]
      /\ o.action = "BUY" =>
           /\ amount + fee + after.cash <= before.cash
           /\ before.yes = 0 /\ before.no = 0 /\ after.yes = 0 /\ after.no = 0
      /\ o.action = "SELL" =>
           /\ before.cash = 0 /\ after.cash = 0
           /\ before.yes = after.yes + (IF o.outcome = "YES" THEN q ELSE 0)
           /\ before.no = after.no + (IF o.outcome = "NO" THEN q ELSE 0)
  BY ReservePays
<1>3. amount \in Nat /\ fee \in Nat /\ fee <= amount
  BY FillCosts
<1>4. o \in OrderRows(m.payout) /\ q \in Nat \ {0}
  BY DEF Fillable
<1>5. o.action \in {"BUY", "SELL"} /\ o.outcome \in {"YES", "NO"}
  BY <1>4 DEF OrderRows
<1>6. earned \in Int /\ earned = IF o.action = "BUY" THEN -amount - fee ELSE amount - fee
  BY <1>3, <1>5 DEF Earned
<1>7. /\ Moved(o, q, "YES") \in Int /\ Moved(o, q, "NO") \in Int
      /\ Moved(o, q, "YES") = IF o.outcome = "YES" THEN (IF o.action = "BUY" THEN q ELSE -q) ELSE 0
      /\ Moved(o, q, "NO") = IF o.outcome = "NO" THEN (IF o.action = "BUY" THEN q ELSE -q) ELSE 0
  BY <1>4 DEF Moved, Traded1
<1>8. \A k \in Kinds : before[k] <= s.reserved[k]
  BY DEF Covers
<1>. HIDE DEF price, before, after, amount, fee, earned, r
<1>9. /\ s.available \in Int /\ s.yes \in Int /\ s.no \in Int /\ s.reserved \in [Kinds -> Int]
  BY DEF SeatRows
<1>10. /\ s.available >= 0 /\ \A k \in Kinds : s.reserved[k] >= 0
       /\ s.yes >= s.reserved["yes"] /\ s.no >= s.reserved["no"]
  BY SoundIs
<1>11. /\ before \in [Kinds -> Int] /\ after \in [Kinds -> Int]
       /\ "cash" \in Kinds /\ "yes" \in Kinds /\ "no" \in Kinds
  BY <1>2 DEF Kinds
<1>12. /\ free \in SeatRows(W)
       /\ SeatWith(s, free, s.available + before.cash, Minused(s.reserved, before), s.yes, s.no)
  BY <1>11, UnlockIs
<1>. HIDE DEF free
<1>13. /\ free.available = s.available + before.cash /\ free.yes = s.yes /\ free.no = s.no
       /\ free.reserved = Minused(s.reserved, before) /\ free.wallet = s.wallet
  BY <1>12 DEF SeatWith
<1>14. /\ moved.available = free.available + earned /\ moved.reserved = free.reserved
       /\ moved.yes = free.yes + Moved(o, q, "YES") /\ moved.no = free.no + Moved(o, q, "NO")
       /\ moved.wallet = free.wallet /\ moved \in SeatRows(W)
  <2>1. /\ free.available + earned \in Int /\ free.yes + Moved(o, q, "YES") \in Int
        /\ free.no + Moved(o, q, "NO") \in Int
    BY <1>2, <1>6, <1>7, <1>9, <1>13 DEF Kinds
  <2>. HIDE DEF q
  <2>2. /\ moved \in SeatRows(W)
        /\ SeatWith(free, moved, free.available + earned, free.reserved,
                    free.yes + Moved(o, q, "YES"), free.no + Moved(o, q, "NO"))
    BY <1>12, <2>1, SeatMoved
  <2>. HIDE DEF moved
  <2>. QED
    BY <2>2 DEF SeatWith
<1>. HIDE DEF moved, q
<1>15. /\ locked \in SeatRows(W)
       /\ SeatWith(moved, locked, moved.available - after.cash, Plused(moved.reserved, after),
                   moved.yes, moved.no)
  BY <1>11, <1>14, LockIs
<1>. HIDE DEF locked
<1>16. /\ locked.available = moved.available - after.cash
       /\ locked.reserved = Plused(moved.reserved, after)
       /\ locked.yes = moved.yes /\ locked.no = moved.no /\ locked.wallet = moved.wallet
  BY <1>15 DEF SeatWith
<1>17. \A k \in Kinds : /\ free.reserved[k] = s.reserved[k] - before[k]
                        /\ locked.reserved[k] = s.reserved[k] - before[k] + after[k]
  BY <1>9, <1>11, <1>13, <1>14, <1>16 DEF Minused, Plused
<1>18. /\ before.cash \in Nat /\ after.cash \in Nat /\ before.yes \in Nat /\ after.yes \in Nat
       /\ before.no \in Nat /\ after.no \in Nat
       /\ s.reserved.cash \in Int /\ s.reserved.yes \in Int /\ s.reserved.no \in Int
  BY <1>2, <1>9 DEF Kinds
<1>19. /\ free.reserved.cash = s.reserved.cash - before.cash
       /\ free.reserved.yes = s.reserved.yes - before.yes
       /\ free.reserved.no = s.reserved.no - before.no
       /\ locked.reserved.cash = s.reserved.cash - before.cash + after.cash
       /\ locked.reserved.yes = s.reserved.yes - before.yes + after.yes
       /\ locked.reserved.no = s.reserved.no - before.no + after.no
       /\ before.cash <= s.reserved.cash /\ before.yes <= s.reserved.yes /\ before.no <= s.reserved.no
       /\ s.yes >= s.reserved.yes /\ s.no >= s.reserved.no
  BY <1>8, <1>10, <1>17 DEF Kinds
<1>20. \A k \in Kinds : free.reserved[k] >= 0 /\ locked.reserved[k] >= 0
  BY <1>2, <1>8, <1>9, <1>17
<1>21. Sound(free)
  <2>1. free.available >= 0 /\ free.yes >= free.reserved.yes /\ free.no >= free.reserved.no
    BY <1>9, <1>10, <1>13, <1>18, <1>19
  <2>. QED
    BY <1>12, <1>20, <2>1, SoundIs
<1>22. /\ moved.available >= 0 /\ locked.available >= 0
       /\ moved.yes >= free.reserved.yes /\ moved.no >= free.reserved.no
       /\ moved.yes >= locked.reserved.yes /\ moved.no >= locked.reserved.no
  <2>1. CASE o.action = "BUY"
    BY <2>1, <1>2, <1>3, <1>4, <1>6, <1>7, <1>9, <1>10, <1>13, <1>14, <1>16, <1>18, <1>19 DEF q
  <2>2. CASE o.action = "SELL"
    <3>1. moved.available >= 0 /\ locked.available >= 0
      BY <2>2, <1>2, <1>3, <1>6, <1>9, <1>10, <1>13, <1>14, <1>16, <1>18
    <3>2. /\ moved.yes >= free.reserved.yes /\ moved.yes >= locked.reserved.yes
      BY <2>2, <1>2, <1>4, <1>7, <1>9, <1>13, <1>14, <1>18, <1>19 DEF q
    <3>3. /\ moved.no >= free.reserved.no /\ moved.no >= locked.reserved.no
      BY <2>2, <1>2, <1>4, <1>7, <1>9, <1>13, <1>14, <1>18, <1>19 DEF q
    <3>. QED
      BY <3>1, <3>2, <3>3
  <2>. QED
    BY <1>5, <2>1, <2>2
<1>23. Sound(moved) /\ Sound(locked)
  BY <1>14, <1>15, <1>16, <1>20, <1>22, SoundIs
<1>24. r.sound = TRUE /\ r.seat = locked
  BY <1>1, <1>21, <1>23
<1>25. locked.reserved = Plused(Minused(s.reserved, before), after)
  BY <1>13, <1>14, <1>16
<1>26. locked.available + locked.reserved.cash = s.available + s.reserved.cash + earned
  BY <1>6, <1>9, <1>13, <1>14, <1>16, <1>18, <1>19
<1>27. locked.yes = s.yes + Moved(o, q, "YES") /\ locked.no = s.no + Moved(o, q, "NO")
       /\ locked.wallet = s.wallet
  BY <1>13, <1>14, <1>16
<1>28. SettledTo(m, W, s, o, price, q, r)
  BY <1>15, <1>23, <1>24, <1>25, <1>26, <1>27 DEF SettledTo, before, after, earned
<1>. QED
  BY <1>28 DEF price, q, r, fee

----------------------------------------------------------------------------
\* What the orders of a book keep reserved in the seat i.
HeldBy(x, i, bps, k) == IF x # Vacant /\ x.owner = i THEN Reserve(x, bps)[k] ELSE 0
HeldIn(b, i, k) == [s \in DOMAIN b.slots |-> HeldBy(b.slots[s], i, b.feeBps, k)]
Backing(b, i, k) == SumFunction(HeldIn(b, i, k))

LEMMA HeldByNat ==
    ASSUME NEW m, MarketRules(m), NEW x \in OrderRows(m.payout) \union {Vacant}, NEW i,
           NEW k \in Kinds
    PROVE  HeldBy(x, i, m.feeBps, k) \in Nat
<1>1. m.payout \in Nat
  BY DEF MarketRules
<1>2. m.feeBps \in 0 .. FeeBasis
  BY DEF MarketRules
<1>3. x \in OrderRows(m.payout) => Reserve(x, m.feeBps) \in [Kinds -> Nat]
  BY <1>1, <1>2, ReserveIs
<1>. QED
  BY <1>3 DEF HeldBy

LEMMA HeldInIs ==
    ASSUME NEW m, MarketRules(m), NEW b, GoodBook(m, b), NEW i, NEW k \in Kinds
    PROVE  /\ IsFiniteSet(DOMAIN b.slots)
           /\ HeldIn(b, i, k) \in [DOMAIN b.slots -> Nat]
           /\ \A s \in DOMAIN b.slots : HeldIn(b, i, k)[s] = HeldBy(b.slots[s], i, m.feeBps, k)
<1>1. /\ DOMAIN b.slots = 1 .. m.capacity /\ b.feeBps = m.feeBps
      /\ b.slots \in [1 .. m.capacity -> OrderRows(m.payout) \union {Vacant}]
  BY BookFields
<1>2. IsFiniteSet(DOMAIN b.slots)
  <2>1. m.capacity \in Nat
    BY DEF MarketRules
  <2>. QED
    BY <1>1, <2>1, FS_Interval
<1>3. ASSUME NEW s \in DOMAIN b.slots
      PROVE  HeldBy(b.slots[s], i, m.feeBps, k) \in Nat
  BY <1>1, HeldByNat
<1>. QED
  BY <1>1, <1>2, <1>3 DEF HeldIn

LEMMA BackingIs ==
    ASSUME NEW m, MarketRules(m), NEW b, GoodBook(m, b), NEW i, NEW k \in Kinds
    PROVE  /\ Backing(b, i, k) \in Nat
           /\ \A s \in DOMAIN b.slots : HeldBy(b.slots[s], i, m.feeBps, k) <= Backing(b, i, k)
           /\ Resting(b) = {} => Backing(b, i, k) = 0
<1>. DEFINE f == HeldIn(b, i, k)
            S == DOMAIN b.slots
<1>1. /\ IsFiniteSet(S) /\ f \in [S -> Nat]
      /\ \A s \in S : f[s] = HeldBy(b.slots[s], i, m.feeBps, k)
  BY HeldInIs
<1>2. Resting(b) = {} => \A s \in S : HeldBy(b.slots[s], i, m.feeBps, k) = 0
  BY DEF Resting, HeldBy
<1>. HIDE DEF f, S
<1>3. SumFunction(f) \in Nat
  BY <1>1, SumIsNat
<1>4. \A s \in S : f[s] <= SumFunction(f)
  BY <1>1, SumHasTerm
<1>5. ASSUME Resting(b) = {}
      PROVE  SumFunction(f) = 0
  <2>1. f \in [S -> {0}]
    BY <1>1, <1>2, <1>5
  <2>. QED
    BY <1>1, <2>1, SumOfZeros
<1>6. \A s \in S : HeldBy(b.slots[s], i, m.feeBps, k) <= SumFunction(f)
  BY <1>1, <1>4
<1>. QED
  BY <1>3, <1>5, <1>6 DEF Backing, f, S

LEMMA BackingChanges ==
    ASSUME NEW m, MarketRules(m), NEW b, GoodBook(m, b), NEW c, GoodBook(m, c),
           NEW slot \in DOMAIN b.slots, NEW x, Changed(b, c, slot, x), NEW i, NEW k \in Kinds
    PROVE  Backing(c, i, k) = Backing(b, i, k)
             + (HeldBy(x, i, m.feeBps, k) - HeldBy(b.slots[slot], i, m.feeBps, k))
<1>. DEFINE f == HeldIn(b, i, k)
            g == HeldIn(c, i, k)
            S == DOMAIN b.slots
<1>1. /\ IsFiniteSet(S) /\ f \in [S -> Nat]
      /\ \A s \in S : f[s] = HeldBy(b.slots[s], i, m.feeBps, k)
  BY HeldInIs
<1>2. DOMAIN c.slots = S /\ c.slots[slot] = x /\ \A s \in S \ {slot} : c.slots[s] = b.slots[s]
  BY DEF Changed
<1>3. /\ g \in [S -> Nat] /\ \A s \in S : g[s] = HeldBy(c.slots[s], i, m.feeBps, k)
  BY <1>2, HeldInIs
<1>. HIDE DEF f, g
<1>4. f \in [S -> Int] /\ g \in [S -> Int] /\ slot \in S /\ \A s \in S \ {slot} : g[s] = f[s]
  BY <1>1, <1>2, <1>3
<1>5. SumFunction(g) = SumFunction(f) + (g[slot] - f[slot])
  <2>. HIDE DEF S
  <2>. QED
    BY <1>1, <1>4, SumOneChanges
<1>. QED
  BY <1>1, <1>2, <1>3, <1>5 DEF Backing, f, g

----------------------------------------------------------------------------
\* The seats, and what they hold in all.
Holds(s) == s.available + s.reserved.cash

LEMMA RowTotals ==
    ASSUME NEW W, NEW sts \in Seq(SeatRows(W))
    PROVE  /\ IsFiniteSet(DOMAIN sts)
           /\ \A i \in DOMAIN sts : /\ sts[i] \in SeatRows(W) /\ Holds(sts[i]) \in Int
                                    /\ sts[i].yes \in Int /\ sts[i].no \in Int
           /\ Cash(sts) \in Int /\ Shares(sts, "yes") \in Int /\ Shares(sts, "no") \in Int
<1>1. DOMAIN sts = 1 .. Len(sts) /\ Len(sts) \in Nat
  OBVIOUS
<1>2. IsFiniteSet(DOMAIN sts)
  BY <1>1, FS_Interval
<1>3. ASSUME NEW i \in DOMAIN sts
      PROVE  /\ sts[i] \in SeatRows(W) /\ Holds(sts[i]) \in Int
             /\ sts[i].yes \in Int /\ sts[i].no \in Int
  <2>1. sts[i] \in SeatRows(W)
    BY <1>1
  <2>. QED
    BY <2>1 DEF SeatRows, Kinds, Holds
<1>4. [i \in DOMAIN sts |-> sts[i].available + sts[i].reserved.cash] \in [DOMAIN sts -> Int]
  BY <1>3 DEF Holds
<1>5. [i \in DOMAIN sts |-> sts[i].yes] \in [DOMAIN sts -> Int]
  BY <1>3
<1>6. [i \in DOMAIN sts |-> sts[i].no] \in [DOMAIN sts -> Int]
  BY <1>3
<1>7. Cash(sts) \in Int
  BY <1>2, <1>4, SumIsInt DEF Cash
<1>8. Shares(sts, "yes") \in Int
  BY <1>2, <1>5, SumIsInt DEF Shares
<1>9. Shares(sts, "no") \in Int
  BY <1>2, <1>6, SumIsInt DEF Shares
<1>. QED
  BY <1>2, <1>3, <1>7, <1>8, <1>9

\* One seat changes.
RowTo(W, sts, i, t, after) ==
    /\ after \in Seq(SeatRows(W)) /\ Len(after) = Len(sts) /\ DOMAIN after = DOMAIN sts
    /\ after[i] = t /\ \A j \in DOMAIN sts : j # i => after[j] = sts[j]
    /\ Cash(after) = Cash(sts) + (Holds(t) - Holds(sts[i]))
    /\ Shares(after, "yes") = Shares(sts, "yes") + (t.yes - sts[i].yes)
    /\ Shares(after, "no") = Shares(sts, "no") + (t.no - sts[i].no)

LEMMA RowChanges ==
    ASSUME NEW W, NEW sts \in Seq(SeatRows(W)), NEW i \in DOMAIN sts, NEW t \in SeatRows(W)
    PROVE  RowTo(W, sts, i, t, [sts EXCEPT ![i] = t])
<1>. DEFINE after == [sts EXCEPT ![i] = t]
            S == DOMAIN sts
<1>1. /\ after \in Seq(SeatRows(W)) /\ Len(after) = Len(sts) /\ DOMAIN after = S
      /\ after[i] = t /\ \A j \in S : j # i => after[j] = sts[j]
  BY ExceptSeq
<1>2. /\ IsFiniteSet(S)
      /\ \A j \in S : Holds(sts[j]) \in Int /\ sts[j].yes \in Int /\ sts[j].no \in Int
  BY RowTotals
<1>. HIDE DEF after
<1>3. \A j \in S : Holds(after[j]) \in Int /\ after[j].yes \in Int /\ after[j].no \in Int
  BY <1>1, RowTotals
<1>. DEFINE cash(q) == [j \in S |-> q[j].available + q[j].reserved.cash]
            yes(q) == [j \in S |-> q[j].yes]
            no(q) == [j \in S |-> q[j].no]
<1>4. /\ cash(sts) \in [S -> Int] /\ cash(after) \in [S -> Int]
      /\ \A j \in S \ {i} : cash(after)[j] = cash(sts)[j]
      /\ cash(after)[i] = Holds(t) /\ cash(sts)[i] = Holds(sts[i])
  BY <1>1, <1>2, <1>3 DEF Holds
<1>5. /\ yes(sts) \in [S -> Int] /\ yes(after) \in [S -> Int]
      /\ \A j \in S \ {i} : yes(after)[j] = yes(sts)[j]
      /\ yes(after)[i] = t.yes /\ yes(sts)[i] = sts[i].yes
  BY <1>1, <1>2, <1>3
<1>6. /\ no(sts) \in [S -> Int] /\ no(after) \in [S -> Int]
      /\ \A j \in S \ {i} : no(after)[j] = no(sts)[j]
      /\ no(after)[i] = t.no /\ no(sts)[i] = sts[i].no
  BY <1>1, <1>2, <1>3
<1>7. /\ Cash(sts) = SumFunction(cash(sts)) /\ Cash(after) = SumFunction(cash(after))
      /\ Shares(sts, "yes") = SumFunction(yes(sts)) /\ Shares(after, "yes") = SumFunction(yes(after))
      /\ Shares(sts, "no") = SumFunction(no(sts)) /\ Shares(after, "no") = SumFunction(no(after))
  BY <1>1 DEF Cash, Shares
<1>. HIDE DEF cash, yes, no
<1>8. SumFunction(cash(after)) = SumFunction(cash(sts)) + (cash(after)[i] - cash(sts)[i])
  BY <1>2, <1>4, SumOneChanges
<1>9. SumFunction(yes(after)) = SumFunction(yes(sts)) + (yes(after)[i] - yes(sts)[i])
  BY <1>2, <1>5, SumOneChanges
<1>10. SumFunction(no(after)) = SumFunction(no(sts)) + (no(after)[i] - no(sts)[i])
  BY <1>2, <1>6, SumOneChanges
<1>. QED
  BY <1>1, <1>4, <1>5, <1>6, <1>7, <1>8, <1>9, <1>10 DEF RowTo, after

\* What is reserved in every seat is reserved by an order: one of the book, or the
\* one that is being executed.
Backed(m, b, taker, sts) ==
    /\ \A i \in DOMAIN sts, k \in Kinds :
         sts[i].reserved[k] = Backing(b, i, k) + HeldBy(taker, i, m.feeBps, k)
    /\ \A i \in DOMAIN sts : Sound(sts[i])
    /\ \A s \in Resting(b) : b.slots[s].owner \in DOMAIN sts

\* The reserve of an order is part of what its owner's seat has reserved.
LEMMA SeatCovers ==
    ASSUME NEW m, MarketRules(m), NEW b, GoodBook(m, b), NEW W, NEW sts \in Seq(SeatRows(W)),
           NEW taker \in OrderRows(m.payout) \union {Vacant}, Backed(m, b, taker, sts)
    PROVE  /\ \A s \in Resting(b) : Covers(m, sts[b.slots[s].owner], b.slots[s])
           /\ taker # Vacant /\ taker.owner \in DOMAIN sts => Covers(m, sts[taker.owner], taker)
<1>1. ASSUME NEW i, NEW k \in Kinds
      PROVE  /\ Backing(b, i, k) \in Nat /\ HeldBy(taker, i, m.feeBps, k) \in Nat
             /\ \A s \in DOMAIN b.slots : HeldBy(b.slots[s], i, m.feeBps, k) <= Backing(b, i, k)
                                          /\ HeldBy(b.slots[s], i, m.feeBps, k) \in Nat
  <2>1. HeldBy(taker, i, m.feeBps, k) \in Nat
    BY HeldByNat
  <2>2. \A s \in DOMAIN b.slots : HeldBy(b.slots[s], i, m.feeBps, k) \in Nat
    BY BookFields, HeldByNat
  <2>3. /\ Backing(b, i, k) \in Nat
        /\ \A s \in DOMAIN b.slots : HeldBy(b.slots[s], i, m.feeBps, k) <= Backing(b, i, k)
    BY BackingIs
  <2>. QED
    BY <2>1, <2>2, <2>3
<1>2. ASSUME NEW s \in Resting(b), NEW k \in Kinds
      PROVE  Reserve(b.slots[s], m.feeBps)[k] <= sts[b.slots[s].owner].reserved[k]
  <2>. DEFINE i == b.slots[s].owner
  <2>1. s \in DOMAIN b.slots /\ b.slots[s] # Vacant /\ i \in DOMAIN sts
    BY DEF Resting, Backed
  <2>2. HeldBy(b.slots[s], i, m.feeBps, k) = Reserve(b.slots[s], m.feeBps)[k]
    BY <2>1 DEF HeldBy
  <2>3. sts[i].reserved[k] = Backing(b, i, k) + HeldBy(taker, i, m.feeBps, k)
    BY <2>1 DEF Backed
  <2>. HIDE DEF i
  <2>4. Reserve(b.slots[s], m.feeBps)[k] <= sts[i].reserved[k]
    BY <1>1, <2>1, <2>2, <2>3
  <2>. QED
    BY <2>4 DEF i
<1>3. ASSUME taker # Vacant, taker.owner \in DOMAIN sts, NEW k \in Kinds
      PROVE  Reserve(taker, m.feeBps)[k] <= sts[taker.owner].reserved[k]
  <2>1. HeldBy(taker, taker.owner, m.feeBps, k) = Reserve(taker, m.feeBps)[k]
    BY <1>3 DEF HeldBy
  <2>2. sts[taker.owner].reserved[k]
          = Backing(b, taker.owner, k) + HeldBy(taker, taker.owner, m.feeBps, k)
    BY <1>3 DEF Backed
  <2>3. Backing(b, taker.owner, k) \in Nat /\ HeldBy(taker, taker.owner, m.feeBps, k) \in Nat
    BY <1>1
  <2>. QED
    BY <2>1, <2>2, <2>3
<1>. QED
  BY <1>2, <1>3 DEF Covers

\* An order that held part of a seat's reserve is replaced in it by what it is
\* afterwards: unlocked when nothing is left of it.
UnlockedTo(m, W, s, o, t) ==
    /\ t \in SeatRows(W) /\ Sound(t) /\ t.wallet = s.wallet /\ Holds(t) = Holds(s)
    /\ t.yes = s.yes /\ t.no = s.no
    /\ \A k \in Kinds : t.reserved[k] = s.reserved[k] - Reserve(o, m.feeBps)[k]

LEMMA Unlocks ==
    ASSUME NEW m, MarketRules(m), NEW W, NEW s \in SeatRows(W), Sound(s),
           NEW o \in OrderRows(m.payout), Covers(m, s, o)
    PROVE  UnlockedTo(m, W, s, o, Unlock(s, Reserve(o, m.feeBps)))
<1>. DEFINE r == Reserve(o, m.feeBps)
            t == Unlock(s, r)
<1>1. m.payout \in Nat
  BY DEF MarketRules
<1>2. m.feeBps \in 0 .. FeeBasis
  BY DEF MarketRules
<1>3. r \in [Kinds -> Nat]
  BY <1>1, <1>2, ReserveIs
<1>4. \A k \in Kinds : r[k] <= s.reserved[k]
  BY DEF Covers
<1>. HIDE DEF r
<1>5. r \in [Kinds -> Int]
  BY <1>3
<1>6. /\ t \in SeatRows(W)
      /\ SeatWith(s, t, s.available + r.cash, Minused(s.reserved, r), s.yes, s.no)
  BY <1>5, UnlockIs
<1>. HIDE DEF t
<1>7. /\ s.available \in Int /\ s.yes \in Int /\ s.no \in Int /\ s.reserved \in [Kinds -> Int]
  BY DEF SeatRows
<1>8. /\ t.available = s.available + r.cash /\ t.yes = s.yes /\ t.no = s.no /\ t.wallet = s.wallet
      /\ \A k \in Kinds : t.reserved[k] = s.reserved[k] - r[k]
  BY <1>6 DEF SeatWith, Minused
<1>9. /\ s.available >= 0 /\ \A k \in Kinds : s.reserved[k] >= 0
      /\ s.yes >= s.reserved["yes"] /\ s.no >= s.reserved["no"]
  BY SoundIs
<1>10. "cash" \in Kinds /\ "yes" \in Kinds /\ "no" \in Kinds
  BY DEF Kinds
<1>11. /\ t.available >= 0 /\ t.yes >= t.reserved["yes"] /\ t.no >= t.reserved["no"]
  BY <1>3, <1>7, <1>8, <1>9, <1>10
<1>12. \A k \in Kinds : t.reserved[k] >= 0
  BY <1>3, <1>4, <1>7, <1>8
<1>13. Sound(t)
  BY <1>6, <1>11, <1>12, SoundIs
<1>14. Holds(t) = Holds(s)
  BY <1>3, <1>7, <1>8, <1>10 DEF Holds
<1>. QED
  BY <1>6, <1>8, <1>13, <1>14 DEF UnlockedTo, t, r

\* What one seat has reserved follows what one slot of the book holds.
SeatFollows(m, b, slot, x, sts, after) ==
    LET i == b.slots[slot].owner
    IN /\ DOMAIN after = DOMAIN sts /\ Sound(after[i])
       /\ \A j \in DOMAIN sts : j # i => after[j] = sts[j]
       /\ \A k \in Kinds : after[i].reserved[k] = sts[i].reserved[k]
            - Reserve(b.slots[slot], m.feeBps)[k] + HeldBy(x, i, m.feeBps, k)

LEMMA BackedAfter ==
    ASSUME NEW m, MarketRules(m), NEW b, GoodBook(m, b), NEW c, GoodBook(m, c),
           NEW slot \in Resting(b), NEW x \in OrderRows(m.payout) \union {Vacant},
           Changed(b, c, slot, x),
           x # Vacant => x.owner = b.slots[slot].owner,
           NEW W, NEW sts \in Seq(SeatRows(W)), NEW after \in Seq(SeatRows(W)),
           NEW taker \in OrderRows(m.payout) \union {Vacant}, Backed(m, b, taker, sts),
           SeatFollows(m, b, slot, x, sts, after)
    PROVE  Backed(m, c, taker, after)
<1>. DEFINE i == b.slots[slot].owner
            o == b.slots[slot]
<1>1. o # Vacant /\ i \in DOMAIN sts /\ slot \in DOMAIN b.slots /\ o \in OrderRows(m.payout)
  BY BookOrders DEF Resting, Backed
<1>2. /\ DOMAIN after = DOMAIN sts /\ Sound(after[i])
      /\ \A j \in DOMAIN sts : j # i => after[j] = sts[j]
      /\ \A k \in Kinds : after[i].reserved[k] = sts[i].reserved[k]
           - Reserve(o, m.feeBps)[k] + HeldBy(x, i, m.feeBps, k)
  BY DEF SeatFollows
<1>3. ASSUME NEW j \in DOMAIN after, NEW k \in Kinds
      PROVE  after[j].reserved[k] = Backing(c, j, k) + HeldBy(taker, j, m.feeBps, k)
  <2>1. Backing(c, j, k) = Backing(b, j, k)
          + (HeldBy(x, j, m.feeBps, k) - HeldBy(o, j, m.feeBps, k))
    BY <1>1, BackingChanges
  <2>2. sts[j].reserved[k] = Backing(b, j, k) + HeldBy(taker, j, m.feeBps, k)
    BY <1>2 DEF Backed
  <2>3. /\ Backing(b, j, k) \in Nat /\ HeldBy(taker, j, m.feeBps, k) \in Nat
        /\ HeldBy(x, j, m.feeBps, k) \in Nat /\ HeldBy(o, j, m.feeBps, k) \in Nat
    BY <1>1, BackingIs, HeldByNat
  <2>4. CASE j = i
    <3>1. HeldBy(o, j, m.feeBps, k) = Reserve(o, m.feeBps)[k]
      BY <1>1, <2>4 DEF HeldBy
    <3>2. after[j].reserved[k] = sts[j].reserved[k] - Reserve(o, m.feeBps)[k]
                                   + HeldBy(x, j, m.feeBps, k)
      BY <1>2, <2>4
    <3>. HIDE DEF o, i
    <3>. QED
      BY <2>1, <2>2, <2>3, <3>1, <3>2
  <2>5. CASE j # i
    <3>1. HeldBy(o, j, m.feeBps, k) = 0 /\ HeldBy(x, j, m.feeBps, k) = 0
      BY <2>5 DEF HeldBy
    <3>2. after[j] = sts[j]
      BY <1>2, <2>5
    <3>. HIDE DEF o, i
    <3>. QED
      BY <2>1, <2>2, <2>3, <3>1, <3>2
  <2>. QED
    BY <2>4, <2>5
<1>4. \A j \in DOMAIN after : Sound(after[j])
  BY <1>2 DEF Backed
<1>5. \A s \in Resting(c) : c.slots[s].owner \in DOMAIN after
  <2>1. ChangedAt(b, c, slot, x)
    BY <1>1, ChangedRests
  <2>2. ASSUME NEW s \in Resting(c)
        PROVE  c.slots[s].owner \in DOMAIN after
    <3>1. CASE s = slot
      <4>1. c.slots[s] = x /\ x # Vacant
        BY <2>1, <3>1 DEF ChangedAt, Resting
      <4>. QED
        BY <1>1, <1>2, <4>1
    <3>2. CASE s # slot
      <4>1. c.slots[s] = b.slots[s] /\ s \in Resting(b)
        BY <2>1, <3>2 DEF ChangedAt, Resting
      <4>. QED
        BY <1>2, <4>1 DEF Backed
    <3>. QED
      BY <3>1, <3>2
  <2>. QED
    BY <2>2
<1>. QED
  BY <1>3, <1>4, <1>5 DEF Backed

----------------------------------------------------------------------------
\* The staged accounts, while the book is b and the taker has this much left.
MarketRows == [accounted : Int, collateral : Int, revenue : Int]

Staging(m, W, b, taker, acc) ==
    /\ acc = [seats |-> acc.seats, market |-> acc.market, reserve |-> acc.reserve,
              sound |-> acc.sound]
    /\ acc.sound = TRUE /\ acc.reserve = Reserve(taker, m.feeBps)
    /\ acc.seats \in Seq(SeatRows(W)) /\ Len(acc.seats) = Len(seats)
    /\ acc.market \in MarketRows /\ acc.market.accounted = market.accounted
    /\ Backed(m, b, taker, acc.seats) /\ taker.owner \in DOMAIN acc.seats
    /\ Balanced(acc.market, acc.seats)

LEMMA RemovalStages ==
    ASSUME NEW m, MarketRules(m), OnBook(m), NEW W, NEW b, GoodBook(m, b), NEW c, GoodBook(m, c),
           NEW slot \in Resting(b), Changed(b, c, slot, Vacant), NEW taker \in OrderRows(m.payout),
           NEW acc, Staging(m, W, b, taker, acc)
    PROVE  Staging(m, W, c, taker, Stage(acc, [kind |-> "Removed", order |-> b.slots[slot]]))
<1>. DEFINE o == b.slots[slot]
            i == o.owner
            s == acc.seats[i]
            t == Unlock(s, Reserve(o, m.feeBps))
            after == [acc.seats EXCEPT ![i] = t]
            r == Stage(acc, [kind |-> "Removed", order |-> o])
<1>1. /\ acc = [seats |-> acc.seats, market |-> acc.market, reserve |-> acc.reserve,
                sound |-> acc.sound]
      /\ acc.sound = TRUE /\ acc.reserve = Reserve(taker, m.feeBps)
      /\ acc.seats \in Seq(SeatRows(W)) /\ Len(acc.seats) = Len(seats)
      /\ acc.market \in MarketRows /\ acc.market.accounted = market.accounted
      /\ Backed(m, b, taker, acc.seats) /\ taker.owner \in DOMAIN acc.seats
      /\ Balanced(acc.market, acc.seats)
  BY DEF Staging
<1>2. o \in OrderRows(m.payout)
  BY BookOrders
<1>3. i \in DOMAIN acc.seats
  BY <1>1 DEF Backed
<1>4. s \in SeatRows(W) /\ Sound(s)
  BY <1>1, <1>3 DEF Backed
<1>5. Covers(m, s, o)
  BY <1>1, SeatCovers
<1>6. /\ t \in SeatRows(W) /\ Sound(t) /\ Holds(t) = Holds(s) /\ t.yes = s.yes /\ t.no = s.no
      /\ \A k \in Kinds : t.reserved[k] = s.reserved[k] - Reserve(o, m.feeBps)[k]
  <2>1. UnlockedTo(m, W, s, o, t)
    BY <1>2, <1>4, <1>5, Unlocks
  <2>. QED
    BY <2>1, Zenon DEF UnlockedTo
<1>7. r = [acc EXCEPT !.seats = after, !.sound = acc.sound /\ Sound(t)]
  BY DEF Stage, StageRemoval, Staged, OnBook
<1>8. /\ r.seats = after /\ r.market = acc.market /\ r.reserve = acc.reserve
      /\ r = [seats |-> r.seats, market |-> r.market, reserve |-> r.reserve, sound |-> r.sound]
      /\ r.sound = TRUE
  <2>. HIDE DEF after, t
  <2>. QED
    BY <1>1, <1>6, <1>7
<1>. HIDE DEF t, r
<1>9. RowTo(W, acc.seats, i, t, after)
  BY <1>1, <1>3, <1>6, RowChanges
<1>. HIDE DEF after
<1>10. /\ after \in Seq(SeatRows(W)) /\ Len(after) = Len(acc.seats) /\ DOMAIN after = DOMAIN acc.seats
       /\ after[i] = t /\ \A j \in DOMAIN acc.seats : j # i => after[j] = acc.seats[j]
       /\ Cash(after) = Cash(acc.seats) + (Holds(t) - Holds(s))
       /\ Shares(after, "yes") = Shares(acc.seats, "yes") + (t.yes - s.yes)
       /\ Shares(after, "no") = Shares(acc.seats, "no") + (t.no - s.no)
  BY <1>9 DEF RowTo
<1>11. Backed(m, c, taker, after)
  <2>1. \A k \in Kinds : HeldBy(Vacant, i, m.feeBps, k) = 0
    BY DEF HeldBy
  <2>2. \A k \in Kinds : /\ s.reserved[k] \in Int /\ Reserve(o, m.feeBps)[k] \in Int
    <3>1. m.payout \in Nat
      BY DEF MarketRules
    <3>2. m.feeBps \in 0 .. FeeBasis
      BY DEF MarketRules
    <3>3. Reserve(o, m.feeBps) \in [Kinds -> Nat]
      BY <1>2, <3>1, <3>2, ReserveIs
    <3>. QED
      BY <1>4, <3>3 DEF SeatRows
  <2>3. \A k \in Kinds : after[i].reserved[k] = s.reserved[k] - Reserve(o, m.feeBps)[k]
                                                  + HeldBy(Vacant, i, m.feeBps, k)
    <3>. HIDE DEF o, i, s
    <3>. QED
      BY <1>6, <1>10, <2>1, <2>2
  <2>4. Sound(after[i])
    BY <1>6, <1>10, Zenon
  <2>5. SeatFollows(m, b, slot, Vacant, acc.seats, after)
    BY <1>10, <2>3, <2>4, Zenon DEF SeatFollows
  <2>. QED
    BY <1>1, <1>10, <2>5, BackedAfter
<1>12. Balanced(acc.market, after)
  <2>1. Cash(after) = Cash(acc.seats) /\ Shares(after, "yes") = Shares(acc.seats, "yes")
        /\ Shares(after, "no") = Shares(acc.seats, "no")
    <3>1. /\ Cash(acc.seats) \in Int /\ Shares(acc.seats, "yes") \in Int /\ Shares(acc.seats, "no") \in Int
          /\ Holds(s) \in Int /\ s.yes \in Int /\ s.no \in Int
      BY <1>1, <1>3, RowTotals
    <3>. HIDE DEF s
    <3>. QED
      BY <1>6, <1>10, <3>1
  <2>. QED
    BY <1>1, <2>1 DEF Balanced
<1>13. Staging(m, W, c, taker, r)
  BY <1>1, <1>8, <1>10, <1>11, <1>12 DEF Staging
<1>. QED
  BY <1>13 DEF r

\* A filled order that nothing remains of reserves nothing.
LEMMA ReserveNothing ==
    ASSUME NEW m, MarketRules(m), NEW o \in OrderRows(m.payout), o.remaining = 0, NEW k \in Kinds
    PROVE  Reserve(o, m.feeBps)[k] = 0
<1>1. m.payout \in Nat
  BY DEF MarketRules
<1>2. m.feeBps \in 0 .. FeeBasis
  BY DEF MarketRules
<1>3. o.price \in Nat /\ o.notional \in Nat
  BY <1>1, OrderFields
<1>4. o.price * o.remaining = 0
  BY <1>3
<1>5. FeeDelta(o.notional, 0, m.feeBps) = 0
  <2>1. o.notional + 0 = o.notional
    BY <1>3
  <2>2. CumulativeFee(o.notional, m.feeBps) \in Nat
    BY <1>2, <1>3, FeeOfMore
  <2>. QED
    BY <2>1, <2>2 DEF FeeDelta
<1>6. /\ Reserve(o, m.feeBps).cash = IF o.action = "BUY"
           THEN o.price * o.remaining + FeeDelta(o.notional, o.price * o.remaining, m.feeBps) ELSE 0
      /\ Reserve(o, m.feeBps).yes = IF o.action = "SELL" /\ o.outcome = "YES" THEN o.remaining ELSE 0
      /\ Reserve(o, m.feeBps).no = IF o.action = "SELL" /\ o.outcome = "NO" THEN o.remaining ELSE 0
  BY <1>1, <1>2, ReserveIs
<1>7. /\ Reserve(o, m.feeBps).cash = 0 /\ Reserve(o, m.feeBps).yes = 0
      /\ Reserve(o, m.feeBps).no = 0
  BY <1>4, <1>5, <1>6
<1>. QED
  BY <1>7 DEF Kinds

\* One side of a fill, on the staged accounts.
SideTo(m, W, acc, o, price, q, r) ==
    /\ r = [seats |-> r.seats, market |-> acc.market, reserve |-> acc.reserve, sound |-> TRUE]
    /\ r.seats \in Seq(SeatRows(W)) /\ Len(r.seats) = Len(acc.seats)
    /\ DOMAIN r.seats = DOMAIN acc.seats
    /\ \A j \in DOMAIN acc.seats : j # o.owner => r.seats[j] = acc.seats[j]
    /\ Sound(r.seats[o.owner])
    /\ \A k \in Kinds : r.seats[o.owner].reserved[k]
         = acc.seats[o.owner].reserved[k] - Reserve(o, m.feeBps)[k]
             + Reserve(Left(m, o, price, q), m.feeBps)[k]
    /\ Cash(r.seats) = Cash(acc.seats) + Earned(m, o, price, q)
    /\ Shares(r.seats, "yes") = Shares(acc.seats, "yes") + Moved(o, q, "YES")
    /\ Shares(r.seats, "no") = Shares(acc.seats, "no") + Moved(o, q, "NO")

LEMMA SideSettles ==
    ASSUME NEW m, MarketRules(m), OnBook(m), NEW W, NEW acc,
           acc = [seats |-> acc.seats, market |-> acc.market, reserve |-> acc.reserve, sound |-> TRUE],
           acc.seats \in Seq(SeatRows(W)), NEW o, NEW fill, Fillable(m, o, fill.price, fill.quantity),
           o.owner \in DOMAIN acc.seats, Sound(acc.seats[o.owner]),
           Covers(m, acc.seats[o.owner], o)
    PROVE  SideTo(m, W, acc, o, fill.price, fill.quantity, StageSide(acc, o, fill))
<1>. DEFINE i == o.owner
            s == acc.seats[i]
            u == Settle(s, o, fill, Charged(m, o, fill.price, fill.quantity))
            t == u.seat
            after == [acc.seats EXCEPT ![i] = t]
            r == StageSide(acc, o, fill)
            earned == Earned(m, o, fill.price, fill.quantity)
            left == Left(m, o, fill.price, fill.quantity)
<1>1. s \in SeatRows(W) /\ i \in DOMAIN acc.seats /\ Sound(s) /\ acc.sound = TRUE
  BY RowTotals
<1>2. SettledTo(m, W, s, o, fill.price, fill.quantity, u)
  BY <1>1, SettleIs
<1>3. r = [acc EXCEPT !.seats = after, !.sound = acc.sound /\ u.sound]
  BY DEF StageSide, Staged, Fee, OnBook, Charged, Paid
<1>. HIDE DEF u
<1>4. /\ u.sound = TRUE /\ t \in SeatRows(W) /\ Sound(t) /\ Holds(t) = Holds(s) + earned
      /\ t.reserved = Plused(Minused(s.reserved, Reserve(o, m.feeBps)), Reserve(left, m.feeBps))
      /\ t.yes = s.yes + Moved(o, fill.quantity, "YES") /\ t.no = s.no + Moved(o, fill.quantity, "NO")
  BY <1>2 DEF SettledTo, Holds
<1>5. r = [seats |-> after, market |-> acc.market, reserve |-> acc.reserve, sound |-> TRUE]
  <2>. HIDE DEF after, t, r
  <2>. QED
    BY <1>1, <1>3, <1>4
<1>. HIDE DEF t, r, earned, left
<1>6. RowTo(W, acc.seats, i, t, after)
  BY <1>1, <1>4, RowChanges
<1>. HIDE DEF after
<1>7. /\ after \in Seq(SeatRows(W)) /\ Len(after) = Len(acc.seats) /\ DOMAIN after = DOMAIN acc.seats
      /\ after[i] = t /\ \A j \in DOMAIN acc.seats : j # i => after[j] = acc.seats[j]
      /\ Cash(after) = Cash(acc.seats) + (Holds(t) - Holds(s))
      /\ Shares(after, "yes") = Shares(acc.seats, "yes") + (t.yes - s.yes)
      /\ Shares(after, "no") = Shares(acc.seats, "no") + (t.no - s.no)
  BY <1>6 DEF RowTo
<1>8. \A k \in Kinds : after[i].reserved[k] = s.reserved[k] - Reserve(o, m.feeBps)[k]
                                                + Reserve(left, m.feeBps)[k]
  BY <1>4, <1>7 DEF Plused, Minused
<1>9. /\ Cash(acc.seats) \in Int /\ Shares(acc.seats, "yes") \in Int /\ Shares(acc.seats, "no") \in Int
      /\ Holds(s) \in Int /\ s.yes \in Int /\ s.no \in Int
  BY <1>1, RowTotals
<1>10. earned \in Int /\ Moved(o, fill.quantity, "YES") \in Int /\ Moved(o, fill.quantity, "NO") \in Int
  <2>1. Paid(m, o, fill.price, fill.quantity) \in Nat /\ Charged(m, o, fill.price, fill.quantity) \in Nat
    BY FillCosts
  <2>2. fill.quantity \in Nat
    BY DEF Fillable
  <2>. QED
    BY <2>1, <2>2 DEF earned, Earned, Moved, Traded1
<1>11. /\ Cash(after) = Cash(acc.seats) + earned
       /\ Shares(after, "yes") = Shares(acc.seats, "yes") + Moved(o, fill.quantity, "YES")
       /\ Shares(after, "no") = Shares(acc.seats, "no") + Moved(o, fill.quantity, "NO")
  <2>. HIDE DEF s
  <2>. QED
    BY <1>4, <1>7, <1>9, <1>10
<1>12. r.seats = after
  BY <1>5
<1>. QED
  BY <1>4, <1>5, <1>7, <1>8, <1>11, <1>12 DEF SideTo, r, earned, left

\* What both sides of a fill pay, the fees and the collateral they move make up for
\* each other, and a payout is kept for every pair of shares.
FillMoves(m, maker, taker, price, q, pairs, collateral) ==
    /\ Earned(m, maker, price, q) + Earned(m, taker, price, q) + collateral
         + (Charged(m, maker, price, q) + Charged(m, taker, price, q)) = 0
    /\ Moved(maker, q, "YES") + Moved(taker, q, "YES") = pairs
    /\ Moved(maker, q, "NO") + Moved(taker, q, "NO") = pairs
    /\ collateral = m.payout * pairs /\ pairs \in Int /\ collateral \in Int

LEMMA FillBalances ==
    ASSUME NEW m, MarketRules(m), OnBook(m), NEW maker, NEW taker, NEW price, NEW q,
           Fillable(m, maker, price, q), Fillable(m, taker, price, q),
           Side(maker) = Opposite(Side(taker))
    PROVE  \E pairs \in {0, q, -q} :
             FillMoves(m, maker, taker, price, q, pairs, Collateral(maker, taker, q))
<1>. DEFINE fees == Charged(m, maker, price, q) + Charged(m, taker, price, q)
            A == Paid(m, maker, price, q)
            B == Paid(m, taker, price, q)
            C == Charged(m, maker, price, q)
            D == Charged(m, taker, price, q)
            col == Collateral(maker, taker, q)
<1>1. /\ maker.action \in {"BUY", "SELL"} /\ maker.outcome \in {"YES", "NO"}
      /\ taker.action \in {"BUY", "SELL"} /\ taker.outcome \in {"YES", "NO"}
  BY DEF Fillable, OrderRows
<1>2. (maker.action = taker.action) <=> (maker.outcome # taker.outcome)
  BY <1>1 DEF Side, Opposite
<1>3. A \in Nat /\ B \in Nat /\ C \in Nat /\ D \in Nat
  BY FillCosts
<1>4. q \in Nat /\ price \in 1 .. m.payout - 1
  BY DEF Fillable
<1>5. m.payout \in Nat
  BY DEF MarketRules
<1>6. A = q * (IF maker.outcome = "YES" THEN price ELSE m.payout - price)
      /\ B = q * (IF taker.outcome = "YES" THEN price ELSE m.payout - price)
  BY DEF Paid, Principal
<1>7. Earned(m, maker, price, q) = IF maker.action = "BUY" THEN -A - C ELSE A - C
  BY DEF Earned
<1>8. Earned(m, taker, price, q) = IF taker.action = "BUY" THEN -B - D ELSE B - D
  BY DEF Earned
<1>9. col = IF maker.action # taker.action THEN 0
            ELSE q * (IF maker.action = "BUY" THEN m.payout ELSE -m.payout)
  BY DEF Collateral, OnBook
<1>10. q * m.payout \in Nat /\ q * (-m.payout) = -(q * m.payout) /\ m.payout * q = q * m.payout
       /\ m.payout * 0 = 0 /\ m.payout * (-q) = -(q * m.payout) /\ -q \in Int
  BY <1>4, <1>5
<1>11. q * price + q * (m.payout - price) = q * m.payout
       /\ q * (m.payout - price) + q * price = q * m.payout
  BY <1>4, <1>5
<1>. HIDE DEF A, B, C, D, col
<1>12. CASE maker.action # taker.action
  <2>1. A = B /\ col = 0
    BY <1>1, <1>2, <1>6, <1>9, <1>12
  <2>2. Earned(m, maker, price, q) + Earned(m, taker, price, q) + col + (C + D) = 0
    BY <1>1, <1>3, <1>7, <1>8, <1>12, <2>1
  <2>3. Moved(maker, q, "YES") + Moved(taker, q, "YES") = 0
        /\ Moved(maker, q, "NO") + Moved(taker, q, "NO") = 0
    BY <1>1, <1>2, <1>4, <1>12 DEF Moved, Traded1
  <2>4. FillMoves(m, maker, taker, price, q, 0, col)
    BY <1>10, <2>1, <2>2, <2>3 DEF FillMoves, C, D
  <2>. QED
    BY <2>4 DEF col
<1>13. CASE maker.action = "BUY" /\ taker.action = "BUY"
  <2>1. A + B = q * m.payout /\ col = q * m.payout
    BY <1>1, <1>2, <1>6, <1>9, <1>11, <1>13
  <2>2. Earned(m, maker, price, q) + Earned(m, taker, price, q) + col + (C + D) = 0
    BY <1>3, <1>7, <1>8, <1>10, <1>13, <2>1
  <2>3. Moved(maker, q, "YES") + Moved(taker, q, "YES") = q
        /\ Moved(maker, q, "NO") + Moved(taker, q, "NO") = q
    BY <1>1, <1>2, <1>4, <1>13 DEF Moved, Traded1
  <2>4. FillMoves(m, maker, taker, price, q, q, col)
    BY <1>4, <1>10, <2>1, <2>2, <2>3 DEF FillMoves, C, D
  <2>. QED
    BY <2>4 DEF col
<1>14. CASE maker.action = "SELL" /\ taker.action = "SELL"
  <2>1. A + B = q * m.payout /\ col = -(q * m.payout)
    BY <1>1, <1>2, <1>6, <1>9, <1>10, <1>11, <1>14
  <2>2. Earned(m, maker, price, q) + Earned(m, taker, price, q) + col + (C + D) = 0
    BY <1>3, <1>7, <1>8, <1>10, <1>14, <2>1
  <2>3. Moved(maker, q, "YES") + Moved(taker, q, "YES") = -q
        /\ Moved(maker, q, "NO") + Moved(taker, q, "NO") = -q
    BY <1>1, <1>2, <1>4, <1>14 DEF Moved, Traded1
  <2>4. FillMoves(m, maker, taker, price, q, -q, col)
    BY <1>4, <1>10, <2>1, <2>2, <2>3 DEF FillMoves, C, D
  <2>. QED
    BY <2>4 DEF col
<1>. QED
  BY <1>1, <1>12, <1>13, <1>14

\* A taker that crosses pays no more than its own price for what it buys, and a
\* maker exactly its own.
LEMMA CrossingIsFillable ==
    ASSUME NEW m, MarketRules(m), NEW taker \in OrderRows(m.payout),
           NEW maker \in OrderRows(m.payout), Side(maker) = Opposite(Side(taker)),
           Crosses(taker, maker, m.payout), NEW q \in Nat \ {0},
           q <= maker.remaining, q <= taker.remaining
    PROVE  /\ Fillable(m, maker, CanonicalPrice(maker, m.payout), q)
           /\ Fillable(m, taker, CanonicalPrice(maker, m.payout), q)
<1>. DEFINE price == CanonicalPrice(maker, m.payout)
<1>1. m.payout \in Nat
  BY DEF MarketRules
<1>2. price \in 1 .. m.payout - 1
  BY <1>1, OrderFields
<1>3. /\ maker.price \in 1 .. m.payout - 1 /\ taker.price \in 1 .. m.payout - 1
      /\ maker.action \in {"BUY", "SELL"} /\ maker.outcome \in {"YES", "NO"}
      /\ taker.action \in {"BUY", "SELL"} /\ taker.outcome \in {"YES", "NO"}
  BY DEF OrderRows
<1>4. price = IF maker.outcome = "YES" THEN maker.price ELSE m.payout - maker.price
  BY DEF CanonicalPrice
<1>5. IF Side(taker) = "Bid" THEN CanonicalPrice(taker, m.payout) >= price
                             ELSE CanonicalPrice(taker, m.payout) <= price
  BY DEF Crosses
<1>. HIDE DEF price
<1>6. (IF maker.outcome = "YES" THEN price ELSE m.payout - price) = maker.price
  BY <1>1, <1>3, <1>4
<1>7. Paid(m, maker, price, q) = q * maker.price
  BY <1>6 DEF Paid, Principal
<1>8. ASSUME taker.action = "BUY"
      PROVE  Paid(m, taker, price, q) <= q * taker.price
  <2>. DEFINE own == IF taker.outcome = "YES" THEN price ELSE m.payout - price
  <2>1. own \in Nat /\ own <= taker.price
    <3>1. CASE taker.outcome = "YES"
      <4>1. Side(taker) = "Bid"
        BY <1>8, <3>1 DEF Side
      <4>. QED
        BY <1>2, <1>3, <1>5, <3>1, <4>1 DEF CanonicalPrice
    <3>2. CASE taker.outcome = "NO"
      <4>1. Side(taker) # "Bid"
        BY <1>8, <3>2 DEF Side
      <4>. QED
        BY <1>1, <1>2, <1>3, <1>5, <3>2, <4>1 DEF CanonicalPrice
    <3>. QED
      BY <1>3, <3>1, <3>2
  <2>2. Paid(m, taker, price, q) = q * own
    BY DEF Paid, Principal
  <2>. HIDE DEF own
  <2>3. taker.price \in Nat /\ q \in Nat
    BY <1>3
  <2>. QED
    BY <2>1, <2>2, <2>3
<1>9. q * maker.price \in Nat
  BY <1>3
<1>. QED
  BY <1>2, <1>7, <1>8, <1>9 DEF Fillable, price

\* The seat of the taker follows what is left of the taker.
LEMMA TakerAfter ==
    ASSUME NEW m, MarketRules(m), NEW b, GoodBook(m, b), NEW W, NEW sts \in Seq(SeatRows(W)),
           NEW after \in Seq(SeatRows(W)), NEW taker \in OrderRows(m.payout),
           NEW left \in OrderRows(m.payout), left.owner = taker.owner,
           taker.owner \in DOMAIN sts, Backed(m, b, taker, sts),
           DOMAIN after = DOMAIN sts, Sound(after[taker.owner]),
           \A j \in DOMAIN sts : j # taker.owner => after[j] = sts[j],
           \A k \in Kinds : after[taker.owner].reserved[k] = sts[taker.owner].reserved[k]
                              - Reserve(taker, m.feeBps)[k] + Reserve(left, m.feeBps)[k]
    PROVE  Backed(m, b, left, after)
<1>1. taker # Vacant /\ left # Vacant
  <2>1. m.payout \in Nat
    BY DEF MarketRules
  <2>. QED
    BY <2>1, OrderFields
<1>2. ASSUME NEW j \in DOMAIN after, NEW k \in Kinds
      PROVE  after[j].reserved[k] = Backing(b, j, k) + HeldBy(left, j, m.feeBps, k)
  <2>1. sts[j].reserved[k] = Backing(b, j, k) + HeldBy(taker, j, m.feeBps, k)
    BY DEF Backed
  <2>2. /\ Backing(b, j, k) \in Nat /\ HeldBy(taker, j, m.feeBps, k) \in Nat
        /\ HeldBy(left, j, m.feeBps, k) \in Nat
    BY BackingIs, HeldByNat
  <2>3. CASE j = taker.owner
    <3>1. /\ HeldBy(taker, j, m.feeBps, k) = Reserve(taker, m.feeBps)[k]
          /\ HeldBy(left, j, m.feeBps, k) = Reserve(left, m.feeBps)[k]
      BY <1>1, <2>3 DEF HeldBy
    <3>2. after[j].reserved[k] = sts[j].reserved[k] - Reserve(taker, m.feeBps)[k]
                                   + Reserve(left, m.feeBps)[k]
      BY <2>3
    <3>. QED
      BY <2>1, <2>2, <3>1, <3>2
  <2>4. CASE j # taker.owner
    <3>1. HeldBy(taker, j, m.feeBps, k) = 0 /\ HeldBy(left, j, m.feeBps, k) = 0
      BY <2>4 DEF HeldBy
    <3>2. after[j] = sts[j]
      BY <2>4
    <3>. QED
      BY <2>1, <2>2, <3>1, <3>2
  <2>. QED
    BY <2>3, <2>4
<1>. QED
  BY <1>2 DEF Backed

\* A fill on the staged accounts: both sides settle, the market's totals follow,
\* and the book keeps what is left of the maker.
LEMMA TotalsFollow ==
    ASSUME NEW t, t = [seats |-> t.seats, market |-> t.market, reserve |-> t.reserve, sound |-> t.sound],
           NEW a, NEW v, NEW r, r = [t EXCEPT !.reserve = a, !.market = v]
    PROVE  /\ r.seats = t.seats /\ r.reserve = a /\ r.sound = t.sound /\ r.market = v
           /\ r = [seats |-> r.seats, market |-> r.market, reserve |-> r.reserve, sound |-> r.sound]
OBVIOUS

LEMMA TotaledIs ==
    ASSUME NEW n \in MarketRows, NEW x \in Int, NEW y \in Int
    PROVE  /\ Totaled(n, x, y) \in MarketRows
           /\ Totaled(n, x, y).accounted = n.accounted
           /\ Totaled(n, x, y).collateral = n.collateral + x
           /\ Totaled(n, x, y).revenue = n.revenue + y
<1>. DEFINE a == n.accounted
            c == n.collateral
            v == n.revenue
            t == Totaled(n, x, y)
<1>1. n = [accounted |-> a, collateral |-> c, revenue |-> v] /\ a \in Int /\ c \in Int /\ v \in Int
  BY DEF MarketRows
<1>2. t = [accounted |-> a, collateral |-> c + x, revenue |-> v + y]
  <2>. DEFINE u == [n EXCEPT !.collateral = c + x]
  <2>1. t = [u EXCEPT !.revenue = v + y]
    BY DEF Totaled
  <2>. HIDE DEF a, c, v, t
  <2>2. u = [accounted |-> a, collateral |-> c + x, revenue |-> v]
    BY <1>1
  <2>. HIDE DEF u
  <2>. QED
    BY <2>1, <2>2
<1>. HIDE DEF a, c, v, t
<1>3. t \in MarketRows /\ t.accounted = a /\ t.collateral = c + x /\ t.revenue = v + y
  BY <1>1, <1>2 DEF MarketRows
<1>. QED
  BY <1>3 DEF a, c, v, t

FillEffect(maker, taker, price, q) ==
    [kind |-> "Fill", maker |-> maker, taker |-> taker, price |-> price, quantity |-> q]

LEMMA FillStages ==
    ASSUME NEW m, MarketRules(m), OnBook(m), NEW W, NEW b, GoodBook(m, b), NEW c, GoodBook(m, c),
           NEW slot \in Resting(b), NEW taker \in OrderRows(m.payout),
           NEW price, NEW q, Fillable(m, b.slots[slot], price, q), Fillable(m, taker, price, q),
           Side(b.slots[slot]) = Opposite(Side(taker)), b.slots[slot].owner # taker.owner,
           NEW x, Changed(b, c, slot, x),
           x = (IF b.slots[slot].remaining = q THEN Vacant ELSE Left(m, b.slots[slot], price, q)),
           NEW acc, Staging(m, W, b, taker, acc)
    PROVE  Staging(m, W, c, Left(m, taker, price, q),
                   Stage(acc, FillEffect(b.slots[slot], taker, price, q)))
<1>. DEFINE maker == b.slots[slot]
            i == maker.owner
            e == FillEffect(maker, taker, price, q)
            one == StageSide(acc, maker, e)
            two == StageSide(one, taker, e)
            left == Left(m, taker, price, q)
            col == Collateral(maker, taker, q)
            C == Charged(m, maker, price, q)
            D == Charged(m, taker, price, q)
            r == Stage(acc, e)
<1>1. /\ acc = [seats |-> acc.seats, market |-> acc.market, reserve |-> acc.reserve, sound |-> TRUE]
      /\ acc.seats \in Seq(SeatRows(W)) /\ Len(acc.seats) = Len(seats)
      /\ acc.market \in MarketRows /\ acc.market.accounted = market.accounted
      /\ Backed(m, b, taker, acc.seats) /\ taker.owner \in DOMAIN acc.seats
      /\ Balanced(acc.market, acc.seats)
  <2>1. acc.sound = TRUE
    BY DEF Staging
  <2>. QED
    BY <2>1 DEF Staging
<1>2. e.price = price /\ e.quantity = q /\ e.maker = maker /\ e.taker = taker /\ e.kind = "Fill"
  BY DEF FillEffect
<1>. HIDE DEF e
<1>3. maker \in OrderRows(m.payout) /\ i \in DOMAIN acc.seats
  BY <1>1, BookOrders DEF Backed
<1>4. SideTo(m, W, acc, maker, price, q, one)
  <2>1. Covers(m, acc.seats[i], maker) /\ Sound(acc.seats[i])
    BY <1>1, <1>3, SeatCovers DEF Backed
  <2>2. SideTo(m, W, acc, maker, e.price, e.quantity, one)
    BY <1>1, <1>2, <1>3, <2>1, SideSettles
  <2>. QED
    BY <1>2, <2>2
<1>. HIDE DEF one
<1>5. /\ one = [seats |-> one.seats, market |-> acc.market, reserve |-> acc.reserve, sound |-> TRUE]
      /\ one.seats \in Seq(SeatRows(W)) /\ Len(one.seats) = Len(acc.seats)
      /\ DOMAIN one.seats = DOMAIN acc.seats
      /\ \A j \in DOMAIN acc.seats : j # i => one.seats[j] = acc.seats[j]
      /\ Sound(one.seats[i])
      /\ \A k \in Kinds : one.seats[i].reserved[k]
           = acc.seats[i].reserved[k] - Reserve(maker, m.feeBps)[k]
               + Reserve(Left(m, maker, price, q), m.feeBps)[k]
      /\ Cash(one.seats) = Cash(acc.seats) + Earned(m, maker, price, q)
      /\ Shares(one.seats, "yes") = Shares(acc.seats, "yes") + Moved(maker, q, "YES")
      /\ Shares(one.seats, "no") = Shares(acc.seats, "no") + Moved(maker, q, "NO")
  BY <1>4, Zenon DEF SideTo
<1>6. /\ Left(m, maker, price, q) \in OrderRows(m.payout) /\ SameOrder(maker, Left(m, maker, price, q))
      /\ Left(m, maker, price, q).remaining = maker.remaining - q
      /\ left \in OrderRows(m.payout) /\ SameOrder(taker, left)
  BY FillCosts
<1>7. Backed(m, c, taker, one.seats)
  <2>1. x \in OrderRows(m.payout) \union {Vacant} /\ (x # Vacant => x.owner = i)
    BY <1>6 DEF SameOrder
  <2>2. ASSUME NEW k \in Kinds
        PROVE  HeldBy(x, i, m.feeBps, k) = Reserve(Left(m, maker, price, q), m.feeBps)[k]
    <3>1. CASE maker.remaining = q
      <4>1. q \in Nat
        BY DEF Fillable
      <4>2. Left(m, maker, price, q).remaining = 0
        BY <1>6, <3>1, <4>1
      <4>3. Reserve(Left(m, maker, price, q), m.feeBps)[k] = 0
        BY <1>6, <4>2, ReserveNothing
      <4>. QED
        BY <3>1, <4>3 DEF HeldBy
    <3>2. CASE maker.remaining # q
      <4>1. m.payout \in Nat
        BY DEF MarketRules
      <4>2. x = Left(m, maker, price, q) /\ x.owner = i
        BY <1>6, <3>2 DEF SameOrder
      <4>3. x # Vacant
        BY <1>6, <4>1, <4>2, OrderFields
      <4>. QED
        BY <4>2, <4>3 DEF HeldBy
    <3>. QED
      BY <3>1, <3>2
  <2>3. SeatFollows(m, b, slot, x, acc.seats, one.seats)
    BY <1>5, <2>2, Zenon DEF SeatFollows
  <2>. QED
    BY <1>1, <1>5, <2>1, <2>3, BackedAfter
<1>8. taker.owner \in DOMAIN one.seats /\ Sound(one.seats[taker.owner])
      /\ Covers(m, one.seats[taker.owner], taker)
  <2>1. m.payout \in Nat
    BY DEF MarketRules
  <2>2. taker # Vacant
    BY <2>1, OrderFields
  <2>3. taker.owner \in DOMAIN one.seats
    BY <1>1, <1>5
  <2>4. Sound(one.seats[taker.owner])
    BY <1>7, <2>3 DEF Backed
  <2>5. Covers(m, one.seats[taker.owner], taker)
    BY <1>5, <1>7, <2>2, <2>3, SeatCovers
  <2>. QED
    BY <2>3, <2>4, <2>5
<1>9. SideTo(m, W, one, taker, price, q, two)
  <2>1. one = [seats |-> one.seats, market |-> one.market, reserve |-> one.reserve, sound |-> TRUE]
    BY <1>5
  <2>2. SideTo(m, W, one, taker, e.price, e.quantity, two)
    BY <1>2, <1>5, <1>8, <2>1, SideSettles
  <2>. QED
    BY <1>2, <2>2
<1>. HIDE DEF two
<1>10. /\ two = [seats |-> two.seats, market |-> acc.market, reserve |-> acc.reserve, sound |-> TRUE]
       /\ two.seats \in Seq(SeatRows(W)) /\ Len(two.seats) = Len(seats)
       /\ DOMAIN two.seats = DOMAIN one.seats
       /\ \A j \in DOMAIN one.seats : j # taker.owner => two.seats[j] = one.seats[j]
       /\ Sound(two.seats[taker.owner])
       /\ \A k \in Kinds : two.seats[taker.owner].reserved[k]
            = one.seats[taker.owner].reserved[k] - Reserve(taker, m.feeBps)[k]
                + Reserve(left, m.feeBps)[k]
       /\ Cash(two.seats) = Cash(one.seats) + Earned(m, taker, price, q)
       /\ Shares(two.seats, "yes") = Shares(one.seats, "yes") + Moved(taker, q, "YES")
       /\ Shares(two.seats, "no") = Shares(one.seats, "no") + Moved(taker, q, "NO")
  <2>1. one.market = acc.market /\ one.reserve = acc.reserve
    BY <1>5
  <2>. QED
    BY <1>1, <1>5, <1>9, <2>1 DEF SideTo
<1>11. Backed(m, c, left, two.seats)
  <2>1. left.owner = taker.owner
    BY <1>6 DEF SameOrder
  <2>. HIDE DEF left, maker, i
  <2>2. one.seats \in Seq(SeatRows(W)) /\ two.seats \in Seq(SeatRows(W))
        /\ DOMAIN two.seats = DOMAIN one.seats /\ Sound(two.seats[taker.owner])
    BY <1>5, <1>10
  <2>3. \A j \in DOMAIN one.seats : j # taker.owner => two.seats[j] = one.seats[j]
    BY <1>10
  <2>4. \A k \in Kinds : two.seats[taker.owner].reserved[k]
            = one.seats[taker.owner].reserved[k] - Reserve(taker, m.feeBps)[k]
                + Reserve(left, m.feeBps)[k]
    BY <1>10
  <2>5. left \in OrderRows(m.payout) /\ taker.owner \in DOMAIN one.seats
    BY <1>6, <1>8
  <2>. QED
    BY <1>7, <2>1, <2>2, <2>3, <2>4, <2>5, TakerAfter
<1>12. r = [two EXCEPT !.reserve = Reserve(left, m.feeBps), !.market = Totaled(two.market, col, C + D)]
  <2>1. Fee(maker, e) = C /\ Fee(taker, e) = D
    BY <1>2 DEF Fee, Charged, Paid, OnBook
  <2>2. r = [StageSide(StageSide(acc, e.maker, e), e.taker, e) EXCEPT
               !.reserve = Reserve(Filled(e.taker, e.price, e.quantity, book.payout), book.feeBps),
               !.market = Totaled(@, Collateral(e.maker, e.taker, e.quantity),
                                  Fee(e.maker, e) + Fee(e.taker, e))]
    BY <1>2 DEF Stage
  <2>3. StageSide(StageSide(acc, e.maker, e), e.taker, e) = two
    BY <1>2 DEF one, two
  <2>4. Reserve(Filled(e.taker, e.price, e.quantity, book.payout), book.feeBps)
          = Reserve(left, m.feeBps)
    BY <1>2 DEF OnBook, Left
  <2>5. Collateral(e.maker, e.taker, e.quantity) = col
    BY <1>2
  <2>6. Fee(e.maker, e) = C /\ Fee(e.taker, e) = D
    BY <1>2, <2>1
  <2>. HIDE DEF left, col, r, C, D
  <2>. QED
    BY <2>2, <2>3, <2>4, <2>5, <2>6
<1>. HIDE DEF left, col, r, C, D
<1>13. /\ two = [seats |-> two.seats, market |-> two.market, reserve |-> two.reserve, sound |-> two.sound]
       /\ two.market = acc.market /\ two.sound = TRUE /\ two.market \in MarketRows
       /\ acc.market.collateral \in Int /\ acc.market.revenue \in Int
  <2>1. two.market = acc.market /\ two.sound = TRUE
        /\ two = [seats |-> two.seats, market |-> two.market, reserve |-> two.reserve, sound |-> two.sound]
    BY <1>10
  <2>. QED
    BY <1>1, <2>1 DEF MarketRows
<1>14. /\ r.seats = two.seats /\ r.reserve = Reserve(left, m.feeBps) /\ r.sound = TRUE
       /\ r.market = Totaled(acc.market, col, C + D)
       /\ r = [seats |-> r.seats, market |-> r.market, reserve |-> r.reserve, sound |-> r.sound]
  <2>. DEFINE v == Totaled(two.market, col, C + D)
              a == Reserve(left, m.feeBps)
  <2>1. v = Totaled(acc.market, col, C + D)
    BY <1>13
  <2>2. r = [two EXCEPT !.reserve = a, !.market = v]
    BY <1>12
  <2>. HIDE DEF v, a
  <2>3. /\ r.seats = two.seats /\ r.reserve = a /\ r.sound = two.sound /\ r.market = v
        /\ r = [seats |-> r.seats, market |-> r.market, reserve |-> r.reserve, sound |-> r.sound]
    BY <1>13, <2>2, TotalsFollow
  <2>. QED
    BY <1>13, <2>1, <2>3 DEF a
<1>15. PICK pairs \in {0, q, -q} : FillMoves(m, maker, taker, price, q, pairs, col)
  BY FillBalances DEF col
<1>16. /\ Earned(m, maker, price, q) + Earned(m, taker, price, q) + col + (C + D) = 0
       /\ Moved(maker, q, "YES") + Moved(taker, q, "YES") = pairs
       /\ Moved(maker, q, "NO") + Moved(taker, q, "NO") = pairs
       /\ col = m.payout * pairs /\ pairs \in Int /\ col \in Int
  BY <1>15 DEF FillMoves, C, D
<1>17. C \in Int /\ D \in Int /\ Earned(m, maker, price, q) \in Int /\ Earned(m, taker, price, q) \in Int
       /\ Moved(maker, q, "YES") \in Int /\ Moved(taker, q, "YES") \in Int
       /\ Moved(maker, q, "NO") \in Int /\ Moved(taker, q, "NO") \in Int
  <2>1. /\ Paid(m, maker, price, q) \in Nat /\ Charged(m, maker, price, q) \in Nat
        /\ Paid(m, taker, price, q) \in Nat /\ Charged(m, taker, price, q) \in Nat
    BY FillCosts
  <2>2. q \in Nat
    BY DEF Fillable
  <2>. QED
    BY <2>1, <2>2 DEF C, D, Earned, Moved, Traded1
<1>18. /\ Cash(acc.seats) \in Int /\ Shares(acc.seats, "yes") \in Int /\ Shares(acc.seats, "no") \in Int
  BY <1>1, RowTotals
<1>19. /\ r.market \in MarketRows /\ r.market.accounted = acc.market.accounted
       /\ r.market.collateral = acc.market.collateral + col
       /\ r.market.revenue = acc.market.revenue + (C + D)
  <2>1. C + D \in Int /\ col \in Int
    BY <1>16, <1>17
  <2>. QED
    BY <1>1, <1>14, <2>1, TotaledIs
<1>20. Balanced(r.market, r.seats)
  <2>. HIDE DEF maker
  <2>1. /\ Cash(acc.seats) + acc.market.collateral + acc.market.revenue = acc.market.accounted
        /\ Shares(acc.seats, "yes") = Shares(acc.seats, "no")
        /\ acc.market.collateral = m.payout * Shares(acc.seats, "yes")
    BY <1>1 DEF Balanced, OnBook
  <2>2. Cash(two.seats) = Cash(acc.seats) + Earned(m, maker, price, q) + Earned(m, taker, price, q)
    BY <1>5, <1>10
  <2>3. /\ Shares(two.seats, "yes")
             = Shares(acc.seats, "yes") + Moved(maker, q, "YES") + Moved(taker, q, "YES")
        /\ Shares(two.seats, "no")
             = Shares(acc.seats, "no") + Moved(maker, q, "NO") + Moved(taker, q, "NO")
    BY <1>5, <1>10
  <2>4. acc.market.collateral \in Int /\ acc.market.revenue \in Int
    BY <1>13
  <2>5. /\ Earned(m, maker, price, q) + Earned(m, taker, price, q) + col + (C + D) = 0
         /\ col \in Int
    BY <1>16
  <2>6. /\ Earned(m, maker, price, q) \in Int /\ Earned(m, taker, price, q) \in Int
         /\ C + D \in Int
    BY <1>17
  <2>7. Cash(acc.seats) \in Int
    BY <1>18
  <2>. DEFINE fees == C + D
              cash == Cash(acc.seats)
  <2>8. Cash(two.seats) = cash + Earned(m, maker, price, q) + Earned(m, taker, price, q)
         /\ cash + acc.market.collateral + acc.market.revenue = acc.market.accounted
         /\ cash \in Int /\ fees \in Int
         /\ Earned(m, maker, price, q) + Earned(m, taker, price, q) + col + fees = 0
    BY <2>1, <2>2, <2>5, <2>6, <2>7
  <2>. HIDE DEF fees, cash
  <2>9. Cash(two.seats) + (acc.market.collateral + col) + (acc.market.revenue + fees)
           = acc.market.accounted
    BY <2>4, <2>5, <2>6, <2>8, SMTT(30)
  <2>10. Cash(two.seats) + (acc.market.collateral + col) + (acc.market.revenue + (C + D))
          = acc.market.accounted
    BY <2>9 DEF fees
  <2>11. /\ Shares(two.seats, "yes") = Shares(acc.seats, "yes") + pairs
        /\ Shares(two.seats, "no") = Shares(acc.seats, "no") + pairs
    BY <1>16, <1>17, <1>18, <2>3
  <2>12. m.payout \in Nat
    BY DEF MarketRules
  <2>13. m.payout * (Shares(acc.seats, "yes") + pairs)
          = m.payout * Shares(acc.seats, "yes") + m.payout * pairs
    BY <1>16, <1>18, <2>12
  <2>14. acc.market.collateral + col = m.payout * Shares(two.seats, "yes")
    BY <1>16, <2>1, <2>11, <2>13
  <2>15. /\ r.market.accounted = acc.market.accounted
         /\ r.market.collateral = acc.market.collateral + col
         /\ r.market.revenue = acc.market.revenue + (C + D)
    BY <1>19
  <2>16. r.seats = two.seats
    BY <1>14
  <2>17. m.payout = book.payout
    BY DEF OnBook
  <2>18. /\ Cash(r.seats) = Cash(two.seats) /\ Shares(r.seats, "yes") = Shares(two.seats, "yes")
         /\ Shares(r.seats, "no") = Shares(two.seats, "no")
    BY <2>16
  <2>19. Cash(r.seats) + r.market.collateral + r.market.revenue = r.market.accounted
    BY <2>10, <2>15, <2>18
  <2>20. Shares(r.seats, "yes") = Shares(r.seats, "no")
    <3>1. Shares(two.seats, "yes") = Shares(two.seats, "no")
      BY <2>1, <2>11
    <3>. QED
      BY <2>16, <3>1
  <2>21. r.market.collateral = book.payout * Shares(r.seats, "yes")
    BY <2>14, <2>15, <2>17, <2>18
  <2>. QED
    BY <2>19, <2>20, <2>21 DEF Balanced
<1>21. r.market \in MarketRows /\ r.market.accounted = market.accounted
  BY <1>1, <1>19
<1>22. left.owner \in DOMAIN r.seats
  BY <1>6, <1>8, <1>10, <1>14 DEF SameOrder, left
<1>23. Staging(m, W, c, left, r)
  BY <1>10, <1>11, <1>14, <1>20, <1>21, <1>22 DEF Staging
<1>. QED
  BY <1>23 DEF left, r, e

----------------------------------------------------------------------------
\* The effects of a plan are staged one after the other.
StageIn(effects, acc, i) == Stage(acc, effects[i])
Stages == INSTANCE FoldTheorems WITH Step <- StageIn, Pick <- Max

LEMMA StagesAre ==
    ASSUME NEW effects, NEW acc
    PROVE  StageAll(acc, effects) = Stages!Fold(effects, acc, DOMAIN effects)
BY DEF StageAll, Stages!Fold, Stages!MapThenFoldSet, MapThenFoldSet, StageIn

LEMMA StagesInOrder == \A n \in Nat : Stages!InOrder(n)
BY EndsOfRange, RangeEnds DEF FamilyEnds, Stages!InOrder, Stages!Finite, Stages!Smallest

LEMMA StageNone ==
    ASSUME NEW acc
    PROVE  StageAll(acc, << >>) = acc
<1>1. DOMAIN << >> = {}
  OBVIOUS
<1>2. StageAll(acc, << >>) = Stages!Fold(<< >>, acc, {})
  BY <1>1, StagesAre
<1>. QED
  BY <1>2, Stages!FoldEmpty

LEMMA StageOneMore ==
    ASSUME NEW T, NEW effects \in Seq(T), NEW e \in T, NEW acc
    PROVE  StageAll(acc, Append(effects, e)) = Stage(StageAll(acc, effects), e)
<1>. DEFINE n == Len(effects)
            more == Append(effects, e)
<1>1. /\ n \in Nat /\ DOMAIN effects = 1 .. n /\ DOMAIN more = 1 .. n + 1
      /\ more[n + 1] = e /\ \A i \in 1 .. n : more[i] = effects[i]
  OBVIOUS
<1>2. /\ StageAll(acc, effects) = Stages!Fold(effects, acc, 1 .. n)
      /\ StageAll(acc, more) = Stages!Fold(more, acc, 1 .. n + 1)
  BY <1>1, StagesAre
<1>. HIDE DEF n, more
<1>3. Stages!Fold(more, acc, 1 .. n + 1) = StageIn(more, Stages!Fold(more, acc, 1 .. n), n + 1)
  BY <1>1, StagesInOrder, Stages!LoopLast
<1>4. Stages!Fold(more, acc, 1 .. n) = Stages!Fold(effects, acc, 1 .. n)
  <2>1. Stages!Alike(more, effects, 1 .. n)
    <3>1. ASSUME NEW i \in 1 .. n, NEW a
          PROVE  StageIn(more, a, i) = StageIn(effects, a, i)
      BY <1>1 DEF StageIn
    <3>. QED
      BY <3>1 DEF Stages!Alike
  <2>2. IsFiniteSet(1 .. n)
    BY <1>1, FS_Interval
  <2>3. Stages!Finite(1 .. n)
    <3>1. FamilyEnds(1 .. n)
      BY <2>2, FiniteEnds
    <3>. QED
      BY <3>1, Zenon DEF FamilyEnds, Stages!Finite, Stages!Smallest
  <2>4. Stages!Picks(1 .. n)
    BY <1>1, StagesInOrder DEF Stages!InOrder, Stages!Picks
  <2>. QED
    BY <2>1, <2>2, <2>3, <2>4, Stages!FoldSame
<1>5. StageAll(acc, more) = Stage(Stages!Fold(effects, acc, 1 .. n), more[n + 1])
  BY <1>2, <1>3, <1>4 DEF StageIn
<1>. QED
  BY <1>1, <1>2, <1>5 DEF more

StagingOf(m, W, base, st) ==
    Staging(m, W, st.book, st.taker, StageAll(base, st.effects))

LEMMA RemovalIsStaged ==
    ASSUME NEW m, MarketRules(m), OnBook(m), NEW W, NEW base, NEW b, NEW order,
           NEW st, Matched(m, b, order, st), StagingOf(m, W, base, st),
           NEW side, NEW slot, NEW maker, Facing(m, st, side, slot, maker)
    PROVE  StagingOf(m, W, base, Removed(st, side, maker))
<1>. DEFINE r == Removed(st, side, maker)
            e == [kind |-> "Removed", order |-> maker]
            acc == StageAll(base, st.effects)
<1>1. /\ RemovedFrom(m, st.book, slot, r.book) /\ r.taker = st.taker
      /\ r.effects = Append(st.effects, e)
  BY RemovedMatches
<1>2. /\ st.effects \in Seq(EffectRows(m.payout)) /\ GoodBook(m, st.book)
      /\ st.taker \in OrderRows(m.payout)
  BY DEF Matched, MatchStates, GoodBook
<1>3. e \in EffectRows(m.payout) /\ maker = st.book.slots[slot]
  BY DEF EffectRows, Facing
<1>4. StageAll(base, r.effects) = Stage(acc, e)
  BY <1>1, <1>2, <1>3, StageOneMore
<1>5. GoodBook(m, r.book) /\ slot \in Resting(st.book) /\ Changed(st.book, r.book, slot, Vacant)
  BY <1>1 DEF RemovedFrom
<1>6. Staging(m, W, st.book, st.taker, acc)
  BY DEF StagingOf
<1>. HIDE DEF acc, r
<1>7. Staging(m, W, r.book, st.taker, Stage(acc, e))
  BY <1>2, <1>3, <1>5, <1>6, RemovalStages
<1>8. Staging(m, W, r.book, r.taker, StageAll(base, r.effects))
  BY <1>1, <1>4, <1>7
<1>. QED
  BY <1>8 DEF StagingOf, r

LEMMA FillIsStaged ==
    ASSUME NEW m, MarketRules(m), OnBook(m), NEW W, NEW base, NEW b, NEW order,
           NEW st, Matched(m, b, order, st), StagingOf(m, W, base, st), NEW time,
           NEW side, NEW slot, NEW maker, Facing(m, st, side, slot, maker),
           Touching(st, time, side), ~Expired(maker, time), maker.owner # st.taker.owner
    PROVE  StagingOf(m, W, base,
                     Traded(st, side, slot, maker, CanonicalPrice(maker, m.payout), Smaller(st, maker)))
<1>. DEFINE price == CanonicalPrice(maker, m.payout)
            q == Smaller(st, maker)
            r == Traded(st, side, slot, maker, price, q)
            e == FillEffect(maker, st.taker, price, q)
            left == Filled(maker, price, q, m.payout)
            x == IF maker.remaining = q THEN Vacant ELSE left
            acc == StageAll(base, st.effects)
<1>1. /\ price \in 1 .. m.payout - 1 /\ q \in Nat \ {0}
      /\ q <= maker.remaining /\ q <= st.taker.remaining
  BY FillBounds
<1>2. /\ st.effects \in Seq(EffectRows(m.payout)) /\ GoodBook(m, st.book)
      /\ st.taker \in OrderRows(m.payout)
  BY DEF Matched, MatchStates, GoodBook
<1>3. /\ maker = st.book.slots[slot] /\ maker \in OrderRows(m.payout)
      /\ Side(maker) = Opposite(Side(st.taker)) /\ slot \in Resting(st.book)
  BY DEF Facing
<1>. HIDE DEF price, q
<1>4. /\ maker.remaining = q => RemovedFrom(m, st.book, slot, r.book)
      /\ maker.remaining # q => RewrittenTo(m, st.book, slot, left, r.book)
      /\ r.taker = Filled(st.taker, price, q, m.payout)
      /\ r.effects = Append(st.effects, e)
  BY <1>1, TradedMatches DEF FillEffect
<1>5. e \in EffectRows(m.payout)
  BY <1>1, <1>2, <1>3 DEF EffectRows, FillEffect
<1>6. StageAll(base, r.effects) = Stage(acc, e)
  <2>. HIDE DEF e, r
  <2>. QED
    BY <1>2, <1>4, <1>5, StageOneMore
<1>7. GoodBook(m, r.book) /\ Changed(st.book, r.book, slot, x)
  <2>. HIDE DEF r, left
  <2>. QED
    BY <1>4 DEF RemovedFrom, RewrittenTo
<1>8. Crosses(st.taker, maker, m.payout)
  <2>1. st.book.payout = m.payout /\ maker = OrderAt(st.book, side, 1)
    BY <1>2, BookFields DEF Facing
  <2>. QED
    BY <2>1 DEF Touching
<1>9. Fillable(m, maker, price, q) /\ Fillable(m, st.taker, price, q)
  BY <1>1, <1>2, <1>3, <1>8, CrossingIsFillable DEF price
<1>10. Staging(m, W, st.book, st.taker, acc)
  BY DEF StagingOf
<1>11. /\ x = (IF maker.remaining = q THEN Vacant ELSE Left(m, maker, price, q))
       /\ r.taker = Left(m, st.taker, price, q)
  BY <1>4 DEF Left
<1>. HIDE DEF acc, r, left, x
<1>12. Staging(m, W, r.book, Left(m, st.taker, price, q), Stage(acc, e))
  BY <1>2, <1>3, <1>7, <1>9, <1>10, <1>11, FillStages
<1>. HIDE DEF e
<1>13. Staging(m, W, r.book, r.taker, StageAll(base, r.effects))
  BY <1>6, <1>11, <1>12
<1>. QED
  BY <1>13 DEF StagingOf, r, price, q

LEMMA TurnIsStaged ==
    ASSUME NEW m, MarketRules(m), OnBook(m), NEW W, NEW base, NEW b, NEW order,
           NEW st, Matched(m, b, order, st), StagingOf(m, W, base, st),
           NEW in \in Arrivals(m.payout), NEW time, NEW limit, NEW turn
    PROVE  StagingOf(m, W, base, Turn(st, in, time, limit, turn))
<1>. DEFINE side == Opposite(Side(st.taker))
            slot == st.book.heap[side][1]
            maker == OrderAt(st.book, side, 1)
            r == Turn(st, in, time, limit, turn)
<1>1. TurnDoes(m, st, time, side, slot, maker, r)
  BY TurnIsOne
<1>. HIDE DEF side, slot, maker, r
<1>2. ASSUME Facing(m, st, side, slot, maker)
      PROVE  /\ StagingOf(m, W, base, Removed(st, side, maker))
             /\ Matched(m, b, order, Removed(st, side, maker))
  BY <1>2, RemovalIsStaged, RemovedMatches
<1>3. ASSUME NEW s, Matched(m, b, order, s), StagingOf(m, W, base, s), NEW end \in Ends
      PROVE  StagingOf(m, W, base, [s EXCEPT !.end = end])
  <2>. DEFINE t == [s EXCEPT !.end = end]
  <2>1. t.book = s.book /\ t.taker = s.taker /\ t.effects = s.effects
    BY <1>3, EndedMatches
  <2>. HIDE DEF t
  <2>2. StagingOf(m, W, base, t)
    BY <1>3, <2>1 DEF StagingOf
  <2>. QED
    BY <2>2 DEF t
<1>4. ASSUME Facing(m, st, side, slot, maker), Touching(st, time, side),
             r = Traded(st, side, slot, maker, CanonicalPrice(maker, m.payout), Smaller(st, maker)),
             ~Expired(maker, time), maker.owner # st.taker.owner
      PROVE  StagingOf(m, W, base, r)
  BY <1>4, FillIsStaged
<1>5. ASSUME Facing(m, st, side, slot, maker), NEW end \in Ends, r = [st EXCEPT !.end = end]
      PROVE  StagingOf(m, W, base, r)
  BY <1>3, <1>5
<1>6. ASSUME Facing(m, st, side, slot, maker), NEW end \in Ends,
             r = [Removed(st, side, maker) EXCEPT !.end = end]
      PROVE  StagingOf(m, W, base, r)
  BY <1>2, <1>3, <1>6
<1>7. ASSUME r = st
      PROVE  StagingOf(m, W, base, r)
  BY <1>7
<1>. QED
  BY <1>1, <1>2, <1>4, <1>5, <1>6, <1>7 DEF TurnDoes, r

\* Every effect of a plan is staged.
LEMMA MatchIsStaged ==
    ASSUME NEW m, MarketRules(m), OnBook(m), NEW W, NEW base, NEW b, NEW order,
           NEW st, Matched(m, b, order, st), StagingOf(m, W, base, st),
           NEW in \in Arrivals(m.payout), NEW time, NEW limit \in Nat
    PROVE  StagingOf(m, W, base, Match(st, in, time, limit))
<1>. DEFINE c == [in |-> in, now |-> time, limit |-> limit]
            Good == {s \in MatchStates(m) : Matched(m, b, order, s) /\ StagingOf(m, W, base, s)}
<1>1. c.in = in /\ c.now = time /\ c.limit = limit
  OBVIOUS
<1>. HIDE DEF c
<1>2. st \in Good
  BY DEF Matched
<1>3. ASSUME NEW s \in Good, NEW turn \in Nat
      PROVE  TurnIn(c, s, turn) \in Good
  <2>. DEFINE r == Turn(s, in, time, limit, turn)
  <2>1. Matched(m, b, order, r) /\ StagingOf(m, W, base, r)
    BY <1>3, TurnMatches, TurnIsStaged
  <2>2. TurnIn(c, s, turn) = r
    BY <1>1 DEF TurnIn
  <2>. HIDE DEF r
  <2>. QED
    BY <2>1, <2>2 DEF Matched
<1>. HIDE DEF Good
<1>4. \E s \in Good : Match(st, c.in, c.now, c.limit) = TurnIn(c, s, c.limit + 1)
  BY <1>1, <1>2, <1>3, MatchInduct
<1>5. Match(st, in, time, limit) \in Good
  BY <1>1, <1>3, <1>4
<1>. QED
  BY <1>5 DEF Good

----------------------------------------------------------------------------
\* The ledger: what the seats have reserved is what the orders in the book reserve.
Wallets == DOMAIN setup.tokens
Ledger ==
    /\ market \in MarketRows /\ seats \in Seq(SeatRows(Wallets))
    /\ Backed(setup, book, Vacant, seats)

\* What a plan asks of the seats.
PlanSays(m, b, in, time, st, plan) ==
    /\ Matched(m, b, OrderOf(b, in), st) /\ plan.fault = PlanFault(in, time, st)
    /\ plan.required = Reserve(OrderOf(b, in), m.feeBps) /\ plan.effects = st.effects
    /\ plan.final = IF Rests(in, st) THEN Reserve(st.taker, m.feeBps) ELSE Zero

LEMMA PlanReserves ==
    ASSUME NEW m, MarketRules(m), NEW b, GoodBook(m, b), NEW in \in Arrivals(m.payout),
           NEW time, NEW limit \in Nat
    PROVE  PlanSays(m, b, in, time, Match(Unmatched(b, in), in, time, limit), Plan(b, in, time, limit))
<1>. DEFINE st == Match(Unmatched(b, in), in, time, limit)
            order == OrderOf(b, in)
            plan == Plan(b, in, time, limit)
<1>1. Matched(m, b, order, st)
  BY MatchEnds
<1>2. plan = Planned(in, order, st, PlanFault(in, time, st))
  BY PlanIs
<1>. HIDE DEF st, plan
<1>3. st.book.feeBps = m.feeBps
  <2>1. GoodBook(m, st.book)
    BY <1>1 DEF Matched, MatchStates, GoodBook
  <2>. QED
    BY <2>1, BookFields
<1>. HIDE DEF order
<1>4. /\ plan.fault = PlanFault(in, time, st) /\ plan.required = Reserve(order, m.feeBps)
      /\ plan.effects = st.effects
      /\ plan.final = IF Rests(in, st) THEN Reserve(st.taker, m.feeBps) ELSE Zero
  BY <1>2, <1>3 DEF Planned
<1>. QED
  BY <1>1, <1>4 DEF PlanSays, st, plan, order

\* The reserve of the whole order is locked first.
LEMMA LockBacks ==
    ASSUME NEW m, MarketRules(m), NEW b, GoodBook(m, b), NEW W, NEW sts \in Seq(SeatRows(W)),
           Backed(m, b, Vacant, sts), NEW o \in OrderRows(m.payout), o.owner \in DOMAIN sts,
           NEW t, t = Lock(sts[o.owner], Reserve(o, m.feeBps)), Sound(t),
           NEW after, RowTo(W, sts, o.owner, t, after)
    PROVE  /\ Backed(m, b, o, after) /\ Cash(after) = Cash(sts)
           /\ Shares(after, "yes") = Shares(sts, "yes") /\ Shares(after, "no") = Shares(sts, "no")
<1>. DEFINE i == o.owner
            s == sts[i]
            r == Reserve(o, m.feeBps)
<1>1. m.payout \in Nat
  BY DEF MarketRules
<1>2. m.feeBps \in 0 .. FeeBasis
  BY DEF MarketRules
<1>3. r \in [Kinds -> Nat]
  BY <1>1, <1>2, ReserveIs
<1>4. r \in [Kinds -> Int] /\ s \in SeatRows(W)
  BY <1>3
<1>. HIDE DEF r, s
<1>5. SeatWith(s, t, s.available - r.cash, Plused(s.reserved, r), s.yes, s.no)
  BY <1>4, LockIs DEF r, s
<1>6. /\ t.available = s.available - r.cash /\ t.yes = s.yes /\ t.no = s.no
      /\ \A k \in Kinds : t.reserved[k] = s.reserved[k] + r[k]
  BY <1>5 DEF SeatWith, Plused
<1>7. /\ DOMAIN after = DOMAIN sts /\ after[i] = t /\ \A j \in DOMAIN sts : j # i => after[j] = sts[j]
      /\ Cash(after) = Cash(sts) + (Holds(t) - Holds(s))
      /\ Shares(after, "yes") = Shares(sts, "yes") + (t.yes - s.yes)
      /\ Shares(after, "no") = Shares(sts, "no") + (t.no - s.no)
  BY DEF RowTo, s
<1>8. /\ s.available \in Int /\ s.yes \in Int /\ s.no \in Int /\ r.cash \in Int
      /\ s.reserved.cash \in Int /\ "cash" \in Kinds
  BY <1>4 DEF SeatRows, Kinds
<1>9. Cash(sts) \in Int /\ Shares(sts, "yes") \in Int /\ Shares(sts, "no") \in Int
  BY RowTotals
<1>10. Holds(t) = Holds(s) /\ Holds(s) \in Int
  <2>1. t.reserved.cash = s.reserved.cash + r.cash
    BY <1>6, <1>8
  <2>. QED
    BY <1>6, <1>8, <2>1 DEF Holds
<1>11. /\ Cash(after) = Cash(sts)
       /\ Shares(after, "yes") = Shares(sts, "yes") /\ Shares(after, "no") = Shares(sts, "no")
  BY <1>6, <1>7, <1>8, <1>9, <1>10
<1>12. o # Vacant
  BY <1>1, OrderFields
<1>13. ASSUME NEW j \in DOMAIN after, NEW k \in Kinds
       PROVE  after[j].reserved[k] = Backing(b, j, k) + HeldBy(o, j, m.feeBps, k)
  <2>1. sts[j].reserved[k] = Backing(b, j, k) + HeldBy(Vacant, j, m.feeBps, k)
    BY <1>7 DEF Backed
  <2>2. HeldBy(Vacant, j, m.feeBps, k) = 0 /\ Backing(b, j, k) \in Nat
    BY BackingIs DEF HeldBy
  <2>3. CASE j = i
    <3>1. HeldBy(o, j, m.feeBps, k) = r[k] /\ r[k] \in Nat
      BY <1>3, <1>12, <2>3 DEF HeldBy, r
    <3>2. after[j].reserved[k] = sts[j].reserved[k] + r[k]
      BY <1>6, <1>7, <2>3 DEF s
    <3>. QED
      BY <2>1, <2>2, <3>1, <3>2
  <2>4. CASE j # i
    <3>1. HeldBy(o, j, m.feeBps, k) = 0
      BY <2>4 DEF HeldBy
    <3>2. after[j] = sts[j]
      BY <1>7, <2>4
    <3>. QED
      BY <2>1, <2>2, <3>1, <3>2
  <2>. QED
    BY <2>3, <2>4
<1>14. Backed(m, b, o, after)
  BY <1>7, <1>13 DEF Backed
<1>. QED
  BY <1>11, <1>14

LEMMA ExecutionStarts ==
    ASSUME BookKept, Ledger, Balanced(market, seats), NEW in \in Arrivals(setup.payout),
           in.owner \in DOMAIN seats, Sound(LockedSeat(in))
    PROVE  StagingOf(setup, Wallets, Unstaged(in), Unmatched(book, in))
<1>. DEFINE m == setup
            W == Wallets
            order == OrderOf(book, in)
            i == in.owner
            t == LockedSeat(in)
            after == [seats EXCEPT ![i] = t]
            acc == Unstaged(in)
<1>1. MarketRules(m) /\ GoodBook(m, book) /\ setup.touches \in Nat
  BY SetupRules DEF BookKept, BookInv
<1>2. order \in OrderRows(m.payout) /\ order.owner = i
  <2>1. order \in OrderRows(m.payout)
    BY <1>1, OrderOfIs
  <2>. QED
    BY <2>1 DEF OrderOf
<1>3. PlanOf(in).required = Reserve(order, m.feeBps)
  BY <1>1, PlanReserves DEF PlanSays, PlanOf
<1>. HIDE DEF order
<1>4. seats \in Seq(SeatRows(W)) /\ Backed(m, book, Vacant, seats) /\ market \in MarketRows
  BY DEF Ledger
<1>5. t = Lock(seats[i], Reserve(order, m.feeBps))
  BY <1>3 DEF LockedSeat
<1>6. t \in SeatRows(W)
  <2>1. m.payout \in Nat
    BY <1>1 DEF MarketRules
  <2>2. m.feeBps \in 0 .. FeeBasis
    BY <1>1 DEF MarketRules
  <2>3. Reserve(order, m.feeBps) \in [Kinds -> Nat]
    BY <1>2, <2>1, <2>2, ReserveIs
  <2>4. Reserve(order, m.feeBps) \in [Kinds -> Int] /\ seats[i] \in SeatRows(W)
    BY <1>4, <2>3
  <2>. QED
    BY <1>5, <2>4, LockIs
<1>7. Sound(t)
  OBVIOUS
<1>. HIDE DEF t, W, m
<1>8. RowTo(W, seats, i, t, after)
  BY <1>4, <1>6, RowChanges DEF W, m
<1>. HIDE DEF after
<1>9. /\ Backed(m, book, order, after) /\ Cash(after) = Cash(seats)
      /\ Shares(after, "yes") = Shares(seats, "yes") /\ Shares(after, "no") = Shares(seats, "no")
  BY <1>1, <1>2, <1>4, <1>5, <1>7, <1>8, LockBacks DEF m
<1>10. Balanced(market, after)
  BY <1>9 DEF Balanced
<1>11. acc = [seats |-> after, market |-> market, reserve |-> Reserve(order, m.feeBps), sound |-> TRUE]
  BY <1>3 DEF Unstaged, after, t
<1>12. /\ after \in Seq(SeatRows(W)) /\ Len(after) = Len(seats) /\ i \in DOMAIN after
  BY <1>8 DEF RowTo
<1>. HIDE DEF acc
<1>13. Staging(m, W, book, order, acc)
  BY <1>2, <1>4, <1>9, <1>10, <1>11, <1>12 DEF Staging
<1>14. StageAll(acc, Unmatched(book, in).effects) = acc
  BY StageNone DEF Unmatched
<1>15. Unmatched(book, in).book = book /\ Unmatched(book, in).taker = order
  BY DEF Unmatched, order
<1>. QED
  BY <1>13, <1>14, <1>15 DEF StagingOf, m, W, acc

\* The order's last reserve is exchanged for that of what rests of it.
FinalSeat(W, s, r, t) ==
    /\ t \in SeatRows(W) /\ Sound(t) /\ Holds(t) = Holds(s) /\ t.yes = s.yes /\ t.no = s.no
    /\ \A k \in Kinds : t.reserved[k] = s.reserved[k] + r[k]

LEMMA Unspent ==
    ASSUME NEW W, NEW s \in SeatRows(W), NEW n \in Nat
    PROVE  /\ Spent(s, n) \in SeatRows(W) /\ Spent(s, n).reserved = s.reserved
           /\ Spent(s, n).available = s.available
           /\ Spent(s, n).yes = s.yes /\ Spent(s, n).no = s.no
BY DEF SeatRows, Spent

LEMMA RestLocks ==
    ASSUME NEW m, MarketRules(m), NEW W, NEW s \in SeatRows(W), Sound(s),
           NEW o \in OrderRows(m.payout), Covers(m, s, o), NEW r,
           r = Zero \/ r = Reserve(o, m.feeBps)
    PROVE  /\ Sound(Unlock(s, Reserve(o, m.feeBps)))
           /\ Lock(Unlock(s, Reserve(o, m.feeBps)), r) \in SeatRows(W)
           /\ Sound(Lock(Unlock(s, Reserve(o, m.feeBps)), r))
           /\ FinalSeat(W, s, Minused(r, Reserve(o, m.feeBps)),
                        Spent(Lock(Unlock(s, Reserve(o, m.feeBps)), r), 1))
<1>. DEFINE whole == Reserve(o, m.feeBps)
            free == Unlock(s, whole)
            locked == Lock(free, r)
            t == Spent(locked, 1)
<1>1. m.payout \in Nat
  BY DEF MarketRules
<1>2. m.feeBps \in 0 .. FeeBasis
  BY DEF MarketRules
<1>3. whole \in [Kinds -> Nat]
  BY <1>1, <1>2, ReserveIs
<1>4. r \in [Kinds -> Nat] /\ \A k \in Kinds : r[k] <= whole[k]
  <2>1. Zero \in [Kinds -> Nat] /\ \A k \in Kinds : Zero[k] = 0
    BY ZeroIs
  <2>. HIDE DEF whole
  <2>2. CASE r = Zero
    BY <1>3, <2>1, <2>2
  <2>3. CASE r = whole
    BY <1>3, <2>3
  <2>. QED
    BY <2>2, <2>3 DEF whole
<1>5. UnlockedTo(m, W, s, o, free)
  BY Unlocks
<1>6. \A k \in Kinds : whole[k] <= s.reserved[k]
  BY DEF Covers
<1>. HIDE DEF free
<1>7. /\ free \in SeatRows(W) /\ Sound(free) /\ Holds(free) = Holds(s)
      /\ free.yes = s.yes /\ free.no = s.no
      /\ \A k \in Kinds : free.reserved[k] = s.reserved[k] - whole[k]
  BY <1>5 DEF UnlockedTo
<1>. HIDE DEF whole
<1>8. r \in [Kinds -> Int]
  BY <1>4
<1>9. /\ locked \in SeatRows(W)
      /\ SeatWith(free, locked, free.available - r.cash, Plused(free.reserved, r), free.yes, free.no)
  BY <1>7, <1>8, LockIs
<1>. HIDE DEF locked
<1>10. /\ locked.available = free.available - r.cash /\ locked.yes = free.yes /\ locked.no = free.no
       /\ \A k \in Kinds : locked.reserved[k] = free.reserved[k] + r[k]
  BY <1>9 DEF SeatWith, Plused
<1>11. /\ t \in SeatRows(W) /\ t.reserved = locked.reserved /\ t.available = locked.available
       /\ t.yes = locked.yes /\ t.no = locked.no
  BY <1>9, Unspent
<1>. HIDE DEF t
<1>12. "cash" \in Kinds /\ "yes" \in Kinds /\ "no" \in Kinds
  BY DEF Kinds
<1>13. /\ s.available \in Int /\ s.yes \in Int /\ s.no \in Int /\ s.reserved \in [Kinds -> Int]
       /\ free.available \in Int /\ free.reserved \in [Kinds -> Int]
  BY <1>7 DEF SeatRows
<1>14. /\ s.available >= 0 /\ \A k \in Kinds : s.reserved[k] >= 0
       /\ s.yes >= s.reserved["yes"] /\ s.no >= s.reserved["no"]
  BY SoundIs
<1>15. \A k \in Kinds : /\ locked.reserved[k] = s.reserved[k] + (r[k] - whole[k])
                        /\ locked.reserved[k] >= 0 /\ locked.reserved[k] <= s.reserved[k]
  BY <1>3, <1>4, <1>6, <1>7, <1>10, <1>13
<1>16. locked.available >= 0 /\ Holds(locked) = Holds(s)
  <2>1. /\ free.available + free.reserved.cash = s.available + s.reserved.cash
        /\ free.reserved.cash = s.reserved.cash - whole.cash
        /\ locked.reserved.cash = free.reserved.cash + r.cash
        /\ locked.available = free.available - r.cash
    BY <1>7, <1>10, <1>12 DEF Holds
  <2>2. /\ r.cash \in Nat /\ whole.cash \in Nat /\ r.cash <= whole.cash
        /\ s.reserved.cash \in Int /\ free.reserved.cash \in Int
    BY <1>3, <1>4, <1>12, <1>13
  <2>3. locked.available >= 0
    BY <1>13, <1>14, <2>1, <2>2
  <2>4. locked.available + locked.reserved.cash = s.available + s.reserved.cash
    BY <1>13, <2>1, <2>2
  <2>. QED
    BY <2>3, <2>4 DEF Holds
<1>17. locked.yes >= locked.reserved["yes"] /\ locked.no >= locked.reserved["no"]
  <2>1. /\ locked.reserved["yes"] \in Int /\ locked.reserved["no"] \in Int
    BY <1>9, <1>12 DEF SeatRows
  <2>2. locked.reserved["yes"] <= s.reserved["yes"] /\ locked.reserved["no"] <= s.reserved["no"]
    BY <1>12, <1>15
  <2>3. s.reserved["yes"] \in Int /\ s.reserved["no"] \in Int
    BY <1>12, <1>13
  <2>4. locked.yes = s.yes /\ locked.no = s.no
    BY <1>7, <1>10
  <2>. QED
    BY <1>13, <1>14, <2>1, <2>2, <2>3, <2>4
<1>18. Sound(locked)
  BY <1>9, <1>15, <1>16, <1>17, SoundIs
<1>19. Sound(t)
  <2>1. /\ t.available >= 0 /\ \A k \in Kinds : t.reserved[k] >= 0
        /\ t.yes >= t.reserved["yes"] /\ t.no >= t.reserved["no"]
    BY <1>11, <1>15, <1>16, <1>17
  <2>. QED
    BY <1>11, <2>1, SoundIs
<1>20. Holds(t) = Holds(s) /\ t.yes = s.yes /\ t.no = s.no
  BY <1>7, <1>10, <1>11, <1>16 DEF Holds
<1>21. \A k \in Kinds : t.reserved[k] = s.reserved[k] + Minused(r, whole)[k]
  BY <1>11, <1>15 DEF Minused
<1>22. FinalSeat(W, s, Minused(r, whole), t)
  BY <1>11, <1>19, <1>20, <1>21 DEF FinalSeat
<1>. QED
  BY <1>7, <1>9, <1>18, <1>22 DEF whole, free, locked, t

LEMMA BackingSame ==
    ASSUME NEW m, MarketRules(m), NEW b, GoodBook(m, b), NEW c, GoodBook(m, c),
           c.slots = b.slots, NEW i, NEW k
    PROVE  Backing(c, i, k) = Backing(b, i, k)
<1>1. c.feeBps = b.feeBps
  <2>1. c.feeBps = m.feeBps
    BY BookFields
  <2>2. b.feeBps = m.feeBps
    BY BookFields
  <2>. QED
    BY <2>1, <2>2
<1>2. HeldIn(c, i, k) = HeldIn(b, i, k)
  BY <1>1 DEF HeldIn
<1>. QED
  BY <1>2 DEF Backing

\* What rests is in the book now, and backed there.
RestReserve(m, in, st) == IF Rests(in, st) THEN Reserve(st.taker, m.feeBps) ELSE Zero
Rested(m, W, in, st, sts, after) ==
    \E t : /\ FinalSeat(W, sts[st.taker.owner],
                        Minused(RestReserve(m, in, st), Reserve(st.taker, m.feeBps)), t)
           /\ RowTo(W, sts, st.taker.owner, t, after)

LEMMA RestBacks ==
    ASSUME NEW m, MarketRules(m), NEW in, NEW st, GoodBook(m, st.book),
           st.taker \in OrderRows(m.payout),
           NEW c, PlanLeaves(m, in, st, c), NEW W, NEW sts \in Seq(SeatRows(W)),
           st.taker.owner \in DOMAIN sts, Backed(m, st.book, st.taker, sts),
           NEW after, Rested(m, W, in, st, sts, after)
    PROVE  /\ Backed(m, c, Vacant, after) /\ Cash(after) = Cash(sts)
           /\ Shares(after, "yes") = Shares(sts, "yes") /\ Shares(after, "no") = Shares(sts, "no")
<1>. DEFINE b == st.book
            o == st.taker
            i == o.owner
            s == sts[i]
            whole == Reserve(o, m.feeBps)
            x == IF Rests(in, st) THEN o ELSE Vacant
            r == RestReserve(m, in, st)
<1>0. PICK t : FinalSeat(W, s, Minused(r, whole), t) /\ RowTo(W, sts, i, t, after)
  BY DEF Rested
<1>1. m.payout \in Nat
  BY DEF MarketRules
<1>2. m.feeBps \in 0 .. FeeBasis
  BY DEF MarketRules
<1>3. whole \in [Kinds -> Nat] /\ o # Vacant
  BY <1>1, <1>2, ReserveIs, OrderFields
<1>4. GoodBook(m, c)
  BY DEF PlanLeaves, BookInv
<1>5. /\ \A k \in Kinds : r[k] \in Nat
      /\ \A j : \A k \in Kinds : HeldBy(x, j, m.feeBps, k) = IF j = i THEN r[k] ELSE 0
  <2>1. \A k \in Kinds : Zero[k] = 0
    BY ZeroIs
  <2>. HIDE DEF whole
  <2>2. CASE Rests(in, st)
    <3>1. r = whole /\ x = o
      BY <2>2 DEF whole, RestReserve
    <3>2. \A j : \A k \in Kinds : HeldBy(o, j, m.feeBps, k) = IF j = i THEN whole[k] ELSE 0
      BY <1>3 DEF HeldBy, whole
    <3>. QED
      BY <1>3, <3>1, <3>2
  <2>3. CASE ~Rests(in, st)
    <3>1. r = Zero /\ x = Vacant
      BY <2>3 DEF RestReserve
    <3>2. \A j : \A k \in Kinds : HeldBy(Vacant, j, m.feeBps, k) = 0
      BY DEF HeldBy
    <3>. QED
      BY <2>1, <3>1, <3>2
  <2>. QED
    BY <2>2, <2>3
<1>6. ASSUME NEW j, NEW k \in Kinds
      PROVE  Backing(c, j, k) = Backing(b, j, k) + HeldBy(x, j, m.feeBps, k)
  <2>0. Backing(b, j, k) \in Nat
    BY BackingIs
  <2>1. CASE Rests(in, st)
    <3>1. PICK slot \in DOMAIN b.slots \ Resting(b) : c.slots = [b.slots EXCEPT ![slot] = o]
      BY <2>1 DEF PlanLeaves
    <3>2. Changed(b, c, slot, o)
      <4>1. c.payout = m.payout /\ c.feeBps = m.feeBps
        BY <1>4, BookFields
      <4>2. b.payout = m.payout /\ b.feeBps = m.feeBps
        BY BookFields
      <4>. QED
        BY <3>1, <4>1, <4>2 DEF Changed
    <3>. HIDE DEF b
    <3>3. GoodBook(m, b)
      BY DEF b
    <3>4. Backing(c, j, k) = Backing(b, j, k)
            + (HeldBy(o, j, m.feeBps, k) - HeldBy(b.slots[slot], j, m.feeBps, k))
      BY <1>4, <3>1, <3>2, <3>3, BackingChanges
    <3>5. b.slots[slot] = Vacant
      BY <3>1 DEF Resting
    <3>6. HeldBy(b.slots[slot], j, m.feeBps, k) = 0
      BY <3>5 DEF HeldBy
    <3>7. HeldBy(o, j, m.feeBps, k) \in Nat /\ x = o
      BY <2>1, HeldByNat
    <3>. QED
      BY <2>0, <3>4, <3>6, <3>7
  <2>2. CASE ~Rests(in, st)
    <3>1. c.slots = b.slots
      BY <2>2 DEF PlanLeaves
    <3>2. Backing(c, j, k) = Backing(b, j, k)
      BY <1>4, <3>1, BackingSame
    <3>3. HeldBy(x, j, m.feeBps, k) = 0
      BY <2>2 DEF HeldBy
    <3>. QED
      BY <2>0, <3>2, <3>3
  <2>. QED
    BY <2>1, <2>2
<1>7. /\ Sound(t) /\ Holds(t) = Holds(s) /\ t.yes = s.yes /\ t.no = s.no
      /\ \A k \in Kinds : t.reserved[k] = s.reserved[k] + (r[k] - whole[k])
  BY <1>0 DEF FinalSeat, Minused
<1>8. /\ DOMAIN after = DOMAIN sts /\ after[i] = t /\ \A j \in DOMAIN sts : j # i => after[j] = sts[j]
      /\ Cash(after) = Cash(sts) + (Holds(t) - Holds(s))
      /\ Shares(after, "yes") = Shares(sts, "yes") + (t.yes - s.yes)
      /\ Shares(after, "no") = Shares(sts, "no") + (t.no - s.no)
  BY <1>0 DEF RowTo
<1>9. /\ Cash(after) = Cash(sts)
      /\ Shares(after, "yes") = Shares(sts, "yes") /\ Shares(after, "no") = Shares(sts, "no")
  <2>1. /\ Cash(sts) \in Int /\ Shares(sts, "yes") \in Int /\ Shares(sts, "no") \in Int
        /\ Holds(s) \in Int /\ s.yes \in Int /\ s.no \in Int
    BY RowTotals
  <2>. HIDE DEF s
  <2>. QED
    BY <1>7, <1>8, <2>1
<1>10. ASSUME NEW j \in DOMAIN after, NEW k \in Kinds
       PROVE  after[j].reserved[k] = Backing(c, j, k) + HeldBy(Vacant, j, m.feeBps, k)
  <2>1. sts[j].reserved[k] = Backing(b, j, k) + HeldBy(o, j, m.feeBps, k)
    BY <1>8 DEF Backed
  <2>2. HeldBy(Vacant, j, m.feeBps, k) = 0 /\ Backing(b, j, k) \in Nat
    BY BackingIs DEF HeldBy
  <2>3. Backing(c, j, k) = Backing(b, j, k) + HeldBy(x, j, m.feeBps, k)
    BY <1>6
  <2>. HIDE DEF x, b
  <2>4. CASE j = i
    <3>1. HeldBy(o, j, m.feeBps, k) = whole[k] /\ whole[k] \in Nat
      BY <1>3, <2>4 DEF HeldBy
    <3>2. HeldBy(x, j, m.feeBps, k) = r[k] /\ r[k] \in Nat
      BY <1>5, <2>4
    <3>3. after[j].reserved[k] = sts[j].reserved[k] + (r[k] - whole[k])
      BY <1>7, <1>8, <2>4
    <3>. HIDE DEF whole
    <3>. QED
      BY <2>1, <2>2, <2>3, <3>1, <3>2, <3>3
  <2>5. CASE j # i
    <3>1. HeldBy(o, j, m.feeBps, k) = 0
      BY <2>5 DEF HeldBy
    <3>2. HeldBy(x, j, m.feeBps, k) = 0
      BY <1>5, <2>5
    <3>3. after[j] = sts[j]
      BY <1>8, <2>5
    <3>. QED
      BY <2>1, <2>2, <2>3, <3>1, <3>2, <3>3
  <2>. QED
    BY <2>4, <2>5
<1>11. \A j \in DOMAIN after : Sound(after[j])
  BY <1>7, <1>8 DEF Backed
<1>12. ASSUME NEW slot \in Resting(c)
       PROVE  c.slots[slot].owner \in DOMAIN after
  <2>1. CASE Rests(in, st)
    <3>1. PICK free \in DOMAIN b.slots \ Resting(b) : c.slots = [b.slots EXCEPT ![free] = o]
      BY <2>1 DEF PlanLeaves
    <3>2. slot # free => c.slots[slot] = b.slots[slot] /\ slot \in Resting(b)
      BY <3>1 DEF Resting
    <3>3. slot = free => c.slots[slot] = o
      BY <3>1
    <3>. QED
      BY <1>8, <3>2, <3>3 DEF Backed
  <2>2. CASE ~Rests(in, st)
    <3>1. c.slots = b.slots
      BY <2>2 DEF PlanLeaves
    <3>. QED
      BY <1>8, <3>1 DEF Backed, Resting
  <2>. QED
    BY <2>1, <2>2
<1>13. Backed(m, c, Vacant, after)
  BY <1>10, <1>11, <1>12 DEF Backed
<1>. QED
  BY <1>9, <1>13

\* What an execution writes, if it faults in nothing.
Executed(m, W, plan, done) ==
    /\ done.fault = "None" /\ done.book = plan.book
    /\ done.market \in MarketRows /\ done.market.accounted = market.accounted
    /\ done.seats \in Seq(SeatRows(W)) /\ Len(done.seats) = Len(seats)
    /\ Backed(m, plan.book, Vacant, done.seats) /\ Balanced(done.market, done.seats)

LEMMA FinishBalances ==
    ASSUME NEW m, MarketRules(m), NEW W, NEW in, NEW st, GoodBook(m, st.book),
           st.taker \in OrderRows(m.payout), st.taker.owner = in.owner,
           NEW acc, Staging(m, W, st.book, st.taker, acc),
           NEW plan, PlanLeaves(m, in, st, plan.book),
           plan.final = IF Rests(in, st) THEN Reserve(st.taker, m.feeBps) ELSE Zero
    PROVE  Executed(m, W, plan, Finish(plan, acc, in.owner))
<1>. DEFINE i == in.owner
            s == acc.seats[i]
            whole == Reserve(st.taker, m.feeBps)
            r == plan.final
            free == Unlock(s, whole)
            locked == Lock(free, r)
            t == Spent(locked, 1)
            after == [acc.seats EXCEPT ![i] = t]
            done == Finish(plan, acc, i)
<1>1. /\ acc.sound = TRUE /\ acc.reserve = whole /\ acc.seats \in Seq(SeatRows(W))
      /\ Len(acc.seats) = Len(seats) /\ acc.market \in MarketRows
      /\ acc.market.accounted = market.accounted /\ Backed(m, st.book, st.taker, acc.seats)
      /\ i \in DOMAIN acc.seats /\ Balanced(acc.market, acc.seats)
  BY DEF Staging
<1>2. done = [fault |-> IF ~(acc.sound /\ Sound(free) /\ Sound(locked)) THEN "InvalidReserves"
                        ELSE IF ~Balanced(acc.market, after) THEN "Accounting" ELSE "None",
              seats |-> after, market |-> acc.market, book |-> plan.book]
  BY <1>1 DEF Finish, Checked
<1>3. s \in SeatRows(W) /\ Sound(s)
  BY <1>1 DEF Backed
<1>4. Covers(m, s, st.taker)
  <2>1. st.taker # Vacant
    <3>1. m.payout \in Nat
      BY DEF MarketRules
    <3>. QED
      BY <3>1, OrderFields
  <2>. QED
    BY <1>1, <2>1, SeatCovers
<1>5. r = Zero \/ r = whole
  OBVIOUS
<1>. HIDE DEF s, r
<1>6. /\ Sound(free) /\ Sound(locked) /\ FinalSeat(W, s, Minused(r, whole), t)
  BY <1>3, <1>4, <1>5, RestLocks
<1>. HIDE DEF free, locked, t
<1>7. RowTo(W, acc.seats, i, t, after)
  <2>1. t \in SeatRows(W)
    BY <1>6 DEF FinalSeat
  <2>. QED
    BY <1>1, <2>1, RowChanges
<1>. HIDE DEF after, done
<1>8. /\ Backed(m, plan.book, Vacant, after) /\ Cash(after) = Cash(acc.seats)
      /\ Shares(after, "yes") = Shares(acc.seats, "yes") /\ Shares(after, "no") = Shares(acc.seats, "no")
  <2>1. r = RestReserve(m, in, st)
    BY DEF r, RestReserve
  <2>2. FinalSeat(W, acc.seats[st.taker.owner], Minused(RestReserve(m, in, st), whole), t)
    BY <1>6, <2>1 DEF s
  <2>3. RowTo(W, acc.seats, st.taker.owner, t, after) /\ st.taker.owner \in DOMAIN acc.seats
    BY <1>1, <1>7
  <2>4. Rested(m, W, in, st, acc.seats, after)
    BY <2>2, <2>3 DEF Rested
  <2>. QED
    BY <1>1, <2>3, <2>4, RestBacks
<1>9. Balanced(acc.market, after)
  BY <1>1, <1>8 DEF Balanced
<1>10. done = [fault |-> "None", seats |-> after, market |-> acc.market, book |-> plan.book]
  BY <1>1, <1>2, <1>6, <1>9
<1>11. after \in Seq(SeatRows(W)) /\ Len(after) = Len(seats)
  BY <1>1, <1>7 DEF RowTo
<1>12. Executed(m, W, plan, done)
  BY <1>1, <1>8, <1>9, <1>10, <1>11 DEF Executed
<1>. QED
  BY <1>12 DEF done

\* An execution that the book accepts and its owner can pay for does not fault.
LEMMA ExecutionBalances ==
    ASSUME BookKept, Ledger, Balanced(market, seats), NEW in \in Arrivals(setup.payout),
           in.owner \in DOMAIN seats, PlanOf(in).fault = "None", Sound(LockedSeat(in))
    PROVE  Executed(setup, Wallets, PlanOf(in), Execution(in))
<1>. DEFINE m == setup
            st == Match(Unmatched(book, in), in, now, setup.touches)
            plan == PlanOf(in)
            acc == StageAll(Unstaged(in), st.effects)
<1>1. MarketRules(m) /\ BookInv(m, book) /\ GoodBook(m, book) /\ setup.touches \in Nat
  BY SetupRules DEF BookKept, BookInv
<1>2. OnBook(m)
  BY <1>1, BookFields DEF OnBook
<1>3. Matched(m, book, OrderOf(book, in), Unmatched(book, in))
  BY <1>1, OrderOfIs
<1>4. StagingOf(m, Wallets, Unstaged(in), Unmatched(book, in))
  BY ExecutionStarts
<1>5. StagingOf(m, Wallets, Unstaged(in), st)
  BY <1>1, <1>2, <1>3, <1>4, MatchIsStaged
<1>6. PlanSays(m, book, in, now, st, plan)
  BY <1>1, PlanReserves DEF PlanOf
<1>7. PlanLeaves(m, in, st, plan.book)
  BY <1>1, PlanKeepsInv DEF PlanOf
<1>. HIDE DEF st, plan, m
<1>8. /\ Matched(m, book, OrderOf(book, in), st) /\ plan.effects = st.effects
      /\ plan.final = IF Rests(in, st) THEN Reserve(st.taker, m.feeBps) ELSE Zero
  BY <1>6 DEF PlanSays
<1>9. GoodBook(m, st.book) /\ st.taker \in OrderRows(m.payout) /\ st.taker.owner = in.owner
  BY <1>8 DEF Matched, MatchStates, GoodBook, SameOrder, OrderOf
<1>10. Staging(m, Wallets, st.book, st.taker, acc)
  BY <1>5 DEF StagingOf
<1>11. Execution(in) = Finish(plan, acc, in.owner)
  <2>1. Execution(in) = Finish(PlanOf(in), StagedBy(in), in.owner)
    BY ExecutionIs
  <2>2. StagedBy(in) = acc
    BY <1>8 DEF StagedBy, plan
  <2>. QED
    BY <2>1, <2>2 DEF plan
<1>. HIDE DEF acc
<1>12. Executed(m, Wallets, plan, Finish(plan, acc, in.owner))
  BY <1>1, <1>7, <1>8, <1>9, <1>10, FinishBalances DEF m
<1>. QED
  BY <1>11, <1>12 DEF m, plan

----------------------------------------------------------------------------
\* The custody of the market: the tokens, what the shares are worth, and what is
\* settled once trading is over.
Due(payout, outcome, seat) ==
    CASE outcome = "YES" -> payout * seat.yes
      [] outcome = "NO" -> payout * seat.no
      [] OTHER -> (payout * (seat.yes + seat.no)) \div 2
DueIn(payout, outcome, sts) == [i \in DOMAIN sts |-> Due(payout, outcome, sts[i])]
Owed(payout, outcome, sts) == SumFunction(DueIn(payout, outcome, sts))

Totals(mk, sts) == Cash(sts) + mk.collateral + mk.revenue = mk.accounted
Even(payout, mk, sts) ==
    /\ Shares(sts, "yes") = Shares(sts, "no") /\ mk.collateral = payout * Shares(sts, "yes")
Settled(r) == r.phase \in {"Resolved", "Finalized"}

Worth(payout, r, mk, sts) ==
    /\ Totals(mk, sts)
    /\ IF Settled(r)
       THEN /\ mk.collateral >= Owed(payout, r.outcome, sts)
            /\ r.outcome # "VOID" => mk.collateral = Owed(payout, r.outcome, sts)
       ELSE Even(payout, mk, sts)

Halted(b, r, sts, paid) ==
    /\ r.phase \notin {"Absent", "Open"} =>
         Resting(b) = {} /\ r.yes = Shares(sts, "yes") /\ r.no = Shares(sts, "no")
    /\ DOMAIN paid # {} => Settled(r)
    /\ DOMAIN paid \subseteq DOMAIN sts
    /\ \A i \in DOMAIN paid : sts[i].yes = 0 /\ sts[i].no = 0

Funds ==
    /\ tokens \in [Wallets -> Int] /\ vault \in Int /\ vault >= market.accounted
    /\ SumFunction(tokens) + vault = SumFunction(setup.tokens)

Seated == setup.ready => DOMAIN setup.wallets \subseteq DOMAIN seats

\* What every step keeps, with what was shown of the book and of the review.
Custody ==
    /\ Ledger /\ Funds /\ Seated /\ Worth(setup.payout, resolution, market, seats)
    /\ Halted(book, resolution, seats, receipts)

LEMMA BalancedIs ==
    ASSUME NEW mk, NEW sts
    PROVE  Balanced(mk, sts) <=> Totals(mk, sts) /\ Even(book.payout, mk, sts)
BY DEF Balanced, Totals, Even

LEMMA PayoutIs ==
    ASSUME NEW seat
    PROVE  Payout(seat) = Due(book.payout, resolution.outcome, seat)
BY DEF Payout, Due

\* A share is never worth less than nothing.
LEMMA DueIs ==
    ASSUME NEW payout \in Nat, NEW outcome, NEW W, NEW s \in SeatRows(W), Sound(s)
    PROVE  /\ Due(payout, outcome, s) \in Nat
           /\ s.yes = 0 /\ s.no = 0 => Due(payout, outcome, s) = 0
           /\ s.yes \in Nat /\ s.no \in Nat
<1>1. s.yes \in Nat /\ s.no \in Nat
  <2>1. /\ s.yes \in Int /\ s.no \in Int /\ s.reserved["yes"] \in Int /\ s.reserved["no"] \in Int
    BY DEF SeatRows, Kinds
  <2>2. /\ s.yes >= s.reserved["yes"] /\ s.no >= s.reserved["no"]
        /\ s.reserved["yes"] >= 0 /\ s.reserved["no"] >= 0
    BY SoundIs DEF Kinds
  <2>. QED
    BY <2>1, <2>2
<1>. DEFINE all == payout * (s.yes + s.no)
<1>2. payout * s.yes \in Nat /\ payout * s.no \in Nat /\ all \in Nat
  BY <1>1
<1>3. all \div 2 \in Nat
  <2>. HIDE DEF all
  <2>. QED
    BY <1>2
<1>4. Due(payout, outcome, s) \in Nat
  BY <1>2, <1>3 DEF Due
<1>5. ASSUME s.yes = 0, s.no = 0
      PROVE  Due(payout, outcome, s) = 0
  <2>1. payout * s.yes = 0 /\ payout * s.no = 0 /\ all = 0
    BY <1>5
  <2>2. all \div 2 = 0
    BY <2>1
  <2>. QED
    BY <2>1, <2>2 DEF Due
<1>. QED
  BY <1>1, <1>4, <1>5

LEMMA OwedIs ==
    ASSUME NEW payout \in Nat, NEW outcome, NEW W, NEW sts \in Seq(SeatRows(W)),
           \A i \in DOMAIN sts : Sound(sts[i])
    PROVE  /\ IsFiniteSet(DOMAIN sts) /\ DueIn(payout, outcome, sts) \in [DOMAIN sts -> Nat]
           /\ \A i \in DOMAIN sts : /\ DueIn(payout, outcome, sts)[i] = Due(payout, outcome, sts[i])
                                    /\ Due(payout, outcome, sts[i]) <= Owed(payout, outcome, sts)
                                    /\ Due(payout, outcome, sts[i]) \in Nat
           /\ Owed(payout, outcome, sts) \in Nat
           /\ (\A i \in DOMAIN sts : sts[i].yes = 0 /\ sts[i].no = 0) => Owed(payout, outcome, sts) = 0
<1>. DEFINE f == DueIn(payout, outcome, sts)
            S == DOMAIN sts
<1>1. IsFiniteSet(S) /\ \A i \in S : sts[i] \in SeatRows(W)
  BY RowTotals
<1>2. ASSUME NEW i \in S
      PROVE  /\ f[i] = Due(payout, outcome, sts[i]) /\ Due(payout, outcome, sts[i]) \in Nat
             /\ sts[i].yes = 0 /\ sts[i].no = 0 => Due(payout, outcome, sts[i]) = 0
  BY <1>1, DueIs DEF DueIn
<1>3. f \in [S -> Nat]
  BY <1>2 DEF DueIn
<1>. HIDE DEF f, S
<1>4. SumFunction(f) \in Nat /\ \A i \in S : f[i] <= SumFunction(f)
  BY <1>1, <1>3, SumIsNat, SumHasTerm
<1>5. ASSUME \A i \in S : sts[i].yes = 0 /\ sts[i].no = 0
      PROVE  SumFunction(f) = 0
  <2>1. f \in [S -> {0}]
    BY <1>2, <1>3, <1>5
  <2>. QED
    BY <1>1, <2>1, SumOfZeros
<1>. QED
  BY <1>1, <1>2, <1>3, <1>4, <1>5 DEF Owed, f, S

\* A sum does not depend on the names of its terms.
LEMMA SumRenamed ==
    ASSUME NEW D, IsFiniteSet(D), NEW f \in [D -> Int], NEW w \in Seq(D), IsInjective(w),
           Range(w) = D
    PROVE  SumFunction([i \in DOMAIN w |-> f[w[i]]]) = SumFunction(f)
<1>. DEFINE S == DOMAIN w
            g == [i \in S |-> f[w[i]]]
            named(T) == {w[i] : i \in T}
            good == {T \in SUBSET S : Sums!Total(g, T) = Sums!Total(f, named(T))}
<1>1. IsFiniteSet(S) /\ \A i \in S : w[i] \in D
  <2>1. S = 1 .. Len(w) /\ Len(w) \in Nat
    OBVIOUS
  <2>. QED
    BY <2>1, FS_Interval
<1>2. /\ \A i \in S : g[i] = f[w[i]] /\ g[i] \in Int
      /\ \A x \in D : f[x] \in Int
      /\ \A i, j \in S : w[i] = w[j] => i = j
  BY <1>1 DEF IsInjective
<1>. HIDE DEF g
<1>3. {} \in good
  <2>1. named({}) = {}
    OBVIOUS
  <2>. QED
    BY <2>1, SumLaws, Sums!SumEmpty
<1>4. ASSUME NEW T \in SUBSET S, NEW x \in S \ T, T \in good
      PROVE  T \union {x} \in good
  <2>1. IsFiniteSet(T) /\ \A y \in T \union {x} : g[y] \in Int
    BY <1>1, <1>2, FS_Subset
  <2>2. Sums!Total(g, T \union {x}) = g[x] + Sums!Total(g, T)
    BY <2>1, SumLaws, Sums!SumAdd
  <2>3. /\ named(T \union {x}) = named(T) \union {w[x]} /\ w[x] \notin named(T)
        /\ named(T) \subseteq D /\ w[x] \in D
    BY <1>1, <1>2
  <2>4. IsFiniteSet(named(T)) /\ \A y \in named(T) \union {w[x]} : f[y] \in Int
    BY <1>2, <2>3, FS_Subset
  <2>5. Sums!Total(g, T) = Sums!Total(f, named(T))
    BY <1>4
  <2>. HIDE DEF named
  <2>6. Sums!Total(f, named(T) \union {w[x]}) = f[w[x]] + Sums!Total(f, named(T))
    BY <2>3, <2>4, SumLaws, Sums!SumAdd
  <2>. QED
    BY <1>2, <2>2, <2>3, <2>5, <2>6
<1>. HIDE DEF good
<1>5. S \in good
  <2>1. \A T \in SUBSET S : \A x \in S \ T : T \in good => T \union {x} \in good
    BY <1>4
  <2>2. Up!Finite(S)
    BY <1>1, FiniteEnds DEF FamilyEnds, Up!Finite, Up!Smallest
  <2>. QED
    BY <1>3, <2>1, <2>2, Up!SetInduct
<1>6. Sums!Total(g, S) = Sums!Total(f, named(S))
  BY <1>5 DEF good
<1>7. named(S) = D
  BY DEF Range
<1>8. DOMAIN g = S /\ DOMAIN f = D
  BY DEF g
<1>. QED
  BY <1>6, <1>7, <1>8, SumOn DEF g

\* A row of seats in which nothing is reserved and nobody holds a share.
Fresh(W, sts) ==
    /\ sts \in Seq(SeatRows(W))
    /\ \A i \in DOMAIN sts : /\ sts[i].reserved = Zero /\ sts[i].available >= 0
                             /\ sts[i].yes = 0 /\ sts[i].no = 0

LEMMA FreshIs ==
    ASSUME NEW m, MarketRules(m), NEW b, GoodBook(m, b), Resting(b) = {}, NEW W, NEW sts, Fresh(W, sts)
    PROVE  /\ Backed(m, b, Vacant, sts) /\ Shares(sts, "yes") = 0 /\ Shares(sts, "no") = 0
           /\ Cash(sts) = SumFunction([i \in DOMAIN sts |-> sts[i].available])
<1>1. sts \in Seq(SeatRows(W)) /\ IsFiniteSet(DOMAIN sts) /\ \A i \in DOMAIN sts : sts[i] \in SeatRows(W)
  BY RowTotals DEF Fresh
<1>2. \A k \in Kinds : Zero[k] = 0
  BY ZeroIs
<1>3. ASSUME NEW i \in DOMAIN sts, NEW k \in Kinds
      PROVE  sts[i].reserved[k] = Backing(b, i, k) + HeldBy(Vacant, i, m.feeBps, k)
  <2>1. Backing(b, i, k) = 0
    BY BackingIs
  <2>2. HeldBy(Vacant, i, m.feeBps, k) = 0 /\ sts[i].reserved[k] = 0
    BY <1>2 DEF HeldBy, Fresh
  <2>. QED
    BY <2>1, <2>2
<1>4. ASSUME NEW i \in DOMAIN sts
      PROVE  Sound(sts[i])
  <2>1. /\ sts[i] \in SeatRows(W) /\ sts[i].available >= 0 /\ sts[i].yes = 0 /\ sts[i].no = 0
        /\ \A k \in Kinds : sts[i].reserved[k] = 0
    BY <1>1, <1>2 DEF Fresh
  <2>2. /\ \A k \in Kinds : sts[i].reserved[k] >= 0
        /\ sts[i].yes >= sts[i].reserved["yes"] /\ sts[i].no >= sts[i].reserved["no"]
    BY <2>1 DEF Kinds
  <2>. QED
    BY <2>1, <2>2, SoundIs
<1>5. Backed(m, b, Vacant, sts)
  BY <1>3, <1>4 DEF Backed
<1>6. Shares(sts, "yes") = 0
  <2>. DEFINE f == [i \in DOMAIN sts |-> sts[i].yes]
  <2>1. f \in [DOMAIN sts -> {0}]
    BY DEF Fresh
  <2>2. Shares(sts, "yes") = SumFunction(f)
    BY DEF Shares
  <2>. HIDE DEF f
  <2>. QED
    BY <1>1, <2>1, <2>2, SumOfZeros
<1>7. Shares(sts, "no") = 0
  <2>. DEFINE f == [i \in DOMAIN sts |-> sts[i].no]
  <2>1. f \in [DOMAIN sts -> {0}]
    BY DEF Fresh
  <2>2. Shares(sts, "no") = SumFunction(f)
    BY DEF Shares
  <2>. HIDE DEF f
  <2>. QED
    BY <1>1, <2>1, <2>2, SumOfZeros
<1>8. \A i \in DOMAIN sts : sts[i].available + sts[i].reserved.cash = sts[i].available
  <2>1. Zero.cash = 0
    BY DEF Zero
  <2>2. \A i \in DOMAIN sts : sts[i].available \in Int /\ sts[i].reserved.cash = 0
    BY <1>1, <2>1 DEF Fresh, SeatRows
  <2>. QED
    BY <2>2
<1>9. Cash(sts) = SumFunction([i \in DOMAIN sts |-> sts[i].available])
  BY <1>8 DEF Cash
<1>. QED
  BY <1>5, <1>6, <1>7, <1>9

\* A market that is created, or in which every wallet has deposited what it had.
LEMMA CustodyStarts ==
    ASSUME Init
    PROVE  Custody
<1>. DEFINE m == setup
            W == Wallets
<1>1. /\ setup \in Setups /\ MarketRules(m) /\ ValidSetup(setup) /\ receipts = << >>
      /\ book = EmptyBook(m.capacity, m.payout, m.feeBps)
      /\ IF setup.ready THEN Ready(setup) ELSE Created(setup)
  BY SetupRules DEF Init, Ready, Created
<1>2. GoodBook(m, book) /\ Resting(book) = {} /\ book.payout = m.payout
  <2>1. GoodBook(m, book) /\ Resting(book) = {}
    BY <1>1, EmptyKeeps
  <2>. QED
    BY <1>1, <2>1, BookFields
<1>3. /\ IsFiniteSet(W) /\ setup.tokens \in [W -> Nat] /\ setup.wallets \in Seq(W)
      /\ IsInjective(setup.wallets) /\ (setup.ready => Range(setup.wallets) = W)
  BY <1>1 DEF ValidSetup, Wallets
<1>4. setup.tokens \in [W -> Int] /\ SumFunction(setup.tokens) \in Int /\ m.payout \in Nat
  <2>1. setup.tokens \in [W -> Int]
    BY <1>3
  <2>. QED
    BY <1>1, <1>3, <2>1, SumIsInt DEF MarketRules
\* What is left to show of the seats, the tokens and the market.
<1>5. ASSUME Fresh(W, seats), tokens \in [W -> Int], vault \in Int,
             SumFunction(tokens) + vault = SumFunction(setup.tokens),
             market = [accounted |-> vault, collateral |-> 0, revenue |-> 0],
             SumFunction([i \in DOMAIN seats |-> seats[i].available]) = vault,
             resolution.phase \in {"Absent", "Open"}, Seated
      PROVE  Custody
  <2>1. /\ Backed(m, book, Vacant, seats) /\ Shares(seats, "yes") = 0 /\ Shares(seats, "no") = 0
        /\ Cash(seats) = vault
    BY <1>1, <1>2, <1>5, FreshIs
  <2>2. market \in MarketRows /\ market.accounted = vault /\ market.collateral = 0 /\ market.revenue = 0
    BY <1>5 DEF MarketRows
  <2>3. Ledger
    BY <1>5, <2>1, <2>2 DEF Ledger, Fresh
  <2>4. Funds
    BY <1>5, <2>2 DEF Funds
  <2>5. ~Settled(resolution)
    BY <1>5 DEF Settled
  <2>6. Worth(setup.payout, resolution, market, seats)
    <3>1. Totals(market, seats)
      BY <1>5, <2>1, <2>2 DEF Totals
    <3>2. m.payout * 0 = 0
      BY <1>4
    <3>3. Even(m.payout, market, seats)
      BY <2>1, <2>2, <3>2 DEF Even
    <3>. QED
      BY <2>5, <3>1, <3>3 DEF Worth
  <2>7. Halted(book, resolution, seats, receipts)
    <3>1. DOMAIN receipts = {}
      BY <1>1
    <3>. QED
      BY <1>5, <3>1 DEF Halted
  <2>. QED
    BY <1>5, <2>3, <2>4, <2>6, <2>7 DEF Custody
<1>6. CASE setup.ready
  <2>. DEFINE w == setup.wallets
              funds == SumFunction(setup.tokens)
  <2>1. /\ vault = funds /\ market = [accounted |-> funds, collateral |-> 0, revenue |-> 0]
        /\ tokens = [x \in W |-> 0]
        /\ seats = [i \in DOMAIN w |-> [NewSeat(w[i]) EXCEPT !.available = setup.tokens[w[i]], !.nonce = 1]]
        /\ resolution.phase = "Open"
    <3>1. Ready(setup)
      BY <1>1, <1>6
    <3>2. vault = funds /\ market = [accounted |-> funds, collateral |-> 0, revenue |-> 0]
      BY <3>1 DEF Ready
    <3>3. tokens = [x \in W |-> 0]
      BY <3>1 DEF Ready, Wallets
    <3>4. seats = [i \in DOMAIN w |->
                     [NewSeat(w[i]) EXCEPT !.available = setup.tokens[w[i]], !.nonce = 1]]
      BY <3>1, Zenon DEF Ready
    <3>5. resolution = [phase |-> "Open", active |-> 0, outcome |-> NoOutcome, yes |-> 0, no |-> 0]
      BY <3>1 DEF Ready
    <3>6. resolution.phase = "Open"
      BY <3>5
    <3>. QED
      BY <3>2, <3>3, <3>4, <3>6, Zenon
  <2>2. \A i \in DOMAIN w : w[i] \in W /\ setup.tokens[w[i]] \in Nat
    BY <1>3
  <2>3. /\ DOMAIN seats = DOMAIN w /\ DOMAIN w = 1 .. Len(w) /\ Len(w) \in Nat
        /\ \A i \in DOMAIN w : /\ seats[i] \in SeatRows(W) /\ seats[i].reserved = Zero
                               /\ seats[i].available = setup.tokens[w[i]]
                               /\ seats[i].yes = 0 /\ seats[i].no = 0
    <3>1. DOMAIN seats = DOMAIN w /\ DOMAIN w = 1 .. Len(w) /\ Len(w) \in Nat
      <4>1. DOMAIN seats = DOMAIN w
        BY <2>1, Zenon
      <4>2. w \in Seq(W)
        BY <1>3
      <4>. HIDE DEF w, W
      <4>. QED
        BY <4>1, <4>2
    <3>2. ASSUME NEW i \in DOMAIN w
          PROVE  /\ seats[i] \in SeatRows(W) /\ seats[i].reserved = Zero
                 /\ seats[i].available = setup.tokens[w[i]]
                 /\ seats[i].yes = 0 /\ seats[i].no = 0
      <4>1. seats[i] = [wallet |-> w[i], available |-> setup.tokens[w[i]], reserved |-> Zero,
                        yes |-> 0, no |-> 0, nonce |-> 1, traded |-> FALSE]
        BY <2>1 DEF NewSeat
      <4>2. Zero \in [Kinds -> Int]
        BY ZeroIs
      <4>3. w[i] \in W /\ setup.tokens[w[i]] \in Int
        BY <2>2
      <4>. HIDE DEF w, W
      <4>. QED
        BY <4>1, <4>2, <4>3 DEF SeatRows
    <3>. QED
      BY <3>1, <3>2
  <2>4. Fresh(W, seats)
    <3>1. \A i \in DOMAIN seats : seats[i] \in SeatRows(W) /\ seats[i].available >= 0
      BY <2>2, <2>3
    <3>2. seats = [i \in DOMAIN seats |-> seats[i]]
      BY <2>1, Zenon
    <3>. HIDE DEF w, W
    <3>3. seats \in [1 .. Len(w) -> SeatRows(W)] /\ Len(w) \in Nat
      BY <2>3, <3>1, <3>2
    <3>4. seats \in Seq(SeatRows(W))
      BY <3>3
    <3>. QED
      BY <2>3, <3>1, <3>4 DEF Fresh
  <2>5. SumFunction([i \in DOMAIN seats |-> seats[i].available]) = funds
    <3>1. SumFunction([i \in DOMAIN w |-> setup.tokens[w[i]]]) = funds
      BY <1>3, <1>4, <1>6, SumRenamed
    <3>2. [i \in DOMAIN seats |-> seats[i].available] = [i \in DOMAIN w |-> setup.tokens[w[i]]]
      BY <2>3
    <3>. QED
      BY <3>1, <3>2
  <2>6. /\ tokens \in [W -> {0}] /\ tokens \in [W -> Int]
    <3>1. tokens = [x \in W |-> 0]
      BY <2>1, Zenon
    <3>. HIDE DEF W
    <3>. QED
      BY <3>1
  <2>7. SumFunction(tokens) = 0
    BY <1>3, <2>6, SumOfZeros
  <2>8. Seated
    BY <2>3 DEF Seated
  <2>9. funds \in Int
    BY <1>4
  <2>. HIDE DEF funds
  <2>10. vault \in Int /\ SumFunction(tokens) + vault = funds
    <3>1. vault = funds
      BY <2>1, Zenon
    <3>. QED
      BY <2>7, <2>9, <3>1
  <2>. QED
    BY <1>5, <2>1, <2>4, <2>5, <2>6, <2>8, <2>10 DEF funds
<1>7. CASE ~setup.ready
  <2>1. /\ vault = 0 /\ market = [accounted |-> 0, collateral |-> 0, revenue |-> 0]
        /\ tokens = setup.tokens /\ seats = << >> /\ resolution.phase = "Absent"
    BY <1>1, <1>7 DEF Created
  <2>2. Fresh(W, seats)
    <3>1. << >> \in Seq(SeatRows(W)) /\ DOMAIN << >> = {}
      BY EmptySeq
    <3>. QED
      BY <2>1, <3>1 DEF Fresh
  <2>3. SumFunction([i \in DOMAIN seats |-> seats[i].available]) = 0
    <3>1. DOMAIN [i \in DOMAIN seats |-> seats[i].available] = {}
      BY <2>1
    <3>. QED
      BY <3>1, SumOfNone
  <2>4. Seated
    BY <1>7 DEF Seated
  <2>5. SumFunction(tokens) + vault = SumFunction(setup.tokens)
    BY <1>4, <2>1
  <2>6. tokens \in [W -> Int]
    BY <1>4, <2>1
  <2>. QED
    BY <1>5, <2>1, <2>2, <2>3, <2>4, <2>5, <2>6
<1>. QED
  BY <1>6, <1>7

----------------------------------------------------------------------------
\* What the custody says of the accounts before a step.
LEMMA Standing ==
    ASSUME BookKept, Custody
    PROVE  /\ MarketRules(setup) /\ GoodBook(setup, book) /\ setup.payout \in Nat
           /\ book.payout = setup.payout /\ book.feeBps = setup.feeBps
           /\ IsFiniteSet(Wallets)
           /\ seats \in Seq(SeatRows(Wallets)) /\ IsFiniteSet(DOMAIN seats)
           /\ \A i \in DOMAIN seats : seats[i] \in SeatRows(Wallets) /\ Sound(seats[i])
           /\ Cash(seats) \in Int /\ Shares(seats, "yes") \in Int /\ Shares(seats, "no") \in Int
           /\ market \in MarketRows /\ market.accounted \in Int /\ market.collateral \in Int
           /\ market.revenue \in Int
           /\ Backed(setup, book, Vacant, seats)
<1>1. setup \in Setups /\ BookInv(setup, book) /\ MarketRules(setup) /\ ValidSetup(setup)
  BY SetupRules DEF BookKept
<1>2. GoodBook(setup, book)
  BY <1>1 DEF BookInv
<1>3. setup.payout \in Nat
  BY <1>1 DEF MarketRules
<1>4. book.payout = setup.payout /\ book.feeBps = setup.feeBps
  BY <1>1, <1>2, BookFields
<1>5. IsFiniteSet(Wallets)
  BY <1>1 DEF ValidSetup, Wallets
<1>6. market \in MarketRows /\ seats \in Seq(SeatRows(Wallets)) /\ Backed(setup, book, Vacant, seats)
  BY DEF Custody, Ledger
<1>7. market.accounted \in Int /\ market.collateral \in Int /\ market.revenue \in Int
  BY <1>6 DEF MarketRows
<1>8. \A i \in DOMAIN seats : Sound(seats[i])
  BY <1>6 DEF Backed
<1>9. /\ IsFiniteSet(DOMAIN seats) /\ \A i \in DOMAIN seats : seats[i] \in SeatRows(Wallets)
      /\ Cash(seats) \in Int /\ Shares(seats, "yes") \in Int /\ Shares(seats, "no") \in Int
  BY <1>6, RowTotals
<1>. QED
  BY <1>1, <1>2, <1>3, <1>4, <1>5, <1>6, <1>7, <1>8, <1>9

\* A step that leaves the book, the seats and what the market accounts for, and
\* settles nothing.
Aside ==
    /\ UNCHANGED <<setup, market, seats, book, receipts>>
    /\ Settled(resolution') <=> Settled(resolution)
    /\ Settled(resolution) => resolution'.outcome = resolution.outcome
    /\ resolution'.phase \notin {"Absent", "Open"} =>
         /\ resolution.phase \notin {"Absent", "Open"}
         /\ resolution'.yes = resolution.yes /\ resolution'.no = resolution.no
    /\ Funds'

LEMMA AsideKeeps ==
    ASSUME Custody, Aside
    PROVE  Custody'
<1>1. Ledger'
  BY DEF Custody, Aside, Ledger, Wallets
<1>2. Seated'
  BY DEF Custody, Aside, Seated
<1>3. Worth(setup.payout, resolution', market, seats)
  BY DEF Custody, Aside, Worth
<1>4. Halted(book, resolution', seats, receipts)
  BY DEF Custody, Aside, Halted
<1>. QED
  BY <1>1, <1>2, <1>3, <1>4 DEF Custody, Aside

LEMMA FundsKept ==
    ASSUME Custody, UNCHANGED <<setup, market, vault, tokens>>
    PROVE  Funds'
BY DEF Custody, Funds, Wallets

\* The steps of the review that move nothing, and tokens nobody accounts for.
LEMMA QuietStep ==
    ASSUME BookKept, Review, Custody,
           \/ InitializeResolution \/ SignApproval \/ Quiet
           \/ \E outcome \in setup.outcomes : Propose(outcome)
           \/ \E f : Reject(f)
    PROVE  Custody'
<1>1. IsResolution(resolution)
  BY DEF Review
<1>2. UNCHANGED <<setup, market, vault, tokens, seats, book, receipts>>
  BY DEF InitializeResolution, TermsUnchanged, SignApproval, ProposalsUnchanged, Quiet, Propose, Reject
<1>3. \/ resolution' = resolution
      \/ /\ resolution.phase = "Absent" /\ resolution' = [resolution EXCEPT !.phase = "Open"]
      \/ /\ resolution.phase = "Closed"
         /\ resolution' = [resolution EXCEPT !.phase = "ProposalPending",
                                             !.active = Len(proposals) + 1]
      \/ /\ resolution.phase = "ProposalPending"
         /\ resolution' = [resolution EXCEPT !.phase = "Closed", !.active = 0]
  BY DEF InitializeResolution, SignApproval, Quiet, Propose, Reject, Pending
<1>4. /\ Settled(resolution') <=> Settled(resolution)
      /\ Settled(resolution) => resolution'.outcome = resolution.outcome
      /\ resolution'.phase \notin {"Absent", "Open"} =>
           /\ resolution.phase \notin {"Absent", "Open"}
           /\ resolution'.yes = resolution.yes /\ resolution'.no = resolution.no
  <2>1. CASE resolution' = resolution
    BY <2>1
  <2>2. CASE /\ resolution.phase = "Absent" /\ resolution' = [resolution EXCEPT !.phase = "Open"]
    <3>1. resolution'.phase = "Open"
      BY <1>1, <2>2 DEF IsResolution
    <3>. QED
      BY <2>2, <3>1 DEF Settled
  <2>3. CASE /\ resolution.phase = "Closed"
             /\ resolution' = [resolution EXCEPT !.phase = "ProposalPending",
                                                 !.active = Len(proposals) + 1]
    <3>1. /\ resolution'.phase = "ProposalPending" /\ resolution'.yes = resolution.yes
          /\ resolution'.no = resolution.no
      BY <1>1, <2>3 DEF IsResolution
    <3>. QED
      BY <2>3, <3>1 DEF Settled
  <2>4. CASE /\ resolution.phase = "ProposalPending"
             /\ resolution' = [resolution EXCEPT !.phase = "Closed", !.active = 0]
    <3>1. /\ resolution'.phase = "Closed" /\ resolution'.yes = resolution.yes
          /\ resolution'.no = resolution.no
      BY <1>1, <2>4 DEF IsResolution
    <3>. QED
      BY <2>4, <3>1 DEF Settled
  <2>. QED
    BY <1>3, <2>1, <2>2, <2>3, <2>4
<1>5. Funds'
  BY <1>2, FundsKept
<1>. QED
  BY <1>2, <1>4, <1>5, AsideKeeps DEF Aside

LEMMA DonateStep ==
    ASSUME BookKept, Custody, NEW w \in DOMAIN tokens, Donate(w)
    PROVE  Custody'
<1>1. /\ UNCHANGED <<setup, market, seats, book, receipts, resolution>>
      /\ tokens' = [tokens EXCEPT ![w] = tokens[w] - 1] /\ vault' = vault + 1
  BY DEF Donate
<1>2. /\ tokens \in [Wallets -> Int] /\ vault \in Int /\ vault >= market.accounted
      /\ SumFunction(tokens) + vault = SumFunction(setup.tokens)
  BY DEF Custody, Funds
<1>3. IsFiniteSet(Wallets) /\ market.accounted \in Int
  BY Standing
<1>4. w \in Wallets /\ tokens[w] \in Int
  BY <1>2
<1>5. /\ tokens' \in [Wallets -> Int] /\ tokens'[w] = tokens[w] - 1
      /\ \A x \in Wallets \ {w} : tokens'[x] = tokens[x]
  BY <1>1, <1>2, <1>4
<1>6. SumFunction(tokens') = SumFunction(tokens) + (tokens'[w] - tokens[w])
  BY <1>2, <1>3, <1>4, <1>5, SumOneChanges
<1>7. SumFunction(tokens) \in Int
  BY <1>2, <1>3, SumIsInt
<1>8. SumFunction(tokens') + vault' = SumFunction(setup.tokens)
  BY <1>1, <1>2, <1>4, <1>5, <1>6, <1>7
<1>9. vault' \in Int /\ vault' >= market.accounted
  BY <1>1, <1>2, <1>3
<1>10. Wallets' = Wallets
  BY <1>1 DEF Wallets
<1>11. Funds'
  BY <1>1, <1>5, <1>8, <1>9, <1>10 DEF Funds
<1>. QED
  BY <1>1, <1>11, AsideKeeps DEF Aside

\* While trading may go on nothing is settled or closed.
LEMMA TradingKeeps ==
    ASSUME Custody, resolution.phase \in {"Absent", "Open"},
           UNCHANGED <<setup, vault, tokens, resolution, receipts>>,
           DOMAIN seats' = DOMAIN seats, market'.accounted = market.accounted, Ledger',
           Totals(market', seats'), Even(setup.payout, market', seats')
    PROVE  Custody'
<1>1. ~Settled(resolution)
  BY DEF Settled
<1>2. Worth(setup.payout, resolution, market', seats')
  BY <1>1 DEF Worth
<1>3. DOMAIN receipts = {}
  BY <1>1 DEF Custody, Halted
<1>4. Halted(book', resolution, seats', receipts)
  BY <1>3 DEF Halted
<1>5. Funds' /\ Seated'
  BY DEF Custody, Funds, Seated, Wallets
<1>. QED
  BY <1>2, <1>4, <1>5 DEF Custody

\* An order of the book and the seat that holds its reserve.
HeldOrder(slot, o, t) ==
    /\ slot \in Resting(book) /\ o = book.slots[slot] /\ o \in OrderRows(setup.payout)
    /\ o.owner \in DOMAIN seats
    /\ UnlockedTo(setup, Wallets, seats[o.owner], o, t)

LEMMA OrderIsHeld ==
    ASSUME BookKept, Custody, NEW side \in Sides, NEW index \in DOMAIN book.heap[side]
    PROVE  LET o == OrderAt(book, side, index)
           IN HeldOrder(book.heap[side][index], o, Unlock(seats[o.owner], Reserve(o, book.feeBps)))
<1>. DEFINE slot == book.heap[side][index]
            o == book.slots[slot]
            s == seats[o.owner]
<1>1. /\ MarketRules(setup) /\ GoodBook(setup, book) /\ book.feeBps = setup.feeBps
      /\ seats \in Seq(SeatRows(Wallets)) /\ Backed(setup, book, Vacant, seats)
      /\ \A i \in DOMAIN seats : seats[i] \in SeatRows(Wallets) /\ Sound(seats[i])
  BY Standing
<1>2. slot \in Resting(book)
  BY <1>1, InHeap DEF SlotsOf
<1>3. o \in OrderRows(setup.payout)
  BY <1>1, <1>2, BookOrders
<1>4. o.owner \in DOMAIN seats
  BY <1>1, <1>2 DEF Backed
<1>5. Covers(setup, s, o)
  BY <1>1, <1>2, SeatCovers
<1>6. UnlockedTo(setup, Wallets, s, o, Unlock(s, Reserve(o, setup.feeBps)))
  BY <1>1, <1>3, <1>4, <1>5, Unlocks
<1>. QED
  BY <1>1, <1>2, <1>3, <1>4, <1>6 DEF HeldOrder, OrderAt

\* A cancellation or a clean-up.
LEMMA ReleaseStep ==
    ASSUME BookKept, Custody, BookKept', NEW side \in Sides, NEW index \in DOMAIN book.heap[side],
           NEW spent \in {0, 1}, Release(side, index, spent)
    PROVE  Custody'
<1>. DEFINE m == setup
            W == Wallets
            slot == book.heap[side][index]
            o == OrderAt(book, side, index)
            i == o.owner
            s == seats[i]
            free == Unlock(s, Reserve(o, book.feeBps))
            t == Spent(free, spent)
            after == [seats EXCEPT ![i] = t]
<1>1. /\ MarketRules(m) /\ GoodBook(m, book) /\ seats \in Seq(SeatRows(W)) /\ m.payout \in Nat
      /\ \A j \in DOMAIN seats : seats[j] \in SeatRows(W) /\ Sound(seats[j])
      /\ Cash(seats) \in Int /\ Shares(seats, "yes") \in Int /\ Shares(seats, "no") \in Int
      /\ market \in MarketRows /\ Backed(m, book, Vacant, seats)
  BY Standing
<1>2. /\ seats' = after /\ book' = RemoveOrder(book, side, index)
      /\ UNCHANGED <<setup, market, vault, tokens, resolution, receipts>>
  BY DEF Release
<1>3. HeldOrder(slot, o, free)
  BY OrderIsHeld
<1>4. /\ slot \in Resting(book) /\ o = book.slots[slot] /\ o \in OrderRows(m.payout)
      /\ i \in DOMAIN seats /\ free \in SeatRows(W) /\ Sound(free) /\ Holds(free) = Holds(s)
      /\ free.yes = s.yes /\ free.no = s.no
      /\ \A k \in Kinds : free.reserved[k] = s.reserved[k] - Reserve(o, m.feeBps)[k]
  BY <1>3, Zenon DEF HeldOrder, UnlockedTo
<1>. HIDE DEF free
<1>5. /\ t \in SeatRows(W) /\ t.reserved = free.reserved /\ t.available = free.available
      /\ t.yes = free.yes /\ t.no = free.no
  <2>1. spent \in Nat
    OBVIOUS
  <2>. QED
    BY <1>4, <2>1, Unspent, Zenon
<1>. HIDE DEF t
<1>6. Sound(t) /\ Holds(t) = Holds(s)
  <2>1. Sound(t)
    BY <1>4, <1>5, Zenon DEF Sound
  <2>2. Holds(t) = Holds(free)
    BY <1>5 DEF Holds
  <2>. QED
    BY <1>4, <2>1, <2>2, Zenon
<1>7. RowTo(W, seats, i, t, after)
  BY <1>1, <1>4, <1>5, RowChanges, Zenon
<1>. HIDE DEF after
<1>8. /\ after \in Seq(SeatRows(W)) /\ DOMAIN after = DOMAIN seats
      /\ after[i] = t /\ \A j \in DOMAIN seats : j # i => after[j] = seats[j]
      /\ Cash(after) = Cash(seats) + (Holds(t) - Holds(s))
      /\ Shares(after, "yes") = Shares(seats, "yes") + (t.yes - s.yes)
      /\ Shares(after, "no") = Shares(seats, "no") + (t.no - s.no)
  BY <1>7 DEF RowTo
<1>9. Cash(after) = Cash(seats) /\ Shares(after, "yes") = Shares(seats, "yes")
      /\ Shares(after, "no") = Shares(seats, "no")
  <2>1. Holds(s) \in Int /\ s.yes \in Int /\ s.no \in Int
    BY <1>1, <1>4, RowTotals, Zenon
  <2>2. t.yes = s.yes /\ t.no = s.no
    BY <1>4, <1>5, Zenon
  <2>. HIDE DEF s
  <2>. QED
    BY <1>1, <1>6, <1>8, <2>1, <2>2
<1>10. GoodBook(m, book') /\ Changed(book, book', slot, Vacant)
  <2>1. DOMAIN book.heap[side] = 1 .. Len(book.heap[side])
    <3>1. IsRow(book.heap[side])
      BY <1>1, HeapOf
    <3>. QED
      BY <3>1 DEF IsRow
  <2>2. RemovedFrom(m, book, slot, RemoveOrder(book, side, index))
    BY <1>1, <2>1, RemoveKeeps
  <2>. QED
    BY <1>2, <2>2 DEF RemovedFrom
<1>11. SeatFollows(m, book, slot, Vacant, seats, after)
  <2>1. \A k \in Kinds : HeldBy(Vacant, i, m.feeBps, k) = 0
    BY DEF HeldBy
  <2>2. \A k \in Kinds : s.reserved[k] \in Int /\ Reserve(o, m.feeBps)[k] \in Int
    <3>1. m.feeBps \in 0 .. FeeBasis
      BY <1>1 DEF MarketRules
    <3>2. Reserve(o, m.feeBps) \in [Kinds -> Nat]
      BY <1>1, <1>4, <3>1, ReserveIs, Zenon
    <3>3. s \in SeatRows(W)
      BY <1>1, <1>4
    <3>. HIDE DEF o, i, s
    <3>. QED
      BY <3>2, <3>3 DEF SeatRows
  <2>3. \A k \in Kinds : after[i].reserved[k] = s.reserved[k] - Reserve(o, m.feeBps)[k]
                                                  + HeldBy(Vacant, i, m.feeBps, k)
    <3>. HIDE DEF o, i, s
    <3>. QED
      BY <1>4, <1>5, <1>8, <2>1, <2>2
  <2>4. Sound(after[i])
    BY <1>6, <1>8
  <2>5. i = book.slots[slot].owner /\ o = book.slots[slot] /\ s = seats[i]
    BY <1>4, Zenon
  <2>. HIDE DEF o, i, s
  <2>. QED
    BY <1>8, <2>3, <2>4, <2>5, Zenon DEF SeatFollows
<1>12. Backed(m, book', Vacant, after)
  BY <1>1, <1>4, <1>8, <1>10, <1>11, BackedAfter, Zenon
<1>13. Ledger'
  BY <1>1, <1>2, <1>8, <1>12 DEF Ledger, Wallets
<1>14. resolution.phase \in {"Absent", "Open"}
  <2>1. Resting(book) # {}
    BY <1>4, Zenon
  <2>. QED
    BY <2>1 DEF Custody, Halted
<1>15. Totals(market, seats) /\ Even(m.payout, market, seats)
  BY <1>14 DEF Custody, Worth, Settled
<1>16. Totals(market', seats') /\ Even(setup.payout, market', seats')
  BY <1>2, <1>9, <1>15 DEF Totals, Even
<1>. QED
  BY <1>2, <1>8, <1>13, <1>14, <1>16, TradingKeeps

\* Whoever sends an order has a seat.
LEMMA SendersAreSeated ==
    ASSUME BookKept, Custody
    PROVE  \A in \in Incoming : in \in Arrivals(setup.payout) /\ in.owner \in DOMAIN seats
<1>1. setup \in Setups /\ BookInv(setup, book) /\ MarketRules(setup) /\ ValidSetup(setup)
  BY SetupRules DEF BookKept
<1>2. book.next \in Nat \ {0}
  BY <1>1, BookFields DEF BookInv
<1>3. Incoming \subseteq Arrivals(setup.payout)
  BY <1>1, <1>2, ArrivalsArrive
<1>4. ASSUME book.next <= Len(setup.opening)
      PROVE  setup.opening[book.next].owner \in DOMAIN seats
  <2>1. setup.opening \in Seq(Arrivals(setup.payout))
    BY <1>1 DEF ValidSetup
  <2>2. book.next \in DOMAIN setup.opening
    BY <1>2, <1>4, <2>1
  <2>3. setup.ready /\ setup.opening[book.next].owner \in DOMAIN setup.wallets
    BY <1>1, <2>2 DEF ValidSetup
  <2>. QED
    BY <2>3 DEF Custody, Seated
<1>. QED
  BY <1>3, <1>4 DEF Incoming

LEMMA PlaceStep ==
    ASSUME BookKept, Custody, NEW in \in Incoming, Place(in)
    PROVE  Custody'
<1>. DEFINE done == Execution(in)
<1>1. /\ UNCHANGED <<setup, vault, tokens, resolution, receipts>>
      /\ done.fault = "None" /\ seats' = done.seats /\ market' = done.market /\ book' = done.book
      /\ Admitted(seats[in.owner].wallet)
  BY DEF Place
<1>2. in \in Arrivals(setup.payout) /\ in.owner \in DOMAIN seats
  BY SendersAreSeated
<1>3. resolution.phase = "Open"
  BY <1>1 DEF Admitted, Open
<1>4. Totals(market, seats) /\ Even(setup.payout, market, seats)
  BY <1>3 DEF Custody, Worth, Settled
<1>5. /\ book.payout = setup.payout /\ seats \in Seq(SeatRows(Wallets))
  BY Standing
<1>6. Balanced(market, seats)
  BY <1>4, <1>5, BalancedIs
<1>7. PlanOf(in).fault = "None" /\ Sound(LockedSeat(in)) /\ done.book = PlanOf(in).book
  BY <1>1, CommittedIs
<1>8. Executed(setup, Wallets, PlanOf(in), done)
  <2>1. Ledger
    BY DEF Custody
  <2>. QED
    BY <1>2, <1>6, <1>7, <2>1, ExecutionBalances
<1>. HIDE DEF done
<1>9. /\ done.market \in MarketRows /\ done.market.accounted = market.accounted
      /\ done.seats \in Seq(SeatRows(Wallets)) /\ Len(done.seats) = Len(seats)
      /\ Backed(setup, done.book, Vacant, done.seats) /\ Balanced(done.market, done.seats)
  BY <1>7, <1>8 DEF Executed
<1>10. DOMAIN seats' = DOMAIN seats
  BY <1>1, <1>5, <1>9
<1>11. Totals(market', seats') /\ Even(setup.payout, market', seats')
  BY <1>1, <1>5, <1>9, BalancedIs
<1>12. Ledger'
  BY <1>1, <1>9 DEF Ledger, Wallets
<1>. QED
  BY <1>1, <1>3, <1>9, <1>10, <1>11, <1>12, TradingKeeps

\* The seats change in other ways than by an order while the book's reserves stay:
\* nothing reserved changes.
LEMMA SameReserves ==
    ASSUME NEW m, NEW b, NEW sts, NEW after, Backed(m, b, Vacant, sts),
           DOMAIN after = DOMAIN sts,
           \A i \in DOMAIN sts : Sound(after[i]) /\ after[i].reserved = sts[i].reserved
    PROVE  Backed(m, b, Vacant, after)
BY DEF Backed

\* Cash comes or goes.
LEMMA MoveCashStep ==
    ASSUME BookKept, Custody, NEW i \in DOMAIN seats, NEW amount \in Int, MoveCash(i, amount)
    PROVE  Custody'
<1>. DEFINE W == Wallets
            s == seats[i]
            w == s.wallet
            t == [s EXCEPT !.available = s.available + amount, !.nonce = s.nonce + 1]
            after == [seats EXCEPT ![i] = t]
<1>1. /\ UNCHANGED <<setup, book, resolution, receipts>>
      /\ s.available + amount >= 0
      /\ tokens' = [tokens EXCEPT ![w] = tokens[w] - amount] /\ vault' = vault + amount
      /\ market' = [market EXCEPT !.accounted = market.accounted + amount]
      /\ seats' = [seats EXCEPT ![i].available = seats[i].available + amount,
                                ![i].nonce = seats[i].nonce + 1]
  BY DEF MoveCash
<1>2. /\ seats \in Seq(SeatRows(W)) /\ s \in SeatRows(W) /\ Sound(s) /\ IsFiniteSet(W)
      /\ market \in MarketRows /\ market.accounted \in Int /\ market.collateral \in Int
      /\ market.revenue \in Int /\ Backed(setup, book, Vacant, seats) /\ Cash(seats) \in Int
      /\ Shares(seats, "yes") \in Int /\ Shares(seats, "no") \in Int
      /\ \A j \in DOMAIN seats : Sound(seats[j])
  BY Standing
<1>3. /\ w \in W /\ s.available \in Int /\ s.nonce \in Nat /\ s.reserved \in [Kinds -> Int]
      /\ s.yes \in Int /\ s.no \in Int /\ Holds(s) \in Int /\ s.reserved.cash \in Int
  BY <1>2 DEF SeatRows, Kinds, Holds
<1>4. seats' = after
  BY <1>1, <1>2
<1>5. /\ t \in SeatRows(W) /\ t.available = s.available + amount /\ t.reserved = s.reserved
      /\ t.yes = s.yes /\ t.no = s.no
  <2>1. s.available + amount \in Int /\ s.nonce + 1 \in Nat
    BY <1>3
  <2>. HIDE DEF s
  <2>. QED
    BY <1>2, <2>1 DEF SeatRows
<1>. HIDE DEF t
<1>6. RowTo(W, seats, i, t, after)
  BY <1>2, <1>5, RowChanges
<1>. HIDE DEF after
<1>7. /\ after \in Seq(SeatRows(W)) /\ DOMAIN after = DOMAIN seats
      /\ after[i] = t /\ \A j \in DOMAIN seats : j # i => after[j] = seats[j]
      /\ Cash(after) = Cash(seats) + (Holds(t) - Holds(s))
      /\ Shares(after, "yes") = Shares(seats, "yes") + (t.yes - s.yes)
      /\ Shares(after, "no") = Shares(seats, "no") + (t.no - s.no)
  BY <1>6 DEF RowTo
<1>. HIDE DEF s
<1>8. /\ Cash(after) = Cash(seats) + amount /\ Shares(after, "yes") = Shares(seats, "yes")
      /\ Shares(after, "no") = Shares(seats, "no")
  <2>1. Holds(t) = Holds(s) + amount /\ Holds(s) \in Int
    BY <1>3, <1>5 DEF Holds
  <2>. QED
    BY <1>2, <1>3, <1>5, <1>7, <2>1
<1>9. Sound(t)
  BY <1>1, <1>2, <1>5 DEF Sound
<1>10. Backed(setup, book, Vacant, after)
  <2>1. \A j \in DOMAIN seats : Sound(after[j]) /\ after[j].reserved = seats[j].reserved
    BY <1>2, <1>5, <1>7, <1>9 DEF s
  <2>. QED
    BY <1>2, <1>7, <2>1, SameReserves
<1>11. /\ market' \in MarketRows /\ market'.accounted = market.accounted + amount
       /\ market'.collateral = market.collateral /\ market'.revenue = market.revenue
  BY <1>1, <1>2 DEF MarketRows
<1>12. Ledger'
  BY <1>1, <1>4, <1>7, <1>10, <1>11 DEF Ledger, Wallets
<1>13. Funds'
  <2>1. /\ tokens \in [W -> Int] /\ vault \in Int /\ vault >= market.accounted
        /\ SumFunction(tokens) + vault = SumFunction(setup.tokens)
    BY DEF Custody, Funds
  <2>2. /\ tokens' \in [W -> Int] /\ tokens'[w] = tokens[w] - amount /\ tokens[w] \in Int
        /\ \A x \in W \ {w} : tokens'[x] = tokens[x]
    <3>. HIDE DEF w, W
    <3>. QED
      BY <1>1, <1>3, <2>1
  <2>. HIDE DEF w
  <2>3. SumFunction(tokens') = SumFunction(tokens) + (tokens'[w] - tokens[w])
    <3>1. IsFiniteSet(W) /\ w \in W /\ tokens \in [W -> Int] /\ tokens' \in [W -> Int]
      BY <1>2, <1>3, <2>1, <2>2
    <3>2. \A x \in W \ {w} : tokens'[x] = tokens[x]
      BY <2>2
    <3>. QED
      BY <3>1, <3>2, SumOneChanges
  <2>4. SumFunction(tokens) \in Int
    BY <1>2, <2>1, SumIsInt
  <2>5. SumFunction(tokens') + vault' = SumFunction(setup.tokens)
    BY <1>1, <2>1, <2>2, <2>3, <2>4
  <2>6. vault' \in Int /\ vault' >= market'.accounted
    BY <1>1, <1>2, <1>11, <2>1
  <2>7. Wallets' = W
    BY <1>1 DEF Wallets
  <2>. QED
    BY <1>1, <2>2, <2>5, <2>6, <2>7 DEF Funds
<1>14. DueIn(setup.payout, resolution.outcome, after) = DueIn(setup.payout, resolution.outcome, seats)
  <2>1. \A j \in DOMAIN seats : after[j].yes = seats[j].yes /\ after[j].no = seats[j].no
    BY <1>5, <1>7 DEF s
  <2>. QED
    BY <1>7, <2>1 DEF DueIn, Due
<1>15. Worth(setup.payout, resolution, market', after)
  <2>1. Worth(setup.payout, resolution, market, seats)
    BY DEF Custody
  <2>2. Totals(market', after)
    BY <1>2, <1>8, <1>11, <2>1 DEF Worth, Totals
  <2>3. Owed(setup.payout, resolution.outcome, after) = Owed(setup.payout, resolution.outcome, seats)
    BY <1>14 DEF Owed
  <2>. QED
    BY <1>8, <1>11, <2>1, <2>2, <2>3 DEF Worth, Even
<1>16. Halted(book, resolution, after, receipts)
  <2>1. \A j \in DOMAIN seats : after[j].yes = seats[j].yes /\ after[j].no = seats[j].no
    BY <1>5, <1>7 DEF s
  <2>2. Halted(book, resolution, seats, receipts)
    BY DEF Custody
  <2>. QED
    BY <1>7, <1>8, <2>1, <2>2 DEF Halted
<1>17. Seated'
  BY <1>1, <1>4, <1>7 DEF Custody, Seated
<1>. QED
  BY <1>1, <1>4, <1>12, <1>13, <1>15, <1>16, <1>17 DEF Custody

\* A seat with no order in the book has nothing reserved by it.
LEMMA BackingNothing ==
    ASSUME NEW m, MarketRules(m), NEW b, GoodBook(m, b), NEW i, NEW k \in Kinds,
           \A s \in Resting(b) : b.slots[s].owner # i
    PROVE  Backing(b, i, k) = 0
<1>. DEFINE f == HeldIn(b, i, k)
            S == DOMAIN b.slots
<1>1. /\ IsFiniteSet(S) /\ f \in [S -> Nat]
      /\ \A s \in S : f[s] = HeldBy(b.slots[s], i, m.feeBps, k)
  BY HeldInIs
<1>2. \A s \in S : HeldBy(b.slots[s], i, m.feeBps, k) = 0
  BY DEF Resting, HeldBy
<1>. HIDE DEF f, S
<1>3. f \in [S -> {0}]
  BY <1>1, <1>2
<1>. QED
  BY <1>1, <1>3, SumOfZeros DEF Backing, f

\* A seat is opened: it holds nothing yet.
RowAdded(W, sts, t, after) ==
    /\ after \in Seq(SeatRows(W)) /\ DOMAIN after = DOMAIN sts \union {Len(sts) + 1}
    /\ Len(sts) + 1 \notin DOMAIN sts /\ after[Len(sts) + 1] = t
    /\ \A j \in DOMAIN sts : after[j] = sts[j]
    /\ Cash(after) = Cash(sts) + Holds(t)
    /\ Shares(after, "yes") = Shares(sts, "yes") + t.yes
    /\ Shares(after, "no") = Shares(sts, "no") + t.no

LEMMA RowGrows ==
    ASSUME NEW W, NEW sts \in Seq(SeatRows(W)), NEW t \in SeatRows(W)
    PROVE  RowAdded(W, sts, t, Append(sts, t))
<1>. DEFINE after == Append(sts, t)
            S == DOMAIN sts
            x == Len(sts) + 1
            cash(q) == [j \in DOMAIN q |-> q[j].available + q[j].reserved.cash]
            yes(q) == [j \in DOMAIN q |-> q[j].yes]
            no(q) == [j \in DOMAIN q |-> q[j].no]
<1>1. /\ after \in Seq(SeatRows(W)) /\ DOMAIN after = S \union {x} /\ x \notin S /\ after[x] = t
      /\ \A j \in S : after[j] = sts[j]
  OBVIOUS
<1>2. /\ IsFiniteSet(S)
      /\ \A j \in S : Holds(sts[j]) \in Int /\ sts[j].yes \in Int /\ sts[j].no \in Int
  BY RowTotals
<1>. HIDE DEF after, x
<1>3. \A j \in DOMAIN after : Holds(after[j]) \in Int /\ after[j].yes \in Int /\ after[j].no \in Int
  BY <1>1, RowTotals
<1>4. Extends(S, cash(sts), x, cash(after)) /\ cash(after)[x] = Holds(t)
  BY <1>1, <1>2, <1>3 DEF Extends, Holds
<1>5. Extends(S, yes(sts), x, yes(after)) /\ yes(after)[x] = t.yes
  BY <1>1, <1>2, <1>3 DEF Extends
<1>6. Extends(S, no(sts), x, no(after)) /\ no(after)[x] = t.no
  BY <1>1, <1>2, <1>3 DEF Extends
<1>7. /\ Cash(sts) = SumFunction(cash(sts)) /\ Cash(after) = SumFunction(cash(after))
      /\ Shares(sts, "yes") = SumFunction(yes(sts)) /\ Shares(after, "yes") = SumFunction(yes(after))
      /\ Shares(sts, "no") = SumFunction(no(sts)) /\ Shares(after, "no") = SumFunction(no(after))
  BY DEF Cash, Shares
<1>. HIDE DEF cash, yes, no
<1>8. SumFunction(cash(after)) = SumFunction(cash(sts)) + cash(after)[x]
  BY <1>4, SumOneMore
<1>9. SumFunction(yes(after)) = SumFunction(yes(sts)) + yes(after)[x]
  BY <1>5, SumOneMore
<1>10. SumFunction(no(after)) = SumFunction(no(sts)) + no(after)[x]
  BY <1>6, SumOneMore
<1>11. /\ after \in Seq(SeatRows(W)) /\ DOMAIN after = S \union {x} /\ x \notin S /\ after[x] = t
       /\ \A j \in S : after[j] = sts[j]
       /\ Cash(after) = Cash(sts) + Holds(t)
       /\ Shares(after, "yes") = Shares(sts, "yes") + t.yes
       /\ Shares(after, "no") = Shares(sts, "no") + t.no
  BY <1>1, <1>4, <1>5, <1>6, <1>7, <1>8, <1>9, <1>10
<1>. QED
  BY <1>11 DEF RowAdded, after, x

\* The new seat is owed nothing.
LEMMA OwedGrows ==
    ASSUME NEW payout \in Nat, NEW outcome, NEW W, NEW sts \in Seq(SeatRows(W)),
           NEW after \in Seq(SeatRows(W)), NEW t, RowAdded(W, sts, t, after),
           \A i \in DOMAIN after : Sound(after[i]), t.yes = 0, t.no = 0
    PROVE  Owed(payout, outcome, after) = Owed(payout, outcome, sts)
<1>. DEFINE f == DueIn(payout, outcome, sts)
            g == DueIn(payout, outcome, after)
            S == DOMAIN sts
            x == Len(sts) + 1
<1>1. /\ DOMAIN after = S \union {x} /\ x \notin S /\ after[x] = t
      /\ \A j \in S : after[j] = sts[j]
  BY DEF RowAdded
<1>2. \A i \in DOMAIN sts : Sound(sts[i])
  BY <1>1
<1>3. /\ IsFiniteSet(S) /\ f \in [S -> Nat] /\ \A i \in S : f[i] = Due(payout, outcome, sts[i])
      /\ Owed(payout, outcome, sts) = SumFunction(f) /\ Owed(payout, outcome, sts) \in Nat
  BY <1>2, OwedIs DEF Owed
<1>4. /\ g \in [S \union {x} -> Nat] /\ \A i \in S \union {x} : g[i] = Due(payout, outcome, after[i])
      /\ Owed(payout, outcome, after) = SumFunction(g)
  <2>1. /\ g \in [DOMAIN after -> Nat] /\ \A i \in DOMAIN after : g[i] = Due(payout, outcome, after[i])
    BY OwedIs
  <2>. QED
    BY <1>1, <2>1 DEF Owed
<1>5. g[x] = 0
  <2>1. after[x] \in SeatRows(W) /\ Sound(after[x]) /\ after[x].yes = 0 /\ after[x].no = 0
    BY <1>1
  <2>2. Due(payout, outcome, after[x]) = 0
    BY <2>1, DueIs
  <2>. QED
    BY <1>4, <2>2
<1>. HIDE DEF f, g, x
<1>6. Extends(S, f, x, g)
  <2>1. f \in [S -> Int] /\ g \in [S \union {x} -> Int] /\ \A y \in S : g[y] = f[y]
    BY <1>1, <1>3, <1>4
  <2>. QED
    BY <1>1, <1>3, <2>1 DEF Extends
<1>7. SumFunction(g) = SumFunction(f) + g[x]
  BY <1>6, SumOneMore
<1>. QED
  BY <1>3, <1>4, <1>5, <1>7

LEMMA RegisterStep ==
    ASSUME BookKept, Custody, NEW w \in DOMAIN tokens, RegisterSeat(w)
    PROVE  Custody'
<1>. DEFINE W == Wallets
            t == NewSeat(w)
            x == Len(seats) + 1
            after == Append(seats, t)
<1>1. /\ UNCHANGED <<setup, market, vault, tokens, book, resolution, receipts>>
      /\ seats' = after
  BY DEF RegisterSeat
<1>2. /\ MarketRules(setup) /\ GoodBook(setup, book) /\ setup.payout \in Nat
      /\ seats \in Seq(SeatRows(W)) /\ Backed(setup, book, Vacant, seats) /\ market \in MarketRows
      /\ Cash(seats) \in Int /\ Shares(seats, "yes") \in Int /\ Shares(seats, "no") \in Int
      /\ \A j \in DOMAIN seats : Sound(seats[j])
  BY Standing
<1>3. w \in W
  BY DEF Custody, Funds
<1>4. /\ t \in SeatRows(W) /\ t.available = 0 /\ t.reserved = Zero /\ t.yes = 0 /\ t.no = 0
  <2>1. Zero \in [Kinds -> Int]
    BY ZeroIs
  <2>2. t = [wallet |-> w, available |-> 0, reserved |-> Zero, yes |-> 0, no |-> 0,
             nonce |-> 0, traded |-> FALSE]
    BY DEF NewSeat
  <2>. HIDE DEF t, W
  <2>. QED
    BY <1>3, <2>1, <2>2 DEF SeatRows
<1>. HIDE DEF t
<1>5. \A k \in Kinds : t.reserved[k] = 0
  BY <1>4, ZeroIs
<1>6. Sound(t) /\ Holds(t) = 0
  <2>1. /\ t.available >= 0 /\ \A k \in Kinds : t.reserved[k] >= 0
        /\ t.yes >= t.reserved["yes"] /\ t.no >= t.reserved["no"]
    BY <1>4, <1>5 DEF Kinds
  <2>2. t.reserved.cash = 0
    BY <1>5 DEF Kinds
  <2>. QED
    BY <1>4, <2>1, <2>2, SoundIs DEF Holds
<1>7. RowAdded(W, seats, t, after)
  BY <1>2, <1>4, RowGrows
<1>. HIDE DEF after
<1>8. /\ after \in Seq(SeatRows(W)) /\ DOMAIN after = DOMAIN seats \union {x}
      /\ x \notin DOMAIN seats /\ after[x] = t /\ \A j \in DOMAIN seats : after[j] = seats[j]
      /\ Cash(after) = Cash(seats) + Holds(t)
      /\ Shares(after, "yes") = Shares(seats, "yes") + t.yes
      /\ Shares(after, "no") = Shares(seats, "no") + t.no
  BY <1>7 DEF RowAdded
<1>. HIDE DEF x
<1>9. /\ Cash(after) = Cash(seats) /\ Shares(after, "yes") = Shares(seats, "yes")
      /\ Shares(after, "no") = Shares(seats, "no")
  BY <1>2, <1>4, <1>6, <1>8
<1>10. \A j \in DOMAIN after : Sound(after[j])
  BY <1>2, <1>6, <1>8
<1>11. Backed(setup, book, Vacant, after)
  <2>1. \A s \in Resting(book) : book.slots[s].owner \in DOMAIN seats
    BY <1>2 DEF Backed
  <2>2. ASSUME NEW j \in DOMAIN after, NEW k \in Kinds
        PROVE  after[j].reserved[k] = Backing(book, j, k) + HeldBy(Vacant, j, setup.feeBps, k)
    <3>1. CASE j \in DOMAIN seats
      BY <1>2, <1>8, <3>1 DEF Backed
    <3>2. CASE j = x
      <4>1. \A s \in Resting(book) : book.slots[s].owner # j
        BY <1>8, <2>1, <3>2
      <4>2. Backing(book, j, k) = 0
        BY <1>2, <4>1, BackingNothing
      <4>3. HeldBy(Vacant, j, setup.feeBps, k) = 0 /\ after[j].reserved[k] = 0
        BY <1>5, <1>8, <3>2 DEF HeldBy
      <4>. QED
        BY <4>2, <4>3
    <3>. QED
      BY <1>8, <3>1, <3>2
  <2>3. \A s \in Resting(book) : book.slots[s].owner \in DOMAIN after
    BY <1>8, <2>1
  <2>. QED
    BY <1>10, <2>2, <2>3 DEF Backed
<1>12. Ledger'
  BY <1>1, <1>2, <1>8, <1>11 DEF Ledger, Wallets
<1>13. Owed(setup.payout, resolution.outcome, after) = Owed(setup.payout, resolution.outcome, seats)
  BY <1>2, <1>4, <1>7, <1>8, <1>10, OwedGrows
<1>14. Worth(setup.payout, resolution, market, after)
  <2>1. Worth(setup.payout, resolution, market, seats)
    BY DEF Custody
  <2>. QED
    BY <1>9, <1>13, <2>1 DEF Worth, Totals, Even
<1>15. Halted(book, resolution, after, receipts)
  <2>1. Halted(book, resolution, seats, receipts)
    BY DEF Custody
  <2>2. DOMAIN receipts \subseteq DOMAIN seats
    BY <2>1 DEF Halted
  <2>3. \A j \in DOMAIN receipts : after[j] = seats[j] /\ j \in DOMAIN after
    BY <1>8, <2>2
  <2>. QED
    BY <1>9, <2>1, <2>2, <2>3 DEF Halted
<1>16. Seated'
  BY <1>1, <1>8 DEF Custody, Seated
<1>17. Funds'
  BY <1>1, FundsKept
<1>. QED
  BY <1>1, <1>12, <1>14, <1>15, <1>16, <1>17 DEF Custody

\* What all the shares are worth: a payout for every pair of them.
Scales(S, c, f, g) ==
    /\ IsFiniteSet(S) /\ c \in Int /\ f \in [S -> Int] /\ g \in [S -> Int]
    /\ \A x \in S : g[x] = c * f[x]
Joins(S, f, g, h) ==
    /\ IsFiniteSet(S) /\ f \in [S -> Int] /\ g \in [S -> Int] /\ h \in [S -> Int]
    /\ \A x \in S : h[x] = f[x] + g[x]

LEMMA SumOfScaled ==
    ASSUME NEW S, NEW c, NEW f, NEW g, Scales(S, c, f, g)
    PROVE  SumFunction(g) = c * SumFunction(f)
<1>1. Sums!Scaled(f, g, c, S) /\ c \in Int
  BY DEF Sums!Scaled, Scales
<1>2. DOMAIN f = S /\ DOMAIN g = S /\ Sums!Finite(S)
  BY SumLaws DEF Scales
<1>3. Sums!Total(g, S) = c * Sums!Total(f, S)
  BY <1>1, <1>2, SumLaws, Sums!SumScale
<1>. QED
  BY <1>2, <1>3, SumOn

LEMMA SumOfPlus ==
    ASSUME NEW S, NEW f, NEW g, NEW h, Joins(S, f, g, h)
    PROVE  SumFunction(h) = SumFunction(f) + SumFunction(g)
<1>1. \A x \in S : f[x] \in Int /\ g[x] \in Int /\ h[x] = f[x] + g[x]
  BY DEF Joins
<1>2. DOMAIN f = S /\ DOMAIN g = S /\ DOMAIN h = S /\ Sums!Finite(S)
  BY SumLaws DEF Joins
<1>3. Sums!Total(h, S) = Sums!Total(f, S) + Sums!Total(g, S)
  BY <1>1, <1>2, SumLaws, Sums!SumPlus
<1>. QED
  BY <1>2, <1>3, SumOn

LEMMA SumOfLess ==
    ASSUME NEW S, IsFiniteSet(S), NEW f \in [S -> Int], NEW g \in [S -> Int],
           \A x \in S : f[x] <= g[x]
    PROVE  SumFunction(f) <= SumFunction(g)
<1>1. \A x \in S : f[x] \in Int /\ g[x] \in Int /\ f[x] <= g[x]
  OBVIOUS
<1>2. DOMAIN f = S /\ DOMAIN g = S /\ Sums!Finite(S)
  BY SumLaws
<1>3. Sums!Total(f, S) <= Sums!Total(g, S)
  BY <1>1, <1>2, SumLaws, Sums!SumMonotone
<1>. QED
  BY <1>2, <1>3, SumOn

LEMMA PairsPay ==
    ASSUME NEW payout \in Nat, NEW outcome \in {"YES", "NO", "VOID"}, NEW W,
           NEW sts \in Seq(SeatRows(W)), \A i \in DOMAIN sts : Sound(sts[i]),
           Shares(sts, "yes") = Shares(sts, "no")
    PROVE  /\ payout * Shares(sts, "yes") >= Owed(payout, outcome, sts)
           /\ outcome # "VOID" => payout * Shares(sts, "yes") = Owed(payout, outcome, sts)
<1>. DEFINE S == DOMAIN sts
            due == DueIn(payout, outcome, sts)
            yes == [i \in S |-> sts[i].yes]
            no == [i \in S |-> sts[i].no]
            pairs == Shares(sts, "yes")
<1>1. /\ IsFiniteSet(S) /\ due \in [S -> Nat] /\ \A i \in S : due[i] = Due(payout, outcome, sts[i])
      /\ Owed(payout, outcome, sts) = SumFunction(due)
  BY OwedIs DEF Owed
<1>2. /\ \A i \in S : sts[i].yes \in Int /\ sts[i].no \in Int
      /\ pairs \in Int
  BY RowTotals
<1>3. /\ yes \in [S -> Int] /\ no \in [S -> Int]
      /\ \A i \in S : yes[i] = sts[i].yes /\ no[i] = sts[i].no
      /\ SumFunction(yes) = pairs /\ SumFunction(no) = pairs
  BY <1>2 DEF Shares
<1>4. due \in [S -> Int] /\ payout \in Int /\ 2 \in Int
  BY <1>1
<1>. HIDE DEF S, due, yes, no, pairs
<1>5. CASE outcome = "YES"
  <2>1. \A i \in S : due[i] = payout * yes[i]
    BY <1>1, <1>3, <1>5 DEF Due
  <2>2. SumFunction(due) = payout * SumFunction(yes)
    <3>1. Scales(S, payout, yes, due)
      BY <1>1, <1>3, <1>4, <2>1 DEF Scales
    <3>. QED
      BY <3>1, SumOfScaled
  <2>3. payout * pairs \in Int
    BY <1>2
  <2>. QED
    BY <1>1, <1>3, <2>2, <2>3 DEF pairs
<1>6. CASE outcome = "NO"
  <2>1. \A i \in S : due[i] = payout * no[i]
    BY <1>1, <1>3, <1>6 DEF Due
  <2>2. SumFunction(due) = payout * SumFunction(no)
    <3>1. Scales(S, payout, no, due)
      BY <1>1, <1>3, <1>4, <2>1 DEF Scales
    <3>. QED
      BY <3>1, SumOfScaled
  <2>3. payout * pairs \in Int
    BY <1>2
  <2>. QED
    BY <1>1, <1>3, <2>2, <2>3 DEF pairs
<1>7. CASE outcome = "VOID"
  <2>. DEFINE both == [i \in S |-> yes[i] + no[i]]
              all == [i \in S |-> payout * both[i]]
              twice == [i \in S |-> 2 * due[i]]
  <2>1. both \in [S -> Int] /\ \A i \in S : both[i] = yes[i] + no[i]
    BY <1>3
  <2>2. SumFunction(both) = pairs + pairs
    <3>. HIDE DEF both
    <3>1. Joins(S, yes, no, both)
      BY <1>1, <1>3, <2>1 DEF Joins
    <3>2. SumFunction(both) = SumFunction(yes) + SumFunction(no)
      BY <3>1, SumOfPlus
    <3>. QED
      BY <1>3, <3>2
  <2>3. all \in [S -> Int] /\ \A i \in S : all[i] = payout * both[i]
    <3>. HIDE DEF both
    <3>. QED
      BY <2>1
  <2>4. SumFunction(all) = payout * SumFunction(both)
    <3>. HIDE DEF both, all
    <3>1. Scales(S, payout, both, all)
      BY <1>1, <1>4, <2>1, <2>3 DEF Scales
    <3>. QED
      BY <3>1, SumOfScaled
  <2>5. twice \in [S -> Int] /\ \A i \in S : twice[i] = 2 * due[i]
    BY <1>4
  <2>6. SumFunction(twice) = 2 * SumFunction(due)
    <3>. HIDE DEF twice
    <3>1. Scales(S, 2, due, twice)
      BY <1>1, <1>4, <2>5 DEF Scales
    <3>. QED
      BY <3>1, SumOfScaled
  <2>7. ASSUME NEW i \in S
        PROVE  twice[i] <= all[i]
    <3>. DEFINE a == payout * (sts[i].yes + sts[i].no)
    <3>1. due[i] = a \div 2
      BY <1>1, <1>7 DEF Due
    <3>2. all[i] = a /\ a \in Int
      <4>1. both[i] = sts[i].yes + sts[i].no /\ both[i] \in Int
        BY <1>3, <2>1
      <4>. HIDE DEF both, all
      <4>2. payout * both[i] \in Int
        BY <4>1
      <4>. QED
        BY <2>3, <4>1, <4>2
    <3>. HIDE DEF a, all
    <3>3. 2 * (a \div 2) <= a
      BY <3>2
    <3>. HIDE DEF twice
    <3>. QED
      BY <2>5, <3>1, <3>2, <3>3
  <2>. HIDE DEF both, all, twice
  <2>8. SumFunction(twice) <= SumFunction(all)
    BY <1>1, <2>3, <2>5, <2>7, SumOfLess
  <2>9. payout * (pairs + pairs) = 2 * (payout * pairs) /\ payout * pairs \in Int
    BY <1>2
  <2>10. SumFunction(due) \in Int
    BY <1>1, <1>4, SumIsInt
  <2>11. SumFunction(due) <= payout * pairs
    <3>. DEFINE worth == payout * pairs
    <3>1. SumFunction(all) = 2 * worth /\ worth \in Int
      BY <2>2, <2>4, <2>9
    <3>. HIDE DEF worth
    <3>2. 2 * SumFunction(due) <= 2 * worth
      BY <2>6, <2>8, <3>1
    <3>. QED
      BY <2>10, <3>1, <3>2 DEF worth
  <2>. QED
    BY <1>1, <1>7, <2>9, <2>10, <2>11 DEF pairs
<1>. QED
  BY <1>5, <1>6, <1>7

\* Nothing is owed once nobody holds a share.
LEMMA NothingOwed ==
    ASSUME NEW payout \in Nat, NEW outcome, NEW W, NEW sts \in Seq(SeatRows(W)),
           \A i \in DOMAIN sts : Sound(sts[i]), Shares(sts, "yes") = 0, Shares(sts, "no") = 0
    PROVE  Owed(payout, outcome, sts) = 0
<1>. DEFINE S == DOMAIN sts
            yes == [i \in S |-> sts[i].yes]
            no == [i \in S |-> sts[i].no]
<1>1. IsFiniteSet(S) /\ \A i \in S : sts[i] \in SeatRows(W)
  BY RowTotals
<1>2. \A i \in S : sts[i].yes \in Nat /\ sts[i].no \in Nat
  BY <1>1, DueIs
<1>3. /\ yes \in [S -> Nat] /\ no \in [S -> Nat]
      /\ \A i \in S : yes[i] = sts[i].yes /\ no[i] = sts[i].no
      /\ SumFunction(yes) = 0 /\ SumFunction(no) = 0
  BY <1>2 DEF Shares
<1>4. ASSUME NEW i \in S
      PROVE  sts[i].yes = 0 /\ sts[i].no = 0
  <2>. HIDE DEF yes, no, S
  <2>1. yes[i] <= SumFunction(yes) /\ no[i] <= SumFunction(no)
    BY <1>1, <1>3, SumHasTerm
  <2>. QED
    BY <1>2, <1>3, <2>1
<1>. QED
  BY <1>4, OwedIs

\* Trading ends.
LEMMA CloseStep ==
    ASSUME BookKept, Review, Custody, CloseResolution
    PROVE  Custody'
<1>. DEFINE y == Shares(seats, "yes")
            n == Shares(seats, "no")
<1>1. /\ UNCHANGED <<setup, market, vault, tokens, seats, book, receipts>>
      /\ resolution.phase = "Open" /\ Resting(book) = {}
      /\ resolution' = [resolution EXCEPT !.phase = "Closed", !.yes = y, !.no = n]
  BY DEF CloseResolution, Closable, Drained
<1>. HIDE DEF y, n
<1>2. resolution'.phase = "Closed" /\ resolution'.yes = y /\ resolution'.no = n
  BY <1>1 DEF Review, IsResolution
<1>3. ~Settled(resolution) /\ ~Settled(resolution')
  BY <1>1, <1>2 DEF Settled
<1>4. Worth(setup.payout, resolution', market, seats)
  BY <1>3 DEF Custody, Worth
<1>5. Halted(book, resolution', seats, receipts)
  <2>1. DOMAIN receipts = {}
    BY <1>3 DEF Custody, Halted
  <2>. QED
    BY <1>1, <1>2, <2>1 DEF Halted, y, n
<1>6. Ledger' /\ Seated'
  BY <1>1 DEF Custody, Ledger, Wallets, Seated
<1>7. Funds'
  BY <1>1, FundsKept
<1>. QED
  BY <1>1, <1>4, <1>5, <1>6, <1>7 DEF Custody

\* The outcome is settled.
LEMMA ApproveStep ==
    ASSUME BookKept, Review, Custody, NEW f \in signed, Approve(f)
    PROVE  Custody'
<1>. DEFINE outcome == proposals[f.sequence].outcome
<1>1. /\ UNCHANGED <<setup, market, vault, tokens, seats, book, receipts>>
      /\ resolution.phase = "ProposalPending" /\ f.sequence = resolution.active
      /\ proposals[f.sequence].status = "Pending"
      /\ resolution' = [resolution EXCEPT !.phase = "Resolved", !.active = 0, !.outcome = outcome]
  BY DEF Approve, Pending, ProposalsUnchanged
<1>2. outcome \in {"YES", "NO", "VOID"}
  <2>1. /\ proposals \in Seq(ProposalRows) /\ resolution.active = Len(proposals)
        /\ Len(proposals) # 0
    BY <1>1 DEF Review
  <2>2. f.sequence \in DOMAIN proposals
    BY <1>1, <2>1
  <2>3. proposals[f.sequence] \in ProposalRows
    BY <2>1, <2>2
  <2>4. outcome \in setup.outcomes
    BY <2>3 DEF ProposalRows
  <2>5. setup.outcomes \subseteq {"YES", "NO", "VOID"}
    BY SetupRules DEF BookKept, ValidSetup
  <2>. QED
    BY <2>4, <2>5
<1>. HIDE DEF outcome
<1>3. /\ resolution'.phase = "Resolved" /\ resolution'.outcome = outcome
      /\ resolution'.yes = resolution.yes /\ resolution'.no = resolution.no
  BY <1>1 DEF Review, IsResolution
<1>4. ~Settled(resolution) /\ Settled(resolution')
  BY <1>1, <1>3 DEF Settled
<1>5. Totals(market, seats) /\ Even(setup.payout, market, seats)
  BY <1>4 DEF Custody, Worth
<1>6. /\ market.collateral >= Owed(setup.payout, outcome, seats)
      /\ outcome # "VOID" => market.collateral = Owed(setup.payout, outcome, seats)
  <2>1. /\ setup.payout \in Nat /\ seats \in Seq(SeatRows(Wallets))
        /\ \A i \in DOMAIN seats : Sound(seats[i])
    BY Standing
  <2>. QED
    BY <1>2, <1>5, <2>1, PairsPay DEF Even
<1>7. Worth(setup.payout, resolution', market, seats)
  BY <1>3, <1>4, <1>5, <1>6 DEF Worth
<1>8. Halted(book, resolution', seats, receipts)
  BY <1>1, <1>3, <1>4 DEF Custody, Halted
<1>9. Ledger' /\ Seated'
  BY <1>1 DEF Custody, Ledger, Wallets, Seated
<1>10. Funds'
  BY <1>1, FundsKept
<1>. QED
  BY <1>1, <1>7, <1>8, <1>9, <1>10 DEF Custody

\* What is left of the collateral becomes revenue.
LEMMA FinalizeStep ==
    ASSUME BookKept, Review, Custody, FinalizeResolution
    PROVE  Custody'
<1>1. /\ UNCHANGED <<setup, vault, tokens, seats, book, receipts>>
      /\ resolution.phase = "Resolved"
      /\ Shares(seats, "yes") = 0 /\ Shares(seats, "no") = 0
      /\ market' = [market EXCEPT !.collateral = 0, !.revenue = market.revenue + market.collateral]
      /\ resolution' = [resolution EXCEPT !.phase = "Finalized"]
  BY DEF FinalizeResolution, Finalizable
<1>2. /\ resolution'.phase = "Finalized" /\ resolution'.outcome = resolution.outcome
      /\ resolution'.yes = resolution.yes /\ resolution'.no = resolution.no
  BY <1>1 DEF Review, IsResolution
<1>3. /\ setup.payout \in Nat /\ seats \in Seq(SeatRows(Wallets)) /\ Cash(seats) \in Int
      /\ \A i \in DOMAIN seats : Sound(seats[i])
      /\ market \in MarketRows /\ market.accounted \in Int /\ market.collateral \in Int
      /\ market.revenue \in Int
  BY Standing
<1>4. /\ market' \in MarketRows /\ market'.accounted = market.accounted /\ market'.collateral = 0
      /\ market'.revenue = market.revenue + market.collateral
  <2>. DEFINE revenue == market.revenue + market.collateral
              accounted == market.accounted
              u == [market EXCEPT !.collateral = 0]
  <2>1. revenue \in Int /\ accounted \in Int
    BY <1>3
  <2>2. market = [accounted |-> accounted, collateral |-> market.collateral, revenue |-> market.revenue]
    BY <1>3 DEF MarketRows
  <2>3. market' = [u EXCEPT !.revenue = revenue]
    BY <1>1
  <2>. HIDE DEF revenue, accounted
  <2>4. u = [accounted |-> accounted, collateral |-> 0, revenue |-> market.revenue]
    BY <2>2
  <2>. HIDE DEF u
  <2>5. market' = [accounted |-> accounted, collateral |-> 0, revenue |-> revenue]
    BY <2>3, <2>4
  <2>6. /\ market' \in MarketRows /\ market'.accounted = accounted
        /\ market'.collateral = 0 /\ market'.revenue = revenue
    BY <2>1, <2>5 DEF MarketRows
  <2>. QED
    BY <2>6 DEF revenue, accounted
<1>5. Owed(setup.payout, resolution.outcome, seats) = 0
  BY <1>1, <1>3, NothingOwed
<1>6. Settled(resolution) /\ Settled(resolution')
  BY <1>1, <1>2 DEF Settled
<1>7. Worth(setup.payout, resolution', market', seats)
  <2>1. Totals(market, seats)
    BY DEF Custody, Worth
  <2>2. Totals(market', seats)
    BY <1>3, <1>4, <2>1 DEF Totals
  <2>. QED
    BY <1>2, <1>4, <1>5, <1>6, <2>2 DEF Worth
<1>8. Halted(book, resolution', seats, receipts)
  BY <1>1, <1>2, <1>6 DEF Custody, Halted
<1>9. Ledger' /\ Seated'
  BY <1>1, <1>4 DEF Custody, Ledger, Wallets, Seated
<1>10. Funds'
  BY <1>1, <1>4 DEF Custody, Funds, Wallets
<1>. QED
  BY <1>1, <1>7, <1>8, <1>9, <1>10 DEF Custody

\* A claim empties a seat of its shares, and the others are owed what they were.
LEMMA ClaimStep ==
    ASSUME BookKept, Review, Custody, NEW i \in DOMAIN seats, ClaimResolution(i)
    PROVE  Custody'
<1>. DEFINE W == Wallets
            s == seats[i]
            paid == Payout(s)
            t == [s EXCEPT !.available = s.available + paid, !.yes = 0, !.no = 0]
            after == [seats EXCEPT ![i] = t]
            outcome == resolution.outcome
<1>1. /\ UNCHANGED <<setup, vault, tokens, book>>
      /\ resolution.phase = "Resolved" /\ s.reserved = Zero
      /\ seats' = [seats EXCEPT ![i].available = seats[i].available + paid, ![i].yes = 0, ![i].no = 0]
      /\ market' = [market EXCEPT !.collateral = market.collateral - paid]
      /\ resolution' = [resolution EXCEPT !.yes = resolution.yes - s.yes,
                                          !.no = resolution.no - s.no]
      /\ receipts' = [j \in DOMAIN receipts \union {i} |-> IF j = i THEN paid ELSE receipts[j]]
  BY DEF ClaimResolution, Claimable, Drained
<1>2. /\ book.payout = setup.payout /\ setup.payout \in Nat /\ seats \in Seq(SeatRows(W))
      /\ s \in SeatRows(W) /\ Sound(s) /\ \A j \in DOMAIN seats : Sound(seats[j])
      /\ Cash(seats) \in Int /\ Shares(seats, "yes") \in Int /\ Shares(seats, "no") \in Int
      /\ market \in MarketRows /\ market.accounted \in Int /\ market.collateral \in Int
      /\ market.revenue \in Int /\ Backed(setup, book, Vacant, seats)
  BY Standing
<1>3. paid = Due(setup.payout, outcome, s) /\ paid \in Nat /\ s.yes \in Nat /\ s.no \in Nat
  BY <1>2, PayoutIs, DueIs
<1>. HIDE DEF paid
<1>4. /\ s.available \in Int /\ s.reserved \in [Kinds -> Int] /\ Holds(s) \in Int
      /\ s.reserved.cash \in Int
  BY <1>2 DEF SeatRows, Kinds, Holds
<1>5. seats' = after
  BY <1>1, <1>2
<1>6. /\ t \in SeatRows(W) /\ t.available = s.available + paid /\ t.reserved = s.reserved
      /\ t.yes = 0 /\ t.no = 0
  <2>. DEFINE available == s.available + paid
              u == [s EXCEPT !.available = available, !.yes = 0, !.no = 0]
  <2>1. available \in Int
    BY <1>3, <1>4
  <2>. HIDE DEF s, available
  <2>2. u \in SeatRows(W) /\ SeatWith(s, u, available, s.reserved, 0, 0)
    <3>1. 0 \in Int
      OBVIOUS
    <3>. QED
      BY <1>2, <2>1, <3>1, SeatPaid
  <2>3. u = t
    BY DEF available
  <2>. HIDE DEF u, t
  <2>. QED
    BY <2>2, <2>3 DEF available, SeatWith
<1>. HIDE DEF t
<1>7. RowTo(W, seats, i, t, after)
  BY <1>2, <1>6, RowChanges
<1>. HIDE DEF after, s
<1>8. /\ after \in Seq(SeatRows(W)) /\ DOMAIN after = DOMAIN seats
      /\ after[i] = t /\ \A j \in DOMAIN seats : j # i => after[j] = seats[j]
      /\ Cash(after) = Cash(seats) + (Holds(t) - Holds(s))
      /\ Shares(after, "yes") = Shares(seats, "yes") + (t.yes - s.yes)
      /\ Shares(after, "no") = Shares(seats, "no") + (t.no - s.no)
  BY <1>7 DEF RowTo, s
<1>9. /\ Cash(after) = Cash(seats) + paid /\ Shares(after, "yes") = Shares(seats, "yes") - s.yes
      /\ Shares(after, "no") = Shares(seats, "no") - s.no
  <2>1. Holds(t) = Holds(s) + paid
    BY <1>3, <1>4, <1>6 DEF Holds
  <2>2. /\ Cash(seats) \in Int /\ Shares(seats, "yes") \in Int /\ Shares(seats, "no") \in Int
        /\ Holds(s) \in Int /\ t.yes = 0 /\ t.no = 0
    BY <1>2, <1>4, <1>6
  <2>3. Cash(after) = Cash(seats) + paid
    BY <1>3, <1>8, <2>1, <2>2
  <2>. QED
    BY <1>3, <1>8, <2>2, <2>3
<1>10. Sound(t)
  <2>1. \A k \in Kinds : t.reserved[k] = 0
    BY <1>1, <1>6, ZeroIs
  <2>2. s.available >= 0
    BY <1>2 DEF Sound
  <2>3. /\ t.available >= 0 /\ t.yes >= t.reserved["yes"] /\ t.no >= t.reserved["no"]
        /\ \A k \in Kinds : t.reserved[k] >= 0
    BY <1>3, <1>4, <1>6, <2>1, <2>2 DEF Kinds
  <2>. QED
    BY <1>6, <2>3, SoundIs
<1>11. \A j \in DOMAIN seats : Sound(after[j]) /\ after[j].reserved = seats[j].reserved
  BY <1>2, <1>6, <1>8, <1>10 DEF s
<1>12. Backed(setup, book, Vacant, after)
  BY <1>2, <1>8, <1>11, SameReserves
<1>13. /\ market' \in MarketRows /\ market'.accounted = market.accounted
       /\ market'.collateral = market.collateral - paid /\ market'.revenue = market.revenue
  BY <1>1, <1>2, <1>3 DEF MarketRows
<1>14. Ledger'
  BY <1>1, <1>5, <1>8, <1>12, <1>13 DEF Ledger, Wallets
<1>15. Funds' /\ Seated'
  BY <1>1, <1>5, <1>8, <1>13 DEF Custody, Funds, Seated, Wallets
<1>16. /\ Owed(setup.payout, outcome, after) = Owed(setup.payout, outcome, seats) - paid
       /\ Owed(setup.payout, outcome, seats) \in Int
  <2>. DEFINE f == DueIn(setup.payout, outcome, seats)
              g == DueIn(setup.payout, outcome, after)
              S == DOMAIN seats
  <2>1. /\ IsFiniteSet(S) /\ f \in [S -> Nat]
        /\ \A j \in S : f[j] = Due(setup.payout, outcome, seats[j])
        /\ Owed(setup.payout, outcome, seats) = SumFunction(f)
        /\ Owed(setup.payout, outcome, seats) \in Nat
    BY <1>2, OwedIs DEF Owed
  <2>2. /\ g \in [S -> Nat] /\ \A j \in S : g[j] = Due(setup.payout, outcome, after[j])
        /\ Owed(setup.payout, outcome, after) = SumFunction(g)
    <3>1. \A j \in DOMAIN after : Sound(after[j])
      BY <1>8, <1>11
    <3>2. /\ g \in [DOMAIN after -> Nat]
          /\ \A j \in DOMAIN after : g[j] = Due(setup.payout, outcome, after[j])
      BY <1>2, <1>8, <3>1, OwedIs
    <3>. QED
      BY <1>8, <3>2 DEF Owed
  <2>3. Due(setup.payout, outcome, t) = 0
    BY <1>2, <1>6, <1>10, DueIs
  <2>4. f[i] = paid /\ g[i] = 0 /\ \A j \in S \ {i} : g[j] = f[j]
    BY <1>3, <1>8, <2>1, <2>2, <2>3 DEF s
  <2>. HIDE DEF f, g
  <2>5. SumFunction(g) = SumFunction(f) + (g[i] - f[i])
    <3>1. IsFiniteSet(S) /\ f \in [S -> Int] /\ g \in [S -> Int] /\ i \in S
      BY <2>1, <2>2
    <3>2. \A j \in S \ {i} : g[j] = f[j]
      BY <2>4
    <3>. HIDE DEF S
    <3>. QED
      BY <3>1, <3>2, SumOneChanges
  <2>. QED
    BY <1>3, <2>1, <2>2, <2>4, <2>5
<1>17. /\ resolution'.phase = "Resolved" /\ resolution'.outcome = outcome
       /\ resolution'.yes = resolution.yes - s.yes /\ resolution'.no = resolution.no - s.no
  BY <1>1 DEF Review, IsResolution
<1>18. Settled(resolution) /\ Settled(resolution')
  BY <1>1, <1>17 DEF Settled
<1>19. Worth(setup.payout, resolution', market', after)
  <2>1. /\ Totals(market, seats) /\ market.collateral >= Owed(setup.payout, outcome, seats)
        /\ outcome # "VOID" => market.collateral = Owed(setup.payout, outcome, seats)
    BY <1>18 DEF Custody, Worth
  <2>2. Totals(market', after)
    BY <1>2, <1>3, <1>9, <1>13, <2>1 DEF Totals
  <2>3. market'.collateral >= Owed(setup.payout, outcome, after)
    BY <1>2, <1>3, <1>13, <1>16, <2>1
  <2>4. outcome # "VOID" => market'.collateral = Owed(setup.payout, outcome, after)
    BY <1>13, <1>16, <2>1
  <2>. QED
    BY <1>17, <1>18, <2>2, <2>3, <2>4 DEF Worth
<1>20. Halted(book, resolution', after, receipts')
  <2>1. /\ Resting(book) = {} /\ resolution.yes = Shares(seats, "yes")
        /\ resolution.no = Shares(seats, "no") /\ DOMAIN receipts \subseteq DOMAIN seats
        /\ \A j \in DOMAIN receipts : seats[j].yes = 0 /\ seats[j].no = 0
    BY <1>1 DEF Custody, Halted
  <2>2. DOMAIN receipts' = DOMAIN receipts \union {i}
    BY <1>1
  <2>3. \A j \in DOMAIN receipts' : j \in DOMAIN after /\ after[j].yes = 0 /\ after[j].no = 0
    BY <1>6, <1>8, <2>1, <2>2
  <2>. QED
    BY <1>9, <1>17, <1>18, <2>1, <2>3 DEF Halted
<1>. QED
  BY <1>1, <1>5, <1>14, <1>15, <1>19, <1>20 DEF Custody

LEMMA CustodyKept ==
    ASSUME BookKept, Review, Custody, [Next]_vars
    PROVE  Custody'
<1>1. Moves /\ BookKept'
  BY EveryStep, BookIsKept
<1>2. CASE \E in \in Incoming : Place(in)
  BY <1>2, PlaceStep
<1>3. CASE \E w \in DOMAIN tokens : RegisterSeat(w)
  BY <1>3, RegisterStep
<1>4. CASE \E w \in DOMAIN tokens : Donate(w)
  BY <1>4, DonateStep
<1>5. CASE \E i \in DOMAIN seats, amount \in setup.amounts : MoveCash(i, amount) \/ MoveCash(i, -amount)
  <2>1. PICK i \in DOMAIN seats, amount \in setup.amounts : MoveCash(i, amount) \/ MoveCash(i, -amount)
    BY <1>5
  <2>2. setup.amounts \subseteq Nat
    BY SetupRules DEF BookKept, ValidSetup
  <2>3. amount \in Int /\ -amount \in Int
    BY <2>2
  <2>4. CASE MoveCash(i, amount)
    BY <2>3, <2>4, MoveCashStep
  <2>5. CASE MoveCash(i, -amount)
    <3>. DEFINE n == -amount
    <3>1. n \in Int /\ MoveCash(i, n)
      BY <2>3, <2>5
    <3>. HIDE DEF n
    <3>. QED
      BY <3>1, MoveCashStep
  <2>. QED
    BY <2>1, <2>4, <2>5
<1>6. CASE \E i \in DOMAIN seats : ClaimResolution(i)
  BY <1>6, ClaimStep
<1>7. CASE \E side \in Sides : \E index \in DOMAIN book.heap[side], spent \in {0, 1} :
              Release(side, index, spent)
  BY <1>1, <1>7, ReleaseStep
<1>8. CASE CloseResolution
  BY <1>8, CloseStep
<1>9. CASE \E f \in signed : Approve(f)
  BY <1>9, ApproveStep
<1>10. CASE FinalizeResolution
  BY <1>10, FinalizeStep
<1>11. CASE \/ InitializeResolution \/ SignApproval \/ Quiet
            \/ \E outcome \in setup.outcomes : Propose(outcome)
            \/ \E f : Reject(f)
  BY <1>11, QuietStep
<1>. QED
  BY <1>1, <1>2, <1>3, <1>4, <1>5, <1>6, <1>7, <1>8, <1>9, <1>10, <1>11 DEF Moves

\* The invariant of the exchange.
Kept == BookKept /\ Review /\ Custody

LEMMA ExchangeKept == Spec => []Kept
<1>1. Init => Kept
  BY BookStarts, ReviewStarts, CustodyStarts DEF Kept
<1>2. Kept /\ [Next]_vars => Kept'
  BY BookIsKept, ReviewKept, CustodyKept DEF Kept
<1>. QED
  BY <1>1, <1>2, PTL DEF Spec

\* An order that the book accepts and its owner can pay for is executed: every
\* fill and removal of its plan is covered by what the seats have reserved, and
\* the staged accounts balance (exchange.rs execute, InvalidReserves and
\* Accounting).
THEOREM AcceptedOrdersExecute == Spec => []ExecutionNeverFaults
<1>1. ASSUME Kept
      PROVE  ExecutionNeverFaults
  <2>1. BookKept /\ Ledger
    BY <1>1 DEF Kept, Custody
  <2>2. setup.orders \subseteq Arrivals(setup.payout)
    BY <2>1, SetupRules DEF BookKept, ValidSetup
  <2>3. ASSUME Open, NEW in \in setup.orders, in.owner \in DOMAIN seats
        PROVE  Execution(in).fault \notin {"InvalidReserves", "Accounting"}
    <3>1. Balanced(market, seats)
      <4>1. Totals(market, seats) /\ Even(setup.payout, market, seats)
        BY <1>1, <2>3 DEF Kept, Custody, Worth, Open, Settled
      <4>2. book.payout = setup.payout
        BY <1>1, Standing DEF Kept
      <4>. QED
        BY <4>1, <4>2, BalancedIs
    <3>2. CASE PlanOf(in).fault # "None"
      <4>1. Execution(in).fault = PlanOf(in).fault
        BY <3>2, ExecutionIs
      <4>2. \E st : PlanOf(in).fault = PlanFault(in, now, st)
        BY PlanIs DEF PlanOf, Planned
      <4>3. \A st : PlanFault(in, now, st) \notin {"InvalidReserves", "Accounting"}
        BY DEF PlanFault
      <4>. QED
        BY <4>1, <4>2, <4>3
    <3>3. CASE PlanOf(in).fault = "None" /\ ~Sound(LockedSeat(in))
      <4>1. Execution(in) = [fault |-> "Insufficient"]
        BY <3>3, ExecutionIs
      <4>. QED
        BY <4>1
    <3>4. CASE PlanOf(in).fault = "None" /\ Sound(LockedSeat(in))
      <4>1. Executed(setup, Wallets, PlanOf(in), Execution(in))
        BY <2>1, <2>2, <2>3, <3>1, <3>4, ExecutionBalances
      <4>. QED
        BY <4>1 DEF Executed
    <3>. QED
      BY <3>2, <3>3, <3>4
  <2>. QED
    BY <2>3 DEF ExecutionNeverFaults
<1>. QED
  BY <1>1, ExchangeKept, PTL

\* Every token is in a wallet or in the vault, what the market accounts for is a
\* seat's, collateral or revenue, and the collateral pays for what the shares are
\* worth: a payout for each pair until the market is resolved, and what is still
\* to be claimed afterwards (exchange.rs Totals::verify, resolution.rs
\* verify_vault).
THEOREM CollateralPays == Spec => []Collateralized
<1>1. ASSUME Kept
      PROVE  Collateralized
  <2>1. Worth(setup.payout, resolution, market, seats) /\ Funds
    BY <1>1 DEF Kept, Custody
  <2>2. book.payout = setup.payout
    BY <1>1, Standing DEF Kept
  <2>3. SumFunction([i \in DOMAIN seats |-> Payout(seats[i])])
          = Owed(setup.payout, resolution.outcome, seats)
    BY <2>2, PayoutIs DEF Owed, DueIn
  <2>4. Totals(market, seats)
    BY <2>1 DEF Worth
  <2>5. CASE resolution.phase \in {"Resolved", "Finalized"}
    BY <2>1, <2>3, <2>4, <2>5 DEF Collateralized, Worth, Settled, Funds, Totals
  <2>6. CASE resolution.phase \notin {"Resolved", "Finalized"}
    <3>1. Balanced(market, seats)
      BY <2>1, <2>2, <2>6, BalancedIs DEF Worth, Settled
    <3>. QED
      BY <2>1, <2>4, <2>6, <3>1 DEF Collateralized, Funds, Totals
  <2>. QED
    BY <2>5, <2>6
<1>. QED
  BY <1>1, ExchangeKept, PTL

\* With no order in the book nothing is reserved, and every keeper's snapshot of
\* the seats agrees.
LEMMA EmptyIsDrained ==
    ASSUME BookKept, Custody, Resting(book) = {}
    PROVE  CanonicalSnapshot /\ Drained /\ Funded
<1>1. /\ MarketRules(setup) /\ GoodBook(setup, book) /\ Backed(setup, book, Vacant, seats)
      /\ \A i \in DOMAIN seats : seats[i] \in SeatRows(Wallets) /\ Sound(seats[i])
  BY Standing
<1>2. ASSUME NEW i \in DOMAIN seats
      PROVE  /\ seats[i].reserved = Zero
             /\ seats[i].reserved.yes <= seats[i].yes /\ seats[i].reserved.no <= seats[i].no
  <2>1. seats[i].reserved \in [Kinds -> Int]
    BY <1>1 DEF SeatRows
  <2>2. ASSUME NEW k \in Kinds
        PROVE  seats[i].reserved[k] = 0
    <3>1. Backing(book, i, k) = 0
      BY <1>1, BackingIs
    <3>2. HeldBy(Vacant, i, setup.feeBps, k) = 0
      BY DEF HeldBy
    <3>3. seats[i].reserved[k] = Backing(book, i, k) + HeldBy(Vacant, i, setup.feeBps, k)
      BY <1>1 DEF Backed
    <3>. QED
      BY <3>1, <3>2, <3>3
  <2>3. seats[i].reserved = Zero
    <3>1. Zero \in [Kinds -> Int] /\ \A k \in Kinds : Zero[k] = 0
      BY ZeroIs
    <3>. QED
      BY <2>1, <2>2, <3>1
  <2>4. /\ seats[i].yes >= seats[i].reserved["yes"] /\ seats[i].no >= seats[i].reserved["no"]
        /\ seats[i].yes \in Int /\ seats[i].no \in Int
        /\ seats[i].reserved["yes"] = 0 /\ seats[i].reserved["no"] = 0
    BY <1>1, <2>2, SoundIs DEF SeatRows, Kinds
  <2>. QED
    BY <2>3, <2>4
<1>3. ASSUME NEW i \in DOMAIN seats
      PROVE  [k \in DOMAIN Zero |->
                SumFunction([s \in OrdersOf(i) |-> Reserve(book.slots[s], book.feeBps)[k]])] = Zero
  <2>1. OrdersOf(i) = {}
    BY DEF OrdersOf
  <2>2. ASSUME NEW k \in DOMAIN Zero
        PROVE  SumFunction([s \in OrdersOf(i) |-> Reserve(book.slots[s], book.feeBps)[k]]) = Zero[k]
    <3>1. Zero[k] = 0
      BY ZeroIs
    <3>2. DOMAIN [s \in OrdersOf(i) |-> Reserve(book.slots[s], book.feeBps)[k]] = {}
      BY <2>1
    <3>. QED
      BY <3>1, <3>2, SumOfNone
  <2>3. Zero = [k \in DOMAIN Zero |-> Zero[k]]
    BY ZeroIs
  <2>. QED
    BY <2>2, <2>3, Zenon
<1>4. CanonicalSnapshot
  BY <1>2, <1>3 DEF CanonicalSnapshot
<1>5. Drained
  BY <1>2 DEF Drained
<1>6. Funded
  BY DEF Custody, Worth, Totals, Funds, Funded, VaultFunded
<1>. QED
  BY <1>4, <1>5, <1>6

\* A market never gets stuck with its custody locked: past the closing time any
\* order can be cleaned up, a market without orders closes, a resolved one pays
\* every seat in whatever order they claim, and the last claim lets it finalize
\* (resolution.rs canonical_snapshot, close, claim, finalize).
THEOREM KeepersProceed == Spec => []KeepersNeverBlocked
<1>1. ASSUME Kept
      PROVE  KeepersNeverBlocked
  <2>1. BookKept /\ Custody /\ Halted(book, resolution, seats, receipts)
    BY <1>1 DEF Kept, Custody
  <2>2. /\ book.payout = setup.payout /\ setup.payout \in Nat /\ seats \in Seq(SeatRows(Wallets))
        /\ IsFiniteSet(DOMAIN seats) /\ \A i \in DOMAIN seats : Sound(seats[i])
        /\ market.collateral \in Int
    BY <2>1, Standing
  <2>3. ASSUME NEW side \in Sides, NEW index \in DOMAIN book.heap[side]
        PROVE  Removable(side, index)
    BY <2>1, OrderIsHeld DEF HeldOrder, UnlockedTo, Removable
  <2>4. ASSUME resolution.phase = "Open", Resting(book) = {}
        PROVE  Closable
    <3>1. Totals(market, seats) /\ Even(setup.payout, market, seats)
      BY <2>1, <2>4 DEF Custody, Worth, Settled
    <3>2. Balanced(market, seats)
      BY <2>2, <3>1, BalancedIs
    <3>. QED
      BY <2>1, <2>4, <3>2, EmptyIsDrained DEF Closable
  <2>5. ASSUME resolution.phase = "Resolved"
        PROVE  /\ \A i \in DOMAIN seats \ DOMAIN receipts : Claimable(i)
               /\ DOMAIN seats \subseteq DOMAIN receipts => Finalizable
    <3>. DEFINE owed == Owed(setup.payout, resolution.outcome, seats)
    <3>1. /\ Resting(book) = {} /\ resolution.yes = Shares(seats, "yes")
          /\ resolution.no = Shares(seats, "no")
          /\ \A i \in DOMAIN receipts : seats[i].yes = 0 /\ seats[i].no = 0
      BY <2>1, <2>5 DEF Halted
    <3>2. CanonicalSnapshot /\ Drained /\ Funded
      BY <2>1, <3>1, EmptyIsDrained
    <3>3. /\ market.collateral >= owed
          /\ resolution.outcome # "VOID" => market.collateral = owed
      BY <2>1, <2>5 DEF Custody, Worth, Settled
    <3>4. /\ owed \in Nat
          /\ \A i \in DOMAIN seats : /\ Due(setup.payout, resolution.outcome, seats[i]) <= owed
                                     /\ Due(setup.payout, resolution.outcome, seats[i]) \in Nat
          /\ (\A i \in DOMAIN seats : seats[i].yes = 0 /\ seats[i].no = 0) => owed = 0
      BY <2>2, OwedIs
    <3>5. ASSUME NEW i \in DOMAIN seats
          PROVE  Claimable(i)
      <4>1. Payout(seats[i]) = Due(setup.payout, resolution.outcome, seats[i])
        BY <2>2, PayoutIs
      <4>. HIDE DEF owed
      <4>2. market.collateral >= Payout(seats[i])
        BY <2>2, <3>3, <3>4, <4>1
      <4>. QED
        BY <3>1, <3>2, <4>2 DEF Claimable
    <3>6. ASSUME DOMAIN seats \subseteq DOMAIN receipts
          PROVE  Finalizable
      <4>1. \A i \in DOMAIN seats : seats[i].yes = 0 /\ seats[i].no = 0
        BY <3>1, <3>6
      <4>2. Shares(seats, "yes") = 0
        <5>. DEFINE f == [i \in DOMAIN seats |-> seats[i].yes]
        <5>1. f \in [DOMAIN seats -> {0}] /\ Shares(seats, "yes") = SumFunction(f)
          BY <4>1 DEF Shares
        <5>. HIDE DEF f
        <5>. QED
          BY <2>2, <5>1, SumOfZeros
      <4>3. Shares(seats, "no") = 0
        <5>. DEFINE f == [i \in DOMAIN seats |-> seats[i].no]
        <5>1. f \in [DOMAIN seats -> {0}] /\ Shares(seats, "no") = SumFunction(f)
          BY <4>1 DEF Shares
        <5>. HIDE DEF f
        <5>. QED
          BY <2>2, <5>1, SumOfZeros
      <4>4. resolution.outcome # "VOID" => market.collateral = 0
        BY <3>3, <3>4, <4>1
      <4>. QED
        BY <3>1, <3>2, <4>2, <4>3, <4>4 DEF Finalizable
    <3>. QED
      BY <3>5, <3>6
  <2>. QED
    BY <2>3, <2>4, <2>5 DEF KeepersNeverBlocked
<1>. QED
  BY <1>1, ExchangeKept, PTL
----------------------------------------------------------------------------
\* The program's book and the reference's: the set of the resting orders.
OrdersIn(b) == {b.slots[s] : s \in Resting(b)}

LEMMA OrdersRemoved ==
    ASSUME NEW m, MarketRules(m), NEW b, GoodBook(m, b), NEW slot, NEW c, RemovedFrom(m, b, slot, c)
    PROVE  OrdersIn(c) = OrdersIn(b) \ {b.slots[slot]}
<1>1. slot \in Resting(b) /\ Changed(b, c, slot, Vacant)
  BY DEF RemovedFrom
<1>2. slot \in DOMAIN b.slots
  BY <1>1 DEF Resting
<1>3. ChangedAt(b, c, slot, Vacant)
  BY <1>1, <1>2, ChangedRests
<1>4. Resting(c) = Resting(b) \ {slot} /\ \A s \in Resting(c) : c.slots[s] = b.slots[s]
  BY <1>3 DEF ChangedAt, Resting
<1>5. \A s \in Resting(b) : b.slots[s] = b.slots[slot] => s = slot
  BY <1>1, BookOrders
<1>. QED
  BY <1>1, <1>4, <1>5 DEF OrdersIn

LEMMA OrdersRewritten ==
    ASSUME NEW m, MarketRules(m), NEW b, GoodBook(m, b), NEW slot \in Resting(b), NEW x, NEW c,
           RewrittenTo(m, b, slot, x, c)
    PROVE  OrdersIn(c) = (OrdersIn(b) \ {b.slots[slot]}) \cup {x}
<1>1. Changed(b, c, slot, x) /\ Resting(c) = Resting(b)
  BY DEF RewrittenTo
<1>2. slot \in DOMAIN b.slots
  BY DEF Resting
<1>3. ChangedAt(b, c, slot, x)
  BY <1>1, <1>2, ChangedRests
<1>4. c.slots[slot] = x /\ \A s \in Resting(b) : s # slot => c.slots[s] = b.slots[s]
  BY <1>3 DEF ChangedAt, Resting
<1>5. \A s \in Resting(b) : b.slots[s] = b.slots[slot] => s = slot
  BY BookOrders
<1>. QED
  BY <1>1, <1>4, <1>5 DEF OrdersIn

LEMMA OrdersPlaced ==
    ASSUME NEW b, NEW c, NEW slot \in DOMAIN b.slots \ Resting(b), NEW o, o # Vacant,
           c.slots = [b.slots EXCEPT ![slot] = o]
    PROVE  OrdersIn(c) = OrdersIn(b) \cup {o}
<1>1. DOMAIN c.slots = DOMAIN b.slots /\ c.slots[slot] = o
      /\ \A s \in DOMAIN b.slots : s # slot => c.slots[s] = b.slots[s]
  OBVIOUS
<1>2. Resting(c) = Resting(b) \cup {slot}
  BY <1>1 DEF Resting
<1>3. \A s \in Resting(b) : s # slot /\ c.slots[s] = b.slots[s]
  BY <1>1 DEF Resting
<1>. QED
  BY <1>1, <1>2, <1>3 DEF OrdersIn

\* The book is full when the free list is empty.
LEMMA FullBook ==
    ASSUME NEW m, MarketRules(m), NEW b, GoodBook(m, b)
    PROVE  Cardinality(OrdersIn(b)) >= m.capacity <=> b.free = << >>
<1>. DEFINE all == 1 .. m.capacity
            f == [s \in Resting(b) |-> b.slots[s]]
<1>1. m.capacity \in Nat
  BY DEF MarketRules
<1>2. /\ Resting(b) \subseteq all
      /\ \A s, t \in Resting(b) : b.slots[s].id = b.slots[t].id => s = t
  BY BookOrders
<1>3. IsFiniteSet(all) /\ Cardinality(all) = m.capacity
  <2>1. IsFiniteSet(all) /\ Cardinality(all) = IF 1 > m.capacity THEN 0 ELSE m.capacity - 1 + 1
    BY <1>1, FS_Interval
  <2>. HIDE DEF all
  <2>. QED
    BY <1>1, <2>1
<1>4. IsFiniteSet(Resting(b)) /\ Cardinality(Resting(b)) <= m.capacity
      /\ (Cardinality(Resting(b)) = m.capacity => Resting(b) = all)
  <2>1. IsFiniteSet(all) /\ Cardinality(all) = m.capacity /\ Resting(b) \in SUBSET all
    BY <1>2, <1>3
  <2>. HIDE DEF all
  <2>2. /\ IsFiniteSet(Resting(b)) /\ Cardinality(Resting(b)) <= Cardinality(all)
        /\ (Cardinality(all) = Cardinality(Resting(b)) => all = Resting(b))
    BY <2>1, FS_Subset
  <2>. QED
    BY <2>1, <2>2
<1>5. Cardinality(OrdersIn(b)) = Cardinality(Resting(b))
  <2>1. f \in [Resting(b) -> OrdersIn(b)]
    BY DEF OrdersIn
  <2>2. \A s, t \in Resting(b) : f[s] = f[t] => s = t
    BY <1>2
  <2>3. \A o \in OrdersIn(b) : \E s \in Resting(b) : f[s] = o
    BY DEF OrdersIn
  <2>. HIDE DEF f
  <2>4. ExistsBijection(Resting(b), OrdersIn(b))
    BY <2>1, <2>2, <2>3 DEF ExistsBijection, Bijection, Injection, Surjection, IsInjective
  <2>. QED
    BY <1>4, <2>4, FS_Bijection
<1>6. /\ DOMAIN b.slots = all /\ IsRow(b.free) /\ Entries(b.free) = DOMAIN b.slots \ Resting(b)
  BY BookFields DEF GoodBook, Tidy
<1>7. b.free = << >> <=> Resting(b) = all
  <2>1. b.free \in Seq(Int) /\ Len(b.free) \in Nat
    BY <1>6 DEF IsRow
  <2>2. b.free = << >> => 1 .. Len(b.free) = {}
    BY EmptySeq
  <2>3. b.free # << >> => 1 \in 1 .. Len(b.free)
    BY <2>1, EmptySeq
  <2>4. b.free = << >> <=> Entries(b.free) = {}
    BY <2>2, <2>3 DEF Entries
  <2>. QED
    BY <1>2, <1>6, <2>4
<1>8. Cardinality(Resting(b)) \in Nat
  BY <1>4, FS_CardinalityType
<1>. HIDE DEF all
<1>9. Resting(b) = all <=> Cardinality(Resting(b)) >= m.capacity
  BY <1>1, <1>3, <1>4, <1>8
<1>. QED
  BY <1>5, <1>7, <1>9
\* What the search of the reference finds is what stands first in the heap.
LEMMA SideOrders ==
    ASSUME NEW m, MarketRules(m), NEW b, GoodBook(m, b), NEW side \in Sides
    PROVE  OnSide(OrdersIn(b), side) = {b.slots[s] : s \in SlotsOf(b, side)}
BY DEF OnSide, OrdersIn, SlotsOf

LEMMA NoneOnSide ==
    ASSUME NEW m, MarketRules(m), NEW b, GoodBook(m, b), NEW side \in Sides
    PROVE  OnSide(OrdersIn(b), side) = {} <=> b.heap[side] = << >>
<1>1. OnSide(OrdersIn(b), side) = {b.slots[s] : s \in SlotsOf(b, side)}
  BY SideOrders
<1>2. b.heap[side] = << >> <=> SlotsOf(b, side) = {}
  BY EmptyHeap
<1>. QED
  BY <1>1, <1>2

LEMMA RanksOnce ==
    ASSUME NEW payout \in Nat, NEW o \in OrderRows(payout), NEW q \in OrderRows(payout),
           Side(o) = Side(q)
    PROVE  ~(Ranks(o, q, payout) /\ Ranks(q, o, payout))
<1>. DEFINE x == CanonicalPrice(o, payout)
            y == CanonicalPrice(q, payout)
<1>1. x \in Int /\ y \in Int /\ o.id \in Nat /\ q.id \in Nat
  BY OrderFields
<1>2. ASSUME Ranks(o, q, payout)
      PROVE  IF x = y THEN o.id < q.id ELSE IF Side(o) = "Bid" THEN x > y ELSE x < y
  BY <1>2 DEF Ranks
<1>3. ASSUME Ranks(q, o, payout)
      PROVE  IF y = x THEN q.id < o.id ELSE IF Side(o) = "Bid" THEN y > x ELSE y < x
  BY <1>3 DEF Ranks
<1>. HIDE DEF x, y
<1>. QED
  BY <1>1, <1>2, <1>3

LEMMA BestIsFirst ==
    ASSUME NEW m, MarketRules(m), NEW b, GoodBook(m, b), NEW side \in Sides,
           b.heap[side] # << >>
    PROVE  BestOf(OnSide(OrdersIn(b), side), m.payout) = OrderAt(b, side, 1)
<1>. DEFINE orders == OnSide(OrdersIn(b), side)
            first == OrderAt(b, side, 1)
            slot == b.heap[side][1]
            IsBest(o) == \A other \in orders \ {o} : Ranks(o, other, m.payout)
<1>1. orders = {b.slots[s] : s \in SlotsOf(b, side)} /\ first = b.slots[slot]
  BY SideOrders DEF OrderAt
<1>2. /\ slot \in SlotsOf(b, side)
      /\ \A s \in SlotsOf(b, side) : s = slot \/ Better(b, side, slot, s)
  BY BestFirst
<1>3. /\ b.payout = m.payout
      /\ \A s \in SlotsOf(b, side) : b.slots[s] \in OrderRows(m.payout) /\ Side(b.slots[s]) = side
  BY BookFields, BookOrders DEF SlotsOf
<1>. HIDE DEF orders, first, slot
<1>4. m.payout \in Nat
  BY DEF MarketRules
<1>5. first \in orders /\ \A o \in orders : o \in OrderRows(m.payout) /\ Side(o) = side
  BY <1>1, <1>2, <1>3
<1>6. ASSUME NEW s \in SlotsOf(b, side), Better(b, side, slot, s)
      PROVE  Ranks(b.slots[slot], b.slots[s], m.payout)
  BY <1>2, <1>3, <1>6 DEF Better, Ranks
<1>7. IsBest(first)
  BY <1>1, <1>2, <1>6
<1>8. ASSUME NEW o \in orders, IsBest(o)
      PROVE  o = first
  <2>. SUFFICES ASSUME o # first PROVE FALSE
    OBVIOUS
  <2>1. Ranks(o, first, m.payout)
    BY <1>5, <1>8
  <2>2. Ranks(first, o, m.payout)
    BY <1>7
  <2>3. o \in OrderRows(m.payout) /\ first \in OrderRows(m.payout) /\ Side(o) = Side(first)
    BY <1>5
  <2>. QED
    BY <1>4, <2>1, <2>2, <2>3, RanksOnce
<1>9. BestOf(orders, m.payout) = CHOOSE o \in orders : IsBest(o)
  BY DEF BestOf
<1>. HIDE DEF IsBest
<1>10. BestOf(orders, m.payout) = first
  BY <1>5, <1>7, <1>8, <1>9
<1>. QED
  BY <1>10 DEF orders, first

LEMMA SmallerIs ==
    ASSUME NEW x \in Nat, NEW y \in Nat
    PROVE  (CHOOSE q \in {x, y} : \A r \in {x, y} : q <= r) = IF x < y THEN x ELSE y
<1>. DEFINE l == IF x < y THEN x ELSE y
<1>1. l \in {x, y} /\ \A r \in {x, y} : l <= r
  OBVIOUS
<1>2. \A q \in {x, y} : (\A r \in {x, y} : q <= r) => q = l
  OBVIOUS
<1>. HIDE DEF l
<1>3. (CHOOSE q \in {x, y} : \A r \in {x, y} : q <= r) = l
  BY <1>1, <1>2
<1>. QED
  BY <1>3 DEF l
----------------------------------------------------------------------------
\* The two loops side by side: the reference's state is what the program's says.
Faults == {"None", "MatchLimitExceeded", "PostOnlyRejected"}

Agrees(st, ref) ==
    /\ ref \in [orders : {OrdersIn(st.book)}, taker : {st.taker}, effects : {st.effects},
                over : BOOLEAN, stopped : BOOLEAN, fault : Faults]
    /\ ref.over <=> st.end # "Matching"
    /\ ref.stopped <=> st.end = "Stopped"
    /\ ref.fault = IF st.end \in Faults THEN st.end ELSE "None"

LEMMA AgreesNow ==
    ASSUME NEW b, NEW in
    PROVE  Agrees(Unmatched(b, in),
                  [orders |-> OrdersIn(b), taker |-> OrderOf(b, in), effects |-> << >>,
                   over |-> FALSE, stopped |-> FALSE, fault |-> "None"])
BY DEF Agrees, Unmatched, Faults

\* The loop ends, with both books as they are.
Ended(ref, end, r) ==
    /\ r \in [orders : {ref.orders}, taker : {ref.taker}, effects : {ref.effects},
              over : BOOLEAN, stopped : BOOLEAN, fault : Faults]
    /\ r.over <=> end # "Matching"
    /\ r.stopped <=> end = "Stopped"
    /\ r.fault = IF end \in Faults THEN end ELSE "None"

LEMMA EndAgrees ==
    ASSUME NEW m, NEW b, NEW order, NEW st, Matched(m, b, order, st), NEW ref, Agrees(st, ref),
           NEW end \in Ends, NEW r, Ended(ref, end, r)
    PROVE  Agrees([st EXCEPT !.end = end], r)
<1>. DEFINE t == [st EXCEPT !.end = end]
<1>1. t.book = st.book /\ t.taker = st.taker /\ t.effects = st.effects /\ t.end = end
  BY EndedMatches
<1>. HIDE DEF t
<1>2. /\ ref.orders = OrdersIn(st.book) /\ ref.taker = st.taker /\ ref.effects = st.effects
  BY DEF Agrees
<1>3. Agrees(t, r)
  BY <1>1, <1>2 DEF Agrees, Ended
<1>. QED
  BY <1>3 DEF t

LEMMA DropAgrees ==
    ASSUME NEW m, MarketRules(m), NEW b, NEW order, NEW st, Matched(m, b, order, st),
           NEW side, NEW slot, NEW maker, Facing(m, st, side, slot, maker),
           NEW ref, Agrees(st, ref)
    PROVE  Agrees(Removed(st, side, maker), Drop(ref, maker))
<1>. DEFINE t == Removed(st, side, maker)
            r == Drop(ref, maker)
            e == [kind |-> "Removed", order |-> maker]
<1>1. /\ RemovedFrom(m, st.book, slot, t.book) /\ t.taker = st.taker
      /\ t.effects = Append(st.effects, e) /\ t.end = st.end
  BY RemovedMatches
<1>2. GoodBook(m, st.book) /\ maker = st.book.slots[slot]
  BY DEF Matched, MatchStates, GoodBook, Facing
<1>3. OrdersIn(t.book) = OrdersIn(st.book) \ {maker}
  BY <1>1, <1>2, OrdersRemoved
<1>4. /\ ref \in [orders : {OrdersIn(st.book)}, taker : {st.taker}, effects : {st.effects},
                  over : BOOLEAN, stopped : BOOLEAN, fault : Faults]
      /\ ref.orders = OrdersIn(st.book) /\ ref.effects = st.effects
  BY DEF Agrees
<1>. HIDE DEF t, e
<1>5. r = [ref EXCEPT !.orders = ref.orders \ {maker}, !.effects = Append(ref.effects, e)]
  BY <1>4 DEF Drop, e
<1>. HIDE DEF r
<1>6. /\ r \in [orders : {OrdersIn(st.book) \ {maker}}, taker : {st.taker},
                effects : {Append(st.effects, e)},
                over : BOOLEAN, stopped : BOOLEAN, fault : Faults]
      /\ r.fault = ref.fault
  BY <1>4, <1>5
<1>7. (r.over <=> ref.over) /\ (r.stopped <=> ref.stopped)
  BY <1>4, <1>5
<1>8. Agrees(t, r)
  BY <1>1, <1>3, <1>6, <1>7 DEF Agrees
<1>. QED
  BY <1>8 DEF t, r

LEMMA TradeAgrees ==
    ASSUME NEW m, MarketRules(m), NEW b, NEW order, NEW st, Matched(m, b, order, st),
           NEW side, NEW slot, NEW maker, Facing(m, st, side, slot, maker),
           NEW time, Touching(st, time, side), NEW ref, Agrees(st, ref)
    PROVE  Agrees(Traded(st, side, slot, maker, CanonicalPrice(maker, m.payout), Smaller(st, maker)),
                  Exchange(ref, maker, Smaller(st, maker), m.payout))
<1>. DEFINE price == CanonicalPrice(maker, m.payout)
            quantity == Smaller(st, maker)
            t == Traded(st, side, slot, maker, price, quantity)
            left == Filled(maker, price, quantity, m.payout)
            r == Exchange(ref, maker, quantity, m.payout)
            e == [kind |-> "Fill", maker |-> maker, taker |-> st.taker,
                  price |-> price, quantity |-> quantity]
<1>1. /\ price \in 1 .. m.payout - 1 /\ quantity \in Nat \ {0}
      /\ quantity <= maker.remaining /\ quantity <= st.taker.remaining
  BY FillBounds
<1>2. /\ maker.remaining = quantity => RemovedFrom(m, st.book, slot, t.book)
      /\ maker.remaining # quantity => RewrittenTo(m, st.book, slot, left, t.book)
      /\ t.taker = Filled(st.taker, price, quantity, m.payout)
      /\ t.effects = Append(st.effects, e) /\ t.end = st.end
  <2>. HIDE DEF price, quantity
  <2>. QED
    BY <1>1, TradedMatches
<1>3. /\ GoodBook(m, st.book) /\ maker = st.book.slots[slot] /\ slot \in Resting(st.book)
      /\ maker \in OrderRows(m.payout)
  BY DEF Matched, MatchStates, GoodBook, Facing
<1>4. /\ ref \in [orders : {OrdersIn(st.book)}, taker : {st.taker}, effects : {st.effects},
                  over : BOOLEAN, stopped : BOOLEAN, fault : Faults]
      /\ ref.orders = OrdersIn(st.book) /\ ref.effects = st.effects /\ ref.taker = st.taker
  BY DEF Agrees
<1>5. left.remaining = maker.remaining - quantity
  <2>. HIDE DEF price, quantity
  <2>. QED
    BY <1>3 DEF Filled, OrderRows
<1>6. r = [ref EXCEPT
            !.orders = (ref.orders \ {maker}) \cup (IF left.remaining = 0 THEN {} ELSE {left}),
            !.taker = Filled(ref.taker, price, quantity, m.payout),
            !.effects = Append(ref.effects, e)]
  BY <1>4 DEF Exchange
<1>. DEFINE kept == (OrdersIn(st.book) \ {maker}) \cup (IF left.remaining = 0 THEN {} ELSE {left})
<1>7. OrdersIn(t.book) = kept
  <2>. HIDE DEF price, quantity, t, left
  <2>1. maker.remaining \in Int /\ (left.remaining = 0 <=> maker.remaining = quantity)
    BY <1>1, <1>3, <1>5 DEF OrderRows
  <2>2. CASE maker.remaining = quantity
    <3>1. OrdersIn(t.book) = OrdersIn(st.book) \ {maker}
      BY <1>2, <1>3, <2>2, OrdersRemoved
    <3>. QED
      BY <2>1, <2>2, <3>1
  <2>3. CASE maker.remaining # quantity
    <3>1. OrdersIn(t.book) = (OrdersIn(st.book) \ {maker}) \cup {left}
      BY <1>2, <1>3, <2>3, OrdersRewritten
    <3>. QED
      BY <2>1, <2>3, <3>1
  <2>. QED
    BY <2>2, <2>3
<1>. HIDE DEF price, quantity, t, left, e, r
<1>8. /\ r \in [orders : {kept}, taker : {Filled(st.taker, price, quantity, m.payout)},
                effects : {Append(st.effects, e)},
                over : BOOLEAN, stopped : BOOLEAN, fault : Faults]
      /\ r.fault = ref.fault
  BY <1>4, <1>6
<1>9. (r.over <=> ref.over) /\ (r.stopped <=> ref.stopped)
  BY <1>4, <1>6
<1>. HIDE DEF kept
<1>10. Agrees(t, r)
  BY <1>2, <1>7, <1>8, <1>9 DEF Agrees
<1>. QED
  BY <1>10 DEF price, quantity, t, r
\* The reference looks at the same order, or at none.
LEMMA MeetsSame ==
    ASSUME NEW m, MarketRules(m), NEW b, NEW order, NEW st, Matched(m, b, order, st),
           NEW side, side = Opposite(Side(st.taker)), NEW ref, Agrees(st, ref),
           NEW in, NEW time, NEW limit, NEW turn
    PROVE  MeetTurn(ref, in, time, limit, m.payout, turn)
             = IF Touching(st, time, side)
               THEN Encounter(ref, OrderAt(st.book, side, 1), in, time, limit, m.payout, turn)
               ELSE ref
<1>. DEFINE opposing == OnSide(ref.orders, Opposite(Side(ref.taker)))
            best == BestOf(opposing, m.payout)
            maker == OrderAt(st.book, side, 1)
            met == Encounter(ref, best, in, time, limit, m.payout, turn)
            r == MeetTurn(ref, in, time, limit, m.payout, turn)
<1>1. /\ GoodBook(m, st.book) /\ st.taker \in OrderRows(m.payout) /\ side \in Sides
      /\ st.taker.remaining \in Nat
  BY DEF Matched, MatchStates, GoodBook, OrderRows, Opposite, Sides
<1>2. ref.taker = st.taker /\ ref.orders = OrdersIn(st.book) /\ (ref.over <=> st.end # "Matching")
  BY DEF Agrees
<1>3. opposing = OnSide(OrdersIn(st.book), side)
  BY <1>2
<1>4. opposing = {} <=> st.book.heap[side] = << >>
  BY <1>1, <1>3, NoneOnSide
<1>5. st.book.heap[side] # << >> => best = maker
  BY <1>1, <1>3, BestIsFirst
<1>6. r = IF ref.over \/ ref.taker.remaining = 0 \/ opposing = {} THEN ref
          ELSE IF ~(Expired(best, time) \/ Crosses(ref.taker, best, m.payout)) THEN ref
          ELSE met
  BY DEF MeetTurn
<1>7. st.book.payout = m.payout
  BY <1>1, BookFields
<1>8. Touching(st, time, side) <=>
        /\ st.end = "Matching" /\ st.taker.remaining > 0 /\ st.book.heap[side] # << >>
        /\ Expired(maker, time) \/ Crosses(st.taker, maker, m.payout)
  BY <1>7 DEF Touching
<1>9. st.taker.remaining > 0 <=> st.taker.remaining # 0
  BY <1>1
<1>. HIDE DEF opposing, best, maker, met, r
<1>10. CASE Touching(st, time, side)
  <2>1. r = met /\ best = maker
    BY <1>2, <1>4, <1>5, <1>6, <1>8, <1>9, <1>10
  <2>. QED
    BY <1>10, <2>1 DEF r, met, best, maker
<1>11. CASE ~Touching(st, time, side)
  <2>1. r = ref
    BY <1>2, <1>4, <1>5, <1>6, <1>8, <1>9, <1>11
  <2>. QED
    BY <1>11, <2>1 DEF r
<1>. QED
  BY <1>10, <1>11

LEMMA RemovedGoesOn ==
    ASSUME NEW m, MarketRules(m), NEW b, NEW order, NEW st, Matched(m, b, order, st),
           NEW side, NEW slot, NEW maker, Facing(m, st, side, slot, maker),
           NEW time, Touching(st, time, side)
    PROVE  Matched(m, b, order, Removed(st, side, maker)) /\ Removed(st, side, maker).end = "Matching"
<1>1. st.end = "Matching"
  BY DEF Touching
<1>2. Matched(m, b, order, Removed(st, side, maker))
  BY RemovedMatches
<1>3. Removed(st, side, maker).end = st.end
  <2>1. st \in MatchStates(m)
    BY DEF Matched
  <2>. QED
    BY <2>1 DEF Removed, MatchStates
<1>. QED
  BY <1>1, <1>2, <1>3

LEMMA TouchAgrees ==
    ASSUME NEW m, MarketRules(m), NEW b, NEW order, NEW st, Matched(m, b, order, st),
           NEW in \in Arrivals(m.payout), NEW side, NEW slot, NEW maker,
           Facing(m, st, side, slot, maker), NEW time, Touching(st, time, side),
           NEW limit \in Nat, NEW turn \in Nat, turn <= limit, NEW ref, Agrees(st, ref)
    PROVE  Agrees(Touch(st, in, time, side, maker),
                  Encounter(ref, maker, in, time, limit, m.payout, turn))
<1>. DEFINE t == Touch(st, in, time, side, maker)
            r == Encounter(ref, maker, in, time, limit, m.payout, turn)
<1>0. ~(turn > limit)
  OBVIOUS
<1>1. /\ st.book.payout = m.payout /\ ref.taker = st.taker
      /\ slot = st.book.heap[side][1] /\ maker \in OrderRows(m.payout)
      /\ st.taker \in OrderRows(m.payout)
  <2>1. GoodBook(m, st.book)
    BY DEF Matched, MatchStates, GoodBook
  <2>2. st.book.payout = m.payout
    BY <2>1, BookFields
  <2>. QED
    BY <2>2 DEF Agrees, Facing, Matched, MatchStates
<1>2. Agrees(Removed(st, side, maker), Drop(ref, maker))
  BY DropAgrees
<1>3. Matched(m, b, order, Removed(st, side, maker)) /\ Removed(st, side, maker).end = "Matching"
  BY RemovedGoesOn
<1>4. CASE Expired(maker, time)
  <2>1. t = Removed(st, side, maker)
    BY <1>4 DEF Touch
  <2>2. r = Drop(ref, maker)
    BY <1>0, <1>4 DEF Encounter
  <2>. QED
    BY <1>2, <2>1, <2>2
<1>5. CASE ~Expired(maker, time) /\ in.postOnly
  <2>1. t = [st EXCEPT !.end = "PostOnlyRejected"]
    BY <1>5 DEF Touch
  <2>2. r = [ref EXCEPT !.over = TRUE, !.fault = "PostOnlyRejected"]
    BY <1>0, <1>5 DEF Encounter
  <2>. HIDE DEF t, r
  <2>3. Ended(ref, "PostOnlyRejected", r)
    BY <2>2, <1>1 DEF Agrees, Ended, Faults, Touching
  <2>4. "PostOnlyRejected" \in Ends
    BY DEF Ends
  <2>5. Agrees(t, r)
    BY <2>1, <2>3, <2>4, EndAgrees
  <2>. QED
    BY <2>5 DEF t, r
<1>6. CASE ~Expired(maker, time) /\ ~in.postOnly /\ maker.owner # st.taker.owner
  <2>. DEFINE price == CanonicalPrice(maker, m.payout)
  <2>1. t = Traded(st, side, slot, maker, price, Smaller(st, maker))
    BY <1>1, <1>6 DEF Touch, Smaller
  <2>2. Smaller(st, maker) = CHOOSE q \in {maker.remaining, st.taker.remaining} :
                               \A x \in {maker.remaining, st.taker.remaining} : q <= x
    <3>1. maker.remaining \in Nat /\ st.taker.remaining \in Nat
      BY <1>1, OrderFields DEF OrderRows
    <3>. QED
      BY <3>1, SmallerIs DEF Smaller
  <2>3. r = Exchange(ref, maker,
                     CHOOSE q \in {maker.remaining, st.taker.remaining} :
                        \A x \in {maker.remaining, st.taker.remaining} : q <= x, m.payout)
    BY <1>0, <1>1, <1>6 DEF Encounter
  <2>4. r = Exchange(ref, maker, Smaller(st, maker), m.payout)
    BY <2>2, <2>3
  <2>. HIDE DEF t, r
  <2>5. Agrees(t, r)
    BY <2>1, <2>4, TradeAgrees
  <2>. QED
    BY <2>5 DEF t, r
<1>7. CASE ~Expired(maker, time) /\ ~in.postOnly /\ maker.owner = st.taker.owner
  <2>. DEFINE over == in.selfTrade # "CancelResting"
              dropped == IF in.selfTrade = "CancelAggressor" THEN ref ELSE Drop(ref, maker)
  <2>1. in.selfTrade \in {"CancelAggressor", "CancelResting", "CancelBoth"}
    BY DEF Arrivals
  <2>2. r = [dropped EXCEPT !.over = over, !.stopped = over]
    BY <1>0, <1>1, <1>7 DEF Encounter
  <2>3. CASE in.selfTrade = "CancelAggressor"
    <3>1. t = [st EXCEPT !.end = "Stopped"]
      BY <1>7, <2>3 DEF Touch
    <3>2. r = [ref EXCEPT !.over = over, !.stopped = over] /\ over
      BY <2>2, <2>3
    <3>. HIDE DEF t, r, over
    <3>3. Ended(ref, "Stopped", r)
      BY <3>2 DEF Agrees, Ended, Faults, Touching
    <3>4. "Stopped" \in Ends
      BY DEF Ends
    <3>5. Agrees(t, r)
      BY <3>1, <3>3, <3>4, EndAgrees
    <3>. QED
      BY <3>5 DEF t, r
  <2>4. CASE in.selfTrade = "CancelBoth"
    <3>1. t = [Removed(st, side, maker) EXCEPT !.end = "Stopped"]
      BY <1>7, <2>4 DEF Touch
    <3>2. r = [Drop(ref, maker) EXCEPT !.over = over, !.stopped = over] /\ over
      BY <2>2, <2>4
    <3>. DEFINE u == Removed(st, side, maker)
                d == Drop(ref, maker)
    <3>3. Matched(m, b, order, u) /\ u.end = "Matching"
      BY <1>3
    <3>. HIDE DEF t, r, over, u, d
    <3>4. Ended(d, "Stopped", r)
      BY <1>2, <3>2, <3>3 DEF Agrees, Ended, Faults, u, d
    <3>5. "Stopped" \in Ends
      BY DEF Ends
    <3>6. Agrees(u, d) /\ t = [u EXCEPT !.end = "Stopped"]
      BY <1>2, <3>1 DEF u, d
    <3>7. Agrees(t, r)
      BY <3>3, <3>4, <3>5, <3>6, EndAgrees
    <3>. QED
      BY <3>7 DEF t, r
  <2>5. CASE in.selfTrade = "CancelResting"
    <3>. DEFINE u == Removed(st, side, maker)
                d == Drop(ref, maker)
    <3>1. t = [u EXCEPT !.end = @]
      BY <1>7, <2>5 DEF Touch
    <3>2. r = [d EXCEPT !.over = over, !.stopped = over] /\ ~over
      BY <2>2, <2>5
    <3>3. Matched(m, b, order, u) /\ u.end = "Matching"
      BY <1>3
    <3>. HIDE DEF t, r, over, u, d
    <3>4. Agrees(u, d) /\ t = [u EXCEPT !.end = "Matching"]
      BY <1>2, <3>1, <3>3 DEF u, d
    <3>5. d \in [orders : {OrdersIn(u.book)}, taker : {u.taker}, effects : {u.effects},
                 over : BOOLEAN, stopped : BOOLEAN, fault : Faults]
          /\ d.fault = "None"
      BY <3>3, <3>4 DEF Agrees, Faults
    <3>6. r \in [orders : {d.orders}, taker : {d.taker}, effects : {d.effects},
                 over : BOOLEAN, stopped : BOOLEAN, fault : Faults]
          /\ r.fault = "None" /\ ~r.over /\ ~r.stopped
      BY <3>2, <3>5 DEF over
    <3>7. Ended(d, "Matching", r)
      BY <3>6 DEF Ended, Faults
    <3>8. "Matching" \in Ends
      BY DEF Ends
    <3>9. Agrees(t, r)
      BY <3>3, <3>7, <3>8, <3>4, EndAgrees
    <3>. QED
      BY <3>9 DEF t, r
  <2>. QED
    BY <2>1, <2>3, <2>4, <2>5
<1>. QED
  BY <1>4, <1>5, <1>6, <1>7
LEMMA TurnAgrees ==
    ASSUME NEW m, MarketRules(m), NEW b, NEW order, NEW st, Matched(m, b, order, st),
           NEW in \in Arrivals(m.payout), NEW time, NEW limit \in Nat, NEW turn \in Nat,
           NEW ref, Agrees(st, ref)
    PROVE  Agrees(Turn(st, in, time, limit, turn), MeetTurn(ref, in, time, limit, m.payout, turn))
<1>. DEFINE side == Opposite(Side(st.taker))
            slot == st.book.heap[side][1]
            maker == OrderAt(st.book, side, 1)
            t == Turn(st, in, time, limit, turn)
            r == MeetTurn(ref, in, time, limit, m.payout, turn)
            met == Encounter(ref, maker, in, time, limit, m.payout, turn)
<1>1. r = IF Touching(st, time, side) THEN met ELSE ref
  BY MeetsSame
<1>2. CASE ~Touching(st, time, side)
  <2>1. t = st
    BY <1>2 DEF Turn
  <2>. HIDE DEF t, r, side, met
  <2>2. Agrees(t, r)
    BY <1>1, <1>2, <2>1
  <2>. QED
    BY <2>2 DEF t, r
<1>3. CASE Touching(st, time, side) /\ turn > limit
  <2>. DEFINE end == IF in.tif = "IOC" THEN "Worked" ELSE "MatchLimitExceeded"
  <2>1. t = [st EXCEPT !.end = end]
    BY <1>3 DEF Turn
  <2>2. ~(turn <= limit)
    BY <1>3
  <2>3. met = [ref EXCEPT !.over = TRUE,
                          !.fault = IF in.tif = "IOC" THEN "None" ELSE "MatchLimitExceeded"]
    BY <1>3, <2>2 DEF Encounter
  <2>. HIDE DEF t, r, side, met
  <2>4. Ended(ref, end, r)
    BY <1>1, <1>3, <2>3 DEF Agrees, Ended, Faults, Touching
  <2>5. end \in Ends
    BY DEF Ends
  <2>. HIDE DEF end
  <2>6. Agrees(t, r)
    BY <2>1, <2>4, <2>5, EndAgrees
  <2>. QED
    BY <2>6 DEF t, r
<1>4. CASE Touching(st, time, side) /\ turn <= limit
  <2>1. ~(turn > limit)
    BY <1>4
  <2>2. t = Touch(st, in, time, side, maker)
    BY <1>4, <2>1 DEF Turn
  <2>3. Facing(m, st, side, slot, maker)
    BY <1>4, FacesBest DEF Touching
  <2>4. r = met
    BY <1>1, <1>4
  <2>. HIDE DEF t, r, side, slot, maker
  <2>5. Agrees(t, r)
    BY <1>4, <2>2, <2>3, <2>4, TouchAgrees
  <2>. QED
    BY <2>5 DEF t, r
<1>. QED
  BY <1>2, <1>3, <1>4

----------------------------------------------------------------------------
\* The two loops in step.
MeetIn(c, ref, turn) == MeetTurn(ref, c.in, c.now, c.limit, c.payout, turn)
Meets == INSTANCE FoldTheorems WITH Step <- MeetIn, Pick <- Max

LEMMA MeetsAre ==
    ASSUME NEW c, NEW ref
    PROVE  Meet(ref, c.in, c.now, c.limit, c.payout) = Meets!Fold(c, ref, 1 .. c.limit + 1)
BY DEF Meet, Meets!Fold, Meets!MapThenFoldSet, MapThenFoldSet, MeetIn

LEMMA MeetsInOrder == \A n \in Nat : Meets!InOrder(n)
BY EndsOfRange, RangeEnds DEF FamilyEnds, Meets!InOrder, Meets!Finite, Meets!Smallest

LEMMA LoopsAgree ==
    ASSUME NEW m, MarketRules(m), NEW b, NEW order, NEW st, Matched(m, b, order, st),
           NEW in \in Arrivals(m.payout), NEW time, NEW limit \in Nat, NEW ref, Agrees(st, ref)
    PROVE  Agrees(Match(st, in, time, limit), Meet(ref, in, time, limit, m.payout))
<1>. DEFINE c == [in |-> in, now |-> time, limit |-> limit, payout |-> m.payout]
            t(n) == Turns!Fold(c, st, 1 .. n)
            r(n) == Meets!Fold(c, ref, 1 .. n)
            fine == {n \in Nat : Matched(m, b, order, t(n)) /\ Agrees(t(n), r(n))}
<1>1. c.in = in /\ c.now = time /\ c.limit = limit /\ c.payout = m.payout
  OBVIOUS
<1>. HIDE DEF c
<1>2. t(0) = st /\ r(0) = ref
  <2>1. 1 .. 0 = {}
    OBVIOUS
  <2>. QED
    BY <2>1, Turns!FoldEmpty, Meets!FoldEmpty
<1>3. ASSUME NEW n \in Nat
      PROVE  /\ t(n + 1) = Turn(t(n), in, time, limit, n + 1)
             /\ r(n + 1) = MeetTurn(r(n), in, time, limit, m.payout, n + 1)
  <2>1. t(n + 1) = TurnIn(c, t(n), n + 1)
    <3>1. Turns!InOrder(n + 1)
      BY TurnsInOrder
    <3>. QED
      BY <3>1, Turns!LoopLast
  <2>2. r(n + 1) = MeetIn(c, r(n), n + 1)
    <3>1. Meets!InOrder(n + 1)
      BY MeetsInOrder
    <3>. QED
      BY <3>1, Meets!LoopLast
  <2>. HIDE DEF t, r
  <2>. QED
    BY <1>1, <2>1, <2>2 DEF TurnIn, MeetIn
<1>. HIDE DEF t, r
<1>4. 0 \in fine
  BY <1>2
<1>5. ASSUME NEW n \in Nat, n \in fine
      PROVE  n + 1 \in fine
  <2>1. Matched(m, b, order, t(n)) /\ Agrees(t(n), r(n)) /\ n + 1 \in Nat
    BY <1>5
  <2>2. Matched(m, b, order, t(n + 1))
    BY <1>3, <2>1, TurnMatches
  <2>3. Agrees(t(n + 1), r(n + 1))
    BY <1>3, <2>1, TurnAgrees
  <2>. QED
    BY <2>1, <2>2, <2>3
<1>6. Nat \subseteq fine
  <2>. HIDE DEF fine
  <2>. QED
    BY <1>4, <1>5, NatInduct
<1>7. Agrees(t(limit + 1), r(limit + 1))
  BY <1>6
<1>8. Match(st, in, time, limit) = t(limit + 1)
  <2>1. Match(st, c.in, c.now, c.limit) = Turns!Fold(c, st, 1 .. c.limit + 1)
    BY TurnsAre
  <2>. QED
    BY <1>1, <2>1 DEF t
<1>9. Meet(ref, in, time, limit, m.payout) = r(limit + 1)
  <2>1. Meet(ref, c.in, c.now, c.limit, c.payout) = Meets!Fold(c, ref, 1 .. c.limit + 1)
    BY MeetsAre
  <2>. QED
    BY <1>1, <2>1 DEF r
<1>. QED
  BY <1>7, <1>8, <1>9
----------------------------------------------------------------------------
\* Only an order that may not rest stops for want of turns without a fault.
Tired(in, st) == st.end = "Worked" => in.tif = "IOC"

LEMMA TurnTires ==
    ASSUME NEW m, NEW in, NEW st, st \in MatchStates(m), Tired(in, st),
           NEW time, NEW limit, NEW turn
    PROVE  Tired(in, Turn(st, in, time, limit, turn))
<1>. DEFINE side == Opposite(Side(st.taker))
            maker == OrderAt(st.book, side, 1)
            t == Turn(st, in, time, limit, turn)
            touched == Touch(st, in, time, side, maker)
            drop == Removed(st, side, maker)
<1>1. CASE ~Touching(st, time, side)
  BY <1>1 DEF Turn
<1>2. CASE Touching(st, time, side) /\ turn > limit
  <2>1. t = [st EXCEPT !.end = IF in.tif = "IOC" THEN "Worked" ELSE "MatchLimitExceeded"]
    BY <1>2 DEF Turn
  <2>2. t.end = IF in.tif = "IOC" THEN "Worked" ELSE "MatchLimitExceeded"
    BY <2>1 DEF MatchStates
  <2>. HIDE DEF t
  <2>3. Tired(in, t)
    BY <2>2 DEF Tired
  <2>. QED
    BY <2>3 DEF t
<1>3. CASE Touching(st, time, side) /\ ~(turn > limit)
  <2>1. t = touched
    BY <1>3 DEF Turn
  <2>2. st.end = "Matching"
    BY <1>3 DEF Touching
  <2>. HIDE DEF t, side, maker
  <2>3. drop.end = "Matching" /\ [drop EXCEPT !.end = "Stopped"].end = "Stopped"
    BY <2>2 DEF Removed, MatchStates
  <2>4. CASE Expired(maker, time)
    <3>1. touched = drop
      BY <2>4 DEF Touch
    <3>. HIDE DEF touched, drop
    <3>2. touched.end = "Matching"
      BY <2>3, <3>1
    <3>. QED
      BY <2>1, <3>2 DEF Tired, t
  <2>5. CASE ~Expired(maker, time) /\ in.postOnly
    <3>1. touched = [st EXCEPT !.end = "PostOnlyRejected"]
      BY <2>5 DEF Touch
    <3>. HIDE DEF touched
    <3>2. touched.end = "PostOnlyRejected"
      BY <3>1 DEF MatchStates
    <3>. QED
      BY <2>1, <3>2 DEF Tired, t
  <2>6. CASE ~Expired(maker, time) /\ ~in.postOnly /\ maker.owner # st.taker.owner
    <3>. DEFINE quantity == IF maker.remaining < st.taker.remaining
                            THEN maker.remaining ELSE st.taker.remaining
    <3>1. touched = Traded(st, side, st.book.heap[side][1], maker,
                           CanonicalPrice(maker, st.book.payout), quantity)
      BY <2>6 DEF Touch
    <3>. HIDE DEF touched, quantity
    <3>2. touched.end = "Matching"
      BY <2>2, <3>1 DEF Traded, MatchStates
    <3>. QED
      BY <2>1, <3>2 DEF Tired, t
  <2>7. CASE ~Expired(maker, time) /\ ~in.postOnly /\ maker.owner = st.taker.owner
    <3>. DEFINE kept == IF in.selfTrade = "CancelAggressor" THEN st ELSE drop
    <3>1. touched = [kept EXCEPT !.end = IF in.selfTrade = "CancelResting" THEN @ ELSE "Stopped"]
      BY <2>7 DEF Touch
    <3>2. kept.end = "Matching"
      BY <2>2, <2>3
    <3>3. [kept EXCEPT !.end = "Stopped"].end = "Stopped"
      BY <2>3 DEF MatchStates
    <3>4. [kept EXCEPT !.end = @].end = kept.end
      BY <2>3 DEF MatchStates, Removed
    <3>. HIDE DEF touched, kept
    <3>5. touched.end # "Worked"
      BY <3>1, <3>2, <3>3, <3>4
    <3>. QED
      BY <2>1, <3>5 DEF Tired, t
  <2>. QED
    BY <2>4, <2>5, <2>6, <2>7
<1>. QED
  BY <1>1, <1>2, <1>3

LEMMA MatchTires ==
    ASSUME NEW m, MarketRules(m), NEW b, GoodBook(m, b), NEW in \in Arrivals(m.payout),
           NEW time, NEW limit \in Nat
    PROVE  Tired(in, Match(Unmatched(b, in), in, time, limit))
<1>. DEFINE c == [in |-> in, now |-> time, limit |-> limit]
            order == OrderOf(b, in)
            Good == {s \in MatchStates(m) : Matched(m, b, order, s) /\ Tired(in, s)}
            st == Match(Unmatched(b, in), in, time, limit)
<1>1. c.in = in /\ c.now = time /\ c.limit = limit
  OBVIOUS
<1>2. Unmatched(b, in) \in Good
  <2>1. Matched(m, b, order, Unmatched(b, in))
    BY OrderOfIs
  <2>2. Unmatched(b, in).end = "Matching"
    BY DEF Unmatched
  <2>. QED
    BY <2>1, <2>2 DEF Matched, Tired
<1>3. ASSUME NEW s \in Good, NEW turn \in Nat
      PROVE  TurnIn(c, s, turn) \in Good
  <2>1. Matched(m, b, order, Turn(s, in, time, limit, turn))
    BY TurnMatches
  <2>2. Tired(in, Turn(s, in, time, limit, turn))
    BY TurnTires
  <2>. QED
    BY <1>1, <2>1, <2>2 DEF TurnIn, Matched
<1>. HIDE DEF c, Good
<1>4. PICK s \in Good : st = TurnIn(c, s, limit + 1)
  <2>1. \E s \in Good : Match(Unmatched(b, in), c.in, c.now, c.limit) = TurnIn(c, s, c.limit + 1)
    BY <1>1, <1>2, <1>3, MatchInduct
  <2>. QED
    BY <1>1, <2>1
<1>5. st \in Good
  BY <1>3, <1>4
<1>. QED
  BY <1>5 DEF Good
\* An order that rests locks something.
LEMMA LeftLocks ==
    ASSUME NEW payout \in Nat, NEW o \in OrderRows(payout), o.remaining > 0,
           NEW bps \in 0 .. FeeBasis
    PROVE  Reserve(o, bps) # Zero
<1>. DEFINE r == Reserve(o, bps)
            whole == o.price * o.remaining
            fee == FeeDelta(o.notional, whole, bps)
<1>1. /\ o.action \in {"BUY", "SELL"} /\ o.outcome \in {"YES", "NO"}
      /\ o.price \in Nat /\ o.price > 0 /\ o.remaining \in Nat /\ o.notional \in Nat
  BY OrderFields
<1>2. /\ r.cash = IF o.action = "BUY" THEN whole + fee ELSE 0
      /\ r.yes = IF o.action = "SELL" /\ o.outcome = "YES" THEN o.remaining ELSE 0
      /\ r.no = IF o.action = "SELL" /\ o.outcome = "NO" THEN o.remaining ELSE 0
  BY ReserveIs
<1>3. whole \in Nat /\ whole > 0
  BY <1>1
<1>. HIDE DEF whole
<1>4. fee \in Nat
  BY <1>1, <1>3, FeeIs
<1>. HIDE DEF fee, r
<1>5. Zero.cash = 0 /\ Zero.yes = 0 /\ Zero.no = 0
  BY DEF Zero
<1>6. r.cash # 0 \/ r.yes # 0 \/ r.no # 0
  BY <1>1, <1>2, <1>3, <1>4
<1>. QED
  BY <1>5, <1>6 DEF r

\* What the reference answers, field by field.
Answers(m, in, time, met, ref) ==
    /\ ref.effects = met.effects
    /\ ref.rests <=> met.taker.remaining > 0 /\ ~met.stopped /\ in.tif = "GTC"
    /\ ref.orders = IF met.taker.remaining > 0 /\ ~met.stopped /\ in.tif = "GTC"
                    THEN met.orders \cup {met.taker} ELSE met.orders
    /\ ref.fault = IF ~ValidOptions(in, time) THEN "InvalidOptions"
                   ELSE IF met.fault # "None" THEN met.fault
                   ELSE IF met.taker.remaining > 0 /\ in.tif = "FOK" THEN "FokRejected"
                   ELSE IF (met.taker.remaining > 0 /\ ~met.stopped /\ in.tif = "GTC")
                           /\ Cardinality(met.orders) >= m.capacity THEN "BookFull"
                   ELSE "None"

LEMMA ReferenceAnswers ==
    ASSUME NEW m, NEW in, NEW time, NEW met
    PROVE  Answers(m, in, time, met, Concluded(met, in, time, m.capacity))
BY DEF Answers, Concluded

\* A plan and an answer that say the same.
Same(plan, ref) ==
    /\ plan.fault = ref.fault
    /\ ref.fault = "None" =>
         /\ plan.effects = ref.effects
         /\ OrdersIn(plan.book) = ref.orders
         /\ plan.final # Zero <=> ref.rests

LEMMA PlansAgree ==
    ASSUME NEW m, MarketRules(m), NEW b, BookInv(m, b), NEW in \in Arrivals(m.payout),
           NEW time, NEW limit \in Nat
    PROVE  Same(Plan(b, in, time, limit),
                Execute(OrdersIn(b), in, OrderOf(b, in), time, limit, m.payout, m.capacity))
<1>. DEFINE st == Match(Unmatched(b, in), in, time, limit)
            order == OrderOf(b, in)
            plan == Plan(b, in, time, limit)
            first == [orders |-> OrdersIn(b), taker |-> order, effects |-> << >>,
                      over |-> FALSE, stopped |-> FALSE, fault |-> "None"]
            met == Meet(first, in, time, limit, m.payout)
            ref == Execute(OrdersIn(b), in, order, time, limit, m.payout, m.capacity)
<1>1. GoodBook(m, b)
  BY DEF BookInv
<1>2. Matched(m, b, order, st)
  BY <1>1, MatchEnds
<1>3. Tired(in, st)
  BY <1>1, MatchTires
<1>4. Agrees(st, met)
  <2>1. Matched(m, b, order, Unmatched(b, in))
    BY <1>1, OrderOfIs
  <2>2. Agrees(Unmatched(b, in), first)
    BY AgreesNow
  <2>. HIDE DEF first
  <2>. QED
    BY <2>1, <2>2, LoopsAgree
<1>5. Answers(m, in, time, met, ref)
  <2>1. ref = Concluded(met, in, time, m.capacity)
    BY DEF Execute
  <2>. HIDE DEF met, ref
  <2>. QED
    BY <2>1, ReferenceAnswers
<1>6. plan = Planned(in, order, st, PlanFault(in, time, st))
  BY PlanIs
<1>. HIDE DEF st, plan, order, first, met, ref
<1>7. /\ plan.fault = PlanFault(in, time, st) /\ plan.effects = st.effects
      /\ plan.final = IF Rests(in, st) THEN Reserve(st.taker, st.book.feeBps) ELSE Zero
  BY <1>6 DEF Planned
<1>8. /\ met.orders = OrdersIn(st.book) /\ met.taker = st.taker /\ met.effects = st.effects
      /\ met.stopped <=> st.end = "Stopped"
      /\ met.fault = IF st.end \in Faults THEN st.end ELSE "None"
  BY <1>4 DEF Agrees
<1>9. GoodBook(m, st.book) /\ st.taker \in OrderRows(m.payout) /\ st.end \in Ends
  BY <1>2 DEF Matched, MatchStates, GoodBook
<1>10. Cardinality(met.orders) >= m.capacity <=> st.book.free = << >>
  BY <1>8, <1>9, FullBook
<1>. DEFINE rests == met.taker.remaining > 0 /\ ~met.stopped /\ in.tif = "GTC"
<1>11. met.fault = "None" => (rests <=> Rests(in, st))
  BY <1>3, <1>8, <1>9 DEF Rests, Tired, Ends, Faults
<1>12. met.fault # "None" <=> st.end \in {"MatchLimitExceeded", "PostOnlyRejected"}
  BY <1>8 DEF Faults
<1>13. met.fault # "None" => met.fault = st.end
  BY <1>8
<1>14. ref.fault = IF ~ValidOptions(in, time) THEN "InvalidOptions"
                   ELSE IF met.fault # "None" THEN met.fault
                   ELSE IF met.taker.remaining > 0 /\ in.tif = "FOK" THEN "FokRejected"
                   ELSE IF rests /\ Cardinality(met.orders) >= m.capacity THEN "BookFull"
                   ELSE "None"
  BY <1>5 DEF Answers
<1>15. /\ ref.effects = met.effects /\ (ref.rests <=> rests)
       /\ ref.orders = IF rests THEN met.orders \cup {met.taker} ELSE met.orders
  BY <1>5 DEF Answers
<1>. HIDE DEF rests
<1>16. plan.fault = ref.fault
  BY <1>7, <1>8, <1>10, <1>11, <1>12, <1>13, <1>14 DEF PlanFault
<1>17. ASSUME ref.fault = "None"
       PROVE  /\ plan.effects = ref.effects
              /\ OrdersIn(plan.book) = ref.orders
              /\ plan.final # Zero <=> ref.rests
  <2>1. met.fault = "None"
    BY <1>14, <1>17, <1>8 DEF Faults
  <2>2. rests <=> Rests(in, st)
    BY <1>11, <2>1
  <2>3. PlanLeaves(m, in, st, plan.book)
    <3>1. Plan(b, in, time, limit).fault = "None"
      BY <1>16, <1>17 DEF plan
    <3>. QED
      BY <3>1, PlanKeepsInv DEF plan, st
  <2>4. OrdersIn(plan.book) = ref.orders
    <3>1. CASE Rests(in, st)
      <4>1. PICK slot \in DOMAIN st.book.slots \ Resting(st.book) :
              plan.book.slots = [st.book.slots EXCEPT ![slot] = st.taker]
        BY <2>3, <3>1 DEF PlanLeaves
      <4>2. st.taker # Vacant
        <5>1. m.payout \in Nat
          BY DEF MarketRules
        <5>. QED
          BY <1>9, <5>1, OrderFields
      <4>3. OrdersIn(plan.book) = OrdersIn(st.book) \cup {st.taker}
        BY <4>1, <4>2, OrdersPlaced
      <4>. QED
        BY <1>8, <1>15, <2>2, <3>1, <4>3
    <3>2. CASE ~Rests(in, st)
      <4>1. plan.book.slots = st.book.slots
        BY <2>3, <3>2 DEF PlanLeaves
      <4>2. OrdersIn(plan.book) = OrdersIn(st.book)
        BY <4>1 DEF OrdersIn, Resting
      <4>. QED
        BY <1>8, <1>15, <2>2, <3>2, <4>2
    <3>. QED
      BY <3>1, <3>2
  <2>5. Rests(in, st) => Reserve(st.taker, st.book.feeBps) # Zero
    <3>1. m.payout \in Nat /\ st.book.feeBps \in 0 .. FeeBasis
      <4>1. st.book.feeBps = m.feeBps
        BY <1>9, BookFields
      <4>. QED
        BY <4>1 DEF MarketRules
    <3>2. Rests(in, st) => st.taker.remaining > 0
      BY DEF Rests
    <3>. QED
      BY <1>9, <3>1, <3>2, LeftLocks
  <2>6. plan.final # Zero <=> ref.rests
    BY <1>7, <1>15, <2>2, <2>5
  <2>. QED
    BY <1>7, <1>8, <1>15, <2>4, <2>6
<1>18. Same(plan, ref)
  BY <1>16, <1>17 DEF Same
<1>. QED
  BY <1>18 DEF plan, ref, order

\* The program executes every order as the reference model of its file does: the
\* loops go in step, the first of a heap being the best of the set, and a plan is
\* the answer of the reference (matching.rs, `runtime` against `Book`).
THEOREM ProgramIsReference == Spec => []MatchesReference
<1>1. ASSUME BookKept
      PROVE  MatchesReference
  <2>1. BookInv(setup, book) /\ MarketRules(setup) /\ setup.touches \in Nat
        /\ setup.orders \subseteq Arrivals(setup.payout)
    BY <1>1, SetupRules DEF BookKept, ValidSetup
  <2>2. book.payout = setup.payout /\ Cardinality(DOMAIN book.slots) = setup.capacity
    <3>1. GoodBook(setup, book)
      BY <2>1 DEF BookInv
    <3>2. book.payout = setup.payout /\ DOMAIN book.slots = 1 .. setup.capacity
      BY <2>1, <3>1, BookFields
    <3>3. setup.capacity \in Nat
      BY <2>1 DEF MarketRules
    <3>4. Cardinality(1 .. setup.capacity)
            = IF 1 > setup.capacity THEN 0 ELSE setup.capacity - 1 + 1
      BY <3>3, FS_Interval
    <3>. QED
      BY <3>2, <3>3, <3>4
  <2>3. ASSUME NEW in \in setup.orders
        PROVE  SameAsReference(book, Plan(book, in, now, setup.touches), in, now, setup.touches)
    <3>. DEFINE plan == Plan(book, in, now, setup.touches)
                order == OrderOf(book, in)
                ref == Execute(OrdersIn(book), in, order, now, setup.touches, setup.payout,
                               setup.capacity)
    <3>1. Same(plan, ref)
      BY <2>1, PlansAgree
    <3>2. ref = Execute({book.slots[s] : s \in Resting(book)}, in, order, now, setup.touches,
                        book.payout, Cardinality(DOMAIN book.slots))
      BY <2>2 DEF OrdersIn
    <3>3. order = [id |-> book.next, owner |-> in.owner, outcome |-> in.outcome,
                   action |-> in.action, price |-> in.price, remaining |-> in.quantity,
                   expires |-> in.expires, notional |-> 0]
      BY DEF OrderOf
    <3>. HIDE DEF plan, ref, order
    <3>4. SameAsReference(book, plan, in, now, setup.touches)
      BY <3>1, <3>2, <3>3 DEF SameAsReference, Same, OrdersIn
    <3>. QED
      BY <3>4 DEF plan
  <2>. QED
    BY <2>3 DEF MatchesReference
<1>. QED
  BY <1>1, BookStarts, BookIsKept, PTL DEF Spec
=============================================================================
