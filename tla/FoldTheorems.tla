---------------------------- MODULE FoldTheorems ----------------------------
(***************************************************************************)
(* Facts about the loops of the model.  A loop over a finite set takes its *)
(* elements in the order Pick says, the picked element last, and updates   *)
(* an accumulator with Step; the context of the loop does not change.  The *)
(* module is instantiated once per kind of loop: the sums of amounts, the  *)
(* loops over a sequence, the loops over makers in priority order.         *)
(*                                                                         *)
(* An instance copies what the module extends into each obligation after   *)
(* it, so the module extends no library of theorems: it has a notion of    *)
(* finiteness of its own, which every set IsFiniteSet is true of has.      *)
(***************************************************************************)
EXTENDS Integers, Folds

CONSTANTS Step(_, _, _),   \* context, accumulator, element
          Pick(_)          \* the last element of a non-empty set

Fold(context, base, S) ==
    MapThenFoldSet(LAMBDA x, acc : Step(context, acc, x), base,
                   LAMBDA x : x, Pick, S)

Picks(S) == \A T \in SUBSET S : T # {} => Pick(T) \in T
Rest(T) == T \ {Pick(T)}

----------------------------------------------------------------------------
\* A set is finite when every family of its subsets has a smallest one: every
\* descent in the set ends.
Smallest(T, family) == \A R \in family : R \subseteq T => R = T
Finite(S) == \A family \in SUBSET SUBSET S :
               family # {} => \E T \in family : Smallest(T, family)

LEMMA FinitePart ==
    ASSUME NEW S, Finite(S), NEW T \in SUBSET S
    PROVE  Finite(T)
<1>1. SUBSET SUBSET T \subseteq SUBSET SUBSET S
  OBVIOUS
<1>. QED
  BY <1>1 DEF Finite

LEMMA FiniteEmpty == Finite({})
<1>. SUFFICES ASSUME NEW family \in SUBSET SUBSET {}, family # {}
              PROVE  \E T \in family : Smallest(T, family)
  BY DEF Finite
<1>1. \A T \in family : T = {}
  OBVIOUS
<1>. QED
  BY <1>1 DEF Smallest

LEMMA FiniteAdd ==
    ASSUME NEW S, Finite(S), NEW x
    PROVE  Finite(S \union {x})
<1>. SUFFICES ASSUME NEW family \in SUBSET SUBSET (S \union {x}), family # {}
              PROVE  \E T \in family : Smallest(T, family)
  BY DEF Finite
<1>. DEFINE without == {T \ {x} : T \in family}
<1>1. PICK M \in without : Smallest(M, without)
  <2>1. without \in SUBSET SUBSET S /\ without # {}
    OBVIOUS
  <2>. QED
    BY <2>1 DEF Finite
<1>2. PICK T \in family : T \ {x} = M
  OBVIOUS
<1>3. ASSUME NEW R \in family, NEW U \in family, U \ {x} = M, R \subseteq U
      PROVE  R \ {x} = M
  <2>1. R \ {x} \in without /\ R \ {x} \subseteq M
    BY <1>3
  <2>. HIDE DEF without
  <2>. QED
    BY <1>1, <2>1 DEF Smallest
<1>4. CASE M \in family
  <2>1. x \notin M
    BY <1>2
  <2>2. M \ {x} = M
    BY <2>1
  <2>3. Smallest(M, family)
    BY <1>3, <1>4, <2>1, <2>2 DEF Smallest
  <2>. QED
    BY <1>4, <2>3
<1>5. CASE M \notin family
  <2>1. ASSUME NEW R \in family, R \subseteq T
        PROVE  R = T
    <3>1. R \ {x} = M
      BY <1>2, <1>3, <2>1
    <3>2. x \in R /\ x \in T
      BY <1>2, <1>5, <3>1
    <3>. QED
      BY <1>2, <3>1, <3>2
  <2>. QED
    BY <2>1 DEF Smallest
<1>. QED
  BY <1>4, <1>5

\* What goes on from a set to one with another element holds of a finite set,
\* and what goes on from the rest of a set to the set.
LEMMA SetInduct ==
    ASSUME NEW S, Finite(S), NEW Good,
           {} \in Good,
           \A T \in SUBSET S : \A x \in S \ T :
               T \in Good => T \union {x} \in Good
    PROVE  S \in Good
<1>. SUFFICES ASSUME S \notin Good
              PROVE  FALSE
  OBVIOUS
<1>. DEFINE bad == (SUBSET S) \ Good
<1>1. PICK T \in bad : Smallest(T, bad)
  BY DEF Finite
<1>2. PICK x \in T : TRUE
  BY <1>1
<1>3. T \ {x} \in Good
  BY <1>1, <1>2 DEF Smallest
<1>4. (T \ {x}) \union {x} = T /\ x \in S \ (T \ {x}) /\ T \ {x} \in SUBSET S
  BY <1>1, <1>2
<1>. QED
  BY <1>1, <1>3, <1>4

LEMMA PickInduct ==
    ASSUME NEW S, Finite(S), Picks(S), NEW Good,
           {} \in Good,
           \A T \in SUBSET S :
               T # {} /\ Rest(T) \in Good => T \in Good
    PROVE  S \in Good
<1>. SUFFICES ASSUME S \notin Good
              PROVE  FALSE
  OBVIOUS
<1>. DEFINE bad == (SUBSET S) \ Good
<1>1. PICK T \in bad : Smallest(T, bad)
  BY DEF Finite
<1>2. T # {} /\ Pick(T) \in T
  BY <1>1 DEF Picks
<1>3. Rest(T) \in Good
  BY <1>1, <1>2 DEF Smallest, Rest
<1>. QED
  BY <1>1, <1>2, <1>3

LEMMA FiniteUnion ==
    ASSUME NEW S, Finite(S), NEW R, Finite(R)
    PROVE  Finite(S \union R)
<1>. DEFINE good == {T \in SUBSET R : Finite(S \union T)}
<1>1. {} \in good
  <2>1. S \union {} = S
    OBVIOUS
  <2>. QED
    BY <2>1
<1>2. ASSUME NEW T \in SUBSET R, NEW x \in R \ T, T \in good
      PROVE  T \union {x} \in good
  <2>1. (S \union T) \union {x} = S \union (T \union {x})
    OBVIOUS
  <2>2. Finite(S \union (T \union {x}))
    BY <1>2, <2>1, FiniteAdd
  <2>. QED
    BY <2>2
<1>. HIDE DEF good
<1>3. R \in good
  BY <1>1, <1>2, SetInduct
<1>. QED
  BY <1>3 DEF good

----------------------------------------------------------------------------
\* The recursive function a fold is the value of.
Body(context, base, g, T) ==
    IF T = {} THEN base ELSE Step(context, g[Rest(T)], Pick(T))

Solves(context, base, g, D) == g = [T \in D |-> Body(context, base, g, T)]

LEMMA FoldIsSolution ==
    ASSUME NEW context, NEW base, NEW S
    PROVE  Fold(context, base, S) =
             (CHOOSE g : Solves(context, base, g, SUBSET S))[S]
BY DEF Fold, MapThenFoldSet, Solves, Body, Rest

LEMMA SolutionsAgree ==
    ASSUME NEW context, NEW base, NEW S, Finite(S), Picks(S),
           NEW T \in SUBSET S, NEW g, NEW h,
           Solves(context, base, g, SUBSET S),
           Solves(context, base, h, SUBSET T)
    PROVE  g[T] = h[T]
<1>. DEFINE good == {R \in SUBSET T : g[R] = h[R]}
<1>1. \A R \in SUBSET T : /\ g[R] = Body(context, base, g, R)
                          /\ h[R] = Body(context, base, h, R)
  BY DEF Solves
<1>2. {} \in good
  BY <1>1 DEF Body
<1>3. ASSUME NEW R \in SUBSET T, R # {}, Rest(R) \in good
      PROVE  R \in good
  BY <1>1, <1>3 DEF Body
<1>4. Finite(T) /\ Picks(T)
  BY FinitePart DEF Picks
<1>. HIDE DEF good
<1>5. T \in good
  BY <1>2, <1>3, <1>4, PickInduct
<1>. QED
  BY <1>5 DEF good

\* Each subset gets its value from the solution for its rest.
LEMMA SolutionExists ==
    ASSUME NEW context, NEW base, NEW S, Finite(S), Picks(S)
    PROVE  \E g : Solves(context, base, g, SUBSET S)
<1>. DEFINE bad == {T \in SUBSET S : ~ \E g : Solves(context, base, g, SUBSET T)}
<1>. SUFFICES ASSUME S \in bad
              PROVE  FALSE
  OBVIOUS
<1>1. PICK T \in bad : Smallest(T, bad)
  BY DEF Finite
<1>. DEFINE sol(R) == CHOOSE g : Solves(context, base, g, SUBSET R)
            value(R) == IF R = {} THEN base
                        ELSE Step(context, sol(Rest(R))[Rest(R)], Pick(R))
            h == [R \in SUBSET T |-> value(R)]
<1>2. ASSUME NEW R \in SUBSET T, R # {}
      PROVE  /\ Rest(R) \in SUBSET T /\ Rest(R) # R /\ Rest(R) # T
             /\ Solves(context, base, sol(Rest(R)), SUBSET Rest(R))
  <2>1. Pick(R) \in R /\ Rest(R) \in SUBSET T /\ Rest(R) # R /\ Rest(R) # T
    BY <1>2 DEF Picks, Rest
  <2>2. Rest(R) \notin bad
    BY <1>1, <2>1 DEF Smallest
  <2>3. \E g : Solves(context, base, g, SUBSET Rest(R))
    BY <2>1, <2>2
  <2>. QED
    BY <2>1, <2>3
<1>3. ASSUME NEW R \in SUBSET T, R # {}
      PROVE  h[Rest(R)] = sol(Rest(R))[Rest(R)]
  <2>. DEFINE Q == Rest(R)
              q == sol(Q)
  <2>1. /\ Q \in SUBSET T /\ Q \in SUBSET Q
        /\ Solves(context, base, q, SUBSET Q)
    BY <1>2, <1>3
  <2>2. q[Q] = Body(context, base, q, Q)
    BY <2>1 DEF Solves
  <2>3. CASE Q = {}
    BY <2>1, <2>2, <2>3 DEF Body
  <2>4. CASE Q # {}
    <3>1. /\ Rest(Q) \in SUBSET Q
          /\ Solves(context, base, sol(Rest(Q)), SUBSET Rest(Q))
      BY <1>2, <2>1, <2>4 DEF Rest
    <3>2. Finite(Q) /\ Picks(Q)
      <4>1. Q \in SUBSET S
        BY <2>1
      <4>. HIDE DEF Q
      <4>. QED
        BY <4>1, FinitePart DEF Picks
    <3>. HIDE DEF Q, q, sol
    <3>3. q[Rest(Q)] = sol(Rest(Q))[Rest(Q)]
      BY <2>1, <3>1, <3>2, SolutionsAgree
    <3>. USE DEF Q
    <3>4. h[Q] = Step(context, sol(Rest(Q))[Rest(Q)], Pick(Q))
      BY <2>1, <2>4
    <3>. HIDE DEF Q, h
    <3>. QED
      BY <2>2, <2>4, <3>3, <3>4 DEF Body, Q, q
  <2>. QED
    BY <2>3, <2>4
<1>4. Solves(context, base, h, SUBSET T)
  <2>. HIDE DEF sol, h
  <2>1. \A R \in SUBSET T : value(R) = Body(context, base, h, R)
    BY <1>3 DEF Body
  <2>. HIDE DEF value
  <2>. QED
    BY <2>1 DEF Solves, h
<1>. QED
  BY <1>1, <1>4

\* The loop equation: an empty loop is its base, and the picked element is
\* the last to be taken.
THEOREM FoldEmpty ==
    ASSUME NEW context, NEW base
    PROVE  Fold(context, base, {}) = base
<1>. DEFINE g == CHOOSE g : Solves(context, base, g, SUBSET {})
<1>1. Finite({}) /\ Picks({})
  BY FiniteEmpty DEF Picks
<1>2. \E h : Solves(context, base, h, SUBSET {})
  BY <1>1, SolutionExists
<1>3. Solves(context, base, g, SUBSET {})
  BY <1>2
<1>4. Fold(context, base, {}) = g[{}]
  BY FoldIsSolution
<1>. HIDE DEF g
<1>. QED
  BY <1>3, <1>4 DEF Solves, Body

THEOREM FoldLast ==
    ASSUME NEW context, NEW base, NEW S, Finite(S), Picks(S), S # {}
    PROVE  Fold(context, base, S) =
             Step(context, Fold(context, base, Rest(S)), Pick(S))
<1>. DEFINE sol(T) == CHOOSE g : Solves(context, base, g, SUBSET T)
<1>1. ASSUME NEW T \in SUBSET S
      PROVE  /\ Solves(context, base, sol(T), SUBSET T)
             /\ Fold(context, base, T) = sol(T)[T]
  <2>1. Finite(T) /\ Picks(T)
    BY FinitePart DEF Picks
  <2>2. \E h : Solves(context, base, h, SUBSET T)
    BY <2>1, SolutionExists
  <2>. QED
    BY <2>2, FoldIsSolution
<1>. HIDE DEF sol
<1>2. Rest(S) \in SUBSET S
  BY DEF Rest
<1>3. sol(S)[S] = Step(context, sol(S)[Rest(S)], Pick(S))
  BY <1>1 DEF Solves, Body
<1>4. sol(S)[Rest(S)] = sol(Rest(S))[Rest(S)]
  <2>1. /\ Solves(context, base, sol(S), SUBSET S)
        /\ Solves(context, base, sol(Rest(S)), SUBSET Rest(S))
    BY <1>1, <1>2
  <2>. QED
    BY <1>2, <2>1, SolutionsAgree
<1>. QED
  BY <1>1, <1>2, <1>3, <1>4

\* Two loops that do the same with every element have the same result.
Alike(c, d, S) == \A x \in S : \A acc : Step(c, acc, x) = Step(d, acc, x)

THEOREM FoldSame ==
    ASSUME NEW c, NEW d, NEW base, NEW S, Finite(S), Picks(S), Alike(c, d, S)
    PROVE  Fold(c, base, S) = Fold(d, base, S)
<1>. DEFINE good == {T \in SUBSET S : Fold(c, base, T) = Fold(d, base, T)}
<1>1. {} \in good
  BY FoldEmpty
<1>2. ASSUME NEW T \in SUBSET S, T # {}, Rest(T) \in good
      PROVE  T \in good
  <2>1. Finite(T) /\ Picks(T) /\ Pick(T) \in T
    BY <1>2, FinitePart DEF Picks
  <2>2. /\ Fold(c, base, T) = Step(c, Fold(c, base, Rest(T)), Pick(T))
        /\ Fold(d, base, T) = Step(d, Fold(d, base, Rest(T)), Pick(T))
    BY <1>2, <2>1, FoldLast
  <2>3. Fold(c, base, Rest(T)) = Fold(d, base, Rest(T))
    BY <1>2
  <2>. QED
    BY <2>1, <2>2, <2>3 DEF Alike
<1>. HIDE DEF good
<1>3. S \in good
  BY <1>1, <1>2, PickInduct
<1>. QED
  BY <1>3 DEF good
----------------------------------------------------------------------------
\* Loops over a sequence: the elements are its indices, the greatest last.
InOrder(n) ==
    /\ Finite(1 .. n)
    /\ \A T \in SUBSET (1 .. n) : T # {} => Pick(T) \in T /\ \A i \in T : i <= Pick(T)

THEOREM LoopLast ==
    ASSUME NEW context, NEW base, NEW n \in Nat, InOrder(n + 1)
    PROVE  Fold(context, base, 1 .. n + 1) =
             Step(context, Fold(context, base, 1 .. n), n + 1)
<1>1. Finite(1 .. n + 1) /\ Picks(1 .. n + 1) /\ 1 .. n + 1 # {}
  <2>1. Finite(1 .. n + 1)
    BY DEF InOrder
  <2>2. Picks(1 .. n + 1)
    BY DEF InOrder, Picks
  <2>3. n + 1 \in 1 .. n + 1
    OBVIOUS
  <2>. QED
    BY <2>1, <2>2, <2>3
<1>2. Pick(1 .. n + 1) = n + 1
  <2>1. /\ Pick(1 .. n + 1) \in 1 .. n + 1
        /\ \A i \in 1 .. n + 1 : i <= Pick(1 .. n + 1)
    BY <1>1 DEF InOrder
  <2>. QED
    BY <2>1
<1>3. Rest(1 .. n + 1) = 1 .. n
  BY <1>2 DEF Rest
<1>. QED
  BY <1>1, <1>2, <1>3, FoldLast

----------------------------------------------------------------------------
\* Sums: the context is the function whose values are added.
Adds == \A f, acc, x : Step(f, acc, x) = f[x] + acc
Total(f, S) == Fold(f, 0, S)
PicksAny == \A T : T # {} => Pick(T) \in T

LEMMA AnyPicks ==
    ASSUME PicksAny, NEW S
    PROVE  Picks(S)
BY DEF Picks, PicksAny

THEOREM SumEmpty == \A f : Total(f, {}) = 0
BY FoldEmpty DEF Total

LEMMA SumLast ==
    ASSUME Adds, PicksAny, NEW f, NEW S, Finite(S), S # {}
    PROVE  Total(f, S) = f[Pick(S)] + Total(f, Rest(S))
BY AnyPicks, FoldLast DEF Total, Adds

THEOREM SumInt ==
    ASSUME Adds, PicksAny, NEW f, NEW S, Finite(S),
           \A x \in S : f[x] \in Int
    PROVE  Total(f, S) \in Int
<1>. DEFINE good == {T \in SUBSET S : Total(f, T) \in Int}
<1>1. {} \in good
  BY SumEmpty
<1>2. ASSUME NEW T \in SUBSET S, T # {}, Rest(T) \in good
      PROVE  T \in good
  <2>1. Finite(T) /\ Pick(T) \in T
    BY <1>2, FinitePart DEF PicksAny
  <2>. QED
    BY <1>2, <2>1, SumLast
<1>. HIDE DEF good
<1>3. S \in good
  BY <1>1, <1>2, PickInduct, AnyPicks
<1>. QED
  BY <1>3 DEF good

THEOREM SumNat ==
    ASSUME Adds, PicksAny, NEW f, NEW S, Finite(S),
           \A x \in S : f[x] \in Nat
    PROVE  Total(f, S) \in Nat
<1>. DEFINE good == {T \in SUBSET S : Total(f, T) \in Nat}
<1>1. {} \in good
  BY SumEmpty
<1>2. ASSUME NEW T \in SUBSET S, T # {}, Rest(T) \in good
      PROVE  T \in good
  <2>1. Finite(T) /\ Pick(T) \in T
    BY <1>2, FinitePart DEF PicksAny
  <2>. QED
    BY <1>2, <2>1, SumLast
<1>. HIDE DEF good
<1>3. S \in good
  BY <1>1, <1>2, PickInduct, AnyPicks
<1>. QED
  BY <1>3 DEF good

THEOREM SumSame ==
    ASSUME Adds, PicksAny, NEW f, NEW g, NEW S, Finite(S),
           \A x \in S : f[x] = g[x]
    PROVE  Total(f, S) = Total(g, S)
<1>1. Alike(f, g, S)
  BY DEF Adds, Alike
<1>. QED
  BY <1>1, FoldSame, AnyPicks DEF Total

\* Any element may be added last.
THEOREM SumElement ==
    ASSUME Adds, PicksAny, NEW f, NEW S, Finite(S), NEW x \in S,
           \A y \in S : f[y] \in Int
    PROVE  Total(f, S) = f[x] + Total(f, S \ {x})
<1>. DEFINE moves(T) == \A y \in T : Total(f, T) = f[y] + Total(f, T \ {y})
            bad == {T \in SUBSET S : ~moves(T)}
<1>. SUFFICES ASSUME S \in bad
              PROVE  FALSE
  OBVIOUS
<1>1. PICK T \in bad : Smallest(T, bad)
  BY DEF Finite
<1>2. ASSUME NEW y \in T
      PROVE  Total(f, T) = f[y] + Total(f, T \ {y})
  <2>. DEFINE p == Pick(T)
              U == T \ {y, p}
  <2>1. Finite(T) /\ p \in T /\ T # {} /\ T \in SUBSET S
    BY FinitePart DEF PicksAny
  <2>2. Total(f, T) = f[p] + Total(f, T \ {p})
    BY <2>1, SumLast DEF Rest
  <2>3. CASE y = p
    BY <2>2, <2>3
  <2>4. CASE y # p
    <3>. HIDE DEF p
    <3>1. T \ {p} \notin bad /\ T \ {y} \notin bad
      <4>1. T \ {p} # T /\ T \ {y} # T /\ T \ {p} \subseteq T /\ T \ {y} \subseteq T
        BY <2>1
      <4>. HIDE DEF bad
      <4>. QED
        BY <1>1, <4>1 DEF Smallest
    <3>2. moves(T \ {p}) /\ moves(T \ {y})
      BY <2>1, <3>1
    <3>3. /\ (T \ {p}) \ {y} = U /\ (T \ {y}) \ {p} = U
          /\ y \in T \ {p} /\ p \in T \ {y}
      BY <2>1, <2>4
    <3>. HIDE DEF U, bad
    <3>4. /\ Total(f, T \ {p}) = f[y] + Total(f, U)
          /\ Total(f, T \ {y}) = f[p] + Total(f, U)
      BY <3>2, <3>3
    <3>5. f[p] \in Int /\ f[y] \in Int /\ Total(f, U) \in Int
      <4>1. U \in SUBSET S
        BY <2>1 DEF U
      <4>. QED
        BY <2>1, <4>1, SumInt, FinitePart
    <3>. QED
      BY <2>2, <3>4, <3>5
  <2>. QED
    BY <2>3, <2>4
<1>. QED
  BY <1>1, <1>2

COROLLARY SumAdd ==
    ASSUME Adds, PicksAny, NEW f, NEW S, Finite(S), NEW x, x \notin S,
           f[x] \in Int, \A y \in S : f[y] \in Int
    PROVE  Total(f, S \union {x}) = f[x] + Total(f, S)
<1>1. Finite(S \union {x})
  BY FiniteAdd
<1>2. (S \union {x}) \ {x} = S
  OBVIOUS
<1>. QED
  BY <1>1, <1>2, SumElement

\* Pointwise facts, and the parts of a sum.
THEOREM SumPlus ==
    ASSUME Adds, PicksAny, NEW f, NEW g, NEW h, NEW S, Finite(S),
           \A x \in S : f[x] \in Int /\ g[x] \in Int /\ h[x] = f[x] + g[x]
    PROVE  Total(h, S) = Total(f, S) + Total(g, S)
<1>. DEFINE good == {T \in SUBSET S : Total(h, T) = Total(f, T) + Total(g, T)}
<1>1. {} \in good
  BY SumEmpty
<1>2. ASSUME NEW T \in SUBSET S, NEW x \in S \ T, T \in good
      PROVE  T \union {x} \in good
  <2>1. Finite(T)
    BY FinitePart
  <2>2. /\ Total(f, T \union {x}) = f[x] + Total(f, T)
        /\ Total(g, T \union {x}) = g[x] + Total(g, T)
        /\ Total(h, T \union {x}) = h[x] + Total(h, T)
    BY <2>1, SumAdd
  <2>3. Total(f, T) \in Int /\ Total(g, T) \in Int
    BY <2>1, SumInt
  <2>. QED
    BY <1>2, <2>2, <2>3
<1>. HIDE DEF good
<1>3. S \in good
  BY <1>1, <1>2, SetInduct
<1>. QED
  BY <1>3 DEF good

Scaled(f, g, c, S) == \A x \in S : f[x] \in Int /\ g[x] = c * f[x]

THEOREM SumScale ==
    ASSUME Adds, PicksAny, NEW f, NEW g, NEW c \in Int, NEW S, Finite(S),
           Scaled(f, g, c, S)
    PROVE  Total(g, S) = c * Total(f, S)
<1>. DEFINE good == {T \in SUBSET S : Total(g, T) = c * Total(f, T)}
<1>1. {} \in good
  BY SumEmpty
<1>2. ASSUME NEW T \in SUBSET S, NEW x \in S \ T, T \in good
      PROVE  T \union {x} \in good
  <2>1. Finite(T)
    BY FinitePart
  <2>2. /\ Total(f, T \union {x}) = f[x] + Total(f, T)
        /\ Total(g, T \union {x}) = g[x] + Total(g, T)
    BY <2>1, SumAdd DEF Scaled
  <2>3. Total(f, T) \in Int /\ Total(g, T) \in Int
    BY <2>1, SumInt DEF Scaled
  <2>. QED
    BY <1>2, <2>2, <2>3 DEF Scaled
<1>. HIDE DEF good
<1>3. S \in good
  BY <1>1, <1>2, SetInduct
<1>. QED
  BY <1>3 DEF good

THEOREM SumMonotone ==
    ASSUME Adds, PicksAny, NEW f, NEW g, NEW S, Finite(S),
           \A x \in S : f[x] \in Int /\ g[x] \in Int /\ f[x] <= g[x]
    PROVE  Total(f, S) <= Total(g, S)
<1>. DEFINE good == {T \in SUBSET S : Total(f, T) <= Total(g, T)}
<1>1. {} \in good
  BY SumEmpty
<1>2. ASSUME NEW T \in SUBSET S, NEW x \in S \ T, T \in good
      PROVE  T \union {x} \in good
  <2>1. Finite(T)
    BY FinitePart
  <2>2. /\ Total(f, T \union {x}) = f[x] + Total(f, T)
        /\ Total(g, T \union {x}) = g[x] + Total(g, T)
    BY <2>1, SumAdd
  <2>3. Total(f, T) \in Int /\ Total(g, T) \in Int
    BY <2>1, SumInt
  <2>. QED
    BY <1>2, <2>2, <2>3
<1>. HIDE DEF good
<1>3. S \in good
  BY <1>1, <1>2, SetInduct
<1>. QED
  BY <1>3 DEF good

THEOREM SumDisjoint ==
    ASSUME Adds, PicksAny, NEW f, NEW S, NEW R, Finite(S), Finite(R),
           S \intersect R = {}, \A x \in S \union R : f[x] \in Int
    PROVE  Total(f, S \union R) = Total(f, S) + Total(f, R)
<1>. DEFINE good == {T \in SUBSET R :
                        Total(f, S \union T) = Total(f, S) + Total(f, T)}
<1>1. {} \in good
  <2>1. Total(f, S) \in Int /\ S \union {} = S
    BY SumInt
  <2>. QED
    BY <2>1, SumEmpty
<1>2. ASSUME NEW T \in SUBSET R, NEW x \in R \ T, T \in good
      PROVE  T \union {x} \in good
  <2>1. Finite(T) /\ Finite(S \union T)
    BY FinitePart, FiniteUnion
  <2>2. Total(f, T \union {x}) = f[x] + Total(f, T)
    BY <2>1, SumAdd
  <2>3. Total(f, (S \union T) \union {x}) = f[x] + Total(f, S \union T)
    BY <2>1, SumAdd
  <2>4. (S \union T) \union {x} = S \union (T \union {x})
    OBVIOUS
  <2>5. Total(f, T) \in Int /\ Total(f, S) \in Int /\ f[x] \in Int
    BY <2>1, SumInt
  <2>6. Total(f, S \union T) = Total(f, S) + Total(f, T)
    BY <1>2
  <2>7. Total(f, S \union (T \union {x})) = f[x] + Total(f, S \union T)
    BY <2>3, <2>4
  <2>8. Total(f, S \union (T \union {x}))
          = Total(f, S) + Total(f, T \union {x})
    BY <2>2, <2>5, <2>6, <2>7
  <2>. QED
    BY <2>8
<1>. HIDE DEF good
<1>3. R \in good
  BY <1>1, <1>2, SetInduct
<1>. QED
  BY <1>3 DEF good

\* One value changes.
COROLLARY SumChange ==
    ASSUME Adds, PicksAny, NEW f, NEW g, NEW S, Finite(S), NEW x \in S,
           \A y \in S : f[y] \in Int /\ g[y] \in Int,
           \A y \in S \ {x} : f[y] = g[y]
    PROVE  Total(g, S) = Total(f, S) + (g[x] - f[x])
<1>1. Finite(S \ {x})
  BY FinitePart
<1>2. /\ Total(f, S) = f[x] + Total(f, S \ {x})
      /\ Total(g, S) = g[x] + Total(g, S \ {x})
  BY SumElement
<1>3. Total(f, S \ {x}) = Total(g, S \ {x})
  BY <1>1, SumSame
<1>4. Total(f, S \ {x}) \in Int
  BY <1>1, SumInt
<1>. QED
  BY <1>2, <1>3, <1>4

\* A part of a sum of natural numbers, one of its terms in particular.
COROLLARY SumPart ==
    ASSUME Adds, PicksAny, NEW f, NEW S, Finite(S), NEW T \in SUBSET S,
           \A x \in S : f[x] \in Nat
    PROVE  /\ Total(f, T) <= Total(f, S)
           /\ Total(f, S) = Total(f, T) + Total(f, S \ T)
<1>1. Finite(T) /\ Finite(S \ T) /\ T \union (S \ T) = S
  BY FinitePart
<1>2. Total(f, S) = Total(f, T) + Total(f, S \ T)
  BY <1>1, SumDisjoint
<1>3. Total(f, T) \in Nat /\ Total(f, S \ T) \in Nat
  BY <1>1, SumNat
<1>. QED
  BY <1>2, <1>3

COROLLARY SumZero ==
    ASSUME Adds, PicksAny, NEW f, NEW S, Finite(S),
           \A x \in S : f[x] = 0
    PROVE  Total(f, S) = 0
<1>1. Total(f, S) = 0 * Total(f, S)
  BY SumScale DEF Scaled
<1>2. Total(f, S) \in Int
  BY SumInt
<1>. QED
  BY <1>1, <1>2
=============================================================================
