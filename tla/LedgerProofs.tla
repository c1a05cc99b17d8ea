---------------------------- MODULE LedgerProofs ----------------------------
(***************************************************************************)
(* Proofs about the three ledgers: OrderReserve for every payout, quantity *)
(* and fee rate, CostBasis for every payout, quantity and amount, and      *)
(* LmsrTrading for every cost table with the properties of LmsrAssumption  *)
(* and any number of traders, quotes and changes.                          *)
(***************************************************************************)
EXTENDS OrderReserve, CostBasis, LmsrTrading, TLAPS

\* The escrow of a chain of BUY orders.

----------------------------------------------------------------------------
\* Ceiling division returns the least natural whose multiple covers n.
LEMMA CeilDivBounds ==
    ASSUME NEW n \in Nat
    PROVE  /\ CeilDiv(n, 10000) \in Nat
           /\ 10000 * CeilDiv(n, 10000) >= n
           /\ 10000 * CeilDiv(n, 10000) < n + 10000
<1>1. CASE n = 0
  BY <1>1 DEF CeilDiv
<1>2. CASE n # 0
  <2>1. CeilDiv(n, 10000) = (n + 9999) \div 10000
    BY <1>2 DEF CeilDiv
  <2>. QED
    BY <2>1, <1>2
<1>. QED
  BY <1>1, <1>2

\* A product of naturals is a natural, and grows with its left factor.
LEMMA ProductMonotone ==
    ASSUME NEW a \in Nat, NEW b \in Nat, NEW k \in Nat, a <= b
    PROVE  /\ a * k \in Nat
           /\ b * k \in Nat
           /\ a * k <= b * k
  OBVIOUS

LEMMA CumulativeFeeNat ==
    ASSUME NEW n \in Nat
    PROVE  CumulativeFee(n, FeeBps) \in Nat
<1>1. n * FeeBps \in Nat
  BY ReserveAssumption DEF FeeBasisPoints
<1>. QED
  BY <1>1, CeilDivBounds DEF CumulativeFee, FeeBasisPoints

\* The fee on more is not less.
LEMMA CumulativeFeeMonotone ==
    ASSUME NEW m \in Nat, NEW n \in Nat, m <= n
    PROVE  CumulativeFee(m, FeeBps) <= CumulativeFee(n, FeeBps)
<1>. DEFINE x == m * FeeBps
            y == n * FeeBps
<1>1. x \in Nat /\ y \in Nat /\ x <= y
  BY ProductMonotone, ReserveAssumption DEF FeeBasisPoints
<1>. HIDE DEF x, y
<1>2. CeilDiv(x, 10000) <= CeilDiv(y, 10000)
  BY <1>1, CeilDivBounds
<1>. QED
  BY <1>2 DEF CumulativeFee, FeeBasisPoints, x, y

\* Fees are naturals, and nothing is charged on nothing.
LEMMA FeeDeltaNat ==
    ASSUME NEW e \in Nat, NEW a \in Nat
    PROVE  /\ FeeDelta(e, a, FeeBps) \in Nat
           /\ FeeDelta(e, 0, FeeBps) = 0
           /\ CumulativeFee(e, FeeBps) + FeeDelta(e, a, FeeBps)
                = CumulativeFee(e + a, FeeBps)
<1>1. e + a \in Nat /\ e <= e + a /\ e + 0 = e
  OBVIOUS
<1>2. /\ CumulativeFee(e, FeeBps) \in Nat
      /\ CumulativeFee(e + a, FeeBps) \in Nat
  BY <1>1, CumulativeFeeNat
<1>3. CumulativeFee(e, FeeBps) <= CumulativeFee(e + a, FeeBps)
  BY <1>1, CumulativeFeeMonotone
<1>. QED
  BY <1>1, <1>2, <1>3 DEF FeeDelta

\* Charging a and then b is charging their sum.
LEMMA FeeDeltaAdds ==
    ASSUME NEW e \in Nat, NEW a \in Nat, NEW b \in Nat
    PROVE  FeeDelta(e, a, FeeBps) + FeeDelta(e + a, b, FeeBps)
                = FeeDelta(e, a + b, FeeBps)
<1>1. e + a \in Nat /\ e + a + b \in Nat /\ e + (a + b) = e + a + b
  OBVIOUS
<1>2. /\ CumulativeFee(e, FeeBps) \in Nat
      /\ CumulativeFee(e + a, FeeBps) \in Nat
      /\ CumulativeFee(e + a + b, FeeBps) \in Nat
  BY <1>1, CumulativeFeeNat
<1>. QED
  BY <1>1, <1>2 DEF FeeDelta

\* Reserving more costs no less in fees.
LEMMA FeeDeltaMonotone ==
    ASSUME NEW e \in Nat, NEW a \in Nat, NEW b \in Nat, a <= b
    PROVE  FeeDelta(e, a, FeeBps) <= FeeDelta(e, b, FeeBps)
<1>1. e + a \in Nat /\ e + b \in Nat /\ e + a <= e + b
  OBVIOUS
<1>2. CumulativeFee(e + a, FeeBps) <= CumulativeFee(e + b, FeeBps)
  BY <1>1, CumulativeFeeMonotone
<1>. QED
  BY <1>1, <1>2, CumulativeFeeNat DEF FeeDelta

----------------------------------------------------------------------------
\* The reservation is a function of the live order and of what the chain
\* executed, and the escrow account holds it: the inductive invariant.
ReserveInv ==
    /\ limit \in Nat /\ remaining \in Nat
    /\ executed \in Nat
    /\ principal = limit * remaining
    /\ fee = FeeDelta(executed, principal, FeeBps)
    /\ escrow = principal + fee
    /\ feesPaid = CumulativeFee(executed, FeeBps)

LEMMA ReserveInvTypes ==
    ASSUME ReserveInv
    PROVE  TypeOK
<1>1. principal \in Nat
  BY DEF ReserveInv
<1>2. fee \in Nat
  BY <1>1, FeeDeltaNat DEF ReserveInv
<1>3. feesPaid \in Nat
  BY CumulativeFeeNat DEF ReserveInv
<1>. QED
  BY <1>1, <1>2, <1>3 DEF ReserveInv, TypeOK

\* The money a fill of quantity at price needs, with the rest of the order,
\* is at most what the whole order needed at its limit.
LEMMA FillArithmetic ==
    ASSUME NEW l \in Nat, NEW r \in Nat,
           NEW quantity \in 1 .. r, NEW price \in 1 .. l
    PROVE  /\ price * quantity \in Nat
           /\ l * (r - quantity) \in Nat
           /\ price * quantity + l * (r - quantity) <= l * r
<1>1. quantity \in Nat /\ r - quantity \in Nat /\ price \in Nat
  OBVIOUS
<1>2. price * quantity <= l * quantity
  BY <1>1, ProductMonotone
<1>3. l * quantity + l * (r - quantity) = l * r
  BY <1>1
<1>4. /\ price * quantity \in Nat /\ l * (r - quantity) \in Nat
      /\ l * quantity \in Nat /\ l * r \in Nat
  BY <1>1
<1>. QED
  BY <1>2, <1>3, <1>4

\* In every state of the invariant the reserve covers the next fill.
LEMMA ReserveInvCovers ==
    ASSUME ReserveInv, NEW quantity \in 1 .. remaining, NEW price \in 1 .. limit
    PROVE  Release(quantity, price) >= 0
<1>. DEFINE notional == price * quantity
            rest     == limit * (remaining - quantity)
<1>1. notional \in Nat /\ rest \in Nat /\ notional + rest <= principal
  BY FillArithmetic DEF ReserveInv
<1>2. principal \in Nat /\ fee \in Nat /\ executed \in Nat
  BY ReserveInvTypes DEF TypeOK
<1>3. Release(quantity, price) =
        principal + fee - notional - FeeDelta(executed, notional, FeeBps)
          - rest - FeeDelta(executed + notional, rest, FeeBps)
  BY DEF Release
<1>. HIDE DEF notional, rest
<1>4. FeeDelta(executed, notional, FeeBps)
        + FeeDelta(executed + notional, rest, FeeBps)
        = FeeDelta(executed, notional + rest, FeeBps)
  BY <1>1, <1>2, FeeDeltaAdds
<1>5. FeeDelta(executed, notional + rest, FeeBps) <= fee
  BY <1>1, <1>2, FeeDeltaMonotone DEF ReserveInv
<1>6. executed + notional \in Nat /\ notional + rest \in Nat
  BY <1>1, <1>2
<1>7. /\ FeeDelta(executed, notional, FeeBps) \in Nat
      /\ FeeDelta(executed + notional, rest, FeeBps) \in Nat
      /\ FeeDelta(executed, notional + rest, FeeBps) \in Nat
  BY <1>1, <1>2, <1>6, FeeDeltaNat
<1>. QED
  BY <1>1, <1>2, <1>3, <1>4, <1>5, <1>7

----------------------------------------------------------------------------
LEMMA ReserveInvInit == Init => ReserveInv
<1>. SUFFICES ASSUME Init PROVE ReserveInv
  OBVIOUS
<1>1. FeeDelta(0, 0, FeeBps) = 0
  BY FeeDeltaNat
<1>2. CumulativeFee(0, FeeBps) = 0
  BY ReserveAssumption DEF CumulativeFee, CeilDiv, FeeBasisPoints
<1>. QED
  BY <1>1, <1>2 DEF Init, ReserveInv

\* Reserving, for a new order or a replacement, re-establishes it.
LEMMA ReserveInvariant ==
    ASSUME ReserveInv, NEW price \in UserPrices, NEW quantity \in Quantities,
           Reserve(price, quantity), UNCHANGED <<executed, feesPaid>>
    PROVE  ReserveInv'
<1>1. price \in Nat /\ quantity \in Nat
  BY ReserveAssumption DEF UserPrices, Quantities
<1>. QED
  BY <1>1 DEF ReserveInv, Reserve, ReservedPrincipal, ReservedFee

LEMMA FillInvariant ==
    ASSUME ReserveInv, NEW quantity \in 1 .. remaining, NEW price \in 1 .. limit,
           Fill(quantity, price)
    PROVE  ReserveInv'
<1>. DEFINE notional == price * quantity
            rest     == limit * (remaining - quantity)
<1>1. notional \in Nat /\ rest \in Nat
  BY FillArithmetic DEF ReserveInv
<1>2. remaining - quantity \in Nat /\ quantity \in Nat
  BY DEF ReserveInv
<1>3. principal \in Nat /\ fee \in Nat /\ executed \in Nat /\ escrow \in Nat
      /\ feesPaid \in Nat
  BY ReserveInvTypes DEF TypeOK
<1>4. limit' \in Nat /\ remaining' \in Nat /\ executed' \in Nat
  BY <1>1, <1>2, <1>3 DEF Fill, ReserveInv
<1>5. rest = limit' * remaining'
  BY <1>2 DEF Fill, ReserveInv
<1>6. /\ principal' = rest
      /\ executed' = executed + notional
      /\ fee' = FeeDelta(executed + notional, rest, FeeBps)
      /\ escrow' = escrow - notional - FeeDelta(executed, notional, FeeBps)
                     - Release(quantity, price)
      /\ feesPaid' = feesPaid + FeeDelta(executed, notional, FeeBps)
      /\ Release(quantity, price) =
           principal + fee - notional - FeeDelta(executed, notional, FeeBps)
             - rest - FeeDelta(executed + notional, rest, FeeBps)
  BY DEF Fill, Release
<1>. HIDE DEF notional, rest
<1>6a. executed + notional \in Nat
  BY <1>1, <1>3
<1>7. /\ FeeDelta(executed, notional, FeeBps) \in Nat
      /\ FeeDelta(executed + notional, rest, FeeBps) \in Nat
      /\ CumulativeFee(executed, FeeBps)
            + FeeDelta(executed, notional, FeeBps)
            = CumulativeFee(executed + notional, FeeBps)
  BY <1>1, <1>3, <1>6a, FeeDeltaNat
<1>8. escrow' = principal' + fee'
  BY <1>1, <1>3, <1>6, <1>7 DEF ReserveInv
<1>9. feesPaid' = CumulativeFee(executed', FeeBps)
  BY <1>6, <1>7 DEF ReserveInv
<1>. QED
  BY <1>4, <1>5, <1>6, <1>8, <1>9 DEF ReserveInv

LEMMA ReleaseInvariant ==
    ASSUME ReserveInv, ReleaseAll
    PROVE  ReserveInv'
<1>1. FeeDelta(executed, 0, FeeBps) = 0
  BY FeeDeltaNat DEF ReserveInv
<1>2. escrow \in Nat /\ escrow = principal + fee
  BY ReserveInvTypes DEF TypeOK, ReserveInv
<1>. QED
  BY <1>1, <1>2 DEF ReserveInv, ReleaseAll

LEMMA ReserveInvNext == ReserveInv /\ [Next]_vars => ReserveInv'
<1>. SUFFICES ASSUME ReserveInv, [Next]_vars PROVE ReserveInv'
  OBVIOUS
<1>1. ASSUME NEW price \in UserPrices, NEW quantity \in Quantities,
             Place(price, quantity)
      PROVE  ReserveInv'
  BY <1>1, ReserveInvariant DEF Place
<1>2. ASSUME NEW price \in UserPrices, NEW quantity \in Quantities,
             Replace(price, quantity)
      PROVE  ReserveInv'
  BY <1>2, ReserveInvariant DEF Replace
<1>3. ASSUME NEW quantity \in 1 .. remaining, NEW price \in 1 .. limit,
             Fill(quantity, price)
      PROVE  ReserveInv'
  BY <1>3, FillInvariant
<1>4. CASE ReleaseAll
  BY <1>4, ReleaseInvariant
<1>5. CASE UNCHANGED vars
  BY <1>5 DEF ReserveInv, vars
<1>. QED
  BY <1>1, <1>2, <1>3, <1>4, <1>5 DEF Next

LEMMA ReserveInvAlways == Spec => []ReserveInv
  BY ReserveInvInit, ReserveInvNext, PTL DEF Spec

----------------------------------------------------------------------------
\* No account of the escrow is ever overdrawn, for any fee and payout.
THEOREM ReserveTypeCorrect == Spec => []TypeOK
<1>1. ReserveInv => TypeOK
  BY ReserveInvTypes
<1>. QED
  BY <1>1, ReserveInvAlways, PTL

\* adjustReservationAfterFill never throws "Order reserve did not cover a
\* fill": the reserve covers every fill at the limit or better.
THEOREM ReserveAlwaysCovers == Spec => []ReserveCoversFills
<1>1. ReserveInv => ReserveCoversFills
  BY ReserveInvCovers DEF ReserveCoversFills
<1>. QED
  BY <1>1, ReserveInvAlways, PTL

\* The escrow account holds what the reservation says, and nothing when no
\* order of the chain is live: money is never left behind.
THEOREM EscrowIsExact == Spec => []EscrowMatchesReservation
<1>1. ASSUME ReserveInv PROVE EscrowMatchesReservation
  <2>1. ASSUME remaining = 0 PROVE escrow = 0
    <3>1. principal = 0
      BY <1>1, <2>1 DEF ReserveInv
    <3>2. fee = 0
      BY <1>1, <3>1, FeeDeltaNat DEF ReserveInv
    <3>. QED
      BY <1>1, <3>1, <3>2 DEF ReserveInv
  <2>. QED
    BY <1>1, <2>1 DEF EscrowMatchesReservation, ReserveInv
<1>. QED
  BY <1>1, ReserveInvAlways, PTL

\* The fees a chain pays are the fee on its total, however it was split.
THEOREM FeesAlwaysTelescope == Spec => []FeesTelescope
<1>1. ReserveInv => FeesTelescope
  BY DEF ReserveInv, FeesTelescope
<1>. QED
  BY <1>1, ReserveInvAlways, PTL

----------------------------------------------------------------------------
\* The cost basis of a position.

----------------------------------------------------------------------------
\* Division with remainder.
LEMMA DivMod ==
    ASSUME NEW n \in Nat, NEW c \in Nat \ {0}
    PROVE  /\ n \div c \in Nat
           /\ n % c \in Nat
           /\ n % c < c
           /\ n = c * (n \div c) + (n % c)
  OBVIOUS

LEMMA DivModUnique ==
    ASSUME NEW c \in Nat \ {0}, NEW k \in Nat, NEW r \in Nat, r < c
    PROVE  /\ (c * k + r) \div c = k
           /\ (c * k + r) % c = r
  OBVIOUS

LEMMA MultipleMonotone ==
    ASSUME NEW a \in Nat, NEW b \in Nat, NEW k \in Nat, a <= b
    PROVE  /\ k * a \in Nat
           /\ k * b \in Nat
           /\ k * a <= k * b
  OBVIOUS

----------------------------------------------------------------------------
MinOf(a, b) == IF a < b THEN a ELSE b

\* Selling everything is no exception: with h = c * k + r the contracts sold
\* carry k each, and the first r of them one more.
LEMMA RemovedForm ==
    ASSUME NEW h \in Nat, NEW c \in Nat \ {0}, NEW q \in 0 .. c
    PROVE  BasisRemoved(h, c, q) = (h \div c) * q + MinOf(q, h % c)
<1>. DEFINE k == h \div c
            r == h % c
<1>1. k \in Nat /\ r \in Nat /\ r < c /\ h = c * k + r
  BY DivMod
<1>. HIDE DEF k, r
<1>2. CASE q = c
  <2>1. BasisRemoved(h, c, q) = c * k + r
    BY <1>1, <1>2 DEF BasisRemoved
  <2>2. MinOf(q, r) = r
    BY <1>1, <1>2 DEF MinOf
  <2>3. k * q = c * k
    BY <1>1, <1>2
  <2>. QED
    BY <2>1, <2>2, <2>3 DEF k, r
<1>3. CASE q # c
  BY <1>3 DEF BasisRemoved, MinOf
<1>. QED
  BY <1>2, <1>3

\* A sale never takes more basis than there is, and a complete one takes it
\* all.
LEMMA RemovedBounds ==
    ASSUME NEW h \in Nat, NEW c \in Nat \ {0}, NEW q \in 0 .. c
    PROVE  /\ BasisRemoved(h, c, q) \in 0 .. h
           /\ q = c => BasisRemoved(h, c, q) = h
<1>. DEFINE k == h \div c
            r == h % c
<1>1. k \in Nat /\ r \in Nat /\ r < c /\ h = c * k + r
  BY DivMod
<1>2. BasisRemoved(h, c, q) = k * q + MinOf(q, r)
  BY RemovedForm
<1>. HIDE DEF k, r
<1>3. k * q \in Nat /\ k * q <= k * c /\ k * c = c * k
  BY <1>1, MultipleMonotone
<1>4. MinOf(q, r) \in Nat /\ MinOf(q, r) <= r
  BY <1>1 DEF MinOf
<1>5. BasisRemoved(h, c, q) \in 0 .. h
  BY <1>1, <1>2, <1>3, <1>4
<1>6. q = c => BasisRemoved(h, c, q) = h
  BY DEF BasisRemoved
<1>. QED
  BY <1>5, <1>6

\* So does a redemption, which rounds down.
LEMMA RedeemedBounds ==
    ASSUME NEW h \in Nat, NEW c \in Nat \ {0}, NEW q \in 0 .. c
    PROVE  /\ RedeemedBasis(h, c, q) \in 0 .. h
           /\ q = c => RedeemedBasis(h, c, q) = h
<1>. DEFINE n == h * q
<1>1. n \in Nat /\ n <= c * h
  BY MultipleMonotone
<1>2. CASE q = c
  BY <1>2 DEF RedeemedBasis
<1>3. CASE q # c
  <2>1. RedeemedBasis(h, c, q) = n \div c
    BY <1>3 DEF RedeemedBasis
  <2>. HIDE DEF n
  <2>. DEFINE k == n \div c
  <2>2. k \in Nat /\ c * k <= c * h
    BY <1>1, DivMod
  <2>. HIDE DEF k
  <2>3. k <= h
    <3>1. SUFFICES ASSUME h + 1 <= k
                   PROVE  FALSE
      BY <2>2
    <3>2. c * (h + 1) <= c * k
      BY <2>2, <3>1, MultipleMonotone
    <3>3. c * (h + 1) = c * h + c /\ c * h \in Nat
      BY MultipleMonotone
    <3>. QED
      BY <2>2, <3>2, <3>3
  <2>. QED
    BY <1>3, <2>1, <2>2, <2>3 DEF k
<1>. QED
  BY <1>2, <1>3

\* What a first sale leaves is divided like before.
LEMMA RemovedAdds ==
    ASSUME NEW h \in Nat, NEW c \in Nat \ {0},
           NEW a \in Nat \ {0}, NEW b \in Nat \ {0}, a + b <= c
    PROVE  LET removed == BasisRemoved(h, c, a)
           IN  removed + BasisRemoved(h - removed, c - a, b)
                    = BasisRemoved(h, c, a + b)
<1>. DEFINE k == h \div c
            r == h % c
            removed == BasisRemoved(h, c, a)
            left == r - MinOf(a, r)
<1>1. k \in Nat /\ r \in Nat /\ r < c /\ h = c * k + r
  BY DivMod
<1>2. a \in 0 .. c /\ a + b \in 0 .. c /\ b \in 0 .. (c - a)
      /\ c - a \in Nat \ {0}
  OBVIOUS
<1>3. removed = k * a + MinOf(a, r)
  BY <1>2, RemovedForm
<1>4. BasisRemoved(h, c, a + b) = k * (a + b) + MinOf(a + b, r)
  BY <1>2, RemovedForm
<1>. HIDE DEF k, r, removed
<1>5. left \in Nat /\ left < c - a
  BY <1>1 DEF MinOf
<1>6. h - removed = (c - a) * k + left /\ h - removed \in Nat
  <2>1. c * k = (c - a) * k + a * k /\ a * k = k * a
    BY <1>1, <1>2
  <2>2. (c - a) * k \in Nat /\ a * k \in Nat
    BY <1>1, <1>2
  <2>. QED
    BY <1>1, <1>3, <1>5, <2>1, <2>2 DEF MinOf
<1>. HIDE DEF left
<1>7. (h - removed) \div (c - a) = k /\ (h - removed) % (c - a) = left
  BY <1>1, <1>2, <1>5, <1>6, DivModUnique
<1>8. BasisRemoved(h - removed, c - a, b) = k * b + MinOf(b, left)
  BY <1>2, <1>6, <1>7, RemovedForm
<1>9. MinOf(a, r) + MinOf(b, left) = MinOf(a + b, r)
  BY <1>1 DEF left, MinOf
<1>10. k * (a + b) = k * a + k * b
  BY <1>1
<1>11. k * a \in Nat /\ k * b \in Nat /\ MinOf(a, r) \in Nat
       /\ MinOf(b, left) \in Nat
  BY <1>1, <1>5 DEF MinOf
<1>. QED
  BY <1>3, <1>4, <1>8, <1>9, <1>10, <1>11 DEF removed

----------------------------------------------------------------------------
\* The three parts are inductive only together: that no basis is overdrawn
\* needs the contracts behind it, and that the sum is not needs its parts.
BasisInv == BasisTypeOK /\ BasisReconciles /\ ProfitExplained

LEMMA InitBasisInv == BasisInit => BasisInv
<1>. SUFFICES ASSUME BasisInit
              PROVE  BasisInv
  OBVIOUS
<1>1. BasisTypeOK
  <2>1. 0 \in 0 .. MaxHeld /\ 0 \in 0 .. MaxFills
    BY BasisAssumption
  <2>2. /\ shares \in [Outcomes -> 0 .. MaxHeld]
        /\ basis \in [Outcomes -> Nat]
    BY <2>1 DEF BasisInit
  <2>3. /\ netCost \in Nat /\ realized \in Int /\ cash \in Int
        /\ fills \in 0 .. MaxFills
    BY <2>1 DEF BasisInit
  <2>4. settled \in BOOLEAN
    BY Zenon DEF BasisInit
  <2>. QED
    BY <2>2, <2>3, <2>4 DEF BasisTypeOK
<1>2. BasisReconciles /\ ProfitExplained
  BY DEF BasisInit, BasisReconciles, ProfitExplained, Outcomes
<1>. QED
  BY <1>1, <1>2 DEF BasisInv

LEMMA BuyKeepsBasisInv ==
    ASSUME BasisInv, NEW o \in Outcomes, NEW q \in HeldQuantities,
           NEW a \in Amounts, Buy(o, q, a)
    PROVE  BasisInv'
<1>1. a \in Nat /\ q \in Nat /\ q > 0
  BY BasisAssumption DEF HeldQuantities
<1>2. BasisTypeOK'
  BY <1>1, BasisAssumption DEF Buy, BasisInv, BasisTypeOK
<1>3. BasisReconciles'
  BY <1>1 DEF Buy, BasisInv, BasisTypeOK, BasisReconciles, Outcomes
<1>4. ProfitExplained'
  BY <1>1 DEF Buy, BasisInv, BasisTypeOK, ProfitExplained
<1>. QED
  BY <1>2, <1>3, <1>4 DEF BasisInv

\* A sale keeps them, however it rounds, if it takes no more basis than there
\* is and a complete one takes it all.
LEMMA SaleKeepsBasisInv ==
    ASSUME BasisInv, NEW o \in Outcomes, NEW q \in HeldQuantities,
           NEW a \in Amounts, NEW removed \in 0 .. basis[o],
           q <= shares[o],
           q = shares[o] => removed = basis[o],
           shares' = [shares EXCEPT ![o] = @ - q],
           basis' = [basis EXCEPT ![o] = @ - removed],
           netCost' = netCost - removed,
           realized' = realized + (a - removed),
           cash' = cash + a,
           settled' = settled,
           fills < MaxFills, fills' = fills + 1
    PROVE  BasisInv'
<1>1. a \in Nat /\ q \in Nat /\ q > 0
  BY BasisAssumption DEF HeldQuantities
<1>2. shares[o] \in Nat \ {0} /\ basis[o] \in Nat /\ q \in 0 .. shares[o]
  BY <1>1 DEF BasisInv, BasisTypeOK
<1>3. removed \in Nat /\ removed <= basis[o]
  BY <1>2
<1>4. basis[o] <= netCost
  BY DEF BasisInv, BasisTypeOK, BasisReconciles, Outcomes
<1>5. BasisTypeOK'
  BY <1>1, <1>2, <1>3, <1>4, BasisAssumption DEF BasisInv, BasisTypeOK
<1>6. BasisReconciles'
  BY <1>1, <1>2, <1>3 DEF BasisInv, BasisTypeOK, BasisReconciles, Outcomes
<1>7. ProfitExplained'
  BY <1>1, <1>3 DEF BasisInv, BasisTypeOK, ProfitExplained
<1>. QED
  BY <1>5, <1>6, <1>7 DEF BasisInv

LEMMA SellKeepsBasisInv ==
    ASSUME BasisInv, NEW o \in Outcomes, NEW q \in HeldQuantities,
           NEW a \in Amounts, Sell(o, q, a)
    PROVE  BasisInv'
<1>. DEFINE removed == BasisRemoved(basis[o], shares[o], q)
<1>1. /\ shares[o] \in Nat \ {0} /\ basis[o] \in Nat
      /\ q \in 0 .. shares[o]
  BY DEF HeldQuantities, Sell, BasisInv, BasisTypeOK
<1>2. /\ removed \in 0 .. basis[o]
      /\ q = shares[o] => removed = basis[o]
  BY <1>1, RemovedBounds
<1>3. /\ q <= shares[o]
      /\ shares' = [shares EXCEPT ![o] = @ - q]
      /\ basis' = [basis EXCEPT ![o] = @ - removed]
      /\ netCost' = netCost - removed
      /\ realized' = realized + (a - removed)
      /\ cash' = cash + a
      /\ settled' = settled
      /\ fills < MaxFills /\ fills' = fills + 1
  BY DEF Sell
<1>. HIDE DEF removed
<1>. QED
  BY <1>2, <1>3, SaleKeepsBasisInv

LEMMA SellToMakerKeepsBasisInv ==
    ASSUME BasisInv, NEW o \in Outcomes, NEW q \in HeldQuantities,
           NEW a \in Amounts, SellToMaker(o, q, a)
    PROVE  BasisInv'
<1>. DEFINE removed == RedeemedBasis(basis[o], shares[o], q)
<1>1. /\ shares[o] \in Nat \ {0} /\ basis[o] \in Nat
      /\ q \in 0 .. shares[o]
  BY DEF HeldQuantities, SellToMaker, BasisInv, BasisTypeOK
<1>2. /\ removed \in 0 .. basis[o]
      /\ q = shares[o] => removed = basis[o]
  BY <1>1, RedeemedBounds
<1>3. /\ q <= shares[o]
      /\ shares' = [shares EXCEPT ![o] = @ - q]
      /\ basis' = [basis EXCEPT ![o] = @ - removed]
      /\ netCost' = netCost - removed
      /\ realized' = realized + (a - removed)
      /\ cash' = cash + a
      /\ settled' = settled
      /\ fills < MaxFills /\ fills' = fills + 1
  BY DEF SellToMaker
<1>. HIDE DEF removed
<1>. QED
  BY <1>2, <1>3, SaleKeepsBasisInv

LEMMA RedeemKeepsBasisInv ==
    ASSUME BasisInv, NEW q \in HeldQuantities, Redeem(q)
    PROVE  BasisInv'
<1>. DEFINE yes == RedeemedBasis(basis["YES"], shares["YES"], q)
            no  == RedeemedBasis(basis["NO"], shares["NO"], q)
            pay == SetMilli * q
<1>1. /\ q \in Nat /\ q > 0 /\ pay \in Nat
      /\ \A o \in Outcomes : q <= shares[o]
  BY BasisAssumption DEF HeldQuantities, Redeem
<1>2. \A o \in Outcomes : /\ shares[o] \in Nat \ {0}
                            /\ basis[o] \in Nat
                            /\ q \in 0 .. shares[o]
  BY <1>1 DEF BasisInv, BasisTypeOK
<1>3. /\ yes \in Nat /\ yes <= basis["YES"]
      /\ q = shares["YES"] => yes = basis["YES"]
  <2>1. /\ shares["YES"] \in Nat \ {0} /\ basis["YES"] \in Nat
        /\ q \in 0 .. shares["YES"]
    BY <1>2 DEF Outcomes
  <2>2. /\ yes \in 0 .. basis["YES"]
        /\ q = shares["YES"] => yes = basis["YES"]
    BY <2>1, RedeemedBounds
  <2>. QED
    BY <2>1, <2>2
<1>4. /\ no \in Nat /\ no <= basis["NO"]
      /\ q = shares["NO"] => no = basis["NO"]
  <2>1. /\ shares["NO"] \in Nat \ {0} /\ basis["NO"] \in Nat
        /\ q \in 0 .. shares["NO"]
    BY <1>2 DEF Outcomes
  <2>2. /\ no \in 0 .. basis["NO"]
        /\ q = shares["NO"] => no = basis["NO"]
    BY <2>1, RedeemedBounds
  <2>. QED
    BY <2>1, <2>2
<1>5. /\ shares' = [o \in Outcomes |-> shares[o] - q]
      /\ basis' \in [Outcomes -> Int]
      /\ basis'["YES"] = basis["YES"] - yes
      /\ basis'["NO"] = basis["NO"] - no
      /\ netCost' = netCost - (yes + no)
      /\ realized' = realized + (pay - (yes + no))
      /\ cash' = cash + pay
      /\ settled' = settled /\ fills' = fills
  <2>1. DEFINE rem == [o \in Outcomes |-> RedeemedBasis(basis[o], shares[o], q)]
  <2>2. rem["YES"] = yes /\ rem["NO"] = no
    BY DEF Outcomes
  <2>3. basis' = [o \in Outcomes |-> basis[o] - rem[o]]
    BY DEF Redeem
  <2>4. /\ netCost' = netCost - (rem["YES"] + rem["NO"])
        /\ realized' = realized + (pay - (rem["YES"] + rem["NO"]))
    BY DEF Redeem
  <2>5. /\ shares' = [o \in Outcomes |-> shares[o] - q]
        /\ cash' = cash + pay
        /\ settled' = settled /\ fills' = fills
    BY DEF Redeem
  <2>. HIDE DEF rem, yes, no, pay
  <2>6. \A o \in Outcomes : basis[o] - rem[o] \in Int
    BY <1>2, <1>3, <1>4, <2>2 DEF Outcomes
  <2>. QED
    BY <2>2, <2>3, <2>4, <2>5, <2>6 DEF Outcomes
<1>. HIDE DEF yes, no, pay
<1>6. BasisTypeOK'
  <2>1. /\ basis'["YES"] \in Nat /\ basis'["NO"] \in Nat
        /\ netCost' \in Nat
    BY <1>2, <1>3, <1>4, <1>5 DEF BasisInv, BasisTypeOK, BasisReconciles, Outcomes
  <2>2. basis' \in [Outcomes -> Nat]
    BY <1>5, <2>1 DEF Outcomes
  <2>3. shares' \in [Outcomes -> 0 .. MaxHeld]
    BY <1>1, <1>5, BasisAssumption DEF BasisInv, BasisTypeOK
  <2>. QED
    BY <1>1, <1>3, <1>4, <1>5, <2>1, <2>2, <2>3 DEF BasisInv, BasisTypeOK
<1>7. BasisReconciles'
  BY <1>1, <1>2, <1>3, <1>4, <1>5
  DEF BasisInv, BasisTypeOK, BasisReconciles, Outcomes
<1>8. ProfitExplained'
  BY <1>1, <1>3, <1>4, <1>5 DEF BasisInv, BasisTypeOK, ProfitExplained
<1>. QED
  BY <1>6, <1>7, <1>8 DEF BasisInv

LEMMA SettleKeepsBasisInv ==
    ASSUME BasisInv, NEW payout \in Payouts, Settle(payout)
    PROVE  BasisInv'
<1>1. shares["YES"] \in Nat /\ shares["NO"] \in Nat
  BY DEF BasisInv, BasisTypeOK, Outcomes
<1>2. payout \in Nat
  <2>. DEFINE x == SetMilli * shares["YES"]
              y == SetMilli * shares["NO"]
  <2>1. x \in Nat /\ y \in Nat
    BY <1>1, BasisAssumption
  <2>2. payout \in {x, y, (x + y) \div 2}
    BY DEF Payouts
  <2>. HIDE DEF x, y
  <2>. QED
    BY <2>1, <2>2
<1>3. BasisTypeOK'
  BY <1>2, BasisAssumption DEF Settle, BasisInv, BasisTypeOK
<1>4. BasisReconciles'
  BY DEF Settle, BasisReconciles, Outcomes
<1>5. ProfitExplained'
  BY <1>2 DEF Settle, BasisInv, BasisTypeOK, ProfitExplained
<1>. QED
  BY <1>3, <1>4, <1>5 DEF BasisInv

LEMMA NextKeepsBasisInv == BasisInv /\ [BasisNext]_basisVars => BasisInv'
<1>. SUFFICES ASSUME BasisInv, [BasisNext]_basisVars
              PROVE  BasisInv'
  OBVIOUS
<1>1. CASE UNCHANGED basisVars
  BY <1>1 DEF basisVars, BasisInv, BasisTypeOK, BasisReconciles, ProfitExplained
<1>2. CASE \E o \in Outcomes, q \in HeldQuantities, a \in Amounts :
              Buy(o, q, a) \/ Sell(o, q, a) \/ SellToMaker(o, q, a)
  BY <1>2, BuyKeepsBasisInv, SellKeepsBasisInv, SellToMakerKeepsBasisInv
<1>3. CASE \E q \in HeldQuantities : Redeem(q)
  BY <1>3, RedeemKeepsBasisInv
<1>4. CASE \E payout \in Payouts : Settle(payout)
  BY <1>4, SettleKeepsBasisInv
<1>. QED
  BY <1>1, <1>2, <1>3, <1>4 DEF BasisNext

THEOREM BasisInvAlways == BasisSpec => []BasisInv
<1>1. BasisInit => BasisInv
  BY InitBasisInv
<1>2. BasisInv /\ [BasisNext]_basisVars => BasisInv'
  BY NextKeepsBasisInv
<1>. QED
  BY <1>1, <1>2, PTL DEF BasisSpec

\* No fill, redemption or settlement takes more basis than a position has,
\* whatever the amounts: applyPositionLeg and computeRedemptionAccounting
\* never write a negative cost.
THEOREM BasisNeverNegative == BasisSpec => []BasisTypeOK
<1>1. BasisInv => BasisTypeOK
  BY DEF BasisInv
<1>. QED
  BY <1>1, BasisInvAlways, PTL

\* The bases kept by fills always pass the reconciliation redemption asks
\* for: it never answers "Position cost basis requires reconciliation".
THEOREM BasisAlwaysReconciles == BasisSpec => []BasisReconciles
<1>1. BasisInv => BasisReconciles
  BY DEF BasisInv
<1>. QED
  BY <1>1, BasisInvAlways, PTL

\* The profit shown is the money received less the money spent on what is
\* gone, with no milli lost to any of the three ways to round.
THEOREM ProfitAlwaysExplained == BasisSpec => []ProfitExplained
<1>1. BasisInv => ProfitExplained
  BY DEF BasisInv
<1>. QED
  BY <1>1, BasisInvAlways, PTL

\* However the order book splits a sale into fills, the position gives up
\* the same basis (the remainder carried by the contracts sold first).
THEOREM SalesAlwaysSplit == BasisSpec => []SalesSplit
<1>1. BasisTypeOK => SalesSplit
  <2>. SUFFICES ASSUME BasisTypeOK, NEW o \in Outcomes,
                       NEW a \in HeldQuantities, NEW b \in HeldQuantities,
                       a + b <= shares[o]
                PROVE  LET removed == BasisRemoved(basis[o], shares[o], a)
                       IN  removed + BasisRemoved(basis[o] - removed,
                                                  shares[o] - a, b)
                             = BasisRemoved(basis[o], shares[o], a + b)
    BY DEF SalesSplit
  <2>1. a \in Nat \ {0} /\ b \in Nat \ {0}
    BY BasisAssumption DEF HeldQuantities
  <2>2. shares[o] \in Nat \ {0} /\ basis[o] \in Nat
    BY <2>1 DEF BasisTypeOK
  <2>. QED
    BY <2>1, <2>2, RemovedAdds
<1>. QED
  BY <1>1, BasisNeverNegative, PTL

----------------------------------------------------------------------------
\* The pool of a market maker.

\* The pool, as far as solvency goes.
PoolTyped ==
    /\ sold \in [Sides -> Counts]
    /\ collateral \in Int
    /\ redemptions \in Nat

PoolInv == PoolTyped /\ MakerSolvent

LEMMA Maker ==
    /\ MaxContracts \in Nat /\ ContractMilli \in Nat
    /\ 0 \in Counts
    /\ SubsidyMilli \in Nat /\ CostMilli[0][0] \in Nat
    /\ SubsidyMilli >= CostMilli[0][0]
    /\ \A y, n \in Counts : /\ CostMilli[y][n] \in Nat
                            /\ CostMilli[y][n] >= ContractMilli * y
                            /\ CostMilli[y][n] >= ContractMilli * n
<1>1. MaxContracts \in Nat /\ CostMilli \in [Counts -> [Counts -> Nat]]
  BY LmsrAssumption
<1>2. 0 \in Counts
  BY <1>1 DEF Counts
<1>3. \A y, n \in Counts : CostMilli[y][n] \in Nat
  BY <1>1
<1>4. /\ ContractMilli \in Nat /\ SubsidyMilli \in Nat
      /\ SubsidyMilli >= CostMilli[0][0]
  BY LmsrAssumption
<1>5. \A y, n \in Counts : /\ CostMilli[y][n] >= ContractMilli * y
                          /\ CostMilli[y][n] >= ContractMilli * n
  BY LmsrAssumption
<1>. QED
  BY <1>1, <1>2, <1>3, <1>4, <1>5, Zenon

LEMMA SetsNearlyCostWhatTheyPay ==
    ASSUME NEW y \in Counts, NEW n \in Counts, NEW q \in Counts,
           y + q \in Counts, n + q \in Counts
    PROVE  CostMilli[y + q][n + q] - CostMilli[y][n]
             \in ContractMilli * q - 1 .. ContractMilli * q + 1
  BY LmsrAssumption

LEMMA CostTyped ==
    ASSUME NEW counts \in [Sides -> Counts]
    PROVE  /\ Cost(counts) \in Nat
           /\ RequiredCollateral(counts) \in Nat
           /\ RequiredCollateral(counts) <= Cost(counts)
<1>1. counts["YES"] \in Counts /\ counts["NO"] \in Counts
  BY DEF Sides
<1>2. counts["YES"] \in Nat /\ counts["NO"] \in Nat /\ ContractMilli \in Nat
  BY <1>1, Maker DEF Counts
<1>3. Cost(counts) \in Nat
  BY <1>1, Maker DEF Cost
<1>4. /\ Cost(counts) >= ContractMilli * counts["YES"]
      /\ Cost(counts) >= ContractMilli * counts["NO"]
  BY <1>1, Maker DEF Cost
<1>5. /\ ContractMilli * counts["YES"] \in Nat
      /\ ContractMilli * counts["NO"] \in Nat
  BY <1>2
<1>. QED
  BY <1>3, <1>4, <1>5 DEF RequiredCollateral

LEMMA InitPool == LmsrInit => PoolInv
<1>. SUFFICES ASSUME LmsrInit
              PROVE  PoolInv
  OBVIOUS
<1>1. 0 \in Counts /\ SubsidyMilli \in Nat /\ CostMilli[0][0] \in Nat
  BY Maker
<1>2. /\ sold \in [Sides -> Counts] /\ collateral = SubsidyMilli
      /\ redemptions = 0
  BY <1>1 DEF LmsrInit
<1>3. Cost(sold) = CostMilli[0][0]
  BY DEF Cost, LmsrInit, Sides
<1>4. Drift \in -redemptions .. redemptions
  BY <1>1, <1>2, <1>3 DEF Drift
<1>5. collateral >= RequiredCollateral(sold)
  <2>1. /\ RequiredCollateral(sold) \in Nat
        /\ RequiredCollateral(sold) <= CostMilli[0][0]
    BY <1>2, <1>3, CostTyped
  <2>2. SubsidyMilli >= CostMilli[0][0]
    BY Maker
  <2>. QED
    BY <1>1, <1>2, <2>1, <2>2
<1>. QED
  BY <1>1, <1>2, <1>4, <1>5 DEF PoolInv, PoolTyped, MakerSolvent

\* The gross amount is the difference of two costs, so the pool follows its
\* cost function through every trade.
LEMMA ExecuteKeepsPool ==
    ASSUME PoolInv, NEW q, NEW key, NEW at, NEW slack,
           q.side \in Sides, q.action \in TradeActions, q.qty \in Nat,
           ExecuteTrade(q, key, at, slack)
    PROVE  PoolInv'
<1>. DEFINE counts == After(q.side, q.action, q.qty)
            gross == Gross(q.side, q.action, q.qty)
<1>1. /\ sold' = counts
      /\ collateral' = collateral + CollateralDelta(q.action, gross)
      /\ collateral' >= RequiredCollateral(counts)
      /\ redemptions' = redemptions
      /\ counts[q.side] \in Counts
  BY DEF ExecuteTrade, Quotable
<1>2. /\ sold \in [Sides -> Counts] /\ collateral \in Int
      /\ redemptions \in Nat
  BY DEF PoolInv, PoolTyped
<1>3. counts \in [Sides -> Counts]
  <2>1. \A s \in Sides : s # q.side => counts[s] = sold[s]
    BY <1>2 DEF After
  <2>2. counts = [s \in Sides |-> counts[s]]
    BY <1>2 DEF After
  <2>. QED
    BY <1>1, <1>2, <2>1, <2>2
<1>4. Cost(counts) \in Nat /\ Cost(sold) \in Nat
  BY <1>2, <1>3, CostTyped
<1>5. CollateralDelta(q.action, gross) = Cost(counts) - Cost(sold)
  BY <1>4 DEF CollateralDelta, Gross, TradeActions
<1>. HIDE DEF counts, gross
<1>6. SubsidyMilli \in Nat /\ CostMilli[0][0] \in Nat
  BY Maker
<1>7. collateral' \in Int /\ Drift' = Drift
  <2>1. Cost(sold)' = Cost(counts)
    BY <1>1 DEF Cost
  <2>. QED
    BY <1>1, <1>2, <1>4, <1>5, <1>6, <2>1 DEF Drift
<1>8. MakerSolvent'
  <2>1. RequiredCollateral(sold)' = RequiredCollateral(counts)
    BY <1>1 DEF RequiredCollateral
  <2>2. Drift \in -redemptions .. redemptions
    BY DEF PoolInv, MakerSolvent
  <2>. QED
    BY <1>1, <1>7, <2>1, <2>2 DEF MakerSolvent
<1>. QED
  BY <1>1, <1>2, <1>3, <1>7, <1>8 DEF PoolInv, PoolTyped

\* A complete set costs what it pays, give or take one.
LEMMA RedeemKeepsPool ==
    ASSUME PoolInv, NEW u, NEW qty \in Nat, RedeemSets(u, qty)
    PROVE  PoolInv'
<1>. DEFINE counts == [s \in Sides |-> sold[s] - qty]
<1>1. /\ sold' = counts
      /\ collateral' = collateral - ContractMilli * qty
      /\ collateral' >= RequiredCollateral(counts)
      /\ redemptions' = redemptions + 1
      /\ \A s \in Sides : sold[s] >= qty
  BY DEF RedeemSets
<1>2. /\ sold \in [Sides -> Counts] /\ collateral \in Int
      /\ redemptions \in Nat
  BY DEF PoolInv, PoolTyped
<1>3. /\ ContractMilli \in Nat /\ MaxContracts \in Nat
      /\ SubsidyMilli \in Nat /\ CostMilli[0][0] \in Nat
  BY Maker
<1>4. \A s \in Sides : counts[s] \in Counts /\ sold[s] \in Counts
                        /\ counts[s] + qty = sold[s]
  BY <1>1, <1>2, <1>3 DEF Counts
<1>5. counts \in [Sides -> Counts] /\ qty \in Counts
  BY <1>1, <1>2, <1>3, <1>4 DEF Counts, Sides
<1>6. Cost(sold) - Cost(counts)
        \in ContractMilli * qty - 1 .. ContractMilli * qty + 1
  <2>1. "YES" \in Sides /\ "NO" \in Sides
    BY DEF Sides
  <2>2. CostMilli[counts["YES"] + qty][counts["NO"] + qty]
            - CostMilli[counts["YES"]][counts["NO"]]
          \in ContractMilli * qty - 1 .. ContractMilli * qty + 1
    <3>1. /\ counts["YES"] \in Counts /\ counts["NO"] \in Counts
          /\ counts["YES"] + qty \in Counts /\ counts["NO"] + qty \in Counts
      BY <1>4, <2>1
    <3>. HIDE DEF counts
    <3>. QED
      BY <1>5, <3>1, SetsNearlyCostWhatTheyPay
  <2>. QED
    BY <1>4, <2>1, <2>2 DEF Cost
<1>7. /\ Cost(counts) \in Nat /\ Cost(sold) \in Nat
      /\ ContractMilli * qty \in Nat
  BY <1>2, <1>3, <1>5, CostTyped
<1>. HIDE DEF counts
<1>8. Drift \in -redemptions .. redemptions
  BY DEF PoolInv, MakerSolvent
<1>9. /\ collateral' \in Int
      /\ Drift' \in -redemptions' .. redemptions'
  <2>1. Cost(sold)' = Cost(counts)
    BY <1>1 DEF Cost
  <2>2. Drift' = Drift + (Cost(sold) - Cost(counts)) - ContractMilli * qty
    BY <1>1, <1>2, <1>3, <1>7, <2>1 DEF Drift
  <2>. QED
    BY <1>1, <1>2, <1>6, <1>7, <1>8, <2>2
<1>10. MakerSolvent'
  <2>1. RequiredCollateral(sold)' = RequiredCollateral(counts)
    BY <1>1 DEF RequiredCollateral
  <2>. QED
    BY <1>1, <1>9, <2>1 DEF MakerSolvent
<1>. QED
  BY <1>1, <1>2, <1>5, <1>9, <1>10 DEF PoolInv, PoolTyped

LEMMA PoolUnchanged ==
    ASSUME PoolInv, UNCHANGED <<sold, collateral, redemptions>>
    PROVE  PoolInv'
  BY DEF PoolInv, PoolTyped, MakerSolvent, Drift, Cost, RequiredCollateral

----------------------------------------------------------------------------
\* Quotes and trades, as far as honouring a quote goes.  That a quote is
\* honoured exactly needs to know what it was computed from: as long as the
\* version is the quote's, so are the counts.
QuoteRows ==
    [id : Nat, trader : Traders, side : Sides, action : TradeActions,
     qty : Nat, gross : Int, version : Nat, at : Nat, consumed : BOOLEAN]

Honest(q) ==
    /\ q.id <= issued
    /\ q.version <= version
    /\ q.version = version => q.gross = Gross(q.side, q.action, q.qty)

QuotesKept ==
    /\ issued \in Nat /\ version \in Nat /\ clock \in Nat
    /\ quotes \subseteq QuoteRows
    /\ \A q \in quotes : Honest(q)
    /\ \A q1, q2 \in quotes : q1.id = q2.id => q1 = q2

\* A trade's quote is gone or consumed, its key is taken, and it was made at
\* a version that has passed.
TradesKept ==
    \A t \in trades :
        /\ t.total = t.quoted
        /\ t.quote \in Nat /\ t.quote <= issued
        /\ \A q \in quotes : q.id = t.quote => q.consumed
        /\ <<t.trader, t.key>> \in requests

TradeInv == QuotesKept /\ TradesKept /\ TradedAsQuoted

MakerInv == PoolInv /\ TradeInv

LEMMA InitTrade == LmsrInit => TradeInv
<1>. SUFFICES ASSUME LmsrInit
              PROVE  TradeInv
  OBVIOUS
<1>1. QuotesKept
  BY DEF LmsrInit, QuotesKept
<1>2. TradesKept /\ TradedAsQuoted
  BY DEF LmsrInit, TradesKept, TradedAsQuoted
<1>. QED
  BY <1>1, <1>2 DEF TradeInv

\* A step that only moves time, money or the version.
LEMMA OtherKeepsTrade ==
    ASSUME TradeInv, UNCHANGED <<quotes, issued, requests, trades>>,
           clock' \in Nat, version' \in Nat,
           \/ version' > version
           \/ version' = version /\ sold' = sold
    PROVE  TradeInv'
<1>1. /\ issued \in Nat /\ version \in Nat
      /\ quotes \subseteq QuoteRows
      /\ \A q \in quotes : /\ q.id <= issued
                           /\ q.version \in Nat
                           /\ q.version <= version
                           /\ q.version = version =>
                                 q.gross = Gross(q.side, q.action, q.qty)
      /\ \A q1, q2 \in quotes : q1.id = q2.id => q1 = q2
  BY DEF TradeInv, QuotesKept, Honest, QuoteRows
<1>2. ASSUME NEW q \in quotes
      PROVE  Honest(q)'
  <2>1. CASE version' > version
    BY <1>1, <2>1 DEF Honest
  <2>2. CASE version' = version /\ sold' = sold
    BY <1>1, <2>2 DEF Honest, Gross, After, Cost
  <2>. QED
    BY <2>1, <2>2
<1>3. QuotesKept'
  BY <1>1, <1>2 DEF QuotesKept
<1>4. TradesKept' /\ TradedAsQuoted'
  BY DEF TradeInv, TradesKept, TradedAsQuoted
<1>. QED
  BY <1>3, <1>4 DEF TradeInv

LEMMA CreateKeepsTrade ==
    ASSUME TradeInv, PoolInv, NEW u \in Traders, NEW side \in Sides,
           NEW action \in TradeActions, NEW qty \in TradeQuantities,
           CreateTradeQuote(u, side, action, qty)
    PROVE  TradeInv'
<1>. DEFINE new == [id |-> issued + 1, trader |-> u, side |-> side,
                    action |-> action, qty |-> qty,
                    gross |-> Gross(side, action, qty), version |-> version,
                    at |-> clock, consumed |-> FALSE]
<1>1. /\ issued \in Nat /\ version \in Nat /\ clock \in Nat
      /\ quotes \subseteq QuoteRows
      /\ \A q \in quotes : /\ q.id <= issued
                           /\ q.version <= version
                           /\ q.version = version =>
                                 q.gross = Gross(q.side, q.action, q.qty)
      /\ \A q1, q2 \in quotes : q1.id = q2.id => q1 = q2
  BY DEF TradeInv, QuotesKept, Honest
<1>2. /\ issued' = issued + 1
      /\ quotes' \subseteq quotes \union {new}
      /\ UNCHANGED <<sold, version, trades, requests, clock>>
  BY DEF CreateTradeQuote
<1>3. Gross(side, action, qty) \in Int
  <2>1. sold \in [Sides -> Counts] /\ After(side, action, qty)[side] \in Counts
    BY DEF PoolInv, PoolTyped, CreateTradeQuote, Quotable
  <2>2. After(side, action, qty) \in [Sides -> Counts]
    BY <2>1 DEF After
  <2>. QED
    BY <2>1, <2>2, CostTyped DEF Gross
<1>4. new \in QuoteRows
  BY <1>1, <1>3, Maker DEF QuoteRows, TradeQuantities
<1>5. /\ new.id = issued + 1 /\ new.version = version
      /\ new.gross = Gross(new.side, new.action, new.qty)
  OBVIOUS
<1>. HIDE DEF new
<1>6. \A q \in quotes' : q \in QuoteRows /\ (q \in quotes \/ q = new)
  BY <1>1, <1>2, <1>4
<1>7. \A q \in quotes : q.id \in Nat /\ q.id # issued + 1
  BY <1>1 DEF QuoteRows
<1>8. ASSUME NEW q \in quotes'
      PROVE  Honest(q)'
  <2>1. /\ q.id <= issued'
        /\ q.version <= version'
        /\ q.version = version' => q.gross = Gross(q.side, q.action, q.qty)
    BY <1>1, <1>2, <1>5, <1>6, <1>7
  <2>. QED
    BY <1>2, <2>1 DEF Honest, Gross, After, Cost
<1>9. \A q1, q2 \in quotes' : q1.id = q2.id => q1 = q2
  BY <1>1, <1>5, <1>6, <1>7
<1>10. QuotesKept'
  <2>1. issued' \in Nat /\ version' \in Nat /\ clock' \in Nat
        /\ quotes' \subseteq QuoteRows
    BY <1>1, <1>2, <1>6
  <2>. QED
    BY <2>1, <1>8, <1>9 DEF QuotesKept
<1>11. TradesKept'
  <2>1. \A t \in trades :
           /\ t.total = t.quoted
           /\ t.quote \in Nat /\ t.quote <= issued
           /\ \A q \in quotes : q.id = t.quote => q.consumed
           /\ <<t.trader, t.key>> \in requests
    BY DEF TradeInv, TradesKept
  <2>2. \A t \in trades : t.quote <= issued' /\ t.quote # new.id
    <3>1. ASSUME NEW t \in trades
          PROVE  t.quote <= issued + 1 /\ t.quote # issued + 1
      <4>1. t.quote \in Nat /\ t.quote <= issued
        BY <2>1
      <4>. QED
        BY <1>1, <4>1
    <3>. QED
      BY <1>2, <1>5, <3>1
  <2>. QED
    BY <1>2, <1>6, <2>1, <2>2 DEF TradesKept
<1>12. TradedAsQuoted'
  BY <1>2 DEF TradeInv, TradedAsQuoted
<1>. QED
  BY <1>10, <1>11, <1>12 DEF TradeInv

LEMMA ExecuteKeepsTrade ==
    ASSUME TradeInv, NEW q \in quotes, NEW key, NEW at, NEW slack,
           ExecuteTrade(q, key, at, slack)
    PROVE  TradeInv'
<1>. DEFINE gross == Gross(q.side, q.action, q.qty)
            done == [q EXCEPT !.consumed = TRUE]
            trade == [quote |-> q.id, trader |-> q.trader, key |-> key,
                      version |-> version,
                      quoted |-> Total(q.action, q.gross),
                      total |-> Total(q.action, gross)]
<1>1. /\ issued \in Nat /\ version \in Nat /\ clock \in Nat
      /\ quotes \subseteq QuoteRows
      /\ \A r \in quotes : /\ r.id <= issued
                           /\ r.version <= version
                           /\ r.version = version =>
                                 r.gross = Gross(r.side, r.action, r.qty)
      /\ \A r1, r2 \in quotes : r1.id = r2.id => r1 = r2
  BY DEF TradeInv, QuotesKept, Honest
<1>2. /\ <<q.trader, key>> \notin requests
      /\ ~q.consumed
      /\ version = q.version
      /\ requests' = requests \union {<<q.trader, key>>}
      /\ quotes' = (quotes \ {q}) \union {done}
      /\ version' = version + 1
      /\ trades' = trades \union {trade}
      /\ issued' = issued /\ clock' = clock
  BY DEF ExecuteTrade, Current
<1>3. gross = q.gross
  BY <1>1, <1>2
<1>4. /\ trade.quote = q.id /\ trade.total = trade.quoted
      /\ trade.trader = q.trader /\ trade.key = key
  BY <1>3
<1>5. /\ q \in QuoteRows /\ done \in QuoteRows /\ done.id = q.id
      /\ done.version = q.version /\ done.consumed = TRUE
  BY <1>1 DEF QuoteRows
<1>. HIDE DEF gross, done, trade
<1>6. \A r \in quotes' : \/ r \in quotes /\ r # q
                        \/ r = done
  BY <1>2
<1>7. QuotesKept'
  <2>1. /\ issued' \in Nat /\ version' \in Nat /\ clock' \in Nat
        /\ quotes' \subseteq QuoteRows
    BY <1>1, <1>2, <1>5
  <2>2. \A r \in quotes : r.version \in Nat /\ r.id \in Nat
    BY <1>1 DEF QuoteRows
  <2>3. ASSUME NEW r \in quotes'
        PROVE  Honest(r)'
    <3>1. /\ r.id <= issued'
          /\ r.version <= version' /\ r.version # version'
      BY <1>1, <1>2, <1>5, <1>6, <2>2
    <3>. QED
      BY <3>1 DEF Honest
  <2>4. \A r1, r2 \in quotes' : r1.id = r2.id => r1 = r2
    BY <1>1, <1>5, <1>6
  <2>. QED
    BY <2>1, <2>3, <2>4 DEF QuotesKept
<1>8. \A t \in trades :
         /\ t.total = t.quoted
         /\ t.quote \in Nat /\ t.quote <= issued
         /\ \A r \in quotes : r.id = t.quote => r.consumed
         /\ <<t.trader, t.key>> \in requests
  BY DEF TradeInv, TradesKept
<1>9. \A t \in trades : t.quote # q.id
  BY <1>2, <1>8
<1>10. TradesKept'
  <2>1. ASSUME NEW t \in trades
        PROVE  \A r \in quotes' : r.id = t.quote => r.consumed
    BY <1>5, <1>6, <1>8, <1>9
  <2>2. \A r \in quotes' : r.id = trade.quote => r.consumed
    BY <1>1, <1>4, <1>5, <1>6
  <2>3. q.id \in Nat /\ q.id <= issued
    BY <1>1, <1>5 DEF QuoteRows
  <2>4. ASSUME NEW t \in trades'
        PROVE  /\ t.total = t.quoted
               /\ t.quote \in Nat /\ t.quote <= issued'
               /\ \A r \in quotes' : r.id = t.quote => r.consumed
               /\ <<t.trader, t.key>> \in requests'
    <3>1. CASE t \in trades
      BY <1>2, <1>8, <2>1, <3>1
    <3>2. CASE t = trade
      BY <1>2, <1>4, <2>2, <2>3, <3>2
    <3>. QED
      BY <1>2, <3>1, <3>2
  <2>. QED
    BY <2>4 DEF TradesKept
<1>11. TradedAsQuoted'
  <2>1. \A t1, t2 \in trades :
           (\/ t1.quote = t2.quote
            \/ t1.trader = t2.trader /\ t1.key = t2.key) => t1 = t2
    BY DEF TradeInv, TradedAsQuoted
  <2>2. \A t \in trades : ~(t.trader = q.trader /\ t.key = key)
    BY <1>2, <1>8
  <2>3. \A t \in trades' : t.total = t.quoted
    BY <1>2, <1>4, <1>8
  <2>4. ASSUME NEW t1 \in trades', NEW t2 \in trades',
               \/ t1.quote = t2.quote
               \/ t1.trader = t2.trader /\ t1.key = t2.key
        PROVE  t1 = t2
    <3>1. CASE t1 \in trades /\ t2 \in trades
      BY <2>1, <2>4, <3>1
    <3>2. CASE t1 \in trades /\ t2 = trade
      BY <1>4, <1>9, <2>2, <2>4, <3>2
    <3>3. CASE t1 = trade /\ t2 \in trades
      BY <1>4, <1>9, <2>2, <2>4, <3>3
    <3>. QED
      BY <1>2, <3>1, <3>2, <3>3
  <2>. QED
    BY <2>3, <2>4 DEF TradedAsQuoted
<1>. QED
  BY <1>7, <1>10, <1>11 DEF TradeInv

----------------------------------------------------------------------------
LEMMA NextKeepsMakerInv == MakerInv /\ [LmsrNext]_lmsrVars => MakerInv'
<1>. SUFFICES ASSUME MakerInv, [LmsrNext]_lmsrVars
              PROVE  MakerInv'
  OBVIOUS
<1>. USE DEF MakerInv
<1>1. issued \in Nat /\ version \in Nat /\ clock \in Nat
  BY DEF TradeInv, QuotesKept
<1>2. ASSUME NEW u \in Traders, NEW side \in Sides,
             NEW action \in TradeActions, NEW qty \in TradeQuantities,
             CreateTradeQuote(u, side, action, qty)
      PROVE  MakerInv'
  <2>1. UNCHANGED <<sold, collateral, redemptions>>
    BY <1>2 DEF CreateTradeQuote
  <2>. QED
    BY <1>2, <2>1, CreateKeepsTrade, PoolUnchanged
<1>3. ASSUME NEW q \in quotes, NEW key \in TradeKeys, NEW slack \in {0, 1},
             NEW at \in q.at .. clock, ExecuteTrade(q, key, at, slack)
      PROVE  MakerInv'
  <2>1. q.side \in Sides /\ q.action \in TradeActions /\ q.qty \in Nat
    BY DEF TradeInv, QuotesKept, QuoteRows
  <2>. QED
    BY <1>3, <2>1, ExecuteKeepsPool, ExecuteKeepsTrade
<1>4. ASSUME NEW u \in Traders, NEW qty \in TradeQuantities,
             RedeemSets(u, qty)
      PROVE  MakerInv'
  <2>1. qty \in Nat
    BY Maker DEF TradeQuantities
  <2>2. /\ UNCHANGED <<quotes, issued, requests, trades>>
        /\ clock' = clock /\ version' = version + 1
    BY <1>4 DEF RedeemSets
  <2>3. clock' \in Nat /\ version' \in Nat /\ version' > version
    BY <1>1, <2>2
  <2>4. TradeInv'
    BY <2>2, <2>3, OtherKeepsTrade
  <2>5. PoolInv'
    BY <1>4, <2>1, RedeemKeepsPool
  <2>. QED
    BY <2>4, <2>5
<1>5. ASSUME NEW from, NEW to, Transition(from, to)
      PROVE  MakerInv'
  <2>1. /\ UNCHANGED <<quotes, issued, requests, trades>>
        /\ UNCHANGED <<sold, collateral, redemptions>>
        /\ clock' = clock /\ version' = version + 1
    BY <1>5 DEF Transition
  <2>2. clock' \in Nat /\ version' \in Nat /\ version' > version
    BY <1>1, <2>1
  <2>. QED
    BY <2>1, <2>2, OtherKeepsTrade, PoolUnchanged
<1>6. CASE PassTime
  <2>1. /\ UNCHANGED <<quotes, issued, requests, trades>>
        /\ UNCHANGED <<sold, collateral, redemptions>>
        /\ clock' = clock + 1 /\ version' = version
    BY <1>6 DEF PassTime
  <2>2. clock' \in Nat /\ version' \in Nat
    BY <1>1, <2>1
  <2>. QED
    BY <2>1, <2>2, OtherKeepsTrade, PoolUnchanged
<1>7. CASE UNCHANGED lmsrVars
  <2>1. /\ UNCHANGED <<quotes, issued, requests, trades>>
        /\ UNCHANGED <<sold, collateral, redemptions>>
        /\ clock' = clock /\ version' = version
    BY <1>7 DEF lmsrVars
  <2>. QED
    BY <1>1, <2>1, OtherKeepsTrade, PoolUnchanged
<1>8. CASE Pause \/ Resume \/ Close
  BY <1>5, <1>8 DEF Pause, Resume, Close
<1>. QED
  BY <1>2, <1>3, <1>4, <1>6, <1>7, <1>8 DEF LmsrNext

THEOREM MakerInvAlways == LmsrSpec => []MakerInv
<1>1. LmsrInit => MakerInv
  BY InitPool, InitTrade DEF MakerInv
<1>. QED
  BY <1>1, NextKeepsMakerInv, PTL DEF LmsrSpec

\* Whatever is traded and redeemed, in any order and amounts, the pool can pay
\* the dearer outcome, and holds what the cost function says give or take one
\* milli-feather for each redemption so far: exactly that if nothing was
\* redeemed, however much was traded there and back.
THEOREM AlwaysSolvent == LmsrSpec => []MakerSolvent
<1>1. MakerInv => MakerSolvent
  BY DEF MakerInv, PoolInv
<1>. QED
  BY <1>1, MakerInvAlways, PTL

\* However trades, redemptions, pauses and the clock come between quoting and
\* executing, a trade costs what its quote showed, and no quote or key is
\* executed twice.
THEOREM AlwaysAsQuoted == LmsrSpec => []TradedAsQuoted
<1>1. MakerInv => TradedAsQuoted
  BY DEF MakerInv, TradeInv
<1>. QED
  BY <1>1, MakerInvAlways, PTL
=============================================================================
