---------------------------- MODULE OrderReserve ----------------------------
(***************************************************************************)
(* The cash escrow behind one chain of BUY orders (an order and the orders *)
(* that replaced it), as reserveAssets, adjustReservationAfterFill and     *)
(* releaseReservation of src/lib/order-exchange.ts maintain it.  It is     *)
(* what the exchange promises one buyer about his reserved money: the rest *)
(* of the system appears only as fills at legal prices.                    *)
(***************************************************************************)
EXTENDS OrderAccounting

CONSTANTS PayoutMilli,   \* price of a complete set
          MaxQuantity,   \* largest quantity of an order
          FeeBps         \* the market's fee

ASSUME ReserveAssumption ==
    /\ PayoutMilli \in Nat /\ PayoutMilli > 1
    /\ MaxQuantity \in Nat \ {0}
    /\ FeeBps \in 0 .. FeeBasisPoints

VARIABLES limit,       \* user-side limit price of the live order, 0 when none
          remaining,   \* its remaining quantity, 0 when none
          principal,   \* OrderReservation.reservedPrincipalMilli
          fee,         \* OrderReservation.reservedFeeMilli
          escrow,      \* balance of the order's ORDER_RESERVE ledger account
          executed,    \* notional the chain has executed
          feesPaid     \* MarketOrder.cumulativeFeeMilli summed over the chain

vars == <<limit, remaining, principal, fee, escrow, executed, feesPaid>>

Init ==
    /\ limit = 0 /\ remaining = 0
    /\ principal = 0 /\ fee = 0 /\ escrow = 0
    /\ executed = 0 /\ feesPaid = 0

\* Mutant: no fee is reserved.
MutantFee_Reserve(price, quantity) ==
    /\ limit' = price
    /\ remaining' = quantity
    /\ principal' = ReservedPrincipal(price, quantity)
    /\ fee' = 0
    /\ escrow' = ReservedPrincipal(price, quantity)

\* reserveAssets: the money moved into the reserve account is the principal
\* and the fee recorded in the reservation.
Reserve(price, quantity) ==
    /\ limit' = price
    /\ remaining' = quantity
    /\ principal' = ReservedPrincipal(price, quantity)
    /\ fee' = ReservedFee(executed, price, quantity, FeeBps)
    /\ escrow' = ReservedPrincipal(price, quantity)
                    + ReservedFee(executed, price, quantity, FeeBps)

Place(price, quantity) ==
    /\ remaining = 0 /\ executed = 0
    /\ Reserve(price, quantity)
    /\ UNCHANGED <<executed, feesPaid>>

\* What a fill leaves over and above what the remaining quantity needs.
Release(quantity, price) ==
    LET notional == price * quantity
        rest     == limit * (remaining - quantity)
    IN  principal + fee - notional - FeeDelta(executed, notional, FeeBps)
            - rest - FeeDelta(executed + notional, rest, FeeBps)

\* The escrow pays notional and fee, and gives back what it need not hold;
\* the code throws "Order reserve did not cover a fill" if that is negative.
Fill(quantity, price) ==
    LET notional == price * quantity
        paidFee  == FeeDelta(executed, notional, FeeBps)
        rest     == limit * (remaining - quantity)
    IN  /\ Release(quantity, price) >= 0
        /\ remaining' = remaining - quantity
        /\ limit' = IF quantity = remaining THEN 0 ELSE limit
        /\ principal' = rest
        /\ fee' = FeeDelta(executed + notional, rest, FeeBps)
        /\ escrow' = escrow - notional - paidFee - Release(quantity, price)
        /\ executed' = executed + notional
        /\ feesPaid' = feesPaid + paidFee

\* releaseReservation: everything recorded goes back to the wallet.
ReleaseAll ==
    /\ remaining > 0
    /\ limit' = 0 /\ remaining' = 0
    /\ principal' = 0 /\ fee' = 0
    /\ escrow' = escrow - (principal + fee)
    /\ UNCHANGED <<executed, feesPaid>>

\* A replacement releases the old order and reserves for the new one; the
\* chain keeps its executed notional.  Its own reserve account is new.
Replace(price, quantity) ==
    /\ remaining > 0
    /\ Reserve(price, quantity)
    /\ UNCHANGED <<executed, feesPaid>>

UserPrices == 1 .. PayoutMilli - 1
Quantities == 1 .. MaxQuantity

Next ==
    \/ \E price \in UserPrices, quantity \in Quantities :
          Place(price, quantity) \/ Replace(price, quantity)
    \/ \E quantity \in 1 .. remaining, price \in 1 .. limit :
          Fill(quantity, price)
    \/ ReleaseAll

Spec == Init /\ [][Next]_vars

----------------------------------------------------------------------------
\* Money and quantities are natural numbers: no account is overdrawn.
TypeOK ==
    /\ limit \in Nat /\ remaining \in Nat
    /\ principal \in Nat /\ fee \in Nat /\ escrow \in Nat
    /\ executed \in Nat /\ feesPaid \in Nat

\* The throw in adjustReservationAfterFill cannot happen: whatever fills
\* came before, the reserve covers any fill at the limit or better and what
\* the rest of the order may still need.
ReserveCoversFills ==
    \A quantity \in 1 .. remaining, price \in 1 .. limit :
        Release(quantity, price) >= 0

\* Custody: the order's ledger account holds what the reservation row says,
\* and nothing once no order of the chain is live.
EscrowMatchesReservation ==
    /\ escrow = principal + fee
    /\ remaining = 0 => escrow = 0

\* Splitting an execution into fills, or replacing the order between them,
\* never changes the total fee: it is the fee on the total notional.
FeesTelescope == feesPaid = CumulativeFee(executed, FeeBps)
=============================================================================
