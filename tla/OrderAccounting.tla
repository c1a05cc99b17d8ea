-------------------------- MODULE OrderAccounting --------------------------
(***************************************************************************)
(* The pure money arithmetic of src/lib/order-book-accounting.ts and of    *)
(* the helpers of src/lib/order-exchange.ts that use it: cumulative fees,  *)
(* what an order reserves, how a fill moves contracts and money.  Amounts  *)
(* are milli-units, natural numbers of any size (bigint in the code).  An  *)
(* intent is a record with outcome and action.                             *)
(***************************************************************************)
EXTENDS Integers

FeeBasisPoints == 10000

CeilDiv(numerator, denominator) ==
    IF numerator = 0 THEN 0
    ELSE (numerator + denominator - 1) \div denominator

\* Mutant: the fee is rounded on every fill instead of on the total.
Mutant_FeeDelta(previous, fill, bps) == CeilDiv(fill * bps, FeeBasisPoints)

\* The fee on all that a chain of orders executed, rounded up once.
CumulativeFee(notional, bps) == CeilDiv(notional * bps, FeeBasisPoints)

FeeDelta(previous, fill, bps) ==
    CumulativeFee(previous + fill, bps) - CumulativeFee(previous, bps)

\* What a BUY of quantity at the user's limit holds back: the principal at
\* the limit and the fee that principal adds to what the chain already paid.
ReservedPrincipal(limit, quantity) == limit * quantity
ReservedFee(executed, limit, quantity, bps) ==
    FeeDelta(executed, limit * quantity, bps)

----------------------------------------------------------------------------
\* The user-side price of a canonical YES price.
UserPrice(outcome, yesPrice, payout) ==
    IF outcome = "YES" THEN yesPrice ELSE payout - yesPrice

\* Two buyers mint complete sets, two sellers burn them, a buyer and a
\* seller of one outcome transfer contracts.
FillKind(maker, taker) ==
    CASE maker.action = "BUY"  /\ taker.action = "BUY"  -> "MINT"
      [] maker.action = "SELL" /\ taker.action = "SELL" -> "BURN"
      [] OTHER -> IF maker.outcome = "YES" THEN "TRANSFER_YES"
                                           ELSE "TRANSFER_NO"

\* What the party's own account gains: a buyer's reserve pays principal and
\* fee, a seller's wallet gets the proceeds less the fee.
PartyPosting(intent, principal, fee) ==
    IF intent.action = "BUY" THEN -(principal + fee) ELSE principal - fee

CollateralPosting(kind, payout, quantity) ==
    CASE kind = "MINT" -> payout * quantity
      [] kind = "BURN" -> -(payout * quantity)
      [] OTHER -> 0
=============================================================================
