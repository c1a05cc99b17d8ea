------------------------------ MODULE CostBasis ------------------------------
(***************************************************************************)
(* What a position remembers of the money in it: the cost basis of its YES *)
(* and of its NO contracts, their sum, and the profit realized, as fills   *)
(* (order-exchange.ts), redemptions (redemption.ts) and the settlement     *)
(* (settlement-service.ts) maintain them.  Three services round in two     *)
(* ways; redemption refuses a position whose sums disagree.                *)
(***************************************************************************)
EXTENDS Integers

CONSTANTS SetMilli,
          MaxHeld,   \* bound: contracts of one outcome held
          Amounts,       \* money one fill may cost or return, fee included
          MaxFills       \* bound: fills

Outcomes == {"YES", "NO"}

ASSUME BasisAssumption ==
    /\ SetMilli \in Nat
    /\ MaxHeld \in Nat
    /\ Amounts \subseteq Nat
    /\ MaxFills \in Nat

VARIABLES shares,     \* Position.yesShares, noShares
          basis,      \* Position.yesCostBasisMilli, noCostBasisMilli
          netCost,    \* Position.netCostMilli
          realized,   \* Position.realizedPnlMilli
          settled,    \* the market has paid the position
          fills,      \* fills so far, for the bound
          cash        \* history: money received less money paid

basisVars == <<shares, basis, netCost, realized, settled, fills, cash>>

BasisInit ==
    /\ shares = [o \in Outcomes |-> 0]
    /\ basis = [o \in Outcomes |-> 0]
    /\ netCost = 0 /\ realized = 0
    /\ settled = FALSE
    /\ fills = 0
    /\ cash = 0

----------------------------------------------------------------------------
\* basisRemoved: the contracts sold first carry one unit of the remainder
\* each.
BasisRemoved(held, count, quantity) ==
    IF quantity = count THEN held
    ELSE (held \div count) * quantity
            + (IF quantity < held % count THEN quantity ELSE held % count)

\* computeRedemptionAccounting: the proportion, rounded down.
RedeemedBasis(held, count, quantity) ==
    IF quantity = count THEN held ELSE (held * quantity) \div count

\* The buyer's side of a fill.
Buy(outcome, quantity, cost) ==
    /\ ~settled
    /\ shares[outcome] + quantity <= MaxHeld
    /\ fills < MaxFills /\ fills' = fills + 1
    /\ shares' = [shares EXCEPT ![outcome] = @ + quantity]
    /\ basis' = [basis EXCEPT ![outcome] = @ + cost]
    /\ netCost' = netCost + cost
    /\ cash' = cash - cost
    /\ UNCHANGED <<realized, settled>>

\* Mutant: proceeds are booked as profit.
Mutant_Sell(outcome, quantity, proceeds) ==
    LET removed == BasisRemoved(basis[outcome], shares[outcome], quantity)
    IN  /\ ~settled
        /\ quantity <= shares[outcome]
        /\ fills < MaxFills /\ fills' = fills + 1
        /\ shares' = [shares EXCEPT ![outcome] = @ - quantity]
        /\ basis' = [basis EXCEPT ![outcome] = @ - removed]
        /\ netCost' = netCost - removed
        /\ realized' = realized + proceeds
        /\ cash' = cash + proceeds
        /\ UNCHANGED settled

\* The seller's side of a fill.
Sell(outcome, quantity, proceeds) ==
    LET removed == BasisRemoved(basis[outcome], shares[outcome], quantity)
    IN  /\ ~settled
        /\ quantity <= shares[outcome]
        /\ fills < MaxFills /\ fills' = fills + 1
        /\ shares' = [shares EXCEPT ![outcome] = @ - quantity]
        /\ basis' = [basis EXCEPT ![outcome] = @ - removed]
        /\ netCost' = netCost - removed
        /\ realized' = realized + (proceeds - removed)
        /\ cash' = cash + proceeds
        /\ UNCHANGED settled

\* positionMutation of trading.ts: a sale to the market maker takes the
\* proportion out, as a redemption does.  (A buy from it is as Buy.  A market
\* has either a book or a maker; a mixture of both is more than can happen.)
SellToMaker(outcome, quantity, proceeds) ==
    LET removed == RedeemedBasis(basis[outcome], shares[outcome], quantity)
    IN  /\ ~settled
        /\ quantity <= shares[outcome]
        /\ fills < MaxFills /\ fills' = fills + 1
        /\ shares' = [shares EXCEPT ![outcome] = @ - quantity]
        /\ basis' = [basis EXCEPT ![outcome] = @ - removed]
        /\ netCost' = netCost - removed
        /\ realized' = realized + (proceeds - removed)
        /\ cash' = cash + proceeds
        /\ UNCHANGED settled

\* Mutant: the sum loses a proportion of itself.
Mutant_Redeem(quantity) ==
    LET removed == [o \in Outcomes |->
                        RedeemedBasis(basis[o], shares[o], quantity)]
        total   == RedeemedBasis(netCost, shares["YES"] + shares["NO"],
                                 2 * quantity)
    IN  /\ ~settled
        /\ \A o \in Outcomes : quantity <= shares[o]
        /\ shares' = [o \in Outcomes |-> shares[o] - quantity]
        /\ basis' = [o \in Outcomes |-> basis[o] - removed[o]]
        /\ netCost' = netCost - total
        /\ realized' = realized + (SetMilli * quantity - total)
        /\ cash' = cash + SetMilli * quantity
        /\ UNCHANGED <<settled, fills>>

\* redeemCompleteSet
Redeem(quantity) ==
    LET removed == [o \in Outcomes |->
                        RedeemedBasis(basis[o], shares[o], quantity)]
        total   == removed["YES"] + removed["NO"]
    IN  /\ ~settled
        /\ \A o \in Outcomes : quantity <= shares[o]
        /\ shares' = [o \in Outcomes |-> shares[o] - quantity]
        /\ basis' = [o \in Outcomes |-> basis[o] - removed[o]]
        /\ netCost' = netCost - total
        /\ realized' = realized + (SetMilli * quantity - total)
        /\ cash' = cash + SetMilli * quantity
        /\ UNCHANGED <<settled, fills>>

\* Settlement pays the position and writes the rest of its cost off.
Settle(payout) ==
    /\ ~settled /\ settled' = TRUE
    /\ \E o \in Outcomes : shares[o] > 0
    /\ shares' = [o \in Outcomes |-> 0]
    /\ basis' = [o \in Outcomes |-> 0]
    /\ netCost' = 0
    /\ realized' = realized + (payout - netCost)
    /\ cash' = cash + payout
    /\ UNCHANGED fills

Payouts ==
    {SetMilli * shares["YES"], SetMilli * shares["NO"],
     (SetMilli * shares["YES"] + SetMilli * shares["NO"]) \div 2}

HeldQuantities == 1 .. MaxHeld

BasisNext ==
    \/ \E o \in Outcomes, quantity \in HeldQuantities, amount \in Amounts :
          \/ Buy(o, quantity, amount)
          \/ Sell(o, quantity, amount)
          \/ SellToMaker(o, quantity, amount)
    \/ \E quantity \in HeldQuantities : Redeem(quantity)
    \/ \E payout \in Payouts : Settle(payout)

BasisSpec == BasisInit /\ [][BasisNext]_basisVars

----------------------------------------------------------------------------
\* No rounding makes a cost basis negative.
BasisTypeOK ==
    /\ shares \in [Outcomes -> 0 .. MaxHeld]
    /\ basis \in [Outcomes -> Nat]
    /\ netCost \in Nat
    /\ realized \in Int /\ cash \in Int
    /\ settled \in BOOLEAN
    /\ fills \in 0 .. MaxFills

\* Redemption never answers "Position cost basis requires reconciliation":
\* the two bases add up to the net cost, and contracts that are gone cost
\* nothing.
BasisReconciles ==
    /\ netCost = basis["YES"] + basis["NO"]
    /\ \A o \in Outcomes : shares[o] = 0 => basis[o] = 0

\* Whatever the rounding, profit is exactly what the money says: what came
\* in, less what went out for contracts no longer held.
ProfitExplained == realized = cash + netCost

\* Selling in parts realizes the same cost as selling at once, so the order
\* book may split a sale into fills in any way.
SalesSplit ==
    \A o \in Outcomes : \A first, second \in HeldQuantities :
        LET removed == BasisRemoved(basis[o], shares[o], first)
        IN  first + second <= shares[o] =>
                removed + BasisRemoved(basis[o] - removed, shares[o] - first,
                                       second)
                  = BasisRemoved(basis[o], shares[o], first + second)
=============================================================================
