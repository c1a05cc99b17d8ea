---------------------------- MODULE MCOrderLedger ----------------------------
(***************************************************************************)
(* Three ledgers: the escrow of a chain of BUY orders, the cost basis of a *)
(* position, and the pool of a market maker.  They share no row, so a      *)
(* behaviour works on one of them; interleaving them would show nothing.   *)
(***************************************************************************)
EXTENDS OrderReserve, CostBasis, LmsrTrading, TLC

CONSTANTS MaxExecuted,   \* bound on the notional a chain executes
          alice, bob, k1, k2

ExecutedBound == executed <= MaxExecuted

MCTraders == {alice, bob}
MCKeys == {k1, k2}
MCSymmetry == Permutations(MCTraders) \union Permutations(MCKeys)

\* The maker with liquidity 1 and payout 5, ceil(5 ln(e^y + e^n) + 1/4), but
\* for (1, 0), (1, 1) and (3, 1) and their mirrors, which are one dearer: a
\* set sold off (1, 1) leaves one milli-feather, one sold off (2, 1) takes one.
MCCost ==
    LET table == << <<4, 8, 11, 16>>, <<8, 10, 12, 17>>,
                    <<11, 12, 14, 17>>, <<16, 17, 17, 19>> >>
    IN  [y \in 0 .. 3 |-> [n \in 0 .. 3 |-> table[y + 1][n + 1]]]

LedgerInit == Init /\ BasisInit /\ LmsrInit
LedgerNext ==
    \/ Next /\ BasisInit /\ LmsrInit /\ UNCHANGED <<basisVars, lmsrVars>>
    \/ BasisNext /\ Init /\ LmsrInit /\ UNCHANGED <<vars, lmsrVars>>
    \/ LmsrNext /\ Init /\ BasisInit /\ UNCHANGED <<vars, basisVars>>
LedgerSpec == LedgerInit /\ [][LedgerNext]_<<vars, basisVars, lmsrVars>>
=============================================================================
