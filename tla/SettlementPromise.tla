------------------------- MODULE SettlementPromise -------------------------
(***************************************************************************)
(* What settling a market promises its holders, with no mechanism: once    *)
(* the outcome is decided every position that holds contracts is owed a    *)
(* fixed amount, each is paid exactly that, once, in any order and any     *)
(* grouping, and the market closes when all have been.                     *)
(***************************************************************************)
EXTENDS Integers

CONSTANT Positions

VARIABLES stage,    \* "TRADING", "SETTLING" or "CLOSED"
          holders,  \* the positions to settle
          owed,     \* what each is owed
          settled,  \* the positions settled
          received  \* the money each position's owner has received

vars == <<stage, holders, owed, settled, received>>

Init ==
    /\ stage = "TRADING"
    /\ holders = {}
    /\ owed = [p \in Positions |-> 0]
    /\ settled = {}
    /\ received = [p \in Positions |-> 0]

Decide ==
    /\ stage = "TRADING"
    /\ stage' = "SETTLING"
    /\ holders' \subseteq Positions
    /\ owed' \in [Positions -> Nat]
    /\ UNCHANGED <<settled, received>>

Pay(group) ==
    /\ stage = "SETTLING"
    /\ settled' = settled \union group
    /\ received' = [p \in Positions |->
                        IF p \in group THEN received[p] + owed[p]
                                       ELSE received[p]]
    /\ UNCHANGED <<stage, holders, owed>>

Close ==
    /\ stage = "SETTLING"
    /\ settled = holders
    /\ stage' = "CLOSED"
    /\ UNCHANGED <<holders, owed, settled, received>>

Next ==
    \/ Decide
    \/ \E group \in SUBSET (holders \ settled) : Pay(group)
    \/ Close

Spec == Init /\ [][Next]_vars
=============================================================================
