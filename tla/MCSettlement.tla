---------------------------- MODULE MCSettlement ----------------------------
(***************************************************************************)
(* Three positions: one of YES, one of a pair and a half and one of a pair,*)
(* with an odd payout so that a void market rounds; or one pair, so that   *)
(* its holder may redeem it and nobody is left to settle.                  *)
(***************************************************************************)
EXTENDS Settlement

CONSTANTS w1, w2, t1, t2, t3

Holding(yes, no) == [yes |-> yes, no |-> no]
MCPortfolios == {<<Holding(1, 0), Holding(1, 2), Holding(1, 1)>>,
                 <<Holding(0, 0), Holding(1, 1), Holding(0, 0)>>}
MCWorkers == {w1, w2}
MCTokens == {t1, t2, t3}
=============================================================================
