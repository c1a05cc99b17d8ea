--------------------------- MODULE MCOrderCommands ---------------------------
(***************************************************************************)
(* One client with one key: it repeats commands, reuses the key for the    *)
(* other market and cancels in bulk.                                       *)
(***************************************************************************)
EXTENDS OrderCommands

CONSTANTS alice, m1, m2, k1

MCUsers == {alice}
MCMarkets == {m1, m2}
MCLive == [m \in MCMarkets |-> IF m = m1 THEN MCUsers ELSE {}]

Ask(scope, markets) ==
    [user |-> alice, scope |-> scope, key |-> k1, markets |-> markets]

MCRequests ==
    {Ask("ORDER_PLACE", {m1}), Ask("ORDER_PLACE", {m2}),
     Ask("ORDER_CANCEL", {m1}), Ask("ORDER_REPLACE", {m1}),
     Ask(Bulk, MCMarkets)}
=============================================================================
