-------------------------- MODULE MCOrderExchange --------------------------
(***************************************************************************)
(* Instances of OrderExchange: two users, alice who owns contracts and bob *)
(* who owns fewer, and the orders they may ask for.                        *)
(***************************************************************************)
EXTENDS OrderExchange

CONSTANTS alice, bob

MCUsers == {alice, bob}
MCYes == [u \in MCUsers |-> IF u = alice THEN 2 ELSE 0]
MCNo  == [u \in MCUsers |-> IF u = alice THEN 1 ELSE 1]

Ask(outcome, action, price, qty, tif, postOnly, stpMode, exp) ==
    [outcome |-> outcome, action |-> action, price |-> price, qty |-> qty,
     tif |-> tif, postOnly |-> postOnly, stpMode |-> stpMode, exp |-> exp]

Plain(outcome, action, price, qty) ==
    Ask(outcome, action, price, qty, "GTC", FALSE, "CANCEL_AGGRESSOR",
        NoExpiry)

\* Orders that mint, burn and transfer, of one and of two contracts, with
\* the ways an order may end early, one of them by its expiry.
TradingRequests ==
    {Plain("YES", "BUY", 2, 2), Plain("YES", "BUY", 3, 1),
     Plain("YES", "SELL", 3, 2), Plain("NO", "BUY", 2, 1),
     Plain("NO", "SELL", 1, 1),
     Ask("YES", "SELL", 1, 1, "IOC", FALSE, "CANCEL_BOTH", NoExpiry),
     Ask("NO", "BUY", 2, 2, "GTC", FALSE, "CANCEL_RESTING", 1),
     Ask("YES", "BUY", 2, 2, "FOK", FALSE, "CANCEL_RESTING", NoExpiry),
     Ask("YES", "BUY", 3, 1, "GTC", TRUE, "CANCEL_AGGRESSOR", NoExpiry)}

\* Fewer orders, for longer runs in which chains of replacements fill.
ChainRequests ==
    {Plain("YES", "BUY", 2, 2), Plain("YES", "BUY", 3, 1),
     Plain("YES", "SELL", 2, 1), Plain("NO", "BUY", 2, 2),
     Ask("YES", "SELL", 1, 2, "IOC", FALSE, "CANCEL_BOTH", NoExpiry)}
=============================================================================
