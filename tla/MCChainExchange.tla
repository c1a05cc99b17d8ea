--------------------------- MODULE MCChainExchange ---------------------------
(* Setups of ChainExchange.  Each bounds one question: the heaps with six       *)
(* orders on one side; trading over a full book; the whole life of a market     *)
(* with traded shares; the way from an empty market to the first order.         *)
EXTENDS ChainExchange, TLC

CONSTANTS alice, bob, carol

Both == {"YES", "NO"}
Directions == {"BUY", "SELL"}

In(owner, outcome, action, price, quantity, tif, selfTrade, expires) ==
  [owner |-> owner, outcome |-> outcome, action |-> action, price |-> price,
   quantity |-> quantity, tif |-> tif, selfTrade |-> selfTrade, postOnly |-> FALSE,
   expires |-> expires]
Gtc(owner, outcome, action, price, quantity) ==
  In(owner, outcome, action, price, quantity, "GTC", "CancelAggressor", NoExpiry)

Base == [payout |-> 3, feeBps |-> 5000, capacity |-> 2, closesAt |-> 1, resolvesAt |-> 1,
         touches |-> 2, wallets |-> <<alice, bob>>,
         tokens |-> alice :> 12 @@ bob :> 12, ready |-> TRUE, opening |-> <<>>,
         orders |-> {}, maxOrders |-> 0, maxCommands |-> 0, horizon |-> 0,
         outcomes |-> {}, maxProposals |-> 0, amounts |-> {}, donations |-> FALSE]

\* One trader, six bids at two prices, three of them cancelled from anywhere.
DeepBook ==
  [Base EXCEPT !.wallets = <<alice>>, !.tokens = alice :> 14, !.capacity = 6, !.feeBps = 0,
               !.orders = {Gtc(1, "YES", "BUY", p, 1) : p \in {1, 2}},
               !.maxOrders = 7, !.maxCommands = 10]

\* Two YES for one trader and two NO for the other; then anything that fits.
Minted == <<Gtc(1, "YES", "BUY", 1, 2), Gtc(2, "NO", "BUY", 2, 2)>>
Limits == {Gtc(i, o, a, p, q) : i \in {1, 2}, o \in Both, a \in Directions,
                                p \in {1, 2}, q \in {1, 2}}
Trading == [Base EXCEPT !.opening = Minted, !.orders = Limits, !.maxOrders = 5,
                        !.maxCommands = 8]

\* The options of an order: two makers at most, one of which may expire, and a
\* second touch that not every order may make.
Options ==
  {[in EXCEPT !.tif = t, !.selfTrade = s] :
     in \in Limits, t \in {"IOC", "FOK"}, s \in {"CancelResting", "CancelBoth"}}
  \cup {[in EXCEPT !.postOnly = TRUE] : in \in Limits}
  \cup {[in EXCEPT !.expires = 1, !.selfTrade = "CancelBoth"] : in \in Limits}
Taking == [Trading EXCEPT !.orders = Limits \cup Options, !.touches = 1, !.maxOrders = 4,
                          !.closesAt = 2, !.horizon = 1]

\* One pair held by two of three seats, one more order, and the market to its end.
Pair == <<Gtc(1, "YES", "BUY", 1, 1), Gtc(2, "NO", "BUY", 2, 1)>>
Life == [Base EXCEPT !.wallets = <<alice, bob, carol>>,
                     !.tokens = alice :> 5 @@ bob :> 5 @@ carol :> 1,
                     !.opening = Pair, !.maxOrders = 4, !.maxCommands = 7, !.amounts = {1},
                     !.orders = {[in EXCEPT !.expires = e] : in \in Limits, e \in {NoExpiry, 1}},
                     !.closesAt = 2, !.resolvesAt = 3, !.horizon = 3,
                     !.outcomes = {"YES", "NO", "VOID"}, !.maxProposals = 2]

\* From the finished book of a new market: seats, deposits and the terms, up to
\* the first orders.  A reviewer may have a seat and a deposit.
Genesis == [Base EXCEPT !.ready = FALSE,
                        !.tokens = alice :> 4 @@ Proposer :> 2 @@ bob :> 0,
                        !.amounts = {2}, !.donations = TRUE, !.maxOrders = 2, !.maxCommands = 4,
                        !.orders = {Gtc(i, "YES", a, 1, 1) : i \in 1..3, a \in Directions},
                        !.horizon = 1, !.outcomes = {"VOID"}, !.maxProposals = 1]

Setup_ == {DeepBook, Trading, Taking, Life, Genesis}
==============================================================================
