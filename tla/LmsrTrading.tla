------------------------------ MODULE LmsrTrading ------------------------------
(***************************************************************************)
(* Trading against the market maker (trading.ts, market-maker.ts): a       *)
(* trader asks for a quote, which is stored and expires, and executes it   *)
(* once, at a price computed again from the market as it is then.  The     *)
(* maker prices by one cost function of the contracts sold.  Its           *)
(* exponentials are a constant here: any table with the properties the     *)
(* maker relies on.                                                        *)
(***************************************************************************)
EXTENDS Integers

CONSTANTS Traders,
          TradeKeys,       \* idempotency keys of one trader
          CostMilli,       \* lmsrCostMilli, by YES and NO contracts sold
          SubsidyMilli,    \* initialSubsidyMilli
          ContractMilli,   \* Market.payoutMilli
          LmsrFeeBps,
          MaxContracts,    \* MARKET_MAKER_LIMITS.maxQuantity
          StartMilli,      \* what every trader begins with
          QuoteTtl,        \* life of a quote
          ClosesAt,
          LastTime,        \* bound: the clock
          MaxQuotes,       \* bound: quotes issued
          MaxVersion       \* bound: changes of the market

Sides == {"YES", "NO"}
TradeActions == {"BUY", "SELL"}
Counts == 0 .. MaxContracts

\* What the maker's arithmetic promises.  The reserve of a quarter that is added
\* before rounding up exceeds what floating point loses, so the cost covers
\* what the dearer outcome pays.  Rounding may go the other way at another
\* place of the table, so a complete set costs what it pays give or take one
\* (market-maker.test.ts:46 allows as much).
ASSUME LmsrAssumption ==
    /\ MaxContracts \in Nat /\ ContractMilli \in Nat
    /\ LmsrFeeBps \in 0 .. 10000
    /\ QuoteTtl \in Nat /\ ClosesAt \in Nat /\ LastTime \in Nat
    /\ CostMilli \in [Counts -> [Counts -> Nat]]
    /\ \A y, n \in Counts : /\ CostMilli[y][n] >= ContractMilli * y
                            /\ CostMilli[y][n] >= ContractMilli * n
    /\ \A y, n, q \in Counts :
          y + q \in Counts /\ n + q \in Counts =>
              CostMilli[y + q][n + q] - CostMilli[y][n]
                  \in ContractMilli * q - 1 .. ContractMilli * q + 1
    /\ SubsidyMilli \in Nat /\ SubsidyMilli >= CostMilli[0][0]
    /\ StartMilli \in Nat /\ MaxQuotes \in Nat /\ MaxVersion \in Nat

VARIABLES sold,         \* Market.yesShares, noShares
          version,      \* Market.version
          marketState,  \* Market.status; it accepts orders while OPEN
          collateral,   \* the market's COLLATERAL account
          wallet, holding,
          quotes,       \* TradeQuote rows
          issued,       \* quotes issued so far
          requests,     \* IdempotencyRequest rows
          trades,       \* Trade rows, each with the quote it executed
          redemptions,  \* JournalEntry rows of type REDEEM_COMPLETE_SET
          clock

lmsrVars == <<sold, version, marketState, collateral, wallet, holding,
              quotes, issued, requests, trades, redemptions, clock>>

LmsrInit ==
    /\ sold = [s \in Sides |-> 0]
    /\ version = 0 /\ marketState = "OPEN"
    /\ collateral = SubsidyMilli
    /\ wallet = [u \in Traders |-> StartMilli]
    /\ holding = [u \in Traders |-> [s \in Sides |-> 0]]
    /\ quotes = {} /\ issued = 0
    /\ requests = {} /\ trades = {}
    /\ redemptions = 0
    /\ clock = 0

----------------------------------------------------------------------------
\* market-maker.ts: every price is a difference of one cost function.
Cost(counts) == CostMilli[counts["YES"]][counts["NO"]]

RequiredCollateral(counts) ==
    ContractMilli * (IF counts["YES"] > counts["NO"] THEN counts["YES"]
                                                     ELSE counts["NO"])

After(side, action, qty) ==
    [sold EXCEPT ![side] = IF action = "BUY" THEN @ + qty ELSE @ - qty]

Gross(side, action, qty) ==
    LET difference == Cost(After(side, action, qty)) - Cost(sold)
    IN  IF action = "BUY" THEN difference ELSE -difference

TradeFee(gross) == (gross * LmsrFeeBps + 9999) \div 10000

\* quoteTrade answers; it throws when the value rounds to nothing.
Quotable(side, action, qty) ==
    /\ After(side, action, qty)[side] \in Counts
    /\ Gross(side, action, qty) > 0
    /\ action = "SELL" =>
          Gross(side, action, qty) > TradeFee(Gross(side, action, qty))

\* What the trader pays, or receives.
Total(action, gross) ==
    IF action = "BUY" THEN gross + TradeFee(gross) ELSE gross - TradeFee(gross)

\* isLmsrMarketOpen
OpenAt(at) == marketState = "OPEN" /\ at < ClosesAt

\* createTradeQuote, one transaction: expired quotes go, a new one is kept.
CreateTradeQuote(u, side, action, qty) ==
    /\ issued < MaxQuotes
    /\ OpenAt(clock)
    /\ action = "SELL" => holding[u][side] >= qty
    /\ Quotable(side, action, qty)
    /\ issued' = issued + 1
    /\ quotes' =
          {q \in quotes : q.at + QuoteTtl >= clock}
          \union {[id |-> issued + 1, trader |-> u, side |-> side,
                   action |-> action, qty |-> qty,
                   gross |-> Gross(side, action, qty), version |-> version,
                   at |-> clock, consumed |-> FALSE]}
    /\ UNCHANGED <<sold, version, marketState, collateral, wallet, holding,
                   requests, trades, redemptions, clock>>

\* Mutant: a quote is honoured whatever has been traded since.
Mutant_Current(q) == TRUE

\* The market is the one the quote was computed from.
Current(q) == version = q.version

\* Mutant: the fee stays in the pool besides being booked as revenue.
Mutant_CollateralDelta(action, gross) ==
    IF action = "BUY" THEN Total(action, gross) ELSE -Total(action, gross)

CollateralDelta(action, gross) == IF action = "BUY" THEN gross ELSE -gross

\* executeTrade, one transaction, acting at a time read before it.
ExecuteTrade(q, key, at, slack) ==
    LET u       == q.trader
        counts  == After(q.side, q.action, q.qty)
        gross   == Gross(q.side, q.action, q.qty)
        total   == Total(q.action, gross)
        bound   == IF q.action = "BUY" THEN Total(q.action, q.gross) + slack
                                       ELSE Total(q.action, q.gross) - slack
        delta   == CollateralDelta(q.action, gross)
    IN  /\ <<u, key>> \notin requests
        /\ OpenAt(at)
        /\ ~q.consumed /\ at < q.at + QuoteTtl
        /\ Current(q)
        /\ Quotable(q.side, q.action, q.qty)
        /\ IF q.action = "BUY" THEN total <= bound /\ wallet[u] >= total
                               ELSE total >= bound /\ holding[u][q.side] >= q.qty
        /\ collateral + delta >= RequiredCollateral(counts)
        /\ requests' = requests \union {<<u, key>>}
        /\ quotes' = (quotes \ {q}) \union {[q EXCEPT !.consumed = TRUE]}
        /\ sold' = counts /\ version' = version + 1
        /\ holding' = [holding EXCEPT ![u][q.side] =
                          IF q.action = "BUY" THEN @ + q.qty ELSE @ - q.qty]
        /\ wallet' = [wallet EXCEPT ![u] =
                          IF q.action = "BUY" THEN @ - total ELSE @ + total]
        /\ collateral' = collateral + delta
        /\ trades' = trades \union
              {[quote |-> q.id, trader |-> u, key |-> key, version |-> version,
                quoted |-> Total(q.action, q.gross), total |-> total]}
        /\ UNCHANGED <<marketState, issued, redemptions, clock>>

\* redeemCompleteSet on such a market.
RedeemSets(u, qty) ==
    LET counts == [s \in Sides |-> sold[s] - qty]
    IN  /\ marketState \in {"OPEN", "CLOSED"}
        /\ \A s \in Sides : holding[u][s] >= qty /\ sold[s] >= qty
        /\ collateral - ContractMilli * qty >= RequiredCollateral(counts)
        /\ sold' = counts /\ version' = version + 1
        /\ holding' = [holding EXCEPT ![u] = [s \in Sides |-> @[s] - qty]]
        /\ wallet' = [wallet EXCEPT ![u] = @ + ContractMilli * qty]
        /\ collateral' = collateral - ContractMilli * qty
        /\ redemptions' = redemptions + 1
        /\ UNCHANGED <<marketState, quotes, issued, requests, trades, clock>>

\* transitionAdminMarket, and the worker's automatic close.
Transition(from, to) ==
    /\ marketState \in from
    /\ marketState' = to /\ version' = version + 1
    /\ UNCHANGED <<sold, collateral, wallet, holding, quotes, issued,
                   requests, trades, redemptions, clock>>

Pause == Transition({"OPEN"}, "PAUSED")
Resume == \E at \in 0 .. clock : at < ClosesAt /\ Transition({"PAUSED"}, "OPEN")
Close == Transition({"OPEN", "PAUSED"}, "CLOSED")

PassTime ==
    /\ clock < LastTime /\ clock' = clock + 1
    /\ UNCHANGED <<sold, version, marketState, collateral, wallet, holding,
                   quotes, issued, requests, trades, redemptions>>

TradeQuantities == 1 .. MaxContracts

LmsrNext ==
    \/ \E u \in Traders, side \in Sides, action \in TradeActions,
          qty \in TradeQuantities : CreateTradeQuote(u, side, action, qty)
    \/ /\ version < MaxVersion
       /\ \/ \E q \in quotes, key \in TradeKeys, slack \in {0, 1} :
                \E at \in q.at .. clock : ExecuteTrade(q, key, at, slack)
          \/ \E u \in Traders, qty \in TradeQuantities : RedeemSets(u, qty)
          \/ Pause \/ Resume \/ Close
    \/ PassTime

LmsrSpec == LmsrInit /\ [][LmsrNext]_lmsrVars

----------------------------------------------------------------------------
\* What the pool holds beyond what its cost function says of the contracts sold.
Drift == collateral - (SubsidyMilli + Cost(sold) - CostMilli[0][0])

\* Trades there and back leave nothing in the pool and take nothing out of it
\* (the comment at market-maker.ts:202); a set that is redeemed was not bought
\* at one price, and may leave or take one milli-feather, however many sets the
\* redemption is of.  Such losses add up, and may exceed what the cost is above
\* the dearer outcome's payout: the pool can still pay whichever outcome wins,
\* because executeTrade and redeemCompleteSet would sooner answer
\* MARKET_UNDERCOLLATERALIZED.
MakerSolvent ==
    /\ Drift \in -redemptions .. redemptions
    /\ collateral >= RequiredCollateral(sold)

\* Although the price is computed again when the quote is executed, every
\* trader pays or receives what the quote had shown; and a quote, like a key
\* of its trader, is executed once.
TradedAsQuoted ==
    /\ \A t \in trades : t.total = t.quoted
    /\ \A t1, t2 \in trades :
          (\/ t1.quote = t2.quote
           \/ t1.trader = t2.trader /\ t1.key = t2.key) => t1 = t2
=============================================================================
