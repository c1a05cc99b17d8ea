--------------------------- MODULE OrderMatching ---------------------------
(***************************************************************************)
(* The pure price-time matcher of src/lib/order-book.ts.                   *)
(*                                                                         *)
(* A binary market has one canonical YES book.  A resting order is a       *)
(* record [id, owner, stp, side, price, qty, seq]: its identity, the user  *)
(* who owns it, the self-trade-prevention owner, the canonical side, the   *)
(* canonical YES limit price, the remaining quantity and its time          *)
(* priority.  An incoming order also carries tif ("GTC", "IOC", "FOK"),    *)
(* postOnly and stpMode.  A book is a set of resting orders.               *)
(***************************************************************************)
EXTENDS Integers, FiniteSets, Sequences, SequencesExt

CONSTANTS PayoutMilli,     \* what one complete set of contracts pays
          MaxQuantity      \* ORDER_BOOK_LIMITS.maxQuantity

ASSUME PayoutAssumption == PayoutMilli \in Nat /\ PayoutMilli > 1
ASSUME MaxQuantityAssumption == MaxQuantity \in Nat \ {0}

Prices == 1 .. PayoutMilli - 1
Sides == {"BUY", "SELL"}
TimesInForce == {"GTC", "IOC", "FOK"}
StpModes == {"CANCEL_AGGRESSOR", "CANCEL_RESTING", "CANCEL_BOTH"}
Outcomes == {"YES", "NO"}

Opposite(side) == IF side = "BUY" THEN "SELL" ELSE "BUY"

\* Buying NO at n is selling YES at payout - n, and the other way round.
NormalizeToYesBook(outcome, action, price) ==
    IF outcome = "YES"
    THEN [side |-> action, price |-> price]
    ELSE [side |-> Opposite(action), price |-> PayoutMilli - price]

\* What matchOrder accepts; it throws on any other order.
ValidIncoming(o) ==
    /\ o.side \in Sides
    /\ o.price \in Prices
    /\ o.qty \in 1 .. MaxQuantity
    /\ o.tif \in TimesInForce
    /\ o.stpMode \in StpModes
    /\ o.postOnly => o.tif = "GTC"

----------------------------------------------------------------------------
\* Priority: BUY orders before SELL orders, then the better price for the
\* other side, then the older priority sequence, then the smaller id.
BetterPrice(a, b) ==
    IF a.side = "BUY" THEN a.price > b.price ELSE a.price < b.price

\* Mutant: the newer of two orders at one price goes first.
Mutant_Before(a, b) ==
    \/ a.side = "BUY" /\ b.side = "SELL"
    \/ /\ a.side = b.side
       /\ \/ BetterPrice(a, b)
          \/ a.price = b.price /\ a.seq > b.seq

Before(a, b) ==
    \/ a.side = "BUY" /\ b.side = "SELL"
    \/ /\ a.side = b.side
       /\ \/ BetterPrice(a, b)
          \/ /\ a.price = b.price
             /\ \/ a.seq < b.seq
                \/ a.seq = b.seq /\ a.id < b.id

Crosses(inc, maker) ==
    /\ inc.side # maker.side
    /\ IF inc.side = "BUY" THEN inc.price >= maker.price
                           ELSE inc.price <= maker.price

\* The worst of some makers: a loop that takes them best first ends with it.
Worst(makers) ==
    CHOOSE m \in makers : \A o \in makers : o = m \/ Before(o, m)

OverMakers(Turn(_, _), start, makers) ==
    MapThenFoldSet(LAMBDA m, acc : Turn(acc, m), start, LAMBDA m : m, Worst,
                   makers)

OppositeMakers(book, inc) == {m \in book : m.side # inc.side}

\* Mutant: the loop does not stop at the first maker that does not cross.
Mutant_CrossingMakers(book, inc) == OppositeMakers(book, inc)

\* The makers the matching loop can reach.
CrossingMakers(book, inc) ==
    {m \in OppositeMakers(book, inc) : Crosses(inc, m)}

\* Mutant: the look-ahead counts own orders it will never trade with.
Mutant_ExecutableQuantity(book, inc) ==
    LET walk == SumFunction([m \in CrossingMakers(book, inc) |-> m.qty])
    IN  IF walk >= inc.qty THEN inc.qty ELSE walk

\* The quantity a FOK order could execute: own orders are skipped when they
\* would be cancelled, and end the walk in the other two modes.
WalkPast(inc, acc, m) ==
    IF acc.stop THEN acc
    ELSE IF m.stp = inc.stp
    THEN [acc EXCEPT !.stop = inc.stpMode # "CANCEL_RESTING"]
    ELSE [qty  |-> acc.qty + m.qty, stop |-> acc.qty + m.qty >= inc.qty]

ExecutableQuantity(book, inc) ==
    LET walk == OverMakers(LAMBDA acc, m : WalkPast(inc, acc, m),
                           [qty |-> 0, stop |-> FALSE],
                           CrossingMakers(book, inc))
    IN  IF walk.qty >= inc.qty THEN inc.qty ELSE walk.qty

MinQty(a, b) == IF a <= b THEN a ELSE b

\* A trade of q with maker m, of which `left' rests on.
TradeWith(inc, acc, m, q, left) ==
    [acc EXCEPT !.rem = @ - q,
                !.fills = Append(@, [maker |-> m.id, taker |-> inc.id,
                                     makerOwner |-> m.owner,
                                     takerOwner |-> inc.owner,
                                     price |-> m.price, qty |-> q]),
                !.book = (@ \ {m}) \union left]

\* An own order in the way: it is cancelled, the incoming order is, or both.
PreventSelfTrade(inc, acc, m) ==
    [acc EXCEPT !.prevented = Append(@, m.id),
                !.book = IF inc.stpMode = "CANCEL_AGGRESSOR"
                         THEN @ ELSE @ \ {m},
                !.stop = inc.stpMode # "CANCEL_RESTING"]

\* Mutant: own orders are traded with.
MutantSelf_MatchMaker(inc, acc, m) ==
    IF acc.stop \/ acc.rem = 0 THEN acc
    ELSE LET q == MinQty(acc.rem, m.qty)
         IN  TradeWith(inc, acc, m, q,
                       IF q = m.qty THEN {} ELSE {[m EXCEPT !.qty = @ - q]})

\* One turn of the matching loop on the best remaining maker.
MatchMaker(inc, acc, m) ==
    IF acc.stop \/ acc.rem = 0 THEN acc
    ELSE IF m.stp = inc.stp
    THEN PreventSelfTrade(inc, acc, m)
    ELSE LET q == MinQty(acc.rem, m.qty)
         IN  TradeWith(inc, acc, m, q,
                       IF q = m.qty THEN {} ELSE {[m EXCEPT !.qty = @ - q]})

MatchLoop(book, inc) ==
    OverMakers(LAMBDA acc, m : MatchMaker(inc, acc, m),
               [rem |-> inc.qty, fills |-> <<>>, prevented |-> <<>>,
                book |-> book, stop |-> FALSE],
               CrossingMakers(book, inc))

Resting(inc, qty) ==
    [id |-> inc.id, owner |-> inc.owner, stp |-> inc.stp, side |-> inc.side,
     price |-> inc.price, qty |-> qty, seq |-> inc.seq]

Rejected(book, inc, why) ==
    [disposition |-> why, fills |-> <<>>, book |-> book, filled |-> 0,
     canceled |-> inc.qty, remaining |-> 0, prevented |-> <<>>]

PostOnlyWouldTrade(book, inc) ==
    inc.postOnly /\ CrossingMakers(book, inc) # {}

FokNotFillable(book, inc) ==
    inc.tif = "FOK" /\ ExecutableQuantity(book, inc) < inc.qty

Matched(end, inc, disposition, book, canceled, remaining) ==
    [disposition |-> disposition, fills |-> end.fills, book |-> book,
     filled |-> inc.qty - end.rem, canceled |-> canceled,
     remaining |-> remaining, prevented |-> end.prevented]

\* What becomes of the order where the matching loop ended.
Dispose(end, inc) ==
    LET some == end.rem < inc.qty
    IN  IF end.stop
        THEN Matched(end, inc, IF some THEN "PARTIALLY_FILLED_AND_CANCELED"
                                       ELSE "SELF_TRADE_PREVENTED",
                     end.book, end.rem, 0)
        ELSE IF end.rem = 0
        THEN Matched(end, inc, "FILLED", end.book, 0, 0)
        ELSE IF inc.tif = "GTC"
        THEN Matched(end, inc, IF some THEN "PARTIALLY_FILLED_AND_RESTING"
                                       ELSE "RESTING",
                     end.book \union {Resting(inc, end.rem)}, 0, end.rem)
        ELSE Matched(end, inc, IF some THEN "PARTIALLY_FILLED_AND_CANCELED"
                                       ELSE "CANCELED",
                     end.book, end.rem, 0)

\* matchOrder: the effects of one incoming order on the book.
MatchOrder(book, inc) ==
    IF PostOnlyWouldTrade(book, inc)
    THEN Rejected(book, inc, "POST_ONLY_WOULD_TRADE")
    ELSE IF FokNotFillable(book, inc)
    THEN Rejected(book, inc, "FOK_NOT_FILLABLE")
    ELSE Dispose(MatchLoop(book, inc), inc)
=============================================================================
