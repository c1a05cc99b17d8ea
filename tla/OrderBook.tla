----------------------------- MODULE OrderBook -----------------------------
(***************************************************************************)
(* One market's book driven by the matcher of OrderMatching: users submit  *)
(* limit orders in the public YES/NO vocabulary and cancel what rests.     *)
(* `last' is a history variable, the book before the last submission, the  *)
(* order submitted and the effects matchOrder returned, for properties to  *)
(* read.  Forget drops it before the next operation, so that two ways to   *)
(* reach one book are explored once.                                       *)
(***************************************************************************)
EXTENDS OrderMatching

CONSTANTS Traders,
          Asks,          \* the [outcome, action, price, qty, tif, postOnly,
                         \*  stpMode] a user may ask for, price in user terms
          MaxSubmitted   \* bound on the orders ever submitted

ASSUME MaxSubmittedAssumption == MaxSubmitted \in Nat

VARIABLES book, submitted, last

bookVars == <<book, submitted, last>>

Nothing == [fills |-> <<>>]

\* The order a request becomes: ids and priorities grow with each command.
Incoming(user, req) ==
    LET canonical == NormalizeToYesBook(req.outcome, req.action, req.price)
    IN  [id |-> submitted + 1, owner |-> user, stp |-> user,
         side |-> canonical.side, price |-> canonical.price, qty |-> req.qty,
         seq |-> submitted + 1, tif |-> req.tif, postOnly |-> req.postOnly,
         stpMode |-> req.stpMode]

BookInit ==
    /\ book = {}
    /\ submitted = 0
    /\ last = Nothing

SubmitOrder(user, req) ==
    LET inc == Incoming(user, req)
        res == MatchOrder(book, inc)
    IN  /\ last = Nothing
        /\ submitted < MaxSubmitted
        /\ ValidIncoming(inc)
        /\ book' = res.book
        /\ submitted' = submitted + 1
        /\ last' = [before |-> book, inc |-> inc, res |-> res,
                    fills |-> res.fills]

CancelOrder(order) ==
    /\ last = Nothing
    /\ book' = book \ {order}
    /\ UNCHANGED <<submitted, last>>

Forget ==
    /\ last # Nothing
    /\ last' = Nothing
    /\ UNCHANGED <<book, submitted>>

BookNext ==
    \/ \E user \in Traders, req \in Asks : SubmitOrder(user, req)
    \/ \E order \in book : CancelOrder(order)
    \/ Forget

BookSpec == BookInit /\ [][BookNext]_bookVars

----------------------------------------------------------------------------

\* Facts about the last submission.
Filled(id) == {i \in DOMAIN last.fills : last.fills[i].maker = id}
FilledOf(id) == SumFunction([i \in Filled(id) |-> last.fills[i].qty])
Submission == last # Nothing
PreventedIds == ToSet(last.res.prevented)

\* What the price-time rule of ORDER_BOOK_ARCHITECTURE says of two makers.
HasPriority(a, b) ==
    \/ IF a.side = "SELL" THEN a.price < b.price ELSE a.price > b.price
    \/ a.price = b.price /\ a.seq < b.seq

\* Price-time priority: a maker trades only when every maker with better
\* priority, owned by somebody else, has been filled completely.
PriceTimePriority ==
    Submission =>
      \A m, better \in last.before :
        (/\ Filled(m.id) # {}
         /\ better.side = m.side
         /\ better.stp # last.inc.stp
         /\ HasPriority(better, m))
            => FilledOf(better.id) = better.qty

\* The matcher and the FOK look-ahead agree with this definition of what an
\* order should execute: all crossing quantity of others, up to the first
\* own order unless own orders are simply cancelled out of the way.
Reachable(before, inc) ==
    LET crossing == {m \in before : Crosses(inc, m)}
        own      == {m \in crossing : m.stp = inc.stp}
    IN  {m \in crossing \ own :
            inc.stpMode = "CANCEL_RESTING" \/ \A o \in own : HasPriority(m, o)}

ShouldFill(before, inc) ==
    LET liquidity == SumFunction([m \in Reachable(before, inc) |-> m.qty])
    IN  IF \/ inc.postOnly
           \/ inc.tif = "FOK" /\ liquidity < inc.qty
        THEN 0
        ELSE MinQty(inc.qty, liquidity)

FilledAsDefined ==
    Submission => last.res.filled = ShouldFill(last.before, last.inc)

\* Self-trade prevention: nobody trades with himself, and only the own
\* resting orders that stood in the way are cancelled, in the modes that
\* cancel them.
SelfTradePrevented ==
    Submission =>
      /\ \A i \in DOMAIN last.fills :
            last.fills[i].makerOwner # last.fills[i].takerOwner
      /\ \A m \in last.before :
            (m.id \notin {o.id : o \in last.res.book} /\ Filled(m.id) = {})
                <=> /\ m.id \in PreventedIds
                    /\ last.inc.stpMode # "CANCEL_AGGRESSOR"
      /\ \A m \in last.before :
            m.id \in PreventedIds => /\ m.stp = last.inc.stp
                                     /\ Crosses(last.inc, m)
=============================================================================
