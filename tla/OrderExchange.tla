--------------------------- MODULE OrderExchange ---------------------------
(***************************************************************************)
(* One ORDER_BOOK market of src/lib/order-exchange.ts with the users who   *)
(* trade in it: placing, matching, cancelling, replacing and expiring      *)
(* orders, redeeming complete sets, and the lifecycle transitions that     *)
(* drain the book.  It composes the matcher (OrderMatching) and the money  *)
(* arithmetic (OrderAccounting).                                           *)
(*                                                                         *)
(* Every command is one serializable database transaction: it commits as   *)
(* a whole or leaves no trace.  A transaction is a record st of the rows   *)
(* it reads and writes, threaded through the steps of the code; a step     *)
(* that throws sets st.fault, "REFUSED" for an answer the code expects to  *)
(* give (no funds, no contracts) and "BROKEN" for its internal-consistency *)
(* errors.  Refused commands are not enabled; a broken one is recorded.    *)
(*                                                                         *)
(* A command takes its operationAt before its transaction (and keeps it    *)
(* over retries), so it acts at any time at <= now.                        *)
(***************************************************************************)
EXTENDS OrderMatching, OrderAccounting

CONSTANTS Users,
          FeeBps,            \* the market's fee
          InitialCash,       \* each user's wallet
          InitialYes,        \* the contracts earlier trades left: functions
          InitialNo,         \*   on Users with equal sums
          Requests,          \* orders users ask for, see OrderBook; exp added
          Redemptions,       \* quantities users redeem
          Suspendable,       \* users an operator may suspend
          CloseTime,         \* Market.closesAt
          MaxOrders,         \* bound: orders ever created
          MaxActivePerUser,  \* ORDER_BOOK_LIMITS.maxActiveOrdersPerUserMarket
          MaxTime            \* bound: the clock

NoExpiry == MaxTime + 1      \* expiresAt = null

OrderRequest == [outcome : Outcomes, action : Sides, price : Prices,
                 qty : 1 .. MaxQuantity, tif : TimesInForce,
                 postOnly : BOOLEAN, stpMode : StpModes, exp : Nat]

ASSUME ExchangeAssumption ==
    /\ IsFiniteSet(Users) /\ Suspendable \subseteq Users
    /\ FeeBps \in 0 .. FeeBasisPoints
    /\ InitialCash \in Nat
    /\ InitialYes \in [Users -> Nat] /\ InitialNo \in [Users -> Nat]
    /\ SumFunction(InitialYes) = SumFunction(InitialNo)
    /\ Requests \subseteq OrderRequest
    /\ Redemptions \subseteq 1 .. MaxQuantity
    /\ {MaxOrders, MaxTime} \subseteq Nat

VARIABLES db,        \* the rows commands read and write
          market,    \* Market.status and acceptingOrders
          active,    \* users whose status is ACTIVE
          now,       \* the clock
          inSequence,  \* history: every command numbered its events without
                       \*   gap or duplicate
          broken     \* history: a command met an internal-consistency error

vars == <<db, market, active, now, inSequence, broken>>

Wallet(u) == <<"USER_FEATHERS", u>>
Escrow(i) == <<"ORDER_RESERVE", i>>
Collateral == <<"COLLATERAL">>
Revenue == <<"PROTOCOL_REVENUE">>
Accounts == {Wallet(u) : u \in Users} \union {Escrow(i) : i \in 1 .. MaxOrders}
                \union {Collateral, Revenue}

NoReservation == [principal |-> 0, fee |-> 0, yes |-> 0, no |-> 0]

Init ==
    /\ db = [balance |-> [u \in Users |-> InitialCash],
             acct |-> [a \in Accounts |->
                        IF a \in {Wallet(u) : u \in Users} THEN InitialCash
                        ELSE IF a = Collateral
                             THEN PayoutMilli * SumFunction(InitialYes) ELSE 0],
             orders |-> <<>>,
             resv |-> <<>>,
             pos |-> [u \in Users |-> [yes |-> InitialYes[u],
                                       no |-> InitialNo[u],
                                       rYes |-> 0, rNo |-> 0]],
             supply |-> [yes |-> SumFunction(InitialYes), no |-> SumFunction(InitialNo)]]
    /\ market = [status |-> "OPEN", accepting |-> TRUE]
    /\ active = Users
    /\ now = 0
    /\ inSequence = TRUE
    /\ broken = FALSE

----------------------------------------------------------------------------
\* The steps a transaction is made of.  A thrown error rolls everything
\* back, so only the first one matters.
Begin == [balance |-> db.balance, acct |-> db.acct, orders |-> db.orders,
          resv |-> db.resv, pos |-> db.pos, supply |-> db.supply,
          fault |-> "NONE", offsets |-> <<>>, eventIndex |-> 0]

Fail(st, why) == IF st.fault = "NONE" THEN [st EXCEPT !.fault = why] ELSE st
Check(st, cond, why) == IF cond THEN st ELSE Fail(st, why)

\* createEvent: an event at bookSequence + offset; the callers count.
Emit(st, offset) == [st EXCEPT !.offsets = Append(@, offset)]
EmitNext(st) ==
    [Emit(st, st.eventIndex + 1) EXCEPT !.eventIndex = st.eventIndex + 1]

ActiveStatus == {"OPEN", "PARTIALLY_FILLED"}
IsLive(o) == o.status \in ActiveStatus /\ o.rem > 0
LiveOrders(st) == {i \in DOMAIN st.orders : IsLive(st.orders[i])}

UserLimit(o) == UserPrice(o.outcome, o.price, PayoutMilli)

Chain(st, i) ==
    {j \in DOMAIN st.orders : st.orders[j].chain = st.orders[i].chain}

\* existingExecutedNotional: what the orders of i's chain have executed.
ChainExecuted(st, i) ==
    SumFunction([j \in Chain(st, i) |-> st.orders[j].notional])

EnsureWallet(st, u) ==
    Check(st, st.acct[Wallet(u)] = st.balance[u], "BROKEN")

\* mutateAvailableUserCash: a debit needs an active user with the money.
MutateCash(st, u, delta) ==
    IF delta < 0 /\ (u \notin active \/ st.balance[u] < -delta)
    THEN Fail(st, "REFUSED")
    ELSE [st EXCEPT !.balance[u] = @ + delta]

\* mutateAccount: no ledger account is overdrawn.
MutateAccount(st, posting) ==
    IF st.acct[posting.acct] + posting.amt < 0
    THEN Fail(st, "BROKEN")
    ELSE [st EXCEPT !.acct[posting.acct] = @ + posting.amt]

\* createJournal: at least two postings, those of nothing dropped, that sum
\* to zero.
CreateJournal(st, postings) ==
    LET real == {k \in DOMAIN postings : postings[k].amt # 0}
    IN  IF \/ Cardinality(real) < 2
           \/ SumFunction([k \in DOMAIN postings |-> postings[k].amt]) # 0
        THEN Fail(st, "BROKEN")
        ELSE MapThenFoldSet(LAMBDA p, acc : MutateAccount(acc, p), st,
                            LAMBDA k : postings[k], Max, real)

Posting(acct, amt) == [acct |-> acct, amt |-> amt]

MoveCash(st, u, i, cash) ==     \* wallet of u to escrow of order i
    CreateJournal(MutateCash(EnsureWallet(st, u), u, -cash),
                  <<Posting(Wallet(u), -cash), Posting(Escrow(i), cash)>>)

\* Mutant: contracts another order has reserved count as available.
Mutant_Available(p, outcome) == IF outcome = "YES" THEN p.yes ELSE p.no

Available(p, outcome) ==
    IF outcome = "YES" THEN p.yes - p.rYes ELSE p.no - p.rNo

\* Mutants: no fee is reserved; what the chain has executed is forgotten.
Mutant_FeeToReserve(st, i) == 0
MutantPrior_FeeToReserve(st, i) ==
    ReservedFee(0, UserLimit(st.orders[i]), st.orders[i].rem, FeeBps)

FeeToReserve(st, i) ==
    ReservedFee(ChainExecuted(st, i), UserLimit(st.orders[i]),
                st.orders[i].rem, FeeBps)

\* reserveAssets: cash for a BUY, contracts for a SELL.
ReserveAssets(st, i) ==
    LET o         == st.orders[i]
        principal == ReservedPrincipal(UserLimit(o), o.rem)
        fee       == FeeToReserve(st, i)
        owned     == Check(st, Available(st.pos[o.owner], o.outcome) >= o.rem,
                           "REFUSED")
    IN  IF o.action = "BUY"
        THEN [MoveCash(st, o.owner, i, principal + fee)
                EXCEPT !.resv[i] = [@ EXCEPT !.principal = principal,
                                             !.fee = fee]]
        ELSE IF o.outcome = "YES"
        THEN [owned EXCEPT !.pos[o.owner].rYes = @ + o.rem,
                           !.resv[i].yes = o.rem]
        ELSE [owned EXCEPT !.pos[o.owner].rNo = @ + o.rem,
                           !.resv[i].no = o.rem]

Freed(p, r) == [p EXCEPT !.rYes = @ - r.yes, !.rNo = @ - r.no]

\* releaseReservation: everything an order still holds back is returned.
ReleaseReservation(st, i) ==
    LET r    == st.resv[i]
        u    == st.orders[i].owner
        cash == r.principal + r.fee
    IN  IF cash > 0
        THEN [MoveCash(st, u, i, -cash)
                EXCEPT !.resv[i] = [@ EXCEPT !.principal = 0, !.fee = 0]]
        ELSE [Check(st, st.pos[u].rYes >= r.yes /\ st.pos[u].rNo >= r.no,
                    "BROKEN")
                EXCEPT !.pos[u] = Freed(@, r), !.resv[i] = NoReservation]

\* Release the order and make it terminal.
CanceledOrder(o) ==
    [o EXCEPT !.canceled = @ + o.rem, !.rem = 0, !.status = "CANCELED"]

CancelRemainder(st, i) ==
    [ReleaseReservation(st, i) EXCEPT !.orders[i] = CanceledOrder(@)]

----------------------------------------------------------------------------
\* Mutant: a seller's contracts are no longer reserved, but stay.
Mutant_ApplyPositionLeg(st, o, q) ==
    IF o.action = "BUY"
    THEN IF o.outcome = "YES"
         THEN [st EXCEPT !.pos[o.owner].yes = @ + q]
         ELSE [st EXCEPT !.pos[o.owner].no = @ + q]
    ELSE IF o.outcome = "YES"
         THEN [st EXCEPT !.pos[o.owner].rYes = @ - q]
         ELSE [st EXCEPT !.pos[o.owner].rNo = @ - q]

\* applyPositionLeg: a buyer receives contracts, a seller's reserved
\* contracts leave.  Cost basis and profit are abstracted.
ApplyPositionLeg(st, o, q) ==
    LET p == st.pos[o.owner]
    IN  IF o.action = "BUY"
        THEN IF o.outcome = "YES"
             THEN [st EXCEPT !.pos[o.owner].yes = @ + q]
             ELSE [st EXCEPT !.pos[o.owner].no = @ + q]
        ELSE IF o.outcome = "YES"
             THEN [Check(st, p.yes >= q /\ p.rYes >= q, "BROKEN")
                     EXCEPT !.pos[o.owner] = [p EXCEPT !.yes = @ - q,
                                                       !.rYes = @ - q]]
             ELSE [Check(st, p.no >= q /\ p.rNo >= q, "BROKEN")
                     EXCEPT !.pos[o.owner] = [p EXCEPT !.no = @ - q,
                                                       !.rNo = @ - q]]

\* The supply a mint or a burn changes; a mint may exceed the capacity.
ApplySupply(st, kind, q) ==
    CASE kind = "MINT" ->
            [Check(st, /\ st.supply.yes <= MaxQuantity - q
                       /\ st.supply.no <= MaxQuantity - q, "REFUSED")
                EXCEPT !.supply = [yes |-> @.yes + q, no |-> @.no + q]]
      [] kind = "BURN" ->
            [Check(st, st.supply.yes >= q /\ st.supply.no >= q, "BROKEN")
                EXCEPT !.supply = [yes |-> @.yes - q, no |-> @.no - q]]
      [] OTHER -> st

\* Mutant: what a better price freed is not paid back.
Mutant_AdjustReservation(st, i, q, notional, fee, prior) ==
    LET o         == st.orders[i]
        left      == o.rem - q
        principal == UserLimit(o) * left
    IN  IF o.action = "SELL"
        THEN IF o.outcome = "YES" THEN [st EXCEPT !.resv[i].yes = left]
                                  ELSE [st EXCEPT !.resv[i].no = left]
        ELSE [st EXCEPT !.resv[i].principal = principal,
                        !.resv[i].fee = FeeDelta(prior + notional, principal,
                                                 FeeBps)]

\* adjustReservationAfterFill: order i keeps what its rest needs; what a
\* better price or a smaller fee freed goes back to the wallet.
AdjustReservation(st, i, q, notional, fee, prior) ==
    LET o         == st.orders[i]
        left      == o.rem - q
        principal == UserLimit(o) * left
        maxFee    == FeeDelta(prior + notional, principal, FeeBps)
        held      == st.resv[i].principal + st.resv[i].fee
        release   == held - notional - fee - principal - maxFee
    IN  IF o.action = "SELL"
        THEN IF o.outcome = "YES" THEN [st EXCEPT !.resv[i].yes = left]
                                  ELSE [st EXCEPT !.resv[i].no = left]
        ELSE IF release < 0 THEN Fail(st, "BROKEN")
        ELSE [(IF release > 0 THEN MoveCash(st, o.owner, i, -release) ELSE st)
                EXCEPT !.resv[i] = [@ EXCEPT !.principal = principal,
                                             !.fee = maxFee]]

\* The order row and the reservation after a fill of q.
FilledOrder(o, q, notional, fee) ==
    [o EXCEPT !.rem = @ - q, !.filled = @ + q, !.fee = @ + fee,
              !.notional = @ + notional,
              !.status = IF o.rem = q THEN "FILLED" ELSE "PARTIALLY_FILLED"]

UpdateFilledOrder(st, i, q, notional, fee, prior) ==
    [AdjustReservation(st, i, q, notional, fee, prior)
        EXCEPT !.orders[i] = FilledOrder(@, q, notional, fee)]

\* Where the money of one side of a fill moves.
CashAccount(o, i) == IF o.action = "BUY" THEN Escrow(i) ELSE Wallet(o.owner)

CreditSeller(st, o, amount) ==
    IF o.action = "SELL" THEN MutateCash(st, o.owner, amount) ELSE st

\* One side of a fill: what it moves, what its chain executed before, the
\* fee that adds and what the party's account gains.
FillLeg(st, fill, i) ==
    LET o        == st.orders[i]
        notional == UserPrice(o.outcome, fill.price, PayoutMilli) * fill.qty
        prior    == ChainExecuted(st, i)
        fee      == FeeDelta(prior, notional, FeeBps)
    IN  [id |-> i, order |-> o, notional |-> notional, prior |-> prior,
         fee |-> fee, amt |-> PartyPosting(o, notional, fee)]

\* Fees, journal, positions, supply, both orders and reserves: m is the
\* maker's leg and t the taker's.
SettleFill(st, q, m, t, kind) ==
    LET s1 == Check(EnsureWallet(EnsureWallet(st, m.order.owner),
                                 t.order.owner),
                    \A leg \in {m, t} : leg.order.action = "SELL"
                                            => leg.fee <= leg.notional,
                    "BROKEN")
        s2 == CreateJournal(s1,
                    <<Posting(Collateral,
                              CollateralPosting(kind, PayoutMilli, q)),
                      Posting(CashAccount(m.order, m.id), m.amt),
                      Posting(CashAccount(t.order, t.id), t.amt),
                      Posting(Revenue, m.fee + t.fee)>>)
        s3 == CreditSeller(CreditSeller(s2, m.order, m.amt), t.order, t.amt)
        s4 == ApplyPositionLeg(ApplyPositionLeg(s3, m.order, q), t.order, q)
        s5 == ApplySupply(s4, kind, q)
        s6 == UpdateFilledOrder(s5, m.id, q, m.notional, m.fee, m.prior)
    IN  UpdateFilledOrder(s6, t.id, q, t.notional, t.fee, t.prior)

\* applyFill
ApplyFill(st, fill) ==
    SettleFill(st, fill.qty, FillLeg(st, fill, fill.maker),
               FillLeg(st, fill, fill.taker),
               FillKind(st.orders[fill.maker], st.orders[fill.taker]))

----------------------------------------------------------------------------
\* Commit st, which advances bookSequence, or record an internal error.
Commit(st, advance) ==
    /\ st.fault # "REFUSED"
    /\ IF st.fault = "BROKEN"
       THEN /\ broken' = TRUE
            /\ UNCHANGED <<db, inSequence>>
       ELSE /\ db' = [f \in DOMAIN db |-> st[f]]
            /\ inSequence' = (inSequence /\ st.offsets = [k \in 1 .. advance |-> k])
            /\ UNCHANGED broken

CommitCounted(st) == Commit(st, st.eventIndex)

\* Mutant: only the closing time is looked at.
Mutant_MarketTakesOrders(at) == CloseTime > at

\* requireParticipantAndMarket and acquireCommandSequence(requireOpen).
MarketTakesOrders(at) ==
    /\ market.status = "OPEN"
    /\ market.accepting
    /\ CloseTime > at

\* The makers a command at time at may meet: live, of active users, not
\* expired.  Priority is the order's position: sequences grow with it.
RestingRow(st, i) ==
    LET o == st.orders[i]
    IN  [id |-> i, owner |-> o.owner, stp |-> o.owner, side |-> o.side,
         price |-> o.price, qty |-> o.rem, seq |-> i]
MatchableBook(st, at) ==
    {RestingRow(st, i) : i \in {j \in LiveOrders(st) :
                                   /\ st.orders[j].owner \in active
                                   /\ st.orders[j].exp > at}}

NewOrder(u, req, chain, canonical) ==
    [owner |-> u, outcome |-> req.outcome, action |-> req.action,
     side |-> canonical.side, price |-> canonical.price,
     original |-> req.qty, rem |-> req.qty, filled |-> 0, canceled |-> 0,
     status |-> "OPEN", tif |-> req.tif, chain |-> chain, exp |-> req.exp,
     notional |-> 0, fee |-> 0]

\* One fill of the loop, or one order self-trade prevention cancels, and
\* its event.
FillStep(st, fill) == EmitNext(ApplyFill(st, fill))
PreventStep(st, i) == EmitNext(CancelRemainder(st, i))

\* Cancel some orders, the oldest first, with events from bookSequence +
\* first on.
CancelEach(st, ids, first) ==
    [MapThenFoldSet(LAMBDA i, acc : CancelRemainder(acc, i), st, LAMBDA i : i,
                    Max, ids)
        EXCEPT !.offsets = @ \o [k \in 1 .. Cardinality(ids) |-> k - 1 + first]]

\* What placing and replacing share: store and back the order, apply the
\* matcher's effects, cancel what self-trade prevention and time in force
\* cancel, report the order's state.
Execute(st, order, matched, stpMode) ==
    LET i  == Len(st.orders) + 1
        s1 == ReserveAssets([st EXCEPT !.orders = Append(@, order),
                                       !.resv = Append(@, NoReservation)], i)
        s2 == FoldLeft(FillStep, s1, matched.fills)
        s3 == FoldLeft(PreventStep, s2,
                       IF stpMode = "CANCEL_AGGRESSOR" THEN <<>>
                       ELSE matched.prevented)
    IN  EmitNext(IF matched.canceled > 0 THEN CancelRemainder(s3, i) ELSE s3)

Rejection == {"POST_ONLY_WOULD_TRADE", "FOK_NOT_FILLABLE"}

\* A rejected order leaves one event and nothing else.
Submit(before, order, matched, stpMode) ==
    IF matched.disposition \in Rejection
    THEN EmitNext(Begin)
    ELSE Execute(before, order, matched, stpMode)

IncomingOrder(u, req, canonical) ==
    [id |-> Len(db.orders) + 1, owner |-> u, stp |-> u,
     side |-> canonical.side, price |-> canonical.price, qty |-> req.qty,
     seq |-> Len(db.orders) + 1, tif |-> req.tif, postOnly |-> req.postOnly,
     stpMode |-> req.stpMode]

CanPlace(u, req, at) ==
    /\ Len(db.orders) < MaxOrders
    /\ u \in active
    /\ req.exp > at
    /\ MarketTakesOrders(at)
    /\ Cardinality({i \in LiveOrders(db) : db.orders[i].owner = u})
            < MaxActivePerUser

\* placeOrder
Place(u, req, at) ==
    LET canonical == NormalizeToYesBook(req.outcome, req.action, req.price)
        matched   == MatchOrder(MatchableBook(db, at),
                                IncomingOrder(u, req, canonical))
        order     == NewOrder(u, req, Len(db.orders) + 1, canonical)
    IN  /\ CanPlace(u, req, at)
        /\ CommitCounted(Submit(Begin, order, matched, req.stpMode))
        /\ UNCHANGED <<market, active, now>>

\* cancelOrder: any live order of an active user, in any market state.
Cancel(i) ==
    LET st == Emit(CancelRemainder(Begin, i), 1)
    IN  /\ i \in LiveOrders(db)
        /\ db.orders[i].owner \in active
        /\ Commit(st, 1)
        /\ UNCHANGED <<market, active, now>>

\* cancelAllOrders: every live order of one active user.
CancelAll(u) ==
    LET mine == {i \in LiveOrders(db) : db.orders[i].owner = u}
    IN  /\ u \in active
        /\ mine # {}
        /\ Commit(CancelEach(Begin, mine, 1), Cardinality(mine))
        /\ UNCHANGED <<market, active, now>>

\* A replacement keeps the outcome, the action and the chain.
CanReplace(i, req, at) ==
    /\ i \in LiveOrders(db)
    /\ Len(db.orders) < MaxOrders
    /\ db.orders[i].owner \in active
    /\ db.orders[i].tif = "GTC" /\ req.tif = "GTC"
    /\ db.orders[i].exp > at /\ req.exp > at
    /\ req.outcome = db.orders[i].outcome
    /\ req.action = db.orders[i].action
    /\ MarketTakesOrders(at)

\* replaceOrder: the old order is cancelled and the new one executed in one
\* transaction; a post-only replacement that would trade changes nothing.
Replace(i, req, at) ==
    LET old       == db.orders[i]
        canonical == NormalizeToYesBook(old.outcome, old.action, req.price)
        makers    == {m \in MatchableBook(db, at) : m.id # i}
        matched   == MatchOrder(makers,
                                IncomingOrder(old.owner, req, canonical))
        order     == NewOrder(old.owner, req, old.chain, canonical)
        canceled  == EmitNext(CancelRemainder(Begin, i))
    IN  /\ CanReplace(i, req, at)
        /\ CommitCounted(Submit(canceled, order, matched, req.stpMode))
        /\ UNCHANGED <<market, active, now>>

\* expireOrders, one order: the worker's command at time at.
Expire(i, at) ==
    LET st == Emit(CancelRemainder(Begin, i), 1)
    IN  /\ i \in LiveOrders(db)
        /\ db.orders[i].exp <= at
        /\ Commit(st, 1)
        /\ UNCHANGED <<market, active, now>>

\* redeemCompleteSet: unreserved pairs of contracts for their payout.
Redeem(u, q) ==
    LET p   == db.pos[u]
        pay == PayoutMilli * q
        st  == Check([EnsureWallet(Begin, u)
                        EXCEPT !.supply = [yes |-> @.yes - q, no |-> @.no - q],
                               !.pos[u] = [p EXCEPT !.yes = @ - q,
                                                    !.no = @ - q],
                               !.balance[u] = @ + pay,
                               !.acct[Wallet(u)] = @ + pay,
                               !.acct[Collateral] = @ - pay],
                     /\ db.supply.yes >= q /\ db.supply.no >= q
                     /\ db.acct[Collateral] - pay >=
                            PayoutMilli * (IF db.supply.yes >= db.supply.no
                                           THEN db.supply.yes - q
                                           ELSE db.supply.no - q),
                     "BROKEN")
    IN  /\ u \in active
        /\ market.status \in {"OPEN", "CLOSED"}
        /\ \A outcome \in Outcomes : Available(p, outcome) >= q
        /\ Commit(st, 0)
        /\ UNCHANGED <<market, active, now>>

----------------------------------------------------------------------------
\* drainMarketOrderBook: a barrier event, then every live order in priority
\* order; the transition fails unless nothing live or reserved is left.
Reserves(st) ==
    \/ \E i \in DOMAIN st.resv : st.resv[i] # NoReservation
    \/ \E u \in Users : st.pos[u].rYes > 0 \/ st.pos[u].rNo > 0

RequireDrained(st) ==
    Check(st, LiveOrders(st) = {} /\ ~Reserves(st), "BROKEN")

\* Mutant: the first cancellation is numbered like the barrier.
Mutant_Drain(st) ==
    RequireDrained(CancelEach(Emit(st, 1), LiveOrders(st), 1))

Drain(st) ==
    RequireDrained(CancelEach(Emit(st, 1), LiveOrders(st), 2))

\* A lifecycle transition that stops matching drains in its transaction.
Stop(from, to) ==
    LET st == Drain(Begin)
    IN  /\ market.status \in from
        /\ Commit(st, Cardinality(LiveOrders(db)) + 1)
        /\ market' = IF broken' THEN market
                     ELSE [status |-> to, accepting |-> FALSE]
        /\ UNCHANGED <<active, now>>

\* transitionAdminMarket: PAUSE, CLOSE, RESUME
Pause == Stop({"OPEN"}, "PAUSED")
Close == Stop({"OPEN", "PAUSED"}, "CLOSED")
Resume(at) ==
    /\ market.status = "PAUSED"
    /\ CloseTime > at
    /\ market' = [status |-> "OPEN", accepting |-> TRUE]
    /\ UNCHANGED <<db, active, now, inSequence, broken>>

\* closeExpiredMarkets (the worker, OPEN markets only) and the automatic
\* close of createResolutionProposal (OPEN and PAUSED).
AutoClose(at) ==
    /\ CloseTime <= at
    /\ Stop({"OPEN", "PAUSED"}, "CLOSED")

\* approveResolutionProposal: the market stops for good.
Resolve(at) ==
    /\ CloseTime <= at
    /\ Stop({"CLOSED"}, "RESOLVING")

\* An operator suspends a user, or lifts it; nothing else changes.
Suspend(u) ==
    /\ active' = active \ {u}
    /\ UNCHANGED <<db, market, now, inSequence, broken>>
Restore(u) ==
    /\ active' = active \union {u}
    /\ UNCHANGED <<db, market, now, inSequence, broken>>

Tick ==
    /\ now < MaxTime
    /\ now' = now + 1
    /\ UNCHANGED <<db, market, active, inSequence, broken>>

Commands(at) ==
    \/ \E u \in Users, req \in Requests : Place(u, req, at)
    \/ \E i \in DOMAIN db.orders, req \in Requests : Replace(i, req, at)
    \/ \E i \in DOMAIN db.orders : Cancel(i) \/ Expire(i, at)
    \/ \E u \in Users : CancelAll(u)
    \/ \E u \in Users, q \in Redemptions : Redeem(u, q)

Lifecycle(at) == Pause \/ Close \/ Resume(at) \/ AutoClose(at) \/ Resolve(at)

Next ==
    \/ \E at \in 0 .. now : Commands(at) \/ Lifecycle(at)
    \/ \E u \in Suspendable : Suspend(u) \/ Restore(u)
    \/ Tick

Spec == Init /\ [][Next]_vars

----------------------------------------------------------------------------

\* No legal sequence of commands reaches one of the "requires
\* reconciliation", "did not cover a fill" or "under-reserved" errors the
\* code throws when its own rows disagree.
NoInternalError == ~broken

\* The cached wallet is the ledger's, and an order's escrow account holds
\* what its reservation says (ORDER_BOOK_ARCHITECTURE invariants 1 to 3).
Custody(st) ==
    /\ \A u \in Users : st.acct[Wallet(u)] = st.balance[u]
    /\ \A i \in DOMAIN st.orders :
          st.acct[Escrow(i)] = st.resv[i].principal + st.resv[i].fee

CustodyMatches == Custody(db)

\* A live BUY holds its limit times its remaining quantity and the fee that
\* would still cost, a live SELL its remaining contracts, a terminal order
\* nothing, however it was filled, replaced or cancelled.
Backing(st, i) ==
    LET o == st.orders[i]
        p == ReservedPrincipal(UserLimit(o), o.rem)
    IN  IF ~IsLive(o) THEN NoReservation
        ELSE IF o.action = "BUY"
        THEN [NoReservation EXCEPT
                !.principal = p,
                !.fee = FeeDelta(ChainExecuted(st, i), p, FeeBps)]
        ELSE IF o.outcome = "YES" THEN [NoReservation EXCEPT !.yes = o.rem]
        ELSE [NoReservation EXCEPT !.no = o.rem]

Backed(st) == \A i \in DOMAIN st.orders : st.resv[i] = Backing(st, i)

OrdersBacked == Backed(db)

\* The contracts a position has reserved are those its live SELL orders hold,
\* and it owns them: nothing is offered for sale twice, or redeemed while it
\* is for sale.
OwnOrders(st, u) == {i \in DOMAIN st.orders : st.orders[i].owner = u}

SharesReserved(st, u) ==
    LET p == st.pos[u]
    IN  /\ p.rYes = SumFunction([i \in OwnOrders(st, u) |-> st.resv[i].yes])
        /\ p.rNo = SumFunction([i \in OwnOrders(st, u) |-> st.resv[i].no])
        /\ p.rYes <= p.yes
        /\ p.rNo <= p.no

\* Every contract outstanding is half of a complete set the collateral
\* account can pay, so fees never come out of it (invariants 8, 9 and 11).
SupplyCollateralized(st) ==
    /\ st.supply.yes = SumFunction([u \in Users |-> st.pos[u].yes])
    /\ st.supply.no = SumFunction([u \in Users |-> st.pos[u].no])
    /\ st.supply.yes = st.supply.no
    /\ st.acct[Collateral] = PayoutMilli * st.supply.yes

\* No contract is for sale twice, and each is one half of a set that is paid
\* for, however orders, fills, cancellations and redemptions alternate.
ContractsBacked ==
    (\A u \in Users : SharesReserved(db, u)) /\ SupplyCollateralized(db)

\* Whatever an order executed, in the terms its owner named: a buyer paid at
\* most the limit for each contract, a seller received at least it.
Protected(o) ==
    IF o.action = "BUY" THEN o.notional <= UserLimit(o) * o.filled
                        ELSE o.notional >= UserLimit(o) * o.filled

PriceProtected == \A i \in DOMAIN db.orders : Protected(db.orders[i])

\* A user's money and contracts are explained by what the user's orders
\* executed: each set redeemed turned one YES and one NO into the payout,
\* and nothing else moved.
Bought(o, outcome) ==    \* what an order added to the owner's contracts
    IF o.outcome # outcome THEN 0
    ELSE IF o.action = "BUY" THEN o.filled ELSE -o.filled

Explained(st, u) ==
    LET Net(outcome) ==
            SumFunction([i \in OwnOrders(st, u) |->
                            Bought(st.orders[i], outcome)])
        redeemed == InitialYes[u] + Net("YES") - st.pos[u].yes
        cash == SumFunction([i \in OwnOrders(st, u) |->
                    PartyPosting(st.orders[i], st.orders[i].notional,
                                 st.orders[i].fee)])
        held == SumFunction([i \in OwnOrders(st, u) |-> st.acct[Escrow(i)]])
    IN  /\ redeemed >= 0
        /\ redeemed = InitialNo[u] + Net("NO") - st.pos[u].no
        /\ st.balance[u] + held = InitialCash + cash + PayoutMilli * redeemed

WealthExplained == \A u \in Users : Explained(db, u)

\* The events of every command are numbered from bookSequence + 1 on without
\* gap or duplicate, though each command counts them in its own way.
EventsInSequence == inSequence

\* Nothing rests, and nothing is reserved, in a market that does not match,
\* even when a command that began before the transition commits after it.
LifecycleDrained ==
    market.status # "OPEN" => LiveOrders(db) = {} /\ ~Reserves(db)
=============================================================================
