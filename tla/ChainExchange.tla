---------------------------- MODULE ChainExchange ----------------------------
(* One market of the on-chain program: its escrow (escrow.rs), the placement   *)
(* of orders on the book (exchange.rs), their cancellation and clean-up         *)
(* (cancellation.rs), the terms two reviewers accept (market_terms.rs) and its  *)
(* resolution, claims and finalization (resolution.rs).  An instruction runs    *)
(* alone and either commits every account it writes or none, so each is one     *)
(* action and a fault is the action not being enabled.                          *)
(*                                                                              *)
(* `setup` is chosen at the start and never changes: the parameters of the      *)
(* market, what its traders may send, and the bounds of the instance.  A setup  *)
(* that is `ready` starts after the terms were sealed, the resolution account   *)
(* was initialized, the seats were funded and the orders of its `opening` were  *)
(* executed; one that is not starts at the finished, empty book.                *)
EXTENDS ChainBookReference

CONSTANTS Setups, Proposer, Approver, NoOutcome

VARIABLES
  setup,        \* the instance explored
  now,          \* the chain's clock
  market,       \* [accounted, collateral, revenue] of the market account
  vault,        \* tokens in the market's token account
  tokens,       \* tokens in each wallet
  seats,        \* the seats, in the order they were registered
  book,         \* the order book account
  terms,        \* [created, accepted, sealed] of the market-terms account
  resolution,   \* [phase, active, outcome, yes, no] of the resolution account
  proposals,    \* the proposal accounts, by sequence number
  signed,       \* approvals the approver has signed, which may arrive at any time
  receipts      \* the claim receipts: seat |-> what it was paid

vars == <<setup, now, market, vault, tokens, seats, book, terms, resolution,
          proposals, signed, receipts>>

\* The orders a market with this payout takes.
Arrivals(payout) ==
  [owner : Nat, outcome : {"YES", "NO"}, action : {"BUY", "SELL"}, price : 1..payout - 1,
   quantity : Nat \ {0}, tif : {"GTC", "IOC", "FOK"},
   selfTrade : {"CancelAggressor", "CancelResting", "CancelBoth"}, postOnly : BOOLEAN,
   expires : Nat]

\* A setup is a market that can be created, with traders that exist: one that is
\* ready has a seat for every wallet, and only seats of it sent the opening orders.
ValidSetup(s) ==
  /\ s.capacity \in Nat /\ s.payout \in Nat /\ s.payout >= 2 /\ s.feeBps \in 0..FeeBasis
  /\ s.touches \in Nat /\ s.amounts \subseteq Nat /\ s.outcomes \subseteq {"YES", "NO", "VOID"}
  /\ IsFiniteSet(DOMAIN s.tokens) /\ s.tokens \in [DOMAIN s.tokens -> Nat]
  /\ s.wallets \in Seq(DOMAIN s.tokens) /\ IsInjective(s.wallets)
  /\ s.ready => Range(s.wallets) = DOMAIN s.tokens
  /\ s.orders \subseteq Arrivals(s.payout) /\ s.opening \in Seq(Arrivals(s.payout))
  /\ \A i \in DOMAIN s.opening : s.ready /\ s.opening[i].owner \in DOMAIN s.wallets

ASSUME SetupsAssumption == \A s \in Setups : ValidSetup(s)

Reviewers == {Proposer, Approver}
DepositAmounts == setup.amounts

NewSeat(w) == [wallet |-> w, available |-> 0, reserved |-> Zero, yes |-> 0, no |-> 0,
               nonce |-> 0, traded |-> FALSE]

------------------------------------------------------------------------------
\* The ledger of a seat.

Lock(seat, r) == [seat EXCEPT !.available = @ - r.cash,
                              !.reserved = [k \in DOMAIN r |-> @[k] + r[k]]]
Unlock(seat, r) == [seat EXCEPT !.available = @ + r.cash,
                                !.reserved = [k \in DOMAIN r |-> @[k] - r[k]]]

\* A command of its owner uses up a nonce.
Spent(seat, n) == [seat EXCEPT !.nonce = @ + n]

\* No amount is negative (the fields are u64, the arithmetic checked) and no more
\* shares are encumbered than are held.
Sound(seat) ==
  /\ seat.available >= 0 /\ \A k \in DOMAIN seat.reserved : seat.reserved[k] >= 0
  /\ seat.yes >= seat.reserved.yes /\ seat.no >= seat.reserved.no

\* One side of a fill: the order's reserve is released, cash and shares change
\* hands, and what remains of the order is reserved again.
Settle(seat, order, fill, fee) ==
  LET amount == Principal(order.outcome, fill.price, fill.quantity, book.payout)
      change == IF order.action = "BUY" THEN fill.quantity ELSE -fill.quantity
      free == Unlock(seat, Reserve(order, book.feeBps))
      moved == [free EXCEPT
                  !.available = @ + (IF order.action = "BUY" THEN -amount - fee ELSE amount - fee),
                  !.yes = @ + (IF order.outcome = "YES" THEN change ELSE 0),
                  !.no = @ + (IF order.outcome = "NO" THEN change ELSE 0),
                  !.traded = TRUE]
      after == Filled(order, fill.price, fill.quantity, book.payout)
      locked == Lock(moved, Reserve(after, book.feeBps))
  IN [seat |-> locked, sound |-> Sound(free) /\ Sound(moved) /\ Sound(locked)]

\* Mutant: a burned pair leaves its collateral where it was.
Mutant_Collateral(maker, taker, quantity) ==
  IF maker.action = "BUY" /\ taker.action = "BUY" THEN quantity * book.payout ELSE 0

\* Two buyers mint pairs, two sellers burn them; otherwise shares change hands.
Collateral(maker, taker, quantity) ==
  IF maker.action # taker.action THEN 0
  ELSE quantity * (IF maker.action = "BUY" THEN book.payout ELSE -book.payout)

Fee(order, fill) ==
  FeeDelta(order.notional,
           Principal(order.outcome, fill.price, fill.quantity, book.payout), book.feeBps)

\* One effect of a plan on the staged accounts: a reserve is released, or both
\* sides of a fill settle and the market's totals follow.
Staged(acc, owner, settled) ==
  [acc EXCEPT !.seats[owner] = settled.seat, !.sound = acc.sound /\ settled.sound]

StageSide(acc, order, fill) ==
  Staged(acc, order.owner, Settle(acc.seats[order.owner], order, fill, Fee(order, fill)))

StageRemoval(acc, owner, seat) == Staged(acc, owner, [seat |-> seat, sound |-> Sound(seat)])

Totaled(m, collateral, fees) == [m EXCEPT !.collateral = @ + collateral, !.revenue = @ + fees]

Stage(acc, e) ==
  IF e.kind = "Removed"
  THEN StageRemoval(acc, e.order.owner,
                    Unlock(acc.seats[e.order.owner], Reserve(e.order, book.feeBps)))
  ELSE [StageSide(StageSide(acc, e.maker, e), e.taker, e) EXCEPT
          !.reserve = Reserve(Filled(e.taker, e.price, e.quantity, book.payout), book.feeBps),
          !.market = Totaled(@, Collateral(e.maker, e.taker, e.quantity),
                             Fee(e.maker, e) + Fee(e.taker, e))]

\* The effects of a plan, in its order.
StageAll(acc, effects) ==
  MapThenFoldSet(LAMBDA i, staged : Stage(staged, effects[i]), acc, LAMBDA i : i, Max,
                 DOMAIN effects)

Cash(sts) == SumFunction([i \in DOMAIN sts |-> sts[i].available + sts[i].reserved.cash])
Shares(sts, k) == SumFunction([i \in DOMAIN sts |-> IF k = "yes" THEN sts[i].yes ELSE sts[i].no])

\* Every token the market accounts for is a seat's, collateral or revenue, and
\* collateral pays for every pair of shares.
Balanced(m, sts) ==
  /\ Cash(sts) + m.collateral + m.revenue = m.accounted
  /\ Shares(sts, "yes") = Shares(sts, "no")
  /\ m.collateral = book.payout * Shares(sts, "yes")

\* The end of an execution: what the taker has left reserved is replaced by the
\* reserve of what rests, the nonce is spent, and the totals are checked.
Checked(plan, staged, owner, free, taker) ==
  LET after == [staged.seats EXCEPT ![owner] = Spent(taker, 1)]
  IN [fault |-> IF ~(staged.sound /\ Sound(free) /\ Sound(taker)) THEN "InvalidReserves"
                ELSE IF ~Balanced(staged.market, after) THEN "Accounting"
                ELSE "None",
      seats |-> after, market |-> staged.market, book |-> plan.book]

Finish(plan, staged, owner) ==
  LET finish(free) == Checked(plan, staged, owner, free, Lock(free, plan.final))
  IN finish(Unlock(staged.seats[owner], staged.reserve))

\* What an order does to the accounts, from the plan to the last check before
\* they are written, or the fault it fails with.
Execution(in) ==
  LET stage(plan, locked) ==
        StageAll([seats |-> [seats EXCEPT ![in.owner] = locked], market |-> market,
                  reserve |-> plan.required, sound |-> TRUE], plan.effects)
      run(plan, locked) ==
        IF plan.fault # "None" THEN [fault |-> plan.fault]
        ELSE IF ~Sound(locked) THEN [fault |-> "Insufficient"]
        ELSE Finish(plan, stage(plan, locked), in.owner)
      planned(plan) == run(plan, Lock(seats[in.owner], plan.required))
  IN planned(Plan(book, in, now, setup.touches))

------------------------------------------------------------------------------
\* Escrow.

VaultFunded == vault >= market.accounted
Commands == SumFunction([i \in DOMAIN seats |-> seats[i].nonce])
CommandLeft == Commands < setup.maxCommands

RegisterSeat(w) ==
  /\ \A i \in DOMAIN seats : seats[i].wallet # w
  /\ seats' = Append(seats, NewSeat(w))
  /\ UNCHANGED <<setup, now, market, vault, tokens, book, terms, resolution, proposals,
                 signed, receipts>>

\* Mutant: a withdrawal leaves what the market accounts for as it was.
Mutant_MoveCash(i, amount) ==
  /\ VaultFunded /\ CommandLeft
  /\ tokens[seats[i].wallet] >= amount /\ seats[i].available + amount >= 0
  /\ tokens' = [tokens EXCEPT ![seats[i].wallet] = @ - amount]
  /\ vault' = vault + amount
  /\ market' = IF amount > 0 THEN [market EXCEPT !.accounted = @ + amount] ELSE market
  /\ seats' = [seats EXCEPT ![i].available = @ + amount, ![i].nonce = @ + 1]
  /\ UNCHANGED <<setup, now, book, terms, resolution, proposals, signed, receipts>>

\* `amount` moves between the wallet and the vault; a withdrawal is a negative one.
MoveCash(i, amount) ==
  /\ VaultFunded /\ CommandLeft
  /\ tokens[seats[i].wallet] >= amount /\ seats[i].available + amount >= 0
  /\ tokens' = [tokens EXCEPT ![seats[i].wallet] = @ - amount]
  /\ vault' = vault + amount
  /\ market' = [market EXCEPT !.accounted = @ + amount]
  /\ seats' = [seats EXCEPT ![i].available = @ + amount, ![i].nonce = @ + 1]
  /\ UNCHANGED <<setup, now, book, terms, resolution, proposals, signed, receipts>>

Deposit(i) == \E amount \in DepositAmounts : MoveCash(i, amount)
Withdraw(i) == \E amount \in DepositAmounts : MoveCash(i, -amount)

\* Anybody may send tokens to the vault; the market does not account for them.
Donate(w) ==
  /\ vault = market.accounted /\ tokens[w] > 0 /\ setup.donations
  /\ tokens' = [tokens EXCEPT ![w] = @ - 1]
  /\ vault' = vault + 1
  /\ UNCHANGED <<setup, now, market, seats, book, terms, resolution, proposals, signed,
                 receipts>>

------------------------------------------------------------------------------
\* Orders.

Open == resolution.phase = "Open" /\ now < setup.closesAt
Admitted(w) == Open /\ terms.sealed /\ w \notin Reviewers

Place(in) ==
  /\ Admitted(seats[in.owner].wallet) /\ VaultFunded
  /\ book.next <= setup.maxOrders /\ CommandLeft
  /\ \E done \in {Execution(in)} :
       /\ done.fault = "None"
       /\ seats' = done.seats /\ market' = done.market /\ book' = done.book
  /\ UNCHANGED <<setup, now, vault, tokens, terms, resolution, proposals, signed, receipts>>

\* An order leaves the book by its position in a heap, and its reserve is freed.
\* The owner spends a nonce; a keeper may do it once the order or the market ended.
Removable(side, index) ==
  LET o == OrderAt(book, side, index)
  IN Sound(Unlock(seats[o.owner], Reserve(o, book.feeBps)))

Release(side, index, spent) ==
  LET o == OrderAt(book, side, index)
  IN /\ Removable(side, index)
     /\ seats' = [seats EXCEPT ![o.owner] =
                    Spent(Unlock(seats[o.owner], Reserve(o, book.feeBps)), spent)]
     /\ book' = RemoveOrder(book, side, index)
     /\ UNCHANGED <<setup, now, market, vault, tokens, terms, resolution, proposals, signed,
                    receipts>>

CancelOrder(side, index) == CommandLeft /\ Release(side, index, 1)

CleanupOrder(side, index) ==
  /\ now >= setup.closesAt \/ Expired(OrderAt(book, side, index), now)
  /\ Release(side, index, 0)

------------------------------------------------------------------------------
\* The terms of the market, and the resolution account that trading needs.

NeverTraded(w) == \A i \in DOMAIN seats : seats[i].wallet = w => ~seats[i].traded

\* No order was ever sequenced; deposits do not count.
Pristine ==
  /\ book.next = 1 /\ market.collateral = 0 /\ market.revenue = 0
  /\ \A i \in DOMAIN seats : seats[i] = [NewSeat(seats[i].wallet) EXCEPT
                               !.available = seats[i].available, !.nonce = seats[i].nonce]
  /\ SumFunction([i \in DOMAIN seats |-> seats[i].available]) = market.accounted

TermsUnchanged == UNCHANGED <<setup, now, market, vault, tokens, seats, book, proposals,
                              signed, receipts>>

InitializeTerms ==
  /\ ~terms.created /\ now < setup.closesAt /\ Pristine
  /\ \A r \in Reviewers : NeverTraded(r)
  /\ terms' = [terms EXCEPT !.created = TRUE]
  /\ UNCHANGED resolution /\ TermsUnchanged

AcceptTerms(r) ==
  /\ terms.created /\ ~terms.sealed /\ r \notin terms.accepted /\ NeverTraded(r)
  /\ terms' = [terms EXCEPT !.accepted = @ \cup {r}]
  /\ UNCHANGED resolution /\ TermsUnchanged

SealTerms ==
  /\ terms.created /\ ~terms.sealed /\ terms.accepted = Reviewers
  /\ now < setup.closesAt /\ Pristine
  /\ terms' = [terms EXCEPT !.sealed = TRUE]
  /\ UNCHANGED resolution /\ TermsUnchanged

\* The reserves of every seat are those of its orders in the book, exactly.
OrdersOf(i) == {s \in Resting(book) : book.slots[s].owner = i}
CanonicalSnapshot ==
  \A i \in DOMAIN seats :
    /\ seats[i].reserved =
         [k \in DOMAIN Zero |-> SumFunction([s \in OrdersOf(i) |-> Reserve(book.slots[s], book.feeBps)[k]])]
    /\ seats[i].reserved.yes <= seats[i].yes /\ seats[i].reserved.no <= seats[i].no

Drained == Resting(book) = {} /\ \A i \in DOMAIN seats : seats[i].reserved = Zero
Untraded ==
  /\ Drained /\ market.collateral = 0 /\ market.revenue = 0
  /\ \A i \in DOMAIN seats : seats[i].yes = 0 /\ seats[i].no = 0 /\ ~seats[i].traded

InitializeResolution ==
  /\ resolution.phase = "Absent" /\ now < setup.closesAt /\ terms.sealed
  /\ CanonicalSnapshot /\ Untraded
  /\ resolution' = [resolution EXCEPT !.phase = "Open"]
  /\ UNCHANGED terms /\ TermsUnchanged

------------------------------------------------------------------------------
\* Resolution.

Funded == VaultFunded /\ Cash(seats) + market.collateral + market.revenue = market.accounted
ResolutionTime == now >= setup.closesAt /\ now >= setup.resolvesAt

\* What each of the permissionless steps checks of the accounts.
Closable == CanonicalSnapshot /\ Drained /\ Balanced(market, seats) /\ Funded

CloseResolution ==
  /\ resolution.phase = "Open" /\ now >= setup.closesAt /\ Closable
  /\ resolution' = [resolution EXCEPT !.phase = "Closed", !.yes = Shares(seats, "yes"),
                                      !.no = Shares(seats, "no")]
  /\ UNCHANGED <<setup, now, market, vault, tokens, seats, book, terms, proposals, signed,
                 receipts>>

ProposalsUnchanged == UNCHANGED <<setup, now, market, vault, tokens, seats, book, terms, receipts>>

Propose(outcome) ==
  /\ resolution.phase = "Closed" /\ ResolutionTime /\ NeverTraded(Proposer)
  /\ Len(proposals) < setup.maxProposals
  /\ proposals' = Append(proposals, [outcome |-> outcome, status |-> "Pending"])
  /\ resolution' = [resolution EXCEPT !.phase = "ProposalPending", !.active = Len(proposals) + 1]
  /\ UNCHANGED signed /\ ProposalsUnchanged

Fingerprint(s) == [sequence |-> s, outcome |-> proposals[s].outcome]

\* Outside the program: the approver signs the proposal that is pending.
SignApproval ==
  /\ resolution.phase = "ProposalPending"
  /\ signed' = signed \cup {Fingerprint(resolution.active)}
  /\ UNCHANGED <<resolution, proposals>> /\ ProposalsUnchanged

\* Mutant: the approval is compared with its own proposal, not with the active one.
Mutant_Pending(f) ==
  /\ resolution.phase = "ProposalPending" /\ ResolutionTime
  /\ f.sequence \in DOMAIN proposals /\ Fingerprint(f.sequence) = f

\* The proposal an approval or a rejection names is the one under review.
Pending(f) ==
  /\ resolution.phase = "ProposalPending" /\ ResolutionTime
  /\ f.sequence = resolution.active /\ proposals[f.sequence].status = "Pending"
  /\ Fingerprint(f.sequence) = f

Approve(f) ==
  /\ f \in signed /\ Pending(f) /\ NeverTraded(Approver)
  /\ proposals' = [proposals EXCEPT ![f.sequence].status = "Approved"]
  /\ resolution' = [resolution EXCEPT !.phase = "Resolved", !.active = 0,
                                      !.outcome = proposals[f.sequence].outcome]
  /\ UNCHANGED signed /\ ProposalsUnchanged

Reject(f) ==
  /\ Pending(f) /\ NeverTraded(Approver)
  /\ proposals' = [proposals EXCEPT ![f.sequence].status = "Rejected"]
  /\ resolution' = [resolution EXCEPT !.phase = "Closed", !.active = 0]
  /\ UNCHANGED signed /\ ProposalsUnchanged

\* Mutant: a void share pays half, rounded up.
Mutant_Payout(seat) ==
  CASE resolution.outcome = "YES" -> book.payout * seat.yes
    [] resolution.outcome = "NO" -> book.payout * seat.no
    [] OTHER -> (book.payout * (seat.yes + seat.no) + 1) \div 2

Payout(seat) ==
  CASE resolution.outcome = "YES" -> book.payout * seat.yes
    [] resolution.outcome = "NO" -> book.payout * seat.no
    [] OTHER -> (book.payout * (seat.yes + seat.no)) \div 2

Claimable(i) ==
  /\ CanonicalSnapshot /\ Drained /\ Funded
  /\ Shares(seats, "yes") = resolution.yes /\ Shares(seats, "no") = resolution.no
  /\ market.collateral >= Payout(seats[i])

\* Anybody executes the claim of a seat; its receipt is created with it.
ClaimResolution(i) ==
  LET paid == Payout(seats[i])
  IN /\ resolution.phase = "Resolved" /\ i \notin DOMAIN receipts /\ Claimable(i)
     /\ seats' = [seats EXCEPT ![i].available = @ + paid, ![i].yes = 0, ![i].no = 0]
     /\ market' = [market EXCEPT !.collateral = @ - paid]
     /\ resolution' = [resolution EXCEPT !.yes = @ - seats[i].yes, !.no = @ - seats[i].no]
     /\ receipts' = [j \in DOMAIN receipts \cup {i} |-> IF j = i THEN paid ELSE receipts[j]]
     /\ UNCHANGED <<setup, now, vault, tokens, book, terms, proposals, signed>>

Finalizable ==
  /\ CanonicalSnapshot /\ Drained /\ Funded
  /\ resolution.yes = 0 /\ resolution.no = 0 /\ Shares(seats, "yes") = 0 /\ Shares(seats, "no") = 0
  /\ resolution.outcome # "VOID" => market.collateral = 0

\* What rounding left of the collateral becomes revenue.
FinalizeResolution ==
  /\ resolution.phase = "Resolved" /\ Finalizable
  /\ market' = [market EXCEPT !.collateral = 0, !.revenue = @ + market.collateral]
  /\ resolution' = [resolution EXCEPT !.phase = "Finalized"]
  /\ UNCHANGED <<setup, now, vault, tokens, seats, book, terms, proposals, signed, receipts>>

------------------------------------------------------------------------------
Tick ==
  /\ now < setup.horizon
  /\ now' = now + 1
  /\ UNCHANGED <<setup, market, vault, tokens, seats, book, terms, resolution, proposals,
                 signed, receipts>>

\* The accounts as the market is created, before anybody opened a seat.
Created(s) ==
  /\ now = 0 /\ vault = 0 /\ market = [accounted |-> 0, collateral |-> 0, revenue |-> 0]
  /\ tokens = s.tokens /\ seats = <<>>
  /\ book = EmptyBook(s.capacity, s.payout, s.feeBps)
  /\ terms = [created |-> FALSE, accepted |-> {}, sealed |-> FALSE]
  /\ resolution = [phase |-> "Absent", active |-> 0, outcome |-> NoOutcome, yes |-> 0, no |-> 0]

\* The accounts once every wallet deposited all it had and trading is open.
Ready(s) ==
  LET funds == SumFunction(s.tokens)
  IN /\ now = 0 /\ vault = funds
     /\ market = [accounted |-> funds, collateral |-> 0, revenue |-> 0]
     /\ tokens = [w \in DOMAIN s.tokens |-> 0]
     /\ seats = [i \in DOMAIN s.wallets |->
                   [NewSeat(s.wallets[i]) EXCEPT !.available = s.tokens[s.wallets[i]], !.nonce = 1]]
     /\ book = EmptyBook(s.capacity, s.payout, s.feeBps)
     /\ terms = [created |-> TRUE, accepted |-> Reviewers, sealed |-> TRUE]
     /\ resolution = [phase |-> "Open", active |-> 0, outcome |-> NoOutcome, yes |-> 0, no |-> 0]

Init ==
  /\ setup \in Setups
  /\ IF setup.ready THEN Ready(setup) ELSE Created(setup)
  /\ proposals = <<>> /\ signed = {} /\ receipts = <<>>

Sides == {"Bid", "Ask"}

\* What may be sent: the opening orders in their order, then any of the setup's.
Incoming ==
  IF book.next <= Len(setup.opening) THEN {setup.opening[book.next]}
  ELSE {in \in setup.orders : in.owner \in DOMAIN seats}
Opened == book.next > Len(setup.opening)

Next ==
  \/ \E in \in Incoming : Place(in)
  \/ /\ Opened
     /\ \/ \E w \in DOMAIN tokens : RegisterSeat(w) \/ Donate(w)
        \/ \E i \in DOMAIN seats : Deposit(i) \/ Withdraw(i) \/ ClaimResolution(i)
        \/ \E side \in Sides : \E index \in DOMAIN book.heap[side] :
             CancelOrder(side, index) \/ CleanupOrder(side, index)
        \/ InitializeTerms \/ (\E r \in Reviewers : AcceptTerms(r))
        \/ SealTerms \/ InitializeResolution
        \/ CloseResolution \/ (\E outcome \in setup.outcomes : Propose(outcome))
        \/ SignApproval \/ (\E f \in signed : Approve(f))
        \/ (\E s \in DOMAIN proposals : Reject(Fingerprint(s)))
        \/ FinalizeResolution \/ Tick

Spec == Init /\ [][Next]_vars

------------------------------------------------------------------------------
\* Properties.

\* Whatever was inserted, popped by a match or taken from the middle of a heap by
\* a cancellation: the first entry of a heap is its best order, and no slot is
\* lost, shared, or in a heap of the wrong side (matching.rs pop and insert,
\* cancellation.rs plan_removal).
BookWellFormed == WellFormed(book)

\* The program executes every order as the reference model of its file does, from
\* every book it can reach: the same fault, or the same fills and removals in the
\* same order and the same orders left resting (matching.rs, `runtime` against
\* `Book`).
MatchesReference ==
  Open => \A in \in setup.orders :
    SameAsReference(book, Plan(book, in, now, setup.touches), in, now, setup.touches)

\* No two resting orders could trade with each other, expired ones included: a
\* placement rests only what is left once the best opposing order does not cross
\* (matching.rs plan).
NeverCrossed ==
  \A i \in DOMAIN book.heap.Bid, j \in DOMAIN book.heap.Ask :
    CanonicalPrice(OrderAt(book, "Bid", i), book.payout)
      < CanonicalPrice(OrderAt(book, "Ask", j), book.payout)

\* Every token is in a wallet or in the vault; what the market accounts for is in
\* the vault and is a seat's, collateral or revenue; and the collateral is what
\* the shares are worth: a payout for each pair until the market is resolved, at
\* least what is still to be claimed afterwards, and exactly that unless it is
\* void (exchange.rs Totals::verify, resolution.rs verify_vault).
Collateralized ==
  /\ SumFunction(tokens) + vault = SumFunction(setup.tokens)
  /\ vault >= market.accounted
  /\ Cash(seats) + market.collateral + market.revenue = market.accounted
  /\ LET owed == SumFunction([i \in DOMAIN seats |-> Payout(seats[i])])
     IN IF resolution.phase \in {"Resolved", "Finalized"}
        THEN /\ market.collateral >= owed
             /\ resolution.outcome # "VOID" => market.collateral = owed
        ELSE Balanced(market, seats)

\* An order that the book accepts and its owner can pay for is executed: the
\* reserves of the makers and of the taker cover every fill and removal of its
\* plan, and the staged accounts balance (exchange.rs execute, InvalidReserves
\* and Accounting).
ExecutionNeverFaults ==
  Open => \A in \in setup.orders : in.owner \in DOMAIN seats =>
            Execution(in).fault \notin {"InvalidReserves", "Accounting"}

\* A market never gets stuck with its custody locked: past the closing time any
\* order can be cleaned up, a market without orders closes, a resolved one pays
\* every seat in whatever order they claim, and the last claim lets it finalize.
\* Each of those steps rejects accounts that are not exactly what they should be
\* (resolution.rs canonical_snapshot, close, claim, finalize).
KeepersNeverBlocked ==
  /\ now >= setup.closesAt => \A side \in Sides : \A index \in DOMAIN book.heap[side] :
       Removable(side, index)
  /\ resolution.phase = "Open" /\ now >= setup.closesAt /\ Resting(book) = {} => Closable
  /\ resolution.phase = "Resolved" =>
       /\ \A i \in DOMAIN seats \ DOMAIN receipts : Claimable(i)
       /\ DOMAIN seats \subseteq DOMAIN receipts => Finalizable

\* The outcome is that of one approved proposal, the last one, made after every
\* other was rejected, and the approver signed for exactly that proposal: a
\* signature given for an earlier one and delivered late resolves nothing
\* (resolution.rs require_pending).
ResolvedAsSigned ==
  resolution.phase \in {"Resolved", "Finalized"} =>
    LET last == Len(proposals)
    IN /\ \A s \in DOMAIN proposals :
            proposals[s].status = IF s = last THEN "Approved" ELSE "Rejected"
       /\ resolution.outcome = proposals[last].outcome
       /\ Fingerprint(last) \in signed
==============================================================================
