# Goosey: a verified model of the exchange, of settlement and of the chain

Goosey is a prediction market. Users buy and sell YES and NO contracts of a
market for feathers; a YES and a NO contract together are a *complete set* and
pay `payoutMilli`. Most markets match orders of both outcomes in one book, in
which every resting order is fully reserved; some sell contracts from a market
maker (LMSR). When the outcome has been reviewed a settlement run pays every
position. A second deployment keeps the same book in a Solana program: the
server signs commands for its users, sends them, and reads finalized
transactions back into its journal. This directory models the parts that move
money or decide whether money was moved, in TLA+: checked with TLC on small
instances, and proved with TLAPS where a proof for all sizes is possible.

## Inventory

| Part | Code | State | Operations | What makes it correct |
| --- | --- | --- | --- | --- |
| Order-book matcher | `src/lib/order-book.ts` | none (a pure function of a book) | `matchOrder` | price-time priority, FOK all or nothing, nobody trades with himself |
| Order accounting | `src/lib/order-book-accounting.ts` | none | fees, reservations, postings of a fill | fees telescope, postings balance |
| Order exchange | `src/lib/order-exchange.ts` | orders, reservations, positions, wallets, ledger accounts, command and event sequences | place, cancel, cancel all, replace, expire, drain | reserves cover fills, contracts are collateralized, money is conserved, nothing rests in a stopped market |
| Redemption | `src/lib/redemption.ts` | positions, collateral | `redeemCompleteSet` | only free contracts, not after the approval |
| Lifecycle and review | `src/lib/admin-service.ts` | market status, proposals | pause, resume, close, propose, reject, approve | every transition drains the book; two administrators |
| Settlement run | `src/lib/settlement-service.ts` | run with claim token, lease, cursor, counters | claim, batch, finalize, release | everybody is paid exactly once, the run ends |
| Settlement worker | `src/lib/settlement-worker-service.ts` | one worker row with heartbeat | cycle: expire, close, settle, attest | progress |
| Serializable transactions | `src/lib/serializable-transaction.ts` | none | retry | a command runs once |
| Command idempotency | `OrderCommand`, `IdempotencyRequest` rows | one row for each key | replay | a repeated command answers what the first did |
| LMSR trading | `src/lib/trading.ts`, `market-maker.ts` | quotes, quantities, trades, the pool | quote, execute | the pool stays solvent; a quote trades once and at its price |
| Solana command pipeline | `src/lib/solana/chain-command*.ts`, nine `managed-*-dispatcher.ts`, `chain-mutation-lane.ts`, `managed-command-worker.ts` | commands, signed wires, leases, lanes | accept, lease, prepare, sign, send, track, record, project | signed once, in its lane; a status is true of the chain |
| Solana ingestion | `ingestion-worker.ts`, `ingestion-cursor.ts`, `signature-page.ts`, `event-journal.ts`, `coverage-rotation.ts`, `indexer-health.ts` | journal, cursor, visits, lease | page, commit, rotate | no transaction is missed; coverage catches up |
| On-chain program | `chain/programs/goosey-exchange/src` | book, seats, escrow, terms, resolution, receipts | register, deposit, place, cancel, clean up, close, propose, approve, claim, finalize | the heaps are a book, accounts balance, no market gets stuck |
| Accounts and sessions | `auth.ts`, `auth-recovery.ts` | users, sessions, tokens | register, verify, reset | tokens work once |
| Social features, views, badge, scripts | the rest | | | |

How they interact: HTTP routes call the services; each service runs one
*serializable* transaction per command on one database, so services meet only in
its rows. The settlement worker, the command worker and the indexer are separate
processes on the same rows. Markets executed on Solana use the command pipeline
instead of the order exchange and are read back through ingestion; they share no
financial state with database markets. The pipeline meets the program only
through transactions that land or do not.

What is hard: the matcher and its look-ahead; rounding of fees over partial
fills and replacements; balances that are kept twice; commands that act on a
clock read before their transaction; lifecycle transitions against commands in
flight; workers that crash, lose answers or outlive their lease; transactions
that land after their sender has given up; a history that grows while it is read
backward. `hazards` in `PROJECT.json` lists each at its line with the properties
that cover it.

## Modules

| Module | Models | Composes |
| --- | --- | --- |
| `OrderMatching` | `matchOrder` with all its helpers, as operators on a set of resting orders | |
| `OrderBook` | a book under submissions and cancellations, with the declarative definition of what should fill | `OrderMatching` |
| `OrderAccounting` | fees, reservations, fill kinds and postings, as operators | |
| `OrderReserve` | the promise to one buyer: the escrow of a chain of orders under any fills | `OrderAccounting` |
| `CostBasis` | what a position remembers of its cost and profit under fills, maker sales, redemptions and settlement | |
| `LmsrTrading` | quotes, trades and redemptions against a market maker | |
| `OrderCommands` | concurrent calls of the commands: idempotency records, sequence numbers, retries | |
| `OrderExchange` | one market with its users, whole commands as transactions, the lifecycle | `OrderMatching`, `OrderAccounting` |
| `SettlementPromise` | what settling promises, with no mechanism | |
| `Settlement` | proposal, review, and a run processed by concurrent workers under leases | `SettlementPromise` (refinement) |
| `ChainCommands` | the commands sent to Solana, their nine dispatchers, leases and lanes | |
| `Ingestion` | the indexer of finalized transactions | |
| `ChainBook` | the program's book: slots, heaps, planning an order, removing one | |
| `ChainBookReference` | the reference book in the same Rust file, on plain sets | `ChainBook` |
| `ChainExchange` | one market of the program, from its creation to its finalization | `ChainBookReference` |
| `FoldTheorems` | what a loop over a finite set computes: generic lemmas about folds and sums | |
| `OrderRowsProofs` | theorems about the matcher and `OrderBook`; lemmas about the rows of a transaction of `OrderExchange` | `FoldTheorems` |
| `OrderExchangeProofs` | theorems about `OrderExchange` | `OrderRowsProofs` |
| `LedgerProofs` | theorems about `OrderReserve`, `CostBasis` and `LmsrTrading` | |
| `SolanaProofs` | theorems about `ChainCommands` and `Ingestion` | |
| `ChainExchangeProofs` | theorems about `ChainBook`, `ChainBookReference` and `ChainExchange` | `FoldTheorems` |
| `OrderCommandsProofs`, `SettlementProofs` | theorems about the module each is named after | `FoldTheorems` (settlement) |

The `MC*` modules only give constants values for TLC; `MCOrderLedger` puts three
ledgers that share no row side by side.

### OrderMatching and OrderBook

The code keeps makers in sorted arrays and walks them; the model keeps a *set*
of resting orders and takes the best one (`Before` is `compareOrders`), so that
the priority order is defined once and `CrossingMakers` is the walk. `MatchLoop`
is the loop, folded over the makers with the worst of them last (`OverMakers`);
`ExecutableQuantity` is the FOK look-ahead, a second walk as in the code. `OrderBook` remembers the last submission in a
history variable, and compares it with `ShouldFill`, which says what should
execute without walking anything.

### OrderExchange

A command is one database transaction. The model threads a record `st` of the
rows it touches through the operators named after the code's helpers
(`ReserveAssets`, `ReleaseReservation`, `AdjustReservation`, `ApplyFill`, ...);
an operator that would throw marks `st.fault`. Errors meant for the user
(`REFUSED`) roll back, so such commands are simply not enabled. Errors the code
throws when its own rows disagree (`BROKEN`: "requires reconciliation", "did not
cover a fill", an incomplete drain) are recorded in `broken`, and
`NoInternalError` says that no sequence of commands reaches one.

`operationAt` is read before the transaction and kept when it is retried. A
command therefore acts at any time `at <= now`, which covers every delay between
reading the clock and committing.

Suspending and restoring a user is the operators' and modelled as external.
Abstracted: cost basis and profit (in `CostBasis`), idempotency records and
retries (in `OrderCommands`), notifications and audit rows, volume and trade
sequence, prices shown, versions of rows (they only detect conflicts,
which a serializable transaction excludes), rate limits, the cap on all orders
of a market, roles and e-mail verification (part of "active").

### CostBasis

One position. A fill, a sale to the maker and a redemption take basis out by
different roundings (`BasisRemoved` of the exchange, a proportion rounded down
in the others), and settlement writes the rest off. What a fill costs or returns
is any member of `Amounts`, fee included: `OrderExchange` says what it really is.

### LmsrTrading

A quote is stored with the version of the market and lives for `QuoteTtl`;
`ExecuteTrade` computes the price again and demands the version it was quoted
at. The cost function is a constant table, because the code computes it with
floating-point exponentials: `LmsrAssumption` says what is assumed of it. The
cost covers what the dearer outcome pays (`lmsrCostMilli` adds a quarter, more
than floating point loses, and rounds up), complete sets cost what they pay give
or take one milli-feather, however many they are, and the subsidy is at least the
cost of nothing. The formula prices a set at exactly its payout, but rounding up
may cross an integer at one place of the table and not at another, which the
quarter does not prevent: with liquidity 550,496 and payout 1,000,000, the cost
at (403,464 + 7,422,506, 7,422,506) is one less than that at (403,464, 0) plus
7,422,506 payouts. `market-maker.test.ts:46` asserts this tolerance. So the pool
does not hold exactly what the cost function says: each redemption, of any number
of sets, may leave or take one milli-feather (`Drift`), and what such losses may
add up to has no bound but the number of redemptions. The pool stays solvent
because `ExecuteTrade` and `RedeemSets` are refused (MARKET_UNDERCOLLATERALIZED)
when they would leave less than the dearer outcome pays. `redemptions` counts the
journal entries of that type. The table TLC uses is the code's formula at
liquidity 1 and payout 5, with three places one dearer so that a redemption may
go wrong in either direction; a refusal for lack of collateral takes two such
losses, which is beyond the bounds of the run and covered by the theorem.
`operationAt` may be earlier than the commit, but not than the quote. Abstracted: `acceptingOrders` (true exactly while the market is
OPEN), the optional `marketVersion` of the request, keys reused in another
market, volume, trader counts and price snapshots, the treasury, and bases (in
`CostBasis`).

### OrderCommands

`OrderExchange` takes a command as one atomic step. `OrderCommands` opens that
step: a call looks for its record outside the transaction (`Preflight`), begins
a transaction on a snapshot (`Begin`: replay, refuse, or execute), and commits,
conflicts and is retried, or meets a unique index. `Current` is the database's
side of `acquireCommandSequence`: a transaction whose market row was written
since its snapshot cannot commit. `Abort` is always possible before a commit,
because a serializable database may abort without need. What remains of the book
is who has a live order in a market, which is what refusals depend on. Which of
a user's orders a request names is abstracted, and so is the second record
`cancelAllOrders` keeps for each market, whose key never differs from the
first's. A call may stop at any point, which is a crash.

### Settlement

Each transaction is an action; between them a worker's program counter
(`worker[w].phase`) says which stage comes next, as `processSettlementRun` does.
Time is relative: `run.lease` is what is left of `leaseExpiresAt`, and
`worker[w].age` the time since `w` read the clock for its current transaction,
so `leaseExpiresAt <= operationAt` is `run.lease + age <= 0`. Time can then pass
for ever in a finite model. A transaction may take effect and its answer be lost
(`Answer`), fail without effect (`TransactionFails`), or the process may die
(`Crash`). `releaseFailedClaim` is two actions because it reads outside a
transaction. The extension of the lease inside `finalizeClaimedRun` is never
visible outside its transaction, which clears it, and is left out. The payouts
of the `PositionSettlement` rows are the `wallet` amounts they were credited
with. Not modelled: attestation intents, notifications, the operator check, the
drain at the approval (it is `OrderExchange`'s `Resolve`).

### ChainCommands

A command is a row with a status, a lease and a revision; a dispatcher leases
it, brings it to PREPARED, journals the signed wire together with SIGNED, sends
it, tracks it, and records what became of it. Revision, epoch and token are
compared for equality only and every write advances the revision, so all a
dispatcher holds of them is whether the row is still as it last saw it
(`at[d].current`). An expiry is compared with the dispatcher's clock, which may
have been read earlier: `Fenced` therefore lets an expired lease pass as long as
nobody has taken the row since. Only `appendSignedWireBeforeSend` is admitted by
the database under a live lease alone (`JournalWire`).

The nine dispatchers are one machine with a policy each (`Dispatcher`), read from
the nine files:

| Command | takes up, besides starts and pending wires | worker polls | lane | SIGNED and landed | after FINALIZED |
| --- | --- | --- | --- | --- | --- |
| order | – | yes | when prepared | refused, then UNKNOWN | release the lane |
| deposit | – | yes | – | SUBMITTED first | – |
| seat | – | yes | – | refused, then UNKNOWN | PROJECTED |
| transfer | UNKNOWN | yes, not UNKNOWN | – | SUBMITTED first | – |
| cancellation | UNKNOWN | yes, not UNKNOWN | on entry | refused, then UNKNOWN | release the lane |
| amendment | UNKNOWN | no | on entry | refused, then UNKNOWN | release the lane |
| resolution | UNKNOWN | yes | – | refused, then UNKNOWN | – |
| market, book | UNKNOWN, FINALIZED | yes | – | refused, then UNKNOWN | project, PROJECTED |

A wire that was sent may land, fail on chain, or die with its blockhash, long
after its sender has gone; only a finalized outcome is definite. An answer may be
lost, a call may fail, a process may die: each is a fault, bounded for each
assignment by `MaxFaults`. `LeaseTime` is 1: a lease is fresh or expired. A seat
whose PROJECTED write failed may be prepared again although it landed; preparing
it then refuses (`Signable`), so it is never signed twice.

A market and each step of its book are projected once they are finalized:
`Project` accepts the command of the next step (`Successor`) in the transaction
that projects. Both projections demand that the listing is still a DRAFT
(`published`, set by `Publish`, which needs a finished book on chain and looks at
no command), and that of a step of the book demands in addition that the book is
exactly what this step leaves (`managed-market-book-dispatcher.ts:40` and `:51`).
So when the answer of a projection is lost after the next step was accepted, and
that step lands, the book has outgrown the earlier one (`Outgrown`) and its
projection throws from then on. `Publish` stands for the whole review of terms
and resolution, which it requires and the model leaves out.

### Ingestion

Finalized signatures are the positions 1, 2, ... of a growing history. A process
reads the cursor, one page from some node, its receipts, and commits; it runs
once, or continuously under the lease of the worker row. Continuing downward from
`before`, a scan keeps the head it froze while new signatures appear above. A
node that lags, pruned history, a crash, a failure the process notices, a lost
lease, a receipt journaled on its own, a wrong boundary and a rotation each count
as one of `MaxUpsets` (the boundary only when it is wrong). The read and the
write of a rotation are one action, as they are one transaction that verifies the
operator's digest again. A page of signatures with equal slots is assumed to come
in the same order each time, as the code does.

A scan can be frozen so that it never ends: when the first page comes from a node
that lags behind the committed head and is full, the target is above the page,
the page is committed as the start of a scan, and every later page only goes
further down, to the end of history (`ingestion-worker.ts:33` passes no
`minContextSlot`, which `signature-page.ts` offers for that, and the commit does
not compare the head with the committed one). Nothing is missed then, and the
process stops with an error, but running it again does not resume.
`CaughtUp` is therefore stated for scans that can end (`ScanCanEnd`).

### ChainBook, ChainBookReference and ChainExchange

The program keeps its book in one account: slots for orders, and a heap of slot
numbers for each side. `ChainBook` keeps those arrays, with the repairs of `pop`,
`insert` and `plan_removal` as they are, because that is where it can go wrong.
The code moves a hole and fills it at the end; the model lets the slot that will
fill it stand in the hole, so that each turn is an exchange of two entries
(`Swapped`) and the array is a heap but for one place. Loops are folds over the
positions or the turns they may take: `Sink` goes down over the positions in
rising order, `Rise` up in falling order, and a turn that has nothing to do any
more leaves everything as it is, which is how a `break` is expressed.
`ChainBookReference` is `Book` of the same file, the reference the Rust tests
compare with. An instruction commits every account or none, so each is one
action of `ChainExchange`, and an error is the action not being enabled.
Approvals are signed before they arrive (`signed`), and may arrive late.
`setup` is chosen once per behaviour and says what may be sent; `ValidSetup` is
what creating a market and validating an order check, and that a market which
starts ready has a seat for each of its wallets.

## Runs

| Run | Instance | Shows |
| --- | --- | --- |
| `order_book` | two users, prices 1 and 2 of 3, quantities 1 and 2, four submissions of every kind | the matcher against price-time priority and `ShouldFill` |
| `order_ledger` | payout 5, quantity up to 3, fee 33%; costs 1 and 2, four fills, four contracts; maker with payout 5, three contracts, two traders, three quotes, four changes, times 0 to 2 | the escrow, the cost basis and the pool of the maker, before they are proved |
| `order_commands` | one user and key, requests in two markets, three calls, two attempts | executed once, numbered without gaps, answered alike, never refused afterwards |
| `exchange_trading` | two users, three orders of every kind, `bob` suspendable, times 0 to 2 | contracts backed, prices kept, events numbered, late commands, drained books |
| `exchange_chains` | two users, four orders of five kinds | reserves, escrow and wealth along chains of replacements |
| `settlement` | two workers, three tokens, three positions, lease 1, two faults | exactly-once payment, refinement of `SettlementPromise`, the run ends |
| `settlement_review` | two administrators | a documented rule the code does not have (violated) |
| `chain_commands` | one command of any of nine kinds, two dispatchers, two faults; or an order with a cancellation, its seat or its deposit | signed once, in its lane; statuses true of the chain |
| `chain_recovery` | a market and the first step of its book, two steps of a book, or two resolutions; one dispatcher, two faults | what landed is recorded and the next step asked for |
| `chain_signed_order` | one order, two dispatchers, one fault | a documented recovery that does not happen (violated) |
| `chain_program` | five setups, see below | the program's heaps, accounts and resolution |
| `ingestion` | two processes, boundaries 1 and 2, pages of 2, history of 3, one fault | no hole in the coverage; it catches up |

Why the bounds are enough. *Book:* a submission meets at most three makers; two
already give a better and a worse price, an own order before, between and behind
others, and a partial fill; priority and self-trade prevention are decided
between pairs of makers. *Fees:* with 33% every notional rounds, so any fee that
is rounded per fill or per order differs after two fills. *Exchange:* the
hazards take an order, a counter-order and one more command between (a
replacement, a redemption, a drain); four orders give a chain that is filled,
replaced and filled again. The quantity limit is small enough (4) that a mint
runs into it. Three times give an order that expires before, at and after the
close. *Cost basis:* four contracts give remainders of 0 to 3, and four
fills with redemptions between reach bases of both outcomes in any order.
*Maker:* three contracts of each outcome let a circle of buying, redeeming and
selling come back to where it began by different ways; two traders and three
quotes let a quote be overtaken. `ExecutedBound` cuts the notional of a chain at
30, past anything one quantity limit can execute between replacements.
*Commands:* a race needs two calls; the third is the client's repetition, or a
command that changes the market between an execution and its repetition; one
background command in each market makes a snapshot stale. Keys of different users
never meet, so one user and one key suffice. *Settlement:* with lease 1 a claim is
taken over while its owner's transaction is still open; two faults let a worker
lose an answer and then die. *Chain commands:* two dispatchers are a race, a third
changes nothing that a new call of the second does not; two faults reach an
answer lost after the wire and a crash of whoever takes over. *Program:*
`DeepBook` has heaps of six, deep enough that a removal repairs upward;
`Trading` and `Taking` start from minted contracts and reach every order option
with a touch limit of one and two; `Life` runs three seats through expiry,
closing, two proposals, claims and finalization for each outcome; `Genesis` goes
from an empty market to the first order, with reviewers who hold seats and
donations to the vault. Half of a payout of 3 and a fee of 50% round
everywhere. *Ingestion:* three positions and pages of two give a scan of
two pages, signatures above a frozen head, and a second scan.

### Fairness

`settlement` assumes weak fairness of each worker's steps and of time.
The worker process loops over all unfinished runs for ever
(`settlement-worker-service.ts:235`), and an administrator's request runs to its
end or fails; both are steps that the scheduler eventually takes. Faults are not
fair and bounded by `MaxFaults`: a system whose every transaction fails
settles nothing. `EventuallySettled` holds from the time on at which transactions
take less than a lease (`Prompt`); otherwise two workers could take the run from
each other for ever.

`chain_recovery` assumes that the worker polls each command again and again
(strong fairness of `Poll` for each command), that calls proceed, that leases
expire, and that the finalized outcome of a command is seen if it is asked for
often enough. A call waits a minute at most for the chain and has a lease of
five, so it does not outlast its lease for ever. The fairness of `Poll` is more
than the worker guarantees in every case: a cycle takes the oldest 25 rows of each
operation (`managed-command-worker.ts:229`), so it reaches every row only while
fewer than 25 older ones of that operation are retried for ever (wires that stay
in doubt, or book steps that can no longer be projected). The run has two rows.
`PROJECT.json` lists this limit as a hazard that no property covers.

`ingestion` assumes that a process that runs keeps running, that a supervisor
starts the continuous indexer again with the boundary of the cursor, and that an
abandoned lease goes stale. All other properties are safety properties.

### Disagreements found

`approveResolutionProposal` (`src/lib/admin-service.ts:419`) does not compare
the approver with the proposer, although `ARCHITECTURE.md:156`, `SECURITY.md:37`
and the rules page say that a different administrator approves.
`settlement_review` shows `Propose` and `Approve` by the same one.

A signed order is not reconciled as `managed-order-dispatcher.ts:316` says. The
worker that takes a SIGNED order up and finds it finalized asks for a step from
SIGNED to FINALIZED, which the state table (`chain-command-state.ts:11`) does not
have; the catch clause writes UNKNOWN, and no dispatcher takes up an UNKNOWN
order. `chain_signed_order` shows it. The order has executed on chain, so no
money is lost, but its status is never corrected. Deposits and transfers write
SUBMITTED first and are not affected.

A step of a book may never become PROJECTED, although
`managed-market-book-service.ts:80` says that "a finalized parent cannot become
stranded". If the answer of its projection is lost and the next step lands before
it is projected again, or the market is published first, every later projection
throws, and the row goes from FAILED_RETRYABLE to UNKNOWN to FINALIZED and back in
each cycle of the worker. What the comment is about does hold: the next step was
accepted in the transaction whose answer was lost, so the provisioning goes on.
Therefore `LandedRecorded` asks of a market and a book step that the next step is
accepted, that the database knows it finalized, and that it is PROJECTED unless it
can no longer be projected.

## Proofs

Each module's theorems rest on its named assumptions, which are ranges of the
constants, that positions are minted in pairs (`SettlementProofs`,
`OrderExchange`) and, for the maker, `LmsrAssumption`.

`FoldTheorems` is a theory of loops. Its module has two operators as parameters,
the turn of a loop and the choice of the next element, and it is instantiated
once for each loop of the code (`INSTANCE FoldTheorems WITH Step <- ..., Pick <-
...`), which states its lemmas for that loop without a theorem that takes an
operator. It proves that a fold over a finite set satisfies its recursion
(`FoldEmpty`, `FoldLast`), from which the induction over the elements in the
order they are picked (`PickInduct`) and the laws of sums (`SumElement`,
`SumPlus`, `SumScale`, ...) follow. Finite there means that every family of
subsets has a smallest one (`Finite`); the modules that use the theory prove it
of every set `IsFiniteSet` is true of, by the sizes of the subsets
(`FiniteEnds`), so the theory needs no library and its instances stay small.

`OrderRowsProofs` and `OrderExchangeProofs` prove, for any users, orders, payout,
fee rate and limits, every invariant the runs of `OrderBook` and `OrderExchange`
check.

*The matcher.* `PickInduct` carries four facts along the loop, for the makers T
it has gone over: `Walked` (fills are of distinct makers of others, and add up),
`Prior` (whoever is filled, every better maker of others was filled completely;
while the loop goes on, all of them were), `Exact` (what is left is the quantity
less the liquidity that can be reached, and the loop was ended only by an own
order) and `Standing` (each maker still rests, was filled or was cancelled, and
nothing else is in the book). The look-ahead has an invariant of its own
(`Looked`) that ends in the same liquidity, so the two agree. `BookSound` needs
besides only that ids are distinct and grow with priority (`BookKept`); from it
follow `NoSelfTrade`, `PriorityRespected` and `FillsAsDefined`.

*The exchange.* The inductive invariant `ExchangeInv` says `Sound` of the rows a
command begins with, that nothing is broken or misnumbered, and that nothing is
live in a stopped market. `Sound` is the conjunction of the invariants the runs
check (`Custody`, the backing of every order, `SharesReserved`, `Explained`,
`SupplyCollateralized`, `Protected`) with what they need to be inductive: the
shape of the rows (`Typed`), that the escrow of orders not yet placed is empty
(`UnusedEscrow`), and that the orders of a chain are alike and at most one of
them lives (`Chained`). The last is what makes rounded fees come out: a
replacement inherits what its chain has executed, and only because no other order
of the chain is live does nobody else's reserved fee change with it.

A transaction is proved step by step. Each helper of the code has a lemma that
says what it does to the rows (`CancelWorks`, `FillWorks`, `CancelStep`, ...)
and that it either refuses or keeps `Sound`; a loop has a lemma that its
`FoldTheorems` instance gives; and the `BROKEN` errors are excluded where they
would be thrown, because `Sound` held just before. That a fill can be paid for
(`HeldCovers`) is the arithmetic `LedgerProofs` has for one order. The plan the
matcher hands over is described by `Matching`, and `MatcherPromise` shows that
`matchOrder` keeps it: makers are live orders of others, each at most once and at
a price within the taker's limit. `ExchangeStep` then has one case for each
command, and the eight theorems (`ExchangeNeverBreaks`, `EventsNumbered`,
`CustodyKept`, `LiveOrdersBacked`, `SupplyBacked`, `LimitsKept`,
`WealthAlwaysExplained`, `StoppedMeansDrained`) follow from `ExchangeSound`.

`LedgerProofs` has three parts. Of `OrderReserve` it proves for every payout,
quantity limit and fee rate that the escrow of a chain of orders always covers
what it may have to pay (`ReserveAlwaysCovers`), is exactly what its reservation
says (`EscrowIsExact`), and that fees telescope (`FeesAlwaysTelescope`). None is
inductive: that a fill leaves a non-negative amount depends on *how much fee* is
still reserved. `IInv` says exactly that: principal is limit times remaining, and
the fee is what that principal would add to the chain's total, so far executed.
Its steps rest on four lemmas about rounded fees: they are natural, monotone,
additive (`FeeDeltaAdds`), and so never more than what was reserved at the limit
price.

Of `CostBasis` it proves for every payout, every bound on contracts and all
amounts that no rounding overdraws a basis (`BasisNeverNegative`), that the
reconciliation which redemption demands always holds (`BasisAlwaysReconciles`),
that profit is what the money says (`ProfitAlwaysExplained`) and that a sale can
be split into fills in any way (`SalesAlwaysSplit`). The first three are
inductive only as a conjunction. The lemmas give `BasisRemoved` one closed form,
quotient times quantity plus the smaller of quantity and remainder.

Of `LmsrTrading` it proves for every cost table with the assumed properties that
the pool can pay either outcome and differs from what the cost function says by
at most one milli-feather for each redemption so far (`AlwaysSolvent`), and
that every trade is at the price quoted, once (`AlwaysAsQuoted`). The first needs
a trade to add exactly the difference of costs, a redemption's difference of costs
to be within one of what it pays, and that both refuse what the collateral does
not allow; the second needs that a quote of the current version was computed from
the current quantities, which holds because whatever changes them also advances
the version.

`OrderCommandsProofs` proves for any users, markets, requests, calls and attempts
that a request executes once, that sequences are gapless, that answers are those
of the execution, that a duplicate is not answered with the unique index, and
that what has executed is not refused. The invariant adds `RecordExact` (a row
for each execution and no other) and `Planned` (what a call that is to commit has
read: if a rival recorded its request since, the sequence of a market it read has
moved, so it conflicts instead of committing).

`SolanaProofs` proves, of `ChainCommands`, for any commands, dispatchers,
assignments and faults that a command is signed once (`SignedOnceAlways`), that
statuses are true of the chain (`OutcomeTrueAlways`) and that orders are signed
in their lane (`SignedInLaneAlways`). The invariant says for each status what
wires there may be (`RowsFit`), for each point of a dispatcher what it may
believe (`CallsFit`, with the lane: whoever is current and has the lane keeps it
at least as long as the lease), and that whoever holds an unsent wire is alone
with it (`SendAlone`).

Of `Ingestion` it proves for any processes, page sizes, boundaries, history and
faults that coverage has no hole (`NothingMissedAlways`). The invariant adds that
whatever a process has read of the cursor is the cursor, unless the revision has
moved on, and that its page begins where that cursor ends (`ProcFits`).

`SettlementProofs` proves for any positions, payout, workers, batch sizes, leases
and faults that everybody is paid what was owed, once (`PaidAsOwedAlways`), that
no late release or takeover sets a run back (`RunAlwaysAdvances`), that the
collateral always covers what is still owed and no money appears or disappears
(`BooksAlwaysBalance`), and that the whole mechanism implements
`SettlementPromise` (`PromiseKept`). The invariant
ties the run to the contracts: whoever still holds some is due and unsettled, so
a batch can only pay people who are owed, and finalization, which finds no
holders, finds everybody paid. That a failed worker hands the run back with the
right status, although it read it outside its transaction, rests on claims being
fresh: as long as the token is still its own, nobody else has changed the status.
That the cursor advances needs that a batch has a last position, which follows
from the well-foundedness of the naturals. That the books balance is a
statement about sums over positions: paying a batch moves its amounts from what
is owed to what was paid, and a void market, which pays half of every contract
rounded down, owes no more than a payout for each pair.

`ChainExchangeProofs` proves every invariant the run of `ChainExchange` checks,
for any markets that satisfy `ValidSetup`: any payout, fee rate, capacity, touch
limit, wallets, orders and amounts. The inductive invariant is `Kept`, in three
parts.

*The book* (`BookKept`). `Tidy` says that each side's array has no repetition and
holds exactly the slots of that side's orders, that the free list is the rest,
that ids are distinct, and that each side is `Heaped`: nobody stands below a
worse order. Sifting is where this is hard, because in between the array is not a
heap. `SiftUp` and `SiftDown` are followed turn by turn: a heap but for the slot
on its way (which may be better than its parent, or worse than its children), its
parent and its children being in order with each other. Removing from the middle
has both cases, because the last entry comes from another subtree and may have to
go either way. That ids grow (`Numbered`) and that no bid meets an ask
(`Uncrossed`) complete the part. What a matching loop keeps is `Matched`; that it
ends with nothing left to touch (`Exhausted`) is why a rest does not cross. From
here follow `BookStaysWellFormed` and `RestingOrdersNeverCross`.

*The reference.* `ProgramIsReference` is a simulation. `Agrees` relates a state of
the program's loop to one of the reference's: the set of resting orders is the
same (`OrdersIn`), and so are the taker, the effects and how the loop ended. The
first of a heap is the best of the set (`BestIsFirst`), so each turn meets the
same order and does the same to it (`TurnAgrees`), and the loops stay in step
(`LoopsAgree`); the free list is empty exactly when the set has as many orders as
the capacity (`FullBook`), so both refuse alike (`PlansAgree`). It is proved from
`BookKept`, so it holds for every book the program reaches and every order it may
be sent.

*The review* (`Review`). Which proposals are rejected, pending or approved in each
phase. From it follows `OutcomeWasSigned`: a late signature resolves nothing but
the proposal it names.

*Custody* (`Custody`). `Backed` says that what a seat has reserved, of each kind,
is the sum of the reserves of its orders; `Funds`, that all tokens are in wallets
or the vault; `Worth`, that cash, collateral and revenue add up, and that the
collateral is a payout for each pair, or covers what is still owed once the
outcome is known; `Halted`, that a closed market has no orders and the shares it
counted. An execution is followed over its effects (`Staging`, with the taker's
reserve beside the book): a removal releases what its order reserved
(`RemovalStages`), a fill settles both sides (`FillStages`). That neither
overdraws rests on the fee of a fill and of the rest never exceeding the fee of
the whole (rounding up once more can only be paid for because notional is
carried on), and that the totals come out on a fill moving pairs, cash,
collateral and fees by amounts that add up to nothing (`FillBalances`). Claims
take from the collateral exactly what they take from what is owed, and half a
payout for each share of a void market rounds down to no more than a payout for
each pair (`PairsPay`). From here follow `AcceptedOrdersExecute`,
`CollateralPays` and `KeepersProceed`.

Only model-checked: liveness (`EventuallySettled`, `LandedRecorded`, `CaughtUp`),
which TLAPS cannot prove. Every other property of a passing run is a theorem.

## Not modelled

Of the on-chain program: the steps in which a large book account is created and
grown, enrolment and the faucet (`initialize`, `authorize_enrollment`,
`claim_feathers`), the attestation of database settlements, `u64` overflow (the
limits on quantity and payout exclude it), the capacities of staging buffers,
and nonces other than as a budget of commands. Of the pipeline: how transactions
are built and checked against policy, renewal of leases (unused), budgets. Of
ingestion: the content of events.

Accounts, sessions and recovery keep tokens that work once; they move no money.
Wallet linking and custody are cryptographic challenges. Social features, views,
reconciliation audits, the badge and the scripts only read the state modelled or
keep rows that no financial step reads; much of the remaining source is end-to-end
test scripts and user interface. The row of the settlement worker reports health;
nothing depends on it but its own process. Each component's entry in
`PROJECT.json` gives its reason.

## What could follow

1. The tokens of account recovery and the challenges of wallet linking.
2. The creation of a book account in steps.
