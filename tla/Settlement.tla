----------------------------- MODULE Settlement -----------------------------
(***************************************************************************)
(* Settling one ORDER_BOOK market: the resolution proposal and its review  *)
(* (src/lib/admin-service.ts), and the settlement run that workers and     *)
(* administrators' requests process concurrently, in batches, under a      *)
(* lease (src/lib/settlement-service.ts).  Any of them may crash, or be    *)
(* told that a transaction failed although it committed, at any point.     *)
(*                                                                         *)
(* Each transaction is one action.  What happens between transactions is   *)
(* the interesting part: every stage of a worker reads the clock before    *)
(* its transaction and compares the lease with that old reading.           *)
(*                                                                         *)
(* Time is relative, so that it may pass for ever: run.lease is what is    *)
(* left of leaseExpiresAt, worker[w].age the time since w read the clock.  *)
(***************************************************************************)
EXTENDS Integers, FiniteSetsExt

CONSTANTS PositionCount,   \* positions of the market, ids 1 .. PositionCount
          Portfolios,      \* what they may hold at first: [yes, no] of each
          PayoutMilli,
          Admins,
          Workers,         \* concurrent callers of processSettlementRun
          BatchSizes,      \* the batch sizes they ask for
          Tokens, NoToken, \* claim tokens (fresh UUIDs)
          Lease,           \* claimSettlementRun's lease
          MaxAge,          \* bound: longest a transaction may take
          MaxFaults        \* bound: crashes and lost answers

Positions == 1 .. PositionCount
Outcomes == {"YES", "NO", "VOID"}

ASSUME SettlementAssumption ==
    /\ PositionCount \in Nat
    /\ Portfolios \subseteq [Positions -> [yes : Nat, no : Nat]]
    /\ \A held \in Portfolios :     \* contracts are minted in pairs
          SumFunction([p \in Positions |-> held[p].yes])
             = SumFunction([p \in Positions |-> held[p].no])
    /\ PayoutMilli \in Nat \ {0}
    /\ BatchSizes \subseteq Nat \ {0}
    /\ NoToken \notin Tokens
    /\ Lease \in Nat \ {0}
    /\ MaxAge \in Nat /\ MaxFaults \in Nat

VARIABLES market,      \* [status, resolution]
          proposal,    \* the latest resolution proposal
          pos,         \* Position rows
          collateral,  \* the market's collateral account
          treasury,    \* what finalization returned to the treasury
          wallet,      \* what settlement credited to each owner
          settled,     \* PositionSettlement rows (unique per owner)
          run,         \* MarketSettlementRun
          worker,      \* the callers of processSettlementRun
          faults,      \* faults so far
          promise      \* history: what was owed to whom at the approval

db == <<market, proposal, pos, collateral, treasury, wallet, settled, run,
        promise>>
vars == <<market, proposal, pos, collateral, treasury, wallet, settled, run,
          worker, faults, promise>>

----------------------------------------------------------------------------
\* Mutant: a void market pays half, rounded up.
Mutant_Payout(holding, outcome) ==
    CASE outcome = "YES" -> PayoutMilli * holding.yes
      [] outcome = "NO"  -> PayoutMilli * holding.no
      [] OTHER -> (PayoutMilli * (holding.yes + holding.no) + 1) \div 2

\* positionSettlementPayoutMilli: a void market pays half, rounded down.
Payout(holding, outcome) ==
    CASE outcome = "YES" -> PayoutMilli * holding.yes
      [] outcome = "NO"  -> PayoutMilli * holding.no
      [] OTHER -> (PayoutMilli * holding.yes + PayoutMilli * holding.no) \div 2

Holds(p) == pos[p].yes > 0 \/ pos[p].no > 0
Pairs == SumFunction([p \in Positions |-> pos[p].yes])
Empty == [yes |-> 0, no |-> 0]

NoRun == [status |-> "NONE", outcome |-> "VOID", token |-> NoToken,
          lease |-> 0, cursor |-> 0, total |-> 0, processed |-> 0, payout |-> 0]
NoProposal == [status |-> "NONE", outcome |-> "VOID", proposer |-> "none",
               approver |-> "none"]
Idle == [phase |-> "idle", token |-> NoToken, age |-> 0, seen |-> "NONE"]

Init ==
    /\ market = [status |-> "CLOSED", resolution |-> "NONE"]
    /\ proposal = NoProposal
    /\ pos \in Portfolios
    /\ collateral = PayoutMilli * Pairs
    /\ treasury = 0
    /\ wallet = [p \in Positions |-> 0]
    /\ settled = {}
    /\ run = NoRun
    /\ worker = [w \in Workers |-> Idle]
    /\ faults = 0
    /\ promise = [due |-> {}, owed |-> [p \in Positions |-> 0],
                  collateral |-> 0]

----------------------------------------------------------------------------
\* createResolutionProposal: one pending proposal, for a closed market.
Propose(admin, outcome) ==
    /\ market.status = "CLOSED"
    /\ proposal.status # "PENDING"
    /\ proposal' = [status |-> "PENDING", outcome |-> outcome,
                    proposer |-> admin, approver |-> "none"]
    /\ UNCHANGED <<market, pos, collateral, treasury, wallet, settled, run,
                   worker, faults, promise>>

\* rejectResolutionProposal
Reject(admin) ==
    /\ proposal.status = "PENDING"
    /\ proposal' = [proposal EXCEPT !.status = "REJECTED", !.approver = admin]
    /\ UNCHANGED <<market, pos, collateral, treasury, wallet, settled, run,
                   worker, faults, promise>>

\* approveResolutionProposal: the market resolves and the run is created
\* with the number of positions it will have to settle.  (The book it drains
\* is OrderExchange's.)
Approve(admin) ==
    LET holders == {p \in Positions : Holds(p)}
    IN  /\ proposal.status = "PENDING"
        /\ market.status = "CLOSED"
        /\ run.status = "NONE"
        /\ proposal' = [proposal EXCEPT !.status = "APPROVED",
                                        !.approver = admin]
        /\ market' = [status |-> "RESOLVING", resolution |-> proposal.outcome]
        /\ run' = [NoRun EXCEPT !.status = "READY",
                                !.outcome = proposal.outcome,
                                !.total = Cardinality(holders)]
        /\ promise' = [due |-> holders,
                       owed |-> [p \in Positions |->
                                    Payout(pos[p], proposal.outcome)],
                       collateral |-> collateral]
        /\ UNCHANGED <<pos, collateral, treasury, wallet, settled, worker,
                       faults>>

\* Mutant: a market that is resolving still redeems.
Mutant_Redeem(p) ==
    /\ pos[p].yes > 0 /\ pos[p].no > 0
    /\ pos' = [pos EXCEPT ![p] = [yes |-> @.yes - 1, no |-> @.no - 1]]
    /\ collateral' = collateral - PayoutMilli
    /\ UNCHANGED <<market, proposal, treasury, wallet, settled, run, worker,
                   faults, promise>>

\* redeemCompleteSet, as far as settlement sees it: until the approval a
\* holder of a pair may still exchange it for its payout.
Redeem(p) ==
    /\ market.status = "CLOSED"
    /\ pos[p].yes > 0 /\ pos[p].no > 0
    /\ pos' = [pos EXCEPT ![p] = [yes |-> @.yes - 1, no |-> @.no - 1]]
    /\ collateral' = collateral - PayoutMilli
    /\ UNCHANGED <<market, proposal, treasury, wallet, settled, run, worker,
                   faults, promise>>

----------------------------------------------------------------------------
\* A worker's next stage; the clock is read when it is entered.
Enter(w, phase, token) ==
    worker' = [worker EXCEPT ![w] = [Idle EXCEPT !.phase = phase,
                                                 !.token = token]]
Return(w) == worker' = [worker EXCEPT ![w] = Idle]

Fault == faults < MaxFaults /\ faults' = faults + 1

\* The answer of a transaction that committed: w goes on with act, or is
\* told it failed and goes on with onError.
Answer(act, onError) ==
    \/ act /\ UNCHANGED faults
    \/ Fault /\ onError

Unfinished == {"READY", "RUNNING", "FINALIZING"}

\* processSettlementRun is called for a run the worker found unfinished.
Start(w) ==
    /\ worker[w].phase = "idle"
    /\ run.status \in Unfinished
    /\ Enter(w, "claim", NoToken)
    /\ UNCHANGED <<db, faults>>

\* The comparisons with the clock w read: leaseExpiresAt <= operationAt.
Expired(w) == run.lease + worker[w].age <= 0

\* A token no row and no process remembers.
Fresh == Tokens \ ({run.token} \union {worker[w].token : w \in Workers})

\* Mutant: the lease of the owner never expires.
Mutant_Claimable(w) == run.status \in Unfinished /\ run.token = NoToken

Claimable(w) ==
    /\ run.status \in Unfinished
    /\ run.token = NoToken \/ Expired(w)

\* claimSettlementRun: an error here is not followed by a release.
Claim(w) ==
    /\ worker[w].phase = "claim"
    /\ Claimable(w)
    /\ \E token \in Fresh :
          /\ run' = [run EXCEPT
                        !.token = token,
                        !.lease = Lease - worker[w].age,
                        !.status = IF @ = "FINALIZING" THEN @ ELSE "RUNNING"]
          /\ Answer(Enter(w, IF run.status = "FINALIZING" THEN "finalize"
                                                          ELSE "batch", token),
                    Return(w))
    /\ UNCHANGED <<market, proposal, pos, collateral, treasury, wallet,
                   settled, promise>>

\* The run is complete, or another worker owns it: SETTLEMENT_RUN_BUSY.
ClaimRefused(w) ==
    /\ worker[w].phase = "claim"
    /\ ~Claimable(w)
    /\ Return(w)
    /\ UNCHANGED <<db, faults>>

\* The fence in front of every write of a claimed run.
Owns(w) == run.token = worker[w].token /\ ~Expired(w)

Due == {p \in Positions : Holds(p) /\ p > run.cursor}
FirstOf(S, n) == {p \in S : Cardinality({q \in S : q < p}) < n}

PayoutOf(S) == SumFunction([p \in S |-> Payout(pos[p], run.outcome)])

\* What lets a batch run; anything else throws.  A second PositionSettlement
\* of one owner violates its unique index.
BatchAllowed(w, batch) ==
    /\ Owns(w)
    /\ run.status = "RUNNING"
    /\ market.status = "RESOLVING" /\ market.resolution = run.outcome
    /\ PayoutOf(batch) <= collateral
    /\ batch \intersect settled = {}

\* The run's progress: handed back while positions are left, kept to be
\* finalized by the same worker otherwise.
Advance(batch, left) ==
    run' = [run EXCEPT
              !.cursor = CHOOSE p \in batch : \A q \in batch : p >= q,
              !.processed = @ + Cardinality(batch),
              !.payout = @ + PayoutOf(batch),
              !.status = IF left = {} THEN "FINALIZING" ELSE "READY",
              !.token = IF left = {} THEN @ ELSE NoToken,
              !.lease = IF left = {} THEN @ ELSE 0]

\* Pay a batch and empty its positions.
SettlePositions(batch) ==
    /\ wallet' = [p \in Positions |->
                    IF p \in batch THEN wallet[p] + Payout(pos[p], run.outcome)
                                   ELSE wallet[p]]
    /\ pos' = [p \in Positions |-> IF p \in batch THEN Empty ELSE pos[p]]
    /\ settled' = settled \union batch
    /\ collateral' = collateral - PayoutOf(batch)

\* processClaimedBatch with positions to settle.
Batch(w, size) ==
    LET batch == FirstOf(Due, size)
        left  == Due \ batch
    IN  /\ worker[w].phase = "batch"
        /\ batch # {}
        /\ BatchAllowed(w, batch)
        /\ SettlePositions(batch)
        /\ Advance(batch, left)
        /\ Answer(IF left = {} THEN Enter(w, "finalize", worker[w].token)
                               ELSE Return(w),
                  Enter(w, "failed", worker[w].token))
        /\ UNCHANGED <<market, proposal, treasury, promise>>

\* processClaimedBatch with none left.
BatchEmpty(w) ==
    /\ worker[w].phase = "batch"
    /\ Due = {}
    /\ BatchAllowed(w, {})
    /\ run' = [run EXCEPT !.status = "FINALIZING"]
    /\ Answer(Enter(w, "finalize", worker[w].token),
              Enter(w, "failed", worker[w].token))
    /\ UNCHANGED <<market, proposal, pos, collateral, treasury, wallet,
                   settled, promise>>

\* SETTLEMENT_CLAIM_LOST and the other errors of a batch.
BatchFails(w) ==
    /\ worker[w].phase = "batch"
    /\ \E size \in BatchSizes : ~BatchAllowed(w, FirstOf(Due, size))
    /\ Enter(w, "failed", worker[w].token)
    /\ UNCHANGED <<db, faults>>

PaidTo(S) == SumFunction([p \in S |-> wallet[p]])

\* What finalization verifies before it closes the books.
Complete ==
    /\ \A p \in Positions : ~Holds(p)
    /\ Cardinality(settled) = run.total
    /\ run.processed = run.total
    /\ PaidTo(settled) = run.payout

FinalizeAllowed(w) ==
    /\ run.status = "FINALIZING"
    /\ Owns(w)
    /\ Complete
    /\ market.status = "RESOLVING" /\ market.resolution = run.outcome

\* finalizeClaimedRun: what is left of the collateral goes to the treasury
\* and the market reaches its terminal status.
Finalize(w) ==
    /\ worker[w].phase = "finalize"
    /\ FinalizeAllowed(w)
    /\ treasury' = treasury + collateral
    /\ collateral' = 0
    /\ market' = [market EXCEPT !.status = IF run.outcome = "VOID"
                                           THEN "VOID" ELSE "RESOLVED"]
    /\ run' = [run EXCEPT !.status = "COMPLETED", !.token = NoToken,
                          !.lease = 0]
    /\ Answer(Return(w), Enter(w, "failed", worker[w].token))
    /\ UNCHANGED <<proposal, pos, wallet, settled, promise>>

\* Completed by another worker (a replay), or an error.
FinalizeFails(w) ==
    /\ worker[w].phase = "finalize"
    /\ ~FinalizeAllowed(w)
    /\ IF run.status = "COMPLETED" THEN Return(w)
       ELSE Enter(w, "failed", worker[w].token)
    /\ UNCHANGED <<db, faults>>

\* releaseFailedClaim reads the status outside any transaction ...
ReadFailed(w) ==
    /\ worker[w].phase = "failed"
    /\ worker' = IF run.status = "COMPLETED"
                 THEN [worker EXCEPT ![w] = Idle]
                 ELSE [worker EXCEPT ![w].phase = "release",
                                     ![w].seen = run.status]
    /\ UNCHANGED <<db, faults>>

\* Mutant: the update does not ask whose claim it releases.
Mutant_ReleaseFailed(w) ==
    /\ worker[w].phase = "release"
    /\ run' = [run EXCEPT !.status = IF worker[w].seen = "FINALIZING"
                                     THEN "FINALIZING" ELSE "READY",
                          !.token = NoToken, !.lease = 0]
    /\ Return(w)
    /\ UNCHANGED <<market, proposal, pos, collateral, treasury, wallet,
                   settled, faults, promise>>

\* ... and hands the run back with the status it read, if it is still w's.
ReleaseFailed(w) ==
    /\ worker[w].phase = "release"
    /\ run' = IF run.token = worker[w].token
              THEN [run EXCEPT !.status = IF worker[w].seen = "FINALIZING"
                                          THEN "FINALIZING" ELSE "READY",
                               !.token = NoToken, !.lease = 0]
              ELSE run
    /\ Return(w)
    /\ UNCHANGED <<market, proposal, pos, collateral, treasury, wallet,
                   settled, faults, promise>>

----------------------------------------------------------------------------
\* A transaction fails without effect (conflicts exhausted, a timeout), or
\* the process dies.
TransactionFails(w) ==
    /\ worker[w].phase \in {"batch", "finalize"}
    /\ Fault
    /\ Enter(w, "failed", worker[w].token)
    /\ UNCHANGED db
Crash(w) ==
    /\ worker[w].phase # "idle"
    /\ Fault
    /\ Return(w)
    /\ UNCHANGED db

InTransaction == {"claim", "batch", "finalize"}

\* Time passes; a transaction fails before it is older than MaxAge.
Tick ==
    /\ \A w \in Workers : worker[w].phase \in InTransaction =>
                             worker[w].age < MaxAge
    /\ worker' = [w \in Workers |->
                    IF worker[w].phase \in InTransaction
                    THEN [worker[w] EXCEPT !.age = @ + 1] ELSE worker[w]]
    /\ run' = [run EXCEPT !.lease = IF run.token = NoToken \/ @ = -MaxAge
                                    THEN @ ELSE @ - 1]
    /\ worker' # worker \/ run' # run
    /\ UNCHANGED <<market, proposal, pos, collateral, treasury, wallet,
                   settled, faults, promise>>

Work(w) ==
    \/ Start(w) \/ Claim(w) \/ ClaimRefused(w)
    \/ \E size \in BatchSizes : Batch(w, size)
    \/ BatchEmpty(w) \/ BatchFails(w)
    \/ Finalize(w) \/ FinalizeFails(w)
    \/ ReadFailed(w) \/ ReleaseFailed(w)

Next ==
    \/ \E admin \in Admins, outcome \in Outcomes : Propose(admin, outcome)
    \/ \E admin \in Admins : Reject(admin) \/ Approve(admin)
    \/ \E p \in Positions : Redeem(p)
    \/ \E w \in Workers : Work(w) \/ TransactionFails(w) \/ Crash(w)
    \/ Tick

Spec == Init /\ [][Next]_vars

\* The worker processes loop for ever, and time passes.
Fairness == (\A w \in Workers : WF_vars(Work(w))) /\ WF_vars(Tick)
FairSpec == Spec /\ Fairness

----------------------------------------------------------------------------

\* Whoever settled it and however often it was tried, a position is paid
\* exactly what its contracts were worth at the approval, or nothing yet, and
\* the contracts are gone exactly when they are paid.
PaidAsOwed ==
    \A p \in Positions :
        /\ p \in settled => wallet[p] = promise.owed[p] /\ ~Holds(p)
        /\ p \notin settled => wallet[p] = 0
        /\ p \in promise.due \ settled =>
              Holds(p) /\ Payout(pos[p], run.outcome) = promise.owed[p]

\* The collateral can always pay what is still owed (also in a void market,
\* whatever the rounding), and no money appears or disappears.
BooksBalance ==
    run.status # "NONE" =>
        /\ collateral >= SumFunction([p \in promise.due \ settled |->
                                         promise.owed[p]])
        /\ collateral + treasury + PaidTo(Positions)
              = promise.collateral

\* Neither a late release with a status read earlier nor a takeover sets a
\* run back: finalizing runs are not handed back as READY, completed runs
\* do not change, the cursor only advances, and a market's outcome is final.
RunAdvances ==
    [][/\ run.status = "FINALIZING" => run'.status \in {"FINALIZING", "COMPLETED"}
       /\ run.status = "COMPLETED" => run' = run /\ market' = market
       /\ run'.cursor >= run.cursor
       /\ run.status # "NONE" => market'.resolution = market.resolution]_vars

\* The settlement promise, implemented.
Stage == CASE run.status = "NONE" -> "TRADING"
           [] run.status = "COMPLETED" -> "CLOSED"
           [] OTHER -> "SETTLING"

Promise == INSTANCE SettlementPromise
             WITH stage <- Stage, holders <- promise.due,
                  owed <- promise.owed, received <- wallet

\* What workers do to a run is what the promise allows: everybody is paid
\* exactly once before the market closes, and nothing else happens.
KeepsPromise == Promise!Spec

\* From some time on, no transaction takes as long as a lease.
Prompt == <>[](\A w \in Workers : worker[w].age < Lease)

\* An approved market is settled in the end, although workers crash and lose
\* answers: another claims the run when the lease has expired.
EventuallySettled ==
    Prompt => ((run.status # "NONE") ~> (run.status = "COMPLETED"))

\* ARCHITECTURE.md:156 says that the proposer of an outcome cannot approve it.
SeparateApprover ==
    proposal.status = "APPROVED" => proposal.approver # proposal.proposer
=============================================================================
