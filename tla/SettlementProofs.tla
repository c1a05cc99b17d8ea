-------------------------- MODULE SettlementProofs --------------------------
(***************************************************************************)
(* For any positions, payouts, workers, batch sizes, leases and faults:    *)
(* everybody is paid what was owed, once; a run only advances; what        *)
(* workers do implements SettlementPromise; and the collateral always      *)
(* covers what is still owed, with no money made or lost.                  *)
(***************************************************************************)
EXTENDS Settlement, WellFoundedInduction, FiniteSetTheorems, TLAPS

Statuses == {"NONE", "COMPLETED"} \union Unfinished
Phases == {"idle", "claim", "batch", "finalize", "failed", "release"}
Claims == Tokens \union {NoToken}
CallRows == [phase : Phases, token : Claims, age : Nat, seen : Statuses]
Holdings == [yes : Nat, no : Nat]

\* The amounts of a run are any values.
Typed ==
    /\ market \in [status : {market.status}, resolution : {market.resolution}]
    /\ pos \in [Positions -> Holdings]
    /\ wallet \in [Positions -> Nat]
    /\ run \in [status : Statuses, outcome : {run.outcome}, token : Claims,
                lease : {run.lease}, cursor : Nat, total : {run.total},
                processed : {run.processed}, payout : {run.payout}]
    /\ worker \in [Workers -> CallRows]

\* No two workers hold the same claim.
TokensApart ==
    \A v, w \in Workers :
        v # w => worker[v].token # worker[w].token \/ worker[w].token = NoToken

\* A worker that works on a claim has one, and until somebody else claims the
\* run the status it will hand it back with is still right.
CallFits(call, token, status) ==
    /\ call.phase \notin {"idle", "claim"} => call.token # NoToken
    /\ call.phase = "release" /\ call.token = token =>
          (call.seen = "FINALIZING" <=> status = "FINALIZING")

CallsFit == \A w \in Workers : CallFits(worker[w], run.token, run.status)

\* Contracts are held by those the run has yet to pay, and by nobody else.
RunFits ==
    /\ run.status = "NONE" <=> market.status = "CLOSED"
    /\ run.token # NoToken => run.status \in {"RUNNING", "FINALIZING"}
    /\ run.status = "NONE" =>
          /\ promise.due = {} /\ settled = {}
          /\ promise.owed = [p \in Positions |-> 0]
          /\ wallet = [p \in Positions |-> 0]
          /\ run.cursor = 0
    /\ promise.due \subseteq Positions /\ settled \subseteq promise.due
    /\ run.status # "NONE" =>
          \A p \in Positions : Holds(p) => p \in promise.due \ settled
    /\ promise.owed \in [Positions -> Nat]
    /\ run.status = "COMPLETED" => settled = promise.due

IInv == Typed /\ TokensApart /\ CallsFit /\ RunFits /\ PaidAsOwed

\* The action of RunAdvances.
Advances ==
    /\ run.status = "FINALIZING" => run'.status \in {"FINALIZING", "COMPLETED"}
    /\ run.status = "COMPLETED" => run' = run /\ market' = market
    /\ run'.cursor >= run.cursor
    /\ run.status # "NONE" => market'.resolution = market.resolution

\* A step as the theorems want it.
Good == IInv' /\ Advances /\ [Promise!Next]_(Promise!vars)

LEMMA Constant ==
    /\ PositionCount \in Nat /\ PayoutMilli \in Nat
    /\ Portfolios \subseteq [Positions -> Holdings]
    /\ NoToken \notin Tokens
    /\ Positions \subseteq Nat
BY SettlementAssumption DEF Holdings, Positions

LEMMA PayoutIsNat ==
    ASSUME NEW holding \in Holdings, NEW outcome
    PROVE  Payout(holding, outcome) \in Nat
<1>1. holding.yes \in Nat /\ holding.no \in Nat
  BY DEF Holdings
<1>. DEFINE yes == PayoutMilli * holding.yes
            no == PayoutMilli * holding.no
<1>2. /\ yes \in Nat /\ no \in Nat
      /\ PayoutMilli * (holding.yes + holding.no) \in Nat
  BY <1>1, Constant
<1>3. Payout(holding, outcome) =
        CASE outcome = "YES" -> yes [] outcome = "NO" -> no
          [] OTHER -> (yes + no) \div 2
  BY DEF Payout
<1>. HIDE DEF yes, no
<1>4. (yes + no) \div 2 \in Nat
  BY <1>2
<1>. QED
  BY <1>2, <1>3, <1>4

\* The greatest of some positions, which is the new cursor after a batch.
LEMMA GreatestPosition ==
    ASSUME NEW batch \in SUBSET Positions, batch # {}
    PROVE  \E p \in batch : \A q \in batch : p >= q
<1>. DEFINE distances == {n \in Nat : PositionCount - n \in batch}
<1>1. \A p \in batch : p \in Nat /\ p <= PositionCount
                       /\ PositionCount - p \in distances
  BY Constant DEF Positions
<1>2. distances # {} /\ distances \subseteq Nat
  BY <1>1
<1>. HIDE DEF distances
<1>3. PICK n \in distances : \A m \in distances : <<m, n>> \notin OpToRel(<, Nat)
  BY <1>2, WFMin, NatLessThanWellFounded, Zenon
<1>4. \A m \in distances : ~(m < n)
  BY <1>2, <1>3, Zenon DEF OpToRel
<1>5. PositionCount - n \in batch
  BY DEF distances
<1>6. \A q \in batch : PositionCount - n >= q
  BY <1>1, <1>2, <1>4, Constant
<1>. QED
  BY <1>5, <1>6

LEMMA InitFits == Init => IInv
<1>. SUFFICES ASSUME Init
              PROVE  IInv
  OBVIOUS
<1>. USE DEF Init
<1>1. Idle \in CallRows /\ Idle.token = NoToken /\ Idle.phase = "idle"
  BY DEF Idle, CallRows, Phases, Claims, Statuses
<1>2. Typed
  BY <1>1, Constant DEF Typed, NoRun, Statuses, Claims
<1>3. TokensApart /\ CallsFit
  BY <1>1 DEF TokensApart, CallsFit, CallFits
<1>4. RunFits /\ PaidAsOwed
  BY DEF RunFits, PaidAsOwed, NoRun
<1>. QED
  BY <1>2, <1>3, <1>4 DEF IInv

LEMMA InitPromised == Init => Promise!Init
BY DEF Init, Promise!Init, Stage, NoRun

----------------------------------------------------------------------------
\* Steps in which a worker moves.

LEMMA IdleRow == Idle \in CallRows /\ Idle.phase = "idle" /\ Idle.token = NoToken
BY DEF Idle, CallRows, Phases, Claims, Statuses

LEMMA EntersRow ==
    ASSUME NEW w, NEW phase \in Phases, NEW token \in Claims, Enter(w, phase, token)
    PROVE  \E call \in CallRows :
              /\ call.phase = phase /\ call.token = token
              /\ worker' = [worker EXCEPT ![w] = call]
<1>. DEFINE call == [Idle EXCEPT !.phase = phase, !.token = token]
<1>1. call \in CallRows /\ call.phase = phase /\ call.token = token
  BY IdleRow DEF CallRows
<1>2. worker' = [worker EXCEPT ![w] = call]
  BY DEF Enter
<1>. QED
  BY <1>1, <1>2

\* The workers after a step of one of them: the others only have to know
\* that whoever is to hand the run back still knows its status.
LEMMA CallsKept ==
    ASSUME IInv, NEW w \in Workers, NEW call \in CallRows,
           worker' = [worker EXCEPT ![w] = call],
           CallFits(call, run'.token, run'.status),
           \A v \in Workers \ {w} :
              /\ call.token # worker[v].token \/ call.token = NoToken
              /\ CallFits(worker[v], run'.token, run'.status)
    PROVE  TokensApart' /\ CallsFit' /\ worker' \in [Workers -> CallRows]
<1>1. worker \in [Workers -> CallRows]
  BY DEF IInv, Typed
<1>2. TokensApart
  BY DEF IInv
<1>3. worker' \in [Workers -> CallRows]
  BY <1>1
<1>4. TokensApart'
  BY <1>1, <1>2 DEF TokensApart
<1>5. CallsFit'
  <2>1. ASSUME NEW v \in Workers
        PROVE  CallFits(worker'[v], run'.token, run'.status)
    BY <1>1
  <2>. QED
    BY <2>1 DEF CallsFit
<1>. QED
  BY <1>3, <1>4, <1>5

\* A step the promise does not see.
LEMMA Unseen ==
    ASSUME UNCHANGED <<promise, settled, wallet>>,
           run.status = "NONE" <=> run'.status = "NONE",
           run.status = "COMPLETED" <=> run'.status = "COMPLETED"
    PROVE  [Promise!Next]_(Promise!vars)
BY DEF Promise!vars, Stage

\* The rows stay, whatever one worker does.
LEMMA RowsStay ==
    ASSUME IInv, UNCHANGED db, TokensApart', CallsFit',
           worker' \in [Workers -> CallRows]
    PROVE  Good
<1>. USE DEF db
<1>1. Typed'
  BY DEF IInv, Typed
<1>2. RunFits' /\ PaidAsOwed'
  BY DEF IInv, RunFits, PaidAsOwed, Holds
<1>3. Advances
  BY DEF IInv, Typed, Advances
<1>. QED
  BY <1>1, <1>2, <1>3, Unseen DEF Good, IInv

\* A worker moves on, with the claim it has or without one.
LEMMA WorkerMoves ==
    ASSUME IInv, NEW w \in Workers, NEW call \in CallRows, UNCHANGED db,
           worker' = [worker EXCEPT ![w] = call],
           call.token \in {NoToken, worker[w].token},
           CallFits(call, run.token, run.status)
    PROVE  Good
<1>1. \A v \in Workers \ {w} :
         /\ call.token # worker[v].token \/ call.token = NoToken
         /\ CallFits(worker[v], run.token, run.status)
  BY DEF IInv, TokensApart, CallsFit
<1>2. run' = run
  BY DEF db
<1>. QED
  BY <1>1, <1>2, CallsKept, RowsStay

LEMMA WorkerReturns ==
    ASSUME IInv, NEW w \in Workers, Return(w), UNCHANGED db
    PROVE  Good
BY IdleRow, WorkerMoves DEF Return, CallFits

LEMMA WorkerFails ==
    ASSUME IInv, NEW w \in Workers, Enter(w, "failed", worker[w].token),
           worker[w].phase \in {"batch", "finalize"}, UNCHANGED db
    PROVE  Good
<1>1. worker[w] \in CallRows /\ worker[w].token # NoToken
  BY DEF IInv, Typed, CallsFit, CallFits
<1>2. PICK call \in CallRows : /\ call.phase = "failed"
                               /\ call.token = worker[w].token
                               /\ worker' = [worker EXCEPT ![w] = call]
  BY <1>1, EntersRow DEF CallRows, Phases
<1>. QED
  BY <1>1, <1>2, WorkerMoves DEF CallFits

----------------------------------------------------------------------------
\* Before the run exists.

LEMMA ProposeIsGood ==
    ASSUME IInv, NEW admin, NEW outcome, Propose(admin, outcome) \/ Reject(admin)
    PROVE  Good
<1>1. UNCHANGED <<market, pos, wallet, settled, run, worker, promise>>
  BY DEF Propose, Reject
<1>2. IInv'
  BY <1>1 DEF IInv, Typed, TokensApart, CallsFit, CallFits, RunFits,
              PaidAsOwed, Holds
<1>3. Advances
  BY <1>1 DEF IInv, Typed, Advances
<1>. QED
  BY <1>1, <1>2, <1>3, Unseen DEF Good

LEMMA RedeemIsGood ==
    ASSUME IInv, NEW p \in Positions, Redeem(p)
    PROVE  Good
<1>1. /\ UNCHANGED <<market, wallet, settled, run, worker, promise>>
      /\ market.status = "CLOSED"
      /\ pos[p].yes > 0 /\ pos[p].no > 0
      /\ pos' = [pos EXCEPT ![p] = [yes |-> @.yes - 1, no |-> @.no - 1]]
  BY DEF Redeem
<1>2. run.status = "NONE" /\ promise.due = {} /\ settled = {}
  BY <1>1 DEF IInv, RunFits
<1>3. Typed'
  <2>1. pos[p].yes \in Nat /\ pos[p].no \in Nat
    BY DEF IInv, Typed, Holdings
  <2>2. [yes |-> pos[p].yes - 1, no |-> pos[p].no - 1] \in Holdings
    BY <1>1, <2>1 DEF Holdings
  <2>. QED
    BY <1>1, <2>2 DEF IInv, Typed
<1>4. TokensApart' /\ CallsFit'
  BY <1>1 DEF IInv, TokensApart, CallsFit, CallFits
<1>5. RunFits' /\ PaidAsOwed'
  BY <1>1, <1>2 DEF IInv, RunFits, PaidAsOwed
<1>6. Advances
  BY <1>1 DEF IInv, Typed, Advances
<1>. QED
  BY <1>1, <1>3, <1>4, <1>5, <1>6, Unseen DEF Good, IInv

\* The approval creates the run and fixes what is owed.
LEMMA ApproveIsGood ==
    ASSUME IInv, NEW admin, Approve(admin)
    PROVE  Good
<1>. DEFINE holders == {p \in Positions : Holds(p)}
            owed == [p \in Positions |-> Payout(pos[p], proposal.outcome)]
<1>1. /\ market.status = "CLOSED" /\ run.status = "NONE"
      /\ market' = [status |-> "RESOLVING", resolution |-> proposal.outcome]
      /\ promise'.due = holders /\ promise'.owed = owed
      /\ UNCHANGED <<pos, wallet, settled, worker>>
  BY DEF Approve
<1>2. /\ run' \in [status : Statuses, outcome : {run'.outcome}, token : Claims,
                    lease : {run'.lease}, cursor : Nat, total : {run'.total},
                    processed : {run'.processed}, payout : {run'.payout}]
      /\ run'.status = "READY" /\ run'.outcome = proposal.outcome
      /\ run'.token = NoToken /\ run'.cursor = 0
  BY DEF Approve, NoRun, Statuses, Unfinished, Claims
<1>3. /\ run.token = NoToken /\ promise.due = {} /\ settled = {}
      /\ wallet = [p \in Positions |-> 0] /\ run.cursor = 0
  BY <1>1 DEF IInv, RunFits
<1>4. owed \in [Positions -> Nat]
  BY PayoutIsNat DEF IInv, Typed
<1>5. Typed'
  BY <1>1, <1>2 DEF IInv, Typed
<1>6. TokensApart'
  BY <1>1 DEF IInv, TokensApart
<1>7. CallsFit'
  BY <1>1, <1>2, <1>3 DEF IInv, CallsFit, CallFits
<1>8. RunFits'
  BY <1>1, <1>2, <1>3, <1>4 DEF RunFits, Holds
<1>9. PaidAsOwed'
  BY <1>1, <1>2, <1>3 DEF PaidAsOwed, Holds
<1>10. Advances
  BY <1>1, <1>2, <1>3 DEF IInv, Typed, Advances
<1>11. [Promise!Next]_(Promise!vars)
  <2>1. Stage = "TRADING" /\ Stage' = "SETTLING"
    BY <1>1, <1>2 DEF Stage
  <2>. QED
    BY <1>1, <1>4, <2>1 DEF Promise!Next, Promise!Decide
<1>. QED
  BY <1>5, <1>6, <1>7, <1>8, <1>9, <1>10, <1>11 DEF Good, IInv

----------------------------------------------------------------------------
\* The run changes hands or status, and nothing else.
LEMMA RunMoves ==
    ASSUME IInv, UNCHANGED <<market, pos, wallet, settled, promise>>,
           TokensApart', CallsFit', worker' \in [Workers -> CallRows],
           NEW status \in Unfinished, NEW token \in Claims, NEW lease,
           run' = [run EXCEPT !.status = status, !.token = token, !.lease = lease],
           run.status \in Unfinished,
           token # NoToken => status # "READY",
           run.status = "FINALIZING" => status = "FINALIZING"
    PROVE  Good
<1>1. /\ run' \in [status : Statuses, outcome : {run'.outcome}, token : Claims,
                    lease : {run'.lease}, cursor : Nat, total : {run'.total},
                    processed : {run'.processed}, payout : {run'.payout}]
      /\ run'.status = status /\ run'.outcome = run.outcome
      /\ run'.token = token /\ run'.cursor = run.cursor
  BY DEF IInv, Typed, Statuses
<1>2. status \notin {"NONE", "COMPLETED"} /\ run.status \notin {"NONE", "COMPLETED"}
  BY DEF Unfinished
<1>3. Typed'
  BY <1>1 DEF IInv, Typed
<1>4. RunFits'
  BY <1>1, <1>2 DEF IInv, RunFits, Unfinished, Holds
<1>5. PaidAsOwed'
  BY <1>1 DEF IInv, PaidAsOwed, Holds
<1>6. Advances
  BY <1>1, <1>2 DEF IInv, Typed, Advances
<1>. QED
  BY <1>1, <1>2, <1>3, <1>4, <1>5, <1>6, Unseen DEF Good, IInv

LEMMA ClaimIsGood ==
    ASSUME IInv, NEW w \in Workers, Claim(w)
    PROVE  Good
<1>. DEFINE status == IF run.status = "FINALIZING" THEN "FINALIZING" ELSE "RUNNING"
            phase == IF run.status = "FINALIZING" THEN "finalize" ELSE "batch"
            lease == Lease - worker[w].age
<1>1. /\ run.status \in Unfinished
      /\ UNCHANGED <<market, pos, wallet, settled, promise>>
  BY DEF Claim, Claimable
<1>2. PICK token \in Fresh :
         /\ run' = [run EXCEPT !.token = token, !.lease = lease, !.status = status]
         /\ Enter(w, phase, token) \/ Return(w)
  BY DEF Claim, Answer
<1>3. /\ token \in Tokens /\ token \in Claims /\ token # NoToken
      /\ \A v \in Workers : worker[v].token # token
  BY Constant DEF Fresh, Claims
<1>4. run' = [run EXCEPT !.status = status, !.token = token, !.lease = lease]
  BY <1>2 DEF IInv, Typed
<1>5. run'.status = status /\ run'.token = token
  BY <1>2 DEF IInv, Typed
<1>6. PICK call \in CallRows :
         /\ worker' = [worker EXCEPT ![w] = call]
         /\ \/ call.phase = phase /\ call.token = token
            \/ call.phase = "idle" /\ call.token = NoToken
  <2>1. phase \in Phases
    BY DEF Phases
  <2>. HIDE DEF phase
  <2>2. CASE Enter(w, phase, token)
    BY <1>3, <2>1, <2>2, EntersRow
  <2>3. CASE Return(w)
    BY <2>3, IdleRow DEF Return
  <2>. QED
    BY <1>2, <2>2, <2>3
<1>7. CallFits(call, token, status)
  BY <1>3, <1>6 DEF CallFits
<1>8. \A v \in Workers \ {w} : CallFits(worker[v], token, status)
  BY <1>3 DEF IInv, CallsFit, CallFits
<1>9. TokensApart' /\ CallsFit' /\ worker' \in [Workers -> CallRows]
  <2>1. \A v \in Workers \ {w} : call.token # worker[v].token \/ call.token = NoToken
    BY <1>3, <1>6
  <2>. HIDE DEF status
  <2>. QED
    BY <1>5, <1>6, <1>7, <1>8, <2>1, CallsKept
<1>10. status \in Unfinished /\ status # "READY"
       /\ (run.status = "FINALIZING" => status = "FINALIZING")
  BY DEF Unfinished
<1>. HIDE DEF status, lease
<1>. QED
  BY <1>1, <1>3, <1>4, <1>9, <1>10, RunMoves

\* What a worker whose transaction committed does next: one of two things,
\* with the claim it has or with none, and nothing that hands a run back.
LEMMA AnswerRow ==
    ASSUME IInv, NEW w \in Workers, worker[w].phase \in {"batch", "finalize"},
           \/ Enter(w, "finalize", worker[w].token)
           \/ Enter(w, "failed", worker[w].token)
           \/ Return(w)
    PROVE  \E call \in CallRows :
              /\ worker' = [worker EXCEPT ![w] = call]
              /\ call.token \in {NoToken, worker[w].token}
              /\ \A token, status : CallFits(call, token, status)
<1>. DEFINE token == worker[w].token
<1>1. token \in Claims /\ token # NoToken
  BY DEF IInv, Typed, CallRows, CallsFit, CallFits
<1>. HIDE DEF token
<1>2. ASSUME NEW phase \in {"finalize", "failed"}, Enter(w, phase, token)
      PROVE  \E call \in CallRows : /\ call.phase = phase /\ call.token = token
                                    /\ worker' = [worker EXCEPT ![w] = call]
  <2>1. phase \in Phases
    BY DEF Phases
  <2>. QED
    BY <1>1, <1>2, <2>1, EntersRow
<1>3. PICK call \in CallRows :
         /\ worker' = [worker EXCEPT ![w] = call]
         /\ \/ call.phase \in {"finalize", "failed"} /\ call.token = token
            \/ call.phase = "idle" /\ call.token = NoToken
  <2>1. CASE Enter(w, "finalize", token)
    BY <1>2, <2>1
  <2>2. CASE Enter(w, "failed", token)
    BY <1>2, <2>2
  <2>3. CASE Return(w)
    BY <2>3, IdleRow DEF Return
  <2>. QED
    BY <2>1, <2>2, <2>3 DEF token
<1>. QED
  BY <1>1, <1>3 DEF CallFits, token

\* The owner of a run gives it another status, and keeps its claim or lets go
\* of it: nobody else was going to hand it back.
LEMMA OwnerMoves ==
    ASSUME IInv, NEW w \in Workers, worker[w].phase \in {"batch", "finalize"},
           run.token = worker[w].token,
           \/ Enter(w, "finalize", worker[w].token)
           \/ Enter(w, "failed", worker[w].token)
           \/ Return(w),
           run'.token \in {NoToken, run.token}
    PROVE  TokensApart' /\ CallsFit' /\ worker' \in [Workers -> CallRows]
<1>1. PICK call \in CallRows :
         /\ worker' = [worker EXCEPT ![w] = call]
         /\ call.token \in {NoToken, worker[w].token}
         /\ \A token, status : CallFits(call, token, status)
  BY AnswerRow
<1>2. ASSUME NEW v \in Workers \ {w}
      PROVE  /\ call.token # worker[v].token \/ call.token = NoToken
             /\ CallFits(worker[v], run'.token, run'.status)
  <2>1. worker[v].token # worker[w].token \/ worker[v].token = NoToken
    BY DEF IInv, TokensApart
  <2>2. worker[v].phase = "release" => worker[v].token # run'.token
    BY <2>1 DEF IInv, CallsFit, CallFits
  <2>. QED
    BY <1>1, <2>1, <2>2 DEF IInv, CallsFit, CallFits
<1>. QED
  BY <1>1, <1>2, CallsKept

LEMMA BatchEmptyIsGood ==
    ASSUME IInv, NEW w \in Workers, BatchEmpty(w)
    PROVE  Good
<1>1. /\ worker[w].phase = "batch"
      /\ run.status = "RUNNING" /\ run.token = worker[w].token
      /\ UNCHANGED <<market, pos, wallet, settled, promise>>
      /\ \/ Enter(w, "finalize", worker[w].token)
         \/ Enter(w, "failed", worker[w].token)
  BY DEF BatchEmpty, BatchAllowed, Owns, Answer
<1>2. run' = [run EXCEPT !.status = "FINALIZING"]
  BY DEF BatchEmpty
<1>3. run' = [run EXCEPT !.status = "FINALIZING", !.token = run.token,
                         !.lease = run.lease]
  BY <1>2 DEF IInv, Typed
<1>4. run'.token = run.token /\ run.token \in Claims
  BY <1>2 DEF IInv, Typed
<1>5. TokensApart' /\ CallsFit' /\ worker' \in [Workers -> CallRows]
  BY <1>1, <1>4, OwnerMoves
<1>. QED
  BY <1>1, <1>3, <1>4, <1>5, RunMoves DEF Unfinished

----------------------------------------------------------------------------
\* A batch pays positions that are due, and the promise sees it.
LEMMA BatchIsGood ==
    ASSUME IInv, NEW w \in Workers, NEW size, Batch(w, size)
    PROVE  Good
<1>. DEFINE batch == FirstOf(Due, size)
            left == Due \ batch
            last == CHOOSE p \in batch : \A q \in batch : p >= q
<1>1. /\ worker[w].phase = "batch" /\ batch # {}
      /\ run.status = "RUNNING" /\ run.token = worker[w].token
      /\ batch \intersect settled = {}
      /\ SettlePositions(batch) /\ Advance(batch, left)
      /\ \/ Enter(w, "finalize", worker[w].token)
         \/ Enter(w, "failed", worker[w].token)
         \/ Return(w)
      /\ UNCHANGED <<market, promise>>
  BY DEF Batch, BatchAllowed, Owns, Answer
<1>2. /\ batch \subseteq Positions
      /\ \A p \in batch : Holds(p) /\ p > run.cursor
  BY DEF FirstOf, Due
<1>3. /\ run.status # "NONE" /\ run.status # "COMPLETED"
      /\ batch \subseteq promise.due \ settled
  BY <1>1, <1>2 DEF IInv, RunFits
<1>4. last \in batch
  BY <1>1, <1>2, GreatestPosition
<1>5. last \in Nat /\ last > run.cursor
  BY <1>2, <1>4, Constant
<1>6. /\ run' \in [status : Statuses, outcome : {run'.outcome}, token : Claims,
                    lease : {run'.lease}, cursor : Nat, total : {run'.total},
                    processed : {run'.processed}, payout : {run'.payout}]
      /\ run'.status \in {"FINALIZING", "READY"} /\ run'.outcome = run.outcome
      /\ run'.token \in {NoToken, run.token} /\ run'.cursor = last
      /\ run'.token # NoToken => run'.status = "FINALIZING"
  BY <1>1, <1>5 DEF Advance, IInv, Typed, Statuses, Unfinished, Claims
<1>7. TokensApart' /\ CallsFit' /\ worker' \in [Workers -> CallRows]
  BY <1>1, <1>6, OwnerMoves
<1>8. /\ wallet' = [p \in Positions |->
                      IF p \in batch THEN wallet[p] + Payout(pos[p], run.outcome)
                                     ELSE wallet[p]]
      /\ pos' = [p \in Positions |-> IF p \in batch THEN Empty ELSE pos[p]]
      /\ settled' = settled \union batch
  BY <1>1 DEF SettlePositions
<1>. HIDE DEF batch, left, last
<1>9. \A p \in Positions : Payout(pos[p], run.outcome) \in Nat
  BY PayoutIsNat DEF IInv, Typed
<1>10. Typed'
  <2>1. Empty \in Holdings
    BY DEF Empty, Holdings
  <2>2. pos' \in [Positions -> Holdings] /\ wallet' \in [Positions -> Nat]
    BY <1>8, <1>9, <2>1 DEF IInv, Typed
  <2>. QED
    BY <1>1, <1>6, <1>7, <2>2 DEF IInv, Typed
<1>11. RunFits'
  BY <1>1, <1>2, <1>3, <1>6, <1>8 DEF IInv, RunFits, Holds, Empty
<1>12. \A p \in batch : /\ wallet[p] = 0
                        /\ Payout(pos[p], run.outcome) = promise.owed[p]
                        /\ promise.owed[p] \in Nat
  BY <1>1, <1>2, <1>3 DEF IInv, PaidAsOwed, RunFits
<1>13. PaidAsOwed'
  <2>1. ASSUME NEW p \in Positions
        PROVE  /\ p \in settled' => wallet'[p] = promise'.owed[p] /\ ~Holds(p)'
               /\ p \notin settled' => wallet'[p] = 0
               /\ p \in promise'.due \ settled' =>
                     /\ Holds(p)'
                     /\ Payout(pos'[p], run'.outcome) = promise'.owed[p]
    <3>1. CASE p \in batch
      BY <1>1, <1>8, <1>12, <3>1 DEF Holds, Empty
    <3>2. CASE p \notin batch
      <4>1. pos'[p] = pos[p] /\ wallet'[p] = wallet[p] /\ (Holds(p)' <=> Holds(p))
        BY <1>8, <3>2 DEF Holds
      <4>. QED
        BY <1>1, <1>6, <1>8, <3>2, <4>1 DEF IInv, PaidAsOwed
    <3>. QED
      BY <3>1, <3>2
  <2>. QED
    BY <2>1 DEF PaidAsOwed
<1>14. Advances
  BY <1>1, <1>5, <1>6 DEF IInv, Typed, Advances
<1>15. [Promise!Next]_(Promise!vars)
  <2>1. Stage = "SETTLING" /\ Stage' = "SETTLING"
    BY <1>3, <1>6 DEF Stage
  <2>2. wallet' = [p \in Positions |-> IF p \in batch
                                      THEN wallet[p] + promise.owed[p]
                                      ELSE wallet[p]]
    BY <1>8, <1>12
  <2>3. Promise!Pay(batch)
    BY <1>1, <1>8, <2>1, <2>2 DEF Promise!Pay
  <2>. QED
    BY <1>3, <2>3 DEF Promise!Next
<1>. QED
  BY <1>7, <1>10, <1>11, <1>13, <1>14, <1>15 DEF Good, IInv

\* Finalization finds nobody left to pay: the promise is kept.
LEMMA FinalizeIsGood ==
    ASSUME IInv, NEW w \in Workers, Finalize(w)
    PROVE  Good
<1>1. /\ worker[w].phase = "finalize"
      /\ run.status = "FINALIZING" /\ run.token = worker[w].token
      /\ \A p \in Positions : ~Holds(p)
      /\ \/ Enter(w, "failed", worker[w].token)
         \/ Return(w)
      /\ UNCHANGED <<pos, wallet, settled, promise>>
  BY DEF Finalize, FinalizeAllowed, Complete, Owns, Answer
<1>2. market' = [market EXCEPT !.status = IF run.outcome = "VOID"
                                          THEN "VOID" ELSE "RESOLVED"]
  BY DEF Finalize
<1>3. run' = [run EXCEPT !.status = "COMPLETED", !.token = NoToken, !.lease = 0]
  BY DEF Finalize
<1>4. /\ run' \in [status : Statuses, outcome : {run'.outcome}, token : Claims,
                    lease : {run'.lease}, cursor : Nat, total : {run'.total},
                    processed : {run'.processed}, payout : {run'.payout}]
      /\ run'.status = "COMPLETED" /\ run'.outcome = run.outcome
      /\ run'.token = NoToken /\ run'.cursor = run.cursor
  BY <1>3 DEF IInv, Typed, Statuses, Claims
<1>5. /\ market' \in [status : {market'.status}, resolution : {market'.resolution}]
      /\ market'.status # "CLOSED" /\ market'.resolution = market.resolution
  BY <1>2 DEF IInv, Typed
<1>6. TokensApart' /\ CallsFit' /\ worker' \in [Workers -> CallRows]
  BY <1>1, <1>4, OwnerMoves
<1>7. settled = promise.due
  <2>1. ASSUME NEW p \in promise.due \ settled
        PROVE  FALSE
    BY <1>1, <2>1 DEF IInv, RunFits, PaidAsOwed
  <2>. QED
    BY <2>1 DEF IInv, RunFits
<1>8. Typed'
  BY <1>1, <1>4, <1>5, <1>6 DEF IInv, Typed
<1>9. RunFits'
  BY <1>1, <1>4, <1>5, <1>7 DEF IInv, RunFits, Holds
<1>10. PaidAsOwed'
  BY <1>1, <1>4 DEF IInv, PaidAsOwed, Holds
<1>11. Advances
  BY <1>1, <1>4, <1>5 DEF IInv, Typed, Advances
<1>12. [Promise!Next]_(Promise!vars)
  <2>1. Stage = "SETTLING" /\ Stage' = "CLOSED"
    BY <1>1, <1>4 DEF Stage
  <2>. QED
    BY <1>1, <1>7, <2>1 DEF Promise!Next, Promise!Close
<1>. QED
  BY <1>6, <1>8, <1>9, <1>10, <1>11, <1>12 DEF Good, IInv

----------------------------------------------------------------------------
\* A failed worker remembers the status it read ...
LEMMA ReadFailedIsGood ==
    ASSUME IInv, NEW w \in Workers, ReadFailed(w)
    PROVE  Good
<1>. DEFINE call == [worker[w] EXCEPT !.phase = "release", !.seen = run.status]
<1>1. UNCHANGED db /\ worker[w].phase = "failed"
  BY DEF ReadFailed
<1>2. CASE worker' = [worker EXCEPT ![w] = Idle]
  BY <1>1, <1>2, WorkerReturns DEF Return
<1>3. CASE worker' = [worker EXCEPT ![w].phase = "release", ![w].seen = run.status]
  <2>1. worker[w] \in CallRows /\ run.status \in Statuses
    BY DEF IInv, Typed
  <2>2. /\ call \in CallRows /\ call.phase = "release"
        /\ call.seen = run.status /\ call.token = worker[w].token
    BY <2>1 DEF CallRows, Phases
  <2>3. worker' = [worker EXCEPT ![w] = call]
    BY <1>3 DEF IInv, Typed
  <2>4. worker[w].token # NoToken
    BY <1>1 DEF IInv, CallsFit, CallFits
  <2>. HIDE DEF call
  <2>5. CallFits(call, run.token, run.status)
    BY <2>2, <2>4 DEF CallFits
  <2>. QED
    BY <1>1, <2>2, <2>3, <2>5, WorkerMoves
<1>. QED
  BY <1>2, <1>3 DEF ReadFailed

\* ... which is still the run's status if the claim is.
LEMMA ReleaseFailedIsGood ==
    ASSUME IInv, NEW w \in Workers, ReleaseFailed(w)
    PROVE  Good
<1>1. /\ worker[w].phase = "release" /\ Return(w)
      /\ UNCHANGED <<market, proposal, pos, collateral, treasury, wallet,
                      settled, promise>>
  BY DEF ReleaseFailed
<1>2. CASE run.token # worker[w].token
  <2>1. UNCHANGED db
    BY <1>1, <1>2 DEF ReleaseFailed, db
  <2>. QED
    BY <1>1, <2>1, WorkerReturns
<1>3. CASE run.token = worker[w].token
  <2>. DEFINE status == IF worker[w].seen = "FINALIZING" THEN "FINALIZING"
                                                         ELSE "READY"
  <2>1. run' = [run EXCEPT !.status = status, !.token = NoToken, !.lease = 0]
    BY <1>3 DEF ReleaseFailed
  <2>2. run.token # NoToken /\ (worker[w].seen = "FINALIZING" <=> run.status = "FINALIZING")
    BY <1>1, <1>3 DEF IInv, CallsFit, CallFits
  <2>3. run.status \in Unfinished
    BY <2>2 DEF IInv, RunFits, Unfinished
  <2>4. /\ status \in Unfinished /\ NoToken \in Claims
        /\ run.status = "FINALIZING" => status = "FINALIZING"
    BY <2>2 DEF Unfinished, Claims
  <2>. HIDE DEF status
  <2>5. run'.token = NoToken /\ run'.status = status
    BY <2>1 DEF IInv, Typed
  <2>6. CallFits(Idle, run'.token, run'.status)
    BY IdleRow DEF CallFits
  <2>7. \A v \in Workers : CallFits(worker[v], run'.token, run'.status)
    BY <2>5 DEF IInv, CallsFit, CallFits
  <2>8. worker' = [worker EXCEPT ![w] = Idle]
    BY <1>1 DEF Return
  <2>9. TokensApart' /\ CallsFit' /\ worker' \in [Workers -> CallRows]
    BY <2>6, <2>7, <2>8, IdleRow, CallsKept
  <2>. QED
    BY <1>1, <2>1, <2>3, <2>4, <2>9, RunMoves
<1>. QED
  BY <1>2, <1>3

\* Time passes.
LEMMA TickIsGood ==
    ASSUME IInv, Tick
    PROVE  Good
<1>. DEFINE older(w) == [worker[w] EXCEPT !.age = @ + 1]
<1>1. /\ UNCHANGED <<market, pos, wallet, settled, promise>>
      /\ worker' = [w \in Workers |-> IF worker[w].phase \in InTransaction
                                      THEN older(w) ELSE worker[w]]
  BY DEF Tick
<1>2. PICK lease : run' = [run EXCEPT !.lease = lease]
  BY DEF Tick
<1>3. /\ run' \in [status : Statuses, outcome : {run'.outcome}, token : Claims,
                    lease : {run'.lease}, cursor : Nat, total : {run'.total},
                    processed : {run'.processed}, payout : {run'.payout}]
      /\ run'.status = run.status /\ run'.outcome = run.outcome
      /\ run'.token = run.token /\ run'.cursor = run.cursor
  BY <1>2 DEF IInv, Typed
<1>4. \A w \in Workers :
         /\ worker[w] \in CallRows /\ older(w) \in CallRows
         /\ older(w).phase = worker[w].phase /\ older(w).token = worker[w].token
         /\ older(w).seen = worker[w].seen
  BY DEF IInv, Typed, CallRows
<1>. HIDE DEF older
<1>5. \A w \in Workers :
         /\ worker'[w] \in CallRows
         /\ worker'[w].phase = worker[w].phase
         /\ worker'[w].token = worker[w].token
         /\ worker'[w].seen = worker[w].seen
  BY <1>1, <1>4
<1>6. Typed'
  BY <1>1, <1>3, <1>5 DEF IInv, Typed
<1>7. TokensApart' /\ CallsFit'
  BY <1>3, <1>5 DEF IInv, TokensApart, CallsFit, CallFits
<1>8. RunFits' /\ PaidAsOwed'
  BY <1>1, <1>3 DEF IInv, RunFits, PaidAsOwed, Holds
<1>9. Advances
  <2>1. run.status = "COMPLETED" => run' = run
    BY DEF Tick, IInv, RunFits, Typed
  <2>. QED
    BY <1>1, <1>3, <2>1 DEF IInv, Typed, Advances
<1>. QED
  BY <1>1, <1>3, <1>6, <1>7, <1>8, <1>9, Unseen DEF Good, IInv

LEMMA StartIsGood ==
    ASSUME IInv, NEW w \in Workers, Start(w)
    PROVE  Good
<1>1. /\ NoToken \in Claims /\ "claim" \in Phases /\ UNCHANGED db
      /\ Enter(w, "claim", NoToken)
  BY DEF Claims, Phases, Start
<1>2. PICK call \in CallRows : /\ call.phase = "claim" /\ call.token = NoToken
                               /\ worker' = [worker EXCEPT ![w] = call]
  BY <1>1, EntersRow
<1>. QED
  BY <1>1, <1>2, WorkerMoves DEF CallFits

\* Errors, refusals and crashes leave the rows alone.
LEMMA FailureIsGood ==
    ASSUME IInv, NEW w \in Workers,
           \/ ClaimRefused(w) \/ BatchFails(w) \/ FinalizeFails(w)
           \/ TransactionFails(w) \/ Crash(w)
    PROVE  Good
<1>1. UNCHANGED db
  BY DEF ClaimRefused, BatchFails, FinalizeFails, TransactionFails, Crash
<1>2. \/ Return(w)
      \/ /\ Enter(w, "failed", worker[w].token)
         /\ worker[w].phase \in {"batch", "finalize"}
  BY DEF ClaimRefused, BatchFails, FinalizeFails, TransactionFails, Crash
<1>. QED
  BY <1>1, <1>2, WorkerReturns, WorkerFails

----------------------------------------------------------------------------
LEMMA StutterIsGood ==
    ASSUME IInv, UNCHANGED vars
    PROVE  Good
<1>1. UNCHANGED db /\ UNCHANGED worker
  BY DEF vars, db
<1>2. TokensApart' /\ CallsFit' /\ worker' \in [Workers -> CallRows]
  BY <1>1 DEF IInv, Typed, TokensApart, CallsFit, CallFits, db
<1>. QED
  BY <1>1, <1>2, RowsStay

LEMMA StepIsGood == IInv /\ [Next]_vars => Good
<1>. SUFFICES ASSUME IInv, [Next]_vars
              PROVE  Good
  OBVIOUS
<1>1. ASSUME NEW admin \in Admins, NEW outcome \in Outcomes, Propose(admin, outcome)
      PROVE  Good
  BY <1>1, ProposeIsGood
<1>2. ASSUME NEW admin \in Admins, Reject(admin) \/ Approve(admin)
      PROVE  Good
  BY <1>2, ProposeIsGood, ApproveIsGood
<1>3. ASSUME NEW p \in Positions, Redeem(p)
      PROVE  Good
  BY <1>3, RedeemIsGood
<1>4. ASSUME NEW w \in Workers, Work(w) \/ TransactionFails(w) \/ Crash(w)
      PROVE  Good
  BY <1>4, StartIsGood, ClaimIsGood, BatchIsGood, BatchEmptyIsGood,
     FinalizeIsGood, ReadFailedIsGood, ReleaseFailedIsGood, FailureIsGood
     DEF Work
<1>. QED
  BY <1>1, <1>2, <1>3, <1>4, TickIsGood, StutterIsGood DEF Next

THEOREM IInvAlways == Spec => []IInv
<1>1. IInv /\ [Next]_vars => IInv'
  BY StepIsGood DEF Good
<1>. QED
  BY InitFits, <1>1, PTL DEF Spec

\* Whichever workers settle it and whatever fails, a position is paid exactly
\* what its contracts were worth at the approval, once.
THEOREM PaidAsOwedAlways == Spec => []PaidAsOwed
<1>1. IInv => PaidAsOwed
  BY DEF IInv
<1>. QED
  BY <1>1, IInvAlways, PTL

\* No late release or takeover sets a run back, and completed runs and
\* outcomes do not change.
THEOREM RunAlwaysAdvances == Spec => RunAdvances
<1>1. IInv /\ [Next]_vars => [Advances]_vars
  BY StepIsGood DEF Good
<1>2. Spec => [][Advances]_vars
  BY <1>1, IInvAlways, PTL DEF Spec
<1>. QED
  BY <1>2 DEF RunAdvances, Advances

\* What workers do to a run implements what settling promises.
THEOREM PromiseKept == Spec => KeepsPromise
<1>1. IInv /\ [Next]_vars => [Promise!Next]_(Promise!vars)
  BY StepIsGood DEF Good
<1>. QED
  BY InitPromised, <1>1, IInvAlways, PTL DEF Spec, KeepsPromise, Promise!Spec

----------------------------------------------------------------------------
\* Every family of subsets of a finite set has a smallest one, by their sizes.
FamilyEnds(S) ==
    \A family \in SUBSET SUBSET S :
        family # {} => \E T \in family : \A R \in family : R \subseteq T => R = T

LEMMA FiniteEnds ==
    ASSUME NEW S, IsFiniteSet(S)
    PROVE  FamilyEnds(S)
<1>. SUFFICES ASSUME NEW family \in SUBSET SUBSET S, family # {}
              PROVE  \E T \in family : \A R \in family : R \subseteq T => R = T
  BY DEF FamilyEnds
<1>. DEFINE sizes == {Cardinality(T) : T \in family}
<1>1. \A T \in family : IsFiniteSet(T) /\ Cardinality(T) \in Nat
  BY FS_Subset, FS_CardinalityType
<1>2. PICK T \in family : \A R \in family : ~(Cardinality(R) < Cardinality(T))
  <2>1. sizes # {} /\ sizes \subseteq Nat
    BY <1>1
  <2>. HIDE DEF sizes
  <2>2. PICK n \in sizes : \A k \in sizes : <<k, n>> \notin OpToRel(<, Nat)
    BY <2>1, WFMin, NatLessThanWellFounded, Zenon
  <2>3. \A k \in sizes : ~(k < n)
    BY <2>1, <2>2, Zenon DEF OpToRel
  <2>. QED
    BY <2>3 DEF sizes
<1>3. ASSUME NEW R \in family, R \subseteq T
      PROVE  R = T
  <2>1. ~(Cardinality(R) < Cardinality(T))
    BY <1>2
  <2>2. Cardinality(R) <= Cardinality(T) /\ (Cardinality(T) = Cardinality(R) => T = R)
    BY <1>1, <1>3, FS_Subset
  <2>. QED
    BY <1>1, <2>1, <2>2
<1>. QED
  BY <1>3

----------------------------------------------------------------------------
\* The books.  The sums of the model are loops that add.
Plus(f, acc, x) == f[x] + acc
AnyOf(S) == CHOOSE x \in S : TRUE
Sums == INSTANCE FoldTheorems WITH Step <- Plus, Pick <- AnyOf

LEMMA SumLaws ==
    /\ Sums!Adds /\ Sums!PicksAny
    /\ \A S : IsFiniteSet(S) => Sums!Finite(S)
<1>1. Sums!Adds /\ Sums!PicksAny
  BY DEF Sums!Adds, Sums!PicksAny, Plus, AnyOf
<1>2. \A S : IsFiniteSet(S) => Sums!Finite(S)
  BY FiniteEnds DEF FamilyEnds, Sums!Finite, Sums!Smallest
<1>. QED
  BY <1>1, <1>2

LEMMA SumIsTotal == \A f : SumFunction(f) = Sums!Total(f, DOMAIN f)
BY DEF SumFunction, SumFunctionOnSet, FoldFunctionOnSet, MapThenFoldSet,
       Sums!Total, Sums!Fold, Sums!MapThenFoldSet, Plus, AnyOf

LEMMA SumOn ==
    ASSUME NEW f, NEW S, DOMAIN f = S
    PROVE  SumFunction(f) = Sums!Total(f, S)
BY SumIsTotal

LEMMA PositionsFinite ==
    /\ IsFiniteSet(Positions)
    /\ \A S \in SUBSET Positions : IsFiniteSet(S)
<1>1. IsFiniteSet(1 .. PositionCount)
  <2>1. 1 \in Int /\ PositionCount \in Int
    BY Constant
  <2>. QED
    BY <2>1, FS_Interval
<1>. QED
  BY <1>1, FS_Subset DEF Positions

NoContracts == SumFunction([p \in Positions |-> pos[p].no])
Owed(S) == SumFunction([p \in S |-> promise.owed[p]])

\* Before the approval every pair of contracts is covered; afterwards what
\* matters is what is owed.
Balanced ==
    /\ collateral \in Int /\ treasury \in Int /\ promise.collateral \in Int
    /\ run.status = "NONE" =>
          /\ treasury = 0
          /\ collateral = PayoutMilli * Pairs
          /\ Pairs = NoContracts
    /\ BooksBalance

LEMMA PairsInt ==
    ASSUME Typed
    PROVE  Pairs \in Nat /\ NoContracts \in Nat
<1>. DEFINE yes == [p \in Positions |-> pos[p].yes]
            no == [p \in Positions |-> pos[p].no]
<1>1. \A p \in Positions : yes[p] \in Nat /\ no[p] \in Nat
  BY DEF Typed, Holdings
<1>2. Pairs = Sums!Total(yes, Positions) /\ NoContracts = Sums!Total(no, Positions)
  BY SumOn DEF Pairs, NoContracts
<1>. HIDE DEF yes, no
<1>. QED
  BY <1>1, <1>2, PositionsFinite, SumLaws, Sums!SumNat

LEMMA InitBalanced == Init => Balanced
<1>. SUFFICES ASSUME Init
              PROVE  Balanced
  OBVIOUS
<1>1. Typed
  BY InitFits DEF IInv
<1>2. Pairs = NoContracts
  BY SettlementAssumption DEF Init, Pairs, NoContracts
<1>3. /\ treasury = 0 /\ promise.collateral = 0 /\ run.status = "NONE"
      /\ collateral = PayoutMilli * Pairs
  BY DEF Init, NoRun
<1>4. collateral \in Int
  BY <1>1, <1>3, PairsInt, Constant
<1>. QED
  BY <1>2, <1>3, <1>4 DEF Balanced, BooksBalance

\* Most steps move no money.
LEMMA NoMoneyMoves ==
    ASSUME Balanced, UNCHANGED <<pos, collateral, treasury, wallet, settled, promise>>,
           run.status = "NONE" <=> run'.status = "NONE"
    PROVE  Balanced'
BY DEF Balanced, BooksBalance, Pairs, NoContracts, PaidTo

LEMMA RedeemBalances ==
    ASSUME IInv, Balanced, NEW p \in Positions, Redeem(p)
    PROVE  Balanced'
<1>. DEFINE yes == [q \in Positions |-> pos[q].yes]
            no == [q \in Positions |-> pos[q].no]
            yes1 == [q \in Positions |-> pos'[q].yes]
            no1 == [q \in Positions |-> pos'[q].no]
<1>1. /\ UNCHANGED <<market, wallet, settled, run, promise, treasury>>
      /\ market.status = "CLOSED"
      /\ pos' = [pos EXCEPT ![p] = [yes |-> @.yes - 1, no |-> @.no - 1]]
      /\ collateral' = collateral - PayoutMilli
  BY DEF Redeem
<1>2. run.status = "NONE"
  BY <1>1 DEF IInv, RunFits
<1>3. \A q \in Positions : pos[q] \in Holdings
  BY DEF IInv, Typed
<1>4. \A q \in Positions : yes[q] \in Int /\ no[q] \in Int
  BY <1>3 DEF Holdings
<1>5. /\ \A q \in Positions \ {p} : yes1[q] = yes[q] /\ no1[q] = no[q]
      /\ yes1[p] = yes[p] - 1 /\ no1[p] = no[p] - 1
  BY <1>1 DEF IInv, Typed
<1>6. /\ Pairs = Sums!Total(yes, Positions) /\ Pairs' = Sums!Total(yes1, Positions)
      /\ NoContracts = Sums!Total(no, Positions)
      /\ NoContracts' = Sums!Total(no1, Positions)
  BY SumOn DEF Pairs, NoContracts
<1>. HIDE DEF yes, no, yes1, no1
<1>7. \A q \in Positions : yes1[q] \in Int /\ no1[q] \in Int
  BY <1>4, <1>5
<1>8. /\ Pairs' = Pairs + (yes1[p] - yes[p])
      /\ NoContracts' = NoContracts + (no1[p] - no[p])
  BY <1>4, <1>5, <1>6, <1>7, PositionsFinite, SumLaws, Sums!SumChange
<1>9. Pairs \in Nat /\ NoContracts \in Nat
  BY PairsInt DEF IInv
<1>10. Pairs' = Pairs - 1 /\ NoContracts' = NoContracts - 1
  BY <1>4, <1>5, <1>8, <1>9
<1>11. /\ collateral = PayoutMilli * Pairs /\ Pairs = NoContracts
       /\ collateral \in Int /\ treasury \in Int /\ promise.collateral \in Int
       /\ treasury = 0
  BY <1>2 DEF Balanced
<1>12. collateral' = PayoutMilli * Pairs'
  BY <1>1, <1>9, <1>10, <1>11, Constant
<1>13. collateral' \in Int
  BY <1>1, <1>11, Constant
<1>14. run'.status = "NONE"
  BY <1>1, <1>2
<1>. QED
  BY <1>1, <1>10, <1>11, <1>12, <1>13, <1>14 DEF Balanced, BooksBalance

\* What a market owes on its contracts is what its pairs are worth: exactly
\* for YES and NO, at most for VOID, where every holder's half is rounded.
LEMMA OwedIsCovered ==
    ASSUME Typed, Pairs = NoContracts, NEW outcome
    PROVE  SumFunction([p \in Positions |-> Payout(pos[p], outcome)])
             <= PayoutMilli * Pairs
<1>. DEFINE yes == [p \in Positions |-> pos[p].yes]
            no == [p \in Positions |-> pos[p].no]
            both == [p \in Positions |-> PayoutMilli * pos[p].yes
                                          + PayoutMilli * pos[p].no]
            yesPay == [p \in Positions |-> PayoutMilli * pos[p].yes]
            noPay == [p \in Positions |-> PayoutMilli * pos[p].no]
            pay == [p \in Positions |-> Payout(pos[p], outcome)]
            twice == [p \in Positions |-> 2 * Payout(pos[p], outcome)]
<1>. DEFINE T(f) == Sums!Total(f, Positions)
<1>1. \A p \in Positions : pos[p] \in Holdings
  BY DEF Typed
<1>2. ASSUME NEW p \in Positions
      PROVE  /\ yes[p] \in Nat /\ no[p] \in Nat /\ pay[p] \in Nat
             /\ yesPay[p] \in Nat /\ noPay[p] \in Nat
             /\ yesPay[p] = PayoutMilli * yes[p] /\ noPay[p] = PayoutMilli * no[p]
             /\ both[p] = yesPay[p] + noPay[p] /\ twice[p] = 2 * pay[p]
  <2>1. pos[p].yes \in Nat /\ pos[p].no \in Nat
    BY <1>1 DEF Holdings
  <2>2. Payout(pos[p], outcome) \in Nat
    BY <1>1, PayoutIsNat
  <2>. QED
    BY <2>1, <2>2, Constant
<1>3. /\ Pairs = T(yes) /\ NoContracts = T(no)
      /\ SumFunction(pay) = T(pay)
  BY SumOn DEF Pairs, NoContracts
<1>4. ASSUME outcome = "YES" PROVE \A p \in Positions : pay[p] = PayoutMilli * yes[p]
  BY <1>4 DEF Payout
<1>5. ASSUME outcome = "NO" PROVE \A p \in Positions : pay[p] = PayoutMilli * no[p]
  BY <1>5 DEF Payout
<1>6. ASSUME outcome \notin {"YES", "NO"}, NEW p \in Positions
      PROVE  twice[p] <= both[p]
  <2>1. pay[p] = both[p] \div 2
    BY <1>6 DEF Payout
  <2>2. both[p] \in Nat /\ pay[p] \in Nat /\ twice[p] = 2 * pay[p]
    BY <1>2
  <2>. HIDE DEF pay, both, twice
  <2>. QED
    BY <2>1, <2>2
<1>. HIDE DEF yes, no, both, yesPay, noPay, pay, twice, T
<1>7. T(yes) \in Nat /\ T(no) \in Nat /\ T(pay) \in Nat
  BY <1>2, PositionsFinite, SumLaws, Sums!SumNat DEF T
<1>11. PayoutMilli * T(yes) \in Nat /\ PayoutMilli * T(no) \in Nat
       /\ T(yes) = T(no)
  <2>1. \A a, b \in Nat : a * b \in Nat
    OBVIOUS
  <2>2. T(yes) = T(no)
    BY <1>3
  <2>. QED
    BY <1>7, <2>1, <2>2, Constant
<1>8. CASE outcome = "YES"
  <2>1. Sums!Scaled(yes, pay, PayoutMilli, Positions)
    BY <1>2, <1>4, <1>8 DEF Sums!Scaled
  <2>2. T(pay) = PayoutMilli * T(yes)
    BY <2>1, Constant, PositionsFinite, SumLaws, Sums!SumScale DEF T
  <2>. QED
    BY <1>3, <1>11, <2>2 DEF pay
<1>9. CASE outcome = "NO"
  <2>1. Sums!Scaled(no, pay, PayoutMilli, Positions)
    BY <1>2, <1>5, <1>9 DEF Sums!Scaled
  <2>2. T(pay) = PayoutMilli * T(no)
    BY <2>1, Constant, PositionsFinite, SumLaws, Sums!SumScale DEF T
  <2>. QED
    BY <1>3, <1>11, <2>2 DEF pay
<1>10. CASE outcome \notin {"YES", "NO"}
  <2>1. /\ T(yesPay) = PayoutMilli * T(yes) /\ T(noPay) = PayoutMilli * T(no)
    <3>1. /\ Sums!Scaled(yes, yesPay, PayoutMilli, Positions)
          /\ Sums!Scaled(no, noPay, PayoutMilli, Positions)
      BY <1>2 DEF Sums!Scaled
    <3>. QED
      BY <3>1, Constant, PositionsFinite, SumLaws, Sums!SumScale DEF T
  <2>2. T(twice) = 2 * T(pay)
    <3>1. Sums!Scaled(pay, twice, 2, Positions)
      BY <1>2 DEF Sums!Scaled
    <3>. QED
      BY <3>1, PositionsFinite, SumLaws, Sums!SumScale DEF T
  <2>3. T(both) = T(yesPay) + T(noPay)
    BY <1>2, PositionsFinite, SumLaws, Sums!SumPlus DEF T
  <2>4. \A p \in Positions : twice[p] \in Int /\ both[p] \in Int /\ twice[p] <= both[p]
    BY <1>2, <1>6, <1>10
  <2>5. T(twice) <= T(both)
    BY <2>4, PositionsFinite, SumLaws, Sums!SumMonotone DEF T
  <2>6. PayoutMilli * T(yes) \in Nat /\ T(yes) = T(no)
    BY <1>11
  <2>7. 2 * T(pay) <= PayoutMilli * T(yes) + PayoutMilli * T(yes)
    BY <2>1, <2>2, <2>3, <2>5, <2>6
  <2>8. T(pay) <= PayoutMilli * T(yes)
    BY <1>7, <2>6, <2>7
  <2>. QED
    BY <1>3, <1>11, <2>8 DEF pay
<1>. QED
  BY <1>8, <1>9, <1>10

LEMMA ApproveBalances ==
    ASSUME IInv, Balanced, NEW admin, Approve(admin)
    PROVE  Balanced'
<1>. DEFINE holders == {p \in Positions : Holds(p)}
            pay == [p \in Positions |-> Payout(pos[p], proposal.outcome)]
            left == [p \in promise'.due \ settled' |-> promise'.owed[p]]
            paid == [p \in Positions |-> wallet'[p]]
<1>1. /\ market.status = "CLOSED" /\ run.status = "NONE"
      /\ promise' = [due |-> holders, owed |-> pay, collateral |-> collateral]
      /\ UNCHANGED <<pos, wallet, settled, collateral, treasury>>
  BY DEF Approve
<1>2. run'.status = "READY"
  BY DEF Approve, NoRun
<1>3. settled = {} /\ wallet = [p \in Positions |-> 0]
  BY <1>1 DEF IInv, RunFits
<1>4. /\ collateral \in Int /\ treasury = 0
      /\ collateral = PayoutMilli * Pairs /\ Pairs = NoContracts
  BY <1>1 DEF Balanced
<1>5. \A p \in Positions : pay[p] \in Nat
  BY PayoutIsNat DEF IInv, Typed
<1>6. SumFunction(pay) <= collateral
  BY <1>4, OwedIsCovered DEF IInv
<1>7. SumFunction(pay) = Sums!Total(pay, Positions)
  BY SumOn
<1>8. /\ SumFunction(left) = Sums!Total(left, holders)
      /\ \A p \in holders : left[p] = pay[p]
      /\ holders \in SUBSET Positions
  <2>1. promise'.due \ settled' = holders /\ promise'.owed = pay
    BY <1>1, <1>3
  <2>. QED
    BY <2>1, SumOn
<1>9. PaidTo(Positions)' = Sums!Total(paid, Positions)
      /\ \A p \in Positions : paid[p] = 0
  BY <1>1, <1>3, SumOn DEF PaidTo
<1>. HIDE DEF pay, left, paid, holders
<1>10. PaidTo(Positions)' = 0
  <2>1. Sums!Total(paid, Positions) = 0
    BY <1>9, PositionsFinite, SumLaws, Sums!SumZero
  <2>. QED
    BY <1>9, <2>1
<1>11. Sums!Total(left, holders) = Sums!Total(pay, holders)
  BY <1>8, PositionsFinite, SumLaws, Sums!SumSame
<1>12. Sums!Total(pay, holders) <= Sums!Total(pay, Positions)
  BY <1>5, <1>8, PositionsFinite, SumLaws, Sums!SumPart
<1>13. /\ Sums!Total(pay, holders) \in Nat /\ Sums!Total(pay, Positions) \in Nat
  BY <1>5, <1>8, PositionsFinite, SumLaws, Sums!SumNat
<1>14. collateral' >= SumFunction(left)
  BY <1>1, <1>4, <1>6, <1>7, <1>8, <1>11, <1>12, <1>13
<1>15. promise'.collateral = collateral
  BY <1>1
<1>. QED
  BY <1>1, <1>2, <1>4, <1>10, <1>14, <1>15 DEF Balanced, BooksBalance, left

\* A batch takes from the collateral what it credits, which is what its
\* positions were owed.
LEMMA BatchBalances ==
    ASSUME IInv, Balanced, NEW w \in Workers, NEW size, Batch(w, size)
    PROVE  Balanced'
<1>. DEFINE batch == FirstOf(Due, size)
            before == promise.due \ settled
            owed == promise.owed
            pay == [p \in batch |-> Payout(pos[p], run.outcome)]
            owing == [p \in before |-> owed[p]]
            owing1 == [p \in promise'.due \ settled' |-> promise'.owed[p]]
            paid == [p \in Positions |-> wallet[p]]
            paid1 == [p \in Positions |-> wallet'[p]]
            more == [p \in Positions |-> IF p \in batch THEN owed[p] ELSE 0]
<1>1. /\ run.status = "RUNNING" /\ batch \intersect settled = {}
      /\ SettlePositions(batch) /\ Advance(batch, Due \ batch)
      /\ UNCHANGED <<market, promise, treasury>>
  BY DEF Batch, BatchAllowed
<1>2. batch \subseteq Positions /\ \A p \in batch : Holds(p)
  BY DEF FirstOf, Due
<1>3. /\ run.status # "NONE" /\ batch \subseteq before
      /\ before \subseteq Positions /\ owed \in [Positions -> Nat]
  BY <1>1, <1>2 DEF IInv, RunFits
<1>4. \A p \in batch : wallet[p] = 0 /\ Payout(pos[p], run.outcome) = owed[p]
  BY <1>2, <1>3 DEF IInv, PaidAsOwed
<1>5. run'.status # "NONE"
  BY <1>1 DEF Advance, IInv, Typed
<1>6. /\ wallet' = [p \in Positions |->
                      IF p \in batch THEN wallet[p] + Payout(pos[p], run.outcome)
                                     ELSE wallet[p]]
      /\ settled' = settled \union batch
      /\ collateral' = collateral - PayoutOf(batch)
  BY <1>1 DEF SettlePositions
<1>7. /\ PayoutOf(batch) = Sums!Total(pay, batch)
      /\ SumFunction(owing) = Sums!Total(owing, before)
      /\ SumFunction(owing1) = Sums!Total(owing1, before \ batch)
      /\ PaidTo(Positions) = Sums!Total(paid, Positions)
      /\ PaidTo(Positions)' = Sums!Total(paid1, Positions)
  <2>1. promise'.due \ settled' = before \ batch
    BY <1>1, <1>6
  <2>2. DOMAIN owing1 = before \ batch
    BY <2>1
  <2>. QED
    BY <2>2, SumOn DEF PayoutOf, PaidTo
<1>8. /\ \A p \in before : owing[p] = owed[p]
      /\ \A p \in before \ batch : owing1[p] = owed[p]
      /\ \A p \in batch : pay[p] = owed[p] /\ more[p] = owed[p]
      /\ \A p \in Positions \ batch : more[p] = 0
      /\ \A p \in Positions : owed[p] \in Nat /\ more[p] \in Int
      /\ \A p \in Positions : paid[p] \in Int /\ paid1[p] = paid[p] + more[p]
  <2>1. \A p \in before \ batch : owing1[p] = owed[p]
    BY <1>1, <1>6
  <2>2. \A p \in Positions : wallet[p] \in Nat
    BY DEF IInv, Typed
  <2>3. \A p \in Positions : paid[p] \in Int /\ paid1[p] = paid[p] + more[p]
    BY <1>2, <1>3, <1>4, <1>6, <2>2
  <2>. QED
    BY <1>2, <1>3, <1>4, <2>1, <2>3
<1>. HIDE DEF batch, pay, owing, owing1, paid, paid1, more, before
<1>9. Sums!Total(pay, batch) = Sums!Total(owed, batch)
  BY <1>2, <1>8, PositionsFinite, SumLaws, Sums!SumSame
<1>10. Sums!Total(owing, before) = Sums!Total(owed, before)
  BY <1>3, <1>8, PositionsFinite, SumLaws, Sums!SumSame
<1>11. Sums!Total(owing1, before \ batch) = Sums!Total(owed, before \ batch)
  <2>1. before \ batch \in SUBSET Positions
    BY <1>3
  <2>. QED
    BY <1>8, <2>1, PositionsFinite, SumLaws, Sums!SumSame
<1>12. Sums!Total(owed, before)
         = Sums!Total(owed, batch) + Sums!Total(owed, before \ batch)
  BY <1>3, <1>8, PositionsFinite, SumLaws, Sums!SumPart
<1>13. /\ Sums!Total(owed, batch) \in Nat
       /\ Sums!Total(owed, before \ batch) \in Nat
       /\ Sums!Total(paid, Positions) \in Int
  <2>1. batch \in SUBSET Positions /\ before \ batch \in SUBSET Positions
    BY <1>2, <1>3
  <2>. QED
    BY <1>8, <2>1, PositionsFinite, SumLaws, Sums!SumNat, Sums!SumInt
<1>14. Sums!Total(more, Positions) = Sums!Total(owed, batch)
  <2>1. Sums!Total(more, Positions)
          = Sums!Total(more, batch) + Sums!Total(more, Positions \ batch)
    <3>1. batch \in SUBSET Positions /\ \A p \in Positions : more[p] \in Nat
      BY <1>2, <1>8
    <3>. QED
      BY <3>1, PositionsFinite, SumLaws, Sums!SumPart
  <2>2. Sums!Total(more, Positions \ batch) = 0
    <3>1. Positions \ batch \in SUBSET Positions
      OBVIOUS
    <3>. QED
      BY <1>8, <3>1, PositionsFinite, SumLaws, Sums!SumZero
  <2>3. Sums!Total(more, batch) = Sums!Total(owed, batch)
    BY <1>2, <1>8, PositionsFinite, SumLaws, Sums!SumSame
  <2>. QED
    BY <1>13, <2>1, <2>2, <2>3
<1>15. Sums!Total(paid1, Positions)
         = Sums!Total(paid, Positions) + Sums!Total(more, Positions)
  BY <1>8, PositionsFinite, SumLaws, Sums!SumPlus
<1>16. /\ collateral >= SumFunction(owing)
       /\ collateral + treasury + PaidTo(Positions) = promise.collateral
       /\ collateral \in Int /\ treasury \in Int /\ promise.collateral \in Int
  BY <1>3 DEF Balanced, BooksBalance, owing, before
<1>17. collateral' \in Int /\ collateral' >= SumFunction(owing1)
  BY <1>6, <1>7, <1>9, <1>10, <1>11, <1>12, <1>13, <1>16
<1>18. collateral' + treasury' + PaidTo(Positions)' = promise'.collateral
  BY <1>1, <1>6, <1>7, <1>9, <1>13, <1>14, <1>15, <1>16
<1>. QED
  BY <1>1, <1>5, <1>16, <1>17, <1>18 DEF Balanced, BooksBalance, owing1

\* Nobody is owed anything when the rest of the collateral is handed over.
LEMMA FinalizeBalances ==
    ASSUME IInv, Balanced, NEW w \in Workers, Finalize(w)
    PROVE  Balanced'
<1>. DEFINE left == [p \in promise'.due \ settled' |-> promise'.owed[p]]
<1>1. /\ run.status = "FINALIZING" /\ \A p \in Positions : ~Holds(p)
      /\ UNCHANGED <<pos, wallet, settled, promise>>
      /\ treasury' = treasury + collateral /\ collateral' = 0
  BY DEF Finalize, FinalizeAllowed, Complete
<1>2. promise.due \ settled = {}
  BY <1>1 DEF IInv, RunFits, PaidAsOwed
<1>3. run'.status = "COMPLETED"
  BY DEF Finalize, IInv, Typed
<1>4. SumFunction(left) = 0
  <2>1. DOMAIN left = {}
    BY <1>1, <1>2
  <2>. HIDE DEF left
  <2>. QED
    BY <2>1, SumOn, Sums!SumEmpty
<1>5. /\ collateral + treasury + PaidTo(Positions) = promise.collateral
      /\ collateral \in Int /\ treasury \in Int /\ promise.collateral \in Int
  BY <1>1 DEF Balanced, BooksBalance
<1>6. PaidTo(Positions)' = PaidTo(Positions)
  BY <1>1 DEF PaidTo
<1>7. PaidTo(Positions) \in Int
  <2>. DEFINE paid == [p \in Positions |-> wallet[p]]
  <2>1. PaidTo(Positions) = Sums!Total(paid, Positions)
        /\ \A p \in Positions : paid[p] \in Int
    BY SumOn DEF PaidTo, IInv, Typed
  <2>. HIDE DEF paid
  <2>. QED
    BY <2>1, PositionsFinite, SumLaws, Sums!SumInt
<1>8. collateral' + treasury' + PaidTo(Positions)' = promise'.collateral
  BY <1>1, <1>5, <1>6, <1>7
<1>. QED
  BY <1>1, <1>3, <1>4, <1>5, <1>8 DEF Balanced, BooksBalance

LEMMA StepBalances == IInv /\ Balanced /\ [Next]_vars => Balanced'
<1>. SUFFICES ASSUME IInv, Balanced, [Next]_vars
              PROVE  Balanced'
  OBVIOUS
<1>1. CASE UNCHANGED vars
  BY <1>1, NoMoneyMoves DEF vars
<1>2. ASSUME NEW admin, NEW outcome, Propose(admin, outcome) \/ Reject(admin)
      PROVE  Balanced'
  BY <1>2, NoMoneyMoves DEF Propose, Reject
<1>3. ASSUME NEW w \in Workers,
             \/ Start(w) \/ ClaimRefused(w) \/ BatchFails(w)
             \/ FinalizeFails(w) \/ ReadFailed(w)
             \/ TransactionFails(w) \/ Crash(w)
      PROVE  Balanced'
  BY <1>3, NoMoneyMoves DEF Start, ClaimRefused, BatchFails, FinalizeFails,
     ReadFailed, TransactionFails, Crash, db
<1>4. ASSUME NEW w \in Workers, Claim(w) \/ BatchEmpty(w) \/ ReleaseFailed(w)
      PROVE  Balanced'
  <2>1. UNCHANGED <<pos, collateral, treasury, wallet, settled, promise>>
    BY <1>4 DEF Claim, BatchEmpty, ReleaseFailed
  <2>2. run.status = "NONE" <=> run'.status = "NONE"
    <3>1. CASE Claim(w)
      <4>1. run.status # "NONE"
        BY <3>1 DEF Claim, Claimable, Unfinished
      <4>2. run'.status = IF run.status = "FINALIZING" THEN run.status
                                                       ELSE "RUNNING"
        BY <3>1 DEF Claim, IInv, Typed
      <4>. QED
        BY <4>1, <4>2
    <3>2. CASE BatchEmpty(w)
      BY <3>2 DEF BatchEmpty, BatchAllowed, IInv, Typed
    <3>3. CASE ReleaseFailed(w) /\ run.token = worker[w].token
      <4>1. run.status # "NONE"
        BY <3>3 DEF ReleaseFailed, IInv, RunFits, CallsFit, CallFits
      <4>. QED
        BY <3>3, <4>1 DEF ReleaseFailed, IInv, Typed
    <3>4. CASE ReleaseFailed(w) /\ run.token # worker[w].token
      BY <3>4 DEF ReleaseFailed
    <3>. QED
      BY <1>4, <3>1, <3>2, <3>3, <3>4
  <2>. QED
    BY <2>1, <2>2, NoMoneyMoves
<1>5. CASE Tick
  <2>1. run'.status = run.status
    BY <1>5 DEF Tick, IInv, Typed
  <2>. QED
    BY <1>5, <2>1, NoMoneyMoves DEF Tick
<1>6. ASSUME NEW w \in Workers, Work(w)
      PROVE  Balanced'
  BY <1>3, <1>4, <1>6, BatchBalances, FinalizeBalances DEF Work
<1>. QED
  BY <1>1, <1>2, <1>3, <1>5, <1>6, RedeemBalances, ApproveBalances DEF Next

\* The collateral always covers what is still owed, whatever the outcome and
\* the rounding, and no money appears or disappears.
THEOREM BooksAlwaysBalance == Spec => []BooksBalance
<1>1. IInv /\ Balanced /\ [Next]_vars => Balanced'
  BY StepBalances
<1>2. Spec => []Balanced
  BY InitBalanced, <1>1, IInvAlways, PTL DEF Spec
<1>3. Balanced => BooksBalance
  BY DEF Balanced
<1>. QED
  BY <1>2, <1>3, PTL
=============================================================================
