--------------------------- MODULE ChainCommands ---------------------------
(***************************************************************************)
(* The commands that goosey signs on behalf of its users and sends to the  *)
(* Solana program (chain-command-store.ts, chain-command-state.ts, the     *)
(* managed-*-dispatcher.ts, chain-mutation-lane.ts).  A dispatcher leases  *)
(* a command, brings it to PREPARED, journals the signed wire, sends it,   *)
(* follows its fate on the chain, and records it.  Any number of           *)
(* dispatchers race for one command, stop anywhere, and lose answers; a    *)
(* wire may land after its sender has given up.                            *)
(*                                                                         *)
(* Revisions, epochs and tokens are compared for equality only, and every  *)
(* write of a row, a lease included, advances its revision.  So all that a *)
(* dispatcher holds of them is whether the row is still as it last saw it  *)
(* ("current").                                                            *)
(***************************************************************************)
EXTENDS Naturals, Sequences, FiniteSets

CONSTANTS
    Commands,       \* identities of commands
    Dispatchers,    \* calls of a dispatcher, by the worker or a request
    Assignments,    \* what each command may be, NoKind if there is none
    Children,       \* the seat and the deposit an order asks for
    Successor,      \* the command that projecting a command accepts
    LeaseTime,      \* the five minutes of a lease
    MaxFaults       \* bound of an assignment: transactions and calls that
                    \* fail, and crashes

Kinds == {"PLACE_ORDER", "DEPOSIT_ESCROW", "REGISTER_SEAT",
          "TRANSFER_FEATHERS", "CANCEL_ORDER", "REPLACE_ORDER", "RESOLUTION",
          "PROVISION_MARKET", "PROVISION_MARKET_BOOK"}

Nobody == "nobody"
NoKind == "NONE"
ASSUME ChainAssumption ==
    /\ Assignments \subseteq [Commands -> Kinds \union {NoKind}]
    /\ Children \in [Commands -> SUBSET Commands]
    /\ Successor \in [Commands -> SUBSET Commands]
    /\ \A a \in Assignments, c \in Commands :
          a[c] # NoKind => \A s \in Successor[c] : a[s] # NoKind
    /\ LeaseTime \in Nat \ {0}
    /\ MaxFaults \in [Assignments -> Nat]
    /\ Nobody \notin Dispatchers

VARIABLES
    kind,       \* ChainCommand.operation
    command,    \* ChainCommand rows
    wires,      \* ChainCommandSignedWire rows, each with its fate on chain
    lane,       \* the SolanaChainMutationLane of the wallet and market
    at,         \* the dispatchers
    published,  \* whether the listing of the market has left DRAFT
    faults
vars == <<kind, command, wires, lane, at, published, faults>>

----------------------------------------------------------------------------
(* The state machine of a command, chain-command-state.ts.                 *)

Transitions ==
    [ACCEPTED         |-> {"PREPARED", "FAILED_RETRYABLE", "FAILED_TERMINAL"},
     PREPARED         |-> {"SIGNED", "FAILED_RETRYABLE", "FAILED_TERMINAL"},
     SIGNED           |-> {"SUBMITTED", "UNKNOWN", "FAILED_RETRYABLE",
                           "FAILED_TERMINAL"},
     SUBMITTED        |-> {"CONFIRMED", "FINALIZED", "UNKNOWN",
                           "FAILED_RETRYABLE", "FAILED_TERMINAL"},
     CONFIRMED        |-> {"FINALIZED", "UNKNOWN", "FAILED_RETRYABLE",
                           "FAILED_TERMINAL"},
     FINALIZED        |-> {"PROJECTED", "FAILED_RETRYABLE", "FAILED_TERMINAL"},
     PROJECTED        |-> {},
     UNKNOWN          |-> {"SUBMITTED", "CONFIRMED", "FINALIZED",
                           "FAILED_RETRYABLE", "FAILED_TERMINAL"},
     FAILED_RETRYABLE |-> {"ACCEPTED", "UNKNOWN", "FAILED_TERMINAL"},
     FAILED_TERMINAL  |-> {}]

Statuses == DOMAIN Transitions
Absent == "ABSENT"              \* a command nobody has accepted yet
Unleasing == {"PROJECTED", "UNKNOWN", "FAILED_RETRYABLE", "FAILED_TERMINAL"}
Pending == {"SIGNED", "SUBMITTED", "CONFIRMED"}
Starts == {"ACCEPTED", "PREPARED", "FAILED_RETRYABLE"}
Done == {"FINALIZED", "PROJECTED"}

(***************************************************************************)
(* The nine dispatchers are alike but for these points:                    *)
(*   takes    what they take up besides a start and a pending wire         *)
(*   polled   what the worker looks for of it                              *)
(*   lane     when they take the lane of the wallet and market             *)
(*   refuses  whether preparing can find that it can never be done         *)
(*   resubmit whether a SIGNED wire that landed counts as SUBMITTED first  *)
(*   after    where they go on from FINALIZED                              *)
(*   patient  whether UNKNOWN stays as it is while the wire is in doubt    *)
(*   settled  what the catch clause leaves alone                           *)
(***************************************************************************)
Settled == {"UNKNOWN", "FAILED_TERMINAL", "PROJECTED"}

Order ==
    [takes |-> {}, polled |-> TRUE, lane |-> "prepare", refuses |-> FALSE,
     resubmit |-> FALSE, after |-> "release", patient |-> FALSE,
     settled |-> Settled]
Escrow ==
    [takes |-> {}, polled |-> TRUE, lane |-> "never", refuses |-> FALSE,
     resubmit |-> TRUE, after |-> "idle", patient |-> FALSE,
     settled |-> Settled]
Seat ==
    [takes |-> {}, polled |-> TRUE, lane |-> "never", refuses |-> FALSE,
     resubmit |-> FALSE, after |-> "projected", patient |-> FALSE,
     settled |-> Settled]
Transfer ==
    [takes |-> {"UNKNOWN"}, polled |-> TRUE, lane |-> "never", refuses |-> FALSE,
     resubmit |-> TRUE, after |-> "idle", patient |-> FALSE,
     settled |-> Settled]
Cancellation ==
    [takes |-> {"UNKNOWN"}, polled |-> TRUE, lane |-> "entry", refuses |-> TRUE,
     resubmit |-> FALSE, after |-> "release", patient |-> TRUE,
     settled |-> Settled \union {"FINALIZED"}]
Amendment ==
    [takes |-> {"UNKNOWN"}, polled |-> FALSE, lane |-> "entry", refuses |-> TRUE,
     resubmit |-> FALSE, after |-> "release", patient |-> TRUE,
     settled |-> Settled \union {"FINALIZED"}]
Resolution ==
    [takes |-> {"UNKNOWN"}, polled |-> TRUE, lane |-> "never", refuses |-> FALSE,
     resubmit |-> FALSE, after |-> "idle", patient |-> TRUE,
     settled |-> Settled \union {"FINALIZED"}]
Market ==
    [takes |-> {"UNKNOWN", "FINALIZED"}, polled |-> TRUE, lane |-> "never", refuses |-> FALSE,
     resubmit |-> FALSE, after |-> "project", patient |-> TRUE,
     settled |-> Settled]
MarketBook == Market

Dispatcher ==
    [PLACE_ORDER |-> Order, DEPOSIT_ESCROW |-> Escrow, REGISTER_SEAT |-> Seat,
     TRANSFER_FEATHERS |-> Transfer, CANCEL_ORDER |-> Cancellation,
     REPLACE_ORDER |-> Amendment, RESOLUTION |-> Resolution,
     PROVISION_MARKET |-> Market, PROVISION_MARKET_BOOK |-> MarketBook]

LaneKinds == {k \in Kinds : Dispatcher[k].lane # "never"}
ProjectKinds == {"PROVISION_MARKET", "PROVISION_MARKET_BOOK"}
Dispatchable(k) == Starts \union Pending \union Dispatcher[k].takes

\* The statuses that the worker's query looks for.
Mutant_Polled(k) == IF Dispatcher[k].polled THEN Starts \union Pending ELSE {}
Polled(k) ==
    {s \in Dispatchable(k) :
        /\ Dispatcher[k].polled
        /\ s = "UNKNOWN" => k \in ProjectKinds \union {"RESOLUTION"}}

Idle == [pc |-> "idle", cmd |-> Nobody, status |-> Absent, current |-> FALSE,
         lane |-> FALSE]

Init ==
    /\ kind \in Assignments
    /\ command = [c \in Commands |->
                    [status |-> Absent, leased |-> FALSE, left |-> 0,
                     finalizedAt |-> FALSE]]
    /\ wires = [c \in Commands |-> <<>>]
    /\ lane = [holder |-> Nobody, left |-> 0]
    /\ at = [d \in Dispatchers |-> Idle]
    /\ published = FALSE
    /\ faults = 0

----------------------------------------------------------------------------
(* What a dispatcher does to itself and to a row.                          *)

Status(d) == at[d].status
Kind(d)   == kind[at[d].cmd]
Policy(d) == Dispatcher[Kind(d)]
Go(d, pc) == at' = [at EXCEPT ![d] = IF pc = "idle" THEN Idle
                                     ELSE [@ EXCEPT !.pc = pc]]
Fault     == faults < MaxFaults[kind] /\ faults' = faults + 1

\* Every dispatcher that has read the row now holds a stale revision.
Outdated(c) ==
    [d \in Dispatchers |->
        IF at[d].cmd = c THEN [at[d] EXCEPT !.current = FALSE] ELSE at[d]]

\* createOrReplay: the unique key makes every later acceptance a replay.
Accepted(cs) ==
    [c \in Commands |-> IF c \in cs /\ command[c].status = Absent
                        THEN [command[c] EXCEPT !.status = "ACCEPTED"]
                        ELSE command[c]]

Written(c, to) ==
    [command EXCEPT ![c] =
        [status      |-> to,
         leased      |-> @.leased /\ to \notin Unleasing,
         left        |-> IF to \in Unleasing THEN 0 ELSE @.left,
         finalizedAt |-> @.finalizedAt \/ to = "FINALIZED"]]

\* assertFence.  A clock that was read before the lease ran out may still be
\* good enough for it; what another dispatcher did since is not.
Fenced(d) == at[d].current /\ command[at[d].cmd].leased

May(d, to) == Fenced(d) /\ to \in Transitions[command[at[d].cmd].status]

\* store.transition takes effect, and its answer arrives or is lost; or it is
\* refused, or fails.
Applied(d, to, next) ==
    /\ May(d, to)
    /\ command' = Written(at[d].cmd, to)
    /\ at' = [Outdated(at[d].cmd) EXCEPT
                ![d] = IF next = "idle" THEN Idle
                       ELSE [at[d] EXCEPT !.status = to, !.pc = next]]
    /\ UNCHANGED faults

AppliedUnheard(d, to, thrown) ==
    /\ May(d, to) /\ Fault
    /\ command' = Written(at[d].cmd, to)
    /\ at' = [Outdated(at[d].cmd) EXCEPT
                ![d] = IF thrown = "idle" THEN Idle
                       ELSE [@ EXCEPT !.pc = thrown]]

NotApplied(d, to, thrown) ==
    /\ Go(d, thrown)
    /\ UNCHANGED command
    /\ IF May(d, to) /\ command[at[d].cmd].left > 0
       THEN Fault ELSE UNCHANGED faults

Transition(d, to, next, thrown) ==
    /\ \/ Applied(d, to, next)
       \/ AppliedUnheard(d, to, thrown)
       \/ NotApplied(d, to, thrown)
    /\ UNCHANGED <<kind, published, wires, lane>>

----------------------------------------------------------------------------
(* Accepting, taking up and leasing a command.                             *)

ChildKinds == {"REGISTER_SEAT", "DEPOSIT_ESCROW"}

Accept(c) ==
    /\ kind[c] # NoKind /\ command[c].status = Absent
    /\ \A p \in Commands : c \notin Successor[p]
    /\ kind[c] \in ChildKinds => \A p \in Commands : c \notin Children[p]
    /\ command' = Accepted({c})
    /\ UNCHANGED <<kind, published, wires, lane, at, faults>>

Free(c) == ~command[c].leased \/ command[c].left = 0

Begin(d, c) ==
    /\ at[d] = Idle
    /\ command[c].status # Absent
    /\ command[c].status \in Dispatchable(kind[c])
    /\ at' = [at EXCEPT ![d] =
                [Idle EXCEPT !.pc = "lease", !.cmd = c, !.current = TRUE,
                             !.status = command[c].status]]
    /\ UNCHANGED <<kind, published, command, wires, lane, faults>>

\* The worker's query, and the call it makes for a row that it returned.
Poll(d, c) ==
    /\ command[c].status \in Polled(kind[c]) /\ Free(c)
    /\ Begin(d, c)

Leased(c) ==
    [command EXCEPT ![c].leased = TRUE, ![c].left = LeaseTime]

Lease(d) ==
    LET c == at[d].cmd IN
    /\ at[d].pc = "lease"
    /\ \/ /\ at[d].current /\ Free(c)
          /\ command' = Leased(c)
          /\ \/ at' = [Outdated(c) EXCEPT ![d] = [at[d] EXCEPT !.pc = "entry"]]
                /\ UNCHANGED faults
             \/ at' = [Outdated(c) EXCEPT ![d] = Idle] /\ Fault
       \/ /\ ~(at[d].current /\ Free(c))
          /\ Go(d, "idle") /\ UNCHANGED <<command, faults>>
    /\ UNCHANGED <<kind, published, wires, lane>>

\* Where a dispatcher goes on once it has the lease, or the lease and the lane.
Resumes(d) ==
    /\ Kind(d) \in ProjectKinds /\ Status(d) = "FAILED_RETRYABLE"
    /\ command[at[d].cmd].finalizedAt

Entry(d) ==
    /\ at[d].pc = "entry"
    /\ ~Resumes(d)
    /\ Policy(d).lane = "entry" => at[d].lane
    /\ Go(d, IF Status(d) = "FINALIZED" THEN "project"
             ELSE IF Status(d) \in Pending \union {"UNKNOWN"} THEN "track"
             ELSE "prepare")
    /\ UNCHANGED <<kind, published, command, wires, lane, faults>>

\* The projection of a finalized market that failed is taken up again.
Resume(d) ==
    /\ at[d].pc = "entry" /\ Resumes(d)
    /\ Transition(d, "UNKNOWN", "finalized", "catch")

----------------------------------------------------------------------------
(* The lane that serializes the orders of a wallet in a market.            *)

Mutant_LaneFree == TRUE
LaneFree == lane.holder = Nobody \/ lane.left = 0

\* loadOrCreate and acquire.  The orders that are placed take the lane when
\* they are PREPARED, the others before they look at the command's status.
NeedsLane(d) ==
    /\ at[d].pc \in {"entry", "prepare"} /\ ~at[d].lane
    /\ at[d].pc = Policy(d).lane
    /\ at[d].pc = "prepare" => Status(d) = "PREPARED"

AcquireLane(d) ==
    /\ NeedsLane(d)
    /\ \/ /\ LaneFree
          /\ lane' = [holder |-> d, left |-> LeaseTime]
          /\ at' = [at EXCEPT ![d].lane = TRUE]
          /\ UNCHANGED faults
       \/ /\ LaneFree /\ Fault
          /\ lane' = [holder |-> d, left |-> LeaseTime]
          /\ Go(d, "catch")
       \/ ~LaneFree /\ Go(d, "catch") /\ UNCHANGED <<lane, faults>>
    /\ UNCHANGED <<kind, published, command, wires>>

\* releaseLane, whose errors are swallowed.  A lane that has expired, or that
\* another call has taken since, stays as it is.
Released(d) ==
    IF at[d].lane /\ lane.holder = d /\ lane.left > 0
    THEN [holder |-> Nobody, left |-> 0] ELSE lane

ReleaseLane(d) ==
    /\ \/ lane' = Released(d) /\ UNCHANGED faults
       \/ lane # Released(d) /\ Fault /\ UNCHANGED lane
    /\ UNCHANGED <<kind, published, command, wires>>

----------------------------------------------------------------------------
(* Preparing, signing and sending.                                         *)

\* Reading the finalized state, loading a signer or checking the request fails.
Throw(d) ==
    /\ at[d].pc \in {"prepare", "sign", "track"}
    /\ Go(d, "catch")
    /\ UNCHANGED <<kind, published, command, wires, lane, faults>>

Prepare(d) ==
    /\ at[d].pc = "prepare"
    /\ \/ /\ Status(d) = "FAILED_RETRYABLE"
          /\ Transition(d, "ACCEPTED", "prepare", "catch")
       \/ /\ Status(d) = "ACCEPTED"
          /\ Transition(d, "PREPARED", "prepare", "catch")

OfKind(d, k) == {c \in Children[at[d].cmd] : kind[c] = k}
AllDone(cs)  == \A c \in cs : command[c].status \in Done

\* An order first sees to its seat, then to a deposit when funds are missing;
\* their own dispatchers run meanwhile, and must have finished.
EnsureChildren(d) ==
    LET seats    == OfKind(d, "REGISTER_SEAT")
        deposits == OfKind(d, "DEPOSIT_ESCROW")
    IN  /\ at[d].pc = "prepare" /\ Status(d) = "PREPARED"
        /\ Kind(d) = "PLACE_ORDER" /\ at[d].lane
        /\ \/ command' = Accepted(seats)
           \/ AllDone(seats) /\ command' = Accepted(deposits)
        /\ command' # command
        /\ UNCHANGED <<kind, published, wires, lane, at, faults>>

Prepared(d) ==
    /\ at[d].pc = "prepare" /\ Status(d) = "PREPARED" /\ ~NeedsLane(d)
    /\ AllDone(OfKind(d, "REGISTER_SEAT"))
    /\ AllDone({c \in OfKind(d, "DEPOSIT_ESCROW") : command[c].status # Absent})
    /\ Go(d, "sign")
    /\ UNCHANGED <<kind, published, command, wires, lane, faults>>

\* Preparing a cancellation or a replacement finds that it can never be done.
Refuse(d) ==
    /\ at[d].pc = "sign" /\ Policy(d).refuses
    /\ Go(d, "refused")
    /\ UNCHANGED <<kind, published, command, wires, lane, faults>>

Landed(c) == \E i \in DOMAIN wires[c] : wires[c][i] = "succeeded"

\* prepareMarketSeat refuses a wallet that has its seat.
Signable(d) == Kind(d) = "REGISTER_SEAT" => ~Landed(at[d].cmd)

\* appendSignedWireBeforeSend: the wire and the status in one transaction,
\* which the database admits under a live lease only.
JournalWire(d) ==
    LET c == at[d].cmd IN
    /\ at[d].pc = "sign" /\ Signable(d)
    /\ May(d, "SIGNED") /\ command[c].status = "PREPARED"
    /\ command[c].left > 0
    /\ wires' = [wires EXCEPT ![c] = Append(@, "journaled")]
    /\ Applied(d, "SIGNED", "send") \/ AppliedUnheard(d, "SIGNED", "catch")
    /\ UNCHANGED <<kind, published, lane>>

\* submitSponsoredTransaction: refused before it is sent, sent, or uncertain.
Latest(c) == wires[c][Len(wires[c])]
Mark(c, fate) == [wires EXCEPT ![c][Len(wires[c])] = fate]

Send(d) ==
    /\ at[d].pc = "send"
    /\ \/ wires' = Mark(at[d].cmd, "sent") /\ Go(d, "submitted")
       \/ wires' = Mark(at[d].cmd, "sent") /\ Go(d, "unsure")
       \/ UNCHANGED wires /\ Go(d, "unsure")
       \/ UNCHANGED wires /\ Go(d, "catch")
    /\ UNCHANGED <<kind, published, command, lane, faults>>

Submit(d) ==
    \/ at[d].pc = "submitted" /\ Transition(d, "SUBMITTED", "track", "catch")
    \/ at[d].pc = "unsure" /\ Transition(d, "UNKNOWN", "idle", "catch")

----------------------------------------------------------------------------
(* Following the wire, and recording what became of it.                    *)

\* trackTransactionStatus: only a finalized outcome is definite, and it may
\* be missed.
Mutant_Outcomes(fate) ==
    {"ambiguous"} \union (IF fate = "succeeded" THEN {"finalized"} ELSE
                          IF fate \in {"sent", "failed"} THEN {"failed"} ELSE {})
Outcomes(fate) ==
    {"ambiguous"} \union (IF fate = "succeeded" THEN {"finalized"} ELSE
                          IF fate = "failed" THEN {"failed"} ELSE {})

Track(d) ==
    /\ at[d].pc = "track"
    /\ \E o \in Outcomes(Latest(at[d].cmd)) : Go(d, o)
    /\ UNCHANGED <<kind, published, command, wires, lane, faults>>

Finalize(d) ==
    /\ at[d].pc = "finalized"
    /\ IF Status(d) = "SIGNED" /\ Policy(d).resubmit
       THEN Transition(d, "SUBMITTED", "finalized", "catch")
       ELSE Transition(d, "FINALIZED", Policy(d).after, "catch")

Reject(d) ==
    /\ at[d].pc = "failed"
    /\ Transition(d, "FAILED_TERMINAL",
                  IF Policy(d).after = "release" THEN "release" ELSE "idle",
                  "catch")

Doubt(d) ==
    /\ at[d].pc = "ambiguous"
    /\ IF Status(d) = "UNKNOWN" /\ Policy(d).patient
       THEN Go(d, "idle") /\ UNCHANGED <<kind, published, command, wires, lane, faults>>
       ELSE Transition(d, "UNKNOWN", "idle", "catch")

Release(d) ==
    /\ at[d].pc = "release"
    /\ ReleaseLane(d) /\ Go(d, "idle")

\* Both projections want the listing of the market to be a DRAFT.  That of a
\* step of the book also reads the book, which must be what this step leaves:
\* it is not once the next step has landed.
Outgrown(c) ==
    kind[c] = "PROVISION_MARKET_BOOK" /\ \E s \in Successor[c] : Landed(s)
Projectable(c) == ~published /\ ~Outgrown(c)

\* The projection of a market or a step of its book, which accepts the
\* command of the next step in the same transaction.
Mutant_Project(d) ==
    /\ at[d].pc = "project"
    /\ \/ /\ Projectable(at[d].cmd)
          /\ Go(d, "projected") /\ UNCHANGED <<command, faults>>
       \/ /\ UNCHANGED command /\ Go(d, "catch")
          /\ IF Projectable(at[d].cmd) THEN Fault ELSE UNCHANGED faults
    /\ UNCHANGED <<kind, published, wires, lane>>
Project(d) ==
    /\ at[d].pc = "project"
    /\ \/ /\ Projectable(at[d].cmd)
          /\ command' = Accepted(Successor[at[d].cmd])
          /\ \/ Go(d, "projected") /\ UNCHANGED faults
             \/ Go(d, "catch") /\ Fault
       \/ /\ UNCHANGED command /\ Go(d, "catch")
          /\ IF Projectable(at[d].cmd) THEN Fault ELSE UNCHANGED faults
    /\ UNCHANGED <<kind, published, wires, lane>>

Projected(d) ==
    /\ at[d].pc = "projected"
    /\ Transition(d, "PROJECTED", "idle", "catch")

----------------------------------------------------------------------------
(* The catch clause of a dispatcher, which sees the status it remembers.   *)

Mutant_Catch(d) ==
    /\ at[d].pc = "catch"
    /\ \/ /\ Status(d) \in Policy(d).settled
          /\ Go(d, "idle") /\ UNCHANGED <<kind, published, command, wires, lane, faults>>
       \/ /\ Status(d) \notin Policy(d).settled
          /\ Transition(d, "FAILED_RETRYABLE", "idle", "idle")
Catch(d) ==
    /\ at[d].pc = "catch"
    /\ \/ /\ Status(d) \in Policy(d).settled
          /\ Go(d, "idle") /\ UNCHANGED <<kind, published, command, wires, lane, faults>>
       \/ /\ Status(d) \in Pending
          /\ Transition(d, "UNKNOWN", "idle", "idle")
       \/ /\ Status(d) \notin Pending \union Policy(d).settled
          /\ IF at[d].lane
             THEN ReleaseLane(d) /\ at' = [at EXCEPT ![d].lane = FALSE]
             ELSE Transition(d, "FAILED_RETRYABLE", "idle", "idle")

Refused(d) ==
    /\ at[d].pc = "refused"
    /\ IF at[d].lane
       THEN ReleaseLane(d) /\ at' = [at EXCEPT ![d].lane = FALSE]
       ELSE Transition(d, "FAILED_TERMINAL", "idle", "idle")

----------------------------------------------------------------------------
(* The chain, the clock, and dispatchers that stop.                        *)

\* A wire that was sent lands, lands and fails, or outlives its blockhash.
Land(c) ==
    /\ wires[c] # <<>> /\ Latest(c) = "sent"
    /\ \E fate \in {"succeeded", "failed", "dead"} : wires' = Mark(c, fate)
    /\ UNCHANGED <<kind, published, command, lane, at, faults>>

\* publishSolanaMarket: an administrator lists the market once its book is
\* ready on the chain, whatever has been recorded of it.
Publish ==
    /\ ~published
    /\ \E c \in Commands :
          /\ kind[c] = "PROVISION_MARKET_BOOK" /\ Successor[c] = {}
          /\ Landed(c)
    /\ published' = TRUE
    /\ UNCHANGED <<kind, command, wires, lane, at, faults>>

Tick ==
    /\ lane.left > 0 \/ \E c \in Commands : command[c].left > 0
    /\ command' = [c \in Commands |->
                    [command[c] EXCEPT !.left = IF @ > 0 THEN @ - 1 ELSE 0]]
    /\ lane' = [lane EXCEPT !.left = IF @ > 0 THEN @ - 1 ELSE 0]
    /\ UNCHANGED <<kind, published, wires, at, faults>>

Crash(d) ==
    /\ at[d] # Idle
    /\ Fault /\ Go(d, "idle")
    /\ UNCHANGED <<kind, published, command, wires, lane>>

Proceed(d) ==
    \/ Lease(d) \/ Entry(d) \/ Resume(d) \/ AcquireLane(d)
    \/ Prepare(d) \/ EnsureChildren(d) \/ Prepared(d)
    \/ Throw(d) \/ Refuse(d) \/ JournalWire(d) \/ Send(d) \/ Submit(d)
    \/ Track(d) \/ Finalize(d) \/ Reject(d) \/ Doubt(d) \/ Release(d)
    \/ Project(d) \/ Projected(d) \/ Catch(d) \/ Refused(d)

Next ==
    \/ \E c \in Commands : Accept(c) \/ Land(c)
    \/ \E d \in Dispatchers, c \in Commands : Begin(d, c)
    \/ \E d \in Dispatchers : Proceed(d) \/ Crash(d)
    \/ Publish \/ Tick

Spec == Init /\ [][Next]_vars

----------------------------------------------------------------------------
(* What the commands promise.                                              *)

Fates == {"journaled", "sent", "succeeded", "failed", "dead"}
Pcs == {"idle", "lease", "entry", "prepare", "sign", "send", "submitted",
        "unsure", "track", "finalized", "failed", "ambiguous", "release",
        "project", "projected", "catch", "refused"}
Row == [status : Statuses \union {Absent}, leased : BOOLEAN,
        left : 0..LeaseTime, finalizedAt : BOOLEAN]
Call == [pc : Pcs, cmd : Commands \union {Nobody},
         status : Statuses \union {Absent}, current : BOOLEAN, lane : BOOLEAN]

\* Rows, wires, the lane and the dispatchers have their types.
TypeOK ==
    /\ kind \in Assignments
    /\ command \in [Commands -> Row]
    /\ wires \in [Commands -> Seq(Fates)]
    /\ lane \in [holder : Dispatchers \union {Nobody}, left : 0..LeaseTime]
    /\ at \in [Dispatchers -> Call]
    /\ published \in BOOLEAN
    /\ faults \in 0..MaxFaults[kind]

\* However many dispatchers race, stop and start again, a command is signed
\* once: "ambiguous wires are never replaced" (managed-resolution-dispatcher.ts).
SignedOnce == \A c \in Commands : Len(wires[c]) <= 1

\* A status that somebody acts on is true of the chain.  A command that counts
\* as done has landed; one that counts as failed for good can never land; one
\* that is prepared again has no wire that could.
OutcomeTrue == \A c \in Commands :
    /\ command[c].finalizedAt \/ command[c].status \in Done => Landed(c)
    /\ command[c].status = "FAILED_TERMINAL" =>
            \A i \in DOMAIN wires[c] : wires[c][i] = "failed"
    /\ command[c].status \in Starts /\ ~command[c].finalizedAt =>
            wires[c] = <<>>

\* An order, a cancellation or a replacement is signed by a dispatcher that
\* holds the lane of its wallet and market, although signing checks the lease
\* of the command only: the lane is taken later, for as long.
SignedInLane ==
    [][\A c \in Commands :
        kind[c] \in LaneKinds /\ Len(wires'[c]) > Len(wires[c]) =>
            lane.left > 0 /\ \E d \in Dispatchers :
                /\ at[d].cmd = c /\ at[d].pc = "sign" /\ at'[d] # at[d]
                /\ lane.holder = d /\ at[d].lane]_vars

----------------------------------------------------------------------------
(* Fairness: the worker polls again and again, its calls proceed, leases   *)
(* expire, and a finalized outcome is seen if it is asked for often enough. *)
(* A call waits a minute at most for the chain, so it does not outlast the  *)
(* five minutes of its lease again and again.                               *)

TrackDefinite(d) ==
    /\ at[d].pc = "track"
    /\ \E o \in Outcomes(Latest(at[d].cmd)) \ {"ambiguous"} : Go(d, o)
    /\ UNCHANGED <<kind, published, command, wires, lane, faults>>

Working == \E d \in Dispatchers : at[d].pc \notin {"idle", "lease"} /\ Fenced(d)

FairSpec ==
    /\ Spec
    /\ <>[][~(Tick /\ Working)]_vars
    /\ WF_vars(Tick)
    /\ \A d \in Dispatchers : WF_vars(Proceed(d))
    /\ \A c \in Commands :
          /\ SF_vars(\E d \in Dispatchers : Poll(d, c))
          /\ SF_vars(\E d \in Dispatchers : at[d].cmd = c /\ TrackDefinite(d))

\* The database learns of every transaction of the market's administration that
\* has landed, and its projection accepts the next step, so that "a finalized
\* parent cannot become stranded" (managed-market-book-service.ts): whoever
\* stopped when, the provisioning goes on.  Its own row ends PROJECTED unless
\* the next step landed, or the market was published, before this was written:
\* then every projection throws, and the row is retried for ever.
LandedRecorded ==
    \A c \in Commands :
        kind[c] \in ProjectKinds \union {"RESOLUTION"} /\ Landed(c) ~>
            IF kind[c] = "RESOLUTION" THEN command[c].status = "FINALIZED"
            ELSE /\ \A s \in Successor[c] : command[s].status # Absent
                 /\ command[c].finalizedAt
                 /\ command[c].status = "PROJECTED" \/ ~Projectable(c)

----------------------------------------------------------------------------
(* What a comment of the repository says.                                  *)

\* managed-order-dispatcher.ts: "A later worker reconciles SIGNED or SUBMITTED
\* from the append-only wire journal".  So a worker that took a SIGNED order up
\* and has seen it finalized does not end up in the catch clause.
SignedReconciled ==
    [][\A d \in Dispatchers :
        /\ at[d].pc = "finalized" /\ at'[d].pc = "catch"
        /\ kind[at[d].cmd] = "PLACE_ORDER" /\ Fenced(d)
        => faults' > faults \/ command[at[d].cmd].left = 0]_vars

=============================================================================
