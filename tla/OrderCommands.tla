---------------------------- MODULE OrderCommands ----------------------------
(***************************************************************************)
(* How src/lib/order-exchange.ts executes a command once though clients    *)
(* repeat it: the idempotency record, the sequence number every command    *)
(* takes from its market, and the retry loop of serializable-transaction.  *)
(*                                                                         *)
(* A call is one run of placeOrder, replaceOrder, cancelOrder or           *)
(* cancelAllOrders.  Calls run concurrently, several for one request: a    *)
(* client that has no answer asks again.  A transaction reads a snapshot   *)
(* when it begins and takes effect when it commits, or is aborted by the   *)
(* database.  A call whose process dies takes no further step; an answer   *)
(* that is lost after the commit is one the client repeats its call for.   *)
(* What a command does to the book is abstracted to which users have a     *)
(* live order: OrderExchange has the rest.                                 *)
(***************************************************************************)
EXTENDS Integers, Sequences, FiniteSets

CONSTANTS Users, Markets,
          Requests,     \* records [user, scope, key, markets]
          InitialLive,  \* the users with a live order in each market
          MaxCalls,     \* bound: calls ever started
          MaxAttempts,  \* DEFAULT_ATTEMPTS of runSerializableTransaction
          MaxSequence   \* bound: sequence numbers used by the background

Bulk == "/api/v1/orders:bulk-cancel"

ASSUME CommandsAssumption ==
    /\ InitialLive \in [Markets -> SUBSET Users]
    /\ MaxCalls \in Nat /\ MaxAttempts \in Nat \ {0} /\ MaxSequence \in Nat
    /\ \A r \in Requests :
          /\ r.user \in Users /\ r.markets \subseteq Markets
          /\ r.scope # Bulk => Cardinality(r.markets) = 1

VARIABLES market,    \* Market: commandSequence, open for orders, and the
                     \*   users with a live order in it
          commands,  \* OrderCommand and IdempotencyRequest rows
          calls,     \* the calls started, in order
          issued,    \* history: the sequence numbers commands took
          executed   \* history: the commands that committed

vars == <<market, commands, calls, issued, executed>>

NoBody == [outcome |-> "NONE", sequences |-> <<>>]
NoAnswer == [kind |-> "NONE", body |-> NoBody]

Init ==
    /\ market = [m \in Markets |->
                    [seq |-> 0, open |-> TRUE, live |-> InitialLive[m]]]
    /\ commands = {}
    /\ calls = <<>>
    /\ issued = [m \in Markets |-> <<>>]
    /\ executed = {}

----------------------------------------------------------------------------
\* The unique key of a command; its hash is the request itself.
Id(r) == <<r.user, r.scope, r.key>>
Recorded(r) == {row \in commands : Id(row.req) = Id(r)}

\* The call answers; its local variables are gone.
Finish(c, kind, body) ==
    calls' = [calls EXCEPT ![c] = [@ EXCEPT
                 !.phase = "done", !.attempt = 1, !.snap = <<>>,
                 !.plan = <<>>, !.answer = [kind |-> kind, body |-> body]]]

\* A client sends a request, perhaps again.
Start(r) ==
    /\ Len(calls) < MaxCalls
    /\ calls' = Append(calls,
                    [req |-> r, attempt |-> 1, snap |-> <<>>, plan |-> <<>>,
                     phase |-> "preflight", answer |-> NoAnswer])
    /\ UNCHANGED <<market, commands, issued, executed>>

\* Mutant: the request is not compared with the recorded one.
Mutant_Replay(c) ==
    \E row \in Recorded(calls[c].req) : Finish(c, "BODY", row.body)

\* replayCommand: the recorded answer, unless the key was another request's.
Replay(c) ==
    \E row \in Recorded(calls[c].req) :
        IF row.req = calls[c].req THEN Finish(c, "BODY", row.body)
        ELSE Finish(c, "IDEMPOTENCY_CONFLICT", NoBody)

\* preflightCommandReplay, outside any transaction.  Calls that carry a
\* session skip it: they behave like one that looks just before it begins.
Preflight(c) ==
    /\ calls[c].phase = "preflight"
    /\ IF Recorded(calls[c].req) # {} THEN Replay(c)
       ELSE calls' = [calls EXCEPT ![c].phase = "begin"]
    /\ UNCHANGED <<market, commands, issued, executed>>

\* What the book says to a command: a market must be open for an order, an
\* order live to be cancelled or replaced.
Allowed(r) ==
    \A m \in r.markets :
        /\ r.scope \in {"ORDER_PLACE", "ORDER_REPLACE"} => market[m].open
        /\ r.scope \in {"ORDER_CANCEL", "ORDER_REPLACE"}
                => r.user \in market[m].live

\* The markets whose sequence a command takes: cancelAllOrders visits those
\* where the user has a live order.
Written(r, snap) ==
    IF r.scope = Bulk THEN {m \in r.markets : r.user \in snap[m].live}
    ELSE r.markets

\* Who has a live order afterwards: an order may rest, trade or meet
\* self-trade prevention; a rejected one is recorded and changes nothing.
LiveAfter(r, outcome, live) ==
    CASE r.scope \in {"ORDER_CANCEL", Bulk} -> {live \ {r.user}}
      [] outcome = "REJECTED" -> {live}
      [] OTHER -> SUBSET (live \union {r.user})

Outcomes(r) ==
    IF r.scope \in {"ORDER_PLACE", "ORDER_REPLACE"}
    THEN {"ACCEPTED", "REJECTED"} ELSE {"ACCEPTED"}

\* Execute on the snapshot; the effect waits for the commit.
Execute(c) ==
    LET r == calls[c].req
    IN  \E outcome \in Outcomes(r) :
          \E after \in [Written(r, market) -> SUBSET Users] :
            /\ \A m \in DOMAIN after :
                    after[m] \in LiveAfter(r, outcome, market[m].live)
            /\ calls' = [calls EXCEPT
                            ![c].phase = "commit",
                            ![c].snap = [m \in DOMAIN after |-> market[m]],
                            ![c].plan = [outcome |-> outcome,
                                         after |-> after]]

\* Mutant: the book is asked before the record is looked up.
Mutant_Begin(c) ==
    /\ calls[c].phase = "begin"
    /\ IF ~Allowed(calls[c].req) THEN Finish(c, "REFUSED", NoBody)
       ELSE IF Recorded(calls[c].req) # {} THEN Replay(c)
       ELSE Execute(c)
    /\ UNCHANGED <<market, commands, issued, executed>>

\* The transaction up to its commit: replay, refuse or execute.
Begin(c) ==
    /\ calls[c].phase = "begin"
    /\ IF Recorded(calls[c].req) # {} THEN Replay(c)
       ELSE IF ~Allowed(calls[c].req) THEN Finish(c, "REFUSED", NoBody)
       ELSE Execute(c)
    /\ UNCHANGED <<market, commands, issued, executed>>

Writes(c) == DOMAIN calls[c].plan.after

\* Mutant: the sequence is read and written without compare-and-set.
Mutant_Current(c) == TRUE

\* acquireCommandSequence holds at the commit: nobody has written the
\* markets this transaction writes since its snapshot.
Current(c) == \A m \in Writes(c) : market[m] = calls[c].snap[m]

\* Mutant: the keys have no unique index.
Mutant_Clash(c) == FALSE

\* The unique index finds a row the snapshot did not show.
Clash(c) == Recorded(calls[c].req) # {}

Commit(c) ==
    LET r    == calls[c].req
        p    == calls[c].plan
        body == [outcome |-> p.outcome,
                 sequences |-> [m \in Writes(c) |->
                                    calls[c].snap[m].seq + 1]]
    IN  /\ calls[c].phase = "commit"
        /\ Current(c) /\ ~Clash(c)
        /\ market' = [m \in Markets |->
                        IF m \in Writes(c)
                        THEN [market[m] EXCEPT !.seq = body.sequences[m],
                                               !.live = p.after[m]]
                        ELSE market[m]]
        /\ commands' = commands \union {[req |-> r, body |-> body]}
        /\ issued' = [m \in Markets |->
                        IF m \in Writes(c)
                        THEN Append(issued[m], body.sequences[m])
                        ELSE issued[m]]
        /\ executed' = executed \union {[call |-> c, req |-> r, body |-> body]}
        /\ Finish(c, "BODY", body)

\* Mutant: the record is written before the sequence is taken.
Mutant_UniqueViolation(c) ==
    /\ calls[c].phase = "commit"
    /\ Clash(c)
    /\ Finish(c, "UNIQUE_VIOLATION", NoBody)
    /\ UNCHANGED <<market, commands, issued, executed>>

\* A unique violation is not retried: the call ends with an error.  The
\* market's sequence is taken before the record is written, so a transaction
\* that is not current conflicts first.  cancelAllOrders writes its record
\* first.
UniqueViolation(c) ==
    /\ calls[c].phase = "commit"
    /\ Clash(c)
    /\ calls[c].req.scope = Bulk \/ Current(c)
    /\ Finish(c, "UNIQUE_VIOLATION", NoBody)
    /\ UNCHANGED <<market, commands, issued, executed>>

\* The database aborts the transaction, for a conflict or without need, and
\* runSerializableTransaction begins anew or gives up.
Abort(c) ==
    /\ calls[c].phase = "commit"
    /\ IF calls[c].attempt < MaxAttempts
       THEN calls' = [calls EXCEPT ![c].phase = "begin", ![c].snap = <<>>,
                                   ![c].plan = <<>>, ![c].attempt = @ + 1]
       ELSE Finish(c, "CONFLICT", NoBody)
    /\ UNCHANGED <<market, commands, issued, executed>>

\* expireOrders and drainMarketOrderBook take a sequence number without a
\* client's key.
Background(m) ==
    /\ market[m].seq < MaxSequence
    /\ \E live \in {{}} \union {market[m].live \ {u} : u \in Users},
          open \in {FALSE, market[m].open} :
          /\ ~open => live = {}
          /\ market' = [market EXCEPT ![m] = [seq |-> @.seq + 1,
                                              open |-> open, live |-> live]]
    /\ issued' = [issued EXCEPT ![m] = Append(@, market[m].seq + 1)]
    /\ UNCHANGED <<commands, calls, executed>>

Next ==
    \/ \E r \in Requests : Start(r)
    \/ \E c \in DOMAIN calls :
          \/ Preflight(c) \/ Begin(c) \/ Commit(c)
          \/ UniqueViolation(c) \/ Abort(c)
    \/ \E m \in Markets : Background(m)

Spec == Init /\ [][Next]_vars

----------------------------------------------------------------------------

\* However often and however concurrently a key is used, and whatever it is
\* used for, one command executes under it (OrderCommand's unique index).
ExecutedOnce ==
    \A e, f \in executed : Id(e.req) = Id(f.req) => e.call = f.call

\* The commands of a market are numbered 1, 2, 3, ... in the order in which
\* they take effect (acquireCommandSequence).
SequenceGapless ==
    \A m \in Markets : issued[m] = [k \in 1 .. market[m].seq |-> k]

\* A result a client receives is the result of the one execution of its own
\* request, so all answers to a request agree.
AnswerIsTheExecution ==
    \A c \in DOMAIN calls : calls[c].answer.kind = "BODY" =>
        \E e \in executed : /\ e.req = calls[c].req
                            /\ e.body = calls[c].answer.body

\* A command that executed is never answered with a refusal, though the
\* order it cancelled is no longer live or the market has closed since:
\* a repeated call learns what happened.
NeverRefusedAfterExecution ==
    [][\A c \in DOMAIN calls :
            calls'[c].answer.kind = "REFUSED"
                => calls[c].answer.kind = "REFUSED"
                   \/ \A e \in executed : e.req # calls[c].req]_vars

\* A concurrent duplicate of an order command is retried and replayed, never
\* answered with the database's unique violation: only another request under
\* the same key is.
DuplicatesReplayed ==
    \A c \in DOMAIN calls :
        calls[c].answer.kind = "UNIQUE_VIOLATION" /\ calls[c].req.scope # Bulk
            => \E row \in Recorded(calls[c].req) : row.req # calls[c].req
=============================================================================
