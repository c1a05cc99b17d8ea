------------------------- MODULE OrderCommandsProofs -------------------------
(***************************************************************************)
(* Proofs about OrderCommands, for any users, markets and requests: one    *)
(* command executes under a key, a market's sequence has no gap, and what  *)
(* a repeated call is answered is what happened.                           *)
(***************************************************************************)
EXTENDS OrderCommands, FiniteSetTheorems, TLAPS

MarketRow == [seq : Nat, open : BOOLEAN, live : SUBSET Users]
Snapshots == UNION {[M -> MarketRow] : M \in SUBSET Markets}
Bodies == [outcome : {"NONE", "ACCEPTED", "REJECTED"},
           sequences : UNION {[M -> Nat] : M \in SUBSET Markets}]
Plans == [outcome : {"ACCEPTED", "REJECTED"},
          after : UNION {[M -> SUBSET Users] : M \in SUBSET Markets}]
Kinds == {"NONE", "BODY", "REFUSED", "IDEMPOTENCY_CONFLICT", "UNIQUE_VIOLATION",
          "CONFLICT"}
Answers == [kind : Kinds, body : Bodies]
Phases == {"preflight", "begin", "commit", "done"}
Call == [req : Requests, attempt : Nat, snap : Snapshots,
         plan : Plans \union {<<>>}, phase : Phases, answer : Answers]
Execution == [call : Nat, req : Requests, body : Bodies]
Row == [req : Requests, body : Bodies]

\* The types of the variables.
Typed ==
    /\ market \in [Markets -> MarketRow]
    /\ commands \in SUBSET Row
    /\ calls \in Seq(Call)
    /\ issued \in [Markets -> Seq(Nat)]
    /\ executed \in SUBSET Execution

\* The record has a row for each execution and no other, and a call that
\* executed is over, with its own result for an answer.
RecordExact ==
    /\ \A e \in executed : /\ e.call \in DOMAIN calls
                           /\ calls[e.call].req = e.req
                           /\ calls[e.call].phase = "done"
                           /\ [req |-> e.req, body |-> e.body] \in commands
    /\ \A row \in commands : \E e \in executed : e.req = row.req /\ e.body = row.body

\* What a call that is to commit has read and plans to write: the markets of
\* its request at an earlier time, and its own row if somebody else has
\* recorded it since has moved the sequence of one of them.
Planned(c) ==
    LET r == calls[c].req IN
    /\ calls[c].plan \in Plans
    /\ DOMAIN calls[c].plan.after = DOMAIN calls[c].snap
    /\ DOMAIN calls[c].snap \subseteq Markets
    /\ r.scope # Bulk => DOMAIN calls[c].snap = r.markets
    /\ \A m \in DOMAIN calls[c].snap : calls[c].snap[m].seq <= market[m].seq
    /\ r.scope # Bulk =>
         \A row \in commands : row.req = r =>
            \E m \in r.markets : calls[c].snap[m].seq < market[m].seq

CommitsPlanned == \A c \in DOMAIN calls : calls[c].phase = "commit" => Planned(c)

\* The inductive invariant.
Inv ==
    /\ Typed /\ RecordExact /\ CommitsPlanned
    /\ ExecutedOnce /\ SequenceGapless /\ AnswerIsTheExecution /\ DuplicatesReplayed

-----------------------------------------------------------------------------

\* A request that is not a bulk cancellation names a market.
LEMMA NamesAMarket ==
    ASSUME NEW r \in Requests, r.scope # Bulk
    PROVE  \E m \in Markets : m \in r.markets
  <1>1. r.markets \subseteq Markets /\ Cardinality(r.markets) = 1
    BY CommandsAssumption
  <1>2. r.markets # {}
    BY <1>1, FS_EmptySet
  <1> QED
    BY <1>1, <1>2

LEMMA EmptyTyped == <<>> \in Snapshots /\ NoBody \in Bodies
  <1>1. <<>> \in [{} -> Nat] /\ <<>> \in [{} -> MarketRow]
    OBVIOUS
  <1>2. <<>> \in UNION {[M -> Nat] : M \in SUBSET Markets}
    BY <1>1
  <1>3. <<>> \in Snapshots
    BY <1>1 DEF Snapshots
  <1> QED
    BY <1>2, <1>3 DEF NoBody, Bodies

LEMMA InitInv == Init => Inv
  <1> SUFFICES ASSUME Init PROVE Inv
    OBVIOUS
  <1> USE DEF Init
  <1>1. Typed
    <2>1. market \in [Markets -> MarketRow]
      BY CommandsAssumption DEF MarketRow
    <2> QED
      BY <2>1 DEF Typed
  <1>2. SequenceGapless
    BY DEF SequenceGapless
  <1>3. RecordExact /\ CommitsPlanned /\ ExecutedOnce /\ AnswerIsTheExecution
          /\ DuplicatesReplayed
    BY DEF RecordExact, CommitsPlanned, ExecutedOnce, AnswerIsTheExecution,
           DuplicatesReplayed
  <1> QED
    BY <1>1, <1>2, <1>3 DEF Inv

LEMMA CallTyped ==
    ASSUME Inv, NEW c \in DOMAIN calls
    PROVE  /\ calls[c] \in Call /\ calls[c].req \in Requests /\ calls[c].attempt \in Nat
           /\ calls[c].answer \in Answers /\ calls[c].plan \in Plans \union {<<>>}
  <1>1. calls[c] \in Call
    BY DEF Inv, Typed
  <1> QED
    BY <1>1 DEF Call

\* What ending a call does to the calls.
LEMMA Finished ==
    ASSUME Inv, NEW c \in DOMAIN calls, NEW kind \in Kinds, NEW body \in Bodies,
           Finish(c, kind, body)
    PROVE  /\ calls' \in Seq(Call) /\ DOMAIN calls' = DOMAIN calls
           /\ \A d \in DOMAIN calls : d # c => calls'[d] = calls[d]
           /\ calls'[c].req = calls[c].req /\ calls'[c].phase = "done"
           /\ calls'[c].answer.kind = kind /\ calls'[c].answer.body = body
  <1> DEFINE next == [calls[c] EXCEPT !.phase = "done", !.attempt = 1, !.snap = <<>>,
                        !.plan = <<>>, !.answer = [kind |-> kind, body |-> body]]
  <1>1. calls \in Seq(Call) /\ calls[c] \in Call /\ calls' = [calls EXCEPT ![c] = next]
    BY CallTyped DEF Inv, Typed, Finish
  <1>2. next \in Call
    <2>1. [kind |-> kind, body |-> body] \in Answers
      BY DEF Answers
    <2>2. calls[c] \in Call /\ 1 \in Nat /\ <<>> \in Plans \union {<<>>} /\ "done" \in Phases
      BY <1>1 DEF Phases
    <2> QED
      BY <2>1, <2>2, EmptyTyped DEF Call
  <1>3. /\ next.req = calls[c].req /\ next.phase = "done"
        /\ next.answer.kind = kind /\ next.answer.body = body
    BY <1>1 DEF Call
  <1> HIDE DEF next
  <1> QED
    BY <1>1, <1>2, <1>3

\* Ending a call keeps the invariant when its answer tells the truth.
LEMMA AnswerKeepsInv ==
    ASSUME Inv, NEW c \in DOMAIN calls, calls[c].phase # "done",
           NEW kind \in Kinds, NEW body \in Bodies, Finish(c, kind, body),
           UNCHANGED <<market, commands, issued, executed>>,
           kind = "BODY" =>
             \E e \in executed : e.req = calls[c].req /\ e.body = body,
           kind = "UNIQUE_VIOLATION" /\ calls[c].req.scope # Bulk =>
             \E row \in Recorded(calls[c].req) : row.req # calls[c].req
    PROVE  Inv'
  <1> USE DEF Inv
  <1>1. /\ calls' \in Seq(Call) /\ DOMAIN calls' = DOMAIN calls
        /\ \A d \in DOMAIN calls : d # c => calls'[d] = calls[d]
        /\ calls'[c].req = calls[c].req /\ calls'[c].phase = "done"
        /\ calls'[c].answer.kind = kind /\ calls'[c].answer.body = body
    BY Finished
  <1>2. Typed'
    BY <1>1 DEF Typed
  <1>3. RecordExact'
    BY <1>1 DEF RecordExact
  <1>4. CommitsPlanned'
    BY <1>1 DEF CommitsPlanned, Planned
  <1>5. ExecutedOnce' /\ SequenceGapless'
    BY DEF ExecutedOnce, SequenceGapless, Id
  <1>6. AnswerIsTheExecution'
    BY <1>1 DEF AnswerIsTheExecution
  <1>7. DuplicatesReplayed'
    BY <1>1 DEF DuplicatesReplayed, Recorded
  <1> QED
    BY <1>2, <1>3, <1>4, <1>5, <1>6, <1>7

\* Answering a call from the record keeps the invariant.
LEMMA ReplayKeepsInv ==
    ASSUME Inv, NEW c \in DOMAIN calls, calls[c].phase # "done", Replay(c),
           UNCHANGED <<market, commands, issued, executed>>
    PROVE  Inv'
  <1>1. PICK row \in Recorded(calls[c].req) :
          IF row.req = calls[c].req THEN Finish(c, "BODY", row.body)
          ELSE Finish(c, "IDEMPOTENCY_CONFLICT", NoBody)
    BY DEF Replay
  <1>2. row \in commands /\ row.body \in Bodies
    BY DEF Inv, Typed, Recorded, Row
  <1>3. /\ "BODY" \in Kinds /\ "IDEMPOTENCY_CONFLICT" \in Kinds
        /\ "BODY" # "UNIQUE_VIOLATION" /\ "IDEMPOTENCY_CONFLICT" # "UNIQUE_VIOLATION"
        /\ "IDEMPOTENCY_CONFLICT" # "BODY" /\ NoBody \in Bodies
    BY EmptyTyped DEF Kinds
  <1>4. CASE row.req = calls[c].req
    <2>1. \E e \in executed : e.req = calls[c].req /\ e.body = row.body
      BY <1>2, <1>4 DEF Inv, RecordExact
    <2> QED
      BY <1>1, <1>2, <1>3, <1>4, <2>1, AnswerKeepsInv, Zenon
  <1>5. CASE row.req # calls[c].req
    BY <1>1, <1>3, <1>5, AnswerKeepsInv, Zenon
  <1> QED
    BY <1>4, <1>5

\* A step that changes one call only, which has not answered and goes on.
LEMMA GoingOnKeepsInv ==
    ASSUME Inv, NEW c \in DOMAIN calls, calls[c].phase # "done",
           UNCHANGED <<market, commands, issued, executed>>,
           NEW next \in Call, calls' = [calls EXCEPT ![c] = next],
           next.req = calls[c].req, next.answer = calls[c].answer,
           next.phase = "commit" => Planned(c)'
    PROVE  Inv'
  <1> USE DEF Inv
  <1>1. /\ calls' \in Seq(Call) /\ DOMAIN calls' = DOMAIN calls
        /\ \A d \in DOMAIN calls : d # c => calls'[d] = calls[d]
        /\ calls'[c] = next
    BY DEF Typed
  <1>2. Typed'
    BY <1>1 DEF Typed
  <1>3. RecordExact'
    BY <1>1 DEF RecordExact
  <1>4. CommitsPlanned'
    BY <1>1 DEF CommitsPlanned, Planned
  <1>5. ExecutedOnce' /\ SequenceGapless'
    BY DEF ExecutedOnce, SequenceGapless, Id
  <1>6. AnswerIsTheExecution' /\ DuplicatesReplayed'
    BY <1>1 DEF AnswerIsTheExecution, DuplicatesReplayed, Recorded
  <1> QED
    BY <1>2, <1>3, <1>4, <1>5, <1>6

LEMMA StartKeepsInv ==
    ASSUME Inv, NEW r \in Requests, Start(r) PROVE Inv'
  <1> USE DEF Inv
  <1> DEFINE new == [req |-> r, attempt |-> 1, snap |-> <<>>, plan |-> <<>>,
                     phase |-> "preflight", answer |-> NoAnswer]
  <1>1. new \in Call
    <2>1. NoAnswer \in Answers
      BY EmptyTyped DEF NoAnswer, Answers, Kinds
    <2>2. <<>> \in Snapshots
      BY EmptyTyped
    <2> QED
      BY <2>1, <2>2 DEF Call, Phases
  <1>2. /\ calls \in Seq(Call) /\ calls' = Append(calls, new)
        /\ UNCHANGED <<market, commands, issued, executed>>
    BY DEF Start, Typed
  <1> HIDE DEF new
  <1>3. /\ calls' \in Seq(Call) /\ DOMAIN calls \subseteq DOMAIN calls'
        /\ \A d \in DOMAIN calls : calls'[d] = calls[d]
        /\ \A d \in DOMAIN calls' : d \in DOMAIN calls \/ calls'[d] = new
    BY <1>1, <1>2
  <1>4. new.phase = "preflight" /\ new.answer.kind = "NONE"
    BY DEF new, NoAnswer
  <1>5. Typed' /\ RecordExact'
    BY <1>2, <1>3 DEF Typed, RecordExact
  <1>6. CommitsPlanned'
    BY <1>2, <1>3, <1>4 DEF CommitsPlanned, Planned
  <1>7. ExecutedOnce' /\ SequenceGapless'
    BY <1>2 DEF ExecutedOnce, SequenceGapless, Id
  <1>8. AnswerIsTheExecution' /\ DuplicatesReplayed'
    BY <1>2, <1>3, <1>4 DEF AnswerIsTheExecution, DuplicatesReplayed, Recorded
  <1> QED
    BY <1>5, <1>6, <1>7, <1>8

LEMMA PreflightKeepsInv ==
    ASSUME Inv, NEW c \in DOMAIN calls, Preflight(c) PROVE Inv'
  <1>1. /\ calls[c].phase # "done" /\ calls[c] \in Call
        /\ UNCHANGED <<market, commands, issued, executed>>
    BY DEF Preflight, Inv, Typed
  <1>2. CASE Replay(c)
    BY <1>1, <1>2, ReplayKeepsInv
  <1>3. CASE calls' = [calls EXCEPT ![c].phase = "begin"]
    <2> DEFINE next == [calls[c] EXCEPT !.phase = "begin"]
    <2>1. /\ next \in Call /\ next.req = calls[c].req
          /\ next.answer = calls[c].answer /\ next.phase # "commit"
      BY <1>1 DEF Call, Phases
    <2>2. calls' = [calls EXCEPT ![c] = next]
      BY <1>3
    <2> QED
      BY <1>1, <2>1, <2>2, GoingOnKeepsInv
  <1> QED
    BY <1>2, <1>3 DEF Preflight

LEMMA BeginKeepsInv ==
    ASSUME Inv, NEW c \in DOMAIN calls, Begin(c) PROVE Inv'
  <1> DEFINE r == calls[c].req
  <1>1. /\ calls[c].phase = "begin" /\ calls[c] \in Call /\ r \in Requests
        /\ UNCHANGED <<market, commands, issued, executed>>
    BY CallTyped DEF Begin
  <1>2. CASE Replay(c)
    BY <1>1, <1>2, ReplayKeepsInv
  <1>3. CASE Finish(c, "REFUSED", NoBody)
    <2>1. "REFUSED" \in Kinds /\ "REFUSED" # "BODY" /\ "REFUSED" # "UNIQUE_VIOLATION"
      BY DEF Kinds
    <2> QED
      BY <1>1, <1>3, <2>1, EmptyTyped, AnswerKeepsInv, Zenon
  <1>4. CASE Recorded(r) = {} /\ Execute(c)
    <2>1. PICK outcome \in Outcomes(r), after \in [Written(r, market) -> SUBSET Users] :
            calls' = [calls EXCEPT
                        ![c].phase = "commit",
                        ![c].snap = [m \in DOMAIN after |-> market[m]],
                        ![c].plan = [outcome |-> outcome, after |-> after]]
      BY <1>4 DEF Execute
    <2> DEFINE snap == [m \in DOMAIN after |-> market[m]]
               plan == [outcome |-> outcome, after |-> after]
               next == [calls[c] EXCEPT !.phase = "commit", !.snap = snap, !.plan = plan]
    <2>2. /\ Written(r, market) \subseteq r.markets /\ r.markets \subseteq Markets
          /\ r.scope # Bulk => Written(r, market) = r.markets
      BY <1>1, CommandsAssumption DEF Written
    <2>3. market \in [Markets -> MarketRow]
      BY DEF Inv, Typed
    <2>4. snap \in [Written(r, market) -> MarketRow]
      BY <2>2, <2>3
    <2>5. snap \in Snapshots
      BY <2>2, <2>4 DEF Snapshots
    <2>6. plan \in Plans
      <3>1. outcome \in {"ACCEPTED", "REJECTED"}
        BY DEF Outcomes
      <3>2. after \in UNION {[M -> SUBSET Users] : M \in SUBSET Markets}
        BY <2>2
      <3> QED
        BY <3>1, <3>2 DEF Plans
    <2> HIDE DEF snap, plan
    <2>7. next \in Call /\ next.req = r /\ next.answer = calls[c].answer
      BY <1>1, <2>5, <2>6 DEF Call, Phases
    <2>8. next.snap = snap /\ next.plan = plan
      BY <1>1 DEF Call
    <2>9. calls' = [calls EXCEPT ![c] = next]
      BY <2>1 DEF snap, plan
    <2> HIDE DEF next
    <2>10. calls'[c] = next
      BY <2>9, <2>7 DEF Inv, Typed
    <2>11. Planned(c)'
      <3>1. /\ DOMAIN plan.after = Written(r, market) /\ DOMAIN snap = Written(r, market)
            /\ \A m \in DOMAIN snap : snap[m].seq = market[m].seq /\ market[m].seq \in Nat
        BY <2>2, <2>3 DEF plan, snap, MarketRow
      <3>2. \A row \in commands : row.req # r
        BY <1>4 DEF Recorded, Id
      <3> QED
        BY <1>1, <2>2, <2>6, <2>7, <2>8, <2>10, <3>1, <3>2 DEF Planned
    <2> QED
      BY <1>1, <2>7, <2>9, <2>11, GoingOnKeepsInv
  <1> QED
    BY <1>2, <1>3, <1>4 DEF Begin

LEMMA AbortKeepsInv ==
    ASSUME Inv, NEW c \in DOMAIN calls, Abort(c) PROVE Inv'
  <1>1. /\ calls[c].phase = "commit" /\ calls[c] \in Call
        /\ UNCHANGED <<market, commands, issued, executed>>
    BY CallTyped DEF Abort
  <1>2. CASE Finish(c, "CONFLICT", NoBody)
    <2>1. "CONFLICT" \in Kinds /\ "CONFLICT" # "BODY" /\ "CONFLICT" # "UNIQUE_VIOLATION"
      BY DEF Kinds
    <2> QED
      BY <1>1, <1>2, <2>1, EmptyTyped, AnswerKeepsInv, Zenon
  <1>3. CASE calls' = [calls EXCEPT ![c].phase = "begin", ![c].snap = <<>>,
                                    ![c].plan = <<>>, ![c].attempt = @ + 1]
    <2> DEFINE next == [calls[c] EXCEPT !.phase = "begin", !.snap = <<>>, !.plan = <<>>,
                                        !.attempt = @ + 1]
    <2>1. /\ calls[c].attempt + 1 \in Nat /\ <<>> \in Plans \union {<<>>}
          /\ "begin" \in Phases
      BY CallTyped DEF Phases
    <2>2. next \in Call
      BY <1>1, <2>1, EmptyTyped DEF Call
    <2>3. /\ next.req = calls[c].req /\ next.answer = calls[c].answer
          /\ next.phase # "commit"
      BY <1>1 DEF Call
    <2>4. calls' = [calls EXCEPT ![c] = next]
      BY <1>3
    <2> QED
      BY <1>1, <2>2, <2>3, <2>4, GoingOnKeepsInv
  <1> QED
    BY <1>2, <1>3 DEF Abort

\* A duplicate that the unique index finds has moved the sequence since, unless
\* it is another request under the same key.
LEMMA UniqueViolationKeepsInv ==
    ASSUME Inv, NEW c \in DOMAIN calls, UniqueViolation(c) PROVE Inv'
  <1> DEFINE r == calls[c].req
  <1>1. /\ calls[c].phase = "commit" /\ Finish(c, "UNIQUE_VIOLATION", NoBody)
        /\ Clash(c) /\ (r.scope = Bulk \/ Current(c)) /\ r \in Requests
        /\ UNCHANGED <<market, commands, issued, executed>>
    BY CallTyped DEF UniqueViolation
  <1>2. "UNIQUE_VIOLATION" \in Kinds /\ "UNIQUE_VIOLATION" # "BODY"
    BY DEF Kinds
  <1>3. r.scope # Bulk => \E row \in Recorded(r) : row.req # r
    <2> SUFFICES ASSUME r.scope # Bulk, \A row \in Recorded(r) : row.req = r
                 PROVE  FALSE
      OBVIOUS
    <2>1. PICK row \in commands : row.req = r
      BY <1>1 DEF Clash, Recorded
    <2>2. /\ Planned(c) /\ DOMAIN calls[c].plan.after = r.markets
      BY <1>1 DEF Inv, CommitsPlanned, Planned
    <2>3. PICK m \in r.markets : calls[c].snap[m].seq < market[m].seq
      BY <2>1, <2>2 DEF Planned
    <2>4. market[m] = calls[c].snap[m]
      BY <1>1, <2>2 DEF Current, Writes
    <2>5. m \in Markets /\ market[m].seq \in Nat
      BY <1>1, CommandsAssumption DEF Inv, Typed, MarketRow
    <2> QED
      BY <2>3, <2>4, <2>5
  <1> QED
    BY <1>1, <1>2, <1>3, EmptyTyped, AnswerKeepsInv, Zenon

\* The sequence numbers of the markets that a step writes go up by one, and no
\* other's; nobody's plan was made with a later one.
LEMMA SequenceGrows ==
    ASSUME Inv, NEW W \in SUBSET Markets, market' \in [Markets -> MarketRow],
           \A m \in Markets : market'[m].seq =
               IF m \in W THEN market[m].seq + 1 ELSE market[m].seq,
           issued' = [m \in Markets |-> IF m \in W
                        THEN Append(issued[m], market'[m].seq) ELSE issued[m]]
    PROVE  /\ SequenceGapless' /\ issued' \in [Markets -> Seq(Nat)]
           /\ \A m \in Markets : market[m].seq \in Nat /\ market[m].seq <= market'[m].seq
  <1>1. \A m \in Markets : /\ market[m].seq \in Nat /\ market'[m].seq \in Nat
                           /\ issued[m] \in Seq(Nat)
    BY DEF Inv, Typed, MarketRow
  <1>2. ASSUME NEW m \in Markets
        PROVE  issued'[m] = [k \in 1 .. market'[m].seq |-> k]
    <2>1. issued[m] = [k \in 1 .. market[m].seq |-> k]
      BY DEF Inv, SequenceGapless
    <2>2. CASE m \in W
      <3> DEFINE n == market[m].seq
      <3>1. issued'[m] = Append(issued[m], n + 1) /\ market'[m].seq = n + 1 /\ n \in Nat
        BY <1>1, <2>2
      <3>2. Len(issued[m]) = n
        BY <1>1, <2>1, <3>1
      <3> HIDE DEF n
      <3>3. Append(issued[m], n + 1) = [k \in 1 .. n + 1 |-> k]
        <4>1. issued[m] = [k \in 1 .. n |-> k]
          BY <2>1 DEF n
        <4>2. /\ Append(issued[m], n + 1) \in Seq(Nat)
              /\ DOMAIN Append(issued[m], n + 1) = 1 .. n + 1
          BY <1>1, <3>1, <3>2
        <4>3. \A k \in 1 .. n + 1 : Append(issued[m], n + 1)[k] = k
          BY <1>1, <3>1, <3>2, <4>1
        <4> QED
          BY <4>2, <4>3
      <3> QED
        BY <3>1, <3>3
    <2>3. CASE m \notin W
      BY <2>1, <2>3
    <2> QED
      BY <2>2, <2>3
  <1>3. SequenceGapless'
    BY <1>2 DEF SequenceGapless
  <1>4. issued' \in [Markets -> Seq(Nat)]
    BY <1>1
  <1> QED
    BY <1>1, <1>3, <1>4

LEMMA SnapshotTyped ==
    ASSUME Inv, NEW c \in DOMAIN calls, NEW m \in DOMAIN calls[c].snap
    PROVE  m \in Markets /\ calls[c].snap[m].seq \in Nat
  <1>1. calls[c].snap \in Snapshots
    BY CallTyped DEF Call
  <1>2. PICK M \in SUBSET Markets : calls[c].snap \in [M -> MarketRow]
    BY <1>1 DEF Snapshots
  <1> QED
    BY <1>2 DEF MarketRow

\* What is planned stays so while sequences only grow, if a row that is recorded
\* for the same request moves one of them.
LEMMA PlannedKept ==
    ASSUME Inv, NEW c \in DOMAIN calls, Planned(c), calls'[c] = calls[c],
           \A m \in Markets : /\ market[m].seq \in Nat /\ market'[m].seq \in Nat
                              /\ market[m].seq <= market'[m].seq,
           \A row \in commands' \ commands :
             row.req = calls[c].req /\ row.req.scope # Bulk =>
               \E m \in row.req.markets : market[m].seq < market'[m].seq
    PROVE  Planned(c)'
  <1>1. \A m \in DOMAIN calls[c].snap :
          /\ m \in Markets /\ calls[c].snap[m].seq \in Nat
          /\ calls[c].snap[m].seq <= market[m].seq
    BY SnapshotTyped DEF Planned
  <1>2. \A m \in DOMAIN calls[c].snap : calls[c].snap[m].seq <= market'[m].seq
    BY <1>1
  <1>3. ASSUME calls[c].req.scope # Bulk, NEW row \in commands', row.req = calls[c].req
        PROVE  \E m \in calls[c].req.markets : calls[c].snap[m].seq < market'[m].seq
    <2>1. DOMAIN calls[c].snap = calls[c].req.markets
      BY <1>3 DEF Planned
    <2>2. CASE row \in commands
      <3>1. PICK m \in calls[c].req.markets : calls[c].snap[m].seq < market[m].seq
        BY <1>3, <2>2 DEF Planned
      <3> QED
        BY <1>1, <2>1, <3>1
    <2>3. CASE row \notin commands
      <3>1. PICK m \in calls[c].req.markets : market[m].seq < market'[m].seq
        BY <1>3, <2>3
      <3> QED
        BY <1>1, <2>1, <3>1
    <2> QED
      BY <2>2, <2>3
  <1> QED
    BY <1>2, <1>3 DEF Planned

LEMMA BackgroundKeepsInv ==
    ASSUME Inv, NEW b \in Markets, Background(b) PROVE Inv'
  <1> USE DEF Inv
  <1>1. PICK live \in {{}} \union {market[b].live \ {u} : u \in Users},
             open \in {FALSE, market[b].open} :
          market' = [market EXCEPT ![b] = [seq |-> @.seq + 1, open |-> open, live |-> live]]
    BY DEF Background
  <1>2. /\ issued' = [issued EXCEPT ![b] = Append(@, market[b].seq + 1)]
        /\ UNCHANGED <<commands, calls, executed>>
        /\ market[b] \in MarketRow
    BY DEF Background, Typed
  <1>3. [seq |-> market[b].seq + 1, open |-> open, live |-> live] \in MarketRow
    <2>1. market[b].seq \in Nat /\ market[b].open \in BOOLEAN /\ market[b].live \subseteq Users
      BY <1>2 DEF MarketRow
    <2>2. live \in SUBSET Users
      BY <2>1
    <2>3. open = FALSE \/ open = market[b].open
      OBVIOUS
    <2>4. open \in BOOLEAN
      BY <2>1, <2>3, Zenon
    <2>5. market[b].seq + 1 \in Nat
      BY <2>1
    <2> QED
      BY <2>2, <2>4, <2>5 DEF MarketRow
  <1>4. market' \in [Markets -> MarketRow] /\ market'[b].seq = market[b].seq + 1
    BY <1>1, <1>3 DEF Typed
  <1>5. \A m \in Markets : market'[m].seq =
               IF m \in {b} THEN market[m].seq + 1 ELSE market[m].seq
    BY <1>1, <1>4 DEF Typed
  <1>6. issued' = [m \in Markets |-> IF m \in {b}
                     THEN Append(issued[m], market'[m].seq) ELSE issued[m]]
    BY <1>2, <1>4 DEF Typed
  <1>7. /\ SequenceGapless' /\ issued' \in [Markets -> Seq(Nat)]
        /\ \A m \in Markets : market[m].seq \in Nat /\ market[m].seq <= market'[m].seq
    BY <1>4, <1>5, <1>6, SequenceGrows
  <1>8. Typed'
    BY <1>2, <1>4, <1>7 DEF Typed
  <1>9. RecordExact' /\ ExecutedOnce' /\ AnswerIsTheExecution' /\ DuplicatesReplayed'
    BY <1>2 DEF RecordExact, ExecutedOnce, AnswerIsTheExecution, DuplicatesReplayed,
                Recorded, Id
  <1>10. CommitsPlanned'
    <2>1. \A m \in Markets : market'[m].seq \in Nat
      BY <1>4 DEF MarketRow
    <2> QED
      BY <1>2, <1>7, <2>1, PlannedKept DEF CommitsPlanned
  <1> QED
    BY <1>7, <1>8, <1>9, <1>10

LEMMA CommitKeepsInv ==
    ASSUME Inv, NEW c \in DOMAIN calls, Commit(c) PROVE Inv'
  <1> USE DEF Inv
  <1> DEFINE r == calls[c].req
             p == calls[c].plan
             W == DOMAIN p.after
             sequences == [m \in W |-> calls[c].snap[m].seq + 1]
             body == [outcome |-> p.outcome, sequences |-> sequences]
             row == [req |-> r, body |-> body]
             new == [call |-> c, req |-> r, body |-> body]
  <1>1. /\ calls[c].phase = "commit" /\ Current(c) /\ ~Clash(c) /\ Finish(c, "BODY", body)
        /\ market' = [m \in Markets |-> IF m \in W
              THEN [market[m] EXCEPT !.seq = sequences[m], !.live = p.after[m]]
              ELSE market[m]]
        /\ commands' = commands \union {row}
        /\ issued' = [m \in Markets |-> IF m \in W
              THEN Append(issued[m], sequences[m]) ELSE issued[m]]
        /\ executed' = executed \union {new}
    BY DEF Commit, Writes
  <1>2. Planned(c) /\ p \in Plans /\ r \in Requests
    BY <1>1, CallTyped DEF CommitsPlanned, Planned
  <1>3. W = DOMAIN calls[c].snap /\ W \subseteq Markets
    BY <1>2 DEF Planned
  <1>4. \A m \in W : /\ sequences[m] = market[m].seq + 1
                     /\ market[m].seq \in Nat
                     /\ calls[c].snap[m].seq = market[m].seq
    BY <1>1, <1>3 DEF Current, Writes, Typed, MarketRow
  <1>5. \A m \in W : p.after[m] \subseteq Users
    <2>1. p.after \in UNION {[M -> SUBSET Users] : M \in SUBSET Markets}
      BY <1>2 DEF Plans
    <2>2. PICK M \in SUBSET Markets : p.after \in [M -> SUBSET Users]
      BY <2>1
    <2> QED
      BY <2>2
  <1>6. body \in Bodies /\ row \in Row /\ new \in Execution
    <2>1. sequences \in [W -> Nat]
      <3> HIDE DEF W
      <3>1. \A m \in W : calls[c].snap[m].seq + 1 \in Nat
        BY <1>4
      <3> QED
        BY <3>1
    <2>2. p.outcome \in {"NONE", "ACCEPTED", "REJECTED"}
      BY <1>2 DEF Plans
    <2>3. body \in Bodies
      BY <1>3, <2>1, <2>2 DEF Bodies
    <2>4. c \in Nat
      BY DEF Typed
    <2> QED
      BY <1>2, <2>3, <2>4 DEF Row, Execution
  <1>7. row.req = r /\ row.body = body /\ new.call = c /\ new.req = r /\ new.body = body
    OBVIOUS
  <1> HIDE DEF p, W, sequences, body, row, new
  <1>8. /\ market' \in [Markets -> MarketRow]
        /\ \A m \in Markets : market'[m].seq =
              IF m \in W THEN market[m].seq + 1 ELSE market[m].seq
    <2> SUFFICES ASSUME NEW m \in Markets
                 PROVE  /\ market'[m] \in MarketRow
                        /\ market'[m].seq =
                             IF m \in W THEN market[m].seq + 1 ELSE market[m].seq
      BY <1>1
    <2>1. market[m] \in MarketRow
      BY DEF Typed
    <2>2. CASE m \in W
      <3>1. market'[m] = [market[m] EXCEPT !.seq = market[m].seq + 1, !.live = p.after[m]]
        BY <1>1, <1>4, <2>2
      <3>2. market[m].seq + 1 \in Nat /\ p.after[m] \in SUBSET Users
        BY <1>4, <1>5, <2>2
      <3> QED
        BY <2>1, <2>2, <3>1, <3>2 DEF MarketRow
    <2>3. CASE m \notin W
      BY <1>1, <2>1, <2>3
    <2> QED
      BY <2>2, <2>3
  <1>9. issued' = [m \in Markets |-> IF m \in W
                     THEN Append(issued[m], market'[m].seq) ELSE issued[m]]
    BY <1>1, <1>4, <1>8
  <1>10. /\ SequenceGapless' /\ issued' \in [Markets -> Seq(Nat)]
         /\ \A m \in Markets : market[m].seq \in Nat /\ market[m].seq <= market'[m].seq
    BY <1>3, <1>8, <1>9, SequenceGrows
  <1>11. /\ calls' \in Seq(Call) /\ DOMAIN calls' = DOMAIN calls
         /\ \A d \in DOMAIN calls : d # c => calls'[d] = calls[d]
         /\ calls'[c].req = r /\ calls'[c].phase = "done"
         /\ calls'[c].answer.kind = "BODY" /\ calls'[c].answer.body = body
    <2>1. "BODY" \in Kinds
      BY DEF Kinds
    <2> QED
      BY <1>1, <1>6, <2>1, Finished
  <1>12. Typed'
    BY <1>1, <1>6, <1>8, <1>10, <1>11 DEF Typed
  <1>13. ASSUME NEW e \in executed
         PROVE  e.call # c /\ Id(e.req) # Id(r)
    <2>1. /\ calls[e.call].phase = "done"
          /\ [req |-> e.req, body |-> e.body] \in commands
      BY DEF RecordExact
    <2>2. e.call # c
      BY <1>1, <2>1
    <2>3. \A q \in commands : Id(q.req) # Id(r)
      BY <1>1 DEF Clash, Recorded
    <2>4. Id([req |-> e.req, body |-> e.body].req) # Id(r)
      BY <2>1, <2>3, Zenon
    <2> QED
      BY <2>2, <2>4
  <1>14. RecordExact'
    BY <1>1, <1>7, <1>11, <1>13 DEF RecordExact, row, new
  <1>15. ExecutedOnce'
    <2> SUFFICES ASSUME NEW e \in executed', NEW f \in executed', Id(e.req) = Id(f.req)
                 PROVE  e.call = f.call
      BY DEF ExecutedOnce, Id
    <2>1. (e \in executed \/ e = new) /\ (f \in executed \/ f = new)
      BY <1>1
    <2>2. CASE e \in executed /\ f \in executed
      BY <2>2 DEF ExecutedOnce
    <2>3. CASE e = new /\ f = new
      BY <2>3
    <2>4. ~(e \in executed /\ f = new) /\ ~(f \in executed /\ e = new)
      BY <1>7, <1>13
    <2> QED
      BY <2>1, <2>2, <2>3, <2>4
  <1>16. AnswerIsTheExecution'
    <2> SUFFICES ASSUME NEW d \in DOMAIN calls, calls'[d].answer.kind = "BODY"
                 PROVE  \E e \in executed' : /\ e.req = calls'[d].req
                                             /\ e.body = calls'[d].answer.body
      BY <1>11 DEF AnswerIsTheExecution
    <2>1. CASE d = c
      <3>1. new \in executed'
        BY <1>1
      <3> QED
        BY <1>7, <1>11, <2>1, <3>1
    <2>2. CASE d # c
      <3>1. PICK e \in executed : e.req = calls[d].req /\ e.body = calls[d].answer.body
        BY <1>11, <2>2 DEF AnswerIsTheExecution
      <3> QED
        BY <1>1, <1>11, <2>2, <3>1
    <2> QED
      BY <2>1, <2>2
  <1>17. DuplicatesReplayed'
    <2> SUFFICES ASSUME NEW d \in DOMAIN calls, calls'[d].answer.kind = "UNIQUE_VIOLATION",
                        calls'[d].req.scope # Bulk
                 PROVE  \E q \in commands' : Id(q.req) = Id(calls'[d].req) /\ q.req # calls'[d].req
      BY <1>11 DEF DuplicatesReplayed, Recorded, Id
    <2>1. d # c
      BY <1>11
    <2>2. PICK q \in Recorded(calls[d].req) : q.req # calls[d].req
      BY <1>11, <2>1 DEF DuplicatesReplayed
    <2>3. q \in commands' /\ Id(q.req) = Id(calls[d].req)
      BY <1>1, <2>2 DEF Recorded
    <2> QED
      BY <1>11, <2>1, <2>2, <2>3
  <1>18. CommitsPlanned'
    <2> SUFFICES ASSUME NEW d \in DOMAIN calls, d # c, calls[d].phase = "commit"
                 PROVE  Planned(d)'
      BY <1>11 DEF CommitsPlanned
    <2>1. \A m \in Markets : market'[m].seq \in Nat
      BY <1>8 DEF MarketRow
    <2>2. ASSUME r.scope # Bulk
          PROVE  \E m \in r.markets : market[m].seq < market'[m].seq
      <3>1. PICK m \in Markets : m \in r.markets
        BY <1>2, <2>2, NamesAMarket
      <3>2. m \in W
        BY <1>2, <1>3, <2>2, <3>1 DEF Planned
      <3> QED
        BY <1>4, <1>8, <3>1, <3>2
    <2>3. \A q \in commands' \ commands : q = row
      BY <1>1
    <2>4. Planned(d)
      BY DEF CommitsPlanned
    <2> QED
      BY <1>7, <1>10, <1>11, <2>1, <2>2, <2>3, <2>4, PlannedKept
  <1> QED
    BY <1>10, <1>12, <1>14, <1>15, <1>16, <1>17, <1>18

-----------------------------------------------------------------------------
\* The theorems.

LEMMA NextKeepsInv == Inv /\ [Next]_vars => Inv'
  <1> SUFFICES ASSUME Inv, [Next]_vars PROVE Inv'
    OBVIOUS
  <1>1. CASE \E r \in Requests : Start(r)
    BY <1>1, StartKeepsInv
  <1>2. CASE \E c \in DOMAIN calls : Preflight(c)
    BY <1>2, PreflightKeepsInv
  <1>3. CASE \E c \in DOMAIN calls : Begin(c)
    BY <1>3, BeginKeepsInv
  <1>4. CASE \E c \in DOMAIN calls : Commit(c)
    BY <1>4, CommitKeepsInv
  <1>5. CASE \E c \in DOMAIN calls : UniqueViolation(c)
    BY <1>5, UniqueViolationKeepsInv
  <1>6. CASE \E c \in DOMAIN calls : Abort(c)
    BY <1>6, AbortKeepsInv
  <1>7. CASE \E m \in Markets : Background(m)
    BY <1>7, BackgroundKeepsInv
  <1>8. CASE UNCHANGED vars
    BY <1>8 DEF vars, Inv, Typed, RecordExact, CommitsPlanned, Planned, ExecutedOnce,
                SequenceGapless, AnswerIsTheExecution, DuplicatesReplayed, Recorded, Id
  <1> QED
    BY <1>1, <1>2, <1>3, <1>4, <1>5, <1>6, <1>7, <1>8 DEF Next

\* What a call reads, plans and answers, and what is recorded and issued, stay
\* consistent in every reachable state (order-exchange.ts executeCommand).
THEOREM InvAlways == Spec => []Inv
  <1>1. Init => Inv
    BY InitInv
  <1>2. Inv /\ [Next]_vars => Inv'
    BY NextKeepsInv
  <1> QED
    BY <1>1, <1>2, PTL DEF Spec

\* One command executes under a key, however many calls race for it.
THEOREM ExecutedOnceAlways == Spec => []ExecutedOnce
  <1>1. Inv => ExecutedOnce
    BY DEF Inv
  <1> QED
    BY <1>1, InvAlways, PTL

\* The commands of a market are numbered without a gap, however many calls and
\* background jobs take a number at once.
THEOREM SequenceGaplessAlways == Spec => []SequenceGapless
  <1>1. Inv => SequenceGapless
    BY DEF Inv
  <1> QED
    BY <1>1, InvAlways, PTL

\* A result that a client receives is that of the execution of its request.
THEOREM AnswerIsTheExecutionAlways == Spec => []AnswerIsTheExecution
  <1>1. Inv => AnswerIsTheExecution
    BY DEF Inv
  <1> QED
    BY <1>1, InvAlways, PTL

\* A duplicate of an order command never ends in a unique violation: the order
\* of the writes in the transaction makes it a conflict, which is retried.
THEOREM DuplicatesReplayedAlways == Spec => []DuplicatesReplayed
  <1>1. Inv => DuplicatesReplayed
    BY DEF Inv
  <1> QED
    BY <1>1, InvAlways, PTL

\* No step refuses a call whose request has executed.
LEMMA NeverRefusedStep ==
    ASSUME Inv, [Next]_vars, NEW c \in DOMAIN calls, calls'[c].answer.kind = "REFUSED"
    PROVE  \/ calls[c].answer.kind = "REFUSED"
           \/ \A e \in executed : e.req # calls[c].req
  <1> DEFINE Kept == calls'[c].answer = calls[c].answer
  <1>1. ASSUME NEW d \in DOMAIN calls, NEW kind \in Kinds, NEW body \in Bodies,
               Finish(d, kind, body), kind # "REFUSED"
        PROVE  Kept
    BY <1>1, Finished
  <1>2. ASSUME NEW d \in DOMAIN calls, NEW next \in Call, next.answer = calls[d].answer,
               calls' = [calls EXCEPT ![d] = next]
        PROVE  Kept
    BY <1>2 DEF Inv, Typed
  <1>3. ASSUME NEW d \in DOMAIN calls, Replay(d)
        PROVE  Kept
    <2>1. PICK row \in Recorded(calls[d].req) :
            IF row.req = calls[d].req THEN Finish(d, "BODY", row.body)
            ELSE Finish(d, "IDEMPOTENCY_CONFLICT", NoBody)
      BY <1>3 DEF Replay
    <2>2. row.body \in Bodies
      BY DEF Inv, Typed, Recorded, Row
    <2>3. "BODY" \in Kinds /\ "IDEMPOTENCY_CONFLICT" \in Kinds
      BY DEF Kinds
    <2> QED
      BY <1>1, <2>1, <2>2, <2>3, EmptyTyped
  <1>4. CASE \E r \in Requests : Start(r)
    BY <1>4 DEF Start, Inv, Typed
  <1>5. CASE \E d \in DOMAIN calls : Preflight(d)
    <2>1. PICK d \in DOMAIN calls : Preflight(d)
      BY <1>5
    <2>2. CASE calls' = [calls EXCEPT ![d].phase = "begin"]
      BY <2>2, CallTyped DEF Inv, Typed, Call
    <2> QED
      BY <1>3, <2>1, <2>2 DEF Preflight
  <1>6. CASE \E d \in DOMAIN calls : Begin(d)
    <2>1. PICK d \in DOMAIN calls : Begin(d)
      BY <1>6
    <2>2. CASE Recorded(calls[d].req) # {}
      BY <1>3, <2>1, <2>2 DEF Begin
    <2>3. CASE Recorded(calls[d].req) = {} /\ Finish(d, "REFUSED", NoBody)
      <3>1. \A q \in commands : q.req # calls[d].req
        BY <2>3 DEF Recorded, Id
      <3>2. \A e \in executed : e.req # calls[d].req
        BY <3>1 DEF Inv, RecordExact
      <3>3. c # d => Kept
        BY <2>3 DEF Finish, Inv, Typed
      <3> QED
        BY <3>2, <3>3
    <2>4. CASE Execute(d)
      <3>1. PICK outcome \in Outcomes(calls[d].req),
                 after \in [Written(calls[d].req, market) -> SUBSET Users] :
              calls' = [calls EXCEPT
                          ![d].phase = "commit",
                          ![d].snap = [m \in DOMAIN after |-> market[m]],
                          ![d].plan = [outcome |-> outcome, after |-> after]]
        BY <2>4 DEF Execute
      <3>2. calls[d] \in Call /\ calls \in Seq(Call)
        BY CallTyped DEF Inv, Typed
      <3> QED
        BY <3>1, <3>2 DEF Call
    <2> QED
      BY <2>1, <2>2, <2>3, <2>4 DEF Begin
  <1>7. CASE \E d \in DOMAIN calls : Commit(d)
    <2>1. PICK d \in DOMAIN calls : Commit(d)
      BY <1>7
    <2>2. CASE d # c
      BY <2>1, <2>2 DEF Commit, Finish, Inv, Typed
    <2>3. CASE d = c
      <3>1. PICK body : Finish(c, "BODY", body)
        BY <2>1, <2>3 DEF Commit
      <3>2. calls[c] \in Call /\ calls \in Seq(Call)
        BY CallTyped DEF Inv, Typed
      <3>3. calls'[c].answer = [kind |-> "BODY", body |-> body]
        BY <3>1, <3>2 DEF Finish, Call
      <3> QED
        BY <3>3
    <2> QED
      BY <2>2, <2>3
  <1>8. CASE \E d \in DOMAIN calls : UniqueViolation(d)
    <2>1. "UNIQUE_VIOLATION" \in Kinds /\ "UNIQUE_VIOLATION" # "REFUSED"
      BY DEF Kinds
    <2> QED
      BY <1>1, <1>8, <2>1, EmptyTyped DEF UniqueViolation
  <1>9. CASE \E d \in DOMAIN calls : Abort(d)
    <2>1. PICK d \in DOMAIN calls : Abort(d)
      BY <1>9
    <2>2. CASE Finish(d, "CONFLICT", NoBody)
      <3>1. "CONFLICT" \in Kinds /\ "CONFLICT" # "REFUSED"
        BY DEF Kinds
      <3> QED
        BY <1>1, <2>2, <3>1, EmptyTyped
    <2>3. CASE calls' = [calls EXCEPT ![d].phase = "begin", ![d].snap = <<>>,
                                      ![d].plan = <<>>, ![d].attempt = @ + 1]
      BY <2>3, CallTyped DEF Inv, Typed, Call
    <2> QED
      BY <2>1, <2>2, <2>3 DEF Abort
  <1>10. CASE \E m \in Markets : Background(m)
    BY <1>10 DEF Background
  <1>11. CASE UNCHANGED vars
    BY <1>11 DEF vars
  <1> QED
    BY <1>4, <1>5, <1>6, <1>7, <1>8, <1>9, <1>10, <1>11 DEF Next

\* A repeated call learns what happened: it is never refused after its command
\* executed, though the book would refuse it now.
THEOREM NeverRefusedAfterExecutionAlways == Spec => NeverRefusedAfterExecution
  <1> DEFINE A == \A c \in DOMAIN calls :
                     calls'[c].answer.kind = "REFUSED"
                       => calls[c].answer.kind = "REFUSED"
                          \/ \A e \in executed : e.req # calls[c].req
  <1>1. Inv /\ [Next]_vars => A
    BY NeverRefusedStep
  <1>2. Inv /\ [Next]_vars => [A]_vars
    BY <1>1
  <1> QED
    BY <1>2, InvAlways, PTL DEF Spec, NeverRefusedAfterExecution

=============================================================================
