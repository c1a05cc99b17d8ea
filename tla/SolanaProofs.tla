---------------------------- MODULE SolanaProofs ----------------------------
(***************************************************************************)
(* Proofs about the two ends of the Solana side.  ChainCommands, for any   *)
(* commands, dispatchers and bounds: a command is signed once and in its   *)
(* lane, and what its status says of the chain is true.  Ingestion, for    *)
(* any processes, page sizes, boundaries and history, and any number of    *)
(* upsets: no transaction is missed.                                       *)
(***************************************************************************)
EXTENDS ChainCommands, Ingestion, TLAPS

----------------------------------------------------------------------------
\* Commands.

\* A journal holds at most one wire.
Journals == {<<>>} \union {<<f>> : f \in Fates}

\* The kinds of which a dispatcher's catch clause makes a finalized command
\* FAILED_RETRYABLE.
Again == ProjectKinds \union {"REGISTER_SEAT"}

\* What the status of a command of kind k says of its journal ws.
RowFits(k, row, ws) ==
    /\ row.status # Absent => k \in Kinds
    /\ row.status = Absent => ws = <<>>
    /\ row.status \in Starts /\ ~row.finalizedAt => ws = <<>>
    /\ row.status \in Done => row.finalizedAt
    /\ row.finalizedAt => ws = <<"succeeded">>
    /\ row.status = "FAILED_TERMINAL" => ws \in {<<>>, <<"failed">>}
    /\ row.status \in Pending \union {"UNKNOWN"} => ws # <<>>
    /\ row.status \in Starts /\ row.finalizedAt => k \in Again
    /\ row.status \in {"ACCEPTED", "PREPARED"} /\ row.finalizedAt => k = "REGISTER_SEAT"

Wired == {"send", "submitted", "unsure", "track", "finalized", "failed", "ambiguous"}

\* What a dispatcher at work on a command knows of its row and its journal.
CallFits(a, k, row, ws) ==
    /\ row.status # Absent /\ a.status \in Statuses
    /\ a.current => a.status = row.status
    /\ a.pc \in {"lease", "entry"} => a.status \in Dispatchable(k)
    /\ a.pc = "prepare" /\ a.current =>
          a.status \in Starts /\ (k \in ProjectKinds => ~row.finalizedAt)
    /\ a.pc \in {"sign", "refused"} /\ a.current => a.status = "PREPARED"
    /\ a.pc = "refused" => Dispatcher[k].refuses
    /\ a.pc \in Wired \/ a.status \in Pending \union {"UNKNOWN"} => ws # <<>>
    /\ a.pc = "send" => ws = <<"journaled">>
    /\ a.pc = "finalized" => ws = <<"succeeded">>
    /\ a.pc = "failed" => ws = <<"failed">>
    /\ a.status = "FINALIZED" => a.pc = "release" \/ k \in Again

\* When a dispatcher d has the lane ln: to sign, and for as long as the lease of
\* its command runs.
LaneFits(d, a, k, row, ln) ==
    /\ a.pc = "lease" => ~a.lane
    /\ a.pc = "sign" /\ k \in LaneKinds => a.lane
    /\ a.pc = "prepare" /\ Dispatcher[k].lane = "entry" => a.lane
    /\ a.lane /\ a.current /\ row.left > 0 => ln.holder = d /\ row.left <= ln.left

Fits(d, a, k, row, ws, ln) ==
    \/ a = Idle
    \/ /\ a.pc # "idle" /\ a.cmd \in Commands
       /\ CallFits(a, k, row, ws) /\ LaneFits(d, a, k, row, ln)

RowsFit == \A c \in Commands : wires[c] \in Journals /\ RowFits(kind[c], command[c], wires[c])

CallsFit == \A d \in Dispatchers :
    Fits(d, at[d], kind[at[d].cmd], command[at[d].cmd], wires[at[d].cmd], lane)

\* No two dispatchers are about to send the same command.
SendAlone == \A d, e \in Dispatchers :
    at[d].pc = "send" /\ at[e].pc = "send" /\ at[d].cmd = at[e].cmd => d = e

\* The inductive invariant.
Inv == TypeOK /\ RowsFit /\ CallsFit /\ SendAlone

-----------------------------------------------------------------------------
\* The policies of the dispatchers and the state machine of a command.

LEMMA PolicyFacts ==
    ASSUME NEW k \in Kinds
    PROVE  /\ Dispatcher[k].takes \subseteq {"UNKNOWN", "FINALIZED"}
           /\ "FINALIZED" \in Dispatcher[k].takes => k \in ProjectKinds
           /\ Dispatcher[k].after \in {"release", "idle", "projected", "project"}
           /\ Dispatcher[k].after \in {"projected", "project"} => k \in Again
           /\ Dispatcher[k].refuses => k \notin Again
           /\ Dispatcher[k].lane \in {"prepare", "entry", "never"}
           /\ Settled \subseteq Dispatcher[k].settled
  <1>1. CASE k = "PLACE_ORDER"
    BY <1>1 DEF Dispatcher, Order, Settled, ProjectKinds, Again
  <1>2. CASE k = "DEPOSIT_ESCROW"
    BY <1>2 DEF Dispatcher, Escrow, Settled, ProjectKinds, Again
  <1>3. CASE k = "REGISTER_SEAT"
    BY <1>3 DEF Dispatcher, Seat, Settled, ProjectKinds, Again
  <1>4. CASE k = "TRANSFER_FEATHERS"
    BY <1>4 DEF Dispatcher, Transfer, Settled, ProjectKinds, Again
  <1>5. CASE k = "CANCEL_ORDER"
    BY <1>5 DEF Dispatcher, Cancellation, Settled, ProjectKinds, Again
  <1>6. CASE k = "REPLACE_ORDER"
    BY <1>6 DEF Dispatcher, Amendment, Settled, ProjectKinds, Again
  <1>7. CASE k = "RESOLUTION"
    BY <1>7 DEF Dispatcher, Resolution, Settled, ProjectKinds, Again
  <1>8. CASE k \in ProjectKinds
    BY <1>8 DEF Dispatcher, Market, MarketBook, Settled, ProjectKinds, Again
  <1> QED
    BY <1>1, <1>2, <1>3, <1>4, <1>5, <1>6, <1>7, <1>8 DEF Kinds, ProjectKinds

LEMMA StatusFacts ==
    /\ Statuses = {"ACCEPTED", "PREPARED", "SIGNED", "SUBMITTED", "CONFIRMED", "FINALIZED",
                   "PROJECTED", "UNKNOWN", "FAILED_RETRYABLE", "FAILED_TERMINAL"}
    /\ \A s \in Statuses : /\ "PROJECTED" \in Transitions[s] => s = "FINALIZED"
                           /\ "SIGNED" \in Transitions[s] => s = "PREPARED"
                           /\ "PREPARED" \in Transitions[s] => s = "ACCEPTED"
                           /\ "ACCEPTED" \in Transitions[s] => s = "FAILED_RETRYABLE"
                           /\ "FAILED_RETRYABLE" \in Transitions[s] => s # "FAILED_RETRYABLE"
                           /\ Transitions[s] \subseteq Statuses
  BY DEF Statuses, Transitions

LEMMA JournalFacts ==
    /\ Journals \subseteq Seq(Fates)
    /\ \A ws \in Journals \ {<<>>} : Len(ws) = 1 /\ DOMAIN ws = {1} /\ ws[1] \in Fates
    /\ \A ws \in Journals, f \in Fates : ws = <<f>> <=> ws # <<>> /\ ws[1] = f
    /\ <<>> \in Journals /\ \A f \in Fates : <<f>> \in Journals
  <1>1. \A f \in Fates : /\ <<f>> \in Seq(Fates) /\ <<f>> # <<>> /\ <<f>>[1] = f
                        /\ Len(<<f>>) = 1 /\ DOMAIN <<f>> = {1}
    OBVIOUS
  <1>2. <<>> \in Seq(Fates)
    OBVIOUS
  <1> QED
    BY <1>1, <1>2 DEF Journals

LEMMA InitInv == Init => Inv
  <1> SUFFICES ASSUME Init PROVE Inv
    OBVIOUS
  <1> USE DEF Init
  <1>1. TypeOK
    <2>1. [status |-> Absent, leased |-> FALSE, left |-> 0, finalizedAt |-> FALSE] \in Row
      BY ChainAssumption DEF Row
    <2>2. Idle \in Call
      BY DEF Idle, Call, Pcs
    <2>3. 0 \in 0..MaxFaults[kind] /\ 0 \in 0..LeaseTime
      BY ChainAssumption
    <2>4. published \in BOOLEAN
      OBVIOUS
    <2>5. /\ command \in [Commands -> Row] /\ wires \in [Commands -> Seq(Fates)]
          /\ lane \in [holder : Dispatchers \union {Nobody}, left : 0..LeaseTime]
          /\ at \in [Dispatchers -> Call] /\ kind \in Assignments
          /\ faults \in 0..MaxFaults[kind]
      BY <2>1, <2>2, <2>3
    <2> QED
      BY <2>4, <2>5 DEF TypeOK
  <1>2. RowsFit
    BY StatusFacts DEF RowsFit, RowFits, Journals, Absent, Starts, Done, Pending
  <1>3. CallsFit /\ SendAlone
    BY DEF CallsFit, Fits, SendAlone, Idle
  <1> QED
    BY <1>1, <1>2, <1>3 DEF Inv

-----------------------------------------------------------------------------
\* What a step may do to the invariant: a dispatcher moves on and may take or
\* leave the lane; it writes the row of its command; a wire changes its fate.

Lanes == [holder : Dispatchers \union {Nobody}, left : 0..LeaseTime]

LEMMA FaultsTyped ==
    ASSUME TypeOK, kind' = kind, Fault \/ UNCHANGED faults
    PROVE  faults' \in 0..MaxFaults[kind']
  <1>1. MaxFaults[kind] \in Nat /\ faults \in 0..MaxFaults[kind]
    BY ChainAssumption DEF TypeOK
  <1> QED
    BY <1>1 DEF Fault

LEMMA MovedInv ==
    ASSUME Inv, NEW d \in Dispatchers, NEW new \in Call,
           UNCHANGED <<kind, published, command, wires>>, Fault \/ UNCHANGED faults,
           at' = [at EXCEPT ![d] = new], lane' \in Lanes,
           \A e \in Dispatchers \ {d} : lane.holder = e /\ lane.left > 0 => lane' = lane,
           new.pc # "send",
           Fits(d, new, kind[new.cmd], command[new.cmd], wires[new.cmd], lane')
    PROVE  Inv'
  <1>1. TypeOK'
    BY FaultsTyped DEF Inv, TypeOK, Lanes
  <1>2. RowsFit'
    BY DEF Inv, RowsFit
  <1>3. CallsFit'
    <2> SUFFICES ASSUME NEW e \in Dispatchers
                 PROVE  Fits(e, at'[e], kind'[at'[e].cmd], command'[at'[e].cmd],
                             wires'[at'[e].cmd], lane')
      BY DEF CallsFit
    <2>1. CASE e = d
      BY <2>1 DEF Inv, TypeOK
    <2>2. CASE e # d
      <3>1. at'[e] = at[e]
        BY <2>2 DEF Inv, TypeOK
      <3>2. Fits(e, at[e], kind[at[e].cmd], command[at[e].cmd], wires[at[e].cmd], lane)
        BY DEF Inv, CallsFit
      <3>3. ASSUME at[e].cmd \in Commands,
                   LaneFits(e, at[e], kind[at[e].cmd], command[at[e].cmd], lane)
            PROVE  LaneFits(e, at[e], kind[at[e].cmd], command[at[e].cmd], lane')
        <4>1. command[at[e].cmd].left \in 0..LeaseTime /\ lane.left \in 0..LeaseTime
          BY <3>3 DEF Inv, TypeOK, Row
        <4> QED
          BY <2>2, <3>3, <4>1, ChainAssumption DEF LaneFits
      <3> QED
        BY <3>1, <3>2, <3>3 DEF Fits
    <2> QED
      BY <2>1, <2>2
  <1>4. SendAlone'
    BY DEF Inv, SendAlone, TypeOK
  <1> QED
    BY <1>1, <1>2, <1>3, <1>4 DEF Inv

LEMMA IdleIsStale ==
    ASSUME NEW a \in Call, a = Idle
    PROVE  [a EXCEPT !.current = FALSE] = a
  BY DEF Idle, Call

\* A write of the row makes stale what every other dispatcher knows of it.
LEMMA WriteInv ==
    ASSUME Inv, NEW d \in Dispatchers, NEW c \in Commands, at[d].cmd = c,
           NEW row \in Row, NEW ws \in Journals, NEW new \in Call,
           UNCHANGED <<kind, published, lane>>, Fault \/ UNCHANGED faults,
           command' = [command EXCEPT ![c] = row],
           wires' = [wires EXCEPT ![c] = ws],
           at' = [Outdated(c) EXCEPT ![d] = new],
           ws = wires[c] \/ (wires[c] = <<>> /\ ws # <<>>),
           row.status # Absent, RowFits(kind[c], row, ws),
           new = Idle \/ new.cmd = c,
           new.pc = "send" => wires[c] = <<>>,
           Fits(d, new, kind[c], row, ws, lane)
    PROVE  Inv'
  <1>1. /\ \A e \in Dispatchers \ {d} :
              at'[e] = IF at[e].cmd = c THEN [at[e] EXCEPT !.current = FALSE] ELSE at[e]
        /\ at'[d] = new
        /\ at' \in [Dispatchers -> Call]
    <2>1. ASSUME NEW e \in Dispatchers
          PROVE  at[e] \in Call /\ [at[e] EXCEPT !.current = FALSE] \in Call
      BY DEF Inv, TypeOK, Call
    <2>2. Outdated(c) \in [Dispatchers -> Call]
      BY <2>1 DEF Outdated
    <2>3. \A e \in Dispatchers : Outdated(c)[e] =
              IF at[e].cmd = c THEN [at[e] EXCEPT !.current = FALSE] ELSE at[e]
      BY DEF Outdated
    <2> HIDE DEF Outdated
    <2> QED
      BY <2>2, <2>3
  <1>2. TypeOK'
    <2> QED
      BY <1>1, JournalFacts, FaultsTyped DEF Inv, TypeOK
  <1>3. RowsFit'
    BY DEF Inv, TypeOK, RowsFit
  <1>4. CallsFit'
    <2> SUFFICES ASSUME NEW e \in Dispatchers
                 PROVE  Fits(e, at'[e], kind'[at'[e].cmd], command'[at'[e].cmd],
                             wires'[at'[e].cmd], lane')
      BY DEF CallsFit
    <2>1. CASE e = d
      <3>1. CASE new = Idle
        BY <1>1, <2>1, <3>1 DEF Fits
      <3>2. CASE new.cmd = c
        BY <1>1, <2>1, <3>2 DEF Inv, TypeOK
      <3> QED
        BY <3>1, <3>2
    <2>2. CASE e # d /\ at[e].cmd # c
      <3>1. at'[e] = at[e]
        BY <1>1, <2>2
      <3>2. Fits(e, at[e], kind[at[e].cmd], command[at[e].cmd], wires[at[e].cmd], lane)
        BY DEF Inv, CallsFit
      <3>3. CASE at[e] = Idle
        BY <3>1, <3>3 DEF Fits
      <3>4. CASE at[e].cmd \in Commands
        <4>1. /\ command'[at[e].cmd] = command[at[e].cmd]
              /\ wires'[at[e].cmd] = wires[at[e].cmd]
          BY <2>2, <3>4 DEF Inv, TypeOK
        <4> QED
          BY <3>1, <3>2, <4>1
      <3> QED
        BY <3>2, <3>3, <3>4 DEF Fits
    <2>3. CASE e # d /\ at[e].cmd = c
      <3>1. at'[e] = [at[e] EXCEPT !.current = FALSE]
        BY <1>1, <2>3
      <3>2. /\ at'[e].pc = at[e].pc /\ at'[e].cmd = c /\ at'[e].status = at[e].status
            /\ ~at'[e].current /\ at'[e].lane = at[e].lane
        BY <2>3, <3>1 DEF Inv, TypeOK, Call
      <3>3. Fits(e, at[e], kind[c], command[c], wires[c], lane)
        BY <2>3 DEF Inv, CallsFit
      <3>4. CASE at[e] = Idle
        <4>1. at[e] \in Call
          BY DEF Inv, TypeOK
        <4>2. [at[e] EXCEPT !.current = FALSE] = at[e]
          BY <3>4, <4>1, IdleIsStale
        <4>3. at'[e] = Idle
          BY <3>1, <3>4, <4>2
        <4> QED
          BY <4>3 DEF Fits
      <3>5. CASE at[e] # Idle
        <4>1. CallFits(at'[e], kind[c], row, ws)
          BY <3>2, <3>3, <3>5 DEF Fits, CallFits, Wired
        <4>2. LaneFits(e, at'[e], kind[c], row, lane)
          BY <3>2, <3>3, <3>5 DEF Fits, LaneFits
        <4>3. at'[e].pc # "idle" /\ at'[e].cmd \in Commands
          BY <3>2, <3>3, <3>5 DEF Fits
        <4> QED
          BY <3>2, <4>1, <4>2, <4>3 DEF Inv, TypeOK, Fits
      <3> QED
        BY <3>4, <3>5
    <2> QED
      BY <2>1, <2>2, <2>3
  <1>5. SendAlone'
    <2>1. \A e \in Dispatchers \ {d} : at'[e].pc = at[e].pc /\ at'[e].cmd = at[e].cmd
      BY <1>1 DEF Inv, TypeOK, Call
    <2>2. \A e \in Dispatchers : at[e].pc = "send" /\ at[e].cmd = c => wires[c] # <<>>
      BY DEF Inv, CallsFit, Fits, CallFits, Idle
    <2>3. new.pc = "send" => new.cmd = c
      BY DEF Idle
    <2> QED
      BY <1>1, <2>1, <2>2, <2>3 DEF Inv, SendAlone
  <1> QED
    BY <1>2, <1>3, <1>4, <1>5 DEF Inv

\* A command that is accepted was nobody's before.
LEMMA AcceptedInv ==
    ASSUME Inv, NEW cs \in SUBSET Commands, \A c \in cs : kind[c] # NoKind,
           UNCHANGED <<kind, published, wires, lane>>, Fault \/ UNCHANGED faults,
           command' = Accepted(cs), at' \in [Dispatchers -> Call],
           \A e \in Dispatchers :
              \/ at'[e] = at[e]
              \/ /\ at'[e].pc # "send"
                 /\ Fits(e, at'[e], kind[at'[e].cmd], command[at'[e].cmd],
                         wires[at'[e].cmd], lane)
    PROVE  Inv'
  <1>1. \A c \in Commands :
           /\ command'[c] = IF c \in cs /\ command[c].status = Absent
                            THEN [command[c] EXCEPT !.status = "ACCEPTED"] ELSE command[c]
           /\ [command[c] EXCEPT !.status = "ACCEPTED"] \in Row
    <2>1. \A c \in Commands : command[c] \in Row
      BY DEF Inv, TypeOK
    <2> QED
      BY <2>1, StatusFacts DEF Accepted, Row
  <1>2. TypeOK'
    <2>1. command' \in [Commands -> Row]
      BY <1>1 DEF Accepted, Inv, TypeOK
    <2> QED
      BY <2>1, FaultsTyped DEF Inv, TypeOK
  <1>3. RowsFit'
    <2> SUFFICES ASSUME NEW c \in Commands
                 PROVE  wires[c] \in Journals /\ RowFits(kind[c], command'[c], wires[c])
      BY DEF RowsFit
    <2>1. wires[c] \in Journals /\ RowFits(kind[c], command[c], wires[c])
      BY DEF Inv, RowsFit
    <2>2. CASE c \in cs /\ command[c].status = Absent
      <3>1. /\ command'[c].status = "ACCEPTED"
            /\ command'[c].finalizedAt = command[c].finalizedAt
        BY <1>1, <2>2 DEF Inv, TypeOK, Row
      <3>2. wires[c] = <<>> /\ ~command[c].finalizedAt
        BY <2>1, <2>2 DEF RowFits
      <3>3. kind[c] \in Kinds
        BY <2>2, ChainAssumption DEF Inv, TypeOK
      <3> QED
        BY <2>1, <3>1, <3>2, <3>3 DEF RowFits, Absent, Done, Pending
    <2>3. CASE ~(c \in cs /\ command[c].status = Absent)
      BY <1>1, <2>1, <2>3
    <2> QED
      BY <2>2, <2>3
  <1>4. CallsFit'
    <2> SUFFICES ASSUME NEW e \in Dispatchers
                 PROVE  Fits(e, at'[e], kind'[at'[e].cmd], command'[at'[e].cmd],
                             wires'[at'[e].cmd], lane')
      BY DEF CallsFit
    <2>1. Fits(e, at'[e], kind[at'[e].cmd], command[at'[e].cmd], wires[at'[e].cmd], lane)
      BY DEF Inv, CallsFit
    <2>2. CASE at'[e] = Idle
      BY <2>2 DEF Fits
    <2>3. CASE at'[e] # Idle
      <3>1. at'[e].cmd \in Commands /\ command[at'[e].cmd].status # Absent
        BY <2>1, <2>3 DEF Fits, CallFits
      <3>2. command'[at'[e].cmd] = command[at'[e].cmd]
        BY <1>1, <3>1
      <3> QED
        BY <2>1, <3>2
    <2> QED
      BY <2>2, <2>3
  <1>5. SendAlone'
    BY DEF Inv, SendAlone
  <1> QED
    BY <1>2, <1>3, <1>4, <1>5 DEF Inv

\* The fate of a wire that nobody knows yet.
LEMMA FateInv ==
    ASSUME Inv, NEW c \in Commands, NEW f \in Fates,
           wires[c] \in {<<"journaled">>, <<"sent">>},
           UNCHANGED <<kind, published, command, lane, faults>>,
           wires' = [wires EXCEPT ![c] = <<f>>], at' \in [Dispatchers -> Call],
           \A e \in Dispatchers :
              \/ at'[e] = at[e] /\ (at[e].cmd = c => at[e].pc # "send")
              \/ /\ at'[e].cmd = c /\ at'[e].pc # "send"
                 /\ Fits(e, at'[e], kind[c], command[c], <<f>>, lane)
    PROVE  Inv'
  <1> <<f>> \in Journals /\ <<f>> # <<>>
    BY JournalFacts
  <1>1. wires[c] # <<>> /\ \A g \in {"succeeded", "failed"} : wires[c] # <<g>>
    OBVIOUS
  <1>2. TypeOK'
    BY JournalFacts DEF Inv, TypeOK
  <1>3. RowsFit'
    <2> SUFFICES ASSUME NEW b \in Commands
                 PROVE  wires'[b] \in Journals /\ RowFits(kind[b], command[b], wires'[b])
      BY DEF RowsFit
    <2>1. wires[b] \in Journals /\ RowFits(kind[b], command[b], wires[b])
      BY DEF Inv, RowsFit
    <2>2. CASE b = c
      <3>1. wires'[b] = <<f>>
        BY <2>2 DEF Inv, TypeOK
      <3>2. RowFits(kind[b], command[b], <<f>>)
        BY <1>1, <2>1, <2>2 DEF RowFits
      <3> QED
        BY <3>1, <3>2
    <2>3. CASE b # c
      BY <2>1, <2>3 DEF Inv, TypeOK
    <2> QED
      BY <2>2, <2>3
  <1>4. CallsFit'
    <2> SUFFICES ASSUME NEW e \in Dispatchers
                 PROVE  Fits(e, at'[e], kind'[at'[e].cmd], command'[at'[e].cmd],
                             wires'[at'[e].cmd], lane')
      BY DEF CallsFit
    <2>1. CASE /\ at'[e].cmd = c
               /\ Fits(e, at'[e], kind[c], command[c], <<f>>, lane)
      <3>1. wires'[c] = <<f>>
        BY DEF Inv, TypeOK
      <3> QED
        BY <2>1, <3>1
    <2>2. CASE at'[e] = at[e] /\ (at[e].cmd = c => at[e].pc # "send")
      <3>1. Fits(e, at[e], kind[at[e].cmd], command[at[e].cmd], wires[at[e].cmd], lane)
        BY DEF Inv, CallsFit
      <3>2. CASE at[e] = Idle
        BY <2>2, <3>2 DEF Fits
      <3>3. CASE at[e] # Idle /\ at[e].cmd = c
        <4>1. wires'[c] = <<f>>
          BY DEF Inv, TypeOK
        <4>2. CallFits(at[e], kind[c], command[c], <<f>>)
          BY <1>1, <2>2, <3>1, <3>3 DEF Fits, CallFits
        <4> QED
          BY <2>2, <3>1, <3>3, <4>1, <4>2 DEF Fits
      <3>4. CASE at[e] # Idle /\ at[e].cmd # c
        <4>1. wires'[at[e].cmd] = wires[at[e].cmd]
          BY <3>1, <3>4 DEF Inv, TypeOK, Fits
        <4> QED
          BY <2>2, <3>1, <4>1
      <3> QED
        BY <3>2, <3>3, <3>4
    <2> QED
      BY <2>1, <2>2
  <1>5. SendAlone'
    BY DEF Inv, SendAlone
  <1> QED
    BY <1>2, <1>3, <1>4, <1>5 DEF Inv

LEMMA CountDown ==
    ASSUME NEW n \in 0..LeaseTime
    PROVE  (IF n > 0 THEN n - 1 ELSE 0) \in 0..LeaseTime
  BY ChainAssumption

LEMMA TickInv == Inv /\ Tick => Inv'
  <1> SUFFICES ASSUME Inv, Tick PROVE Inv'
    OBVIOUS
  <1> USE DEF Tick
  <1>1. /\ lane \in Lanes /\ lane' \in Lanes /\ lane'.holder = lane.holder
        /\ lane'.left = IF lane.left > 0 THEN lane.left - 1 ELSE 0
    <2>1. lane \in Lanes
      BY DEF Inv, TypeOK, Lanes
    <2> QED
      BY <2>1, CountDown DEF Lanes
  <1>2. \A c \in Commands :
          LET new == [command[c] EXCEPT !.left = IF @ > 0 THEN @ - 1 ELSE 0]
          IN  /\ command'[c] = new /\ command[c] \in Row /\ new \in Row
              /\ new.status = command[c].status /\ new.finalizedAt = command[c].finalizedAt
              /\ new.left = IF command[c].left > 0 THEN command[c].left - 1 ELSE 0
    <2> TAKE c \in Commands
    <2>1. command[c] \in Row
      BY DEF Inv, TypeOK
    <2> QED
      BY <2>1, CountDown DEF Row
  <1>3. TypeOK'
    BY <1>1, <1>2 DEF Inv, TypeOK, Lanes
  <1>4. RowsFit'
    BY <1>2 DEF Inv, RowsFit, RowFits
  <1>5. CallsFit'
    <2> SUFFICES ASSUME NEW e \in Dispatchers
                 PROVE  Fits(e, at[e], kind[at[e].cmd], command'[at[e].cmd],
                             wires[at[e].cmd], lane')
      BY DEF CallsFit
    <2>1. Fits(e, at[e], kind[at[e].cmd], command[at[e].cmd], wires[at[e].cmd], lane)
      BY DEF Inv, CallsFit
    <2>2. CASE at[e] = Idle
      BY <2>2 DEF Fits
    <2>3. CASE at[e] # Idle
      <3> DEFINE c == at[e].cmd
      <3>1. c \in Commands /\ at[e].pc # "idle"
        BY <2>1, <2>3 DEF Fits
      <3>2. CallFits(at[e], kind[c], command'[c], wires[c])
        BY <1>2, <2>1, <2>3, <3>1 DEF Fits, CallFits
      <3>3. LaneFits(e, at[e], kind[c], command'[c], lane')
        <4>1. LaneFits(e, at[e], kind[c], command[c], lane)
          BY <2>1, <2>3 DEF Fits
        <4>2. /\ command[c].left \in Nat /\ lane.left \in Nat
              /\ command'[c].left = IF command[c].left > 0 THEN command[c].left - 1 ELSE 0
              /\ lane'.left = IF lane.left > 0 THEN lane.left - 1 ELSE 0
              /\ lane'.holder = lane.holder
          BY <1>1, <1>2, <3>1, ChainAssumption DEF Lanes, Row
        <4> QED
          BY <4>1, <4>2 DEF LaneFits
      <3> QED
        BY <3>1, <3>2, <3>3 DEF Fits
    <2> QED
      BY <2>2, <2>3
  <1>6. SendAlone'
    BY DEF Inv, SendAlone
  <1> QED
    BY <1>3, <1>4, <1>5, <1>6 DEF Inv

-----------------------------------------------------------------------------
\* A dispatcher at work, and the transitions it makes.

LEMMA AtWork ==
    ASSUME Inv, NEW d \in Dispatchers, at[d].pc # "idle"
    PROVE  LET c == at[d].cmd IN
           /\ at[d] \in Call /\ at[d] # Idle /\ c \in Commands
           /\ CallFits(at[d], kind[c], command[c], wires[c])
           /\ LaneFits(d, at[d], kind[c], command[c], lane)
           /\ RowFits(kind[c], command[c], wires[c])
           /\ wires[c] \in Journals /\ command[c] \in Row /\ kind[c] \in Kinds
  <1>1. at[d] \in Call
    BY DEF Inv, TypeOK
  <1>2. at[d] # Idle
    BY DEF Idle
  <1>3. /\ at[d].cmd \in Commands
        /\ CallFits(at[d], kind[at[d].cmd], command[at[d].cmd], wires[at[d].cmd])
        /\ LaneFits(d, at[d], kind[at[d].cmd], command[at[d].cmd], lane)
    BY <1>2 DEF Inv, CallsFit, Fits
  <1>4. /\ wires[at[d].cmd] \in Journals
        /\ RowFits(kind[at[d].cmd], command[at[d].cmd], wires[at[d].cmd])
    BY <1>3 DEF Inv, RowsFit
  <1>5. command[at[d].cmd] \in Row
    BY <1>3 DEF Inv, TypeOK
  <1>6. kind[at[d].cmd] \in Kinds
    BY <1>3, <1>4 DEF RowFits, CallFits
  <1> QED
    BY <1>1, <1>2, <1>3, <1>4, <1>5, <1>6

NewRow(row, to) ==
    [status      |-> to,
     leased      |-> row.leased /\ to \notin Unleasing,
     left        |-> IF to \in Unleasing THEN 0 ELSE row.left,
     finalizedAt |-> row.finalizedAt \/ to = "FINALIZED"]

LEMMA WrittenFacts ==
    ASSUME Inv, NEW c \in Commands, NEW to \in Statuses
    PROVE  /\ Written(c, to) = [command EXCEPT ![c] = NewRow(command[c], to)]
           /\ NewRow(command[c], to) \in Row
           /\ NewRow(command[c], to).left \in {0, command[c].left}
           /\ NewRow(command[c], to).status = to
           /\ NewRow(command[c], to).finalizedAt =
                 (command[c].finalizedAt \/ to = "FINALIZED")
  <1>1. command[c] \in Row
    BY DEF Inv, TypeOK
  <1>2. /\ (command[c].leased /\ to \notin Unleasing) \in BOOLEAN
        /\ (command[c].finalizedAt \/ to = "FINALIZED") \in BOOLEAN
    OBVIOUS
  <1>3. (IF to \in Unleasing THEN 0 ELSE command[c].left) \in 0..LeaseTime
    BY <1>1, ChainAssumption DEF Row
  <1> QED
    BY <1>2, <1>3 DEF Written, NewRow, Row

Nexts == {"idle", "prepare", "track", "finalized", "release", "project", "projected"}

LEMMA TransitionInv ==
    ASSUME Inv, NEW d \in Dispatchers, NEW to \in Statuses, NEW next \in Nexts,
           NEW thrown \in {"idle", "catch"},
           at[d].pc \notin {"idle", "release"},
           Transition(d, to, next, thrown),
           LET c == at[d].cmd IN
           May(d, to) =>
              /\ RowFits(kind[c], NewRow(command[c], to), wires[c])
              /\ next = "prepare" => /\ at[d].pc = "prepare" /\ to \in Starts
                                     /\ kind[c] \in ProjectKinds => ~command[c].finalizedAt
              /\ next = "track" => wires[c] # <<>>
              /\ next = "finalized" => wires[c] = <<"succeeded">>
              /\ to = "FINALIZED" => next \in {"idle", "release"} \/ kind[c] \in Again
    PROVE  Inv'
  <1> DEFINE c == at[d].cmd
             row == NewRow(command[c], to)
             heard == IF next = "idle" THEN Idle
                      ELSE [at[d] EXCEPT !.status = to, !.pc = next]
             unheard == IF thrown = "idle" THEN Idle
                        ELSE [[at[d] EXCEPT !.current = FALSE] EXCEPT !.pc = thrown]
             refused == IF thrown = "idle" THEN Idle ELSE [at[d] EXCEPT !.pc = thrown]
  <1>1. /\ at[d] \in Call /\ at[d] # Idle /\ c \in Commands
        /\ CallFits(at[d], kind[c], command[c], wires[c])
        /\ LaneFits(d, at[d], kind[c], command[c], lane)
        /\ wires[c] \in Journals /\ command[c] \in Row
    BY AtWork
  <1>2. /\ Written(c, to) = [command EXCEPT ![c] = row]
        /\ row \in Row /\ row.status = to /\ row.left \in {0, command[c].left}
        /\ row.finalizedAt = (command[c].finalizedAt \/ to = "FINALIZED")
    BY <1>1, WrittenFacts
  <1>3. to # Absent
    BY StatusFacts DEF Absent
  <1>4. Idle \in Call
    BY DEF Idle, Call, Pcs
  <1>5. /\ [at[d] EXCEPT !.status = to, !.pc = next] \in Call
        /\ [[at[d] EXCEPT !.current = FALSE] EXCEPT !.pc = "catch"] \in Call
        /\ [at[d] EXCEPT !.pc = "catch"] \in Call
    BY <1>1 DEF Call, Pcs, Nexts
  <1>6. kind' = kind /\ published' = published /\ wires' = wires /\ lane' = lane
    BY DEF Transition
  <1>7. wires' = [wires EXCEPT ![c] = wires[c]]
    BY <1>1, <1>6 DEF Inv, TypeOK
  <1>8. lane \in Lanes
    BY DEF Inv, TypeOK, Lanes
  <1> HIDE DEF row
  <1>9. CASE Applied(d, to, next)
    <2>1. May(d, to) /\ command' = [command EXCEPT ![c] = row] /\ faults' = faults
      BY <1>2, <1>9 DEF Applied
    <2>2. at' = [Outdated(c) EXCEPT ![d] = heard]
      BY <1>9 DEF Applied
    <2>3. heard \in Call
      BY <1>4, <1>5
    <2>4. RowFits(kind[c], row, wires[c])
      BY <2>1 DEF row
    <2>5. Fits(d, heard, kind[c], row, wires[c], lane)
      <3>1. CASE next = "idle"
        BY <3>1 DEF Fits
      <3>2. CASE next # "idle"
        <4> DEFINE a == [at[d] EXCEPT !.status = to, !.pc = next]
        <4>1. /\ a.pc = next /\ a.cmd = c /\ a.status = to
              /\ a.current = at[d].current /\ a.lane = at[d].lane
          BY <1>1 DEF Call
        <4> HIDE DEF a
        <4>2. CallFits(a, kind[c], row, wires[c])
          <5>1. to \in Pending \union {"UNKNOWN"} => wires[c] # <<>>
            BY <1>2, <2>4 DEF RowFits
          <5>2. wires[c] = <<"succeeded">> => wires[c] # <<>>
            OBVIOUS
          <5>3. next = "prepare" /\ kind[c] \in ProjectKinds => ~row.finalizedAt
            BY <1>2, <2>1 DEF Starts
          <5>4. /\ next \in {"track", "finalized"} => wires[c] # <<>>
                /\ next = "finalized" => wires[c] = <<"succeeded">>
                /\ next = "prepare" => to \in Starts
                /\ to = "FINALIZED" => next = "release" \/ kind[c] \in Again
            BY <2>1, <3>2, <5>2
          <5> QED
            BY <1>2, <1>3, <4>1, <5>1, <5>3, <5>4 DEF CallFits, Wired, Nexts
        <4>3. LaneFits(d, a, kind[c], row, lane)
          BY <1>1, <1>2, <2>1, <4>1 DEF LaneFits, Nexts
        <4>4. heard = a
          BY <3>2 DEF a
        <4> HIDE DEF heard
        <4> QED
          BY <1>1, <3>2, <4>1, <4>2, <4>3, <4>4 DEF Fits
      <3> QED
        BY <3>1, <3>2
    <2>6. heard = Idle \/ heard.cmd = c
      BY <1>1 DEF Call
    <2>7. heard.pc # "send"
      BY <1>1 DEF Call, Idle, Nexts
    <2> HIDE DEF heard, c
    <2> QED
      BY <1>1, <1>2, <1>3, <1>6, <1>7, <2>1, <2>2, <2>3, <2>4, <2>5, <2>6, <2>7, WriteInv
         DEF c
  <1>10. CASE AppliedUnheard(d, to, thrown)
    <2>1. May(d, to) /\ command' = [command EXCEPT ![c] = row] /\ Fault
      BY <1>2, <1>10 DEF AppliedUnheard
    <2>2. at' = [Outdated(c) EXCEPT ![d] = unheard]
      BY <1>1, <1>10 DEF AppliedUnheard, Outdated
    <2>3. unheard \in Call
      BY <1>4, <1>5
    <2>4. RowFits(kind[c], row, wires[c])
      BY <2>1 DEF row
    <2>5. Fits(d, unheard, kind[c], row, wires[c], lane)
      <3>1. CASE thrown = "idle"
        BY <3>1 DEF Fits
      <3>2. CASE thrown = "catch"
        <4> DEFINE a == [[at[d] EXCEPT !.current = FALSE] EXCEPT !.pc = thrown]
        <4>1. /\ a.pc = "catch" /\ a.cmd = c /\ a.status = at[d].status
              /\ ~a.current /\ a.lane = at[d].lane
          BY <1>1, <3>2 DEF Call
        <4> HIDE DEF a
        <4>2. CallFits(a, kind[c], row, wires[c])
          BY <1>1, <1>2, <1>3, <4>1 DEF CallFits, Wired
        <4>3. LaneFits(d, a, kind[c], row, lane)
          BY <4>1 DEF LaneFits
        <4>4. unheard = a
          BY <3>2 DEF a
        <4> HIDE DEF unheard
        <4> QED
          BY <1>1, <4>1, <4>2, <4>3, <4>4 DEF Fits
      <3> QED
        BY <3>1, <3>2
    <2>6. unheard = Idle \/ unheard.cmd = c
      BY <1>1 DEF Call
    <2>7. unheard.pc # "send"
      BY <1>1 DEF Call, Idle
    <2> HIDE DEF unheard, c
    <2> QED
      BY <1>1, <1>2, <1>3, <1>6, <1>7, <2>1, <2>2, <2>3, <2>4, <2>5, <2>6, <2>7, WriteInv
         DEF c
  <1>11. CASE NotApplied(d, to, thrown)
    <2>1. /\ at' = [at EXCEPT ![d] = refused] /\ command' = command
          /\ Fault \/ UNCHANGED faults
      BY <1>1, <1>11 DEF NotApplied, Go
    <2>2. refused \in Call
      BY <1>4, <1>5
    <2>3. Fits(d, refused, kind[refused.cmd], command[refused.cmd], wires[refused.cmd], lane)
      <3>1. CASE thrown = "idle"
        BY <3>1 DEF Fits
      <3>2. CASE thrown = "catch"
        <4> DEFINE a == [at[d] EXCEPT !.pc = thrown]
        <4>1. /\ a.pc = "catch" /\ a.cmd = c /\ a.status = at[d].status
              /\ a.current = at[d].current /\ a.lane = at[d].lane
          BY <1>1, <3>2 DEF Call
        <4> HIDE DEF a
        <4>2. CallFits(a, kind[c], command[c], wires[c])
          BY <1>1, <4>1 DEF CallFits, Wired
        <4>3. LaneFits(d, a, kind[c], command[c], lane)
          BY <1>1, <4>1 DEF LaneFits
        <4>4. refused = a
          BY <3>2 DEF a
        <4> HIDE DEF refused
        <4> QED
          BY <1>1, <4>1, <4>2, <4>3, <4>4 DEF Fits
      <3> QED
        BY <3>1, <3>2
    <2>4. refused.pc # "send"
      BY <1>1 DEF Call, Idle
    <2> HIDE DEF refused
    <2> QED
      BY <1>6, <1>8, <2>1, <2>2, <2>3, <2>4, MovedInv
  <1> QED
    BY <1>9, <1>10, <1>11 DEF Transition

-----------------------------------------------------------------------------
\* A dispatcher that only goes on, with or without the lane.

LEMMA GoFits ==
    ASSUME Inv, NEW d \in Dispatchers, at[d].pc # "idle",
           NEW pc \in Pcs \ {"lease", "entry", "send", "idle"},
           LET c == at[d].cmd IN
           /\ at[d].status = "FINALIZED" => at[d].pc # "release" \/ kind[c] \in Again
           /\ pc = "prepare" =>
                 /\ at[d].current => /\ at[d].status \in Starts
                                     /\ kind[c] \in ProjectKinds => ~command[c].finalizedAt
                 /\ Dispatcher[kind[c]].lane = "entry" => at[d].lane
           /\ pc = "sign" => at[d].status = "PREPARED" /\ (kind[c] \in LaneKinds => at[d].lane)
           /\ pc = "refused" => /\ at[d].current => at[d].status = "PREPARED"
                                /\ Dispatcher[kind[c]].refuses
           /\ pc \in Wired => wires[c] # <<>>
           /\ pc = "finalized" => wires[c] = <<"succeeded">>
           /\ pc = "failed" => wires[c] = <<"failed">>
    PROVE  LET c == at[d].cmd
               a == [at[d] EXCEPT !.pc = pc] IN
           /\ a \in Call /\ a.pc = pc /\ a.cmd = c
           /\ Fits(d, a, kind[c], command[c], wires[c], lane)
  <1> DEFINE c == at[d].cmd
             a == [at[d] EXCEPT !.pc = pc]
  <1>1. /\ at[d] \in Call /\ at[d] # Idle /\ c \in Commands
        /\ CallFits(at[d], kind[c], command[c], wires[c])
        /\ LaneFits(d, at[d], kind[c], command[c], lane)
    BY AtWork
  <1>2. a \in Call
    BY <1>1 DEF Call, Pcs
  <1>3. /\ a.pc = pc /\ a.cmd = c /\ a.status = at[d].status
        /\ a.current = at[d].current /\ a.lane = at[d].lane
    BY <1>1 DEF Call
  <1> HIDE DEF a
  <1>4. CallFits(a, kind[c], command[c], wires[c])
    BY <1>1, <1>3 DEF CallFits
  <1>5. LaneFits(d, a, kind[c], command[c], lane)
    BY <1>1, <1>3 DEF LaneFits
  <1>6. Fits(d, a, kind[c], command[c], wires[c], lane)
    BY <1>1, <1>3, <1>4, <1>5 DEF Fits
  <1> QED
    BY <1>2, <1>3, <1>6 DEF a

LEMMA IdleFacts == Idle \in Call /\ Idle.pc = "idle"
  BY DEF Idle, Call, Pcs

LEMMA GoIdleInv ==
    ASSUME Inv, NEW d \in Dispatchers, Go(d, "idle"), Fault \/ UNCHANGED faults,
           UNCHANGED <<kind, published, command, wires, lane>>
    PROVE  Inv'
  <1>1. at' = [at EXCEPT ![d] = Idle] /\ lane' \in Lanes
    BY DEF Go, Inv, TypeOK, Lanes
  <1>2. Fits(d, Idle, kind[Idle.cmd], command[Idle.cmd], wires[Idle.cmd], lane')
    BY DEF Fits
  <1> QED
    BY <1>1, <1>2, IdleFacts, MovedInv

LEMMA GoInv ==
    ASSUME Inv, NEW d \in Dispatchers, at[d].pc \notin {"idle", "release"},
           NEW pc \in Pcs \ {"lease", "entry", "send", "idle"}, Go(d, pc),
           UNCHANGED <<kind, published, command, wires, lane>>, Fault \/ UNCHANGED faults,
           LET c == at[d].cmd IN
           /\ pc = "prepare" =>
                 /\ at[d].current => /\ at[d].status \in Starts
                                     /\ kind[c] \in ProjectKinds => ~command[c].finalizedAt
                 /\ Dispatcher[kind[c]].lane = "entry" => at[d].lane
           /\ pc = "sign" => at[d].status = "PREPARED" /\ (kind[c] \in LaneKinds => at[d].lane)
           /\ pc = "refused" => /\ at[d].current => at[d].status = "PREPARED"
                                /\ Dispatcher[kind[c]].refuses
           /\ pc \in Wired => wires[c] # <<>>
           /\ pc = "finalized" => wires[c] = <<"succeeded">>
           /\ pc = "failed" => wires[c] = <<"failed">>
    PROVE  Inv'
  <1> DEFINE c == at[d].cmd
             a == [at[d] EXCEPT !.pc = pc]
  <1>1. /\ a \in Call /\ a.pc = pc /\ a.cmd = c
        /\ Fits(d, a, kind[c], command[c], wires[c], lane)
    BY GoFits
  <1>2. at' = [at EXCEPT ![d] = a] /\ lane' = lane /\ lane' \in Lanes
    BY DEF Go, Inv, TypeOK, Lanes
  <1> HIDE DEF a
  <1>3. a.pc # "send" /\ Fits(d, a, kind[a.cmd], command[a.cmd], wires[a.cmd], lane')
    BY <1>1, <1>2
  <1> QED
    BY <1>1, <1>2, <1>3, MovedInv

\* Releasing the lane leaves it to whoever else holds it.
LEMMA ReleasedFacts ==
    ASSUME Inv, NEW d \in Dispatchers, ReleaseLane(d)
    PROVE  /\ lane' \in Lanes /\ UNCHANGED <<kind, published, command, wires>>
           /\ Fault \/ UNCHANGED faults
           /\ \A e \in Dispatchers \ {d} : lane.holder = e /\ lane.left > 0 => lane' = lane
  <1>1. lane \in Lanes /\ [holder |-> Nobody, left |-> 0] \in Lanes
    BY ChainAssumption DEF Inv, TypeOK, Lanes
  <1> QED
    BY <1>1 DEF ReleaseLane, Released

LEMMA DropLaneInv ==
    ASSUME Inv, NEW d \in Dispatchers, at[d].pc \in {"catch", "refused"},
           ReleaseLane(d), at' = [at EXCEPT ![d].lane = FALSE]
    PROVE  Inv'
  <1> DEFINE c == at[d].cmd
             a == [at[d] EXCEPT !.lane = FALSE]
  <1>1. /\ at[d] \in Call /\ at[d] # Idle /\ c \in Commands
        /\ CallFits(at[d], kind[c], command[c], wires[c])
    BY AtWork
  <1>2. a \in Call
    BY <1>1 DEF Call
  <1>3. /\ a.pc = at[d].pc /\ a.cmd = c /\ a.status = at[d].status
        /\ a.current = at[d].current /\ ~a.lane
    BY <1>1 DEF Call
  <1>4. at' = [at EXCEPT ![d] = a]
    OBVIOUS
  <1> HIDE DEF a
  <1>5. CallFits(a, kind[c], command[c], wires[c])
    BY <1>1, <1>3 DEF CallFits
  <1>6. LaneFits(d, a, kind[c], command[c], lane')
    BY <1>3 DEF LaneFits
  <1>7. Fits(d, a, kind[a.cmd], command[a.cmd], wires[a.cmd], lane')
    BY <1>1, <1>3, <1>5, <1>6 DEF Fits
  <1> QED
    BY <1>2, <1>3, <1>4, <1>7, ReleasedFacts, MovedInv

-----------------------------------------------------------------------------
\* The actions, one after the other.

LEMMA AcceptInv ==
    ASSUME Inv, NEW c \in Commands, Accept(c)
    PROVE  Inv'
  <1>1. at' \in [Dispatchers -> Call] /\ \A e \in Dispatchers : at'[e] = at[e]
    BY DEF Accept, Inv, TypeOK
  <1>2. {c} \in SUBSET Commands /\ \A b \in {c} : kind[b] # NoKind
    BY DEF Accept
  <1> QED
    BY <1>1, <1>2, AcceptedInv DEF Accept

LEMMA BeginInv ==
    ASSUME Inv, NEW d \in Dispatchers, NEW c \in Commands, Begin(d, c)
    PROVE  Inv'
  <1> DEFINE a == [Idle EXCEPT !.pc = "lease", !.cmd = c, !.current = TRUE,
                               !.status = command[c].status]
  <1>1. command[c] \in Row /\ command[c].status \in Statuses /\ command[c].status # Absent
    BY DEF Begin, Inv, TypeOK, Row
  <1>2. RowFits(kind[c], command[c], wires[c]) /\ kind[c] \in Kinds
    BY <1>1 DEF Inv, RowsFit, RowFits
  <1>3. /\ a \in Call /\ a.pc = "lease" /\ a.cmd = c /\ a.current /\ ~a.lane
        /\ a.status = command[c].status
    BY <1>1 DEF Idle, Call, Pcs
  <1>4. at' = [at EXCEPT ![d] = a] /\ lane' = lane /\ lane' \in Lanes
    BY DEF Begin, Inv, TypeOK, Lanes
  <1>5. a.status \in Dispatchable(kind[c])
    BY <1>3 DEF Begin
  <1> HIDE DEF a
  <1>6. a.status = "FINALIZED" => kind[c] \in Again
    BY <1>2, <1>5, PolicyFacts DEF Dispatchable, Starts, Pending, Again
  <1>7. CallFits(a, kind[c], command[c], wires[c])
    BY <1>1, <1>2, <1>3, <1>5, <1>6 DEF CallFits, RowFits, Wired
  <1>8. LaneFits(d, a, kind[c], command[c], lane)
    BY <1>3 DEF LaneFits
  <1>9. Fits(d, a, kind[a.cmd], command[a.cmd], wires[a.cmd], lane')
    BY <1>3, <1>4, <1>7, <1>8 DEF Fits
  <1> QED
    BY <1>3, <1>4, <1>9, MovedInv DEF Begin

LEMMA LeaseInv ==
    ASSUME Inv, NEW d \in Dispatchers, Lease(d)
    PROVE  Inv'
  <1> DEFINE c == at[d].cmd
             row == [command[c] EXCEPT !.leased = TRUE, !.left = LeaseTime]
             a == [at[d] EXCEPT !.pc = "entry"]
  <1>0. at[d].pc = "lease" /\ UNCHANGED <<kind, published, wires, lane>>
    BY DEF Lease
  <1>1. /\ at[d] \in Call /\ at[d] # Idle /\ c \in Commands
        /\ CallFits(at[d], kind[c], command[c], wires[c])
        /\ LaneFits(d, at[d], kind[c], command[c], lane)
        /\ RowFits(kind[c], command[c], wires[c])
        /\ wires[c] \in Journals /\ command[c] \in Row
    BY <1>0, AtWork
  <1>2. row \in Row /\ row.status = command[c].status /\ row.finalizedAt = command[c].finalizedAt
    <2>1. LeaseTime \in 0..LeaseTime
      BY ChainAssumption
    <2> QED
      BY <1>1, <2>1 DEF Row
  <1>3. /\ a \in Call /\ a.pc = "entry" /\ a.cmd = c /\ a.status = at[d].status
        /\ a.current = at[d].current /\ a.lane = at[d].lane
    BY <1>1 DEF Call, Pcs
  <1>4. Leased(c) = [command EXCEPT ![c] = row]
    BY <1>1 DEF Leased, Inv, TypeOK
  <1> HIDE DEF row, a
  <1>5. RowFits(kind[c], row, wires[c]) /\ row.status # Absent
    BY <1>1, <1>2 DEF RowFits, CallFits
  <1>6. CallFits(a, kind[c], row, wires[c])
    BY <1>0, <1>1, <1>2, <1>3 DEF CallFits, Wired
  <1>7. LaneFits(d, a, kind[c], row, lane)
    BY <1>0, <1>1, <1>3 DEF LaneFits
  <1>8. Fits(d, a, kind[c], row, wires[c], lane) /\ Fits(d, Idle, kind[c], row, wires[c], lane)
    BY <1>1, <1>3, <1>6, <1>7 DEF Fits
  <1>9. wires = [wires EXCEPT ![c] = wires[c]]
    BY <1>1 DEF Inv, TypeOK
  <1>10. CASE command' = Leased(c) /\ at' = [Outdated(c) EXCEPT ![d] = a] /\ UNCHANGED faults
    <2>1. command' = [command EXCEPT ![c] = row] /\ wires' = [wires EXCEPT ![c] = wires[c]]
      BY <1>0, <1>4, <1>9, <1>10
    <2>2. a.pc # "send"
      BY <1>3
    <2> HIDE DEF c
    <2> QED
      BY <1>0, <1>1, <1>2, <1>3, <1>5, <1>8, <1>10, <2>1, <2>2, WriteInv DEF c
  <1>11. CASE command' = Leased(c) /\ at' = [Outdated(c) EXCEPT ![d] = Idle] /\ Fault
    <2>1. command' = [command EXCEPT ![c] = row] /\ wires' = [wires EXCEPT ![c] = wires[c]]
      BY <1>0, <1>4, <1>9, <1>11
    <2> HIDE DEF c
    <2> QED
      BY <1>0, <1>1, <1>2, <1>5, <1>8, <1>11, <2>1, IdleFacts, WriteInv DEF c
  <1>12. CASE Go(d, "idle") /\ UNCHANGED <<command, faults>>
    BY <1>12, GoIdleInv DEF Lease
  <1> QED
    BY <1>10, <1>11, <1>12 DEF Lease, a

LEMMA EntryInv ==
    ASSUME Inv, NEW d \in Dispatchers, Entry(d)
    PROVE  Inv'
  <1> DEFINE c == at[d].cmd
             pc == IF at[d].status = "FINALIZED" THEN "project"
                   ELSE IF at[d].status \in Pending \union {"UNKNOWN"} THEN "track"
                   ELSE "prepare"
  <1>1. /\ at[d].pc = "entry" /\ ~Resumes(d) /\ Go(d, pc)
        /\ Dispatcher[kind[c]].lane = "entry" => at[d].lane
        /\ UNCHANGED <<kind, published, command, wires, lane, faults>>
    BY DEF Entry, Status, Policy, Kind
  <1>2. /\ CallFits(at[d], kind[c], command[c], wires[c]) /\ kind[c] \in Kinds
        /\ RowFits(kind[c], command[c], wires[c])
    BY <1>1, AtWork
  <1>3. pc = "track" => wires[c] # <<>>
    BY <1>2 DEF CallFits
  <1>4. ASSUME pc = "prepare", at[d].current
        PROVE  /\ at[d].status \in Starts
               /\ kind[c] \in ProjectKinds => ~command[c].finalizedAt
    <2>1. at[d].status \in Dispatchable(kind[c]) /\ at[d].status = command[c].status
      BY <1>1, <1>2, <1>4 DEF CallFits
    <2>2. at[d].status \in Starts
      BY <1>2, <1>4, <2>1, PolicyFacts DEF Dispatchable
    <2>3. kind[c] \in ProjectKinds /\ command[c].finalizedAt => FALSE
      BY <1>1, <1>2, <2>1, <2>2
         DEF Resumes, Kind, Status, RowFits, Starts, ProjectKinds
    <2> QED
      BY <2>2, <2>3
  <1>5. pc \in {"project", "track", "prepare"}
    OBVIOUS
  <1> HIDE DEF pc
  <1> QED
    BY <1>1, <1>3, <1>4, <1>5, GoInv DEF Pcs, Wired

LEMMA ResumeInv ==
    ASSUME Inv, NEW d \in Dispatchers, Resume(d)
    PROVE  Inv'
  <1> DEFINE c == at[d].cmd
  <1>1. /\ at[d].pc = "entry" /\ command[c].finalizedAt
        /\ Transition(d, "UNKNOWN", "finalized", "catch")
    BY DEF Resume, Resumes
  <1>2. RowFits(kind[c], command[c], wires[c]) /\ c \in Commands
    BY <1>1, AtWork
  <1>3. wires[c] = <<"succeeded">> /\ wires[c] # <<>>
    BY <1>1, <1>2 DEF RowFits
  <1>4. RowFits(kind[c], NewRow(command[c], "UNKNOWN"), wires[c])
    BY <1>1, <1>2, <1>3, AtWork DEF RowFits, NewRow, Absent, Starts, Done
  <1> QED
    BY <1>1, <1>3, <1>4, StatusFacts, TransitionInv DEF Nexts

LEMMA AcquireLaneInv ==
    ASSUME Inv, NEW d \in Dispatchers, AcquireLane(d)
    PROVE  Inv'
  <1> DEFINE c == at[d].cmd
             a == [at[d] EXCEPT !.lane = TRUE]
             taken == [holder |-> d, left |-> LeaseTime]
  <1>1. at[d].pc \in {"entry", "prepare"} /\ UNCHANGED <<kind, published, command, wires>>
    BY DEF AcquireLane, NeedsLane
  <1>2. /\ at[d] \in Call /\ at[d] # Idle /\ c \in Commands
        /\ CallFits(at[d], kind[c], command[c], wires[c])
        /\ LaneFits(d, at[d], kind[c], command[c], lane)
        /\ command[c] \in Row
    BY <1>1, AtWork
  <1>3. lane \in Lanes /\ taken \in Lanes /\ command[c].left <= LeaseTime
    BY <1>2, ChainAssumption DEF Inv, TypeOK, Lanes, Row
  <1>4. LaneFree => \A e \in Dispatchers : ~(lane.holder = e /\ lane.left > 0)
    BY ChainAssumption DEF LaneFree
  <1>5. CASE LaneFree /\ lane' = taken /\ at' = [at EXCEPT ![d] = a] /\ UNCHANGED faults
    <2>1. /\ a \in Call /\ a.pc = at[d].pc /\ a.cmd = c /\ a.status = at[d].status
          /\ a.current = at[d].current
      BY <1>2 DEF Call
    <2> HIDE DEF a
    <2>2. CallFits(a, kind[c], command[c], wires[c])
      BY <1>2, <2>1 DEF CallFits
    <2>3. LaneFits(d, a, kind[c], command[c], taken)
      <3>1. a.lane
        BY <1>2 DEF Call, a
      <3> QED
        BY <1>1, <1>3, <2>1, <3>1 DEF LaneFits
    <2>4. Fits(d, a, kind[a.cmd], command[a.cmd], wires[a.cmd], lane')
      BY <1>1, <1>2, <1>5, <2>1, <2>2, <2>3 DEF Fits
    <2>5. a.pc # "send" /\ lane' \in Lanes
      BY <1>1, <1>3, <1>5, <2>1
    <2> HIDE DEF taken
    <2> QED
      BY <1>1, <1>4, <1>5, <2>1, <2>4, <2>5, MovedInv
  <1>6. CASE LaneFree /\ Fault /\ lane' = taken /\ Go(d, "catch")
    <2> DEFINE b == [at[d] EXCEPT !.pc = "catch"]
    <2>1. /\ b \in Call /\ b.pc = "catch" /\ b.cmd = c /\ b.status = at[d].status
          /\ b.current = at[d].current /\ b.lane = at[d].lane
      BY <1>2 DEF Call, Pcs
    <2>2. at' = [at EXCEPT ![d] = b]
      BY <1>6 DEF Go
    <2> HIDE DEF b
    <2>3. CallFits(b, kind[c], command[c], wires[c])
      BY <1>1, <1>2, <2>1 DEF CallFits, Wired
    <2>4. LaneFits(d, b, kind[c], command[c], taken)
      BY <1>3, <2>1 DEF LaneFits
    <2>5. Fits(d, b, kind[b.cmd], command[b.cmd], wires[b.cmd], lane')
      BY <1>1, <1>2, <1>6, <2>1, <2>3, <2>4 DEF Fits
    <2>6. b.pc # "send" /\ lane' \in Lanes
      BY <1>3, <1>6, <2>1
    <2> HIDE DEF taken
    <2> QED
      BY <1>1, <1>4, <1>6, <2>1, <2>2, <2>5, <2>6, MovedInv
  <1>7. CASE Go(d, "catch") /\ UNCHANGED <<lane, faults>>
    BY <1>1, <1>7, GoInv DEF Pcs, Wired
  <1> QED
    BY <1>5, <1>6, <1>7 DEF AcquireLane

LEMMA ThrowInv ==
    ASSUME Inv, NEW d \in Dispatchers, Throw(d)
    PROVE  Inv'
  BY GoInv DEF Throw, Pcs, Wired

LEMMA PrepareInv ==
    ASSUME Inv, NEW d \in Dispatchers, Prepare(d)
    PROVE  Inv'
  <1> DEFINE c == at[d].cmd
  <1>1. at[d].pc = "prepare"
    BY DEF Prepare
  <1>2. /\ CallFits(at[d], kind[c], command[c], wires[c]) /\ c \in Commands
        /\ RowFits(kind[c], command[c], wires[c]) /\ kind[c] \in Kinds
    BY <1>1, AtWork
  <1>3. ASSUME NEW to \in {"ACCEPTED", "PREPARED"}, May(d, to)
        PROVE  /\ RowFits(kind[c], NewRow(command[c], to), wires[c])
               /\ to \in Starts /\ (kind[c] \in ProjectKinds => ~command[c].finalizedAt)
    <2>1. at[d].current /\ to \in Transitions[command[c].status]
      BY <1>3 DEF May, Fenced
    <2>2. /\ command[c].status \in Starts
          /\ kind[c] \in ProjectKinds => ~command[c].finalizedAt
      BY <1>1, <1>2, <2>1 DEF CallFits
    <2>3. command[c].finalizedAt => kind[c] = "REGISTER_SEAT"
      BY <1>2, <2>2 DEF RowFits, Again
    <2>4. /\ command[c].finalizedAt => wires[c] = <<"succeeded">>
          /\ ~command[c].finalizedAt => wires[c] = <<>>
      BY <1>2, <2>2 DEF RowFits
    <2>5. /\ NewRow(command[c], to).status = to
          /\ NewRow(command[c], to).finalizedAt <=> command[c].finalizedAt
      <3>1. to \in Statuses /\ to # "FINALIZED"
        BY StatusFacts
      <3>2. NewRow(command[c], to).finalizedAt = (command[c].finalizedAt \/ to = "FINALIZED")
        BY <1>2, <3>1, WrittenFacts
      <3> QED
        BY <3>1, <3>2 DEF NewRow
    <2> QED
      BY <1>2, <2>2, <2>3, <2>4, <2>5 DEF RowFits, Starts, Done, Pending, Again, Absent
  <1>4. CASE Transition(d, "ACCEPTED", "prepare", "catch")
    BY <1>1, <1>3, <1>4, StatusFacts, TransitionInv DEF Nexts
  <1>5. CASE Transition(d, "PREPARED", "prepare", "catch")
    BY <1>1, <1>3, <1>5, StatusFacts, TransitionInv DEF Nexts
  <1> QED
    BY <1>4, <1>5 DEF Prepare

LEMMA EnsureChildrenInv ==
    ASSUME Inv, NEW d \in Dispatchers, EnsureChildren(d)
    PROVE  Inv'
  <1> DEFINE seats == OfKind(d, "REGISTER_SEAT")
             deposits == OfKind(d, "DEPOSIT_ESCROW")
  <1>1. at[d].pc = "prepare"
    BY DEF EnsureChildren
  <1>2. Children[at[d].cmd] \in SUBSET Commands
    BY <1>1, AtWork, ChainAssumption
  <1>3. \A cs \in {seats, deposits} :
           cs \in SUBSET Commands /\ \A c \in cs : kind[c] # NoKind
    BY <1>2 DEF OfKind, NoKind
  <1>4. at' = at /\ at' \in [Dispatchers -> Call] /\ UNCHANGED <<kind, published, wires, lane, faults>>
    BY DEF EnsureChildren, Inv, TypeOK
  <1> HIDE DEF seats, deposits
  <1>5. command' = Accepted(seats) \/ command' = Accepted(deposits)
    BY DEF EnsureChildren, seats, deposits
  <1> QED
    BY <1>3, <1>4, <1>5, AcceptedInv

LEMMA PreparedInv ==
    ASSUME Inv, NEW d \in Dispatchers, Prepared(d)
    PROVE  Inv'
  <1> DEFINE c == at[d].cmd
  <1>1. /\ at[d].pc = "prepare" /\ at[d].status = "PREPARED" /\ ~NeedsLane(d)
        /\ Go(d, "sign") /\ UNCHANGED <<kind, published, command, wires, lane, faults>>
    BY DEF Prepared, Status
  <1>2. LaneFits(d, at[d], kind[c], command[c], lane) /\ kind[c] \in Kinds
    BY <1>1, AtWork
  <1>3. kind[c] \in LaneKinds => at[d].lane
    <2>1. Dispatcher[kind[c]].lane # "prepare" \/ at[d].lane
      BY <1>1 DEF NeedsLane, Policy, Kind, Status
    <2>2. Dispatcher[kind[c]].lane \in {"prepare", "entry", "never"}
      BY <1>2, PolicyFacts
    <2> QED
      BY <1>1, <1>2, <2>1, <2>2 DEF LaneFits, LaneKinds
  <1> QED
    BY <1>1, <1>3, GoInv DEF Pcs, Wired

LEMMA RefuseInv ==
    ASSUME Inv, NEW d \in Dispatchers, Refuse(d)
    PROVE  Inv'
  <1> DEFINE c == at[d].cmd
  <1>1. /\ at[d].pc = "sign" /\ Dispatcher[kind[c]].refuses /\ Go(d, "refused")
        /\ UNCHANGED <<kind, published, command, wires, lane, faults>>
    BY DEF Refuse, Policy, Kind
  <1>2. CallFits(at[d], kind[c], command[c], wires[c])
    BY <1>1, AtWork
  <1>3. at[d].current => at[d].status = "PREPARED"
    BY <1>1, <1>2 DEF CallFits
  <1> QED
    BY <1>1, <1>3, GoInv DEF Pcs, Wired

LEMMA NewRowFits ==
    ASSUME Inv, NEW c \in Commands, NEW to \in Statuses,
           RowFits(kind[c], command[c], wires[c]), command[c].status # Absent,
           to \in Pending \union {"UNKNOWN"} => wires[c] # <<>>,
           to = "FINALIZED" => wires[c] = <<"succeeded">>,
           to = "PROJECTED" => command[c].finalizedAt,
           to = "FAILED_TERMINAL" => wires[c] \in {<<>>, <<"failed">>},
           to \in Starts => /\ command[c].finalizedAt => kind[c] \in Again
                            /\ ~command[c].finalizedAt => wires[c] = <<>>,
           to \in {"ACCEPTED", "PREPARED"} /\ command[c].finalizedAt =>
              kind[c] = "REGISTER_SEAT"
    PROVE  RowFits(kind[c], NewRow(command[c], to), wires[c])
  <1>1. /\ NewRow(command[c], to).status = to
        /\ NewRow(command[c], to).finalizedAt <=> command[c].finalizedAt \/ to = "FINALIZED"
    BY DEF NewRow
  <1>2. to # Absent /\ (to \in Done => to \in {"FINALIZED", "PROJECTED"})
    BY StatusFacts DEF Absent, Done
  <1>3. "FINALIZED" \notin Starts
    BY DEF Starts
  <1> QED
    BY <1>1, <1>2, <1>3 DEF RowFits

LEMMA JournalWireInv ==
    ASSUME Inv, NEW d \in Dispatchers, JournalWire(d)
    PROVE  Inv' /\ wires[at[d].cmd] = <<>>
  <1> DEFINE c == at[d].cmd
             row == NewRow(command[c], "SIGNED")
             ws == <<"journaled">>
             heard == [at[d] EXCEPT !.status = "SIGNED", !.pc = "send"]
             unheard == [[at[d] EXCEPT !.current = FALSE] EXCEPT !.pc = "catch"]
  <1>1. /\ at[d].pc = "sign" /\ Signable(d) /\ May(d, "SIGNED")
        /\ command[c].status = "PREPARED" /\ wires' = [wires EXCEPT ![c] = Append(@, "journaled")]
        /\ kind' = kind /\ published' = published /\ lane' = lane
    BY DEF JournalWire
  <1>2. /\ at[d] \in Call /\ at[d] # Idle /\ c \in Commands
        /\ CallFits(at[d], kind[c], command[c], wires[c])
        /\ LaneFits(d, at[d], kind[c], command[c], lane)
        /\ RowFits(kind[c], command[c], wires[c])
        /\ wires[c] \in Journals /\ command[c] \in Row
    BY <1>1, AtWork
  <1>3. ~command[c].finalizedAt /\ wires[c] = <<>>
    <2>1. command[c].finalizedAt => kind[c] = "REGISTER_SEAT" /\ wires[c] = <<"succeeded">>
      BY <1>1, <1>2 DEF RowFits
    <2>2. wires[c] = <<"succeeded">> => Landed(c)
      BY DEF Landed
    <2>3. ~command[c].finalizedAt
      BY <1>1, <2>1, <2>2 DEF Signable, Kind
    <2> QED
      BY <1>1, <1>2, <2>3 DEF RowFits, Starts
  <1>4. ws \in Journals /\ ws # <<>> /\ wires' = [wires EXCEPT ![c] = ws]
    BY <1>1, <1>2, <1>3 DEF Journals, Fates, Inv, TypeOK
  <1>5. "SIGNED" \in Statuses
    BY StatusFacts
  <1>6. /\ Written(c, "SIGNED") = [command EXCEPT ![c] = row] /\ row \in Row
        /\ row.left \in {0, command[c].left} /\ row.status = "SIGNED"
    BY <1>2, <1>5, WrittenFacts
  <1>7. ~row.finalizedAt
    BY <1>3 DEF NewRow
  <1> HIDE DEF row, ws
  <1>8. RowFits(kind[c], row, ws) /\ row.status # Absent
    BY <1>2, <1>4, <1>6, <1>7 DEF RowFits, CallFits, Absent, Starts, Done
  <1>9. CASE Applied(d, "SIGNED", "send")
    <2>1. /\ command' = [command EXCEPT ![c] = row] /\ faults' = faults
          /\ at' = [Outdated(c) EXCEPT ![d] = heard]
      BY <1>6, <1>9 DEF Applied
    <2>2. /\ heard \in Call /\ heard.pc = "send" /\ heard.cmd = c /\ heard.status = "SIGNED"
          /\ heard.current = at[d].current /\ heard.lane = at[d].lane
      BY <1>2, <1>5 DEF Call, Pcs
    <2> HIDE DEF heard
    <2>3. CallFits(heard, kind[c], row, ws)
      BY <1>2, <1>4, <1>5, <1>6, <1>8, <2>2 DEF CallFits, ws
    <2>4. LaneFits(d, heard, kind[c], row, lane)
      BY <1>2, <1>6, <2>2 DEF LaneFits
    <2>5. Fits(d, heard, kind[c], row, ws, lane)
      BY <1>2, <2>2, <2>3, <2>4 DEF Fits
    <2> HIDE DEF c
    <2> QED
      BY <1>1, <1>2, <1>3, <1>4, <1>6, <1>8, <2>1, <2>2, <2>5, WriteInv DEF c
  <1>10. CASE AppliedUnheard(d, "SIGNED", "catch")
    <2>1. /\ command' = [command EXCEPT ![c] = row] /\ Fault
          /\ at' = [Outdated(c) EXCEPT ![d] = unheard]
      BY <1>2, <1>6, <1>10 DEF AppliedUnheard, Outdated
    <2>2. /\ unheard \in Call /\ unheard.pc = "catch" /\ unheard.cmd = c
          /\ unheard.status = at[d].status /\ ~unheard.current
      BY <1>2 DEF Call, Pcs
    <2> HIDE DEF unheard
    <2>3. CallFits(unheard, kind[c], row, ws)
      BY <1>1, <1>2, <1>4, <1>8, <2>2 DEF CallFits, Wired
    <2>4. LaneFits(d, unheard, kind[c], row, lane)
      BY <2>2 DEF LaneFits
    <2>5. Fits(d, unheard, kind[c], row, ws, lane)
      BY <1>2, <2>2, <2>3, <2>4 DEF Fits
    <2> HIDE DEF c
    <2> QED
      BY <1>1, <1>2, <1>3, <1>4, <1>6, <1>8, <2>1, <2>2, <2>5, WriteInv DEF c
  <1> QED
    BY <1>3, <1>9, <1>10 DEF JournalWire

LEMMA MarkFacts ==
    ASSUME Inv, NEW c \in Commands, NEW f \in Fates, wires[c] # <<>>
    PROVE  /\ Latest(c) \in Fates /\ wires[c] = <<Latest(c)>>
           /\ Mark(c, f) = [wires EXCEPT ![c] = <<f>>]
  <1>1. PICK g \in Fates : wires[c] = <<g>>
    BY DEF Inv, RowsFit, Journals
  <1>2. Latest(c) = g /\ Len(wires[c]) = 1
    BY <1>1 DEF Latest
  <1>3. [wires[c] EXCEPT ![Len(wires[c])] = f] = <<f>>
    BY <1>1, <1>2
  <1> QED
    BY <1>1, <1>2, <1>3 DEF Mark, Inv, TypeOK

LEMMA SendInv ==
    ASSUME Inv, NEW d \in Dispatchers, Send(d)
    PROVE  Inv'
  <1> DEFINE c == at[d].cmd
  <1>1. at[d].pc = "send" /\ UNCHANGED <<kind, published, command, lane, faults>>
    BY DEF Send
  <1>2. /\ CallFits(at[d], kind[c], command[c], wires[c]) /\ c \in Commands /\ at[d] \in Call
        /\ LaneFits(d, at[d], kind[c], command[c], lane)
    BY <1>1, AtWork
  <1>3. wires[c] = <<"journaled">> /\ wires[c] # <<>>
    <2>1. wires[c] = <<"journaled">>
      BY <1>1, <1>2 DEF CallFits
    <2> QED
      BY <2>1
  <1>4. CASE UNCHANGED wires /\ (Go(d, "unsure") \/ Go(d, "catch"))
    BY <1>1, <1>3, <1>4, GoInv DEF Pcs, Wired
  <1>5. ASSUME NEW pc \in {"submitted", "unsure"}, wires' = Mark(c, "sent"), Go(d, pc)
        PROVE  Inv'
    <2> DEFINE a == [at[d] EXCEPT !.pc = pc]
    <2>1. /\ a \in Call /\ a.pc = pc /\ a.cmd = c /\ a.status = at[d].status
          /\ a.current = at[d].current /\ a.lane = at[d].lane
      BY <1>2 DEF Call, Pcs
    <2>2. at' = [at EXCEPT ![d] = a]
      BY <1>5 DEF Go
    <2> HIDE DEF a
    <2>3. CallFits(a, kind[c], command[c], <<"sent">>)
      <3>1. <<"sent">> # <<>>
        OBVIOUS
      <3> QED
        BY <1>1, <1>2, <2>1, <3>1 DEF CallFits, Wired
    <2>4. LaneFits(d, a, kind[c], command[c], lane)
      BY <1>2, <2>1 DEF LaneFits
    <2>5. Fits(d, a, kind[c], command[c], <<"sent">>, lane)
      BY <1>2, <2>1, <2>3, <2>4 DEF Fits
    <2>6. /\ at' \in [Dispatchers -> Call] /\ at'[d] = a
          /\ \A e \in Dispatchers \ {d} : at'[e] = at[e]
      BY <2>1, <2>2 DEF Inv, TypeOK
    <2>7. \A e \in Dispatchers \ {d} : at[e].cmd = c => at[e].pc # "send"
      BY <1>1 DEF Inv, SendAlone
    <2>8. "sent" \in Fates /\ wires' = [wires EXCEPT ![c] = <<"sent">>]
      <3>1. "sent" \in Fates
        BY DEF Fates
      <3> QED
        BY <1>2, <1>3, <1>5, <3>1, MarkFacts
    <2>9. \A e \in Dispatchers :
             \/ at'[e] = at[e] /\ (at[e].cmd = c => at[e].pc # "send")
             \/ /\ at'[e].cmd = c /\ at'[e].pc # "send"
                /\ Fits(e, at'[e], kind[c], command[c], <<"sent">>, lane)
      BY <2>1, <2>5, <2>6, <2>7
    <2>10. wires[c] \in {<<"journaled">>, <<"sent">>} /\ c \in Commands
      BY <1>2, <1>3
    <2> HIDE DEF c
    <2> QED
      BY <1>1, <2>6, <2>8, <2>9, <2>10, FateInv
  <1> QED
    BY <1>4, <1>5 DEF Send

LEMMA LandInv ==
    ASSUME Inv, NEW c \in Commands, Land(c)
    PROVE  Inv'
  <1>1. PICK f \in Fates : wires' = Mark(c, f)
    BY DEF Land, Fates
  <1>2. wires[c] = <<"sent">> /\ wires' = [wires EXCEPT ![c] = <<f>>]
    BY <1>1, MarkFacts DEF Land
  <1>3. /\ UNCHANGED <<kind, published, command, lane, faults>> /\ at' = at
        /\ at' \in [Dispatchers -> Call]
    BY DEF Land, Inv, TypeOK
  <1>4. ASSUME NEW e \in Dispatchers, at[e].cmd = c PROVE at[e].pc # "send"
    <2>1. at[e].pc = "send" => wires[c] = <<"journaled">>
      BY <1>4, AtWork DEF CallFits
    <2> QED
      BY <1>2, <2>1
  <1> QED
    BY <1>2, <1>3, <1>4, FateInv

LEMMA SubmitInv ==
    ASSUME Inv, NEW d \in Dispatchers, Submit(d)
    PROVE  Inv'
  <1> DEFINE c == at[d].cmd
  <1>1. at[d].pc \in {"submitted", "unsure"}
    BY DEF Submit
  <1>2. /\ CallFits(at[d], kind[c], command[c], wires[c]) /\ c \in Commands
        /\ RowFits(kind[c], command[c], wires[c])
    BY <1>1, AtWork
  <1>3. wires[c] # <<>> /\ command[c].status # Absent
    BY <1>1, <1>2 DEF CallFits, Wired
  <1>4. \A to \in {"SUBMITTED", "UNKNOWN"} :
           to \in Statuses /\ RowFits(kind[c], NewRow(command[c], to), wires[c])
    BY <1>2, <1>3, StatusFacts, NewRowFits DEF Starts
  <1>5. CASE Transition(d, "SUBMITTED", "track", "catch")
    BY <1>1, <1>3, <1>4, <1>5, TransitionInv DEF Nexts
  <1>6. CASE Transition(d, "UNKNOWN", "idle", "catch")
    BY <1>1, <1>3, <1>4, <1>6, TransitionInv DEF Nexts
  <1> QED
    BY <1>5, <1>6 DEF Submit

LEMMA TrackInv ==
    ASSUME Inv, NEW d \in Dispatchers, Track(d)
    PROVE  Inv'
  <1> DEFINE c == at[d].cmd
  <1>1. at[d].pc = "track" /\ UNCHANGED <<kind, published, command, wires, lane, faults>>
    BY DEF Track
  <1>2. c \in Commands /\ wires[c] # <<>>
    BY <1>1, AtWork DEF CallFits, Wired
  <1>3. wires[c] = <<Latest(c)>>
    BY <1>2, MarkFacts DEF Fates
  <1>4. PICK o \in Outcomes(Latest(c)) : Go(d, o)
    BY DEF Track
  <1>5. /\ o \in {"ambiguous", "finalized", "failed"}
        /\ o = "finalized" => Latest(c) = "succeeded"
        /\ o = "failed" => Latest(c) = "failed"
    BY DEF Outcomes
  <1>6. /\ o = "finalized" => wires[c] = <<"succeeded">>
        /\ o = "failed" => wires[c] = <<"failed">>
    BY <1>3, <1>5
  <1> QED
    BY <1>1, <1>2, <1>4, <1>5, <1>6, GoInv DEF Pcs

LEMMA FinalizeInv ==
    ASSUME Inv, NEW d \in Dispatchers, Finalize(d)
    PROVE  Inv'
  <1> DEFINE c == at[d].cmd
  <1>1. at[d].pc = "finalized"
    BY DEF Finalize
  <1>2. /\ CallFits(at[d], kind[c], command[c], wires[c]) /\ c \in Commands
        /\ RowFits(kind[c], command[c], wires[c]) /\ kind[c] \in Kinds
    BY <1>1, AtWork
  <1>3. wires[c] = <<"succeeded">> /\ command[c].status # Absent
    BY <1>1, <1>2 DEF CallFits
  <1>4. wires[c] # <<>>
    BY <1>3
  <1>5. \A to \in {"SUBMITTED", "FINALIZED"} :
           to \in Statuses /\ RowFits(kind[c], NewRow(command[c], to), wires[c])
    BY <1>2, <1>3, <1>4, StatusFacts, NewRowFits DEF Starts, Pending
  <1>6. CASE Transition(d, "SUBMITTED", "finalized", "catch")
    BY <1>1, <1>3, <1>5, <1>6, TransitionInv DEF Nexts
  <1>7. CASE Transition(d, "FINALIZED", Policy(d).after, "catch")
    <2>1. /\ Policy(d).after \in {"release", "idle", "projected", "project"}
          /\ Policy(d).after \in {"projected", "project"} => kind[c] \in Again
      BY <1>2, PolicyFacts DEF Policy, Kind
    <2>2. Policy(d).after \in Nexts /\ Policy(d).after \notin {"prepare", "track", "finalized"}
      BY <2>1 DEF Nexts
    <2> QED
      BY <1>1, <1>5, <1>7, <2>1, <2>2, TransitionInv
  <1> QED
    BY <1>6, <1>7 DEF Finalize

LEMMA RejectInv ==
    ASSUME Inv, NEW d \in Dispatchers, Reject(d)
    PROVE  Inv'
  <1> DEFINE c == at[d].cmd
             next == IF Policy(d).after = "release" THEN "release" ELSE "idle"
  <1>1. at[d].pc = "failed" /\ Transition(d, "FAILED_TERMINAL", next, "catch")
    BY DEF Reject
  <1>2. /\ CallFits(at[d], kind[c], command[c], wires[c]) /\ c \in Commands
        /\ RowFits(kind[c], command[c], wires[c])
    BY <1>1, AtWork
  <1>3. wires[c] = <<"failed">> /\ command[c].status # Absent
    BY <1>1, <1>2 DEF CallFits
  <1>4. /\ "FAILED_TERMINAL" \in Statuses
        /\ RowFits(kind[c], NewRow(command[c], "FAILED_TERMINAL"), wires[c])
    BY <1>2, <1>3, StatusFacts, NewRowFits DEF Starts, Pending
  <1>5. next \in {"release", "idle"} /\ next \in Nexts
    BY DEF Nexts
  <1> HIDE DEF next
  <1> QED
    BY <1>1, <1>4, <1>5, TransitionInv

LEMMA DoubtInv ==
    ASSUME Inv, NEW d \in Dispatchers, Doubt(d)
    PROVE  Inv'
  <1> DEFINE c == at[d].cmd
  <1>1. at[d].pc = "ambiguous"
    BY DEF Doubt
  <1>2. /\ CallFits(at[d], kind[c], command[c], wires[c]) /\ c \in Commands
        /\ RowFits(kind[c], command[c], wires[c])
    BY <1>1, AtWork
  <1>3. wires[c] # <<>> /\ command[c].status # Absent
    BY <1>1, <1>2 DEF CallFits, Wired
  <1>4. "UNKNOWN" \in Statuses /\ RowFits(kind[c], NewRow(command[c], "UNKNOWN"), wires[c])
    BY <1>2, <1>3, StatusFacts, NewRowFits DEF Starts
  <1>5. CASE Transition(d, "UNKNOWN", "idle", "catch")
    BY <1>1, <1>4, <1>5, TransitionInv DEF Nexts
  <1>6. CASE Go(d, "idle") /\ UNCHANGED <<kind, published, command, wires, lane, faults>>
    BY <1>6, GoIdleInv
  <1> QED
    BY <1>5, <1>6 DEF Doubt

LEMMA ReleaseInv ==
    ASSUME Inv, NEW d \in Dispatchers, Release(d)
    PROVE  Inv'
  <1>1. ReleaseLane(d) /\ at' = [at EXCEPT ![d] = Idle]
    BY DEF Release, Go
  <1>2. Fits(d, Idle, kind[Idle.cmd], command[Idle.cmd], wires[Idle.cmd], lane')
    BY DEF Fits
  <1> QED
    BY <1>1, <1>2, IdleFacts, ReleasedFacts, MovedInv

LEMMA ProjectInv ==
    ASSUME Inv, NEW d \in Dispatchers, Project(d)
    PROVE  Inv'
  <1> DEFINE c == at[d].cmd
             cs == Successor[c]
  <1>1. at[d].pc = "project" /\ UNCHANGED <<kind, published, wires, lane>>
    BY DEF Project
  <1>2. /\ CallFits(at[d], kind[c], command[c], wires[c]) /\ c \in Commands
        /\ at[d] \in Call /\ kind[c] \in Kinds
    BY <1>1, AtWork
  <1>3. cs \in SUBSET Commands /\ \A s \in cs : kind[s] # NoKind
    <2>1. kind \in Assignments /\ kind[c] # NoKind
      BY <1>2 DEF Inv, TypeOK, Kinds, NoKind
    <2> QED
      BY <1>2, <2>1, ChainAssumption
  <1>4. CASE UNCHANGED command /\ Go(d, "catch") /\ (Fault \/ UNCHANGED faults)
    BY <1>1, <1>4, GoInv DEF Pcs, Wired
  <1>5. ASSUME NEW pc \in {"projected", "catch"}, Go(d, pc), command' = Accepted(cs),
               Fault \/ UNCHANGED faults
        PROVE  Inv'
    <2> DEFINE a == [at[d] EXCEPT !.pc = pc]
    <2>1. pc \in Pcs \ {"lease", "entry", "send", "idle"} /\ pc \notin Wired
          /\ pc \notin {"prepare", "sign", "refused", "finalized", "failed"}
      BY DEF Pcs, Wired
    <2>2. /\ a \in Call /\ a.pc = pc /\ a.cmd = c
          /\ Fits(d, a, kind[c], command[c], wires[c], lane)
      BY <1>1, <2>1, GoFits
    <2>3. at' = [at EXCEPT ![d] = a]
      BY <1>5 DEF Go
    <2> HIDE DEF a
    <2>4. /\ at' \in [Dispatchers -> Call] /\ at'[d] = a
          /\ \A e \in Dispatchers \ {d} : at'[e] = at[e]
      BY <2>2, <2>3 DEF Inv, TypeOK
    <2>5. \A e \in Dispatchers :
             \/ at'[e] = at[e]
             \/ /\ at'[e].pc # "send"
                /\ Fits(e, at'[e], kind[at'[e].cmd], command[at'[e].cmd],
                        wires[at'[e].cmd], lane)
      BY <2>2, <2>4
    <2> HIDE DEF cs
    <2> QED
      BY <1>1, <1>3, <1>5, <2>4, <2>5, AcceptedInv
  <1> QED
    BY <1>4, <1>5 DEF Project

LEMMA ProjectedInv ==
    ASSUME Inv, NEW d \in Dispatchers, Projected(d)
    PROVE  Inv'
  <1> DEFINE c == at[d].cmd
  <1>1. at[d].pc = "projected" /\ Transition(d, "PROJECTED", "idle", "catch")
    BY DEF Projected
  <1>2. /\ CallFits(at[d], kind[c], command[c], wires[c]) /\ c \in Commands
        /\ RowFits(kind[c], command[c], wires[c]) /\ command[c] \in Row
    BY <1>1, AtWork
  <1>3. command[c].status # Absent /\ command[c].status \in Statuses
    BY <1>2 DEF CallFits, Row
  <1>4. ASSUME May(d, "PROJECTED")
        PROVE  RowFits(kind[c], NewRow(command[c], "PROJECTED"), wires[c])
    <2>1. command[c].status = "FINALIZED"
      BY <1>3, <1>4, StatusFacts DEF May
    <2>2. command[c].finalizedAt
      BY <1>2, <2>1 DEF RowFits, Done
    <2> QED
      BY <1>2, <1>3, <2>2, StatusFacts, NewRowFits DEF Starts, Pending
  <1> QED
    BY <1>1, <1>4, StatusFacts, TransitionInv DEF Nexts

LEMMA CatchInv ==
    ASSUME Inv, NEW d \in Dispatchers, Catch(d)
    PROVE  Inv'
  <1> DEFINE c == at[d].cmd
  <1>1. at[d].pc = "catch"
    BY DEF Catch
  <1>2. /\ CallFits(at[d], kind[c], command[c], wires[c]) /\ c \in Commands
        /\ RowFits(kind[c], command[c], wires[c]) /\ command[c] \in Row /\ kind[c] \in Kinds
    BY <1>1, AtWork
  <1>3. command[c].status # Absent /\ command[c].status \in Statuses
    BY <1>2 DEF CallFits, Row
  <1>4. CASE Go(d, "idle") /\ UNCHANGED <<kind, published, command, wires, lane, faults>>
    BY <1>4, GoIdleInv
  <1>5. CASE at[d].status \in Pending /\ Transition(d, "UNKNOWN", "idle", "idle")
    <2>1. wires[c] # <<>>
      BY <1>2, <1>5 DEF CallFits
    <2>2. RowFits(kind[c], NewRow(command[c], "UNKNOWN"), wires[c])
      BY <1>2, <1>3, <2>1, StatusFacts, NewRowFits DEF Starts
    <2> QED
      BY <1>1, <1>5, <2>2, StatusFacts, TransitionInv DEF Nexts
  <1>6. CASE ReleaseLane(d) /\ at' = [at EXCEPT ![d].lane = FALSE]
    BY <1>1, <1>6, DropLaneInv
  <1>7. CASE /\ at[d].status \notin Pending \union Policy(d).settled
             /\ Transition(d, "FAILED_RETRYABLE", "idle", "idle")
    <2>1. ASSUME May(d, "FAILED_RETRYABLE")
          PROVE  RowFits(kind[c], NewRow(command[c], "FAILED_RETRYABLE"), wires[c])
      <3>1. at[d].status = command[c].status /\ command[c].status # "FAILED_RETRYABLE"
        BY <1>2, <1>3, <2>1, StatusFacts DEF May, Fenced, CallFits
      <3>2. command[c].status \in {"ACCEPTED", "PREPARED", "FINALIZED"}
        BY <1>2, <1>3, <1>7, <3>1, StatusFacts, PolicyFacts DEF Policy, Kind, Pending, Settled
      <3>3. command[c].finalizedAt => kind[c] \in Again
        BY <1>1, <1>2, <3>1, <3>2 DEF CallFits, RowFits, Again
      <3>4. ~command[c].finalizedAt => wires[c] = <<>>
        BY <1>2, <3>2 DEF RowFits, Starts, Done
      <3> QED
        BY <1>2, <1>3, <3>3, <3>4, StatusFacts, NewRowFits DEF Pending
    <2> QED
      BY <1>1, <1>7, <2>1, StatusFacts, TransitionInv DEF Nexts
  <1> QED
    BY <1>4, <1>5, <1>6, <1>7 DEF Catch, Status

LEMMA RefusedInv ==
    ASSUME Inv, NEW d \in Dispatchers, Refused(d)
    PROVE  Inv'
  <1> DEFINE c == at[d].cmd
  <1>1. at[d].pc = "refused"
    BY DEF Refused
  <1>2. /\ CallFits(at[d], kind[c], command[c], wires[c]) /\ c \in Commands
        /\ RowFits(kind[c], command[c], wires[c]) /\ kind[c] \in Kinds
    BY <1>1, AtWork
  <1>3. command[c].status # Absent
    BY <1>2 DEF CallFits
  <1>4. CASE ReleaseLane(d) /\ at' = [at EXCEPT ![d].lane = FALSE]
    BY <1>1, <1>4, DropLaneInv
  <1>5. CASE Transition(d, "FAILED_TERMINAL", "idle", "idle")
    <2>1. ASSUME May(d, "FAILED_TERMINAL")
          PROVE  RowFits(kind[c], NewRow(command[c], "FAILED_TERMINAL"), wires[c])
      <3>1. command[c].status = "PREPARED" /\ Dispatcher[kind[c]].refuses
        BY <1>1, <1>2, <2>1 DEF May, Fenced, CallFits
      <3>2. kind[c] \notin Again
        BY <1>2, <3>1, PolicyFacts
      <3>3. wires[c] = <<>>
        BY <1>2, <3>1, <3>2 DEF RowFits, Starts, Again
      <3> QED
        BY <1>2, <1>3, <3>3, StatusFacts, NewRowFits DEF Pending, Starts
    <2> QED
      BY <1>1, <1>5, <2>1, StatusFacts, TransitionInv DEF Nexts
  <1> QED
    BY <1>4, <1>5 DEF Refused

LEMMA CrashInv ==
    ASSUME Inv, NEW d \in Dispatchers, Crash(d)
    PROVE  Inv'
  BY GoIdleInv DEF Crash

LEMMA ProceedInv ==
    ASSUME Inv, NEW d \in Dispatchers, Proceed(d)
    PROVE  Inv'
  <1>1. CASE Lease(d)
    BY <1>1, LeaseInv
  <1>2. CASE Entry(d)
    BY <1>2, EntryInv
  <1>3. CASE Resume(d)
    BY <1>3, ResumeInv
  <1>4. CASE AcquireLane(d)
    BY <1>4, AcquireLaneInv
  <1>5. CASE Prepare(d)
    BY <1>5, PrepareInv
  <1>6. CASE EnsureChildren(d)
    BY <1>6, EnsureChildrenInv
  <1>7. CASE Prepared(d)
    BY <1>7, PreparedInv
  <1>8. CASE Throw(d)
    BY <1>8, ThrowInv
  <1>9. CASE Refuse(d)
    BY <1>9, RefuseInv
  <1>10. CASE JournalWire(d)
    BY <1>10, JournalWireInv
  <1>11. CASE Send(d)
    BY <1>11, SendInv
  <1>12. CASE Submit(d)
    BY <1>12, SubmitInv
  <1>13. CASE Track(d)
    BY <1>13, TrackInv
  <1>14. CASE Finalize(d)
    BY <1>14, FinalizeInv
  <1>15. CASE Reject(d)
    BY <1>15, RejectInv
  <1>16. CASE Doubt(d)
    BY <1>16, DoubtInv
  <1>17. CASE Release(d)
    BY <1>17, ReleaseInv
  <1>18. CASE Project(d)
    BY <1>18, ProjectInv
  <1>19. CASE Projected(d)
    BY <1>19, ProjectedInv
  <1>20. CASE Catch(d)
    BY <1>20, CatchInv
  <1>21. CASE Refused(d)
    BY <1>21, RefusedInv
  <1> QED
    BY <1>1, <1>2, <1>3, <1>4, <1>5, <1>6, <1>7, <1>8, <1>9, <1>10, <1>11, <1>12, <1>13,
       <1>14, <1>15, <1>16, <1>17, <1>18, <1>19, <1>20, <1>21 DEF Proceed

LEMMA PublishInv == Inv /\ Publish => Inv'
  BY DEF Publish, Inv, TypeOK, RowsFit, CallsFit, SendAlone

LEMMA StutterInv == Inv /\ UNCHANGED vars => Inv'
  BY DEF Inv, TypeOK, RowsFit, CallsFit, SendAlone, vars

LEMMA NextInv == Inv /\ [Next]_vars => Inv'
  <1> SUFFICES ASSUME Inv, [Next]_vars PROVE Inv'
    OBVIOUS
  <1>1. CASE \E c \in Commands : Accept(c) \/ Land(c)
    BY <1>1, AcceptInv, LandInv
  <1>2. CASE \E d \in Dispatchers, c \in Commands : Begin(d, c)
    BY <1>2, BeginInv
  <1>3. CASE \E d \in Dispatchers : Proceed(d) \/ Crash(d)
    BY <1>3, ProceedInv, CrashInv
  <1>4. CASE Tick
    BY <1>4, TickInv
  <1>5. CASE Publish
    BY <1>5, PublishInv
  <1>6. CASE UNCHANGED vars
    BY <1>6, StutterInv
  <1> QED
    BY <1>1, <1>2, <1>3, <1>4, <1>5, <1>6 DEF Next

-----------------------------------------------------------------------------
\* The rows, the journals and the dispatchers agree, whatever the dispatchers,
\* the network and the clock do: every status is backed by its journal, and
\* every dispatcher that is current knows its row.
THEOREM InvAlways == Spec => []Inv
  BY InitInv, NextInv, PTL DEF Spec

\* Rows, wires, the lane and the dispatchers keep their types.
THEOREM TypeAlways == Spec => []TypeOK
  <1>1. Inv => TypeOK
    BY DEF Inv
  <1> QED
    BY <1>1, InvAlways, PTL

\* A command is never signed twice: appendSignedWireBeforeSend is reached with
\* an empty journal only, however many dispatchers race, stop and start again.
THEOREM SignedOnceAlways == Spec => []SignedOnce
  <1>1. Inv => SignedOnce
    <2> SUFFICES ASSUME Inv, NEW c \in Commands PROVE Len(wires[c]) <= 1
      BY DEF SignedOnce
    <2>1. wires[c] \in Journals
      BY DEF Inv, RowsFit
    <2>2. CASE wires[c] = <<>>
      BY <2>2
    <2>3. CASE wires[c] # <<>>
      <3>1. Len(wires[c]) = 1
        BY <2>1, <2>3, JournalFacts
      <3> QED
        BY <3>1
    <2> QED
      BY <2>2, <2>3
  <1> QED
    BY <1>1, InvAlways, PTL

\* A command that is done has landed, one that failed for good never will, and
\* one that is prepared again has no wire.
THEOREM OutcomeTrueAlways == Spec => []OutcomeTrue
  <1>1. Inv => OutcomeTrue
    <2> SUFFICES ASSUME Inv, NEW c \in Commands
                 PROVE  /\ command[c].finalizedAt \/ command[c].status \in Done => Landed(c)
                        /\ command[c].status = "FAILED_TERMINAL" =>
                              \A i \in DOMAIN wires[c] : wires[c][i] = "failed"
                        /\ command[c].status \in Starts /\ ~command[c].finalizedAt =>
                              wires[c] = <<>>
      BY DEF OutcomeTrue
    <2>1. RowFits(kind[c], command[c], wires[c])
      BY DEF Inv, RowsFit
    <2>2. command[c].finalizedAt \/ command[c].status \in Done => wires[c] = <<"succeeded">>
      BY <2>1 DEF RowFits
    <2>3. wires[c] = <<"succeeded">> => Landed(c)
      BY DEF Landed
    <2>4. wires[c] \in {<<>>, <<"failed">>} => \A i \in DOMAIN wires[c] : wires[c][i] = "failed"
      OBVIOUS
    <2> QED
      BY <2>1, <2>2, <2>3, <2>4 DEF RowFits
  <1> QED
    BY <1>1, InvAlways, PTL

\* Only signing makes a journal longer.
LEMMA OnlySigned ==
    ASSUME Inv, Next, NEW c \in Commands, Len(wires'[c]) > Len(wires[c])
    PROVE  \E d \in Dispatchers : JournalWire(d) /\ at[d].cmd = c
  <1>1. wires' # wires
    <2>1. wires' = wires => Len(wires'[c]) = Len(wires[c])
      OBVIOUS
    <2>2. Len(wires[c]) \in Nat
      BY DEF Inv, TypeOK
    <2> QED
      BY <2>1, <2>2
  <1>2. ASSUME NEW b \in Commands, NEW f \in Fates, wires[b] # <<>>, wires' = Mark(b, f)
        PROVE  FALSE
    <2>1. Latest(b) \in Fates /\ wires[b] = <<Latest(b)>> /\ wires' = [wires EXCEPT ![b] = <<f>>]
      BY <1>2, MarkFacts
    <2>2. c # b => wires'[c] = wires[c]
      BY <2>1 DEF Inv, TypeOK
    <2>3. c = b => wires'[c] = <<f>> /\ wires[c] = <<Latest(b)>>
      BY <2>1 DEF Inv, TypeOK
    <2>4. Len(<<f>>) = 1 /\ Len(<<Latest(b)>>) = 1 /\ Len(wires[c]) \in Nat
      BY DEF Inv, TypeOK
    <2> QED
      BY <2>2, <2>3, <2>4
  <1>3. ASSUME NEW b \in Commands, Land(b) PROVE FALSE
    <2>1. PICK f \in Fates : wires' = Mark(b, f)
      BY <1>3 DEF Land, Fates
    <2> QED
      BY <1>2, <1>3, <2>1 DEF Land
  <1>4. ASSUME NEW d \in Dispatchers, Send(d) PROVE FALSE
    <2>1. at[d].pc = "send" /\ (wires' = Mark(at[d].cmd, "sent") \/ wires' = wires)
      BY <1>4 DEF Send
    <2>2. at[d].cmd \in Commands /\ wires[at[d].cmd] # <<>>
      BY <2>1, AtWork DEF CallFits, Wired
    <2> QED
      BY <1>1, <1>2, <2>1, <2>2 DEF Fates
  <1>5. ASSUME NEW d \in Dispatchers, Proceed(d) \/ Crash(d), ~JournalWire(d) PROVE FALSE
    <2>1. CASE Lease(d) \/ Entry(d) \/ Resume(d) \/ AcquireLane(d) \/ Prepare(d)
      BY <1>1, <2>1 DEF Lease, Entry, Resume, AcquireLane, Prepare, Transition
    <2>2. CASE EnsureChildren(d) \/ Prepared(d) \/ Throw(d) \/ Refuse(d) \/ Submit(d)
      BY <1>1, <2>2 DEF EnsureChildren, Prepared, Throw, Refuse, Submit, Transition
    <2>3. CASE Track(d) \/ Finalize(d) \/ Reject(d) \/ Doubt(d) \/ Release(d)
      BY <1>1, <2>3 DEF Track, Finalize, Reject, Doubt, Release, ReleaseLane, Transition
    <2>4. CASE Project(d) \/ Projected(d) \/ Catch(d) \/ Refused(d) \/ Crash(d)
      BY <1>1, <2>4 DEF Project, Projected, Catch, Refused, Crash, ReleaseLane, Transition
    <2> QED
      BY <1>4, <1>5, <2>1, <2>2, <2>3, <2>4 DEF Proceed
  <1>6. PICK d \in Dispatchers : JournalWire(d)
    <2>1. ~ \E b \in Commands : Accept(b)
      BY <1>1 DEF Accept
    <2>2. ~ \E d \in Dispatchers, b \in Commands : Begin(d, b)
      BY <1>1 DEF Begin
    <2>3. ~Tick /\ ~Publish
      BY <1>1 DEF Tick, Publish
    <2> QED
      BY <1>3, <1>5, <2>1, <2>2, <2>3 DEF Next
  <1>7. at[d].cmd = c
    <2>1. wires' = [wires EXCEPT ![at[d].cmd] = Append(@, "journaled")]
      BY <1>6 DEF JournalWire
    <2>2. at[d].cmd # c => wires'[c] = wires[c]
      BY <2>1 DEF Inv, TypeOK
    <2>3. Len(wires[c]) \in Nat
      BY DEF Inv, TypeOK
    <2> QED
      BY <2>2, <2>3
  <1> QED
    BY <1>6, <1>7

\* A command of a kind that needs the lane is signed by the dispatcher that
\* holds it: the lease that signing checks ends before the lane does.
THEOREM SignedInLaneAlways == Spec => SignedInLane
  <1> DEFINE A == \A c \in Commands :
                     kind[c] \in LaneKinds /\ Len(wires'[c]) > Len(wires[c]) =>
                        lane.left > 0 /\ \E d \in Dispatchers :
                            /\ at[d].cmd = c /\ at[d].pc = "sign" /\ at'[d] # at[d]
                            /\ lane.holder = d /\ at[d].lane
  <1>1. Inv /\ [Next]_vars => [A]_vars
    <2> SUFFICES ASSUME Inv, Next, NEW c \in Commands, kind[c] \in LaneKinds,
                        Len(wires'[c]) > Len(wires[c])
                 PROVE  lane.left > 0 /\ \E d \in Dispatchers :
                            /\ at[d].cmd = c /\ at[d].pc = "sign" /\ at'[d] # at[d]
                            /\ lane.holder = d /\ at[d].lane
      BY DEF vars
    <2>1. PICK d \in Dispatchers : JournalWire(d) /\ at[d].cmd = c
      BY OnlySigned
    <2>2. /\ at[d].pc = "sign" /\ at[d].current /\ command[c].left > 0
      BY <2>1 DEF JournalWire, May, Fenced
    <2>3. /\ LaneFits(d, at[d], kind[c], command[c], lane) /\ at[d] \in Call
          /\ command[c] \in Row
      BY <2>1, <2>2, AtWork
    <2>4. at[d].lane /\ lane.holder = d /\ command[c].left <= lane.left
      BY <2>2, <2>3 DEF LaneFits
    <2>5. lane.left > 0
      <3>1. command[c].left \in Nat /\ lane.left \in Nat
        BY <2>3, ChainAssumption DEF Row, Inv, TypeOK
      <3> QED
        BY <2>2, <2>4, <3>1
    <2>6. at'[d].pc \in {"send", "catch"}
      <3>1. at[d].cmd = c /\ at[d] \in Call
        BY <2>1, <2>3
      <3>2. CASE Applied(d, "SIGNED", "send")
        <4>1. at' = [Outdated(c) EXCEPT ![d] = [at[d] EXCEPT !.status = "SIGNED", !.pc = "send"]]
          BY <2>1, <3>2 DEF Applied
        <4> QED
          BY <3>1, <4>1 DEF Outdated, Call
      <3>3. CASE AppliedUnheard(d, "SIGNED", "catch")
        <4>1. at' = [Outdated(c) EXCEPT
                       ![d] = [[at[d] EXCEPT !.current = FALSE] EXCEPT !.pc = "catch"]]
          BY <2>1, <3>1, <3>3 DEF AppliedUnheard, Outdated
        <4> QED
          BY <3>1, <4>1 DEF Outdated, Call
      <3> QED
        BY <2>1, <3>2, <3>3 DEF JournalWire
    <2>7. at'[d] # at[d]
      BY <2>2, <2>6
    <2> QED
      BY <2>1, <2>2, <2>4, <2>5, <2>7
  <1> QED
    BY <1>1, InvAlways, PTL DEF Spec, SignedInLane


----------------------------------------------------------------------------
\* Ingestion.

CursorRows == [coverage : Nat, committed : Int, head : Int, before : Nat,
               revision : Nat]
Pages == [top : Int, bottom : Int, reached : BOOLEAN]
Points == {"off", "cycle", "cursor", "page", "receipts", "commit", "done"}
ProcRows == [pc : Points, mode : {"once", "continuous"}, arg : Nat,
             snap : CursorRows, page : Pages]

Reading == {"page", "receipts", "commit"}
Paged == {"receipts", "commit"}

Typed ==
    /\ finalized \in Int /\ oldest \in Int
    /\ cursor \in CursorRows
    /\ proc \in [Processes -> ProcRows]

CursorSound ==
    /\ cursor.coverage = Null => cursor = NewCursor
    /\ cursor.head # Null => cursor.before # Null

\* What a process read is the cursor, unless the revision has moved on; and a
\* page begins where the cursor it was read for ends.
ProcFits(r, c) ==
    /\ r.pc # "off" => r.arg # Null
    /\ r.pc \in Reading =>
          /\ c.coverage # Null
          /\ r.snap.revision <= c.revision
          /\ r.snap.revision = c.revision => r.snap = c
    /\ r.pc \in Paged =>
          /\ r.page.bottom >= 1
          /\ r.snap.before # Null => r.page.top = r.snap.before - 1

ProcsFit == \A w \in Processes : ProcFits(proc[w], cursor)

IInv == Typed /\ CursorSound /\ ProcsFit /\ NothingMissed

LEMMA Constant ==
    /\ MaxFinalized \in Nat
    /\ Boundaries \subseteq Nat \ {0}
    /\ \A size \in PageSizes : size \in Nat
<1>1. /\ MaxFinalized \in Nat
      /\ Boundaries \subseteq Positions /\ PageSizes \subseteq Nat
  BY IngestionAssumption
<1>. QED
  BY <1>1 DEF Positions

LEMMA OffRow == Off \in ProcRows /\ \A c : ProcFits(Off, c)
  BY DEF Off, ProcRows, Points, NewCursor, CursorRows, NoPage, Pages, Null,
         ProcFits, Reading, Paged

LEMMA Init0 == IngestionInit => IInv
<1>. SUFFICES ASSUME IngestionInit
              PROVE  IInv
  OBVIOUS
<1>1. finalized \in Int /\ oldest \in Int
  BY Constant DEF IngestionInit, Positions
<1>2. cursor = NewCursor /\ NewCursor \in CursorRows
  BY DEF IngestionInit, NewCursor, CursorRows, Null
<1>3. proc = [w \in Processes |-> Off]
  BY DEF IngestionInit
<1>4. Typed /\ ProcsFit
  BY <1>1, <1>2, <1>3, OffRow DEF Typed, ProcsFit
<1>5. CursorSound /\ NothingMissed
  BY <1>2 DEF CursorSound, NothingMissed, NewCursor, Null
<1>. QED
  BY <1>4, <1>5 DEF IInv

\* One process moves, or none; the cursor stays and the journal grows.
LEMMA ProcessMoves ==
    ASSUME IInv, NEW w \in Processes, NEW r \in ProcRows, ProcFits(r, cursor),
           proc' = [proc EXCEPT ![w] = r],
           UNCHANGED <<finalized, oldest, cursor, journal>>
    PROVE  IInv'
<1>. USE DEF IInv
<1>1. Typed'
  BY DEF Typed
<1>2. ProcsFit'
  BY DEF ProcsFit, Typed
<1>3. CursorSound' /\ NothingMissed'
  BY DEF CursorSound, NothingMissed
<1>. QED
  BY <1>1, <1>2, <1>3

LEMMA HistoryMoves ==
    ASSUME IInv, UNCHANGED <<cursor, proc>>, journal \subseteq journal',
           finalized' \in Int, oldest' \in Int
    PROVE  IInv'
<1>. USE DEF IInv
<1>1. Typed' /\ ProcsFit' /\ CursorSound'
  BY DEF Typed, ProcsFit, CursorSound
<1>2. NothingMissed'
  BY DEF NothingMissed
<1>. QED
  BY <1>1, <1>2

LEMMA LeaveKeeps ==
    ASSUME IInv, NEW w \in Processes, Leave(w),
           UNCHANGED <<finalized, oldest, cursor, journal>>
    PROVE  IInv'
<1>1. proc' = [proc EXCEPT ![w] = Off]
  BY DEF Leave
<1>. QED
  BY <1>1, OffRow, ProcessMoves

\* From one point to another that demands no more of the row.
LEMMA GotoKeeps ==
    ASSUME IInv, NEW w \in Processes, NEW pc \in Points, Goto(w, pc),
           proc[w].pc # "off",
           pc \in Reading => proc[w].pc \in Reading,
           pc \in Paged => proc[w].pc \in Paged,
           UNCHANGED <<finalized, oldest, cursor, journal>>
    PROVE  IInv'
<1>. DEFINE r == [proc[w] EXCEPT !.pc = pc]
<1>1. proc[w] \in ProcRows /\ ProcFits(proc[w], cursor)
  BY DEF IInv, Typed, ProcsFit
<1>2. r \in ProcRows
  BY <1>1 DEF ProcRows
<1>3. /\ r.pc = pc /\ r.snap = proc[w].snap /\ r.page = proc[w].page
      /\ r.arg = proc[w].arg
  BY <1>1 DEF ProcRows
<1>4. ProcFits(r, cursor)
  BY <1>1, <1>3 DEF ProcFits
<1>5. proc' = [proc EXCEPT ![w] = r]
  BY DEF Goto
<1>. QED
  BY <1>2, <1>4, <1>5, ProcessMoves

LEMMA StartKeeps ==
    ASSUME IInv, NEW w \in Processes, NEW mode \in {"once", "continuous"},
           NEW arg \in Boundaries, Start(w, mode, arg)
    PROVE  IInv'
<1>. DEFINE r == [Off EXCEPT !.pc = "cycle", !.mode = mode, !.arg = arg]
<1>1. /\ proc' = [proc EXCEPT ![w] = r]
      /\ UNCHANGED <<finalized, oldest, cursor, journal>>
  BY DEF Start
<1>2. arg \in Nat
  BY Constant
<1>3. r \in ProcRows /\ r.pc = "cycle" /\ r.arg = arg
  BY <1>2, OffRow DEF ProcRows, Points
<1>. HIDE DEF r
<1>4. ProcFits(r, cursor)
  BY <1>3, Constant DEF Null, ProcFits, Reading, Paged
<1>. QED
  BY <1>1, <1>3, <1>4, ProcessMoves

LEMMA BeginCycleKeeps ==
    ASSUME IInv, NEW w \in Processes, BeginCycle(w)
    PROVE  IInv'
<1>1. /\ UNCHANGED <<finalized, oldest, cursor, journal>>
      /\ proc[w].pc = "cycle"
  BY DEF BeginCycle
<1>2. CASE Goto(w, "cursor")
  BY <1>1, <1>2, GotoKeeps DEF Points, Reading, Paged
<1>3. CASE Leave(w)
  BY <1>1, <1>3, LeaveKeeps
<1>. QED
  BY <1>2, <1>3 DEF BeginCycle

LEMMA EndCycleKeeps ==
    ASSUME IInv, NEW w \in Processes, EndCycle(w)
    PROVE  IInv'
<1>. DEFINE r == [proc[w] EXCEPT !.pc = "cycle", !.snap = NewCursor,
                                 !.page = NoPage]
<1>1. /\ UNCHANGED <<finalized, oldest, cursor, journal>>
      /\ proc[w].pc = "done"
  BY DEF EndCycle
<1>2. CASE proc' = [proc EXCEPT ![w] = r]
  <2>1. /\ proc[w] \in ProcRows
        /\ proc[w].arg # Null
    BY <1>1 DEF IInv, Typed, ProcsFit, ProcFits
  <2>2. NewCursor \in CursorRows /\ NoPage \in Pages
    BY DEF NewCursor, CursorRows, NoPage, Pages, Null
  <2>3. r \in ProcRows /\ r.pc = "cycle" /\ r.arg = proc[w].arg
    BY <2>1, <2>2 DEF ProcRows, Points
  <2>. HIDE DEF r
  <2>4. ProcFits(r, cursor)
    BY <2>1, <2>3 DEF ProcFits, Reading, Paged
  <2>. QED
    BY <1>1, <1>2, <2>3, <2>4, ProcessMoves
<1>3. CASE Leave(w)
  BY <1>1, <1>3, LeaveKeeps
<1>. QED
  BY <1>2, <1>3 DEF EndCycle

----------------------------------------------------------------------------
\* The row is created once, when no process has read it.
LEMMA ReadCursorKeeps ==
    ASSUME IInv, NEW w \in Processes, ReadCursor(w)
    PROVE  IInv'
<1>. DEFINE found == IF cursor.coverage = Null
                     THEN [NewCursor EXCEPT !.coverage = proc[w].arg]
                     ELSE cursor
            r == [proc[w] EXCEPT !.pc = "page", !.snap = found]
<1>1. UNCHANGED <<finalized, oldest, journal>>
  BY DEF ReadCursor
<1>2. /\ proc[w] \in ProcRows /\ cursor \in CursorRows
      /\ proc \in [Processes -> ProcRows]
      /\ finalized \in Int /\ oldest \in Int
  BY DEF IInv, Typed
<1>3. CASE Leave(w) /\ UNCHANGED cursor
  BY <1>1, <1>3, LeaveKeeps
<1>4. CASE /\ found.coverage = proc[w].arg
           /\ cursor' = found
           /\ proc' = [proc EXCEPT ![w] = r]
  <2>1. found \in CursorRows
    BY <1>2 DEF CursorRows, NewCursor, Null, ProcRows
  <2>0. proc[w].arg # Null
    BY DEF ReadCursor, IInv, ProcsFit, ProcFits
  <2>2. /\ r \in ProcRows /\ r.pc = "page" /\ r.snap = found
        /\ r.arg # Null
    BY <2>0, <1>2, <2>1 DEF ProcRows, Points
  <2>. HIDE DEF r
  <2>3. found.revision <= found.revision
    BY <2>1 DEF CursorRows
  <2>4. CASE cursor.coverage # Null
    <3>1. found = cursor
      BY <2>4
    <3>2. ProcFits(r, cursor)
      BY <2>2, <2>3, <2>4, <3>1 DEF ProcFits, Paged
    <3>. QED
      BY <1>1, <1>4, <2>2, <3>1, <3>2, ProcessMoves
  <2>5. CASE cursor.coverage = Null /\ found.coverage # Null
    <3>1. \A v \in Processes : proc[v].pc \notin Reading
      BY <2>5 DEF IInv, ProcsFit, ProcFits
    <3>2. \A v \in Processes : proc[v].pc \notin Paged
      BY <3>1 DEF Reading, Paged
    <3>3. ProcFits(r, found)
      BY <2>2, <2>3, <2>5 DEF ProcFits, Paged
    <3>4. ProcsFit'
      <4>1. ASSUME NEW v \in Processes
            PROVE  ProcFits(proc[v], cursor)'
        <5>1. CASE v = w
          BY <1>2, <1>4, <3>3, <5>1 DEF ProcFits
        <5>2. CASE v # w
          <6>1. proc[v].pc # "off" => proc[v].arg # Null
            BY DEF IInv, ProcsFit, ProcFits
          <6>. QED
            BY <1>2, <1>4, <3>1, <3>2, <5>2, <6>1 DEF ProcFits
        <5>. QED
          BY <5>1, <5>2
      <4>. QED
        BY <4>1 DEF ProcsFit
    <3>5. Typed'
      BY <1>1, <1>2, <1>4, <2>1, <2>2 DEF Typed
    <3>6. /\ found.committed = Null /\ found.head = Null
      BY <2>5 DEF NewCursor, Null
    <3>7. CursorSound' /\ NothingMissed'
      BY <1>4, <2>5, <3>6 DEF CursorSound, NothingMissed
    <3>. QED
      BY <3>4, <3>5, <3>7 DEF IInv
  <2>6. found.coverage # Null
    <3>1. proc[w].pc = "cursor"
      BY DEF ReadCursor
    <3>2. proc[w].arg # Null
      BY <3>1 DEF IInv, ProcsFit, ProcFits
    <3>. QED
      BY <1>4, <3>2
  <2>. QED
    BY <2>4, <2>5, <2>6
<1>. QED
  BY <1>3, <1>4 DEF ReadCursor
----------------------------------------------------------------------------
\* A page found for a cursor.
LEMMA DiscoveredFits ==
    ASSUME NEW c \in CursorRows,
           NEW newest \in Int, NEW size \in Nat, oldest \in Int
    PROVE  LET page == Discovered(c, newest, size)
           IN  /\ page \in Pages /\ page.bottom >= 1
               /\ c.before # Null => page.top = c.before - 1
<1>. DEFINE bottom == Bottom(c, newest, size)
            page == Discovered(c, newest, size)
<1>1. /\ c.coverage \in Nat /\ c.committed \in Int /\ c.before \in Nat
  BY DEF CursorRows
<1>2. Top(c, newest) \in Int
  BY <1>1 DEF Top
<1>3. bottom \in Int /\ bottom >= 1
  BY <1>2 DEF Bottom, Greatest
<1>4. Target(c) \in Int
  BY <1>1 DEF Target
<1>. HIDE DEF bottom
<1>5. /\ page.top = Top(c, newest)
      /\ page.bottom \in Int /\ page.bottom >= 1
      /\ page \in Pages
  BY <1>2, <1>3, <1>4 DEF Discovered, Pages, bottom
<1>6. c.before # Null => page.top = c.before - 1
  BY <1>5 DEF Top
<1>. QED
  BY <1>5, <1>6

LEMMA ReadPageKeeps ==
    ASSUME IInv, NEW w \in Processes, ReadPage(w)
    PROVE  IInv'
<1>1. /\ UNCHANGED <<finalized, oldest, cursor, journal>>
      /\ proc[w].pc = "page"
  BY DEF ReadPage
<1>2. CASE Leave(w)
  BY <1>1, <1>2, LeaveKeeps
<1>3. ASSUME NEW newest \in 0 .. finalized, NEW size \in PageSizes,
             proc' = [proc EXCEPT ![w] =
                        [@ EXCEPT !.pc = "receipts",
                              !.page = Discovered(proc[w].snap, newest, size)]]
      PROVE  IInv'
  <2>. DEFINE page == Discovered(proc[w].snap, newest, size)
              r == [proc[w] EXCEPT !.pc = "receipts", !.page = page]
  <2>1. /\ proc[w] \in ProcRows /\ ProcFits(proc[w], cursor)
        /\ oldest \in Int /\ finalized \in Int
        /\ cursor \in CursorRows
    BY DEF IInv, Typed, ProcsFit
  <2>2. /\ proc[w].arg # Null
        /\ cursor.coverage # Null
        /\ proc[w].snap.revision <= cursor.revision
        /\ proc[w].snap.revision = cursor.revision => proc[w].snap = cursor
    BY <1>1, <2>1 DEF ProcFits, Reading
  <2>3. proc[w].snap \in CursorRows
    BY <2>1 DEF ProcRows
  <2>4. newest \in Int /\ size \in Nat
    BY <2>1, Constant
  <2>5. /\ page \in Pages /\ page.bottom >= 1
        /\ proc[w].snap.before # Null => page.top = proc[w].snap.before - 1
    BY <2>1, <2>3, <2>4, DiscoveredFits
  <2>. HIDE DEF page
  <2>6. /\ r \in ProcRows /\ r.pc = "receipts" /\ r.snap = proc[w].snap
        /\ r.page = page /\ r.arg = proc[w].arg
    BY <2>1, <2>5 DEF ProcRows, Points
  <2>7. proc' = [proc EXCEPT ![w] = r]
    BY <1>3 DEF page
  <2>. HIDE DEF r
  <2>8. ProcFits(r, cursor)
    BY <2>2, <2>5, <2>6 DEF ProcFits
  <2>. QED
    BY <1>1, <2>6, <2>7, <2>8, ProcessMoves
<1>. QED
  BY <1>2, <1>3 DEF ReadPage

LEMMA ReadReceiptsKeeps ==
    ASSUME IInv, NEW w \in Processes, ReadReceipts(w)
    PROVE  IInv'
<1>1. /\ UNCHANGED <<finalized, oldest, cursor, journal>>
      /\ proc[w].pc = "receipts"
  BY DEF ReadReceipts
<1>2. CASE Goto(w, "commit")
  BY <1>1, <1>2, GotoKeeps DEF Points, Reading, Paged
<1>3. CASE Leave(w)
  BY <1>1, <1>3, LeaveKeeps
<1>. QED
  BY <1>2, <1>3 DEF ReadReceipts

----------------------------------------------------------------------------
\* The page continues the scan of the cursor it is committed to: it begins at
\* the scan's head or right below what the scan has passed, so that with it
\* everything from its bottom up to the head is journaled.
LEMMA PageContinues ==
    ASSUME IInv, NEW page \in Pages, NEW head,
           cursor.head # Null => cursor.head = head,
           cursor.head = Null => page.top = head,
           cursor.before # Null => page.top = cursor.before - 1
    PROVE  page.bottom .. head \subseteq
               journal \union (page.bottom .. page.top)
<1>1. page.bottom \in Int /\ page.top \in Int
  BY DEF Pages
<1>2. cursor.before \in Nat /\ cursor.head \in Int
  BY DEF IInv, Typed, CursorRows
<1>3. cursor.head # Null =>
         /\ cursor.before # Null
         /\ cursor.before .. cursor.head \subseteq journal
  BY DEF IInv, CursorSound, NothingMissed
<1>4. CASE cursor.head = Null
  BY <1>4
<1>5. CASE cursor.head # Null
  <2>1. ASSUME NEW p \in page.bottom .. cursor.head, p > page.top
        PROVE  p \in journal
    <3>1. p \in cursor.before .. cursor.head
      BY <1>1, <1>2, <1>3, <1>5, <2>1
    <3>. QED
      BY <1>3, <1>5, <3>1
  <2>. QED
    BY <1>1, <1>2, <1>5, <2>1
<1>. QED
  BY <1>4, <1>5

LEMMA CommitKeepsCoverage ==
    ASSUME IInv, NEW page \in Pages, NEW head \in Int,
           page.bottom >= 1,
           cursor.head # Null => cursor.head = head,
           cursor.head = Null => page.top = head,
           cursor.before # Null => page.top = cursor.before - 1,
           IF page.reached THEN page.bottom = Target(cursor)
                           ELSE Target(cursor) \notin page.bottom .. page.top,
           head = ScanHead(cursor, page),
           cursor' = Advanced(cursor, page),
           journal' = journal \union (page.bottom .. page.top)
    PROVE  NothingMissed'
<1>1. /\ page.bottom \in Int /\ page.top \in Int
      /\ cursor \in CursorRows
  BY DEF Pages, IInv, Typed
<1>2. /\ cursor.before \in Nat /\ cursor.head \in Int
      /\ cursor.committed \in Int /\ cursor.coverage \in Nat
  BY <1>1 DEF CursorRows
<1>3. page.bottom .. head \subseteq journal'
  BY PageContinues
<1>4. /\ cursor.committed # Null =>
            cursor.coverage .. cursor.committed \subseteq journal
      /\ cursor.head # Null => cursor.before # Null
      /\ cursor.head # Null /\ cursor.head > cursor.committed =>
            cursor.before > cursor.committed
  BY DEF IInv, NothingMissed, CursorSound
<1>5. CASE page.reached
  <2>1. /\ cursor'.coverage = cursor.coverage
        /\ cursor'.committed = head
        /\ cursor'.head = Null
    BY <1>1, <1>5 DEF Advanced, CursorRows
  <2>2. page.bottom = Target(cursor)
    BY <1>5
  <2>3. ASSUME NEW p \in cursor.coverage .. head
        PROVE  p \in journal'
    <3>1. CASE p >= page.bottom
      <4>1. p \in page.bottom .. head
        BY <1>1, <1>2, <3>1
      <4>. QED
        BY <1>3, <4>1
    <3>2. CASE p < page.bottom
      <4>1. /\ cursor.committed # Null /\ page.bottom = cursor.committed
        BY <1>2, <2>2, <3>2 DEF Target
      <4>2. p \in cursor.coverage .. cursor.committed
        BY <1>2, <3>2, <4>1
      <4>. QED
        BY <1>4, <4>1, <4>2
    <3>. QED
      BY <1>1, <1>2, <3>1, <3>2
  <2>. QED
    BY <2>1, <2>3 DEF NothingMissed
<1>6. CASE ~page.reached
  <2>1. /\ cursor'.coverage = cursor.coverage
        /\ cursor'.committed = cursor.committed
        /\ cursor'.head = head
        /\ cursor'.before = page.bottom
    BY <1>1, <1>6 DEF Advanced, CursorRows
  <2>2. ASSUME head > cursor.committed
        PROVE  page.bottom > cursor.committed
    <3>1. cursor.committed # Null =>
             cursor.committed \notin page.bottom .. page.top
      BY <1>6 DEF Target
    <3>2. SUFFICES ASSUME page.bottom <= cursor.committed
                   PROVE  FALSE
      BY <1>1, <1>2
    <3>3. page.top < cursor.committed
      BY <1>1, <1>2, <3>1, <3>2 DEF Null
    <3>4. cursor.head # Null
      BY <1>1, <1>2, <2>2, <3>3
    <3>5. cursor.before > cursor.committed /\ page.top = cursor.before - 1
      BY <1>4, <2>2, <3>4
    <3>. QED
      BY <1>1, <1>2, <3>3, <3>5
  <2>. QED
    BY <1>3, <1>4, <2>1, <2>2 DEF NothingMissed
<1>. QED
  BY <1>5, <1>6
LEMMA CommitKeeps ==
    ASSUME IInv, NEW w \in Processes, Commit(w)
    PROVE  IInv'
<1>. DEFINE c == proc[w].snap
            page == proc[w].page
            head == ScanHead(c, page)
<1>1. /\ UNCHANGED <<finalized, oldest>>
      /\ proc[w].pc = "commit"
  BY DEF Commit
<1>2. CASE Goto(w, "done") /\ UNCHANGED <<cursor, journal>>
  BY <1>1, <1>2, GotoKeeps DEF Points, Reading, Paged
<1>3. CASE Leave(w) /\ UNCHANGED <<cursor, journal>>
  BY <1>1, <1>3, LeaveKeeps
<1>4. CASE /\ Unchanged(c) /\ Acceptable(page, head)
           /\ journal' = journal \union (page.bottom .. page.top)
           /\ cursor' = Advanced(cursor, page)
           /\ Goto(w, "done")
  <2>1. /\ proc[w] \in ProcRows /\ ProcFits(proc[w], cursor)
        /\ cursor \in CursorRows /\ proc \in [Processes -> ProcRows]
        /\ finalized \in Int /\ oldest \in Int
    BY DEF IInv, Typed, ProcsFit
  <2>2. /\ c = cursor /\ cursor.coverage # Null
        /\ page.bottom >= 1
        /\ c.before # Null => page.top = c.before - 1
    BY <1>1, <1>4, <2>1 DEF ProcFits, Reading, Paged, Unchanged
  <2>3. page \in Pages /\ page.bottom \in Int /\ page.top \in Int
    BY <2>1 DEF ProcRows, Pages
  <2>4. cursor.head \in Int /\ cursor.committed \in Int
        /\ cursor.coverage \in Nat /\ cursor.revision \in Nat
        /\ cursor.before \in Nat
    BY <2>1 DEF CursorRows
  <2>5. head \in Int /\ head = ScanHead(cursor, page)
    BY <2>2, <2>3, <2>4 DEF ScanHead
  <2>. HIDE DEF c, page, head
  <2>6. /\ cursor.head # Null => cursor.head = head
        /\ cursor.head = Null => page.top = head
        /\ IF page.reached THEN page.bottom = Target(cursor)
             ELSE Target(cursor) \notin page.bottom .. page.top
    BY <1>4 DEF Acceptable
  <2>7. NothingMissed'
    BY <1>4, <2>2, <2>3, <2>5, <2>6, CommitKeepsCoverage
  <2>8. /\ cursor'.revision = cursor.revision + 1
        /\ cursor'.coverage = cursor.coverage
        /\ cursor'.head # Null => cursor'.before = page.bottom
    BY <1>4, <2>1 DEF Advanced, CursorRows
  <2>10. cursor' \in CursorRows
    <3>. DEFINE committed == IF page.reached THEN head ELSE cursor.committed
                scan == IF page.reached THEN Null ELSE head
                before == IF page.reached THEN Null ELSE page.bottom
                next == cursor.revision + 1
    <3>1. page.bottom \in Nat
      BY <2>2, <2>3
    <3>2. /\ committed \in Int /\ scan \in Int /\ before \in Nat
          /\ next \in Nat
      BY <2>4, <2>5, <3>1 DEF Null
    <3>3. cursor' = [cursor EXCEPT !.revision = next, !.committed = committed,
                                   !.head = scan, !.before = before]
      BY <1>4, <2>5 DEF Advanced
    <3>. HIDE DEF committed, scan, before, next
    <3>. QED
      BY <2>1, <3>2, <3>3 DEF CursorRows
  <2>11. CursorSound'
    BY <2>2, <2>3, <2>8 DEF CursorSound, Null
  <2>12. Typed'
    <3>1. [proc[w] EXCEPT !.pc = "done"] \in ProcRows
      BY <2>1 DEF ProcRows, Points
    <3>2. proc' = [proc EXCEPT ![w] = [proc[w] EXCEPT !.pc = "done"]]
      BY <1>4 DEF Goto
    <3>. QED
      BY <1>1, <2>1, <2>10, <3>1, <3>2 DEF Typed
  <2>13. ProcsFit'
    <3>1. ASSUME NEW v \in Processes
          PROVE  ProcFits(proc[v], cursor)'
      <4>1. ProcFits(proc[v], cursor) /\ proc[v] \in ProcRows
        BY <2>1 DEF IInv, ProcsFit
      <4>2. CASE v = w
        <5>1. /\ proc'[v].pc = "done" /\ proc'[v].arg = proc[v].arg
          BY <1>4, <2>1, <4>2 DEF Goto, ProcRows
        <5>. QED
          BY <1>1, <4>1, <4>2, <5>1 DEF ProcFits, Reading, Paged
      <4>3. CASE v # w
        <5>1. proc'[v] = proc[v]
          BY <1>4, <2>1, <4>3 DEF Goto
        <5>2. proc[v].snap.revision \in Nat
          BY <4>1 DEF ProcRows, CursorRows
        <5>. QED
          BY <2>4, <2>8, <4>1, <5>1, <5>2 DEF ProcFits
      <4>. QED
        BY <4>2, <4>3
    <3>. QED
      BY <3>1 DEF ProcsFit
  <2>. QED
    BY <2>7, <2>11, <2>12, <2>13 DEF IInv
<1>. QED
  BY <1>2, <1>3, <1>4 DEF Commit

----------------------------------------------------------------------------
\* Only a cursor that covers nothing is rotated, and its revision moves, so
\* that no page found for the old boundary fits it any more.
LEMMA RotateKeeps ==
    ASSUME IInv, NEW boundary \in Boundaries, Rotate(boundary)
    PROVE  IInv'
<1>1. /\ UNCHANGED <<finalized, oldest, proc, journal>>
      /\ cursor.coverage # Null
      /\ cursor.committed = Null /\ cursor.head = Null
      /\ cursor' = [cursor EXCEPT !.coverage = boundary, !.revision = @ + 1]
  BY DEF Rotate
<1>2. /\ cursor \in CursorRows /\ proc \in [Processes -> ProcRows]
      /\ finalized \in Int /\ oldest \in Int
      /\ boundary \in Nat /\ boundary # 0
  BY Constant DEF IInv, Typed
<1>3. /\ cursor' \in CursorRows
      /\ cursor'.coverage = boundary
      /\ cursor'.committed = Null /\ cursor'.head = Null
      /\ cursor'.revision = cursor.revision + 1
      /\ cursor.revision \in Nat
  <2>. DEFINE next == cursor.revision + 1
  <2>1. cursor.revision \in Nat /\ next \in Nat
    BY <1>2 DEF CursorRows
  <2>2. cursor' = [cursor EXCEPT !.coverage = boundary, !.revision = next]
    BY <1>1
  <2>3. next = cursor.revision + 1
    OBVIOUS
  <2>. HIDE DEF next
  <2>. QED
    BY <1>1, <1>2, <2>1, <2>2, <2>3 DEF CursorRows
<1>4. Typed'
  BY <1>1, <1>2, <1>3 DEF Typed
<1>5. CursorSound' /\ NothingMissed'
  BY <1>2, <1>3 DEF CursorSound, NothingMissed, Null
<1>6. ASSUME NEW v \in Processes
      PROVE  ProcFits(proc[v], cursor)'
  <2>1. ProcFits(proc[v], cursor) /\ proc'[v] = proc[v]
    BY <1>1 DEF IInv, ProcsFit
  <2>2. proc[v].snap.revision \in Nat
    BY <1>2 DEF ProcRows, CursorRows
  <2>. QED
    BY <1>2, <1>3, <2>1, <2>2 DEF ProcFits, Null
<1>7. ProcsFit'
  BY <1>6 DEF ProcsFit
<1>. QED
  BY <1>4, <1>5, <1>7 DEF IInv

LEMMA NextKeepsIInv == IInv /\ [IngestionNext]_ingestionVars => IInv'
<1>. SUFFICES ASSUME IInv, [IngestionNext]_ingestionVars
              PROVE  IInv'
  OBVIOUS
<1>1. finalized \in Int /\ oldest \in Int
  BY DEF IInv, Typed
<1>2. ASSUME NEW w \in Processes, NEW mode \in {"once", "continuous"},
             NEW arg \in Boundaries, Start(w, mode, arg)
      PROVE  IInv'
  BY <1>2, StartKeeps
<1>3. ASSUME NEW w \in Processes, Work(w)
      PROVE  IInv'
  BY <1>3, BeginCycleKeeps, ReadCursorKeeps, ReadPageKeeps,
     ReadReceiptsKeeps, CommitKeeps, EndCycleKeeps DEF Work
<1>4. ASSUME NEW w \in Processes, Abort(w) \/ ProcessDies(w)
      PROVE  IInv'
  <2>1. CASE Abort(w)
    BY <2>1, LeaveKeeps DEF Abort
  <2>2. CASE ProcessDies(w)
    <3>1. /\ proc' = [proc EXCEPT ![w] = Off]
          /\ UNCHANGED <<finalized, oldest, cursor, journal>>
      BY <2>2 DEF ProcessDies
    <3>. QED
      BY <3>1, OffRow, ProcessMoves
  <2>. QED
    BY <1>4, <2>1, <2>2
<1>5. ASSUME NEW p \in Positions, JournalOne(p)
      PROVE  IInv'
  <2>1. /\ UNCHANGED <<cursor, proc, finalized, oldest>>
        /\ journal \subseteq journal'
    BY <1>5 DEF JournalOne
  <2>. QED
    BY <1>1, <2>1, HistoryMoves
<1>6. ASSUME NEW boundary \in Boundaries, Rotate(boundary)
      PROVE  IInv'
  BY <1>6, RotateKeeps
<1>7. CASE GoStale \/ FinalizeOne \/ Prune \/ UNCHANGED ingestionVars
  <2>1. /\ UNCHANGED <<cursor, proc, journal>>
        /\ finalized' \in Int /\ oldest' \in Int
    BY <1>1, <1>7 DEF GoStale, FinalizeOne, Prune, ingestionVars
  <2>. QED
    BY <2>1, HistoryMoves
<1>. QED
  BY <1>2, <1>3, <1>4, <1>5, <1>6, <1>7 DEF IngestionNext

THEOREM IInvAlways == IngestionSpec => []IInv
<1>. QED
  BY Init0, NextKeepsIInv, PTL DEF IngestionSpec

\* However processes interleave, crash and overtake each other, however far
\* the nodes they read from lag, and whenever a boundary is rotated, coverage
\* has no hole.
THEOREM NothingMissedAlways == IngestionSpec => []NothingMissed
<1>1. IInv => NothingMissed
  BY DEF IInv
<1>. QED
  BY <1>1, IInvAlways, PTL

=============================================================================
