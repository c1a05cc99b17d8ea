------------------------------ MODULE Ingestion ------------------------------
(***************************************************************************)
(* The finalized-event indexer (solana/ingestion-worker.ts,                *)
(* ingestion-cursor.ts, signature-page.ts, event-journal.ts,               *)
(* coverage-rotation.ts, indexer-health.ts, scripts/solana-indexer.ts).    *)
(* Finalized signatures of the program are the positions 1, 2, ... of a    *)
(* growing history.  A process walks it backward in pages, from a head it  *)
(* freezes down to the boundary of what is covered, and journals each page *)
(* in one transaction that compares and swaps the cursor.  Processes run   *)
(* side by side, stop anywhere, and read from nodes that lag; old history  *)
(* is pruned.                                                              *)
(***************************************************************************)
EXTENDS Integers

CONSTANTS Processes,
          Boundaries,     \* coverage boundaries an operator may name
          PageSizes,      \* --page-size
          MaxFinalized,   \* bound: length of the history
          MaxUpsets       \* bound: upsets and operator interventions

Positions == 1 .. MaxFinalized

ASSUME IngestionAssumption ==
    /\ MaxFinalized \in Nat \ {0} /\ MaxUpsets \in Nat
    /\ Boundaries \subseteq Positions
    /\ PageSizes \subseteq Nat \ {0}

VARIABLES finalized,   \* the newest finalized position
          oldest,      \* the oldest one nodes still keep
          cursor,      \* SolanaIngestionCursor
          journal,     \* positions with a SolanaTransactionReceipt
          visits,      \* SolanaIngestionVisit: <<scan head, position>>
          lease,       \* WorkerState of the continuous indexer
          proc,        \* what each process is doing
          upsets

ingestionVars ==
    <<finalized, oldest, cursor, journal, visits, lease, proc, upsets>>

Null == 0
NoOwner == "nobody"

\* coverage = Null: the row does not exist yet.  backfillComplete is set with
\* the first committed head and never separately.
NewCursor == [coverage |-> Null, committed |-> Null, head |-> Null,
              before |-> Null, revision |-> 0]

NoPage == [top |-> Null, bottom |-> Null, reached |-> FALSE]

\* arg: the --coverage-start it was given; snap: the cursor it read; page:
\* the page it found, newest position first.
Off == [pc |-> "off", mode |-> "once", arg |-> Null, snap |-> NewCursor,
        page |-> NoPage]

IngestionInit ==
    /\ finalized \in Positions /\ oldest = 1
    /\ cursor = NewCursor
    /\ journal = {} /\ visits = {}
    /\ lease = [owner |-> NoOwner, running |-> FALSE, fresh |-> FALSE]
    /\ proc = [w \in Processes |-> Off]
    /\ upsets = 0

Goto(w, pc) == proc' = [proc EXCEPT ![w].pc = pc]

Upset == upsets < MaxUpsets /\ upsets' = upsets + 1

----------------------------------------------------------------------------
\* scripts/solana-indexer.ts and the lease of indexer-health.ts.

\* Mutant: a stale row is not claimed.
Mutant_CanClaim == ~lease.running

\* registerContinuousSolanaIndexer: a stopped or stale row may be claimed.
CanClaim == ~lease.running \/ ~lease.fresh

\* A process starts, for one page or to keep going.  To name a boundary that
\* is not the cursor's is a fault of the operator.
Start(w, mode, arg) ==
    /\ proc[w].pc = "off"
    /\ IF cursor.coverage \in {Null, arg} THEN UNCHANGED upsets ELSE Upset
    /\ IF mode = "continuous"
       THEN /\ CanClaim
            /\ lease' = [owner |-> w, running |-> TRUE, fresh |-> TRUE]
       ELSE UNCHANGED lease
    /\ proc' = [proc EXCEPT ![w] =
                    [Off EXCEPT !.pc = "cycle", !.mode = mode, !.arg = arg]]
    /\ UNCHANGED <<finalized, oldest, cursor, journal, visits>>

\* requireOwnership: the update that also beats the heart.
Owns(w) == lease.owner = w /\ lease.running

\* stopContinuousSolanaIndexer in the finally block, then the process ends.
Leave(w) ==
    /\ proc' = [proc EXCEPT ![w] = Off]
    /\ lease' = IF Owns(w) THEN [lease EXCEPT !.running = FALSE, !.fresh = TRUE]
                           ELSE lease

\* beginContinuousSolanaIndexerCycle; without ownership the process ends.
BeginCycle(w) ==
    /\ proc[w].pc = "cycle"
    /\ \/ /\ proc[w].mode = "once"
          /\ Goto(w, "cursor") /\ UNCHANGED lease
       \/ /\ proc[w].mode = "continuous" /\ Owns(w)
          /\ Goto(w, "cursor") /\ lease' = [lease EXCEPT !.fresh = TRUE]
       \/ /\ proc[w].mode = "continuous" /\ ~Owns(w)
          /\ Leave(w)
    /\ UNCHANGED <<finalized, oldest, cursor, journal, visits, upsets>>

\* succeedContinuousSolanaIndexerCycle, and around again.
EndCycle(w) ==
    /\ proc[w].pc = "done"
    /\ IF proc[w].mode = "continuous" /\ Owns(w)
       THEN /\ proc' = [proc EXCEPT ![w] =
                            [@ EXCEPT !.pc = "cycle", !.snap = NewCursor,
                                      !.page = NoPage]]
            /\ lease' = [lease EXCEPT !.fresh = TRUE]
       ELSE Leave(w)
    /\ UNCHANGED <<finalized, oldest, cursor, journal, visits, upsets>>

----------------------------------------------------------------------------
\* ingestFinalizedProgramPage

\* initializeIngestionCursor: creates the row, or refuses another boundary.
ReadCursor(w) ==
    /\ proc[w].pc = "cursor"
    /\ LET found == IF cursor.coverage = Null
                    THEN [NewCursor EXCEPT !.coverage = proc[w].arg]
                    ELSE cursor
       IN  IF found.coverage = proc[w].arg
           THEN /\ cursor' = found
                /\ proc' = [proc EXCEPT ![w] = [@ EXCEPT !.pc = "page",
                                                         !.snap = found]]
                /\ UNCHANGED lease
           ELSE Leave(w) /\ UNCHANGED cursor
    /\ UNCHANGED <<finalized, oldest, journal, visits, upsets>>

\* The scan goes down to the last committed head, which it reads again, or
\* at first to the coverage boundary.
Target(c) == IF c.committed # Null THEN c.committed ELSE c.coverage

Greatest(a, b) == IF a > b THEN a ELSE b

\* readFinalizedSignaturePage from a node that knows the history up to
\* newest: the signatures older than the cursor, at most size of them, cut
\* off below the target.  A short page without the target is a gap.
Top(c, newest) == IF c.before = Null THEN newest ELSE c.before - 1

Bottom(c, newest, size) ==
    Greatest(Greatest(Top(c, newest) - size + 1, oldest), 1)

Discovered(c, newest, size) ==
    LET top    == Top(c, newest)
        bottom == Bottom(c, newest, size)
        found  == bottom <= Target(c) /\ Target(c) <= top
    IN  [top     |-> top,
         bottom  |-> IF found THEN Target(c) ELSE bottom,
         reached |-> found]

HistoryGap(c, newest, size) ==
    LET top == Top(c, newest) IN
    \/ top < oldest \/ c.before > newest \/ c.before = Target(c)
    \/ /\ ~Discovered(c, newest, size).reached
       /\ top - Bottom(c, newest, size) + 1 < size

ReadPage(w) ==
    /\ proc[w].pc = "page"
    /\ \E newest \in 0 .. finalized, size \in PageSizes :
          /\ IF newest = finalized THEN UNCHANGED upsets ELSE Upset
          /\ IF HistoryGap(proc[w].snap, newest, size)
             THEN Leave(w)
             ELSE /\ proc' = [proc EXCEPT ![w] =
                        [@ EXCEPT !.pc = "receipts",
                              !.page = Discovered(proc[w].snap, newest, size)]]
                  /\ UNCHANGED lease
    /\ UNCHANGED <<finalized, oldest, cursor, journal, visits>>

\* Nothing new since the head was committed: no receipt is read.
NoWork(c, page) ==
    /\ c.committed # Null /\ c.head = Null
    /\ page.reached /\ page.top = page.bottom

\* Every receipt of the page, or the process ends.
ReadReceipts(w) ==
    /\ proc[w].pc = "receipts"
    /\ IF \/ NoWork(proc[w].snap, proc[w].page)
          \/ proc[w].page.bottom >= oldest
       THEN Goto(w, "commit") /\ UNCHANGED lease
       ELSE Leave(w)
    /\ UNCHANGED <<finalized, oldest, cursor, journal, visits, upsets>>

\* The compare of the compare-and-swap.
Unchanged(c) == cursor.revision = c.revision /\ cursor.before = c.before

ScanHead(c, page) == IF c.head # Null THEN c.head ELSE page.top

\* Mutant: the head is committed with the first page of the scan.
Mutant_Advanced(c, page) ==
    [c EXCEPT !.revision  = @ + 1,
              !.committed = ScanHead(c, page),
              !.head      = IF page.reached THEN Null ELSE ScanHead(c, page),
              !.before    = IF page.reached THEN Null ELSE page.bottom]

\* The cursor after a page.
Advanced(c, page) ==
    [c EXCEPT !.revision  = @ + 1,
              !.committed = IF page.reached THEN ScanHead(c, page) ELSE @,
              !.head      = IF page.reached THEN Null ELSE ScanHead(c, page),
              !.before    = IF page.reached THEN Null ELSE page.bottom]

\* What commitVerifiedIngestionPage demands of a page that is not idle.
Acceptable(page, scanHead) ==
    LET seen == page.bottom .. page.top IN
    /\ cursor.head # Null => cursor.head = scanHead /\ scanHead \notin seen
    /\ cursor.head = Null => page.top = scanHead
    /\ IF page.reached THEN page.bottom = Target(cursor)
                       ELSE Target(cursor) \notin seen
    /\ cursor.before # Null => page.top < cursor.before
    /\ \A p \in seen : <<scanHead, p>> \notin visits

\* commitVerifiedIngestionPage, one transaction.
Commit(w) ==
    LET c        == proc[w].snap
        page     == proc[w].page
        scanHead == ScanHead(c, page)
        seen     == page.bottom .. page.top
    IN  /\ proc[w].pc = "commit"
        /\ \/ /\ Unchanged(c) /\ NoWork(c, page)
              /\ Goto(w, "done")
              /\ UNCHANGED <<cursor, journal, visits, lease>>
           \/ /\ Unchanged(c) /\ ~NoWork(c, page) /\ Acceptable(page, scanHead)
              /\ journal' = journal \union seen
              /\ visits' = visits \union {<<scanHead, p>> : p \in seen}
              /\ cursor' = Advanced(cursor, page)
              /\ Goto(w, "done")
              /\ UNCHANGED lease
           \/ /\ ~(/\ Unchanged(c)
                   /\ NoWork(c, page) \/ Acceptable(page, scanHead))
              /\ Leave(w)
              /\ UNCHANGED <<cursor, journal, visits>>
        /\ UNCHANGED <<finalized, oldest, upsets>>

----------------------------------------------------------------------------
\* A failure the process notices, or a stop signal: nothing is committed and
\* the lease is released.
Abort(w) ==
    /\ proc[w].pc # "off" /\ Upset
    /\ Leave(w)
    /\ UNCHANGED <<finalized, oldest, cursor, journal, visits>>

\* A crash: the row keeps saying RUNNING, of an instance that is gone.
ProcessDies(w) ==
    /\ proc[w].pc # "off" /\ Upset
    /\ proc' = [proc EXCEPT ![w] = Off]
    /\ lease' = IF lease.owner = w
                 THEN [lease EXCEPT !.owner = NoOwner] ELSE lease
    /\ UNCHANGED <<finalized, oldest, cursor, journal, visits>>

\* No heartbeat for SOLANA_INDEXER_STALE_AFTER_MS: the owner is gone, or slow.
GoStale ==
    /\ lease.running /\ lease.fresh
    /\ lease' = [lease EXCEPT !.fresh = FALSE]
    /\ IF lease.owner = NoOwner THEN UNCHANGED upsets ELSE Upset
    /\ UNCHANGED <<finalized, oldest, cursor, journal, visits, proc>>

\* ingestFinalizedProgramTransaction: one receipt on its own.
JournalOne(p) ==
    /\ p \in oldest .. finalized /\ p \notin journal
    /\ Upset
    /\ journal' = journal \union {p}
    /\ UNCHANGED <<finalized, oldest, cursor, visits, lease, proc>>

\* rotateCoverageBoundary: only before anything is covered, and only while no
\* continuous indexer runs.  Processes for one page have no lease to see.
Rotate(boundary) ==
    /\ cursor.coverage # Null /\ cursor.coverage # boundary
    /\ ~lease.running
    /\ cursor.committed = Null /\ cursor.head = Null
    /\ journal = {} /\ visits = {}
    /\ boundary \in oldest .. finalized
    /\ Upset
    /\ cursor' = [cursor EXCEPT !.coverage = boundary, !.revision = @ + 1]
    /\ UNCHANGED <<finalized, oldest, journal, visits, lease, proc>>

FinalizeOne ==
    /\ finalized < MaxFinalized /\ finalized' = finalized + 1
    /\ UNCHANGED <<oldest, cursor, journal, visits, lease, proc, upsets>>

\* Nodes keep a rolling window of history.
Prune ==
    /\ oldest < finalized /\ oldest' = oldest + 1
    /\ Upset
    /\ UNCHANGED <<finalized, cursor, journal, visits, lease, proc>>

Work(w) ==
    \/ BeginCycle(w) \/ ReadCursor(w) \/ ReadPage(w) \/ ReadReceipts(w)
    \/ Commit(w) \/ EndCycle(w)

IngestionNext ==
    \/ \E w \in Processes : \/ \E mode \in {"once", "continuous"},
                                  arg \in Boundaries : Start(w, mode, arg)
                            \/ Work(w) \/ Abort(w) \/ ProcessDies(w)
    \/ \E p \in Positions : JournalOne(p)
    \/ \E boundary \in Boundaries : Rotate(boundary)
    \/ GoStale \/ FinalizeOne \/ Prune

\* A process that runs keeps running; a supervisor starts the continuous
\* indexer again, with the boundary of the cursor; and time passes.
Restart(w) ==
    \E arg \in Boundaries : /\ cursor.coverage \in {Null, arg}
                            /\ Start(w, "continuous", arg)

IngestionSpec ==
    /\ IngestionInit /\ [][IngestionNext]_ingestionVars
    /\ \A w \in Processes : /\ WF_ingestionVars(Work(w))
                            /\ WF_ingestionVars(Restart(w))
    /\ WF_ingestionVars(lease.owner = NoOwner /\ GoStale)

----------------------------------------------------------------------------
\* Coverage has no hole: every signature from the boundary to the committed
\* head is in the journal, and so is every one the current scan has passed.
\* Heads that appear while a scan runs, pages of other processes, crashes,
\* lagging nodes and a rotated boundary do not open one ("without skipping
\* unverified history", scripts/solana-indexer.ts).
NothingMissed ==
    /\ cursor.committed # Null =>
          cursor.coverage .. cursor.committed \subseteq journal
    /\ cursor.head # Null =>
          /\ cursor.before .. cursor.head \subseteq journal
          /\ cursor.head > cursor.committed => cursor.before > cursor.committed

\* A scan can end: nodes still keep its target, and it did not start below
\* what is committed, at the head of a node that lagged behind it.
ScanCanEnd ==
    cursor.coverage # Null =>
        /\ oldest <= Target(cursor) /\ Target(cursor) <= finalized
        /\ cursor.head # Null => cursor.head >= Target(cursor)

\* As long as scans can end, every finalized signature is covered in the end,
\* whoever crashes, loses the lease or is overtaken.
CaughtUp ==
    []ScanCanEnd =>
        \A p \in Positions : (finalized >= p) ~>
            (cursor.committed >= p \/ cursor.coverage > p)
=============================================================================
