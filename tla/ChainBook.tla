------------------------------ MODULE ChainBook ------------------------------
(* The order book the on-chain program keeps in one account of fixed size:     *)
(* matching.rs (`runtime`, the path the program runs) and the arithmetic its    *)
(* reserves rest on.  An order lives in a slot; each side is a binary heap of   *)
(* slot numbers, the free slots a list.  A plan is computed on a copy and the   *)
(* account is overwritten only when nothing in it failed, so an operator here   *)
(* returns the book after, or a fault with the book as it was.                  *)
(*                                                                              *)
(* A book is a record: slots, heap[Bid] and heap[Ask] (sequences of slot        *)
(* numbers, the best order first), free (the free list), next (the sequence     *)
(* number of the next order), payout and feeBps.  Slots count from 1, so the    *)
(* children of a heap position h are 2h and 2h + 1.                             *)
EXTENDS Integers, Sequences, FiniteSetsExt

NoExpiry == 0
Vacant == [id |-> 0]
Zero == [cash |-> 0, yes |-> 0, no |-> 0]

------------------------------------------------------------------------------
\* Prices and reserves.

\* A NO order at p is a YES order of the other direction at payout - p.
Side(o) == IF o.outcome = "YES" <=> o.action = "BUY" THEN "Bid" ELSE "Ask"
Opposite(side) == IF side = "Bid" THEN "Ask" ELSE "Bid"
CanonicalPrice(o, payout) == IF o.outcome = "YES" THEN o.price ELSE payout - o.price

\* Fees are in basis points, and rounded up.
FeeBasis == 10000
CumulativeFee(notional, bps) == (notional * bps + (FeeBasis - 1)) \div FeeBasis
FeeDelta(previous, fill, bps) ==
  CumulativeFee(previous + fill, bps) - CumulativeFee(previous, bps)

\* What an order of this remaining quantity keeps locked in its owner's seat.
Reserve(o, bps) ==
  LET principal == o.price * o.remaining
  IN [cash |-> IF o.action = "BUY"
               THEN principal + FeeDelta(o.notional, principal, bps) ELSE 0,
      yes  |-> IF o.action = "SELL" /\ o.outcome = "YES" THEN o.remaining ELSE 0,
      no   |-> IF o.action = "SELL" /\ o.outcome = "NO" THEN o.remaining ELSE 0]

\* The cash one side of a fill pays or receives, at the maker's YES price.
Principal(outcome, yesPrice, quantity, payout) ==
  quantity * (IF outcome = "YES" THEN yesPrice ELSE payout - yesPrice)

\* Mutant: the maker's notional is not carried to its next fill.
Mutant_Filled(o, yesPrice, quantity, payout) == [o EXCEPT !.remaining = @ - quantity]

\* The order after `quantity` of it traded: its notional runs on, for the fees.
Filled(o, yesPrice, quantity, payout) ==
  [o EXCEPT !.remaining = @ - quantity,
            !.notional = @ + Principal(o.outcome, yesPrice, quantity, payout)]

------------------------------------------------------------------------------
\* The heaps.

\* Price first, then the sequence number: a strict order on the slots of a side.
Better(book, side, a, b) ==
  LET price(s) == CanonicalPrice(book.slots[s], book.payout)
  IN IF price(a) # price(b)
     THEN IF side = "Bid" THEN price(a) > price(b) ELSE price(a) < price(b)
     ELSE book.slots[a].id < book.slots[b].id

\* A slot moves to its place one exchange at a time, so the hole it fills is where
\* it stands: two entries change places.
Swapped(heap, i, j) == [heap EXCEPT ![i] = heap[j], ![j] = heap[i]]

\* One position of the way down: the slot, if it is there, and its better child.
BetterChild(book, side, heap, p) ==
  IF 2 * p + 1 <= Len(heap) /\ Better(book, side, heap[2 * p + 1], heap[2 * p])
  THEN 2 * p + 1 ELSE 2 * p

Sink(book, side, slot, heap, p) ==
  IF /\ heap[p] = slot /\ 2 * p <= Len(heap)
     /\ Better(book, side, heap[BetterChild(book, side, heap, p)], slot)
  THEN Swapped(heap, p, BetterChild(book, side, heap, p)) ELSE heap

SiftDown(book, side, heap, slot) ==
  MapThenFoldSet(LAMBDA p, h : Sink(book, side, slot, h, p), heap, LAMBDA p : p, Max,
                 DOMAIN heap)

\* One position of the way up: the slot, if it is there, and its parent.
Rise(book, side, slot, heap, p) ==
  IF p > 1 /\ heap[p] = slot /\ Better(book, side, slot, heap[p \div 2])
  THEN Swapped(heap, p, p \div 2) ELSE heap

SiftUp(book, side, heap, slot) ==
  MapThenFoldSet(LAMBDA p, h : Rise(book, side, slot, h, p), heap, LAMBDA p : p, Min,
                 DOMAIN heap)

\* Mutant: the last entry only ever sinks into the hole.
Mutant_Without(book, side, index) ==
  LET heap == book.heap[side]
      last == heap[Len(heap)]
      shorter == SubSeq(heap, 1, Len(heap) - 1)
  IN IF index = Len(heap) THEN shorter
     ELSE SiftDown(book, side, [shorter EXCEPT ![index] = last], last)

\* The slot at `index` leaves the heap: the last entry fills the hole and moves
\* to its place, towards the root or away from it.
Without(book, side, index) ==
  LET heap == book.heap[side]
      last == heap[Len(heap)]
      shorter == SubSeq(heap, 1, Len(heap) - 1)
      filled == [shorter EXCEPT ![index] = last]
  IN IF index = Len(heap) THEN shorter
     ELSE IF index > 1 /\ Better(book, side, last, heap[index \div 2])
          THEN SiftUp(book, side, filled, last)
          ELSE SiftDown(book, side, filled, last)

\* The order at a heap position leaves the book and its slot heads the free list.
RemoveOrder(book, side, index) ==
  LET slot == book.heap[side][index]
  IN [book EXCEPT !.heap[side] = Without(book, side, index),
                  !.slots[slot] = Vacant,
                  !.free = <<slot>> \o @]

Pop(book, side) == RemoveOrder(book, side, 1)

Insert(book, o) ==
  LET slot == Head(book.free)
      placed == [book EXCEPT !.slots[slot] = o, !.free = Tail(@)]
      heap == Append(book.heap[Side(o)], slot)
  IN [placed EXCEPT !.heap[Side(o)] = SiftUp(placed, Side(o), heap, slot)]

EmptyBook(capacity, payout, feeBps) ==
  [slots |-> [s \in 1..capacity |-> Vacant], heap |-> [Bid |-> <<>>, Ask |-> <<>>],
   free |-> [s \in 1..capacity |-> s], next |-> 1, payout |-> payout, feeBps |-> feeBps]

OrderAt(book, side, index) == book.slots[book.heap[side][index]]
Resting(book) == {s \in DOMAIN book.slots : book.slots[s] # Vacant}

------------------------------------------------------------------------------
\* Matching.  An incoming order is a record with owner, outcome, action, price,
\* quantity, tif ("GTC", "IOC", "FOK"), selfTrade, postOnly and expires.

Expired(o, now) == o.expires # NoExpiry /\ now >= o.expires

\* Mutant: equal prices do not cross.
Mutant_Crosses(taker, maker, payout) ==
  LET limit == CanonicalPrice(taker, payout)
      price == CanonicalPrice(maker, payout)
  IN IF Side(taker) = "Bid" THEN limit > price ELSE limit < price

Crosses(taker, maker, payout) ==
  LET limit == CanonicalPrice(taker, payout)
      price == CanonicalPrice(maker, payout)
  IN IF Side(taker) = "Bid" THEN limit >= price ELSE limit <= price

\* The matching loop carries the copied book, what is left of the taker, the
\* effects so far, and how it ended.  Both orders trade the
\* smaller remainder, at the maker's price.
Traded(st, side, slot, maker, price, quantity) ==
  [st EXCEPT
     !.book = IF maker.remaining = quantity THEN Pop(st.book, side)
              ELSE [st.book EXCEPT !.slots[slot] = Filled(maker, price, quantity, st.book.payout)],
     !.taker = Filled(@, price, quantity, st.book.payout),
     !.effects = Append(@, [kind |-> "Fill", maker |-> maker, taker |-> st.taker,
                            price |-> price, quantity |-> quantity])]

Removed(st, side, maker) ==
  [st EXCEPT !.book = Pop(@, side),
             !.effects = Append(@, [kind |-> "Removed", order |-> maker])]

\* What a turn of the loop does to the best opposing order.
Touch(st, in, now, side, maker) ==
  IF Expired(maker, now) THEN Removed(st, side, maker)
  ELSE IF in.postOnly THEN [st EXCEPT !.end = "PostOnlyRejected"]
  ELSE IF maker.owner = st.taker.owner
  THEN [(IF in.selfTrade = "CancelAggressor" THEN st ELSE Removed(st, side, maker))
          EXCEPT !.end = IF in.selfTrade = "CancelResting" THEN @ ELSE "Stopped"]
  ELSE Traded(st, side, st.book.heap[side][1], maker, CanonicalPrice(maker, st.book.payout),
              IF maker.remaining < st.taker.remaining
              THEN maker.remaining ELSE st.taker.remaining)

\* There is a best opposing order, and it is to be touched.
Touching(st, now, side) ==
  /\ st.end = "Matching" /\ st.taker.remaining > 0 /\ st.book.heap[side] # <<>>
  /\ LET maker == OrderAt(st.book, side, 1)
     IN Expired(maker, now) \/ Crosses(st.taker, maker, st.book.payout)

\* The turn-th turn of the loop, if it comes to it: every turn before it touched an
\* order, and the turn after the last one allowed only looks.
Turn(st, in, now, touchLimit, turn) ==
  LET side == Opposite(Side(st.taker))
  IN IF ~Touching(st, now, side) THEN st
     ELSE IF turn > touchLimit
     THEN [st EXCEPT !.end = IF in.tif = "IOC" THEN "Worked" ELSE "MatchLimitExceeded"]
     ELSE Touch(st, in, now, side, OrderAt(st.book, side, 1))

Match(st, in, now, touchLimit) ==
  MapThenFoldSet(LAMBDA turn, acc : Turn(acc, in, now, touchLimit, turn), st,
                 LAMBDA turn : turn, Max, 1..touchLimit + 1)

ValidOptions(in, now) ==
  /\ (in.postOnly \/ in.expires # NoExpiry) => in.tif = "GTC"
  /\ in.expires # NoExpiry => now < in.expires

\* Mutant: an order that self-trade prevention stopped rests all the same.
Mutant_Rests(in, st) ==
  st.taker.remaining > 0 /\ st.end \in {"Matching", "Stopped"} /\ in.tif = "GTC"

Rests(in, st) == st.taker.remaining > 0 /\ st.end = "Matching" /\ in.tif = "GTC"

PlanFault(in, now, st) ==
  IF ~ValidOptions(in, now) THEN "InvalidOptions"
  ELSE IF st.end \in {"MatchLimitExceeded", "PostOnlyRejected"} THEN st.end
  ELSE IF in.tif = "FOK" /\ st.taker.remaining > 0 THEN "FokRejected"
  ELSE IF Rests(in, st) /\ st.book.free = <<>> THEN "BookFull"
  ELSE "None"

Planned(in, order, st, fault) ==
  [fault |-> fault, effects |-> st.effects, required |-> Reserve(order, st.book.feeBps),
   final |-> IF Rests(in, st) THEN Reserve(st.taker, st.book.feeBps) ELSE Zero,
   book |-> IF fault = "None" /\ Rests(in, st)
            THEN [Insert(st.book, st.taker) EXCEPT !.next = @ + 1]
            ELSE [st.book EXCEPT !.next = @ + 1]]

\* The whole of an execution before anything is written: a fault, or the book
\* after with the effects on the seats and the reserves of the taker.
Plan(book, in, now, touchLimit) ==
  LET order == [id |-> book.next, owner |-> in.owner, outcome |-> in.outcome,
                action |-> in.action, price |-> in.price, remaining |-> in.quantity,
                expires |-> in.expires, notional |-> 0]
      matched(st) == Planned(in, order, st, PlanFault(in, now, st))
  IN matched(Match([book |-> book, taker |-> order, effects |-> <<>>,
                    end |-> "Matching"], in, now, touchLimit))

------------------------------------------------------------------------------
\* What the storage must satisfy for the operators above to mean a book.

\* Every slot is in exactly one of the two heaps and the free list, orders are in
\* the heap of their side, and no order stands below a worse one.
WellFormed(book) ==
  LET heaps == book.heap
  IN /\ IsInjective(heaps.Bid \o heaps.Ask \o book.free)
     /\ Range(heaps.Bid \o heaps.Ask) = Resting(book)
     /\ Range(book.free) = DOMAIN book.slots \ Resting(book)
     /\ \A side \in {"Bid", "Ask"} : \A i \in DOMAIN heaps[side] :
          /\ Side(OrderAt(book, side, i)) = side
          /\ OrderAt(book, side, i).remaining > 0
          /\ i > 1 => Better(book, side, heaps[side][i \div 2], heaps[side][i])

==============================================================================
