-------------------------- MODULE ChainBookReference --------------------------
(* The reference model of the same file (matching.rs `Book`): the book as the   *)
(* set of its resting orders, searched for the best one each time, with no      *)
(* slots, no heaps to keep in order and nothing to patch.  `runtime` is claimed *)
(* to execute every order exactly as it does.                                   *)
EXTENDS ChainBook

OnSide(orders, side) == {o \in orders : Side(o) = side}

Ranks(a, b, payout) ==
  LET p == CanonicalPrice(a, payout)
      q == CanonicalPrice(b, payout)
  IN IF p = q THEN a.id < b.id ELSE IF Side(a) = "Bid" THEN p > q ELSE p < q

BestOf(orders, payout) ==
  CHOOSE o \in orders : \A other \in orders \ {o} : Ranks(o, other, payout)

\* One pair of orders trading, in the reference state st.
Exchange(st, maker, quantity, payout) ==
  LET price == CanonicalPrice(maker, payout)
      left == Filled(maker, price, quantity, payout)
  IN [st EXCEPT
        !.orders = (@ \ {maker}) \cup (IF left.remaining = 0 THEN {} ELSE {left}),
        !.taker = Filled(@, price, quantity, payout),
        !.effects = Append(@, [kind |-> "Fill", maker |-> maker, taker |-> st.taker,
                               price |-> price, quantity |-> quantity])]

Drop(st, maker) ==
  [st EXCEPT !.orders = @ \ {maker},
             !.effects = Append(@, [kind |-> "Removed", order |-> maker])]

\* What the order does to the best maker it meets, or how the loop ends there.
Encounter(st, maker, in, now, touchLimit, payout, turn) ==
  CASE turn > touchLimit ->
         [st EXCEPT !.over = TRUE,
                    !.fault = IF in.tif = "IOC" THEN "None" ELSE "MatchLimitExceeded"]
    [] turn <= touchLimit /\ Expired(maker, now) -> Drop(st, maker)
    [] turn <= touchLimit /\ ~Expired(maker, now) /\ in.postOnly ->
         [st EXCEPT !.over = TRUE, !.fault = "PostOnlyRejected"]
    [] OTHER ->
         IF maker.owner # st.taker.owner
         THEN LET both == {maker.remaining, st.taker.remaining}
              IN Exchange(st, maker, CHOOSE q \in both : \A r \in both : q <= r, payout)
         ELSE [(IF in.selfTrade = "CancelAggressor" THEN st ELSE Drop(st, maker))
                 EXCEPT !.over = in.selfTrade # "CancelResting",
                        !.stopped = in.selfTrade # "CancelResting"]

MeetTurn(st, in, now, touchLimit, payout, turn) ==
  LET opposing == OnSide(st.orders, Opposite(Side(st.taker)))
      maker == BestOf(opposing, payout)
  IN IF st.over \/ st.taker.remaining = 0 \/ opposing = {} THEN st
     ELSE IF ~(Expired(maker, now) \/ Crosses(st.taker, maker, payout)) THEN st
     ELSE Encounter(st, maker, in, now, touchLimit, payout, turn)

Meet(st, in, now, touchLimit, payout) ==
  MapThenFoldSet(LAMBDA turn, acc : MeetTurn(acc, in, now, touchLimit, payout, turn), st,
                 LAMBDA turn : turn, Max, 1..touchLimit + 1)

\* The whole of Book::execute: what it answers, with the orders it leaves.
Concluded(st, in, now, capacity) ==
  LET left == st.taker.remaining > 0
      rests == left /\ ~st.stopped /\ in.tif = "GTC"
      fault == IF ~ValidOptions(in, now) THEN "InvalidOptions"
               ELSE IF st.fault # "None" THEN st.fault
               ELSE IF left /\ in.tif = "FOK" THEN "FokRejected"
               ELSE IF rests /\ Cardinality(st.orders) >= capacity THEN "BookFull"
               ELSE "None"
  IN [fault |-> fault, effects |-> st.effects, rests |-> rests,
      orders |-> IF rests THEN st.orders \cup {st.taker} ELSE st.orders]

Execute(orders, in, order, now, touchLimit, payout, capacity) ==
  Concluded(Meet([orders |-> orders, taker |-> order, effects |-> <<>>,
                  over |-> FALSE, stopped |-> FALSE, fault |-> "None"],
                 in, now, touchLimit, payout), in, now, capacity)

\* The program's plan is the reference's execution of the same order.
SameAsReference(book, plan, in, now, touchLimit) ==
  LET order == [id |-> book.next, owner |-> in.owner, outcome |-> in.outcome,
                action |-> in.action, price |-> in.price, remaining |-> in.quantity,
                expires |-> in.expires, notional |-> 0]
      same(ref) ==
        /\ plan.fault = ref.fault
        /\ ref.fault = "None" =>
             /\ plan.effects = ref.effects
             /\ {plan.book.slots[s] : s \in Resting(plan.book)} = ref.orders
             /\ plan.final # Zero <=> ref.rests
  IN same(Execute({book.slots[s] : s \in Resting(book)}, in, order, now, touchLimit,
                  book.payout, Cardinality(DOMAIN book.slots)))
==============================================================================
