-------------------------- MODULE MCChainCommands --------------------------
(* Instances of ChainCommands: one command of any kind, the orders of one    *)
(* wallet that share a lane, and the provisioning of a market and its book.  *)
EXTENDS ChainCommands, TLC

CONSTANTS c1, c2, d1, d2

NoCommands == [c \in Commands |-> {}]

\* One command, with two faults; or an order, with a cancellation in the same
\* lane or with what it asks for, and none.
Alone(k) == c1 :> k @@ c2 :> NoKind
WithOrder(k) == c1 :> "PLACE_ORDER" @@ c2 :> k
OrderAssignments ==
    {Alone(k) : k \in Kinds} \union
    {WithOrder(k) : k \in {"CANCEL_ORDER", "REGISTER_SEAT", "DEPOSIT_ESCROW"}}
OrderChildren == c1 :> {c2} @@ c2 :> {}
OrderFaults ==
    [a \in OrderAssignments |-> IF a[c2] = NoKind THEN 2 ELSE 0]

\* A market whose projection accepts the first step of its book, a step of a
\* book whose projection accepts the next, and resolutions.
MarketAssignments ==
    {c1 :> k @@ c2 :> "PROVISION_MARKET_BOOK" : k \in ProjectKinds} \union
    {[c \in Commands |-> "RESOLUTION"]}
MarketSuccessor == c1 :> {c2} @@ c2 :> {}
MarketFaults == [a \in MarketAssignments |-> 2]

PlaceAssignments == {Alone("PLACE_ORDER")}
PlaceFaults == [a \in PlaceAssignments |-> 1]

TwoDispatchers == Permutations({d1, d2})
=============================================================================
