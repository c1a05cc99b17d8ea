------------------------ MODULE OrderExchangeProofs ------------------------
(***************************************************************************)
(* Proofs about the exchange (OrderExchange), for any users, orders,       *)
(* payout, fee rate and bounds; what its matcher returns comes from        *)
(* OrderRowsProofs, and so does what becomes of its rows.                   *)
(*                                                                         *)
(* The exchange's inductive invariant is stated of the rows a transaction  *)
(* works on, so that it can be carried from one step of the transaction to *)
(* the next.                                                               *)
(***************************************************************************)
EXTENDS OrderRowsProofs

----------------------------------------------------------------------------
\* A fill between two orders that meet: m is the maker's leg, t the taker's.
Meet(st, q, m, t, kind) ==
    LET a == st.orders[m.id]
        b == st.orders[t.id]
    IN  /\ LegReady(st, m, q) /\ LegReady(st, t, q)
        /\ a.owner # b.owner
        /\ kind = FillKind(a, b)
        /\ a.action = b.action => a.outcome # b.outcome
                                  /\ m.notional + t.notional = PayoutMilli * q
        /\ a.action # b.action => a.outcome = b.outcome
                                  /\ m.notional = t.notional

LEMMA MeetKinds ==
    ASSUME NEW st, NEW q, NEW m, NEW t, NEW kind, Meet(st, q, m, t, kind)
    PROVE  /\ m.id # t.id /\ q \in Nat /\ q > 0
           /\ kind = "MINT" <=> /\ st.orders[m.id].action = "BUY"
                                /\ st.orders[t.id].action = "BUY"
           /\ kind = "BURN" <=> /\ st.orders[m.id].action = "SELL"
                                /\ st.orders[t.id].action = "SELL"
<1>1. /\ m.id # t.id /\ q \in Nat /\ q > 0
      /\ OrderRow(st.orders[m.id]) /\ OrderRow(st.orders[t.id])
  <2>1. LegReady(st, m, q) /\ LegReady(st, t, q)
    BY DEF Meet
  <2>2. st.orders[m.id].owner # st.orders[t.id].owner
    BY DEF Meet
  <2>. QED
    BY <2>1, <2>2, LegFacts
<1>2. kind = FillKind(st.orders[m.id], st.orders[t.id])
  BY DEF Meet
<1>3. CASE st.orders[m.id].action = "BUY" /\ st.orders[t.id].action = "BUY"
  BY <1>1, <1>2, <1>3 DEF FillKind
<1>4. CASE st.orders[m.id].action = "SELL" /\ st.orders[t.id].action = "SELL"
  BY <1>1, <1>2, <1>4 DEF FillKind
<1>5. CASE /\ ~(st.orders[m.id].action = "BUY" /\ st.orders[t.id].action = "BUY")
           /\ ~(st.orders[m.id].action = "SELL" /\ st.orders[t.id].action = "SELL")
  BY <1>1, <1>2, <1>5 DEF FillKind
<1>. QED
  BY <1>1, <1>3, <1>4, <1>5

LEMMA MeetFacts ==
    ASSUME NEW st, NEW q, NEW m, NEW t, NEW kind, Meet(st, q, m, t, kind)
    PROVE  /\ LegReady(st, m, q) /\ LegReady(st, t, q) /\ Typed(st) /\ Sound(st)
           /\ m.id # t.id
           /\ st.orders[m.id].owner # st.orders[t.id].owner
           /\ \A x \in {m, t} :
                 /\ st.orders[x.id].owner \in Users
                 /\ st.orders[x.id].action \in {"BUY", "SELL"}
                 /\ st.orders[x.id].outcome \in {"YES", "NO"}
                 /\ x.id \in 1 .. Len(st.orders) /\ x.id \in 1 .. MaxOrders
           /\ Len(st.orders) \in Nat /\ q \in Nat /\ q > 0
           /\ st.acct \in [Accounts -> Nat] /\ st.balance \in [Users -> Nat]
           /\ st.pos \in [Users -> Position] /\ DOMAIN st = Fields
           /\ IsRows(st.orders, Len(st.orders)) /\ IsRows(st.resv, Len(st.orders))
<1>1. /\ LegReady(st, m, q) /\ LegReady(st, t, q)
      /\ st.orders[m.id].owner # st.orders[t.id].owner
  BY DEF Meet
<1>2. Sound(st) /\ Typed(st)
  BY <1>1 DEF LegReady, Sound, SoundBut
<1>3. /\ st.acct \in [Accounts -> Nat] /\ st.balance \in [Users -> Nat]
      /\ st.pos \in [Users -> Position] /\ DOMAIN st = Fields
      /\ IsRows(st.orders, Len(st.orders)) /\ IsRows(st.resv, Len(st.orders))
      /\ Len(st.orders) \in Nat /\ DOMAIN st.orders = 1 .. Len(st.orders)
  BY <1>2, RowsDomain DEF Typed
<1>4. ASSUME NEW x \in {m, t}
      PROVE  /\ st.orders[x.id].owner \in Users
             /\ st.orders[x.id].action \in {"BUY", "SELL"}
             /\ st.orders[x.id].outcome \in {"YES", "NO"}
             /\ x.id \in 1 .. Len(st.orders) /\ x.id \in 1 .. MaxOrders
  <2>1. LegReady(st, x, q)
    BY <1>1
  <2>. QED
    BY <1>3, <2>1, LegFacts
<1>5. m.id # t.id /\ q \in Nat /\ q > 0
  BY MeetKinds
<1>. QED
  BY <1>1, <1>2, <1>3, <1>4, <1>5

\* The money that moves adds up to nothing.
LEMMA FillBalances ==
    ASSUME NEW st, NEW q, NEW m, NEW t, NEW kind, Meet(st, q, m, t, kind)
    PROVE  /\ m.amt \in Int /\ t.amt \in Int
           /\ m.fee \in Nat /\ t.fee \in Nat
           /\ CollateralPosting(kind, PayoutMilli, q) \in Int
           /\ CollateralPosting(kind, PayoutMilli, q)
                + m.amt + t.amt + (m.fee + t.fee) = 0
           /\ st.orders[m.id].action = "BUY" => m.amt # 0
           /\ st.orders[t.id].action = "BUY" => t.amt # 0
           /\ kind = "BURN" => CollateralPosting(kind, PayoutMilli, q) # 0
           /\ CollateralPosting(kind, PayoutMilli, q)
                = PayoutMilli * SupplyGrowth(kind, q)
<1>. DEFINE a == st.orders[m.id].action
            b == st.orders[t.id].action
            c == CollateralPosting(kind, PayoutMilli, q)
            pq == PayoutMilli * q
<1>1. /\ q \in Nat /\ q > 0
      /\ kind = "MINT" <=> a = "BUY" /\ b = "BUY"
      /\ kind = "BURN" <=> a = "SELL" /\ b = "SELL"
  BY MeetKinds
<1>2. /\ a \in {"BUY", "SELL"} /\ b \in {"BUY", "SELL"}
      /\ a = b => m.notional + t.notional = pq
      /\ a # b => m.notional = t.notional
  BY DEF Meet, LegReady, Sound, SoundBut, Typed, OrderRow, Sides
<1>3. /\ m.notional \in Nat /\ m.fee \in Nat /\ m.notional > 0
      /\ a = "BUY" => m.amt = -(m.notional + m.fee)
      /\ a = "SELL" => m.amt = m.notional - m.fee
      /\ t.notional \in Nat /\ t.fee \in Nat /\ t.notional > 0
      /\ b = "BUY" => t.amt = -(t.notional + t.fee)
      /\ b = "SELL" => t.amt = t.notional - t.fee
  BY DEF Meet, LegReady, LegNumbers
<1>4. pq \in Nat /\ pq > 0
  BY <1>1, PayoutAssumption, PositiveProduct
<1>5. /\ kind = "MINT" => c = pq
      /\ kind = "BURN" => c = -pq
      /\ kind # "MINT" /\ kind # "BURN" => c = 0
  BY DEF CollateralPosting
<1>6. c = PayoutMilli * SupplyGrowth(kind, q)
  <2>1. PayoutMilli \in Nat
    BY PayoutAssumption
  <2>. HIDE DEF c
  <2>2. CASE kind = "MINT"
    BY <1>5, <2>2 DEF SupplyGrowth
  <2>3. CASE kind = "BURN"
    BY <1>1, <1>5, <2>1, <2>3 DEF SupplyGrowth
  <2>4. CASE kind # "MINT" /\ kind # "BURN"
    BY <1>5, <2>1, <2>4 DEF SupplyGrowth
  <2>. QED
    BY <2>2, <2>3, <2>4
<1>. HIDE DEF c, pq, a, b
<1>7. c \in Int /\ m.amt \in Int /\ t.amt \in Int
  BY <1>2, <1>3, <1>4, <1>5
<1>8. c + m.amt + t.amt + (m.fee + t.fee) = 0
  <2>1. CASE a = "BUY" /\ b = "BUY"
    BY <1>1, <1>2, <1>3, <1>4, <1>5, <2>1
  <2>2. CASE a = "SELL" /\ b = "SELL"
    BY <1>1, <1>2, <1>3, <1>4, <1>5, <2>2
  <2>3. CASE a # b
    BY <1>1, <1>2, <1>3, <1>4, <1>5, <2>3
  <2>. QED
    BY <1>2, <2>1, <2>2, <2>3
<1>9. /\ a = "BUY" => m.amt # 0
      /\ b = "BUY" => t.amt # 0
      /\ kind = "BURN" => c # 0
  BY <1>3, <1>4, <1>5
<1>. QED
  BY <1>3, <1>6, <1>7, <1>8, <1>9 DEF c, a, b

\* The contracts two sellers burn are among those outstanding.
LEMMA BurnOwned ==
    ASSUME NEW st, NEW q, NEW m, NEW t, NEW kind, Meet(st, q, m, t, kind),
           kind = "BURN"
    PROVE  /\ st.supply.yes >= q /\ st.supply.no >= q
           /\ st.acct[Collateral] - PayoutMilli * q >= 0
<1>. DEFINE yes == [u \in Users |-> st.pos[u].yes]
            no == [u \in Users |-> st.pos[u].no]
<1>1. /\ Typed(st) /\ SupplyCollateralized(st) /\ q \in Nat
      /\ st.orders[m.id].action = "SELL" /\ st.orders[t.id].action = "SELL"
      /\ st.orders[m.id].outcome # st.orders[t.id].outcome
  BY MeetKinds DEF Meet, LegReady, Sound, SoundBut
<1>2. /\ yes \in [Users -> Nat] /\ no \in [Users -> Nat] /\ IsFiniteSet(Users)
  BY <1>1, ExchangeAssumption DEF Typed, Position
<1>3. ASSUME NEW x, LegReady(st, x, q), st.orders[x.id].action = "SELL"
      PROVE  /\ st.orders[x.id].outcome \in {"YES", "NO"}
             /\ st.orders[x.id].outcome = "YES" => SumFunction(yes) >= q
             /\ st.orders[x.id].outcome = "NO" => SumFunction(no) >= q
  <2>. DEFINE o == st.orders[x.id]
              u == o.owner
              p == st.pos[u]
  <2>1. /\ Offered(p, o, q) /\ u \in Users /\ o.outcome \in {"YES", "NO"}
    BY <1>1, <1>3, LegHolds DEF LegReady, Typed, OrderRow, Outcomes
  <2>2. /\ o.outcome = "YES" => q <= p.yes
        /\ o.outcome = "NO" => q <= p.no
        /\ p.yes \in Nat /\ p.no \in Nat
    <3>1. /\ p \in Position /\ p.rYes <= p.yes /\ p.rNo <= p.no
          /\ o.outcome = "YES" => q <= p.rYes
          /\ o.outcome = "NO" => q <= p.rNo
      BY <1>3, <2>1 DEF Offered, Sold
    <3>2. p.yes \in Nat /\ p.no \in Nat /\ p.rYes \in Nat /\ p.rNo \in Nat
      BY <3>1 DEF Position
    <3>. HIDE DEF p, o
    <3>. QED
      BY <1>1, <3>1, <3>2
  <2>3. yes[u] = p.yes /\ no[u] = p.no
    BY <2>1
  <2>. HIDE DEF yes, no, p
  <2>4. yes[u] <= SumFunction(yes) /\ no[u] <= SumFunction(no)
    BY <1>2, <2>1, SumHasTerm
  <2>5. SumFunction(yes) \in Nat /\ SumFunction(no) \in Nat
    BY <1>2, SumIsNat
  <2>. QED
    BY <1>1, <2>1, <2>2, <2>3, <2>4, <2>5
<1>4. /\ st.supply.yes = SumFunction(yes) /\ st.supply.no = SumFunction(no)
      /\ st.supply.yes = st.supply.no /\ st.supply.yes \in Nat
      /\ st.acct[Collateral] = PayoutMilli * st.supply.yes
  BY <1>1 DEF SupplyCollateralized, Typed
<1>. HIDE DEF yes, no
<1>5. st.supply.yes >= q /\ st.supply.no >= q
  BY <1>1, <1>3, <1>4 DEF Meet
<1>6. st.acct[Collateral] - PayoutMilli * q >= 0
  <2>1. PayoutMilli \in Nat /\ q * PayoutMilli <= st.supply.yes * PayoutMilli
    BY <1>1, <1>4, <1>5, PayoutAssumption, ProductMonotone
  <2>2. /\ q * PayoutMilli = PayoutMilli * q
        /\ st.supply.yes * PayoutMilli = PayoutMilli * st.supply.yes
    BY <1>1, <1>4, <2>1
  <2>3. PayoutMilli * q \in Int /\ PayoutMilli * st.supply.yes \in Int
    BY <1>1, <1>4, <2>1
  <2>. QED
    BY <1>4, <2>1, <2>2, <2>3
<1>. QED
  BY <1>5, <1>6

\* The accounts after the journal of a fill.
FillPostings(st, q, m, t, kind) ==
    <<Posting(Collateral, CollateralPosting(kind, PayoutMilli, q)),
      Posting(CashAccount(m.order, m.id), m.amt),
      Posting(CashAccount(t.order, t.id), t.amt),
      Posting(Revenue, m.fee + t.fee)>>

Moves(o, amt) == IF o.action = "BUY" THEN amt ELSE 0
Earns(o, amt) == IF o.action = "SELL" THEN amt ELSE 0

\* What a leg has moved on the accounts.
LegPosted(st, r, x) ==
    LET o == st.orders[x.id]
    IN  /\ r.acct[Escrow(x.id)] = st.acct[Escrow(x.id)] + Moves(o, x.amt)
        /\ r.acct[Wallet(o.owner)] = st.acct[Wallet(o.owner)] + Earns(o, x.amt)

OtherAccounts(st, r, m, t) ==
    \A a \in Accounts \ {Wallet(st.orders[m.id].owner), Escrow(m.id),
                         Wallet(st.orders[t.id].owner), Escrow(t.id),
                         Collateral, Revenue} : r.acct[a] = st.acct[a]

LEMMA FillPossible ==
    ASSUME NEW st, NEW q, NEW m, NEW t, NEW kind, Meet(st, q, m, t, kind),
           NEW ps, ps = FillPostings(st, q, m, t, kind)
    PROVE  /\ Possible(st, ps, 4)
           /\ ps[1].acct = Collateral
           /\ ps[1].amt = CollateralPosting(kind, PayoutMilli, q)
           /\ ps[2].acct = CashAccount(st.orders[m.id], m.id) /\ ps[2].amt = m.amt
           /\ ps[3].acct = CashAccount(st.orders[t.id], t.id) /\ ps[3].amt = t.amt
           /\ ps[4].acct = Revenue
<1>. DEFINE a == st.orders[m.id]
            b == st.orders[t.id]
            c == CollateralPosting(kind, PayoutMilli, q)
<1>1. /\ m.order = a /\ t.order = b
  BY DEF Meet, LegReady, LegNumbers
<1>2. /\ DOMAIN ps = 1 .. 4
      /\ ps[1].acct = Collateral /\ ps[1].amt = c
      /\ ps[2].acct = CashAccount(a, m.id) /\ ps[2].amt = m.amt
      /\ ps[3].acct = CashAccount(b, t.id) /\ ps[3].amt = t.amt
      /\ ps[4].acct = Revenue /\ ps[4].amt = m.fee + t.fee
  BY <1>1 DEF FillPostings, Posting
<1>3. /\ Typed(st) /\ m.id # t.id /\ a.owner # b.owner
      /\ a.action \in {"BUY", "SELL"} /\ b.action \in {"BUY", "SELL"}
      /\ a.owner \in Users /\ b.owner \in Users
      /\ m.id \in 1 .. MaxOrders /\ t.id \in 1 .. MaxOrders
      /\ st.acct \in [Accounts -> Nat] /\ q \in Nat
  BY MeetFacts
<1>4. /\ m.amt \in Int /\ t.amt \in Int /\ m.fee \in Nat /\ t.fee \in Nat
      /\ c \in Int
  BY FillBalances
<1>5. ASSUME NEW x, LegReady(st, x, q)
      PROVE  /\ CashAccount(st.orders[x.id], x.id) \in Accounts
             /\ st.acct[CashAccount(st.orders[x.id], x.id)] + x.amt >= 0
  <2>. DEFINE o == st.orders[x.id]
  <2>1. /\ o.action \in {"BUY", "SELL"} /\ o.owner \in Users
        /\ x.id \in 1 .. MaxOrders
    BY <1>3, <1>5, RowsDomain DEF LegReady, Typed, OrderRow, Sides
  <2>2. CASE o.action = "BUY"
    BY <1>5, <2>1, <2>2, LegPays, AccountNames DEF CashAccount
  <2>3. CASE o.action = "SELL"
    <3>1. /\ x.notional \in Nat /\ x.fee \in Nat /\ x.fee <= x.notional
          /\ x.amt = x.notional - x.fee
      BY <1>5, <2>3 DEF LegReady, LegNumbers
    <3>2. CashAccount(o, x.id) = Wallet(o.owner)
      BY <2>3 DEF CashAccount
    <3>3. Wallet(o.owner) \in Accounts /\ st.acct[Wallet(o.owner)] \in Nat
      BY <1>3, <2>1, AccountNames
    <3>. QED
      BY <3>1, <3>2, <3>3
  <2>. QED
    BY <2>1, <2>2, <2>3
<1>6. st.acct[Collateral] + c >= 0
  <2>1. st.acct[Collateral] \in Nat
    BY <1>3, AccountNames
  <2>2. PayoutMilli * q \in Nat
    BY <1>3, PayoutAssumption
  <2>3. CASE kind = "BURN"
    <3>1. st.acct[Collateral] - PayoutMilli * q >= 0
      BY <2>3, BurnOwned
    <3>2. c = -(PayoutMilli * q)
      BY <2>3 DEF CollateralPosting
    <3>. QED
      BY <2>1, <2>2, <3>1, <3>2
  <2>4. CASE kind = "MINT"
    BY <2>1, <2>2, <2>4 DEF CollateralPosting
  <2>5. CASE kind # "MINT" /\ kind # "BURN"
    BY <2>1, <2>5 DEF CollateralPosting
  <2>. QED
    BY <2>3, <2>4, <2>5
<1>7. Revenue \in Accounts /\ st.acct[Revenue] + (m.fee + t.fee) >= 0
  <2>1. Revenue \in Accounts /\ st.acct[Revenue] \in Nat
    BY <1>3, AccountNames
  <2>. QED
    BY <1>4, <2>1
<1>8. /\ CashAccount(a, m.id) # CashAccount(b, t.id)
      /\ CashAccount(a, m.id) # Collateral /\ CashAccount(a, m.id) # Revenue
      /\ CashAccount(b, t.id) # Collateral /\ CashAccount(b, t.id) # Revenue
      /\ Collateral # Revenue /\ Collateral \in Accounts
  BY <1>3, AccountNames DEF CashAccount
<1>9. LegReady(st, m, q) /\ LegReady(st, t, q)
  BY DEF Meet
<1>10. /\ CashAccount(a, m.id) \in Accounts /\ CashAccount(b, t.id) \in Accounts
       /\ st.acct[CashAccount(a, m.id)] + m.amt >= 0
       /\ st.acct[CashAccount(b, t.id)] + t.amt >= 0
  BY <1>5, <1>9
<1>. HIDE DEF a, b, c
<1>11. Possible(st, ps, 4)
  <2>1. \A k \in 1 .. 4 : k = 1 \/ k = 2 \/ k = 3 \/ k = 4
    OBVIOUS
  <2>2. m.fee + t.fee \in Int
    BY <1>4
  <2>. QED
    BY <1>2, <1>4, <1>6, <1>7, <1>8, <1>10, <2>1, <2>2 DEF Possible
<1>. QED
  BY <1>2, <1>11 DEF a, b, c

LEMMA FillJournal ==
    ASSUME NEW st, NEW q, NEW m, NEW t, NEW kind, Meet(st, q, m, t, kind),
           NEW r, r = CreateJournal(st, FillPostings(st, q, m, t, kind))
    PROVE  /\ Keeps(st, r, {"acct"}) /\ r.acct \in [Accounts -> Nat]
           /\ LegPosted(st, r, m) /\ LegPosted(st, r, t)
           /\ r.acct[Collateral]
                = st.acct[Collateral] + CollateralPosting(kind, PayoutMilli, q)
           /\ OtherAccounts(st, r, m, t)
<1>. DEFINE a == st.orders[m.id]
            b == st.orders[t.id]
            c == CollateralPosting(kind, PayoutMilli, q)
            ps == FillPostings(st, q, m, t, kind)
            amts == [k \in DOMAIN ps |-> ps[k].amt]
<1>1. /\ Possible(st, ps, 4)
      /\ ps[1].acct = Collateral /\ ps[1].amt = c
      /\ ps[2].acct = CashAccount(a, m.id) /\ ps[2].amt = m.amt
      /\ ps[3].acct = CashAccount(b, t.id) /\ ps[3].amt = t.amt
      /\ ps[4].acct = Revenue /\ ps[4].amt = m.fee + t.fee
  BY FillPossible DEF FillPostings, Posting
<1>2. /\ m.amt \in Int /\ t.amt \in Int /\ m.fee \in Nat /\ t.fee \in Nat
      /\ c \in Int /\ c + m.amt + t.amt + (m.fee + t.fee) = 0
      /\ a.action = "BUY" => m.amt # 0
      /\ b.action = "BUY" => t.amt # 0
      /\ kind = "BURN" => c # 0
  BY FillBalances
<1>3. /\ Typed(st) /\ m.id # t.id /\ a.owner # b.owner
      /\ a.action \in {"BUY", "SELL"} /\ b.action \in {"BUY", "SELL"}
      /\ a.owner \in Users /\ b.owner \in Users
      /\ m.id \in 1 .. MaxOrders /\ t.id \in 1 .. MaxOrders
      /\ st.acct \in [Accounts -> Nat] /\ DOMAIN st = Fields
      /\ kind = "BURN" <=> a.action = "SELL" /\ b.action = "SELL"
  BY MeetKinds, MeetFacts
<1>4. DOMAIN ps = 1 .. 4
  BY <1>1 DEF Possible
<1>. HIDE DEF ps, a, b, c
<1>5. SumFunction(amts) = 0
  <2>1. DOMAIN amts = 1 .. 4 /\ amts = [k \in 1 .. 4 |-> amts[k]]
        /\ amts[1] = c /\ amts[2] = m.amt /\ amts[3] = t.amt
        /\ amts[4] = m.fee + t.fee
    BY <1>1, <1>4
  <2>2. m.fee + t.fee \in Int
    BY <1>2
  <2>. DEFINE fees == m.fee + t.fee
  <2>. HIDE DEF amts, fees
  <2>3. SumFunction(amts) = c + m.amt + t.amt + fees
    BY <1>2, <2>1, <2>2, SumOfFour DEF fees
  <2>. QED
    BY <1>2, <2>3 DEF fees
<1>6. Posted(st, r, ps, 1 .. 4)
  <2>1. \E k \in 1 .. 4 : ps[k].amt # 0
    <3>1. CASE a.action = "BUY"
      <4>1. 2 \in 1 .. 4 /\ ps[2].amt # 0
        BY <1>1, <1>2, <3>1
      <4>. QED
        BY <4>1, Zenon
    <3>2. CASE b.action = "BUY"
      <4>1. 3 \in 1 .. 4 /\ ps[3].amt # 0
        BY <1>1, <1>2, <3>2
      <4>. QED
        BY <4>1, Zenon
    <3>3. CASE a.action = "SELL" /\ b.action = "SELL"
      <4>1. 1 \in 1 .. 4 /\ ps[1].amt # 0
        BY <1>1, <1>2, <1>3, <3>3
      <4>. QED
        BY <4>1, Zenon
    <3>. QED
      BY <1>3, <3>1, <3>2, <3>3
  <2>2. PICK k \in 1 .. 4 : ps[k].amt # 0
    BY <2>1
  <2>3. r = CreateJournal(st, ps)
    BY DEF ps
  <2>4. Posted(st, CreateJournal(st, ps), ps, 1 .. 4)
    <3>1. SumFunction([j \in DOMAIN ps |-> ps[j].amt]) = 0
      BY <1>5
    <3>2. DOMAIN st = Fields /\ st.acct \in [Accounts -> Nat] /\ 4 \in Nat
      BY <1>3
    <3>. QED
      BY <1>1, <2>2, <3>1, <3>2, JournalPosts
  <2>. QED
    BY <2>3, <2>4
<1>7. /\ Keeps(st, r, {"acct"}) /\ r.acct \in [Accounts -> Nat]
      /\ r.acct[Collateral] = st.acct[Collateral] + c
      /\ r.acct[CashAccount(a, m.id)] = st.acct[CashAccount(a, m.id)] + m.amt
      /\ r.acct[CashAccount(b, t.id)] = st.acct[CashAccount(b, t.id)] + t.amt
  BY <1>1, <1>6 DEF Posted
<1>8. \A x \in Accounts \ {Collateral, CashAccount(a, m.id),
                           CashAccount(b, t.id), Revenue} :
          r.acct[x] = st.acct[x]
  <2>1. \A k \in 1 .. 4 : k = 1 \/ k = 2 \/ k = 3 \/ k = 4
    OBVIOUS
  <2>2. ASSUME NEW x \in Accounts \ {Collateral, CashAccount(a, m.id),
                                     CashAccount(b, t.id), Revenue}
        PROVE  r.acct[x] = st.acct[x]
    <3>1. \A k \in 1 .. 4 : ps[k].acct # x
      BY <1>1, <2>1, <2>2
    <3>. QED
      BY <1>6, <3>1 DEF Posted
  <2>. QED
    BY <2>2
<1>9. /\ Wallet(a.owner) \in Accounts /\ Wallet(b.owner) \in Accounts
      /\ Escrow(m.id) \in Accounts /\ Escrow(t.id) \in Accounts
      /\ \A x \in {Wallet(a.owner), Wallet(b.owner), Escrow(m.id), Escrow(t.id)} :
            st.acct[x] \in Nat /\ x # Collateral /\ x # Revenue
      /\ Wallet(a.owner) # Wallet(b.owner) /\ Escrow(m.id) # Escrow(t.id)
      /\ \A x \in {Wallet(a.owner), Wallet(b.owner)} :
            x # Escrow(m.id) /\ x # Escrow(t.id)
  BY <1>3, AccountNames
<1>10. /\ r.acct[Escrow(m.id)] = st.acct[Escrow(m.id)] + Moves(a, m.amt)
       /\ r.acct[Wallet(a.owner)] = st.acct[Wallet(a.owner)] + Earns(a, m.amt)
  <2>1. CASE a.action = "BUY"
    BY <1>7, <1>8, <1>9, <2>1 DEF CashAccount, Moves, Earns
  <2>2. CASE a.action = "SELL"
    BY <1>7, <1>8, <1>9, <2>2 DEF CashAccount, Moves, Earns
  <2>. QED
    BY <1>3, <2>1, <2>2
<1>11. /\ r.acct[Escrow(t.id)] = st.acct[Escrow(t.id)] + Moves(b, t.amt)
       /\ r.acct[Wallet(b.owner)] = st.acct[Wallet(b.owner)] + Earns(b, t.amt)
  <2>1. CASE b.action = "BUY"
    BY <1>7, <1>8, <1>9, <2>1 DEF CashAccount, Moves, Earns
  <2>2. CASE b.action = "SELL"
    BY <1>7, <1>8, <1>9, <2>2 DEF CashAccount, Moves, Earns
  <2>. QED
    BY <1>3, <2>1, <2>2
<1>12. OtherAccounts(st, r, m, t)
  BY <1>8 DEF OtherAccounts, CashAccount, a, b
<1>. QED
  BY <1>7, <1>10, <1>11, <1>12 DEF LegPosted, a, b, c
----------------------------------------------------------------------------
\* The rows between the journal and the updates of the two orders.
LegPending(st, s, x) ==
    LET i == x.id
        u == st.orders[i].owner
    IN  /\ DOMAIN s = Fields
        /\ IsRows(s.orders, Len(st.orders)) /\ IsRows(s.resv, Len(st.orders))
        /\ s.orders[i] = st.orders[i] /\ s.resv[i] = st.resv[i]
        /\ s.balance \in [Users -> Nat] /\ s.acct \in [Accounts -> Nat]
        /\ LegPosted(st, s, x)
        /\ s.balance[u] = st.balance[u] + Earns(st.orders[i], x.amt)

LEMMA PendingRows ==
    ASSUME NEW st, NEW s, NEW x, NEW q, LegReady(st, x, q), LegPending(st, s, x)
    PROVE  LegRows(s, x.id, st.orders[x.id].owner, q, x.notional, x.fee, x.prior)
<1>. DEFINE i == x.id
            o == st.orders[i]
            u == o.owner
<1>1. /\ Typed(st) /\ OrderRow(o) /\ u \in Users /\ q \in 1 .. o.rem
      /\ o.action \in {"BUY", "SELL"} /\ o.outcome \in {"YES", "NO"}
      /\ i \in 1 .. MaxOrders /\ i \in 1 .. Len(st.orders)
      /\ Len(st.orders) \in Nat
  BY LegFacts, RowsDomain
<1>2. /\ DOMAIN s = Fields /\ s.orders[i] = o /\ s.resv[i] = st.resv[i]
      /\ IsRows(s.orders, Len(st.orders)) /\ IsRows(s.resv, Len(st.orders))
      /\ s.balance \in [Users -> Nat] /\ s.acct \in [Accounts -> Nat]
      /\ s.balance[u] = st.balance[u] + Earns(o, x.amt)
      /\ s.acct[Escrow(i)] = st.acct[Escrow(i)] + Moves(o, x.amt)
      /\ s.acct[Wallet(u)] = st.acct[Wallet(u)] + Earns(o, x.amt)
  BY DEF LegPending, LegPosted
<1>3. Len(s.orders) = Len(st.orders)
  BY <1>2 DEF IsRows
<1>4. /\ x.notional \in Nat /\ x.prior \in Nat /\ x.fee \in Nat
      /\ x.fee = FeeDelta(x.prior, x.notional, FeeBps)
      /\ o.action = "BUY" => /\ x.notional <= UserLimit(o) * q
                             /\ x.amt = -(x.notional + x.fee)
  BY DEF LegReady, LegNumbers
<1>5. /\ HoldsFor(st.resv[i], o, o.rem, x.prior)
      /\ st.acct[Escrow(i)] = st.resv[i].principal + st.resv[i].fee
      /\ st.acct[Wallet(u)] = st.balance[u]
  BY LegHolds
<1>6. s.acct[Wallet(u)] = s.balance[u]
  BY <1>2, <1>5
<1>7. s.acct[Escrow(i)] = IF o.action = "BUY"
                          THEN s.resv[i].principal + s.resv[i].fee
                                 - x.notional - x.fee
                          ELSE 0
  <2>1. CASE o.action = "BUY"
    <3>1. /\ s.acct[Escrow(i)] = st.acct[Escrow(i)] + x.amt
          /\ x.amt = -(x.notional + x.fee)
      BY <1>2, <1>4, <2>1 DEF Moves
    <3>2. st.resv[i].principal \in Nat /\ st.resv[i].fee \in Nat
      BY <1>5, <2>1 DEF HoldsFor, Holds, Reservation
    <3>3. /\ s.resv[i] = st.resv[i] /\ x.notional \in Nat /\ x.fee \in Nat
          /\ st.acct[Escrow(i)] = st.resv[i].principal + st.resv[i].fee
      BY <1>2, <1>4, <1>5
    <3>. HIDE DEF i, o
    <3>. QED
      BY <2>1, <3>1, <3>2, <3>3
  <2>2. CASE o.action = "SELL"
    <3>1. st.resv[i].principal = 0 /\ st.resv[i].fee = 0
      BY <1>1, <1>5, <2>2 DEF HoldsFor, Holds
    <3>. QED
      BY <1>2, <1>5, <2>2, <3>1 DEF Moves
  <2>. QED
    BY <1>1, <2>1, <2>2
<1>. HIDE DEF i, o, u
<1>. QED
  BY <1>1, <1>2, <1>3, <1>4, <1>5, <1>6, <1>7 DEF LegRows, i, o, u

LEMMA PendingDone ==
    ASSUME NEW st, NEW s, NEW x, NEW q, LegReady(st, x, q), LegPending(st, s, x),
           NEW r, UpdateRows(s, r, x.id, st.orders[x.id].owner, q, x.notional,
                             x.fee, x.prior),
           s.pos[st.orders[x.id].owner]
             = Traded(st.pos[st.orders[x.id].owner], st.orders[x.id], q)
    PROVE  LegDone(st, r, x, q)
<1>. DEFINE i == x.id
            o == st.orders[i]
            u == o.owner
<1>1. /\ Typed(st) /\ OrderRow(o) /\ u \in Users
      /\ o.action \in {"BUY", "SELL"} /\ i \in 1 .. MaxOrders
  BY LegFacts
<1>2. /\ s.orders[i] = o
      /\ s.balance[u] = st.balance[u] + Earns(o, x.amt)
      /\ s.acct[Escrow(i)] = st.acct[Escrow(i)] + Moves(o, x.amt)
  BY DEF LegPending, LegPosted
<1>3. /\ r.orders[i] = FilledOrder(o, q, x.notional, x.fee)
      /\ HoldsFor(r.resv[i], o, o.rem - q, x.prior + x.notional)
      /\ r.balance \in [Users -> Nat] /\ r.acct \in [Accounts -> Nat]
      /\ r.acct[Wallet(u)] = r.balance[u]
      /\ r.acct[Escrow(i)] = r.resv[i].principal + r.resv[i].fee
      /\ r.balance[u] + r.acct[Escrow(i)] = s.balance[u] + s.acct[Escrow(i)]
      /\ r.pos = s.pos
  BY <1>2 DEF UpdateRows, Keeps, Fields
<1>4. x.amt \in Int /\ Earns(o, x.amt) + Moves(o, x.amt) = x.amt
      /\ Earns(o, x.amt) \in Int /\ Moves(o, x.amt) \in Int
  <2>1. x.amt \in Int
    BY <1>1 DEF LegReady, LegNumbers
  <2>. QED
    BY <1>1, <2>1 DEF Earns, Moves
<1>5. st.balance[u] \in Nat /\ st.acct[Escrow(i)] \in Nat
  BY <1>1, AccountNames DEF Typed
<1>6. r.balance[u] \in Nat /\ r.acct[Escrow(i)] \in Nat
  BY <1>1, <1>3, AccountNames
<1>7. r.balance[u] + r.acct[Escrow(i)]
        = st.balance[u] + st.acct[Escrow(i)] + x.amt
  <2>. HIDE DEF i, o, u
  <2>. QED
    BY <1>2, <1>3, <1>4, <1>5, <1>6
<1>. QED
  BY <1>3, <1>6, <1>7 DEF LegDone

\* The rows after the journal, the sellers' credits and the positions.
Middle(st, s, q, m, t, kind) ==
    /\ Keeps(st, s, {"balance", "acct", "pos"})
    /\ s.pos \in [Users -> Position]
    /\ LegPending(st, s, m) /\ LegPending(st, s, t)
    /\ s.acct[Collateral]
         = st.acct[Collateral] + CollateralPosting(kind, PayoutMilli, q)
    /\ OtherAccounts(st, s, m, t)
    /\ \A x \in {m, t} : s.pos[st.orders[x.id].owner]
          = Traded(st.pos[st.orders[x.id].owner], st.orders[x.id], q)
    /\ \A v \in Users \ {st.orders[m.id].owner, st.orders[t.id].owner} :
          s.balance[v] = st.balance[v] /\ s.pos[v] = st.pos[v]

\* Both sellers are paid.
CreditedBoth(st, r, a, b, x, y) ==
    /\ Keeps(st, r, {"balance"}) /\ r.balance \in [Users -> Nat]
    /\ r.balance[a.owner] = st.balance[a.owner] + Earns(a, x)
    /\ r.balance[b.owner] = st.balance[b.owner] + Earns(b, y)
    /\ \A v \in Users \ {a.owner, b.owner} : r.balance[v] = st.balance[v]

LEMMA CreditedTwice ==
    ASSUME NEW st, NEW c, NEW r, NEW a, NEW b, NEW x, NEW y,
           a.owner \in Users, b.owner \in Users, a.owner # b.owner,
           Credited(st, c, a, x), Credited(c, r, b, y)
    PROVE  CreditedBoth(st, r, a, b, x, y)
<1>1. Keeps(st, r, {"balance"})
  BY DEF Credited, Keeps
<1>2. /\ c.balance[a.owner] = st.balance[a.owner] + Earns(a, x)
      /\ \A v \in Users \ {a.owner} : c.balance[v] = st.balance[v]
  BY Zenon DEF Credited, Earns
<1>3. /\ r.balance \in [Users -> Nat]
      /\ r.balance[b.owner] = c.balance[b.owner] + Earns(b, y)
      /\ \A v \in Users \ {b.owner} : r.balance[v] = c.balance[v]
  BY Zenon DEF Credited, Earns
<1>. QED
  BY <1>1, <1>2, <1>3 DEF CreditedBoth

\* The contracts of both orders change hands.
ExchangedBoth(st, r, a, b, q) ==
    /\ Keeps(st, r, {"pos"}) /\ r.pos \in [Users -> Position]
    /\ r.pos[a.owner] = Traded(st.pos[a.owner], a, q)
    /\ r.pos[b.owner] = Traded(st.pos[b.owner], b, q)
    /\ \A v \in Users \ {a.owner, b.owner} : r.pos[v] = st.pos[v]

LEMMA ExchangedTwice ==
    ASSUME NEW st, NEW p, NEW r, NEW a, NEW b, NEW q,
           a.owner \in Users, b.owner \in Users, a.owner # b.owner,
           Exchanged(st, p, a, q), Exchanged(p, r, b, q)
    PROVE  ExchangedBoth(st, r, a, b, q)
<1>1. Keeps(st, r, {"pos"})
  BY DEF Exchanged, Keeps
<1>2. /\ p.pos[a.owner] = Traded(st.pos[a.owner], a, q)
      /\ \A v \in Users \ {a.owner} : p.pos[v] = st.pos[v]
  BY DEF Exchanged
<1>3. /\ r.pos \in [Users -> Position]
      /\ r.pos[b.owner] = Traded(p.pos[b.owner], b, q)
      /\ \A v \in Users \ {b.owner} : r.pos[v] = p.pos[v]
  BY DEF Exchanged
<1>. QED
  BY <1>1, <1>2, <1>3 DEF ExchangedBoth

LEMMA FillMiddle ==
    ASSUME NEW st, NEW q, NEW m, NEW t, NEW kind, Meet(st, q, m, t, kind),
           NEW a, a = st.orders[m.id], NEW b, b = st.orders[t.id],
           NEW s2, s2 = CreateJournal(st, FillPostings(st, q, m, t, kind)),
           NEW s3, s3 = CreditSeller(CreditSeller(s2, a, m.amt), b, t.amt),
           NEW s4, s4 = ApplyPositionLeg(ApplyPositionLeg(s3, a, q), b, q)
    PROVE  Middle(st, s4, q, m, t, kind)
<1>. DEFINE c == CreditSeller(s2, a, m.amt)
            p == ApplyPositionLeg(s3, a, q)
            ua == a.owner
            ub == b.owner
<1>1. /\ LegReady(st, m, q) /\ LegReady(st, t, q) /\ Typed(st)
      /\ ua # ub /\ ua \in Users /\ ub \in Users /\ q \in Nat
      /\ DOMAIN st = Fields /\ st.balance \in [Users -> Nat]
      /\ st.pos \in [Users -> Position]
      /\ IsRows(st.orders, Len(st.orders)) /\ IsRows(st.resv, Len(st.orders))
  BY MeetFacts
<1>2. /\ m.amt \in Int /\ t.amt \in Int
      /\ a.action = "SELL" => m.amt >= 0
      /\ b.action = "SELL" => t.amt >= 0
  <2>1. m.amt \in Int /\ t.amt \in Int
    BY FillBalances
  <2>2. ASSUME NEW x, LegReady(st, x, q), st.orders[x.id].action = "SELL"
        PROVE  x.amt >= 0
    <3>1. /\ x.notional \in Nat /\ x.fee \in Nat /\ x.fee <= x.notional
          /\ x.amt = x.notional - x.fee
      BY <2>2 DEF LegReady, LegNumbers
    <3>. QED
      BY <3>1
  <2>. QED
    BY <1>1, <2>1, <2>2
<1>3. /\ Keeps(st, s2, {"acct"}) /\ s2.acct \in [Accounts -> Nat]
      /\ LegPosted(st, s2, m) /\ LegPosted(st, s2, t)
      /\ s2.acct[Collateral]
           = st.acct[Collateral] + CollateralPosting(kind, PayoutMilli, q)
      /\ OtherAccounts(st, s2, m, t)
  BY FillJournal
<1>4. /\ DOMAIN s2 = Fields /\ s2.balance = st.balance /\ s2.pos = st.pos
      /\ s2.orders = st.orders /\ s2.resv = st.resv
  BY <1>3 DEF Keeps, Fields
<1>5. Credited(s2, c, a, m.amt)
  BY <1>1, <1>2, <1>4, CreditWorks
<1>. HIDE DEF c
<1>6. DOMAIN c = Fields /\ c.balance \in [Users -> Nat]
  BY <1>5 DEF Credited, Keeps
<1>7. Credited(c, s3, b, t.amt)
  BY <1>1, <1>2, <1>6, CreditWorks DEF c
<1>8. /\ Keeps(s2, s3, {"balance"}) /\ s3.balance \in [Users -> Nat]
      /\ s3.balance[ua] = st.balance[ua] + Earns(a, m.amt)
      /\ s3.balance[ub] = st.balance[ub] + Earns(b, t.amt)
      /\ \A v \in Users \ {ua, ub} : s3.balance[v] = st.balance[v]
  <2>1. /\ Keeps(s2, s3, {"balance"}) /\ s3.balance \in [Users -> Nat]
        /\ s3.balance[ua] = s2.balance[ua] + Earns(a, m.amt)
        /\ s3.balance[ub] = s2.balance[ub] + Earns(b, t.amt)
        /\ \A v \in Users \ {ua, ub} : s3.balance[v] = s2.balance[v]
    <3>1. CreditedBoth(s2, s3, a, b, m.amt, t.amt)
      BY <1>1, <1>5, <1>7, CreditedTwice
    <3>. QED
      BY <3>1 DEF CreditedBoth
  <2>. HIDE DEF ua, ub
  <2>. QED
    BY <1>4, <2>1, Zenon
<1>9. DOMAIN s3 = Fields /\ s3.pos = st.pos
  BY <1>4, <1>8, Zenon DEF Keeps, Fields
<1>10. Offered(st.pos[ua], a, q) /\ Offered(st.pos[ub], b, q)
  BY <1>1, LegHolds, Zenon
<1>11. Exchanged(s3, p, a, q)
  BY <1>1, <1>9, <1>10, PositionLegWorks, Zenon
<1>. HIDE DEF p
<1>12. /\ DOMAIN p = Fields /\ p.pos \in [Users -> Position]
       /\ p.pos[ub] = st.pos[ub]
  BY ZenonT(30), <1>1, <1>9, <1>11 DEF Exchanged, Keeps
<1>13. Exchanged(p, s4, b, q)
  BY <1>1, <1>10, <1>12, PositionLegWorks, Zenon DEF p
<1>14. /\ Keeps(s3, s4, {"pos"}) /\ s4.pos \in [Users -> Position]
       /\ s4.pos[ua] = Traded(st.pos[ua], a, q)
       /\ s4.pos[ub] = Traded(st.pos[ub], b, q)
       /\ \A v \in Users \ {ua, ub} : s4.pos[v] = st.pos[v]
  <2>1. /\ Keeps(s3, s4, {"pos"}) /\ s4.pos \in [Users -> Position]
        /\ s4.pos[ua] = Traded(s3.pos[ua], a, q)
        /\ s4.pos[ub] = Traded(s3.pos[ub], b, q)
        /\ \A v \in Users \ {ua, ub} : s4.pos[v] = s3.pos[v]
    <3>1. ExchangedBoth(s3, s4, a, b, q)
      BY <1>1, <1>11, <1>13, ExchangedTwice
    <3>. QED
      BY <3>1, Zenon DEF ExchangedBoth
  <2>. HIDE DEF ua, ub
  <2>. QED
    BY <1>9, <2>1, Zenon
<1>15. /\ Keeps(st, s4, {"balance", "acct", "pos"})
       /\ s4.balance = s3.balance /\ s4.acct = s2.acct
       /\ s4.orders = st.orders /\ s4.resv = st.resv /\ DOMAIN s4 = Fields
  <2>1. Keeps(st, s2, {"acct"}) /\ Keeps(s2, s3, {"balance"}) /\ Keeps(s3, s4, {"pos"})
    BY <1>3, <1>8, <1>14
  <2>2. /\ s4.balance = s3.balance /\ s4.acct = s2.acct
        /\ s4.orders = st.orders /\ s4.resv = st.resv /\ DOMAIN s4 = Fields
    BY <2>1 DEF Keeps, Fields
  <2>3. Keeps(st, s4, {"balance", "acct", "pos"})
    BY <2>1 DEF Keeps
  <2>. QED
    BY <2>2, <2>3
<1>16. /\ LegPosted(st, s4, m) /\ LegPosted(st, s4, t)
       /\ OtherAccounts(st, s4, m, t)
  BY <1>3, <1>15 DEF LegPosted, OtherAccounts
<1>17. LegPending(st, s4, m) /\ LegPending(st, s4, t)
  BY <1>1, <1>3, <1>8, <1>15, <1>16, Zenon DEF LegPending
<1>18. s4.acct[Collateral]
         = st.acct[Collateral] + CollateralPosting(kind, PayoutMilli, q)
  BY <1>3, <1>15
<1>19. \A x \in {m, t} : s4.pos[st.orders[x.id].owner]
          = Traded(st.pos[st.orders[x.id].owner], st.orders[x.id], q)
  BY <1>14
<1>20. \A v \in Users \ {st.orders[m.id].owner, st.orders[t.id].owner} :
          s4.balance[v] = st.balance[v] /\ s4.pos[v] = st.pos[v]
  <2>1. ASSUME NEW v \in Users \ {ua, ub}
        PROVE  s4.balance[v] = st.balance[v] /\ s4.pos[v] = st.pos[v]
    BY ZenonT(30), <1>8, <1>14, <1>15, <2>1
  <2>. QED
    BY <2>1
<1>. QED
  BY <1>14, <1>15, <1>16, <1>17, <1>18, <1>19, <1>20, Zenon DEF Middle

\* What the chain of an order has executed after the fill.
LEMMA ChainAfter ==
    ASSUME NEW st, NEW r, NEW x, NEW q, LegReady(st, x, q),
           DOMAIN r.orders = DOMAIN st.orders,
           \A k \in DOMAIN st.orders : r.orders[k].chain = st.orders[k].chain,
           \A k \in DOMAIN st.orders : k # x.id /\ ~IsLive(st.orders[k])
                => r.orders[k] = st.orders[k],
           r.orders[x.id].notional = st.orders[x.id].notional + x.notional
    PROVE  ChainExecuted(r, x.id) = x.prior + x.notional
<1>. DEFINE i == x.id
            S == Chain(st, i)
            f == [k \in S |-> st.orders[k].notional]
            g == [k \in S |-> r.orders[k].notional]
<1>1. /\ Typed(st) /\ Chained(st) /\ i \in DOMAIN st.orders
      /\ IsLive(st.orders[i]) /\ x.notional \in Nat
      /\ x.prior = SumFunction(f)
  BY DEF LegReady, LegNumbers, Sound, SoundBut, ChainExecuted
<1>2. Chain(r, i) = S /\ i \in S
  BY <1>1 DEF Chain
<1>3. IsFiniteSet(S)
  <2>1. IsFiniteSet(1 .. Len(st.orders))
    BY <1>1, RowsDomain, FS_Interval
  <2>. QED
    BY <1>1, <2>1, RowsDomain, FS_Subset DEF Chain
<1>4. \A k \in S \ {i} : k \in DOMAIN st.orders /\ ~IsLive(st.orders[k])
  BY <1>1 DEF Chain, Chained
<1>5. \A k \in S \ {i} : g[k] = f[k]
  BY <1>4
<1>6. \A k \in S : st.orders[k].notional \in Nat
  BY <1>1 DEF Chain, Typed, OrderRow
<1>7. f \in [S -> Int] /\ g \in [S -> Int] /\ f[i] \in Nat
      /\ g[i] = f[i] + x.notional
  <2>1. \A k \in S : g[k] \in Int /\ f[k] \in Int
    BY <1>1, <1>2, <1>5, <1>6
  <2>. QED
    BY <1>2, <1>6, <2>1
<1>8. SumFunction(g) = ChainExecuted(r, i)
  BY <1>2 DEF ChainExecuted
<1>. HIDE DEF S, f, g, i
<1>9. SumFunction(g) = SumFunction(f) + (g[i] - f[i])
  BY <1>2, <1>3, <1>5, <1>7, SumOneChanges
<1>10. SumFunction(f) \in Int
  BY <1>3, <1>7, SumIsInt
<1>11. ChainExecuted(r, i) = x.prior + x.notional
  BY <1>1, <1>7, <1>8, <1>9, <1>10
<1>. QED
  BY <1>11 DEF i
----------------------------------------------------------------------------
\* The rows after a fill.
FillRows(st, r, q, m, t, kind) ==
    LET ua == st.orders[m.id].owner
        ub == st.orders[t.id].owner
        ids == {m.id, t.id}
    IN  /\ DOMAIN r = Fields /\ SameEvents(st, r)
        /\ IsRows(r.orders, Len(st.orders)) /\ IsRows(r.resv, Len(st.orders))
        /\ LegDone(st, r, m, q) /\ LegDone(st, r, t, q)
        /\ \A j \in (1 .. Len(st.orders)) \ ids : /\ r.orders[j] = st.orders[j]
                                                  /\ r.resv[j] = st.resv[j]
        /\ r.balance \in [Users -> Nat] /\ r.pos \in [Users -> Position]
        /\ r.acct \in [Accounts -> Nat]
        /\ OtherAccounts(st, r, m, t)
        /\ r.acct[Collateral]
             = st.acct[Collateral] + CollateralPosting(kind, PayoutMilli, q)
        /\ \A v \in Users \ {ua, ub} : /\ r.balance[v] = st.balance[v]
                                       /\ r.pos[v] = st.pos[v]
        /\ r.supply.yes = st.supply.yes + SupplyGrowth(kind, q)
        /\ r.supply.no = st.supply.no + SupplyGrowth(kind, q)

\* A leg that is done stays done when the other order is updated.
LEMMA DoneStays ==
    ASSUME NEW st, NEW s, NEW r, NEW x, NEW q, LegDone(st, s, x, q),
           r.orders[x.id] = s.orders[x.id], r.resv[x.id] = s.resv[x.id],
           r.acct[Escrow(x.id)] = s.acct[Escrow(x.id)],
           r.acct[Wallet(st.orders[x.id].owner)]
             = s.acct[Wallet(st.orders[x.id].owner)],
           r.balance[st.orders[x.id].owner] = s.balance[st.orders[x.id].owner],
           r.pos[st.orders[x.id].owner] = s.pos[st.orders[x.id].owner]
    PROVE  LegDone(st, r, x, q)
BY DEF LegDone

LEMMA FillUpdates ==
    ASSUME NEW st, NEW q, NEW m, NEW t, NEW kind, Meet(st, q, m, t, kind),
           NEW s4, Middle(st, s4, q, m, t, kind),
           NEW s5, Supplied(s4, s5, kind, q),
           NEW s6, s6 = UpdateFilledOrder(s5, m.id, q, m.notional, m.fee, m.prior),
           NEW r, r = UpdateFilledOrder(s6, t.id, q, t.notional, t.fee, t.prior)
    PROVE  FillRows(st, r, q, m, t, kind)
<1>. DEFINE a == st.orders[m.id]
            b == st.orders[t.id]
            ua == a.owner
            ub == b.owner
            n == Len(st.orders)
<1>1. /\ LegReady(st, m, q) /\ LegReady(st, t, q) /\ Typed(st)
      /\ ua # ub /\ ua \in Users /\ ub \in Users /\ q \in Nat
      /\ m.id # t.id /\ m.id \in 1 .. n /\ t.id \in 1 .. n /\ n \in Nat
      /\ m.id \in 1 .. MaxOrders /\ t.id \in 1 .. MaxOrders
  BY MeetFacts
<1>2. /\ Wallet(ua) \in Accounts /\ Wallet(ub) \in Accounts
      /\ Escrow(m.id) \in Accounts /\ Escrow(t.id) \in Accounts
      /\ Collateral \in Accounts
      /\ Wallet(ub) \notin {Wallet(ua), Escrow(m.id)}
      /\ Escrow(t.id) \notin {Wallet(ua), Escrow(m.id)}
      /\ Wallet(ua) \notin {Wallet(ub), Escrow(t.id)}
      /\ Escrow(m.id) \notin {Wallet(ub), Escrow(t.id)}
      /\ Collateral \notin {Wallet(ua), Escrow(m.id), Wallet(ub), Escrow(t.id)}
  BY <1>1, AccountNames
<1>3. /\ Keeps(st, s5, {"balance", "acct", "pos", "supply"})
      /\ s5.balance = s4.balance /\ s5.acct = s4.acct /\ s5.pos = s4.pos
      /\ s5.orders = st.orders /\ s5.resv = st.resv /\ DOMAIN s5 = Fields
      /\ s5.supply.yes = st.supply.yes + SupplyGrowth(kind, q)
      /\ s5.supply.no = st.supply.no + SupplyGrowth(kind, q)
  BY DEF Middle, Supplied, Keeps, Fields
<1>4. /\ LegPending(st, s5, m) /\ LegPending(st, s5, t)
      /\ s5.pos[ua] = Traded(st.pos[ua], a, q)
      /\ s5.pos[ub] = Traded(st.pos[ub], b, q)
      /\ s5.pos \in [Users -> Position]
      /\ OtherAccounts(st, s5, m, t)
      /\ s5.acct[Collateral]
           = st.acct[Collateral] + CollateralPosting(kind, PayoutMilli, q)
      /\ \A v \in Users \ {ua, ub} :
            s5.balance[v] = st.balance[v] /\ s5.pos[v] = st.pos[v]
  <2>1. LegPending(st, s5, m) /\ LegPending(st, s5, t)
    BY <1>3, Zenon DEF Middle, LegPending, LegPosted, Keeps, Fields
  <2>. QED
    BY <1>3, <2>1, Zenon DEF Middle, OtherAccounts
<1>5. UpdateRows(s5, s6, m.id, ua, q, m.notional, m.fee, m.prior)
  <2>1. LegRows(s5, m.id, ua, q, m.notional, m.fee, m.prior)
    BY <1>1, <1>4, PendingRows
  <2>. QED
    BY <2>1, UpdateWorks
<1>6. LegDone(st, s6, m, q)
  BY <1>1, <1>4, <1>5, PendingDone, Zenon
<1>7. /\ Keeps(s5, s6, {"balance", "acct", "resv", "orders"})
      /\ IsRows(s6.orders, n) /\ IsRows(s6.resv, n)
      /\ \A j \in (1 .. n) \ {m.id} : /\ s6.resv[j] = st.resv[j]
                                      /\ s6.orders[j] = st.orders[j]
      /\ s6.balance \in [Users -> Nat] /\ s6.acct \in [Accounts -> Nat]
      /\ \A c \in Accounts \ {Wallet(ua), Escrow(m.id)} : s6.acct[c] = s5.acct[c]
      /\ \A v \in Users \ {ua} : s6.balance[v] = s5.balance[v]
  BY <1>3, <1>5, Zenon DEF UpdateRows
<1>8. LegPending(st, s6, t)
  <2>1. DOMAIN s6 = Fields
    BY <1>7 DEF Keeps
  <2>2. LegPosted(st, s6, t)
    BY <1>2, <1>4, <1>7, Zenon DEF LegPending, LegPosted
  <2>. QED
    BY <1>1, <1>4, <1>7, <2>1, <2>2, Zenon DEF LegPending
<1>9. s6.pos = s5.pos
  BY <1>7 DEF Keeps, Fields
<1>10. UpdateRows(s6, r, t.id, ub, q, t.notional, t.fee, t.prior)
  <2>1. LegRows(s6, t.id, ub, q, t.notional, t.fee, t.prior)
    BY <1>1, <1>8, PendingRows
  <2>. QED
    BY <2>1, UpdateWorks
<1>11. LegDone(st, r, t, q)
  <2>1. s6.pos[ub] = Traded(st.pos[ub], b, q)
    BY <1>4, <1>9
  <2>. QED
    BY <1>1, <1>8, <1>10, <2>1, PendingDone
<1>12. Len(s6.orders) = n
  BY <1>7 DEF IsRows
<1>13. /\ Keeps(s6, r, {"balance", "acct", "resv", "orders"})
       /\ IsRows(r.orders, n) /\ IsRows(r.resv, n)
       /\ \A j \in (1 .. n) \ {t.id} : /\ r.resv[j] = s6.resv[j]
                                       /\ r.orders[j] = s6.orders[j]
       /\ r.balance \in [Users -> Nat] /\ r.acct \in [Accounts -> Nat]
       /\ \A c \in Accounts \ {Wallet(ub), Escrow(t.id)} : r.acct[c] = s6.acct[c]
       /\ \A v \in Users \ {ub} : r.balance[v] = s6.balance[v]
  BY <1>10, <1>12 DEF UpdateRows
<1>14. r.pos = s6.pos
  BY <1>13 DEF Keeps, Fields
<1>15. LegDone(st, r, m, q)
  <2>1. /\ r.orders[m.id] = s6.orders[m.id] /\ r.resv[m.id] = s6.resv[m.id]
        /\ r.balance[ua] = s6.balance[ua] /\ r.pos[ua] = s6.pos[ua]
    BY <1>1, <1>13, <1>14
  <2>2. /\ r.acct[Escrow(m.id)] = s6.acct[Escrow(m.id)]
        /\ r.acct[Wallet(ua)] = s6.acct[Wallet(ua)]
    BY <1>2, <1>13, Zenon
  <2>. QED
    BY <1>6, <2>1, <2>2, DoneStays
<1>16. DOMAIN r = Fields /\ SameEvents(st, r) /\ r.supply = s5.supply
  <2>1. /\ s5.fault = st.fault /\ s5.offsets = st.offsets
        /\ s5.eventIndex = st.eventIndex
    BY <1>3 DEF Keeps, Fields
  <2>2. /\ DOMAIN s6 = Fields /\ s6.fault = s5.fault /\ s6.offsets = s5.offsets
        /\ s6.eventIndex = s5.eventIndex /\ s6.supply = s5.supply
    BY <1>7 DEF Keeps, Fields
  <2>3. /\ DOMAIN r = Fields /\ r.fault = s6.fault /\ r.offsets = s6.offsets
        /\ r.eventIndex = s6.eventIndex /\ r.supply = s6.supply
    BY <1>13 DEF Keeps, Fields
  <2>. QED
    BY <2>1, <2>2, <2>3 DEF SameEvents
<1>17. \A j \in (1 .. n) \ {m.id, t.id} : /\ r.orders[j] = st.orders[j]
                                          /\ r.resv[j] = st.resv[j]
  BY ZenonT(30), <1>7, <1>13
<1>18. OtherAccounts(st, r, m, t)
  BY ZenonT(30), <1>4, <1>7, <1>13 DEF OtherAccounts
<1>19. r.acct[Collateral]
         = st.acct[Collateral] + CollateralPosting(kind, PayoutMilli, q)
  BY <1>2, <1>4, <1>7, <1>13, Zenon
<1>20. \A v \in Users \ {ua, ub} : /\ r.balance[v] = st.balance[v]
                                   /\ r.pos[v] = st.pos[v]
  <2>1. ASSUME NEW v \in Users \ {ua, ub}
        PROVE  r.balance[v] = st.balance[v] /\ r.pos[v] = st.pos[v]
    <3>1. /\ s5.balance[v] = st.balance[v] /\ s5.pos[v] = st.pos[v]
          /\ s6.balance[v] = s5.balance[v] /\ r.balance[v] = s6.balance[v]
      BY <1>4, <1>7, <1>13, <2>1, Zenon
    <3>. QED
      BY <1>9, <1>14, <3>1
  <2>. QED
    BY <2>1
<1>21. r.pos \in [Users -> Position]
  BY <1>4, <1>9, <1>14
<1>. QED
  BY <1>3, <1>11, <1>13, <1>15, <1>16, <1>17, <1>18, <1>19, <1>20, <1>21, Zenon
     DEF FillRows

LEMMA FillWorks ==
    ASSUME NEW st, NEW q, NEW m, NEW t, NEW kind, Meet(st, q, m, t, kind),
           st.fault = "NONE", NEW r, r = SettleFill(st, q, m, t, kind)
    PROVE  \/ DOMAIN r = Fields /\ r.fault = "REFUSED"
           \/ FillRows(st, r, q, m, t, kind)
<1>. DEFINE a == m.order
            b == t.order
            s1 == Check(EnsureWallet(EnsureWallet(st, a.owner), b.owner),
                        \A leg \in {m, t} : leg.order.action = "SELL"
                                                => leg.fee <= leg.notional,
                        "BROKEN")
            s2 == CreateJournal(s1, FillPostings(st, q, m, t, kind))
            s3 == CreditSeller(CreditSeller(s2, a, m.amt), b, t.amt)
            s4 == ApplyPositionLeg(ApplyPositionLeg(s3, a, q), b, q)
            s5 == ApplySupply(s4, kind, q)
            s6 == UpdateFilledOrder(s5, m.id, q, m.notional, m.fee, m.prior)
            s7 == UpdateFilledOrder(s6, t.id, q, t.notional, t.fee, t.prior)
<1>1. r = s7
  BY DEF SettleFill, FillPostings
<1>2. /\ LegReady(st, m, q) /\ LegReady(st, t, q) /\ Typed(st)
      /\ a = st.orders[m.id] /\ b = st.orders[t.id]
      /\ m.fee <= m.notional /\ t.fee <= t.notional
  BY DEF Meet, LegReady, LegNumbers, Sound, SoundBut
<1>3. s1 = st
  <2>1. /\ st.acct[Wallet(a.owner)] = st.balance[a.owner]
        /\ st.acct[Wallet(b.owner)] = st.balance[b.owner]
    BY <1>2, LegHolds
  <2>. QED
    BY <1>2, <2>1 DEF EnsureWallet, Check
<1>. HIDE DEF s1, s7, a, b
<1>4. Middle(st, s4, q, m, t, kind)
  BY <1>2, <1>3, FillMiddle
<1>. HIDE DEF s4
<1>5. /\ DOMAIN s4 = Fields /\ s4.fault = "NONE" /\ s4.supply = st.supply
  BY <1>4 DEF Middle, Keeps, Fields
<1>6. \/ DOMAIN s5 = Fields /\ s5.fault = "REFUSED"
      \/ Supplied(s4, s5, kind, q)
  <2>1. /\ st.supply.yes \in Nat /\ st.supply.no \in Nat /\ q \in Nat
        /\ kind = "BURN" => st.supply.yes >= q /\ st.supply.no >= q
    BY <1>2, MeetKinds, BurnOwned DEF Typed
  <2>. QED
    BY <1>5, <2>1, SupplyWorks
<1>7. CASE DOMAIN s5 = Fields /\ s5.fault = "REFUSED"
  <2>. HIDE DEF s5
  <2>1. Stays(s5, s6) /\ Stays(s6, s7)
    BY UpdateStays DEF s7
  <2>. HIDE DEF s6
  <2>. QED
    BY <1>1, <1>7, <2>1 DEF Stays
<1>8. CASE Supplied(s4, s5, kind, q)
  <2>. HIDE DEF s5
  <2>1. FillRows(st, s7, q, m, t, kind)
    BY <1>4, <1>8, FillUpdates DEF s7
  <2>. QED
    BY <1>1, <2>1
<1>. QED
  BY <1>6, <1>7, <1>8

\* The contracts delivered are what the supply grows by.
LEMMA FillSupply ==
    ASSUME NEW st, NEW q, NEW m, NEW t, NEW kind, Meet(st, q, m, t, kind),
           NEW r, FillRows(st, r, q, m, t, kind)
    PROVE  /\ SupplyCollateralized(r)
           /\ r.supply.yes \in Nat /\ r.supply.no \in Nat
<1>. DEFINE a == st.orders[m.id]
            b == st.orders[t.id]
            ua == a.owner
            ub == b.owner
            g == SupplyGrowth(kind, q)
<1>1. /\ LegReady(st, m, q) /\ LegReady(st, t, q) /\ Typed(st)
      /\ SupplyCollateralized(st)
      /\ ua # ub /\ ua \in Users /\ ub \in Users /\ q \in Nat /\ q > 0
      /\ a.action \in {"BUY", "SELL"} /\ b.action \in {"BUY", "SELL"}
      /\ a.outcome \in {"YES", "NO"} /\ b.outcome \in {"YES", "NO"}
      /\ a.action = b.action => a.outcome # b.outcome
      /\ a.action # b.action => a.outcome = b.outcome
      /\ kind = "MINT" <=> a.action = "BUY" /\ b.action = "BUY"
      /\ kind = "BURN" <=> a.action = "SELL" /\ b.action = "SELL"
  <2>1. SupplyCollateralized(st)
    BY MeetFacts DEF Sound, SoundBut
  <2>2. /\ a.action = b.action => a.outcome # b.outcome
        /\ a.action # b.action => a.outcome = b.outcome
    BY DEF Meet
  <2>. QED
    BY <2>1, <2>2, MeetKinds, MeetFacts
<1>2. /\ Delivered(a, "YES", q) + Delivered(b, "YES", q) = g
      /\ Delivered(a, "NO", q) + Delivered(b, "NO", q) = g
      /\ Delivered(a, "YES", q) \in Int /\ Delivered(b, "YES", q) \in Int
      /\ Delivered(a, "NO", q) \in Int /\ Delivered(b, "NO", q) \in Int
      /\ g \in Int
  BY <1>1 DEF Delivered, SupplyGrowth
<1>3. /\ r.pos[ua].yes = st.pos[ua].yes + Delivered(a, "YES", q)
      /\ r.pos[ua].no = st.pos[ua].no + Delivered(a, "NO", q)
      /\ r.pos[ub].yes = st.pos[ub].yes + Delivered(b, "YES", q)
      /\ r.pos[ub].no = st.pos[ub].no + Delivered(b, "NO", q)
  <2>1. Offered(st.pos[ua], a, q) /\ Offered(st.pos[ub], b, q)
    BY <1>1, LegHolds
  <2>2. /\ r.pos[ua] = Traded(st.pos[ua], a, q)
        /\ r.pos[ub] = Traded(st.pos[ub], b, q)
    BY Zenon DEF FillRows, LegDone
  <2>3. ASSUME NEW o, NEW p, Offered(p, o, q)
        PROVE  /\ Traded(p, o, q).yes = p.yes + Delivered(o, "YES", q)
               /\ Traded(p, o, q).no = p.no + Delivered(o, "NO", q)
    BY <1>1, <2>3, TradedShares
  <2>. HIDE DEF a, b
  <2>. QED
    BY <2>1, <2>2, <2>3
<1>. DEFINE yes(s) == [u \in Users |-> s.pos[u].yes]
            no(s) == [u \in Users |-> s.pos[u].no]
<1>4. /\ IsFiniteSet(Users)
      /\ yes(st) \in [Users -> Int] /\ yes(r) \in [Users -> Int]
      /\ no(st) \in [Users -> Int] /\ no(r) \in [Users -> Int]
      /\ yes(st) \in [Users -> Nat] /\ no(st) \in [Users -> Nat]
  <2>1. IsFiniteSet(Users)
    BY ExchangeAssumption
  <2>2. st.pos \in [Users -> Position] /\ r.pos \in [Users -> Position]
    BY <1>1 DEF FillRows, Typed
  <2>3. ASSUME NEW s, s.pos \in [Users -> Position]
        PROVE  /\ yes(s) \in [Users -> Nat] /\ no(s) \in [Users -> Nat]
               /\ yes(s) \in [Users -> Int] /\ no(s) \in [Users -> Int]
    BY <2>3 DEF Position
  <2>. HIDE DEF yes, no
  <2>. QED
    BY <2>1, <2>2, <2>3
<1>5. /\ \A u \in Users \ {ua, ub} : yes(r)[u] = yes(st)[u] /\ no(r)[u] = no(st)[u]
      /\ yes(r)[ua] = r.pos[ua].yes /\ yes(r)[ub] = r.pos[ub].yes
      /\ no(r)[ua] = r.pos[ua].no /\ no(r)[ub] = r.pos[ub].no
      /\ yes(st)[ua] = st.pos[ua].yes /\ yes(st)[ub] = st.pos[ub].yes
      /\ no(st)[ua] = st.pos[ua].no /\ no(st)[ub] = st.pos[ub].no
      /\ yes(st)[ua] \in Nat /\ yes(st)[ub] \in Nat
      /\ no(st)[ua] \in Nat /\ no(st)[ub] \in Nat
  BY <1>1, <1>4, Zenon DEF FillRows
<1>6. /\ st.supply.yes = SumFunction(yes(st)) /\ st.supply.no = SumFunction(no(st))
      /\ st.supply.yes = st.supply.no /\ st.supply.yes \in Nat
      /\ st.acct[Collateral] = PayoutMilli * st.supply.yes
  BY <1>1 DEF SupplyCollateralized, Typed
<1>7. /\ r.supply.yes = st.supply.yes + g /\ r.supply.no = st.supply.no + g
      /\ r.acct[Collateral] = st.acct[Collateral] + PayoutMilli * g
  BY FillBalances DEF FillRows
<1>8. st.supply.yes + g \in Nat
  <2>1. CASE kind = "BURN"
    BY <1>1, <1>6, <2>1, BurnOwned DEF SupplyGrowth
  <2>2. CASE kind # "BURN"
    BY <1>1, <1>6, <2>2 DEF SupplyGrowth
  <2>. QED
    BY <2>1, <2>2
<1>9. /\ SumFunction(yes(r)) = SumFunction(yes(st))
            + (yes(r)[ua] - yes(st)[ua]) + (yes(r)[ub] - yes(st)[ub])
      /\ SumFunction(no(r)) = SumFunction(no(st))
            + (no(r)[ua] - no(st)[ua]) + (no(r)[ub] - no(st)[ub])
  <2>. HIDE DEF yes, no, ua, ub
  <2>. QED
    BY <1>1, <1>4, <1>5, SumTwoChange
<1>10. SupplyCollateralized(r) <=>
         /\ r.supply.yes = SumFunction(yes(r)) /\ r.supply.no = SumFunction(no(r))
         /\ r.supply.yes = r.supply.no
         /\ r.acct[Collateral] = PayoutMilli * r.supply.yes
  BY DEF SupplyCollateralized
<1>. HIDE DEF yes, no, ua, ub, a, b, g
<1>11. r.supply.yes = SumFunction(yes(r)) /\ r.supply.no = SumFunction(no(r))
  <2>1. /\ yes(r)[ua] - yes(st)[ua] = Delivered(a, "YES", q)
        /\ yes(r)[ub] - yes(st)[ub] = Delivered(b, "YES", q)
        /\ no(r)[ua] - no(st)[ua] = Delivered(a, "NO", q)
        /\ no(r)[ub] - no(st)[ub] = Delivered(b, "NO", q)
    BY <1>2, <1>3, <1>5
  <2>2. SumFunction(yes(st)) \in Int /\ SumFunction(no(st)) \in Int
    BY <1>6
  <2>3. /\ SumFunction(yes(r)) = SumFunction(yes(st)) + g
        /\ SumFunction(no(r)) = SumFunction(no(st)) + g
    BY <1>2, <1>9, <2>1, <2>2
  <2>. QED
    BY <1>6, <1>7, <2>3
<1>12. r.acct[Collateral] = PayoutMilli * r.supply.yes
  <2>1. PayoutMilli \in Nat
    BY PayoutAssumption
  <2>. QED
    BY <1>2, <1>6, <1>7, <2>1
<1>. QED
  BY <1>6, <1>7, <1>8, <1>10, <1>11, <1>12

LEMMA FillSound ==
    ASSUME NEW st, NEW q, NEW m, NEW t, NEW kind, Meet(st, q, m, t, kind),
           NEW r, FillRows(st, r, q, m, t, kind)
    PROVE  Sound(r)
<1>. DEFINE D == {m.id, t.id}
            ua == st.orders[m.id].owner
            ub == st.orders[t.id].owner
<1>1. /\ LegReady(st, m, q) /\ LegReady(st, t, q) /\ Typed(st) /\ Chained(st)
      /\ ua # ub /\ ua \in Users /\ ub \in Users
      /\ m.id # t.id /\ D \subseteq DOMAIN st.orders
      /\ D \subseteq 1 .. MaxOrders
      /\ IsLive(st.orders[m.id]) /\ IsLive(st.orders[t.id])
      /\ DOMAIN st.orders = 1 .. Len(st.orders) /\ Len(st.orders) \in Nat
  BY MeetKinds, RowsDomain, Zenon
     DEF Meet, LegReady, Sound, SoundBut, Typed, OrderRow
<1>2. /\ LegDone(st, r, m, q) /\ LegDone(st, r, t, q)
      /\ \A j \in DOMAIN st.orders \ D : /\ r.orders[j] = st.orders[j]
                                         /\ r.resv[j] = st.resv[j]
      /\ DOMAIN r.orders = DOMAIN st.orders
  BY <1>1 DEF FillRows, IsRows
<1>3. ASSUME NEW x \in {m, t}
      PROVE  /\ r.orders[x.id].chain = st.orders[x.id].chain
             /\ r.orders[x.id].notional = st.orders[x.id].notional + x.notional
  <2>1. /\ OrderRow(st.orders[x.id]) /\ q \in 1 .. st.orders[x.id].rem
        /\ x.notional \in Nat /\ x.fee \in Nat
        /\ r.orders[x.id] = FilledOrder(st.orders[x.id], q, x.notional, x.fee)
    BY <1>1, <1>2, Zenon DEF LegDone, LegReady, LegNumbers, Typed
  <2>. QED
    BY <2>1, FilledRow
<1>4. \A k \in DOMAIN st.orders : r.orders[k].chain = st.orders[k].chain
  BY <1>2, <1>3
<1>5. ASSUME NEW x \in {m, t}
      PROVE  ChainExecuted(r, x.id) = x.prior + x.notional
  <2>1. \A k \in DOMAIN st.orders : k # x.id /\ ~IsLive(st.orders[k])
            => r.orders[k] = st.orders[k]
    BY <1>1, <1>2
  <2>2. LegReady(st, x, q)
    BY <1>1
  <2>3. r.orders[x.id].notional = st.orders[x.id].notional + x.notional
    BY <1>3
  <2>. QED
    BY <1>2, <1>4, <2>1, <2>2, <2>3, ChainAfter
<1>6. \A x \in {m, t} : OrderChange(st, r, x.id)
  BY <1>1, <1>2, <1>5, LegOrder
<1>7. \A x \in {m, t} : OwnerChange(st, r, x.id, st.orders[x.id].owner)
  BY <1>1, <1>2, LegOwner
<1>8. \A i \in D : OrderChange(st, r, i)
                   /\ OwnerChange(st, r, i, st.orders[i].owner)
  BY <1>6, <1>7
<1>9. Changes(st, r, D)
  <2>1. \A i \in (1 .. MaxOrders) \ D :
           Escrow(i) \in Accounts \ {Wallet(ua), Escrow(m.id), Wallet(ub),
                                     Escrow(t.id), Collateral, Revenue}
    BY <1>1, AccountNames
  <2>2. \A v \in Users \ {ua, ub} :
           Wallet(v) \in Accounts \ {Wallet(ua), Escrow(m.id), Wallet(ub),
                                     Escrow(t.id), Collateral, Revenue}
    BY <1>1, AccountNames
  <2>3. /\ \A i \in (1 .. MaxOrders) \ D : r.acct[Escrow(i)] = st.acct[Escrow(i)]
        /\ \A v \in Users \ {ua, ub} : r.acct[Wallet(v)] = st.acct[Wallet(v)]
    BY <2>1, <2>2 DEF FillRows, OtherAccounts
  <2>. QED
    BY <1>1, <1>2, <2>3 DEF Changes, FillRows
<1>10. SoundBut(st, D)
  BY <1>1 DEF LegReady, Sound, SoundBut
<1>. QED
  BY <1>8, <1>9, <1>10, FillSupply, ChangesSound
----------------------------------------------------------------------------
\* Numbering an event changes no row.
LEMMA SameRowsSound ==
    ASSUME NEW st, Sound(st), NEW r,
           Keeps(st, r, {"fault", "offsets", "eventIndex"})
    PROVE  Sound(r) /\ r.orders = st.orders
<1>1. /\ r.balance = st.balance /\ r.acct = st.acct /\ r.orders = st.orders
      /\ r.resv = st.resv /\ r.pos = st.pos /\ r.supply = st.supply
      /\ DOMAIN r = Fields
  BY DEF Keeps, Fields
<1>2. Typed(st) /\ SupplyCollateralized(st)
  BY DEF Sound, SoundBut
<1>3. Changes(st, r, {})
  <2>1. /\ IsRows(st.orders, Len(st.orders)) /\ IsRows(st.resv, Len(st.orders))
        /\ st.balance \in [Users -> Nat] /\ st.pos \in [Users -> Position]
        /\ st.acct \in [Accounts -> Nat]
    BY <1>2 DEF Typed
  <2>. QED
    BY <1>1, <2>1 DEF Changes
<1>4. SupplyCollateralized(r) /\ r.supply.yes \in Nat /\ r.supply.no \in Nat
  BY <1>1, <1>2 DEF SupplyCollateralized, Typed
<1>5. SoundBut(st, {})
  BY DEF Sound
<1>. QED
  BY <1>1, <1>3, <1>4, <1>5, ChangesSound

\* A transaction under way: nothing failed, and its events are numbered from
\* the first on.
Numbers(n) == [k \in 1 .. n |-> k]

Running(st) ==
    /\ Sound(st) /\ st.fault = "NONE"
    /\ st.eventIndex \in Nat /\ st.offsets = Numbers(st.eventIndex)

Refused(st) == DOMAIN st = Fields /\ st.fault = "REFUSED"

LEMMA NumberNext ==
    ASSUME NEW n \in Nat
    PROVE  Append(Numbers(n), n + 1) = Numbers(n + 1)
<1>1. /\ Numbers(n) \in Seq(Nat) /\ Len(Numbers(n)) = n
      /\ \A k \in 1 .. n : Numbers(n)[k] = k
  BY DEF Numbers
<1>2. /\ Numbers(n + 1) \in Seq(Nat) /\ Len(Numbers(n + 1)) = n + 1
      /\ \A k \in 1 .. n + 1 : Numbers(n + 1)[k] = k
  BY DEF Numbers
<1>. HIDE DEF Numbers
<1>. QED
  BY <1>1, <1>2

LEMMA EmitRuns ==
    ASSUME NEW st, Running(st), NEW r, r = EmitNext(st)
    PROVE  Running(r) /\ r.orders = st.orders
<1>. DEFINE n == st.eventIndex
<1>1. DOMAIN st = Fields /\ n \in Nat /\ st.offsets = Numbers(n)
  BY DEF Running, Sound, SoundBut, Typed
<1>2. r = [[st EXCEPT !.offsets = Append(@, n + 1)] EXCEPT !.eventIndex = n + 1]
  BY DEF EmitNext, Emit
<1>. HIDE DEF n
<1>3. /\ Keeps(st, r, {"fault", "offsets", "eventIndex"})
      /\ r.fault = st.fault /\ r.offsets = Append(st.offsets, n + 1)
      /\ r.eventIndex = n + 1
  BY <1>1, <1>2 DEF Keeps, Fields
<1>4. Sound(r) /\ r.orders = st.orders
  BY <1>3, SameRowsSound DEF Running
<1>5. r.offsets = Numbers(n + 1)
  BY <1>1, <1>3, NumberNext
<1>. QED
  BY <1>1, <1>3, <1>4, <1>5 DEF Running

LEMMA SameEventsRun ==
    ASSUME NEW st, Running(st), NEW r, Sound(r), SameEvents(st, r)
    PROVE  Running(r)
BY DEF Running, SameEvents

LEMMA PreventRuns ==
    ASSUME NEW st, Running(st), NEW i \in DOMAIN st.orders, IsLive(st.orders[i]),
           NEW r, r = PreventStep(st, i)
    PROVE  /\ Running(r) /\ DOMAIN r.orders = DOMAIN st.orders
           /\ r.orders[i] = CanceledOrder(st.orders[i]) /\ ~IsLive(r.orders[i])
           /\ \A j \in DOMAIN st.orders \ {i} : r.orders[j] = st.orders[j]
<1>. DEFINE s == CancelRemainder(st, i)
<1>1. Sound(st)
  BY DEF Running
<1>2. /\ Sound(s) /\ SameEvents(st, s) /\ DOMAIN s.orders = DOMAIN st.orders
      /\ s.orders[i] = CanceledOrder(st.orders[i]) /\ ~IsLive(s.orders[i])
      /\ \A j \in DOMAIN st.orders \ {i} : s.orders[j] = st.orders[j]
  BY <1>1, CancelStep
<1>3. r = EmitNext(s)
  BY DEF PreventStep
<1>. HIDE DEF s
<1>4. Running(s)
  BY <1>2, SameEventsRun
<1>5. Running(r) /\ r.orders = s.orders
  BY <1>3, <1>4, EmitRuns
<1>. QED
  BY <1>2, <1>5
----------------------------------------------------------------------------
\* One fill of the matcher: two orders on different sides, of different
\* owners, at the maker's price.
CanFill(st, fill) ==
    LET a == st.orders[fill.maker]
        b == st.orders[fill.taker]
    IN  /\ fill.maker \in DOMAIN st.orders /\ fill.taker \in DOMAIN st.orders
        /\ IsLive(a) /\ IsLive(b)
        /\ a.owner # b.owner /\ a.side # b.side
        /\ fill.price = a.price /\ BetterFor(b, fill.price)
        /\ fill.qty \in 1 .. a.rem /\ fill.qty \in 1 .. b.rem

LEMMA LegsMeet ==
    ASSUME NEW st, Sound(st), NEW fill, CanFill(st, fill),
           NEW m, m = FillLeg(st, fill, fill.maker),
           NEW t, t = FillLeg(st, fill, fill.taker),
           NEW kind, kind = FillKind(st.orders[fill.maker], st.orders[fill.taker])
    PROVE  Meet(st, fill.qty, m, t, kind)
<1>. DEFINE a == st.orders[fill.maker]
            b == st.orders[fill.taker]
            q == fill.qty
            p == fill.price
<1>1. /\ Typed(st) /\ OrderRow(a) /\ OrderRow(b)
      /\ fill.maker \in DOMAIN st.orders /\ fill.taker \in DOMAIN st.orders
      /\ IsLive(a) /\ IsLive(b) /\ a.owner # b.owner /\ a.side # b.side
      /\ q \in 1 .. a.rem /\ q \in 1 .. b.rem
      /\ p = a.price /\ BetterFor(b, p)
  BY DEF CanFill, Sound, SoundBut, Typed
<1>2. /\ p \in Prices /\ p \in Int /\ q \in Nat /\ q > 0 /\ BetterFor(a, p)
  BY <1>1 DEF OrderRow, BetterFor, Prices
<1>3. /\ LegNumbers(m, a, fill.maker, q) /\ m.prior = ChainExecuted(st, fill.maker)
      /\ m.notional = UserPrice(a.outcome, p, PayoutMilli) * q
  BY <1>1, <1>2, LegWorks
<1>4. /\ LegNumbers(t, b, fill.taker, q) /\ t.prior = ChainExecuted(st, fill.taker)
      /\ t.notional = UserPrice(b.outcome, p, PayoutMilli) * q
  BY <1>1, <1>2, LegWorks
<1>5. m.id = fill.maker /\ t.id = fill.taker
  BY <1>3, <1>4 DEF LegNumbers
<1>6. LegReady(st, m, q) /\ LegReady(st, t, q)
  BY <1>1, <1>3, <1>4, <1>5 DEF LegReady
<1>7. /\ a.action = b.action => a.outcome # b.outcome
      /\ a.action # b.action => a.outcome = b.outcome
  BY <1>1 DEF OrderRow, Outcomes, Sides, Opposite
<1>8. a.outcome \in {"YES", "NO"} /\ b.outcome \in {"YES", "NO"}
  BY <1>1 DEF OrderRow, Outcomes
<1>9. p * q + (PayoutMilli - p) * q = PayoutMilli * q
  <2>1. PayoutMilli \in Int /\ p \in Int /\ q \in Int
    BY <1>2, PayoutAssumption
  <2>. HIDE DEF p, q
  <2>. QED
    BY <2>1
<1>10. (PayoutMilli - p) * q + p * q = PayoutMilli * q
  <2>1. PayoutMilli \in Int /\ p \in Int /\ q \in Int
    BY <1>2, PayoutAssumption
  <2>. HIDE DEF p, q
  <2>. QED
    BY <2>1
<1>. HIDE DEF a, b, p, q
<1>11. a.outcome # b.outcome => m.notional + t.notional = PayoutMilli * q
  BY <1>3, <1>4, <1>8, <1>9, <1>10 DEF UserPrice
<1>12. a.outcome = b.outcome => m.notional = t.notional
  BY <1>3, <1>4
<1>. QED
  BY <1>1, <1>5, <1>6, <1>7, <1>11, <1>12 DEF Meet, a, b, q

\* What a fill of q leaves of an order.
FilledBy(o, e, q) ==
    /\ OrderRow(e) /\ e.owner = o.owner /\ e.side = o.side /\ e.price = o.price
    /\ e.rem = o.rem - q /\ e.chain = o.chain /\ e.tif = o.tif

FillOrders(st, r, fill) ==
    /\ DOMAIN r.orders = DOMAIN st.orders
    /\ \A i \in {fill.maker, fill.taker} :
          FilledBy(st.orders[i], r.orders[i], fill.qty)
    /\ \A j \in DOMAIN st.orders \ {fill.maker, fill.taker} :
          r.orders[j] = st.orders[j]

LEMMA FillRuns ==
    ASSUME NEW st, Running(st), NEW fill, CanFill(st, fill),
           NEW r, r = FillStep(st, fill)
    PROVE  Refused(r) \/ (Running(r) /\ FillOrders(st, r, fill))
<1>. DEFINE s == ApplyFill(st, fill)
            m == FillLeg(st, fill, fill.maker)
            t == FillLeg(st, fill, fill.taker)
            kind == FillKind(st.orders[fill.maker], st.orders[fill.taker])
            q == fill.qty
<1>1. Sound(st) /\ st.fault = "NONE"
  BY DEF Running
<1>2. Meet(st, q, m, t, kind)
  BY <1>1, LegsMeet
<1>3. s = SettleFill(st, q, m, t, kind) /\ r = EmitNext(s)
  BY DEF ApplyFill, FillStep
<1>4. m.id = fill.maker /\ t.id = fill.taker
  BY DEF FillLeg
<1>. HIDE DEF s, m, t, kind
<1>5. \/ DOMAIN s = Fields /\ s.fault = "REFUSED"
      \/ FillRows(st, s, q, m, t, kind)
  BY <1>1, <1>2, <1>3, FillWorks
<1>6. CASE DOMAIN s = Fields /\ s.fault = "REFUSED"
  BY <1>3, <1>6, EventStays DEF Stays, Refused
<1>7. CASE FillRows(st, s, q, m, t, kind)
  <2>1. Running(s)
    BY <1>2, <1>7, FillSound, SameEventsRun DEF FillRows
  <2>2. Running(r) /\ r.orders = s.orders
    BY <1>3, <2>1, EmitRuns
  <2>3. /\ Typed(st) /\ LegReady(st, m, q) /\ LegReady(st, t, q)
        /\ DOMAIN st.orders = 1 .. Len(st.orders)
    BY <1>2, RowsDomain DEF Meet, LegReady, Sound, SoundBut
  <2>4. ASSUME NEW x \in {m, t}
        PROVE  FilledBy(st.orders[x.id], s.orders[x.id], q)
    <3>1. /\ OrderRow(st.orders[x.id]) /\ q \in 1 .. st.orders[x.id].rem
          /\ x.notional \in Nat /\ x.fee \in Nat
          /\ s.orders[x.id] = FilledOrder(st.orders[x.id], q, x.notional, x.fee)
      BY <1>7, <2>3, Zenon DEF FillRows, LegDone, LegReady, LegNumbers, Typed
    <3>. QED
      BY SMTT(20), <3>1, FilledRow DEF FilledBy
  <2>5. /\ DOMAIN s.orders = DOMAIN st.orders
        /\ \A j \in DOMAIN st.orders \ {m.id, t.id} : s.orders[j] = st.orders[j]
    BY <1>7, <2>3 DEF FillRows, IsRows
  <2>6. FillOrders(st, r, fill)
    BY <1>4, <2>2, <2>4, <2>5 DEF FillOrders
  <2>. QED
    BY <2>2, <2>6
<1>. QED
  BY <1>5, <1>6, <1>7
----------------------------------------------------------------------------
\* The loops of a command.  First the fills of the matcher, in their order.
FillAt(fills, acc, k) == FillStep(acc, fills[k])
Fills == INSTANCE FoldTheorems WITH Step <- FillAt, Pick <- Greatest

LEMMA FillLoopIs ==
    ASSUME NEW st, NEW fills, NEW n, DOMAIN fills = 1 .. n
    PROVE  FoldLeft(FillStep, st, fills) = Fills!Fold(fills, st, 1 .. n)
BY DEF FoldLeft, Fills!Fold, Fills!MapThenFoldSet, MapThenFoldSet, FillAt,
       Greatest

LEMMA GreatestInOrder ==
    ASSUME NEW n \in Nat, NEW T \in SUBSET (1 .. n), T # {}
    PROVE  Greatest(T) \in T /\ \A i \in T : i <= Greatest(T)
<1>1. IsFiniteSet(T)
  <2>1. IsFiniteSet(1 .. n)
    BY FS_Interval
  <2>. QED
    BY <2>1, FS_Subset
<1>2. T \subseteq Int
  OBVIOUS
<1>. QED
  BY <1>1, <1>2, FiniteHasGreatest DEF Greatest

\* What the matcher promises of its fills: left[k] is what remains of the
\* incoming order x after k of them.
Plan(st, fills, n, left, x) ==
    /\ n \in Nat /\ DOMAIN fills = 1 .. n /\ left \in [0 .. n -> Nat]
    /\ x \in DOMAIN st.orders /\ left[0] = st.orders[x].rem
    /\ \A k \in 1 .. n :
          /\ fills[k].taker = x
          /\ fills[k].maker \in DOMAIN st.orders \ {x}
          /\ IsLive(st.orders[fills[k].maker])
          /\ st.orders[fills[k].maker].owner # st.orders[x].owner
          /\ st.orders[fills[k].maker].side # st.orders[x].side
          /\ fills[k].price = st.orders[fills[k].maker].price
          /\ BetterFor(st.orders[x], fills[k].price)
          /\ fills[k].qty \in 1 .. st.orders[fills[k].maker].rem
          /\ left[k] = left[k - 1] - fills[k].qty
    /\ \A k, l \in 1 .. n : k # l => fills[k].maker # fills[l].maker

\* The orders after k fills.
AfterFills(st, r, fills, k, left, x) ==
    /\ DOMAIN r.orders = DOMAIN st.orders
    /\ r.orders[x].owner = st.orders[x].owner
    /\ r.orders[x].side = st.orders[x].side
    /\ r.orders[x].price = st.orders[x].price
    /\ r.orders[x].rem = left[k]
    /\ \A j \in DOMAIN st.orders \ {x} :
          (\A l \in 1 .. k : fills[l].maker # j) => r.orders[j] = st.orders[j]

LEMMA PlanGoesOn ==
    ASSUME NEW st, NEW fills, NEW n, NEW left, NEW x,
           Plan(st, fills, n, left, x), NEW k \in Nat, k + 1 <= n,
           NEW s, Running(s), AfterFills(st, s, fills, k, left, x)
    PROVE  CanFill(s, fills[k + 1])
<1>. DEFINE f == fills[k + 1]
            i == f.maker
<1>0. n \in Nat
  BY DEF Plan
<1>1. k + 1 \in 1 .. n /\ k \in 0 .. n
  BY <1>0
<1>2. /\ f.taker = x /\ i \in DOMAIN st.orders \ {x} /\ x \in DOMAIN st.orders
      /\ IsLive(st.orders[i])
      /\ st.orders[i].owner # st.orders[x].owner
      /\ st.orders[i].side # st.orders[x].side
      /\ f.price = st.orders[i].price /\ BetterFor(st.orders[x], f.price)
      /\ f.qty \in 1 .. st.orders[i].rem
      /\ left[k + 1] = left[(k + 1) - 1] - f.qty
  BY <1>1 DEF Plan
<1>3. s.orders[i] = st.orders[i]
  <2>1. ASSUME NEW l \in 1 .. k
        PROVE  l \in 1 .. n /\ l # k + 1
    BY <1>0, <2>1
  <2>2. \A l \in 1 .. k : fills[l].maker # i
    BY <1>1, <2>1 DEF Plan
  <2>. QED
    BY <1>2, <2>2 DEF AfterFills
<1>4. /\ s.orders[x].owner = st.orders[x].owner
      /\ s.orders[x].side = st.orders[x].side
      /\ s.orders[x].price = st.orders[x].price
      /\ s.orders[x].rem = left[k] /\ DOMAIN s.orders = DOMAIN st.orders
  BY DEF AfterFills
<1>5. /\ left[k] \in Nat /\ left[k + 1] \in Nat /\ (k + 1) - 1 = k
      /\ f.qty \in Int /\ f.qty >= 1
  <2>1. left \in [0 .. n -> Nat] /\ k + 1 \in 0 .. n
    BY <1>1 DEF Plan
  <2>2. OrderRow(s.orders[i])
    BY <1>2, <1>4 DEF Running, Sound, SoundBut, Typed
  <2>3. st.orders[i].rem \in Nat
    BY <1>3, <2>2 DEF OrderRow
  <2>. QED
    BY <1>1, <1>2, <2>1, <2>3
<1>6. f.qty \in 1 .. s.orders[x].rem
  BY <1>2, <1>4, <1>5
<1>7. IsLive(s.orders[x])
  <2>1. OrderRow(s.orders[x])
    BY <1>2, <1>4 DEF Running, Sound, SoundBut, Typed
  <2>2. s.orders[x].rem > 0
    BY <1>4, <1>5, <1>6
  <2>. QED
    BY <2>1, <2>2, LiveIs
<1>8. BetterFor(s.orders[x], f.price)
  BY <1>2, <1>4 DEF BetterFor
<1>. QED
  BY <1>2, <1>3, <1>4, <1>6, <1>7, <1>8 DEF CanFill

LEMMA FillsRun ==
    ASSUME NEW st, Running(st), NEW fills, NEW n, NEW left, NEW x,
           Plan(st, fills, n, left, x),
           NEW r, r = FoldLeft(FillStep, st, fills)
    PROVE  Refused(r) \/ (Running(r) /\ AfterFills(st, r, fills, n, left, x))
<1>. DEFINE R(k) == Fills!Fold(fills, st, 1 .. k)
            goes(k) == Running(R(k)) /\ AfterFills(st, R(k), fills, k, left, x)
            good == {k \in Nat : k <= n => Refused(R(k)) \/ goes(k)}
<1>1. /\ n \in Nat /\ DOMAIN fills = 1 .. n /\ x \in DOMAIN st.orders
      /\ left[0] = st.orders[x].rem
  BY DEF Plan
<1>2. 0 \in good
  <2>1. R(0) = st
    <3>1. 1 .. 0 = {}
      OBVIOUS
    <3>. QED
      BY <3>1, Fills!FoldEmpty
  <2>2. goes(0)
    <3>. HIDE DEF R
    <3>. QED
      BY <1>1, <2>1 DEF AfterFills
  <2>. QED
    BY <2>2
<1>3. ASSUME NEW k \in Nat, k \in good
      PROVE  k + 1 \in good
  <2>. SUFFICES ASSUME k + 1 <= n PROVE Refused(R(k + 1)) \/ goes(k + 1)
    OBVIOUS
  <2>1. R(k + 1) = FillStep(R(k), fills[k + 1])
    <3>1. Fills!InOrder(k + 1)
      <4>1. k + 1 \in Nat
        OBVIOUS
      <4>. QED
        BY <4>1, GreatestInOrder, RangeEnds DEF FamilyEnds, Fills!InOrder, Fills!Finite, Fills!Smallest
    <3>. QED
      BY <3>1, Fills!LoopLast DEF FillAt
  <2>. HIDE DEF R
  <2>2. Refused(R(k)) \/ goes(k)
    BY <1>1, <1>3
  <2>3. CASE Refused(R(k))
    BY <2>1, <2>3, StepStays DEF Refused, Stays
  <2>4. CASE goes(k)
    <3>. DEFINE f == fills[k + 1]
    <3>1. CanFill(R(k), f)
      BY <2>4, PlanGoesOn
    <3>2. \/ Refused(R(k + 1))
          \/ Running(R(k + 1)) /\ FillOrders(R(k), R(k + 1), f)
      BY <2>1, <2>4, <3>1, FillRuns
    <3>3. ASSUME Running(R(k + 1)), FillOrders(R(k), R(k + 1), f)
          PROVE  goes(k + 1)
      <4>1. /\ f.taker = x /\ left[k + 1] = left[k] - f.qty
            /\ f.maker # x
        <5>1. k + 1 \in 1 .. n /\ (k + 1) - 1 = k
          BY <1>1
        <5>. QED
          BY <5>1 DEF Plan
      <4>2. /\ FilledBy(R(k).orders[x], R(k + 1).orders[x], f.qty)
            /\ DOMAIN R(k + 1).orders = DOMAIN R(k).orders
            /\ \A j \in DOMAIN R(k).orders \ {f.maker, x} :
                  R(k + 1).orders[j] = R(k).orders[j]
        BY <3>3, <4>1 DEF FillOrders
      <4>3. ASSUME NEW j \in DOMAIN st.orders \ {x},
                   \A l \in 1 .. k + 1 : fills[l].maker # j
            PROVE  R(k + 1).orders[j] = st.orders[j]
        <5>1. k + 1 \in 1 .. k + 1 /\ \A l \in 1 .. k : l \in 1 .. k + 1
          OBVIOUS
        <5>2. f.maker # j /\ \A l \in 1 .. k : fills[l].maker # j
          BY <4>3, <5>1
        <5>3. R(k).orders[j] = st.orders[j] /\ j \in DOMAIN R(k).orders
          BY <2>4, <5>2 DEF AfterFills
        <5>. QED
          BY <4>2, <5>2, <5>3
      <4>. QED
        BY <2>4, <3>3, <4>1, <4>2, <4>3 DEF AfterFills, FilledBy
    <3>. QED
      BY <3>2, <3>3
  <2>. QED
    BY <2>2, <2>3, <2>4
<1>4. n \in good
  <2>. HIDE DEF good
  <2>1. good \subseteq Nat
    BY DEF good
  <2>2. Nat \subseteq good
    BY <1>2, <1>3, NatInduct
  <2>. QED
    BY <1>1, <2>2
<1>5. r = R(n)
  BY <1>1, FillLoopIs
<1>. HIDE DEF R
<1>. QED
  BY <1>1, <1>4, <1>5
----------------------------------------------------------------------------
\* The own orders self-trade prevention cancels.
PreventAt(ids, acc, k) == PreventStep(acc, ids[k])
Prevents == INSTANCE FoldTheorems WITH Step <- PreventAt, Pick <- Greatest

LEMMA PreventLoopIs ==
    ASSUME NEW st, NEW ids, NEW n, DOMAIN ids = 1 .. n
    PROVE  FoldLeft(PreventStep, st, ids) = Prevents!Fold(ids, st, 1 .. n)
BY DEF FoldLeft, Prevents!Fold, Prevents!MapThenFoldSet, MapThenFoldSet,
       PreventAt, Greatest

\* Distinct live orders, one after the other.
LiveIds(st, ids, n) ==
    /\ n \in Nat /\ DOMAIN ids = 1 .. n
    /\ \A k \in 1 .. n : ids[k] \in LiveOrders(st)
    /\ \A k, l \in 1 .. n : k # l => ids[k] # ids[l]

\* The orders that are not among the first k are as before.
OthersKept(st, r, ids, k) ==
    /\ DOMAIN r.orders = DOMAIN st.orders
    /\ \A j \in DOMAIN st.orders :
          (\A l \in 1 .. k : ids[l] # j) => r.orders[j] = st.orders[j]

LEMMA PreventsRun ==
    ASSUME NEW st, Running(st), NEW ids, NEW n, LiveIds(st, ids, n),
           NEW r, r = FoldLeft(PreventStep, st, ids)
    PROVE  Running(r) /\ OthersKept(st, r, ids, n)
<1>. DEFINE R(k) == Prevents!Fold(ids, st, 1 .. k)
            goes(k) == Running(R(k)) /\ OthersKept(st, R(k), ids, k)
            good == {k \in Nat : k <= n => goes(k)}
<1>1. n \in Nat /\ DOMAIN ids = 1 .. n
  BY DEF LiveIds
<1>2. 0 \in good
  <2>1. R(0) = st
    <3>1. 1 .. 0 = {}
      OBVIOUS
    <3>. QED
      BY <3>1, Prevents!FoldEmpty
  <2>2. goes(0)
    <3>. HIDE DEF R
    <3>. QED
      BY <1>1, <2>1 DEF OthersKept
  <2>. QED
    BY <2>2
<1>3. ASSUME NEW k \in Nat, k \in good
      PROVE  k + 1 \in good
  <2>. SUFFICES ASSUME k + 1 <= n PROVE goes(k + 1)
    OBVIOUS
  <2>1. R(k + 1) = PreventStep(R(k), ids[k + 1])
    <3>1. Prevents!InOrder(k + 1)
      <4>1. k + 1 \in Nat
        OBVIOUS
      <4>. QED
        BY <4>1, GreatestInOrder, RangeEnds DEF FamilyEnds, Prevents!InOrder, Prevents!Finite, Prevents!Smallest
    <3>. QED
      BY <3>1, Prevents!LoopLast DEF PreventAt
  <2>. HIDE DEF R
  <2>2. goes(k)
    BY <1>1, <1>3
  <2>. DEFINE i == ids[k + 1]
  <2>3. /\ k + 1 \in 1 .. n /\ \A l \in 1 .. k : l \in 1 .. n /\ l # k + 1
        /\ k + 1 \in 1 .. k + 1 /\ \A l \in 1 .. k : l \in 1 .. k + 1
    BY <1>1
  <2>4. /\ i \in DOMAIN st.orders /\ IsLive(st.orders[i])
        /\ \A l \in 1 .. k : ids[l] # i
    BY <2>3 DEF LiveIds, LiveOrders
  <2>5. /\ i \in DOMAIN R(k).orders /\ IsLive(R(k).orders[i])
        /\ DOMAIN R(k).orders = DOMAIN st.orders
    BY <2>2, <2>4 DEF OthersKept
  <2>6. /\ Running(R(k + 1)) /\ DOMAIN R(k + 1).orders = DOMAIN st.orders
        /\ \A j \in DOMAIN st.orders \ {i} : R(k + 1).orders[j] = R(k).orders[j]
    BY <2>1, <2>2, <2>5, PreventRuns
  <2>7. ASSUME NEW j \in DOMAIN st.orders, \A l \in 1 .. k + 1 : ids[l] # j
        PROVE  R(k + 1).orders[j] = st.orders[j]
    <3>1. i # j /\ \A l \in 1 .. k : ids[l] # j
      BY <2>3, <2>7
    <3>. QED
      BY <2>2, <2>6, <3>1 DEF OthersKept
  <2>. QED
    BY <2>6, <2>7 DEF OthersKept
<1>4. n \in good
  <2>. HIDE DEF good
  <2>1. Nat \subseteq good
    BY <1>2, <1>3, NatInduct DEF good
  <2>. QED
    BY <1>1, <2>1
<1>5. r = R(n)
  BY <1>1, PreventLoopIs
<1>. HIDE DEF R
<1>. QED
  BY <1>1, <1>4, <1>5

----------------------------------------------------------------------------
\* Cancelling a set of orders.
CancelAt(context, acc, i) == CancelRemainder(acc, i)
Cancels == INSTANCE FoldTheorems WITH Step <- CancelAt, Pick <- Greatest

LEMMA CancelLoopIs ==
    ASSUME NEW st, NEW ids, NEW first
    PROVE  CancelEach(st, ids, first) =
             [Cancels!Fold(0, st, ids) EXCEPT
                !.offsets = @ \o [k \in 1 .. Cardinality(ids) |-> k - 1 + first]]
BY DEF CancelEach, Cancels!Fold, Cancels!MapThenFoldSet, MapThenFoldSet,
       CancelAt, Greatest

\* The orders of T are cancelled, the others as before.
CanceledOf(st, r, T) ==
    /\ DOMAIN r.orders = DOMAIN st.orders
    /\ \A j \in DOMAIN st.orders :
          IF j \in T THEN ~IsLive(r.orders[j])
                     ELSE r.orders[j] = st.orders[j]

LEMMA CancelsSound ==
    ASSUME NEW st, Sound(st), NEW ids, ids \subseteq LiveOrders(st)
    PROVE  LET r == Cancels!Fold(0, st, ids)
           IN  Sound(r) /\ SameEvents(st, r) /\ CanceledOf(st, r, ids)
<1>. DEFINE R(T) == Cancels!Fold(0, st, T)
            done(T) == Sound(R(T)) /\ SameEvents(st, R(T))
                         /\ CanceledOf(st, R(T), T)
            good == {T \in SUBSET ids : done(T)}
<1>1. IsFiniteSet(ids) /\ ids \subseteq Int
  <2>1. /\ DOMAIN st.orders = 1 .. Len(st.orders) /\ Len(st.orders) \in Nat
        /\ ids \subseteq DOMAIN st.orders
    BY RowsDomain DEF Sound, SoundBut, LiveOrders
  <2>2. IsFiniteSet(1 .. Len(st.orders))
    BY <2>1, FS_Interval
  <2>. QED
    BY <2>1, <2>2, FS_Subset
<1>2. Cancels!Finite(ids) /\ Cancels!Picks(ids)
  BY <1>1, NumbersPicked, FiniteEnds DEF FamilyEnds, Cancels!Picks, Cancels!Finite, Cancels!Smallest
<1>3. {} \in good
  <2>1. R({}) = st
    BY Cancels!FoldEmpty
  <2>2. done({})
    <3>. HIDE DEF R
    <3>. QED
      BY <2>1 DEF SameEvents, CanceledOf
  <2>. QED
    BY <2>2
<1>4. ASSUME NEW T \in SUBSET ids, T # {}, Cancels!Rest(T) \in good
      PROVE  T \in good
  <2>. DEFINE i == Greatest(T)
              U == Cancels!Rest(T)
  <2>1. Cancels!Finite(T) /\ Cancels!Picks(T)
    <3>1. IsFiniteSet(T)
      BY <1>1, FS_Subset
    <3>. QED
      BY <1>2, <3>1, FiniteEnds DEF FamilyEnds, Cancels!Picks, Cancels!Finite, Cancels!Smallest
  <2>2. R(T) = CancelRemainder(R(U), i)
    BY <1>4, <2>1, Cancels!FoldLast DEF CancelAt
  <2>. HIDE DEF R
  <2>3. i \in T /\ U = T \ {i}
    BY <1>1, <1>4, NumbersPicked DEF Cancels!Rest
  <2>4. done(U)
    BY <1>4
  <2>5. i \in DOMAIN st.orders /\ IsLive(st.orders[i]) /\ i \notin U
    BY <2>3 DEF LiveOrders
  <2>. HIDE DEF U, i
  <2>6. /\ i \in DOMAIN R(U).orders /\ IsLive(R(U).orders[i])
        /\ DOMAIN R(U).orders = DOMAIN st.orders
    BY <2>4, <2>5 DEF CanceledOf
  <2>7. /\ Sound(R(T)) /\ SameEvents(R(U), R(T))
        /\ DOMAIN R(T).orders = DOMAIN st.orders /\ ~IsLive(R(T).orders[i])
        /\ \A j \in DOMAIN st.orders \ {i} : R(T).orders[j] = R(U).orders[j]
    BY <2>2, <2>4, <2>6, CancelStep
  <2>8. CanceledOf(st, R(T), T)
    BY <2>3, <2>4, <2>7 DEF CanceledOf
  <2>9. SameEvents(st, R(T))
    BY <2>4, <2>7 DEF SameEvents
  <2>. QED
    BY <2>7, <2>8, <2>9
<1>5. ids \in good
  <2>. HIDE DEF good
  <2>. QED
    BY <1>2, <1>3, <1>4, Cancels!PickInduct
<1>. QED
  BY <1>5

\* The orders ids are canceled, and their events are numbered from first on.
CanceledEach(st, r, ids, first) ==
    /\ Sound(r) /\ r.fault = st.fault /\ CanceledOf(st, r, ids)
    /\ r.offsets = st.offsets \o [k \in 1 .. Cardinality(ids) |-> k - 1 + first]

LEMMA CancelEachWorks ==
    ASSUME NEW st, Sound(st), NEW ids, ids \subseteq LiveOrders(st), NEW first
    PROVE  CanceledEach(st, CancelEach(st, ids, first), ids, first)
<1>. DEFINE r == CancelEach(st, ids, first)
 s == Cancels!Fold(0, st, ids)
            more == [k \in 1 .. Cardinality(ids) |-> k - 1 + first]
<1>1. Sound(s) /\ SameEvents(st, s) /\ CanceledOf(st, s, ids)
  BY CancelsSound
<1>2. r = [s EXCEPT !.offsets = @ \o more]
  BY CancelLoopIs
<1>. HIDE DEF r, s, more
<1>3. DOMAIN s = Fields
  BY <1>1 DEF Sound, SoundBut, Typed
<1>4. /\ Keeps(s, r, {"fault", "offsets", "eventIndex"})
      /\ r.offsets = s.offsets \o more /\ r.fault = s.fault
  BY <1>2, <1>3 DEF Keeps, Fields
<1>5. Sound(r) /\ r.orders = s.orders
  BY <1>1, <1>4, SameRowsSound
<1>. QED
  BY <1>1, <1>4, <1>5 DEF CanceledEach, SameEvents, CanceledOf, r, more

\* The events of a drain, and of cancelling everything of a user.
LEMMA Concatenated ==
    ASSUME NEW a \in Seq(Nat), NEW b \in Seq(Nat)
    PROVE  /\ a \o b \in Seq(Nat) /\ Len(a \o b) = Len(a) + Len(b)
           /\ \A k \in 1 .. Len(a) + Len(b) :
                (a \o b)[k] = IF k <= Len(a) THEN a[k] ELSE b[k - Len(a)]
  OBVIOUS

LEMMA SameSequence ==
    ASSUME NEW a \in Seq(Nat), NEW b \in Seq(Nat), Len(a) = Len(b),
           \A k \in 1 .. Len(a) : a[k] = b[k]
    PROVE  a = b
  OBVIOUS

LEMMA EventsFromOne ==
    ASSUME NEW n \in Nat
    PROVE  <<>> \o [k \in 1 .. n |-> k - 1 + 1] = Numbers(n)
<1>. DEFINE more == [k \in 1 .. n |-> k - 1 + 1]
<1>1. more = Numbers(n)
  BY DEF Numbers
<1>2. /\ Numbers(n) \in Seq(Nat) /\ Len(Numbers(n)) = n
      /\ <<>> \in Seq(Nat) /\ Len(<<>>) = 0
  BY DEF Numbers
<1>. HIDE DEF more
<1>3. <<>> \o more \in Seq(Nat) /\ Len(<<>> \o more) = n
  BY <1>1, <1>2, Concatenated
<1>4. \A k \in 1 .. n : (<<>> \o more)[k] = Numbers(n)[k]
  BY <1>1, <1>2, Concatenated
<1>. HIDE DEF Numbers
<1>. QED
  BY <1>2, <1>3, <1>4, SameSequence DEF more

LEMMA EventsFromTwo ==
    ASSUME NEW n \in Nat
    PROVE  Append(<<>>, 1) \o [k \in 1 .. n |-> k - 1 + 2] = Numbers(n + 1)
<1>. DEFINE more == [k \in 1 .. n |-> k - 1 + 2]
            one == Append(<<>>, 1)
<1>1. /\ more \in Seq(Nat) /\ Len(more) = n /\ \A k \in 1 .. n : more[k] = k + 1
  OBVIOUS
<1>2. /\ one \in Seq(Nat) /\ Len(one) = 1 /\ one[1] = 1
  OBVIOUS
<1>3. /\ Numbers(n + 1) \in Seq(Nat) /\ Len(Numbers(n + 1)) = n + 1
      /\ \A k \in 1 .. n + 1 : Numbers(n + 1)[k] = k
  BY DEF Numbers
<1>. HIDE DEF more, one
<1>4. /\ one \o more \in Seq(Nat) /\ Len(one \o more) = n + 1
      /\ \A k \in 1 .. n + 1 : (one \o more)[k] = k
  <2>1. /\ one \o more \in Seq(Nat) /\ Len(one \o more) = 1 + n
        /\ \A k \in 1 .. 1 + n :
              (one \o more)[k] = IF k <= 1 THEN one[k] ELSE more[k - 1]
    <3>1. /\ one \o more \in Seq(Nat) /\ Len(one \o more) = Len(one) + Len(more)
          /\ \A k \in 1 .. Len(one) + Len(more) :
                (one \o more)[k]
                   = IF k <= Len(one) THEN one[k] ELSE more[k - Len(one)]
      BY <1>1, <1>2, Concatenated
    <3>. QED
      BY <1>1, <1>2, <3>1
  <2>2. \A k \in 1 .. 1 + n : (one \o more)[k] = k
    <3>1. ASSUME NEW k \in 1 .. 1 + n
          PROVE  (IF k <= 1 THEN one[k] ELSE more[k - 1]) = k
      <4>1. CASE k <= 1
        <5>1. k = 1
          BY <4>1
        <5>. QED
          BY <1>2, <5>1
      <4>2. CASE ~(k <= 1)
        <5>1. k - 1 \in 1 .. n /\ (k - 1) + 1 = k
          BY <4>2
        <5>. QED
          BY <1>1, <4>2, <5>1
      <4>. QED
        BY <4>1, <4>2
    <3>. QED
      BY <2>1, <3>1
  <2>3. 1 + n = n + 1
    OBVIOUS
  <2>. QED
    BY <2>1, <2>2, <2>3
<1>. QED
  BY <1>3, <1>4

\* Where nothing is live, nothing is reserved.
LEMMA NothingReserved ==
    ASSUME NEW st, Sound(st), LiveOrders(st) = {}
    PROVE  ~Reserves(st)
<1>1. Typed(st) /\ DOMAIN st.resv = DOMAIN st.orders
  BY RowsDomain DEF Sound, SoundBut
<1>2. \A i \in DOMAIN st.orders : st.resv[i] = NoReservation
  <2>1. \A i \in DOMAIN st.orders : ~IsLive(st.orders[i])
    BY DEF LiveOrders
  <2>2. \A i \in DOMAIN st.orders : st.resv[i] = Backing(st, i)
    BY DEF Sound, SoundBut
  <2>. QED
    BY <2>1, <2>2, BackingIs, Zenon
<1>3. ASSUME NEW u \in Users
      PROVE  st.pos[u].rYes = 0 /\ st.pos[u].rNo = 0
  <2>. DEFINE S == OwnOrders(st, u)
  <2>1. IsFiniteSet(S) /\ S \subseteq DOMAIN st.orders
    BY <1>1, OwnFinite DEF OwnOrders
  <2>2. YesHeld(st, u) \in [S -> {0}] /\ NoHeld(st, u) \in [S -> {0}]
    BY <1>2, <2>1 DEF YesHeld, NoHeld, NoReservation
  <2>. HIDE DEF S
  <2>3. SumFunction(YesHeld(st, u)) = 0 /\ SumFunction(NoHeld(st, u)) = 0
    BY <2>1, <2>2, SumOfZeros
  <2>4. SharesReserved(st, u)
    BY DEF Sound, SoundBut
  <2>. QED
    BY <2>3, <2>4, SharesAre
<1>. QED
  BY <1>1, <1>2, <1>3 DEF Reserves

\* A drain leaves nothing behind, and does not fail.
LEMMA DrainWorks ==
    ASSUME NEW st, Sound(st), st.fault = "NONE", st.offsets = <<>>,
           NEW r, r = Drain(st)
    PROVE  /\ Sound(r) /\ r.fault = "NONE" /\ LiveOrders(r) = {} /\ ~Reserves(r)
           /\ r.offsets = Numbers(Cardinality(LiveOrders(st)) + 1)
<1>. DEFINE s == Emit(st, 1)
            d == CancelEach(s, LiveOrders(st), 2)
            n == Cardinality(LiveOrders(st))
<1>1. DOMAIN st = Fields
  BY DEF Sound, SoundBut, Typed
<1>2. /\ Keeps(st, s, {"fault", "offsets", "eventIndex"})
      /\ s.fault = "NONE" /\ s.offsets = Append(<<>>, 1)
  BY <1>1 DEF Emit, Keeps, Fields
<1>. HIDE DEF s
<1>3. Sound(s) /\ s.orders = st.orders
  BY <1>2, SameRowsSound
<1>4. LiveOrders(st) \subseteq LiveOrders(s)
  BY <1>3 DEF LiveOrders
<1>5. /\ Sound(d) /\ d.fault = "NONE" /\ CanceledOf(s, d, LiveOrders(st))
      /\ d.offsets = s.offsets \o [k \in 1 .. n |-> k - 1 + 2]
  <2>1. CanceledEach(s, d, LiveOrders(st), 2)
    BY <1>3, <1>4, CancelEachWorks
  <2>. HIDE DEF d
  <2>. QED
    BY <1>2, <2>1 DEF CanceledEach
<1>6. LiveOrders(d) = {}
  <2>. HIDE DEF d
  <2>. QED
    BY <1>3, <1>5 DEF CanceledOf, LiveOrders
<1>7. ~Reserves(d)
  BY <1>5, <1>6, NothingReserved
<1>8. r = d
  <2>1. r = RequireDrained(d)
    BY DEF Drain, s
  <2>. QED
    BY <1>6, <1>7, <2>1 DEF RequireDrained, Check
<1>9. n \in Nat
  <2>1. /\ DOMAIN st.orders = 1 .. Len(st.orders) /\ Len(st.orders) \in Nat
    BY RowsDomain DEF Sound, SoundBut
  <2>2. IsFiniteSet(1 .. Len(st.orders))
    BY <2>1, FS_Interval
  <2>3. IsFiniteSet(LiveOrders(st))
    BY <2>1, <2>2, FS_Subset DEF LiveOrders
  <2>. QED
    BY <2>3, FS_CardinalityType
<1>. HIDE DEF d, n
<1>10. d.offsets = Numbers(n + 1)
  BY <1>2, <1>5, <1>9, EventsFromTwo
<1>. QED
  BY <1>5, <1>6, <1>7, <1>8, <1>10 DEF n
----------------------------------------------------------------------------
\* A refused transaction stays refused through the loops.
LEMMA RefusedFills ==
    ASSUME NEW st, Refused(st), NEW fills, NEW n \in Nat, DOMAIN fills = 1 .. n
    PROVE  Refused(FoldLeft(FillStep, st, fills))
<1>. DEFINE R(k) == Fills!Fold(fills, st, 1 .. k)
            good == {k \in Nat : Refused(R(k))}
<1>1. 0 \in good
  <2>1. R(0) = st
    <3>1. 1 .. 0 = {}
      OBVIOUS
    <3>. QED
      BY <3>1, Fills!FoldEmpty
  <2>. QED
    BY <2>1
<1>2. ASSUME NEW k \in Nat, k \in good
      PROVE  k + 1 \in good
  <2>1. R(k + 1) = FillStep(R(k), fills[k + 1])
    <3>1. Fills!InOrder(k + 1)
      <4>1. k + 1 \in Nat
        OBVIOUS
      <4>. QED
        BY <4>1, GreatestInOrder, RangeEnds DEF FamilyEnds, Fills!InOrder, Fills!Finite, Fills!Smallest
    <3>. QED
      BY <3>1, Fills!LoopLast DEF FillAt
  <2>2. Refused(R(k))
    BY <1>2
  <2>. HIDE DEF R
  <2>3. Refused(R(k + 1))
    BY <2>1, <2>2, StepStays DEF Refused, Stays
  <2>. QED
    BY <2>3
<1>3. n \in good
  <2>. HIDE DEF good
  <2>. QED
    BY <1>1, <1>2, NatInduct
<1>. QED
  BY <1>3, FillLoopIs

LEMMA RefusedPrevents ==
    ASSUME NEW st, Refused(st), NEW ids, NEW n \in Nat, DOMAIN ids = 1 .. n
    PROVE  Refused(FoldLeft(PreventStep, st, ids))
<1>. DEFINE R(k) == Prevents!Fold(ids, st, 1 .. k)
            good == {k \in Nat : Refused(R(k))}
<1>1. 0 \in good
  <2>1. R(0) = st
    <3>1. 1 .. 0 = {}
      OBVIOUS
    <3>. QED
      BY <3>1, Prevents!FoldEmpty
  <2>. QED
    BY <2>1
<1>2. ASSUME NEW k \in Nat, k \in good
      PROVE  k + 1 \in good
  <2>1. R(k + 1) = PreventStep(R(k), ids[k + 1])
    <3>1. Prevents!InOrder(k + 1)
      <4>1. k + 1 \in Nat
        OBVIOUS
      <4>. QED
        BY <4>1, GreatestInOrder, RangeEnds DEF FamilyEnds, Prevents!InOrder, Prevents!Finite, Prevents!Smallest
    <3>. QED
      BY <3>1, Prevents!LoopLast DEF PreventAt
  <2>2. Refused(R(k))
    BY <1>2
  <2>. HIDE DEF R
  <2>3. Refused(R(k + 1))
    BY <2>1, <2>2, StepStays DEF Refused, Stays
  <2>. QED
    BY <2>3
<1>3. n \in good
  <2>. HIDE DEF good
  <2>. QED
    BY <1>1, <1>2, NatInduct
<1>. QED
  BY <1>3, PreventLoopIs

----------------------------------------------------------------------------
\* What the matcher promises of an order it accepts: fills against live orders
\* of others, own orders in the way, and what is left, which it cancels as a
\* whole or not at all.
Matching(st, order, matched, n, left) ==
    LET x == Len(st.orders) + 1
        fills == matched.fills
        ids == matched.prevented
    IN  /\ n \in Nat /\ DOMAIN fills = 1 .. n /\ left \in [0 .. n -> Nat]
        /\ left[0] = order.rem
        /\ \A k \in 1 .. n :
              /\ fills[k].taker = x
              /\ fills[k].maker \in LiveOrders(st)
              /\ st.orders[fills[k].maker].owner # order.owner
              /\ st.orders[fills[k].maker].side # order.side
              /\ fills[k].price = st.orders[fills[k].maker].price
              /\ BetterFor(order, fills[k].price)
              /\ fills[k].qty \in 1 .. st.orders[fills[k].maker].rem
              /\ left[k] = left[k - 1] - fills[k].qty
        /\ \A k, l \in 1 .. n : k # l => fills[k].maker # fills[l].maker
        /\ \E p : LiveIds(st, ids, p)
        /\ \A k \in DOMAIN ids : st.orders[ids[k]].owner = order.owner
        /\ matched.canceled > 0 => left[n] > 0

LEMMA MatchingPlan ==
    ASSUME NEW st, Typed(st), NEW order, NEW matched, NEW n, NEW left,
           Matching(st, order, matched, n, left),
           NEW s, DOMAIN s.orders = DOMAIN st.orders \union {Len(st.orders) + 1},
           s.orders[Len(st.orders) + 1] = order,
           \A j \in DOMAIN st.orders : s.orders[j] = st.orders[j]
    PROVE  /\ Plan(s, matched.fills, n, left, Len(st.orders) + 1)
           /\ \A p : LiveIds(st, matched.prevented, p)
                => LiveIds(s, matched.prevented, p)
<1>. DEFINE x == Len(st.orders) + 1
            fills == matched.fills
<1>1. x \notin DOMAIN st.orders
  BY RowsDomain
<1>2. /\ n \in Nat /\ DOMAIN fills = 1 .. n /\ left \in [0 .. n -> Nat]
      /\ left[0] = order.rem
      /\ \A k, l \in 1 .. n : k # l => fills[k].maker # fills[l].maker
  BY DEF Matching
<1>3. ASSUME NEW k \in 1 .. n
      PROVE  /\ fills[k].taker = x
             /\ fills[k].maker \in DOMAIN s.orders \ {x}
             /\ IsLive(s.orders[fills[k].maker])
             /\ s.orders[fills[k].maker].owner # s.orders[x].owner
             /\ s.orders[fills[k].maker].side # s.orders[x].side
             /\ fills[k].price = s.orders[fills[k].maker].price
             /\ BetterFor(s.orders[x], fills[k].price)
             /\ fills[k].qty \in 1 .. s.orders[fills[k].maker].rem
             /\ left[k] = left[k - 1] - fills[k].qty
  <2>1. /\ fills[k].taker = x
        /\ fills[k].maker \in LiveOrders(st)
        /\ st.orders[fills[k].maker].owner # order.owner
        /\ st.orders[fills[k].maker].side # order.side
        /\ fills[k].price = st.orders[fills[k].maker].price
        /\ BetterFor(order, fills[k].price)
        /\ fills[k].qty \in 1 .. st.orders[fills[k].maker].rem
        /\ left[k] = left[k - 1] - fills[k].qty
    BY DEF Matching
  <2>2. /\ fills[k].maker \in DOMAIN st.orders
        /\ IsLive(st.orders[fills[k].maker])
    BY <2>1 DEF LiveOrders
  <2>3. s.orders[fills[k].maker] = st.orders[fills[k].maker]
    BY <2>2
  <2>. HIDE DEF x, fills
  <2>. QED
    BY <1>1, <2>1, <2>2, <2>3 DEF x
<1>4. Plan(s, fills, n, left, x)
  <2>. HIDE DEF fills
  <2>. QED
    BY <1>2, <1>3 DEF Plan
<1>5. LiveOrders(st) \subseteq LiveOrders(s)
  BY DEF LiveOrders
<1>. QED
  BY <1>4, <1>5 DEF LiveIds

LEMMA ExecuteStep ==
    ASSUME NEW st, Running(st), Len(st.orders) < MaxOrders,
           NEW order, Fresh(st, order), order.owner \in active,
           NEW matched, NEW n, NEW left, Matching(st, order, matched, n, left),
           NEW mode, NEW r, r = Execute(st, order, matched, mode)
    PROVE  Refused(r) \/ Running(r)
<1>. DEFINE x == Len(st.orders) + 1
            s0 == Appended(st, order)
            s1 == ReserveAssets(s0, x)
            s2 == FoldLeft(FillStep, s1, matched.fills)
            ids == IF mode = "CANCEL_AGGRESSOR" THEN <<>> ELSE matched.prevented
            s3 == FoldLeft(PreventStep, s2, ids)
            s4 == IF matched.canceled > 0 THEN CancelRemainder(s3, x) ELSE s3
<1>1. r = EmitNext(s4)
  BY DEF Execute, Appended
<1>2. Sound(st) /\ Typed(st) /\ st.fault = "NONE"
  BY DEF Running, Sound, SoundBut
<1>3. PICK p : /\ LiveIds(st, matched.prevented, p)
               /\ DOMAIN matched.prevented = 1 .. p /\ p \in Nat
  BY DEF Matching, LiveIds
<1>4. n \in Nat /\ DOMAIN matched.fills = 1 .. n
  BY DEF Matching
<1>5. \E k \in Nat : DOMAIN ids = 1 .. k
  <2>1. CASE mode = "CANCEL_AGGRESSOR"
    <3>1. ids = <<>> /\ DOMAIN <<>> = 1 .. 0
      BY <2>1
    <3>. QED
      BY <3>1
  <2>2. CASE mode # "CANCEL_AGGRESSOR"
    BY <1>3, <2>2
  <2>. QED
    BY <2>1, <2>2
<1>6. /\ Placed(s0, x) /\ SameEvents(st, s0) /\ AppendRows(st, s0, order, x)
  BY <1>2, AppendStep
<1>7. /\ s0.orders[x] = order /\ s0.fault = "NONE"
      /\ \A j \in DOMAIN st.orders : s0.orders[j] = st.orders[j]
      /\ DOMAIN s0.orders = DOMAIN st.orders \union {x}
      /\ x \notin DOMAIN st.orders
  <2>1. DOMAIN st.orders = 1 .. Len(st.orders) /\ Len(st.orders) \in Nat
    BY <1>2, RowsDomain
  <2>2. DOMAIN s0.orders = 1 .. x
    BY <1>6 DEF AppendRows, IsRows
  <2>. HIDE DEF s0
  <2>3. 1 .. x = DOMAIN st.orders \union {x} /\ x \notin DOMAIN st.orders
    BY <2>1
  <2>. QED
    BY <1>2, <1>6, <2>2, <2>3 DEF AppendRows, SameEvents
<1>8. Refused(s1) \/ (Sound(s1) /\ SameEvents(s0, s1) /\ s1.orders = s0.orders)
  BY <1>6, <1>7, ReserveStep DEF Refused
<1>. HIDE DEF s0, s1
<1>9. CASE Refused(s1)
  <2>1. Refused(s2)
    BY <1>4, <1>9, RefusedFills
  <2>. HIDE DEF s2
  <2>2. Refused(s3)
    BY <1>5, <2>1, RefusedPrevents
  <2>. HIDE DEF s3
  <2>3. Refused(s4)
    BY <2>2, CancelStays DEF Refused, Stays
  <2>. HIDE DEF s4
  <2>. QED
    BY <1>1, <2>3, EventStays DEF Refused, Stays
<1>10. CASE Sound(s1) /\ SameEvents(s0, s1) /\ s1.orders = s0.orders
  <2>1. Running(s1)
    BY <1>6, <1>10 DEF Running, SameEvents
  <2>2. /\ Plan(s1, matched.fills, n, left, x)
        /\ LiveIds(s1, matched.prevented, p)
    <3>. HIDE DEF x
    <3>. QED
      BY <1>2, <1>3, <1>7, <1>10, MatchingPlan DEF x
  <2>3. Refused(s2) \/ (Running(s2) /\ AfterFills(s1, s2, matched.fills, n, left, x))
    BY <2>1, <2>2, FillsRun
  <2>. HIDE DEF s2
  <2>4. CASE Refused(s2)
    <3>1. Refused(s3)
      BY <1>5, <2>4, RefusedPrevents
    <3>. HIDE DEF s3
    <3>2. Refused(s4)
      BY <3>1, CancelStays DEF Refused, Stays
    <3>. HIDE DEF s4
    <3>. QED
      BY <1>1, <3>2, EventStays DEF Refused, Stays
  <2>5. CASE Running(s2) /\ AfterFills(s1, s2, matched.fills, n, left, x)
    <3>1. /\ DOMAIN s2.orders = DOMAIN s1.orders /\ s2.orders[x].rem = left[n]
          /\ x \in DOMAIN s2.orders
      BY <1>7, <1>10, <2>5 DEF AfterFills
    <3>2. ASSUME NEW k \in 1 .. p
          PROVE  /\ matched.prevented[k] \in DOMAIN st.orders
                 /\ s2.orders[matched.prevented[k]] = s1.orders[matched.prevented[k]]
      <4>. DEFINE j == matched.prevented[k]
      <4>1. j \in DOMAIN st.orders /\ st.orders[j].owner = order.owner
        BY <1>3 DEF Matching, LiveIds, LiveOrders
      <4>2. \A l \in 1 .. n : matched.fills[l].maker # j
        <5>1. \A l \in 1 .. n : st.orders[matched.fills[l].maker].owner # order.owner
          BY DEF Matching
        <5>. HIDE DEF j
        <5>. QED
          BY <4>1, <5>1
      <4>3. j \in DOMAIN s1.orders \ {x}
        BY <1>7, <1>10, <4>1
      <4>. QED
        BY <2>5, <4>1, <4>2, <4>3 DEF AfterFills
    <3>3. LiveIds(s2, matched.prevented, p)
      BY <2>2, <3>1, <3>2 DEF LiveIds, LiveOrders
    <3>4. \E k : LiveIds(s2, ids, k)
      <4>1. CASE mode = "CANCEL_AGGRESSOR"
        <5>1. ids = <<>> /\ DOMAIN <<>> = 1 .. 0
          BY <4>1
        <5>2. LiveIds(s2, <<>>, 0)
          BY <5>1 DEF LiveIds
        <5>. QED
          BY <5>1, <5>2
      <4>2. CASE mode # "CANCEL_AGGRESSOR"
        BY <3>3, <4>2
      <4>. QED
        BY <4>1, <4>2
    <3>5. PICK m : LiveIds(s2, ids, m)
      BY <3>4
    <3>6. Running(s3) /\ OthersKept(s2, s3, ids, m)
      BY <2>5, <3>5, PreventsRun
    <3>7. s3.orders[x] = s2.orders[x] /\ x \in DOMAIN s3.orders
      <4>1. \A k \in 1 .. m : ids[k] # x
        <5>1. CASE mode = "CANCEL_AGGRESSOR"
          <6>1. ids = <<>> /\ DOMAIN <<>> = 1 .. 0 /\ DOMAIN ids = 1 .. m
            BY <3>5, <5>1 DEF LiveIds
          <6>. HIDE DEF ids
          <6>2. 1 .. m = 1 .. 0 /\ 1 .. 0 = {}
            BY <6>1
          <6>. QED
            BY <6>2
        <5>2. CASE mode # "CANCEL_AGGRESSOR"
          <6>1. ids = matched.prevented /\ DOMAIN ids = 1 .. m
            BY <3>5, <5>2 DEF LiveIds
          <6>2. DOMAIN matched.prevented = 1 .. p
            BY <1>3 DEF LiveIds
          <6>. HIDE DEF ids
          <6>3. \A k \in 1 .. m : ids[k] = matched.prevented[k] /\ k \in 1 .. p
            BY <6>1, <6>2
          <6>. QED
            BY <1>7, <3>2, <6>3
        <5>. QED
          BY <5>1, <5>2
      <4>. QED
        BY <3>1, <3>6, <4>1 DEF OthersKept
    <3>. HIDE DEF s3
    <3>8. Running(s4)
      <4>1. CASE matched.canceled > 0
        <5>1. s3.orders[x].rem > 0
          BY <3>1, <3>7, <4>1 DEF Matching
        <5>2. IsLive(s3.orders[x]) /\ Sound(s3)
          BY <3>6, <3>7, <5>1, LiveIs DEF Running, Sound, SoundBut, Typed
        <5>3. Sound(CancelRemainder(s3, x)) /\ SameEvents(s3, CancelRemainder(s3, x))
          BY <3>7, <5>2, CancelStep
        <5>. QED
          BY <3>6, <4>1, <5>3, SameEventsRun
      <4>2. CASE ~(matched.canceled > 0)
        BY <3>6, <4>2
      <4>. QED
        BY <4>1, <4>2
    <3>. HIDE DEF s4
    <3>. QED
      BY <1>1, <3>8, EmitRuns
  <2>. QED
    BY <2>3, <2>4, <2>5
<1>. QED
  BY <1>8, <1>9, <1>10
----------------------------------------------------------------------------
\* The makers of a command are live orders.
LiveMakers(st, makers) == \A m \in makers : \E j \in LiveOrders(st) :
                                           m = RestingRow(st, j)

LEMMA RestingRowIs ==
    ASSUME NEW st, Typed(st), NEW j \in LiveOrders(st), NEW m, m = RestingRow(st, j)
    PROVE  /\ MakerRow(m) /\ m.id = j /\ j \in DOMAIN st.orders
           /\ m.owner = st.orders[j].owner /\ m.stp = st.orders[j].owner
           /\ m.side = st.orders[j].side /\ m.price = st.orders[j].price
           /\ m.qty = st.orders[j].rem
<1>1. /\ j \in DOMAIN st.orders /\ OrderRow(st.orders[j]) /\ st.orders[j].rem > 0
      /\ j \in Int
  BY RowsDomain DEF LiveOrders, IsLive, Typed
<1>2. /\ st.orders[j].price \in Int /\ st.orders[j].side \in Sides
      /\ st.orders[j].rem \in Nat
  BY <1>1 DEF OrderRow, Prices, Sides, Opposite
<1>3. m = [id |-> j, owner |-> st.orders[j].owner, stp |-> st.orders[j].owner,
           side |-> st.orders[j].side, price |-> st.orders[j].price,
           qty |-> st.orders[j].rem, seq |-> j]
  BY DEF RestingRow
<1>. QED
  BY <1>1, <1>2, <1>3 DEF MakerRow, MakerFields

LEMMA LiveQueue ==
    ASSUME NEW st, Typed(st), NEW makers, LiveMakers(st, makers), NEW inc,
           inc.side \in Sides
    PROVE  Queue(CrossingMakers(makers, inc), Opposite(inc.side))
<1>. DEFINE S == CrossingMakers(makers, inc)
            rows == {RestingRow(st, j) : j \in LiveOrders(st)}
<1>1. IsFiniteSet(S)
  <2>1. DOMAIN st.orders = 1 .. Len(st.orders) /\ Len(st.orders) \in Nat
    BY RowsDomain
  <2>2. IsFiniteSet(1 .. Len(st.orders))
    BY <2>1, FS_Interval
  <2>3. IsFiniteSet(LiveOrders(st))
    BY <2>1, <2>2, FS_Subset DEF LiveOrders
  <2>4. IsFiniteSet(rows)
    <3>. DEFINE f == [j \in LiveOrders(st) |-> RestingRow(st, j)]
    <3>1. f \in Surjection(LiveOrders(st), rows)
      BY DEF Surjection
    <3>. HIDE DEF f, rows
    <3>. QED
      BY <2>3, <3>1, FS_Surjection
  <2>5. S \subseteq rows
    BY DEF CrossingMakers, OppositeMakers, LiveMakers
  <2>. QED
    BY <2>4, <2>5, FS_Subset
<1>2. ASSUME NEW m \in S
      PROVE  /\ MakerRow(m) /\ m.side = Opposite(inc.side)
             /\ \E j \in LiveOrders(st) : m = RestingRow(st, j) /\ m.id = j
  <2>1. m \in makers /\ m.side # inc.side
    BY DEF CrossingMakers, OppositeMakers
  <2>2. PICK j \in LiveOrders(st) : m = RestingRow(st, j)
    BY <2>1 DEF LiveMakers
  <2>3. MakerRow(m) /\ m.id = j
    BY <2>2, RestingRowIs
  <2>4. m.side = Opposite(inc.side)
    BY <2>1, <2>3 DEF MakerRow, Sides, Opposite
  <2>. QED
    BY <2>2, <2>3, <2>4
<1>3. \A a, b \in S : a.id = b.id => a = b
  BY <1>2
<1>. HIDE DEF S
<1>. QED
  BY <1>1, <1>2, <1>3 DEF Queue, S

\* The incoming order as the matcher sees it.
SeenAs(inc, order, x) ==
    /\ inc.id = x /\ inc.owner = order.owner /\ inc.stp = order.owner
    /\ inc.side = order.side /\ inc.price = order.price /\ inc.qty = order.rem

LEMMA MatcherPromise ==
    ASSUME NEW st, Typed(st), NEW order, OrderRow(order),
           NEW makers, LiveMakers(st, makers),
           NEW inc, SeenAs(inc, order, Len(st.orders) + 1),
           NEW res, res = MatchOrder(makers, inc), res.disposition \notin Rejection
    PROVE  \E n, left : Matching(st, order, res, n, left)
<1>. DEFINE S == CrossingMakers(makers, inc)
            end == MatchLoop(makers, inc)
            x == Len(st.orders) + 1
<1>1. res = Dispose(end, inc)
  <2>1. \A why \in Rejection : res # Rejected(makers, inc, why)
    BY DEF Rejected
  <2>. QED
    BY <2>1, MatchOrderIs DEF Rejection
<1>2. inc.side \in Sides /\ inc.qty \in Nat
  BY DEF SeenAs, OrderRow, Sides, Opposite
<1>3. Walked(inc, S, end)
  BY <1>2, LiveQueue, LoopWalked
<1>4. ASSUME NEW m \in S
      PROVE  \E j \in LiveOrders(st) :
                /\ m.id = j /\ m.owner = st.orders[j].owner /\ m.stp = m.owner
                /\ m.side = st.orders[j].side /\ m.price = st.orders[j].price
                /\ m.qty = st.orders[j].rem
                /\ m.side # inc.side /\ BetterFor(order, m.price)
  <2>1. m \in makers /\ m.side # inc.side /\ Crosses(inc, m)
    BY DEF CrossingMakers, OppositeMakers
  <2>2. PICK j \in LiveOrders(st) : m = RestingRow(st, j)
    BY <2>1 DEF LiveMakers
  <2>3. /\ MakerRow(m) /\ m.id = j
        /\ m.owner = st.orders[j].owner /\ m.stp = st.orders[j].owner
        /\ m.side = st.orders[j].side /\ m.price = st.orders[j].price
        /\ m.qty = st.orders[j].rem
    BY <2>2, RestingRowIs
  <2>4. BetterFor(order, m.price)
    <3>1. order.price \in Int /\ m.price \in Int
      BY <2>3 DEF OrderRow, Prices, MakerRow
    <3>. QED
      BY <2>1, <3>1 DEF SeenAs, Crosses, BetterFor
  <2>. QED
    BY <2>1, <2>2, <2>3, <2>4
<1>5. PICK n, left : Filling(inc, S, end.fills, n, left) /\ end.rem = left[n]
  BY <1>3 DEF Walked
<1>6. PICK p : Preventing(inc, S, end.prevented, p)
  BY <1>3 DEF Walked
<1>7. /\ res.fills = end.fills /\ res.prevented = end.prevented
      /\ res.canceled > 0 => left[n] > 0
  <2>1. end.rem \in Nat
    BY <1>3 DEF Walked
  <2>2. Disposed(end, inc, res)
    BY <1>1, <2>1, DisposeIs
  <2>. HIDE DEF end
  <2>. QED
    BY <1>5, <2>2 DEF Disposed
<1>. HIDE DEF S, end
<1>8. /\ n \in Nat /\ DOMAIN res.fills = 1 .. n /\ left \in [0 .. n -> Nat]
      /\ left[0] = order.rem
      /\ \A k, l \in 1 .. n : k # l => res.fills[k].maker # res.fills[l].maker
  BY <1>5, <1>7 DEF Filling, IsRows, SeenAs
<1>9. ASSUME NEW k \in 1 .. n
      PROVE  /\ res.fills[k].taker = x
             /\ res.fills[k].maker \in LiveOrders(st)
             /\ st.orders[res.fills[k].maker].owner # order.owner
             /\ st.orders[res.fills[k].maker].side # order.side
             /\ res.fills[k].price = st.orders[res.fills[k].maker].price
             /\ BetterFor(order, res.fills[k].price)
             /\ res.fills[k].qty \in 1 .. st.orders[res.fills[k].maker].rem
             /\ left[k] = left[k - 1] - res.fills[k].qty
  <2>. DEFINE f == res.fills[k]
  <2>1. FillOf(inc, S, f) /\ left[k] = left[k - 1] - f.qty
    BY <1>5, <1>7 DEF Filling
  <2>2. PICK m \in S : /\ m.stp # inc.stp /\ f.maker = m.id
                       /\ f.price = m.price /\ f.qty \in 1 .. m.qty
    BY <2>1 DEF FillOf
  <2>3. f.taker = x
    BY <2>1 DEF FillOf, SeenAs
  <2>4. PICK j \in LiveOrders(st) :
                /\ m.id = j /\ m.owner = st.orders[j].owner /\ m.stp = m.owner
                /\ m.side = st.orders[j].side /\ m.price = st.orders[j].price
                /\ m.qty = st.orders[j].rem
                /\ m.side # inc.side /\ BetterFor(order, m.price)
    BY <1>4
  <2>. HIDE DEF f, x
  <2>. QED
    BY <2>1, <2>2, <2>3, <2>4 DEF SeenAs, f
<1>10. LiveIds(st, res.prevented, p)
  BY <1>4, <1>6, <1>7 DEF Preventing, IsRows, LiveIds
<1>11. ASSUME NEW k \in DOMAIN res.prevented
       PROVE  st.orders[res.prevented[k]].owner = order.owner
  <2>1. k \in 1 .. p
    BY <1>10 DEF LiveIds
  <2>2. PICK m \in S : m.stp = inc.stp /\ res.prevented[k] = m.id
    BY <1>6, <1>7, <2>1 DEF Preventing
  <2>. QED
    BY <1>4, <2>2 DEF SeenAs
<1>12. Matching(st, order, res, n, left)
  <2>1. \A k \in 1 .. n :
              /\ res.fills[k].taker = Len(st.orders) + 1
              /\ res.fills[k].maker \in LiveOrders(st)
              /\ st.orders[res.fills[k].maker].owner # order.owner
              /\ st.orders[res.fills[k].maker].side # order.side
              /\ res.fills[k].price = st.orders[res.fills[k].maker].price
              /\ BetterFor(order, res.fills[k].price)
              /\ res.fills[k].qty \in 1 .. st.orders[res.fills[k].maker].rem
              /\ left[k] = left[k - 1] - res.fills[k].qty
    BY <1>9
  <2>. QED
    BY <1>7, <1>8, <1>10, <1>11, <2>1 DEF Matching
<1>. QED
  BY <1>12
----------------------------------------------------------------------------
\* The inductive invariant: the rows a command begins with are sound, no
\* command failed or misnumbered its events, and nothing is live in a market
\* that does not match.
RowNames == {"balance", "acct", "orders", "resv", "pos", "supply"}

ExchangeInv ==
    /\ DOMAIN db = RowNames
    /\ Sound(Begin)
    /\ ~broken
    /\ inSequence
    /\ market.status # "OPEN" => LiveOrders(db) = {}

LEMMA BeginIs ==
    ASSUME NEW d, DOMAIN d = RowNames,
           NEW b,
           b = [balance |-> d.balance, acct |-> d.acct, orders |-> d.orders,
               resv |-> d.resv, pos |-> d.pos, supply |-> d.supply,
               fault |-> "NONE", offsets |-> <<>>, eventIndex |-> 0]
    PROVE  /\ DOMAIN b = Fields /\ b.fault = "NONE" /\ b.offsets = <<>>
           /\ b.eventIndex = 0 /\ \A f \in RowNames : b[f] = d[f]
           /\ b.orders = d.orders
<1>1. DOMAIN b = Fields
  BY DEF Fields
<1>. QED
  BY <1>1 DEF RowNames

LEMMA BeginRuns ==
    ASSUME ExchangeInv
    PROVE  /\ Running(Begin) /\ Sound(Begin) /\ Typed(Begin)
           /\ Begin.orders = db.orders /\ LiveOrders(Begin) = LiveOrders(db)
           /\ Begin.offsets = <<>> /\ Begin.fault = "NONE"
           /\ DOMAIN Begin = Fields /\ \A f \in RowNames : Begin[f] = db[f]
<1>1. /\ DOMAIN Begin = Fields /\ Begin.fault = "NONE" /\ Begin.offsets = <<>>
      /\ Begin.eventIndex = 0 /\ Begin.orders = db.orders
      /\ \A f \in RowNames : Begin[f] = db[f]
  BY BeginIs DEF ExchangeInv, Begin
<1>2. Numbers(0) = <<>>
  BY DEF Numbers
<1>. QED
  BY <1>1, <1>2 DEF ExchangeInv, Running, LiveOrders, Sound, SoundBut

\* A command that ends well keeps it, but for the market's status.
LEMMA CommitKeeps ==
    ASSUME ExchangeInv, NEW st, NEW n, Refused(st) \/ (Sound(st) /\ st.fault = "NONE"),
           ~Refused(st) => st.offsets = Numbers(n), Commit(st, n)
    PROVE  /\ (DOMAIN db = RowNames)' /\ Sound(Begin)' /\ ~broken' /\ inSequence'
           /\ db'.orders = st.orders
<1>1. Sound(st) /\ st.fault = "NONE" /\ st.offsets = [k \in 1 .. n |-> k]
  BY DEF Refused, Commit, Numbers
<1>2. /\ DOMAIN db = RowNames /\ DOMAIN st = Fields
  BY <1>1 DEF ExchangeInv, Sound, SoundBut, Typed
<1>3. db' = [f \in RowNames |-> st[f]] /\ ~broken' /\ inSequence'
  BY <1>1, <1>2 DEF Commit, ExchangeInv
<1>4. DOMAIN db' = RowNames /\ \A f \in RowNames : db'[f] = st[f]
  BY <1>3
<1>. DEFINE b == Begin'
<1>5. /\ DOMAIN b = Fields /\ \A f \in RowNames : b[f] = db'[f]
  BY <1>4, BeginIs DEF Begin
<1>6. Keeps(st, b, {"fault", "offsets", "eventIndex"})
  BY <1>4, <1>5 DEF Keeps, Fields, RowNames
<1>. HIDE DEF b
<1>7. Sound(b)
  BY <1>1, <1>6, SameRowsSound
<1>. QED
  BY <1>3, <1>4, <1>7 DEF b, RowNames
\* A new order starts with nothing done, on the side its action says.
LEMMA NewOrderIs ==
    ASSUME NEW st, Typed(st), NEW u \in Users, NEW req \in OrderRequest,
           NEW chain \in 1 .. Len(st.orders) + 1,
           \A j \in DOMAIN st.orders : st.orders[j].chain = chain =>
               st.orders[j].owner = u /\ ~IsLive(st.orders[j]),
           NEW c, c = NormalizeToYesBook(req.outcome, req.action, req.price),
           NEW o, o = NewOrder(u, req, chain, c)
    PROVE  /\ Fresh(st, o) /\ o.owner = u /\ o.side = c.side
           /\ o.price = c.price /\ o.rem = req.qty
<1>1. /\ req.outcome \in Outcomes /\ req.action \in Sides /\ req.price \in Prices
      /\ req.qty \in Nat /\ req.qty > 0
  BY DEF OrderRequest
<1>2. /\ c.side = IF req.outcome = "YES" THEN req.action ELSE Opposite(req.action)
      /\ c.price \in Prices
  BY <1>1, PayoutAssumption DEF NormalizeToYesBook, Prices
<1>. HIDE DEF Prices
<1>3. o = [owner |-> u, outcome |-> req.outcome, action |-> req.action,
           side |-> c.side, price |-> c.price,
           original |-> req.qty, rem |-> req.qty, filled |-> 0, canceled |-> 0,
           status |-> "OPEN", tif |-> req.tif, chain |-> chain, exp |-> req.exp,
           notional |-> 0, fee |-> 0]
  BY DEF NewOrder
<1>4. OrderRow(o)
  BY <1>1, <1>2, <1>3 DEF OrderRow, OrderFields, ActiveStatus
<1>. QED
  BY <1>1, <1>3, <1>4 DEF Fresh

LEMMA SubmitRuns ==
    ASSUME NEW st, Running(st), Running(Begin), Len(st.orders) < MaxOrders,
           NEW order, Fresh(st, order), order.owner \in active,
           NEW makers, LiveMakers(st, makers),
           NEW inc, SeenAs(inc, order, Len(st.orders) + 1),
           NEW matched, matched = MatchOrder(makers, inc), NEW mode,
           NEW r, r = Submit(st, order, matched, mode)
    PROVE  Refused(r) \/ Running(r)
<1>1. CASE matched.disposition \in Rejection
  BY <1>1, EmitRuns DEF Submit
<1>2. CASE matched.disposition \notin Rejection
  <2>1. Typed(st) /\ OrderRow(order)
    BY DEF Running, Sound, SoundBut, Fresh
  <2>2. PICK n, left : Matching(st, order, matched, n, left)
    BY <1>2, <2>1, MatcherPromise
  <2>3. r = Execute(st, order, matched, mode)
    BY <1>2 DEF Submit
  <2>. QED
    BY <2>2, <2>3, ExecuteStep
<1>. QED
  BY <1>1, <1>2

LEMMA SubmitCommits ==
    ASSUME ExchangeInv, NEW st, Refused(st) \/ Running(st), CommitCounted(st)
    PROVE  (DOMAIN db = RowNames)' /\ Sound(Begin)' /\ ~broken' /\ inSequence'
<1>1. /\ Refused(st) \/ (Sound(st) /\ st.fault = "NONE")
      /\ ~Refused(st) => st.offsets = Numbers(st.eventIndex)
  BY DEF Running
<1>2. Commit(st, st.eventIndex)
  BY DEF CommitCounted
<1>. QED
  BY <1>1, <1>2, CommitKeeps

LEMMA PlaceKeeps ==
    ASSUME ExchangeInv, NEW u \in Users, NEW req \in Requests, NEW at,
           Place(u, req, at)
    PROVE  ExchangeInv'
<1>. DEFINE c == NormalizeToYesBook(req.outcome, req.action, req.price)
            makers == MatchableBook(db, at)
            inc == IncomingOrder(u, req, c)
            matched == MatchOrder(makers, inc)
            n == Len(db.orders) + 1
            o == NewOrder(u, req, n, c)
            st == Submit(Begin, o, matched, req.stpMode)
<1>1. /\ Len(db.orders) < MaxOrders /\ u \in active /\ market.status = "OPEN"
      /\ CommitCounted(st) /\ UNCHANGED <<market, active, now>>
  BY DEF Place, CanPlace, MarketTakesOrders
<1>2. /\ Running(Begin) /\ Typed(Begin) /\ Begin.orders = db.orders
      /\ Sound(Begin)
  BY BeginRuns
<1>3. /\ Len(db.orders) \in Nat /\ DOMAIN db.orders = 1 .. Len(db.orders)
  BY <1>2, RowsDomain
<1>4. \A j \in DOMAIN db.orders : db.orders[j].chain # n
  <2>1. \A j \in DOMAIN db.orders : db.orders[j].chain \in 1 .. j
    BY <1>2 DEF Sound, SoundBut, Chained
  <2>. QED
    BY <1>3, <2>1
<1>5. req \in OrderRequest
  BY ExchangeAssumption
<1>6. n \in 1 .. Len(Begin.orders) + 1
  BY <1>2, <1>3
<1>7. /\ Fresh(Begin, o) /\ o.owner = u /\ o.side = c.side
      /\ o.price = c.price /\ o.rem = req.qty
  <2>. HIDE DEF n, c
  <2>. QED
    BY <1>2, <1>4, <1>5, <1>6, NewOrderIs DEF c
<1>8. LiveMakers(Begin, makers)
  BY <1>2 DEF LiveMakers, MatchableBook, LiveOrders, RestingRow
<1>9. SeenAs(inc, o, Len(Begin.orders) + 1)
  <2>. HIDE DEF o, c
  <2>. QED
    BY <1>2, <1>7 DEF IncomingOrder, SeenAs
<1>. HIDE DEF o, inc, makers, c, n
<1>10. Refused(st) \/ Running(st)
  BY <1>1, <1>2, <1>7, <1>8, <1>9, SubmitRuns
<1>. HIDE DEF st
<1>11. (DOMAIN db = RowNames)' /\ Sound(Begin)' /\ ~broken' /\ inSequence'
  BY <1>1, <1>10, SubmitCommits
<1>. QED
  BY <1>1, <1>11 DEF ExchangeInv

\* A cancellation as the only event of a command.
LEMMA CancelOnce ==
    ASSUME ExchangeInv, NEW i \in LiveOrders(db), NEW st,
           st = Emit(CancelRemainder(Begin, i), 1), Commit(st, 1)
    PROVE  (DOMAIN db = RowNames)' /\ Sound(Begin)' /\ ~broken' /\ inSequence'
<1>. DEFINE s == CancelRemainder(Begin, i)
<1>1. /\ Sound(Begin) /\ i \in DOMAIN Begin.orders /\ IsLive(Begin.orders[i])
      /\ Begin.offsets = <<>> /\ Begin.fault = "NONE"
  BY BeginRuns DEF LiveOrders
<1>2. Sound(s) /\ SameEvents(Begin, s)
  BY <1>1, CancelStep
<1>3. DOMAIN s = Fields
  BY <1>2 DEF Sound, SoundBut, Typed
<1>. HIDE DEF s
<1>4. /\ Keeps(s, st, {"fault", "offsets", "eventIndex"})
      /\ st.fault = "NONE" /\ st.offsets = Append(<<>>, 1)
  BY <1>1, <1>2, <1>3 DEF Emit, Keeps, Fields, SameEvents, s
<1>5. Sound(st)
  BY <1>2, <1>4, SameRowsSound
<1>6. Append(<<>>, 1) = Numbers(1)
  <2>1. Numbers(0) = <<>>
    BY DEF Numbers
  <2>2. Append(Numbers(0), 0 + 1) = Numbers(0 + 1)
    BY NumberNext
  <2>3. 0 + 1 = 1
    OBVIOUS
  <2>. QED
    BY <2>1, <2>2, <2>3, Zenon
<1>. QED
  BY <1>4, <1>5, <1>6, CommitKeeps

LEMMA CancelKeeps ==
    ASSUME ExchangeInv, NEW i, Cancel(i)
    PROVE  ExchangeInv'
<1>1. /\ i \in LiveOrders(db) /\ UNCHANGED <<market, active, now>>
      /\ Commit(Emit(CancelRemainder(Begin, i), 1), 1)
  BY DEF Cancel
<1>2. (DOMAIN db = RowNames)' /\ Sound(Begin)' /\ ~broken' /\ inSequence'
  BY <1>1, CancelOnce
<1>. QED
  BY <1>1, <1>2 DEF ExchangeInv

LEMMA ExpireKeeps ==
    ASSUME ExchangeInv, NEW i, NEW at, Expire(i, at)
    PROVE  ExchangeInv'
<1>1. /\ i \in LiveOrders(db) /\ UNCHANGED <<market, active, now>>
      /\ Commit(Emit(CancelRemainder(Begin, i), 1), 1)
  BY DEF Expire
<1>2. (DOMAIN db = RowNames)' /\ Sound(Begin)' /\ ~broken' /\ inSequence'
  BY <1>1, CancelOnce
<1>. QED
  BY <1>1, <1>2 DEF ExchangeInv

LEMMA CancelAllKeeps ==
    ASSUME ExchangeInv, NEW u, CancelAll(u)
    PROVE  ExchangeInv'
<1>. DEFINE mine == {i \in LiveOrders(db) : db.orders[i].owner = u}
            st == CancelEach(Begin, mine, 1)
            n == Cardinality(mine)
<1>1. /\ mine # {} /\ Commit(st, n) /\ UNCHANGED <<market, active, now>>
  BY DEF CancelAll
<1>2. /\ Sound(Begin) /\ Begin.offsets = <<>> /\ Begin.fault = "NONE"
      /\ LiveOrders(Begin) = LiveOrders(db) /\ mine \subseteq LiveOrders(db)
      /\ Typed(Begin)
  BY BeginRuns
<1>3. n \in Nat
  <2>1. /\ DOMAIN Begin.orders = 1 .. Len(Begin.orders) /\ Len(Begin.orders) \in Nat
    BY <1>2, RowsDomain
  <2>2. IsFiniteSet(1 .. Len(Begin.orders))
    <3>. DEFINE len == Len(Begin.orders)
    <3>1. len \in Nat
      BY <2>1
    <3>. HIDE DEF len
    <3>2. IsFiniteSet(1 .. len)
      BY <3>1, FS_Interval
    <3>. QED
      BY <3>2 DEF len
  <2>3. LiveOrders(Begin) \subseteq 1 .. Len(Begin.orders)
    BY <2>1 DEF LiveOrders
  <2>4. IsFiniteSet(mine)
    BY <1>2, <2>2, <2>3, FS_Subset
  <2>. QED
    BY <2>4, FS_CardinalityType
<1>. HIDE DEF mine
<1>4. /\ Sound(st) /\ st.fault = Begin.fault
      /\ st.offsets = Begin.offsets \o [k \in 1 .. n |-> k - 1 + 1]
  <2>1. CanceledEach(Begin, st, mine, 1)
    BY <1>2, CancelEachWorks
  <2>. HIDE DEF st
  <2>. QED
    BY <2>1 DEF CanceledEach
<1>5. st.offsets = Numbers(n)
  BY <1>2, <1>3, <1>4, EventsFromOne
<1>. HIDE DEF st
<1>6. (DOMAIN db = RowNames)' /\ Sound(Begin)' /\ ~broken' /\ inSequence'
  BY <1>1, <1>2, <1>4, <1>5, CommitKeeps
<1>7. market.status = "OPEN"
  BY <1>1, <1>2 DEF ExchangeInv
<1>. QED
  BY <1>1, <1>6, <1>7 DEF ExchangeInv
LEMMA SameLength ==
    ASSUME NEW a \in Nat, NEW b \in Nat, 1 .. a = 1 .. b
    PROVE  a = b
<1>1. (a = 0 \/ a \in 1 .. a) /\ (b = 0 \/ b \in 1 .. b)
  OBVIOUS
<1>2. a \in 1 .. b \/ a = 0
  BY <1>1
<1>3. b \in 1 .. a \/ b = 0
  BY <1>1
<1>. QED
  BY <1>2, <1>3

LEMMA ReplaceKeeps ==
    ASSUME ExchangeInv, NEW i, NEW req \in Requests, NEW at, Replace(i, req, at)
    PROVE  ExchangeInv'
<1>. DEFINE old == db.orders[i]
            c == NormalizeToYesBook(old.outcome, old.action, req.price)
            makers == {m \in MatchableBook(db, at) : m.id # i}
            inc == IncomingOrder(old.owner, req, c)
            matched == MatchOrder(makers, inc)
            o == NewOrder(old.owner, req, old.chain, c)
            s == EmitNext(CancelRemainder(Begin, i))
            st == Submit(s, o, matched, req.stpMode)
<1>1. /\ i \in LiveOrders(db) /\ Len(db.orders) < MaxOrders
      /\ old.owner \in active /\ market.status = "OPEN"
      /\ req.outcome = old.outcome /\ req.action = old.action
      /\ CommitCounted(st) /\ UNCHANGED <<market, active, now>>
  BY DEF Replace, CanReplace, MarketTakesOrders
<1>2. /\ Running(Begin) /\ Typed(Begin) /\ Begin.orders = db.orders
      /\ Sound(Begin) /\ Chained(Begin)
  BY BeginRuns DEF Sound, SoundBut
<1>3. /\ Len(db.orders) \in Nat /\ DOMAIN db.orders = 1 .. Len(db.orders)
      /\ i \in DOMAIN db.orders /\ IsLive(old) /\ OrderRow(old)
  BY <1>1, <1>2, RowsDomain DEF LiveOrders, Typed
<1>4. /\ Running(s) /\ DOMAIN s.orders = DOMAIN db.orders
      /\ s.orders[i] = CanceledOrder(old) /\ ~IsLive(s.orders[i])
      /\ \A j \in DOMAIN db.orders \ {i} : s.orders[j] = db.orders[j]
  <2>1. s = PreventStep(Begin, i)
    BY DEF PreventStep
  <2>. HIDE DEF s
  <2>. QED
    BY <1>2, <1>3, <2>1, PreventRuns
<1>. HIDE DEF s
<1>5. /\ Typed(s) /\ Len(s.orders) = Len(db.orders)
  <2>1. /\ Typed(s) /\ DOMAIN s.orders = 1 .. Len(s.orders) /\ Len(s.orders) \in Nat
    BY <1>4, RowsDomain DEF Running, Sound, SoundBut
  <2>. QED
    BY <1>3, <1>4, <2>1, SameLength
<1>6. /\ s.orders[i].owner = old.owner /\ s.orders[i].chain = old.chain
  BY <1>3, <1>4, CanceledRow DEF OrderKept, OrderFields
<1>7. ASSUME NEW j \in DOMAIN s.orders, s.orders[j].chain = old.chain
      PROVE  s.orders[j].owner = old.owner /\ ~IsLive(s.orders[j])
  <2>1. CASE j = i
    BY <1>4, <1>6, <2>1
  <2>2. CASE j # i
    <3>1. s.orders[j] = db.orders[j] /\ j \in DOMAIN db.orders
      BY <1>4, <2>2
    <3>2. /\ db.orders[j].owner = old.owner
          /\ IsLive(db.orders[j]) /\ IsLive(old) => j = i
      BY <1>2, <1>3, <1>7, <3>1 DEF Chained
    <3>. QED
      BY <1>3, <2>2, <3>1, <3>2
  <2>. QED
    BY <2>1, <2>2
<1>8. old.chain \in 1 .. Len(s.orders) + 1
  <2>1. old.chain \in 1 .. i
    BY <1>2, <1>3 DEF Chained
  <2>. QED
    BY <1>3, <1>5, <2>1
<1>9. req \in OrderRequest /\ old.owner \in Users
  BY <1>3, ExchangeAssumption DEF OrderRow
<1>10. /\ Fresh(s, o) /\ o.owner = old.owner /\ o.side = c.side
       /\ o.price = c.price /\ o.rem = req.qty
  <2>1. c = NormalizeToYesBook(req.outcome, req.action, req.price)
    BY <1>1
  <2>. HIDE DEF old, c
  <2>. QED
    BY <1>5, <1>7, <1>8, <1>9, <2>1, NewOrderIs
<1>11. LiveMakers(s, makers)
  <2>1. ASSUME NEW m \in makers
        PROVE  \E j \in LiveOrders(s) : m = RestingRow(s, j)
    <3>1. PICK j \in LiveOrders(db) : m = RestingRow(db, j)
      BY DEF MatchableBook
    <3>2. j # i
      BY <3>1 DEF RestingRow
    <3>3. s.orders[j] = db.orders[j] /\ j \in LiveOrders(s)
      BY <1>4, <3>1, <3>2 DEF LiveOrders
    <3>4. m = RestingRow(s, j)
      BY <3>1, <3>3 DEF RestingRow
    <3>. QED
      BY <3>3, <3>4
  <2>. QED
    BY <2>1 DEF LiveMakers
<1>12. SeenAs(inc, o, Len(s.orders) + 1)
  <2>. HIDE DEF o, c, old
  <2>. QED
    BY <1>5, <1>10 DEF IncomingOrder, SeenAs
<1>. HIDE DEF o, inc, makers, c, old
<1>13. Refused(st) \/ Running(st)
  BY <1>1, <1>2, <1>4, <1>5, <1>10, <1>11, <1>12, SubmitRuns
<1>. HIDE DEF st
<1>14. (DOMAIN db = RowNames)' /\ Sound(Begin)' /\ ~broken' /\ inSequence'
  BY <1>1, <1>13, SubmitCommits
<1>. QED
  BY <1>1, <1>14 DEF ExchangeInv

----------------------------------------------------------------------------
\* Redeeming pairs of contracts that nothing reserves.
RedeemRows(st, r, u, q) ==
    /\ Keeps(st, r, {"balance", "acct", "pos", "supply"})
    /\ r.supply.yes = st.supply.yes - q /\ r.supply.no = st.supply.no - q
    /\ r.pos \in [Users -> Position]
    /\ r.pos[u].yes = st.pos[u].yes - q /\ r.pos[u].no = st.pos[u].no - q
    /\ r.pos[u].rYes = st.pos[u].rYes /\ r.pos[u].rNo = st.pos[u].rNo
    /\ \A v \in Users \ {u} : /\ r.pos[v] = st.pos[v]
                              /\ r.balance[v] = st.balance[v]
    /\ r.balance \in [Users -> Nat] /\ r.acct \in [Accounts -> Nat]
    /\ r.balance[u] = st.balance[u] + PayoutMilli * q
    /\ r.acct[Wallet(u)] = st.acct[Wallet(u)] + PayoutMilli * q
    /\ r.acct[Collateral] = st.acct[Collateral] - PayoutMilli * q
    /\ \A a \in Accounts \ {Wallet(u), Collateral} : r.acct[a] = st.acct[a]

\* The pairs can be redeemed.
Redeemable(st, u, q) ==
    /\ u \in Users /\ q \in Nat /\ q > 0
    /\ st.pos[u].yes - st.pos[u].rYes >= q
    /\ st.pos[u].no - st.pos[u].rNo >= q

LEMMA RedeemCovered ==
    ASSUME NEW st, Sound(st), NEW u, NEW q, Redeemable(st, u, q)
    PROVE  /\ st.supply.yes >= q /\ st.supply.no = st.supply.yes
           /\ st.supply.yes \in Nat
           /\ st.acct[Collateral] = PayoutMilli * st.supply.yes
           /\ st.acct[Collateral] \in Nat
           /\ st.acct[Collateral] - PayoutMilli * q
                = PayoutMilli * (st.supply.yes - q)
           /\ PayoutMilli * q \in Nat
           /\ PayoutMilli * (st.supply.yes - q) \in Nat
<1>1. Typed(st) /\ SupplyCollateralized(st)
  BY DEF Sound, SoundBut
<1>2. /\ st.supply.yes \in Nat /\ st.acct \in [Accounts -> Nat]
      /\ st.pos \in [Users -> Position] /\ u \in Users /\ q \in Nat
      /\ IsFiniteSet(Users) /\ PayoutMilli \in Nat
  BY <1>1, ExchangeAssumption, PayoutAssumption DEF Typed, Redeemable
<1>3. st.pos[u].yes >= q
  <2>1. st.pos[u].yes \in Nat /\ st.pos[u].rYes \in Nat
    BY <1>2 DEF Position
  <2>. QED
    BY <1>2, <2>1 DEF Redeemable
<1>4. st.supply.yes >= st.pos[u].yes
  <2>. DEFINE f == [v \in Users |-> st.pos[v].yes]
  <2>1. f \in [Users -> Nat] /\ f[u] = st.pos[u].yes
    BY <1>2 DEF Position
  <2>2. st.supply.yes = SumFunction(f)
    BY <1>1 DEF SupplyCollateralized
  <2>. HIDE DEF f
  <2>3. f[u] <= SumFunction(f)
    BY <1>2, <2>1, SumHasTerm
  <2>. QED
    BY <1>2, <2>1, <2>2, <2>3
<1>5. st.supply.yes >= q
  <2>1. st.pos[u].yes \in Nat
    BY <1>2 DEF Position
  <2>. QED
    BY <1>2, <1>3, <1>4, <2>1
<1>6. /\ st.acct[Collateral] = PayoutMilli * st.supply.yes
      /\ st.supply.no = st.supply.yes /\ st.acct[Collateral] \in Nat
  BY <1>1, <1>2, AccountNames DEF SupplyCollateralized
<1>7. \A a, b \in Nat : b <= a => /\ PayoutMilli * a - PayoutMilli * b
                                        = PayoutMilli * (a - b)
                                  /\ PayoutMilli * (a - b) \in Nat
                                  /\ PayoutMilli * b \in Nat
  BY <1>2
<1>. QED
  BY <1>2, <1>5, <1>6, <1>7
LEMMA RedeemUser ==
    ASSUME NEW st, Sound(st), NEW u, NEW q, Redeemable(st, u, q),
           NEW r, RedeemRows(st, r, u, q)
    PROVE  SharesReserved(r, u) /\ Explained(r, u)
<1>1. /\ Typed(st) /\ SharesReserved(st, u) /\ Explained(st, u) /\ u \in Users
      /\ q \in Nat /\ st.pos \in [Users -> Position]
      /\ st.balance \in [Users -> Nat]
  BY DEF Sound, SoundBut, Redeemable, Typed
<1>2. /\ r.orders = st.orders /\ r.resv = st.resv
      /\ r.pos[u].yes = st.pos[u].yes - q /\ r.pos[u].no = st.pos[u].no - q
      /\ r.pos[u].rYes = st.pos[u].rYes /\ r.pos[u].rNo = st.pos[u].rNo
      /\ r.balance[u] = st.balance[u] + PayoutMilli * q
  BY DEF RedeemRows, Keeps, Fields
<1>3. \A i \in OwnOrders(st, u) : r.acct[Escrow(i)] = st.acct[Escrow(i)]
  <2>1. \A i \in OwnOrders(st, u) : i \in 1 .. MaxOrders
    BY <1>1, RowsDomain DEF OwnOrders
  <2>2. \A i \in OwnOrders(st, u) : Escrow(i) \in Accounts \ {Wallet(u), Collateral}
    BY <2>1, AccountNames
  <2>. QED
    BY <2>2 DEF RedeemRows
<1>4. OwnOrders(r, u) = OwnOrders(st, u)
  BY <1>2 DEF OwnOrders
<1>5. /\ YesHeld(r, u) = YesHeld(st, u) /\ NoHeld(r, u) = NoHeld(st, u)
      /\ CashHeld(r, u) = CashHeld(st, u) /\ Earned(r, u) = Earned(st, u)
      /\ Gained(r, u, "YES") = Gained(st, u, "YES")
      /\ Gained(r, u, "NO") = Gained(st, u, "NO")
  BY <1>2, <1>3, <1>4 DEF YesHeld, NoHeld, CashHeld, Earned, Gained
<1>6. /\ st.pos[u].yes \in Nat /\ st.pos[u].no \in Nat
      /\ st.pos[u].rYes \in Nat /\ st.pos[u].rNo \in Nat
      /\ st.balance[u] \in Nat
  BY <1>1 DEF Position
<1>7. SharesReserved(r, u)
  <2>1. /\ st.pos[u].rYes <= st.pos[u].yes - q
        /\ st.pos[u].rNo <= st.pos[u].no - q
    BY <1>1, <1>6 DEF Redeemable
  <2>. QED
    BY <1>1, <1>2, <1>5, <2>1, SharesAre
<1>8. /\ SumFunction(CashHeld(st, u)) \in Nat
      /\ SumFunction(Earned(st, u)) \in Int
      /\ SumFunction(Gained(st, u, "YES")) \in Int
      /\ SumFunction(Gained(st, u, "NO")) \in Int
      /\ InitialYes[u] \in Nat /\ InitialNo[u] \in Nat /\ InitialCash \in Nat
  BY <1>1, UserSums, ExchangeAssumption
<1>9. Redeemed(r, u) = Redeemed(st, u) + q /\ Redeemed(st, u) \in Int
  BY <1>1, <1>2, <1>5, <1>6, <1>8 DEF Redeemed
<1>10. /\ Redeemed(st, u) >= 0
       /\ Redeemed(st, u) = InitialNo[u] + SumFunction(Gained(st, u, "NO"))
                               - st.pos[u].no
       /\ st.balance[u] + SumFunction(CashHeld(st, u))
            = InitialCash + SumFunction(Earned(st, u))
                          + PayoutMilli * Redeemed(st, u)
  BY <1>1, ExplainedIs
<1>11. PayoutMilli * (Redeemed(st, u) + q)
         = PayoutMilli * Redeemed(st, u) + PayoutMilli * q
  <2>. DEFINE d == Redeemed(st, u)
  <2>1. d \in Int /\ q \in Int /\ PayoutMilli \in Int
    BY <1>1, <1>9, PayoutAssumption
  <2>. HIDE DEF d
  <2>2. PayoutMilli * (d + q) = PayoutMilli * d + PayoutMilli * q
    BY <2>1, Distributes
  <2>. QED
    BY <2>2 DEF d
<1>12. PayoutMilli * q \in Int /\ PayoutMilli * Redeemed(st, u) \in Int
  BY <1>1, <1>9, PayoutAssumption
<1>13. Redeemed(r, u) >= 0
  BY <1>1, <1>9, <1>10
<1>14. Redeemed(r, u) = InitialNo[u] + SumFunction(Gained(r, u, "NO"))
                          - r.pos[u].no
  BY <1>1, <1>2, <1>5, <1>6, <1>8, <1>9, <1>10
<1>15. r.balance[u] + SumFunction(CashHeld(r, u))
         = InitialCash + SumFunction(Earned(r, u)) + PayoutMilli * Redeemed(r, u)
  BY <1>2, <1>5, <1>6, <1>8, <1>9, <1>10, <1>11, <1>12
<1>. QED
  BY <1>7, <1>13, <1>14, <1>15, ExplainedIs

LEMMA RedeemSupply ==
    ASSUME NEW st, Sound(st), NEW u, NEW q, Redeemable(st, u, q),
           NEW r, RedeemRows(st, r, u, q)
    PROVE  /\ SupplyCollateralized(r)
           /\ r.supply.yes \in Nat /\ r.supply.no \in Nat
<1>1. /\ SupplyCollateralized(st) /\ u \in Users /\ q \in Nat
      /\ st.pos \in [Users -> Position] /\ r.pos \in [Users -> Position]
      /\ IsFiniteSet(Users)
  BY ExchangeAssumption DEF Sound, SoundBut, Redeemable, Typed, RedeemRows
<1>2. /\ r.supply.yes = st.supply.yes - q /\ r.supply.no = st.supply.no - q
      /\ r.pos[u].yes = st.pos[u].yes - q /\ r.pos[u].no = st.pos[u].no - q
      /\ \A v \in Users \ {u} : r.pos[v] = st.pos[v]
      /\ r.acct[Collateral] = st.acct[Collateral] - PayoutMilli * q
  BY DEF RedeemRows
<1>3. /\ st.supply.yes >= q /\ st.supply.no = st.supply.yes
      /\ st.supply.yes \in Nat
      /\ st.acct[Collateral] - PayoutMilli * q = PayoutMilli * (st.supply.yes - q)
  BY RedeemCovered
<1>4. ASSUME NEW c \in {"yes", "no"}
      PROVE  SumFunction([v \in Users |-> r.pos[v][c]])
               = SumFunction([v \in Users |-> st.pos[v][c]]) - q
  <2>. DEFINE f == [v \in Users |-> st.pos[v][c]]
              g == [v \in Users |-> r.pos[v][c]]
  <2>1. /\ f \in [Users -> Int] /\ g \in [Users -> Int]
        /\ g[u] = f[u] - q /\ f[u] \in Int /\ \A v \in Users \ {u} : g[v] = f[v]
    BY <1>1, <1>2, <1>4 DEF Position
  <2>. HIDE DEF f, g
  <2>2. SumFunction(g) = SumFunction(f) + (g[u] - f[u])
    BY <1>1, <2>1, SumOneChanges
  <2>3. SumFunction(f) \in Int
    BY <1>1, <2>1, SumIsInt
  <2>4. SumFunction(g) = SumFunction(f) - q
    BY <1>1, <2>1, <2>2, <2>3
  <2>. QED
    BY <2>4 DEF f, g
<1>5. /\ [v \in Users |-> r.pos[v]["yes"]] = [v \in Users |-> r.pos[v].yes]
      /\ [v \in Users |-> r.pos[v]["no"]] = [v \in Users |-> r.pos[v].no]
      /\ [v \in Users |-> st.pos[v]["yes"]] = [v \in Users |-> st.pos[v].yes]
      /\ [v \in Users |-> st.pos[v]["no"]] = [v \in Users |-> st.pos[v].no]
  OBVIOUS
<1>6. /\ SumFunction([v \in Users |-> r.pos[v].yes])
           = SumFunction([v \in Users |-> st.pos[v].yes]) - q
      /\ SumFunction([v \in Users |-> r.pos[v].no])
           = SumFunction([v \in Users |-> st.pos[v].no]) - q
  BY <1>4, <1>5
<1>. QED
  BY <1>1, <1>2, <1>3, <1>6 DEF SupplyCollateralized

LEMMA RedeemSound ==
    ASSUME NEW st, Sound(st), NEW u, NEW q, Redeemable(st, u, q),
           NEW r, RedeemRows(st, r, u, q)
    PROVE  Sound(r) /\ r.orders = st.orders
<1>1. /\ Typed(st) /\ Custody(st) /\ UnusedEscrow(st) /\ Chained(st)
      /\ u \in Users /\ q \in Nat
      /\ \A i \in DOMAIN st.orders : st.resv[i] = Backing(st, i)
      /\ \A v \in Users : SharesReserved(st, v) /\ Explained(st, v)
      /\ \A i \in DOMAIN st.orders : Protected(st.orders[i])
  BY DEF Sound, SoundBut, Redeemable
<1>2. /\ r.orders = st.orders /\ r.resv = st.resv /\ DOMAIN r = Fields
      /\ r.pos \in [Users -> Position] /\ r.balance \in [Users -> Nat]
      /\ r.acct \in [Accounts -> Nat]
      /\ \A v \in Users \ {u} : r.pos[v] = st.pos[v] /\ r.balance[v] = st.balance[v]
      /\ r.balance[u] = st.balance[u] + PayoutMilli * q
      /\ r.acct[Wallet(u)] = st.acct[Wallet(u)] + PayoutMilli * q
  BY DEF RedeemRows, Keeps, Fields
<1>3. /\ \A i \in 1 .. MaxOrders : r.acct[Escrow(i)] = st.acct[Escrow(i)]
      /\ \A v \in Users \ {u} : r.acct[Wallet(v)] = st.acct[Wallet(v)]
  <2>1. \A i \in 1 .. MaxOrders : Escrow(i) \in Accounts \ {Wallet(u), Collateral}
    BY <1>1, AccountNames
  <2>2. \A v \in Users \ {u} : Wallet(v) \in Accounts \ {Wallet(u), Collateral}
    BY <1>1, AccountNames
  <2>. QED
    BY <2>1, <2>2 DEF RedeemRows
<1>4. SupplyCollateralized(r) /\ r.supply.yes \in Nat /\ r.supply.no \in Nat
  BY RedeemSupply
<1>5. Typed(r)
  BY <1>1, <1>2, <1>4 DEF Typed
<1>6. Custody(r) /\ UnusedEscrow(r)
  <2>1. \A i \in DOMAIN st.orders : i \in 1 .. MaxOrders
    BY <1>1, RowsDomain
  <2>2. \A v \in Users : r.acct[Wallet(v)] = r.balance[v]
    BY <1>1, <1>2, <1>3 DEF Custody
  <2>. QED
    BY <1>1, <1>2, <1>3, <2>1, <2>2 DEF Custody, UnusedEscrow
<1>7. Chained(r)
  BY <1>1, <1>2 DEF Chained
<1>8. \A i \in DOMAIN r.orders : r.resv[i] = Backing(r, i)
  <2>1. \A i : Chain(r, i) = Chain(st, i)
    BY <1>2 DEF Chain
  <2>2. \A i : ChainExecuted(r, i) = ChainExecuted(st, i)
    BY <1>2, <2>1 DEF ChainExecuted
  <2>3. \A i : Backing(r, i) = Backing(st, i)
    BY <1>2, <2>2 DEF Backing
  <2>. QED
    BY <1>1, <1>2, <2>3
<1>9. \A v \in Users : SharesReserved(r, v) /\ Explained(r, v)
  <2>1. ASSUME NEW v \in Users \ {u}
        PROVE  SharesReserved(r, v) /\ Explained(r, v)
    <3>1. OwnOrders(r, v) = OwnOrders(st, v) /\ OwnOrders(st, v) \subseteq 1 .. MaxOrders
      BY <1>1, <1>2, RowsDomain DEF OwnOrders
    <3>2. SameFor(st, r, v)
      BY <1>2, <1>3, <3>1 DEF SameFor
    <3>. QED
      BY <1>1, <3>2, OthersUnaffected
  <2>. QED
    BY <2>1, RedeemUser
<1>. QED
  BY <1>1, <1>2, <1>4, <1>5, <1>6, <1>7, <1>8, <1>9 DEF Sound, SoundBut
LEMMA RedeemKeeps ==
    ASSUME ExchangeInv, NEW u \in Users, NEW q \in Redemptions, Redeem(u, q)
    PROVE  ExchangeInv'
<1>. DEFINE b == Begin
            pay == PayoutMilli * q
            s == [b EXCEPT !.supply = [yes |-> @.yes - q, no |-> @.no - q],
                           !.pos[u] = [db.pos[u] EXCEPT !.yes = @ - q, !.no = @ - q],
                           !.balance[u] = @ + pay,
                           !.acct[Wallet(u)] = @ + pay,
                           !.acct[Collateral] = @ - pay]
            covered == /\ db.supply.yes >= q /\ db.supply.no >= q
                       /\ db.acct[Collateral] - pay >=
                            PayoutMilli * (IF db.supply.yes >= db.supply.no
                                           THEN db.supply.yes - q
                                           ELSE db.supply.no - q)
            st == Check([EnsureWallet(b, u)
                        EXCEPT !.supply = [yes |-> @.yes - q, no |-> @.no - q],
                               !.pos[u] = [db.pos[u] EXCEPT !.yes = @ - q, !.no = @ - q],
                               !.balance[u] = @ + pay,
                               !.acct[Wallet(u)] = @ + pay,
                               !.acct[Collateral] = @ - pay],
                        covered, "BROKEN")
<1>1. /\ \A outcome \in Outcomes : Available(db.pos[u], outcome) >= q
      /\ Commit(st, 0) /\ UNCHANGED <<market, active, now>>
  BY DEF Redeem
<1>2. /\ Sound(b) /\ Typed(b) /\ b.offsets = <<>> /\ b.fault = "NONE"
      /\ DOMAIN b = Fields /\ b.pos = db.pos /\ b.acct = db.acct
      /\ b.supply = db.supply /\ b.orders = db.orders
  BY BeginRuns DEF RowNames
<1>. HIDE DEF b
<1>3. q \in Nat /\ q > 0
  BY ExchangeAssumption
<1>4. Redeemable(b, u, q)
  <2>1. "YES" \in Outcomes /\ "NO" \in Outcomes
    BY DEF Outcomes
  <2>. QED
    BY <1>1, <1>2, <1>3, <2>1 DEF Redeemable, Available
<1>5. /\ b.supply.yes >= q /\ b.supply.no = b.supply.yes
      /\ b.acct[Collateral] \in Nat
      /\ b.acct[Collateral] - pay = PayoutMilli * (b.supply.yes - q)
      /\ pay \in Nat /\ PayoutMilli * (b.supply.yes - q) \in Nat
  BY <1>2, <1>4, RedeemCovered
<1>6. covered
  BY <1>2, <1>5
<1>7. EnsureWallet(b, u) = b
  <2>1. b.acct[Wallet(u)] = b.balance[u]
    BY <1>2 DEF Sound, SoundBut, Custody
  <2>. QED
    BY <2>1 DEF EnsureWallet, Check
<1>8. st = s
  BY <1>6, <1>7, Zenon DEF Check
<1>. HIDE DEF st, covered, pay
<1>9. RedeemRows(b, s, u, q)
  <2>1. /\ Wallet(u) \in Accounts /\ Collateral \in Accounts
        /\ Wallet(u) # Collateral
    BY AccountNames
  <2>2. /\ b.pos \in [Users -> Position] /\ b.balance \in [Users -> Nat]
        /\ b.acct \in [Accounts -> Nat]
    BY <1>2 DEF Typed
  <2>3. /\ Keeps(b, s, {"balance", "acct", "pos", "supply"})
        /\ s.supply = [yes |-> b.supply.yes - q, no |-> b.supply.no - q]
        /\ s.pos = [b.pos EXCEPT
                      ![u] = [db.pos[u] EXCEPT !.yes = @ - q, !.no = @ - q]]
        /\ s.balance = [b.balance EXCEPT ![u] = @ + pay]
        /\ s.acct = [b.acct EXCEPT ![Wallet(u)] = @ + pay,
                                   ![Collateral] = @ - pay]
    BY <1>2 DEF Keeps, Fields
  <2>. HIDE DEF s
  <2>. DEFINE p == [db.pos[u] EXCEPT !.yes = @ - q, !.no = @ - q]
  <2>4. /\ p \in Position /\ p.yes = b.pos[u].yes - q /\ p.no = b.pos[u].no - q
        /\ p.rYes = b.pos[u].rYes /\ p.rNo = b.pos[u].rNo
    <3>1. /\ b.pos[u] \in Position /\ b.pos[u].yes \in Nat /\ b.pos[u].no \in Nat
          /\ b.pos[u].rYes \in Nat /\ b.pos[u].rNo \in Nat
      BY <2>2 DEF Position
    <3>2. b.pos[u].yes - q \in Nat /\ b.pos[u].no - q \in Nat
      BY <1>3, <1>4, <3>1 DEF Redeemable
    <3>. DEFINE y == b.pos[u].yes - q
                n == b.pos[u].no - q
    <3>3. p = [b.pos[u] EXCEPT !.yes = y, !.no = n]
      BY <1>2
    <3>. HIDE DEF y, n, p
    <3>4. /\ p \in Position /\ p.yes = y /\ p.no = n
          /\ p.rYes = b.pos[u].rYes /\ p.rNo = b.pos[u].rNo
      BY <3>1, <3>2, <3>3 DEF Position, y, n
    <3>. QED
      BY <3>4 DEF y, n
  <2>5. s.pos = [b.pos EXCEPT ![u] = p]
    BY <2>3
  <2>. HIDE DEF p
  <2>6. /\ s.pos \in [Users -> Position] /\ s.pos[u] = p
        /\ \A v \in Users \ {u} : s.pos[v] = b.pos[v]
    BY <2>2, <2>4, <2>5
  <2>7. /\ s.balance \in [Users -> Nat] /\ s.balance[u] = b.balance[u] + pay
        /\ \A v \in Users \ {u} : s.balance[v] = b.balance[v]
    BY <1>5, <2>2, <2>3
  <2>8. /\ s.acct \in [Accounts -> Nat]
        /\ s.acct[Wallet(u)] = b.acct[Wallet(u)] + pay
        /\ s.acct[Collateral] = b.acct[Collateral] - pay
        /\ \A a \in Accounts \ {Wallet(u), Collateral} : s.acct[a] = b.acct[a]
    <3>1. b.acct[Collateral] - pay \in Nat
      BY <1>5
    <3>. QED
      BY <1>5, <2>1, <2>2, <2>3, <3>1
  <2>. QED
    <3>1. /\ s.supply.yes = b.supply.yes - q /\ s.supply.no = b.supply.no - q
      BY <2>3
    <3>2. \A v \in Users \ {u} : s.pos[v] = b.pos[v] /\ s.balance[v] = b.balance[v]
      BY <2>6, <2>7
    <3>3. /\ s.pos[u].yes = b.pos[u].yes - q /\ s.pos[u].no = b.pos[u].no - q
          /\ s.pos[u].rYes = b.pos[u].rYes /\ s.pos[u].rNo = b.pos[u].rNo
      BY <2>4, <2>6
    <3>4. Keeps(b, s, {"balance", "acct", "pos", "supply"})
      BY <2>3
    <3>5. pay = PayoutMilli * q
      BY DEF pay
    <3>. QED
      BY <2>6, <2>7, <2>8, <3>1, <3>2, <3>3, <3>4, <3>5, Zenon DEF RedeemRows
<1>. HIDE DEF s
<1>10. Sound(s) /\ s.orders = b.orders
  BY <1>2, <1>4, <1>9, RedeemSound
<1>11. s.fault = "NONE" /\ s.offsets = Numbers(0)
  <2>1. Numbers(0) = <<>>
    BY DEF Numbers
  <2>. QED
    BY <1>2, <1>9, <2>1 DEF RedeemRows, Keeps, Fields
<1>12. /\ (DOMAIN db = RowNames)' /\ Sound(Begin)' /\ ~broken' /\ inSequence'
       /\ db'.orders = st.orders
  BY <1>1, <1>8, <1>10, <1>11, CommitKeeps
<1>13. LiveOrders(db)' = LiveOrders(db)
  BY <1>2, <1>8, <1>10, <1>12 DEF LiveOrders
<1>. QED
  BY <1>1, <1>12, <1>13 DEF ExchangeInv

----------------------------------------------------------------------------
\* A transition that stops matching.
LEMMA StopKeeps ==
    ASSUME ExchangeInv, NEW from, NEW to, Stop(from, to)
    PROVE  ExchangeInv'
<1>. DEFINE st == Drain(Begin)
            n == Cardinality(LiveOrders(db)) + 1
<1>1. Commit(st, n)
  BY DEF Stop
<1>2. /\ Sound(Begin) /\ Begin.offsets = <<>> /\ Begin.fault = "NONE"
      /\ LiveOrders(Begin) = LiveOrders(db)
  BY BeginRuns
<1>3. /\ Sound(st) /\ st.fault = "NONE" /\ LiveOrders(st) = {}
      /\ st.offsets = Numbers(n)
  BY <1>2, DrainWorks
<1>. HIDE DEF st, n
<1>4. /\ (DOMAIN db = RowNames)' /\ Sound(Begin)' /\ ~broken' /\ inSequence'
      /\ db'.orders = st.orders
  BY <1>1, <1>3, CommitKeeps
<1>5. LiveOrders(db)' = {}
  BY <1>3, <1>4 DEF LiveOrders
<1>. QED
  BY <1>4, <1>5 DEF ExchangeInv

\* Steps that leave the rows alone.
LEMMA RowsUntouched ==
    ASSUME ExchangeInv, UNCHANGED <<db, inSequence, broken>>,
           market' = market \/ market'.status = "OPEN"
    PROVE  ExchangeInv'
<1>1. Begin' = Begin
  BY DEF Begin
<1>2. Sound(Begin)'
  BY <1>1 DEF ExchangeInv
<1>. QED
  BY <1>2 DEF ExchangeInv, LiveOrders

LEMMA ExchangeStep ==
    ASSUME ExchangeInv, [Next]_vars
    PROVE  ExchangeInv'
<1>1. CASE UNCHANGED vars
  BY <1>1, RowsUntouched DEF vars
<1>2. ASSUME NEW at, Commands(at)
      PROVE  ExchangeInv'
  <2>1. CASE \E u \in Users, req \in Requests : Place(u, req, at)
    BY <2>1, PlaceKeeps
  <2>2. CASE \E i \in DOMAIN db.orders, req \in Requests : Replace(i, req, at)
    BY <2>2, ReplaceKeeps
  <2>3. CASE \E i \in DOMAIN db.orders : Cancel(i) \/ Expire(i, at)
    BY <2>3, CancelKeeps, ExpireKeeps
  <2>4. CASE \E u \in Users : CancelAll(u)
    BY <2>4, CancelAllKeeps
  <2>5. CASE \E u \in Users, q \in Redemptions : Redeem(u, q)
    BY <2>5, RedeemKeeps
  <2>. QED
    BY <1>2, <2>1, <2>2, <2>3, <2>4, <2>5 DEF Commands
<1>3. ASSUME NEW at, Lifecycle(at)
      PROVE  ExchangeInv'
  <2>1. CASE Pause \/ Close \/ AutoClose(at) \/ Resolve(at)
    BY <2>1, StopKeeps DEF Pause, Close, AutoClose, Resolve
  <2>2. CASE Resume(at)
    <3>1. market'.status = "OPEN" /\ UNCHANGED <<db, inSequence, broken>>
      BY <2>2 DEF Resume
    <3>. QED
      BY <3>1, RowsUntouched
  <2>. QED
    BY <1>3, <2>1, <2>2 DEF Lifecycle
<1>4. CASE \E u \in Suspendable : Suspend(u) \/ Restore(u)
  BY <1>4, RowsUntouched DEF Suspend, Restore
<1>5. CASE Tick
  BY <1>5, RowsUntouched DEF Tick
<1>. QED
  BY <1>1, <1>2, <1>3, <1>4, <1>5 DEF Next
----------------------------------------------------------------------------
\* The market as it opens for order-book trading: no orders, and the contracts
\* earlier trades left.
LEMMA InitSound ==
    ASSUME Init
    PROVE  ExchangeInv
<1>. DEFINE b == Begin
            wallets == {Wallet(u) : u \in Users}
<1>1. /\ db.balance = [u \in Users |-> InitialCash]
      /\ db.acct = [a \in Accounts |-> IF a \in wallets THEN InitialCash
                       ELSE IF a = Collateral
                            THEN PayoutMilli * SumFunction(InitialYes) ELSE 0]
      /\ db.orders = <<>> /\ db.resv = <<>>
      /\ db.pos = [u \in Users |-> [yes |-> InitialYes[u], no |-> InitialNo[u],
                                    rYes |-> 0, rNo |-> 0]]
      /\ db.supply = [yes |-> SumFunction(InitialYes), no |-> SumFunction(InitialNo)]
      /\ DOMAIN db = RowNames
  BY DEF Init, RowNames
<1>2. /\ market.status = "OPEN" /\ inSequence /\ ~broken
  BY DEF Init
<1>3. /\ DOMAIN b = Fields /\ b.balance = db.balance /\ b.acct = db.acct
      /\ b.orders = db.orders /\ b.resv = db.resv /\ b.pos = db.pos
      /\ b.supply = db.supply
  BY <1>1, BeginIs DEF Begin, RowNames
<1>. HIDE DEF b
<1>4. /\ IsFiniteSet(Users) /\ InitialCash \in Nat
      /\ InitialYes \in [Users -> Nat] /\ InitialNo \in [Users -> Nat]
      /\ SumFunction(InitialYes) = SumFunction(InitialNo) /\ MaxOrders \in Nat
      /\ PayoutMilli \in Nat
  BY ExchangeAssumption, PayoutAssumption
<1>5. SumFunction(InitialYes) \in Nat /\ PayoutMilli * SumFunction(InitialYes) \in Nat
  <2>1. SumFunction(InitialYes) \in Nat
    BY <1>4, SumIsNat
  <2>. QED
    BY <1>4, <2>1
<1>6. IsRows(b.orders, 0) /\ IsRows(b.resv, 0) /\ Len(b.orders) = 0
      /\ DOMAIN b.orders = {}
  <2>1. <<>> \in Seq({}) /\ Len(<<>>) = 0 /\ DOMAIN <<>> = {}
    OBVIOUS
  <2>. QED
    BY <1>1, <1>3, <2>1 DEF IsRows
<1>7. /\ b.acct \in [Accounts -> Nat]
      /\ \A u \in Users : b.acct[Wallet(u)] = b.balance[u]
      /\ \A i \in 1 .. MaxOrders : b.acct[Escrow(i)] = 0
      /\ b.acct[Collateral] = PayoutMilli * SumFunction(InitialYes)
  <2>1. /\ \A u \in Users : Wallet(u) \in Accounts /\ Wallet(u) \in wallets
        /\ \A i \in 1 .. MaxOrders : /\ Escrow(i) \in Accounts
                                     /\ Escrow(i) \notin wallets
                                     /\ Escrow(i) # Collateral
        /\ Collateral \in Accounts /\ Collateral \notin wallets
    BY AccountNames
  <2>. HIDE DEF wallets
  <2>2. b.acct \in [Accounts -> Nat]
    BY <1>1, <1>3, <1>4, <1>5
  <2>. QED
    BY <1>1, <1>3, <1>4, <1>5, <2>1, <2>2
<1>8. /\ b.pos \in [Users -> Position] /\ b.balance \in [Users -> Nat]
      /\ \A u \in Users : /\ b.pos[u].yes = InitialYes[u]
                          /\ b.pos[u].no = InitialNo[u]
                          /\ b.pos[u].rYes = 0 /\ b.pos[u].rNo = 0
                          /\ b.balance[u] = InitialCash
  BY <1>1, <1>3, <1>4 DEF Position
<1>9. /\ b.supply.yes = SumFunction(InitialYes)
      /\ b.supply.no = SumFunction(InitialNo)
  BY <1>1, <1>3
<1>10. Typed(b)
  BY <1>3, <1>4, <1>5, <1>6, <1>7, <1>8, <1>9 DEF Typed
<1>11. Custody(b) /\ UnusedEscrow(b) /\ Chained(b)
  BY <1>6, <1>7 DEF Custody, UnusedEscrow, Chained
<1>12. SupplyCollateralized(b)
  <2>1. [u \in Users |-> b.pos[u].yes] = InitialYes
    BY <1>4, <1>8
  <2>2. [u \in Users |-> b.pos[u].no] = InitialNo
    BY <1>4, <1>8
  <2>. QED
    BY <1>4, <1>7, <1>9, <2>1, <2>2 DEF SupplyCollateralized
<1>13. ASSUME NEW u \in Users
       PROVE  SharesReserved(b, u) /\ Explained(b, u)
  <2>1. OwnOrders(b, u) = {}
    BY <1>6 DEF OwnOrders
  <2>2. /\ SumFunction(YesHeld(b, u)) = 0 /\ SumFunction(NoHeld(b, u)) = 0
        /\ SumFunction(CashHeld(b, u)) = 0 /\ SumFunction(Earned(b, u)) = 0
        /\ SumFunction(Gained(b, u, "YES")) = 0
        /\ SumFunction(Gained(b, u, "NO")) = 0
    BY <2>1, SumOfNone DEF YesHeld, NoHeld, CashHeld, Earned, Gained
  <2>3. InitialYes[u] \in Nat /\ InitialNo[u] \in Nat
    BY <1>4
  <2>4. SharesReserved(b, u)
    BY <1>8, <2>2, <2>3, SharesAre
  <2>5. Redeemed(b, u) = 0
    BY <1>8, <2>2, <2>3 DEF Redeemed
  <2>6. PayoutMilli * 0 = 0
    BY <1>4
  <2>7. Explained(b, u)
    BY <1>4, <1>8, <2>2, <2>3, <2>5, <2>6, ExplainedIs
  <2>. QED
    BY <2>4, <2>7
<1>14. Sound(b)
  BY <1>6, <1>10, <1>11, <1>12, <1>13 DEF Sound, SoundBut
<1>. QED
  BY <1>1, <1>2, <1>14 DEF ExchangeInv, b

\* The rows a command begins with are those of the database.
LEMMA RowsOfBegin ==
    ASSUME ExchangeInv
    PROVE  /\ Custody(db)
           /\ \A i \in DOMAIN db.orders : db.resv[i] = Backing(db, i)
           /\ \A u \in Users : SharesReserved(db, u) /\ Explained(db, u)
           /\ SupplyCollateralized(db)
           /\ \A i \in DOMAIN db.orders : Protected(db.orders[i])
           /\ Reserves(db) = Reserves(Begin)
<1>. DEFINE b == Begin
<1>1. /\ Sound(b) /\ b.balance = db.balance /\ b.acct = db.acct
      /\ b.orders = db.orders /\ b.resv = db.resv /\ b.pos = db.pos
      /\ b.supply = db.supply
  BY BeginRuns DEF RowNames
<1>. HIDE DEF b
<1>2. /\ Custody(b) /\ SupplyCollateralized(b)
      /\ \A i \in DOMAIN b.orders : b.resv[i] = Backing(b, i)
      /\ \A u \in Users : SharesReserved(b, u) /\ Explained(b, u)
      /\ \A i \in DOMAIN b.orders : Protected(b.orders[i])
  BY <1>1 DEF Sound, SoundBut
<1>3. Custody(db) /\ SupplyCollateralized(db)
  BY <1>1, <1>2 DEF Custody, SupplyCollateralized
<1>4. \A i : Backing(db, i) = Backing(b, i)
  <2>1. \A i : Chain(db, i) = Chain(b, i)
    BY <1>1 DEF Chain
  <2>2. \A i : ChainExecuted(db, i) = ChainExecuted(b, i)
    BY <1>1, <2>1 DEF ChainExecuted
  <2>. QED
    BY <1>1, <2>2 DEF Backing
<1>5. ASSUME NEW u \in Users
      PROVE  SharesReserved(db, u) /\ Explained(db, u)
  <2>1. OwnOrders(db, u) = OwnOrders(b, u)
    BY <1>1 DEF OwnOrders
  <2>2. SameFor(b, db, u)
    BY <1>1, <2>1 DEF SameFor
  <2>. QED
    BY <1>2, <2>2, OthersUnaffected
<1>6. Reserves(db) = Reserves(b)
  BY <1>1 DEF Reserves
<1>. QED
  BY <1>1, <1>2, <1>3, <1>4, <1>5, <1>6 DEF b

LEMMA ExchangeConsequences ==
    ASSUME ExchangeInv
    PROVE  /\ NoInternalError /\ EventsInSequence /\ CustodyMatches
           /\ OrdersBacked /\ ContractsBacked /\ PriceProtected
           /\ WealthExplained /\ LifecycleDrained
<1>1. NoInternalError /\ EventsInSequence
  BY DEF ExchangeInv, NoInternalError, EventsInSequence
<1>2. CustodyMatches /\ OrdersBacked /\ ContractsBacked /\ PriceProtected
      /\ WealthExplained
  BY RowsOfBegin DEF CustodyMatches, OrdersBacked, Backed, ContractsBacked,
                     PriceProtected, WealthExplained
<1>3. LifecycleDrained
  <2>1. LiveOrders(db) = {} => ~Reserves(db)
    BY BeginRuns, RowsOfBegin, NothingReserved
  <2>. QED
    BY <2>1 DEF ExchangeInv, LifecycleDrained
<1>. QED
  BY <1>1, <1>2, <1>3

\* Every step of the exchange keeps the inductive invariant.
THEOREM ExchangeSound == Spec => []ExchangeInv
<1>1. Init => ExchangeInv
  BY InitSound
<1>2. ExchangeInv /\ [Next]_vars => ExchangeInv'
  BY ExchangeStep
<1>. QED
  BY <1>1, <1>2, PTL DEF Spec

\* No legal sequence of commands reaches one of the internal-consistency
\* errors of order-exchange.ts: no journal fails to balance, no reservation
\* fails to cover a fill, no wallet differs from its account.
THEOREM ExchangeNeverBreaks == Spec => []NoInternalError
<1>1. ExchangeInv => NoInternalError
  BY ExchangeConsequences
<1>. QED
  BY <1>1, ExchangeSound, PTL

\* Every command numbers its events from bookSequence + 1 on without gap or
\* duplicate.
THEOREM EventsNumbered == Spec => []EventsInSequence
<1>1. ExchangeInv => EventsInSequence
  BY ExchangeConsequences
<1>. QED
  BY <1>1, ExchangeSound, PTL

\* The cached wallet is the ledger's, and an order's escrow account holds what
\* its reservation says.
THEOREM CustodyKept == Spec => []CustodyMatches
<1>1. ExchangeInv => CustodyMatches
  BY ExchangeConsequences
<1>. QED
  BY <1>1, ExchangeSound, PTL

\* Every live order holds what its rest may still cost, every other nothing,
\* however it was filled, replaced or cancelled.
THEOREM LiveOrdersBacked == Spec => []OrdersBacked
<1>1. ExchangeInv => OrdersBacked
  BY ExchangeConsequences
<1>. QED
  BY <1>1, ExchangeSound, PTL

\* No contract is for sale twice, and each is half of a set that the collateral
\* account pays for.
THEOREM SupplyBacked == Spec => []ContractsBacked
<1>1. ExchangeInv => ContractsBacked
  BY ExchangeConsequences
<1>. QED
  BY <1>1, ExchangeSound, PTL

\* A buyer paid at most the limit for each contract, a seller received at
\* least it.
THEOREM LimitsKept == Spec => []PriceProtected
<1>1. ExchangeInv => PriceProtected
  BY ExchangeConsequences
<1>. QED
  BY <1>1, ExchangeSound, PTL

\* A user's money and contracts are those the user's orders and redemptions
\* explain.
THEOREM WealthAlwaysExplained == Spec => []WealthExplained
<1>1. ExchangeInv => WealthExplained
  BY ExchangeConsequences
<1>. QED
  BY <1>1, ExchangeSound, PTL

\* Nothing rests and nothing is reserved in a market that does not match.
THEOREM StoppedMeansDrained == Spec => []LifecycleDrained
<1>1. ExchangeInv => LifecycleDrained
  BY ExchangeConsequences
<1>. QED
  BY <1>1, ExchangeSound, PTL
============================================================================
