-------------------------- MODULE HedgeBook_proofs --------------------------
(***************************************************************************)
(* Every row of the hedge book goes back to an answered order and, unless  *)
(* that was answered without a fill, to no more than was filled, and no    *)
(* open position is missing from it, for every set of hedge decisions,     *)
(* coins and sizes, although handlers interleave at every call of the      *)
(* venue.                                                                  *)
(***************************************************************************)
EXTENDS HedgeBook, SumTheorems, TLAPS

Opens(r) == order[r] \in Order /\ order[r].action = "open"

\* The venue has answered the order of a handler that is past market_open.
Placed(r) == pc[r] \in {"stop", "reread"} \/ (pc[r] \in {"record", "submitted"} /\ Opens(r))

\* A handler's place fits the action ordered, and nothing is filled before the
\* order is sent.
Control(r) ==
  /\ pc[r] # "idle" <=> order[r] \in Order
  /\ pc[r] \in {"leverage", "stop", "reread"} \/ r \in stops \/ filled[r] > 0 => Opens(r)
  /\ pc[r] \in {"idle", "fund", "leverage", "before", "market"} => filled[r] = 0

\* An answered order has a snapshot to record, of a size that is backed, and
\* its own answer, once given, has a row.
Recorded(r) ==
  /\ Placed(r) => /\ snapshot[r] \in Row /\ snapshot[r].status = "open"
                  /\ Backed(r, snapshot[r].size)
  /\ pc[r] = "submitted" /\ Opens(r) => row[<<"hyperliquid", order[r].coin>>] # NoRow

\* A row of the venue says "open" for good: a close is recorded elsewhere.
RowsStayOpen ==
  \A c \in Coins : row[<<"hyperliquid", c>>] # NoRow => Listed(c)

\* The account holds nothing of a coin without an order that was filled.
PositionsWereTraded ==
  \A c \in Coins : position[c] # 0 =>
    \E r \in Requests : filled[r] > 0 /\ order[r].coin = c

\* ... and holds no more than was filled.
PositionsAreBacked == \A c \in Coins : Abs(position[c]) <= Traded(c)

IInv ==
  /\ TypeOK
  /\ \A r \in Requests : Control(r) /\ Recorded(r)
  /\ RowsStayOpen
  /\ PositionsWereTraded
  /\ PositionsAreBacked
  /\ ListedPositionsWereFilled

-----------------------------------------------------------------------------
LEMMA Sizes ==
  /\ \A n \in Int : Abs(n) \in Nat /\ Abs(n) \in Int /\ 0 <= Abs(n)
  /\ \A s \in Sides, n \in Int : Signed(s, n) \in Int
BY DEF Abs, Signed, Sides

LEMMA RowSizes == \A p \in Row : p.size \in Int
<1> SUFFICES ASSUME NEW p \in Row PROVE p.size \in Int
  OBVIOUS
<1>1. p.size \in Nat
  BY DEF Row
<1> QED BY <1>1

LEMMA FillsAreSizes ==
  ASSUME TypeOK
  PROVE  /\ \A r \in Requests : filled[r] \in Nat
         /\ \A c : FillsOf(c) \in [Requests -> Int] /\ Traded(c) \in Int
<1>1. \A r \in Requests : filled[r] \in Nat
  BY SizeAssumption DEF TypeOK
<1>2. ASSUME NEW c PROVE FillsOf(c) \in [Requests -> Int] /\ Traded(c) \in Int
  <2>1. FillsOf(c) \in [Requests -> Int] /\ \A r \in Requests : FillsOf(c)[r] \in Int
    BY <1>1 DEF FillsOf
  <2> QED BY <2>1, RequestsAssumption, SumType DEF Traded, RequestsAssumption
<1> QED BY <1>1, <1>2

\* Sums and what is backed stay as they are while orders and fills do.
LEMMA SameFills ==
  ASSUME UNCHANGED <<order, filled>>
  PROVE  /\ \A c : Traded(c)' = Traded(c)
         /\ \A r, n : Backed(r, n)' = Backed(r, n)
<1>1. \A c : Traded(c)' = Traded(c)
  BY DEF Traded, FillsOf
<1> QED BY <1>1 DEF Backed

\* What the venue says of a coin is a row, and it says "open" and what it holds.
LEMMA Views ==
  ASSUME TypeOK, NEW c \in Coins, NEW p \in GetPosition(c)
  PROVE  p \in Row /\ p.status = "open" /\ p.size = Abs(position[c])
<1>1. p = VenueView(c)
  BY DEF GetPosition
<1>2. position[c] \in Int
  BY DEF TypeOK
<1>3. Abs(position[c]) \in Nat
  BY <1>2, Sizes
<1> QED BY <1>1, <1>2, <1>3 DEF VenueView, Row, Sides

LEMMA InitInv == Init => IInv
<1> SUFFICES ASSUME Init PROVE IInv
  OBVIOUS
<1>1. TypeOK
  BY SizeAssumption DEF Init, TypeOK
<1>2. \A r \in Requests : Control(r) /\ Recorded(r)
  BY NoOrderAssumption DEF Init, Control, Recorded, Placed, Opens
<1>3. \A c \in Coins : row[<<"hyperliquid", c>>] = NoRow /\ position[c] = 0
  BY DEF Init, Keys
<1>4. PositionsAreBacked
  <2> SUFFICES ASSUME NEW c \in Coins PROVE Abs(position[c]) <= Traded(c)
    BY DEF PositionsAreBacked
  <2> DEFINE none == [r \in {} |-> 0]
  <2>1. /\ FillsOf(c) \in [Requests -> Int]
        /\ \A r \in Requests : FillsOf(c)[r] = 0
    BY DEF Init, FillsOf
  <2>2. SumFunctionOnSet(none, {}) <= SumFunctionOnSet(FillsOf(c), Requests)
    <3>1. \A r \in Requests : FillsOf(c)[r] \in Int /\ 0 <= FillsOf(c)[r]
      BY <2>1
    <3>2. {} \in SUBSET Requests /\ Requests \in SUBSET Requests
      OBVIOUS
    <3> HIDE DEF none
    <3> QED BY <3>1, <3>2, RequestsAssumption, SumCompares DEF RequestsAssumption
  <2>3. SumFunctionOnSet(none, {}) = 0
    BY SumUnfolds, FS_EmptySet
  <2>4. 0 <= Traded(c)
    BY <2>2, <2>3 DEF Traded
  <2>5. Abs(position[c]) = 0
    <3>1. position[c] = 0
      BY <1>3
    <3> QED BY <3>1 DEF Abs
  <2> QED BY <2>4, <2>5
<1> QED BY <1>1, <1>2, <1>3, <1>4
        DEF IInv, RowsStayOpen, PositionsWereTraded, ListedPositionsWereFilled, Listed

\* A witness of a row is an answered open, which moves no more: it stays one
\* as long as the rows, the orders and what is backed stay as they are.
LEMMA ListedStays ==
  ASSUME ListedPositionsWereFilled, UNCHANGED row,
         \A q \in Requests : pc[q] = "submitted" /\ order[q].action = "open" =>
           /\ pc'[q] = pc[q] /\ order'[q] = order[q] /\ snapshot'[q] = snapshot[q]
           /\ Backed(q, snapshot[q].size) => Backed(q, snapshot[q].size)'
  PROVE  ListedPositionsWereFilled'
<1> SUFFICES ASSUME NEW c \in Coins, Listed(c)
             PROVE  \E q \in Requests :
                      (/\ pc[q] = "submitted" /\ order[q].action = "open" /\ order[q].coin = c
                       /\ snapshot[q] # NoRow /\ snapshot[q].size = row[<<"hyperliquid", c>>].size
                       /\ Backed(q, snapshot[q].size))'
  BY DEF ListedPositionsWereFilled, Listed
<1>1. PICK q \in Requests :
        /\ pc[q] = "submitted" /\ order[q].action = "open" /\ order[q].coin = c
        /\ snapshot[q] # NoRow /\ snapshot[q].size = row[<<"hyperliquid", c>>].size
        /\ Backed(q, snapshot[q].size)
  BY DEF ListedPositionsWereFilled
<1> QED BY <1>1

\* A step that moves one handler on and touches neither the venue's fills nor
\* the rows keeps the invariant.
LEMMA QuietStep ==
  ASSUME IInv, NEW r \in Requests, NEW to \in {"error"} \cup InFlight,
         pc' = [pc EXCEPT ![r] = to], UNCHANGED <<order, position, filled, row>>,
         stops' \in {stops, stops \cup {r}},
         snapshot' \in [Requests -> Row \cup {NoRow}],
         \A q \in Requests : q # r => snapshot'[q] = snapshot[q],
         (Control(r) /\ Recorded(r))', pc[r] # "submitted"
  PROVE  IInv'
<1>1. TypeOK'
  BY DEF IInv, TypeOK
<1>2. /\ \A c : Traded(c)' = Traded(c)
      /\ \A q, n : Backed(q, n)' = Backed(q, n)
  BY SameFills
<1>3. ASSUME NEW q \in Requests, q # r
      PROVE  (Control(q) /\ Recorded(q))'
  <2>1. pc'[q] = pc[q] /\ snapshot'[q] = snapshot[q] /\ (q \in stops' <=> q \in stops)
    BY <1>3 DEF IInv, TypeOK
  <2>2. Control(q) /\ Recorded(q)
    BY DEF IInv
  <2>3. Control(q)'
    BY <2>1, <2>2 DEF Control, Opens
  <2>4. Backed(q, snapshot[q].size)' <=> Backed(q, snapshot[q].size)
    BY <1>2, <2>1 DEF Backed
  <2> QED BY <2>1, <2>2, <2>3, <2>4 DEF Recorded, Placed, Opens
<1>4. RowsStayOpen' /\ PositionsWereTraded' /\ PositionsAreBacked'
  BY <1>2 DEF IInv, RowsStayOpen, Listed, PositionsWereTraded, PositionsAreBacked
<1>5. ListedPositionsWereFilled'
  <2>1. \A q \in Requests : q # r => pc'[q] = pc[q]
    BY DEF IInv, TypeOK
  <2>2. \A q \in Requests : Backed(q, snapshot[q].size)' <=> Backed(q, snapshot'[q].size)
    BY <1>2 DEF Backed
  <2> QED BY <1>2, <2>1, <2>2, ListedStays DEF IInv
<1> QED BY <1>1, <1>3, <1>4, <1>5 DEF IInv

LEMMA HandlerKeeps ==
  ASSUME IInv, NEW r \in Requests,
         \/ RequireFunded(r) \/ SetLeverage(r) \/ PlaceStop(r) \/ Reread(r) \/ ReadBefore(r)
         \/ Raises(r)
  PROVE  IInv'
<1> USE DEF venueVars
<1>1. CASE RequireFunded(r)
  BY <1>1, QuietStep DEF RequireFunded, IInv, TypeOK, Control, Recorded, Placed, Opens, InFlight, Order
<1>2. CASE SetLeverage(r)
  BY <1>2, QuietStep DEF SetLeverage, IInv, TypeOK, Control, Recorded, Placed, Opens, InFlight
<1>3. CASE PlaceStop(r)
  <2>1. /\ pc[r] = "stop" /\ pc' = [pc EXCEPT ![r] = "reread"]
        /\ stops' \in {stops, stops \cup {r}}
        /\ UNCHANGED <<order, snapshot, position, filled, row>>
    BY <1>3 DEF PlaceStop
  <2>2. pc'[r] = "reread" /\ Opens(r) /\ Placed(r)
    BY <2>1 DEF IInv, TypeOK, Control, Placed
  <2>3. Control(r)'
    BY <2>1, <2>2 DEF IInv, Control, Opens
  <2>4. Backed(r, snapshot[r].size)'
    BY <2>1, <2>2, SameFills DEF IInv, Recorded, Backed
  <2>5. Recorded(r)'
    BY <2>1, <2>2, <2>4 DEF IInv, Recorded, Placed
  <2> QED BY <2>1, <2>3, <2>5, QuietStep DEF IInv, TypeOK, InFlight
<1>4. CASE Reread(r)
  <2>1. Opens(r) /\ order[r].coin \in Coins /\ pc[r] = "reread"
    BY <1>4 DEF Reread, IInv, Control, Opens, Order
  <2>2. /\ snapshot'[r] \in Row /\ snapshot'[r].status = "open"
        /\ Backed(r, snapshot'[r].size)
    <3>1. CASE GetPosition(order[r].coin) = {}
      <4>1. snapshot' = snapshot
        BY <1>4, <3>1 DEF Reread
      <4> QED BY <2>1, <4>1 DEF IInv, Recorded, Placed
    <3>2. CASE GetPosition(order[r].coin) # {}
      <4>1. PICK p \in GetPosition(order[r].coin) : snapshot' = [snapshot EXCEPT ![r] = p]
        BY <1>4, <3>2 DEF Reread
      <4>2. p \in Row /\ p.status = "open" /\ p.size = Abs(position[order[r].coin])
        BY <2>1, Views DEF IInv
      <4>3. p.size <= Traded(order[r].coin)
        BY <2>1, <4>2 DEF IInv, PositionsAreBacked
      <4>4. snapshot'[r] = p
        BY <4>1 DEF IInv, TypeOK
      <4> QED BY <4>2, <4>3, <4>4 DEF Backed
    <3> QED BY <3>1, <3>2
  <2>3. /\ snapshot' \in [Requests -> Row \cup {NoRow}]
        /\ \A q \in Requests : q # r => snapshot'[q] = snapshot[q]
    <3>1. CASE GetPosition(order[r].coin) = {}
      BY <1>4, <3>1 DEF Reread, IInv, TypeOK
    <3>2. CASE GetPosition(order[r].coin) # {}
      <4>1. PICK p \in GetPosition(order[r].coin) : snapshot' = [snapshot EXCEPT ![r] = p]
        BY <1>4, <3>2 DEF Reread
      <4>2. p \in Row
        BY <2>1, Views DEF IInv
      <4> QED BY <4>1, <4>2 DEF IInv, TypeOK
    <3> QED BY <3>1, <3>2
  <2>4. (Control(r) /\ Recorded(r))'
    <3>1. /\ pc'[r] = "record" /\ UNCHANGED <<order, filled, stops, row>>
      BY <1>4 DEF Reread, venueVars, IInv, TypeOK
    <3>2. Control(r)'
      BY <2>1, <3>1 DEF IInv, Control, Opens
    <3>3. Backed(r, snapshot[r].size)'
      BY <2>2, <3>1, SameFills DEF Backed
    <3>4. Recorded(r)'
      BY <2>2, <3>1, <3>3 DEF Recorded, Placed
    <3> QED BY <3>2, <3>4
  <2>5. /\ pc' = [pc EXCEPT ![r] = "record"] /\ UNCHANGED <<order, position, filled, row>>
        /\ stops' = stops
    BY <1>4 DEF Reread
  <2> QED BY <2>1, <2>3, <2>4, <2>5, QuietStep DEF InFlight
<1>5. CASE ReadBefore(r)
  BY <1>5, QuietStep DEF ReadBefore, IInv, TypeOK, Control, Recorded, Placed, Opens, InFlight
<1>6. CASE Raises(r)
  BY <1>6, QuietStep DEF Raises, IInv, TypeOK, Control, Recorded, Placed, Opens, InFlight
<1> QED BY <1>1, <1>2, <1>3, <1>4, <1>5, <1>6

LEMMA PostKeeps ==
  ASSUME IInv, NEW r \in Requests, NEW o \in Order, PostHedge(r, o)
  PROVE  IInv'
<1> USE DEF venueVars
<1>1. /\ pc[r] = "idle"
      /\ order' = [order EXCEPT ![r] = o] /\ pc' = [pc EXCEPT ![r] = "fund"]
      /\ UNCHANGED <<snapshot, position, filled, stops, row>>
  BY DEF PostHedge
<1>2. TypeOK'
  BY <1>1 DEF IInv, TypeOK, InFlight
<1>3. order[r] \notin Order /\ filled[r] = 0 /\ r \notin stops
  BY <1>1 DEF IInv, Control, Opens
<1>4. /\ order'[r] = o /\ pc'[r] = "fund"
      /\ \A q \in Requests : q # r => order'[q] = order[q] /\ pc'[q] = pc[q]
  BY <1>1 DEF IInv, TypeOK
<1>5. \A c : Traded(c)' = Traded(c)
  <2> SUFFICES ASSUME NEW c PROVE Traded(c)' = Traded(c)
    OBVIOUS
  <2> DEFINE Of(ord, q) == IF ord[q] # NoOrder /\ ord[q].coin = c THEN filled[q] ELSE 0
  <2>1. \A q \in Requests : Of(order', q) = Of(order, q)
    BY <1>3, <1>4
  <2>2. FillsOf(c)' = [q \in Requests |-> Of(order', q)] /\ FillsOf(c) = [q \in Requests |-> Of(order, q)]
    BY <1>1 DEF FillsOf
  <2> HIDE DEF Of
  <2>3. FillsOf(c)' = FillsOf(c)
    BY <2>1, <2>2
  <2> QED BY <2>3 DEF Traded
<1>6. \A q \in Requests : q # r =>
        (Backed(q, snapshot[q].size) => Backed(q, snapshot[q].size)')
  BY <1>1, <1>4, <1>5 DEF Backed
<1>7. ASSUME NEW q \in Requests
      PROVE  (Control(q) /\ Recorded(q))'
  <2>1. CASE q = r
    BY <1>1, <1>3, <1>4, <2>1 DEF Control, Recorded, Placed, Opens
  <2>2. CASE q # r
    <3>1. Control(q) /\ Recorded(q)
      BY DEF IInv
    <3>2. Control(q)'
      BY <1>1, <1>4, <2>2, <3>1 DEF Control, Opens
    <3>3. Recorded(q)'
      BY <1>1, <1>4, <1>6, <2>2, <3>1 DEF Recorded, Placed, Opens
    <3> QED BY <3>2, <3>3
  <2> QED BY <2>1, <2>2
<1>8. RowsStayOpen' /\ PositionsAreBacked'
  BY <1>1, <1>5 DEF IInv, RowsStayOpen, Listed, PositionsAreBacked
<1>9. PositionsWereTraded'
  BY <1>1, <1>3, <1>4 DEF IInv, PositionsWereTraded
<1>10. ListedPositionsWereFilled'
  BY <1>1, <1>4, <1>6, ListedStays DEF IInv
<1> QED BY <1>2, <1>7, <1>8, <1>9, <1>10 DEF IInv

\* The venue fills an order.
LEMMA MarketOpenKeeps ==
  ASSUME IInv, NEW r \in Requests, MarketOpen(r)
  PROVE  IInv'
<1> DEFINE told == [side |-> order[r].side, size |-> FilledOrAsked(r, filled'[r]),
                    margin |-> order[r].size, status |-> "open"]
<1>1. order[r] \in Order /\ order[r].action = "open" /\ pc[r] = "market" /\ filled[r] = 0
  BY DEF MarketOpen, IInv, Control
<1>2. order[r].coin \in Coins /\ order[r].side \in Sides /\ order[r].size \in 1 .. MaxSize
  BY <1>1 DEF Order
<1>3. PICK f \in 0 .. order[r].size : Fill(r, f)
  BY DEF MarketOpen
<1>4. f \in 0 .. MaxSize /\ f \in Nat /\ order[r].size \in Nat
  BY <1>2, SizeAssumption
<1>5. position[order[r].coin] \in Int /\ Signed(order[r].side, f) \in Int
  BY <1>2, <1>4, Sizes DEF IInv, TypeOK
<1>6. /\ position' = [position EXCEPT ![order[r].coin] =
                        position[order[r].coin] + Signed(order[r].side, f)]
      /\ filled' = [filled EXCEPT ![r] = f]
      /\ snapshot' = [snapshot EXCEPT ![r] =
                        [side |-> order[r].side, size |-> FilledOrAsked(r, f),
                         margin |-> order[r].size, status |-> "open"]]
      /\ pc' = [pc EXCEPT ![r] = IF order[r].stop THEN "stop" ELSE "reread"]
      /\ UNCHANGED <<order, stops, row>>
  BY <1>3 DEF Fill
<1>7. /\ filled'[r] = f /\ snapshot'[r] = told
      /\ pc'[r] \in {"stop", "reread"}
      /\ \A q \in Requests : q # r =>
           filled'[q] = filled[q] /\ snapshot'[q] = snapshot[q] /\ pc'[q] = pc[q]
  BY <1>6 DEF IInv, TypeOK
<1>8. told \in Row /\ told.status = "open"
      /\ told.size = FilledOrAsked(r, f)
  <2>1. FilledOrAsked(r, f) \in Nat
    BY <1>4 DEF FilledOrAsked
  <2> QED BY <1>2, <1>4, <1>7, <2>1 DEF Row
<1> HIDE DEF told
<1>9. TypeOK'
  <2>1. pc' \in [Requests -> {"idle", "submitted", "error"} \cup InFlight]
    BY <1>6 DEF IInv, TypeOK, InFlight
  <2>2. snapshot' \in [Requests -> Row \cup {NoRow}]
    BY <1>6, <1>7, <1>8 DEF IInv, TypeOK
  <2>3. position' \in [Coins -> Int]
    <3>1. position[order[r].coin] + Signed(order[r].side, f) \in Int
      BY <1>5
    <3> QED BY <1>6, <3>1 DEF IInv, TypeOK
  <2>4. filled' \in [Requests -> 0 .. MaxSize]
    BY <1>4, <1>6, SizeAssumption DEF IInv, TypeOK
  <2> QED BY <1>6, <2>1, <2>2, <2>3, <2>4 DEF IInv, TypeOK
\* The fill is added to what was traded of the coin, and to no other coin.
<1>10. ASSUME NEW c
       PROVE  Traded(c)' = Traded(c) + (IF c = order[r].coin THEN f ELSE 0)
  <2>1. FillsOf(c) \in [Requests -> Int] /\ FillsOf(c)' \in [Requests -> Int]
    <3>1. FillsOf(c)' \in [Requests -> Int]
      <4>1. \A q \in Requests : filled'[q] \in Int
        BY <1>9, SizeAssumption DEF TypeOK
      <4> QED BY <4>1 DEF FillsOf
    <3> QED BY <3>1, FillsAreSizes DEF IInv
  <2>2. \A q \in Requests \ {r} : FillsOf(c)'[q] = FillsOf(c)[q]
    BY <1>6, <1>7 DEF FillsOf
  <2>3. FillsOf(c)'[r] = FillsOf(c)[r] + (IF c = order[r].coin THEN f ELSE 0)
    BY <1>1, <1>4, <1>6, <1>7, NoOrderAssumption DEF FillsOf
  <2> DEFINE g == FillsOf(c)
             h == FillsOf(c)'
             d == IF c = order[r].coin THEN f ELSE 0
  <2>4. /\ g \in [Requests -> Int] /\ h \in [Requests -> Int] /\ d \in Int
        /\ \A q \in Requests \ {r} : h[q] = g[q]
        /\ h[r] = g[r] + d
    BY <1>4, <2>1, <2>2, <2>3
  <2>5. Traded(c) = SumFunctionOnSet(g, Requests) /\ Traded(c)' = SumFunctionOnSet(h, Requests)
    BY DEF Traded
  <2> HIDE DEF g, h, d
  <2>6. SumFunctionOnSet(h, Requests) = SumFunctionOnSet(g, Requests) + d
    BY <2>4, RequestsAssumption, SumShifts DEF RequestsAssumption
  <2> QED BY <2>5, <2>6 DEF d
<1>11. \A c : /\ Traded(c) \in Int /\ Traded(c)' \in Int
              /\ Traded(c) <= Traded(c)'
  <2>1. \A c : Traded(c) \in Int
    BY FillsAreSizes DEF IInv
  <2> QED BY <1>4, <1>10, <2>1
<1>12. PositionsAreBacked'
  <2> SUFFICES ASSUME NEW c \in Coins PROVE Abs(position'[c]) <= Traded(c)'
    BY DEF PositionsAreBacked
  <2>1. position[c] \in Int /\ Abs(position[c]) <= Traded(c) /\ Traded(c) \in Int
    BY <1>11 DEF IInv, TypeOK, PositionsAreBacked
  <2>2. CASE c = order[r].coin
    <3>1. position'[c] = position[c] + Signed(order[r].side, f)
      BY <1>2, <1>6, <2>2 DEF IInv, TypeOK
    <3>2. Traded(c)' = Traded(c) + f
      BY <1>10, <2>2
    <3> QED BY <1>4, <2>1, <3>1, <3>2 DEF Abs, Signed
  <2>3. CASE c # order[r].coin
    <3>1. position'[c] = position[c]
      BY <1>6, <2>3 DEF IInv, TypeOK
    <3>2. Abs(position[c]) \in Int
      BY <2>1, Sizes
    <3> QED BY <1>11, <2>1, <3>1, <3>2
  <2> QED BY <2>2, <2>3
<1>13. ASSUME NEW q \in Requests, q # r, order[q].coin \in Coins, snapshot[q] \in Row,
              Backed(q, snapshot[q].size)
       PROVE  Backed(q, snapshot[q].size)'
  <2>1. snapshot[q].size \in Int
    BY <1>13, RowSizes
  <2>2. \A c : snapshot[q].size <= Traded(c) => snapshot[q].size <= Traded(c)'
    BY <1>11, <2>1
  <2>3. snapshot'[q] = snapshot[q] /\ filled'[q] = filled[q] /\ order' = order
    BY <1>6, <1>7, <1>13
  <2> QED BY <1>13, <2>2, <2>3 DEF Backed
<1>14. ASSUME NEW q \in Requests
       PROVE  (Control(q) /\ Recorded(q))'
  <2>1. CASE q = r
    <3>1. Control(q)'
      BY <1>1, <1>6, <1>7, <2>1 DEF IInv, Control, Opens
    <3>2. Backed(r, snapshot[r].size)'
      <4>1. /\ snapshot'[r].size = FilledOrAsked(r, f) /\ filled'[r] = f
            /\ order' = order
        BY <1>6, <1>7, <1>8
      <4>2. CASE f = 0
        BY <4>1, <4>2 DEF Backed, FilledOrAsked
      <4>3. CASE f # 0
        <5>1. \A c : c = order[r].coin => 0 <= Traded(c)
          BY <1>2, <1>5, <1>11, Sizes DEF IInv, PositionsAreBacked
        <5>2. \A c : c = order[r].coin => f <= Traded(c)'
          BY <1>4, <1>10, <1>11, <5>1
        <5>3. snapshot'[r].size = f
          BY <4>1, <4>3 DEF FilledOrAsked
        <5> QED BY <4>1, <5>2, <5>3 DEF Backed
      <4> QED BY <4>2, <4>3
    <3>3. Recorded(q)'
      BY <1>7, <1>8, <2>1, <3>2 DEF Recorded, Placed
    <3> QED BY <3>1, <3>3
  <2>2. CASE q # r
    <3>1. Control(q) /\ Recorded(q) /\ (Placed(q) => order[q].coin \in Coins)
      BY DEF IInv, Control, Placed, Opens, Order
    <3>2. Control(q)'
      BY <1>6, <1>7, <2>2, <3>1 DEF Control, Opens
    <3>3. Recorded(q)'
      BY <1>6, <1>7, <1>13, <2>2, <3>1 DEF Recorded, Placed, Opens
    <3> QED BY <3>2, <3>3
  <2> QED BY <2>1, <2>2
<1>15. RowsStayOpen'
  BY <1>6 DEF IInv, RowsStayOpen, Listed
<1>16. PositionsWereTraded'
  <2> SUFFICES ASSUME NEW c \in Coins, position'[c] # 0
               PROVE  \E q \in Requests : filled'[q] > 0 /\ order'[q].coin = c
    BY DEF PositionsWereTraded
  <2>1. CASE c = order[r].coin /\ f > 0
    BY <1>6, <1>7, <2>1
  <2>2. CASE c # order[r].coin \/ f = 0
    <3>1. position[c] # 0
      BY <1>2, <1>5, <1>6, <2>2 DEF IInv, TypeOK, Signed
    <3>2. PICK q \in Requests : filled[q] > 0 /\ order[q].coin = c
      BY <3>1 DEF IInv, PositionsWereTraded
    <3> QED BY <1>1, <1>6, <1>7, <3>2
  <2> QED BY <1>4, <2>1, <2>2
<1>17. ListedPositionsWereFilled'
  <2>1. ASSUME NEW q \in Requests, pc[q] = "submitted", order[q].action = "open"
        PROVE  /\ pc'[q] = pc[q] /\ order'[q] = order[q] /\ snapshot'[q] = snapshot[q]
               /\ Backed(q, snapshot[q].size) => Backed(q, snapshot[q].size)'
    <3>1. q # r /\ Opens(q)
      BY <1>1, <2>1 DEF IInv, Control, Opens
    <3>2. order[q].coin \in Coins /\ snapshot[q] \in Row
      BY <2>1, <3>1 DEF IInv, Recorded, Placed, Opens, Order
    <3> QED BY <1>6, <1>7, <1>13, <3>1, <3>2
  <2> QED BY <1>6, <2>1, ListedStays DEF IInv
<1> QED BY <1>9, <1>12, <1>14, <1>15, <1>16, <1>17 DEF IInv

\* A step at the venue that only takes from a position, or leaves it, and moves
\* at most the handler of a close.
LEMMA ReducingStep ==
  ASSUME IInv, NEW r \in Requests, position' \in [Coins -> Int],
         \A c \in Coins : position'[c] # 0 => position[c] # 0,
         \A c \in Coins : Abs(position'[c]) <= Abs(position[c]),
         UNCHANGED <<order, snapshot, filled, row>>, stops' \in SUBSET stops,
         \/ UNCHANGED pc
         \/ /\ pc[r] = "market" /\ order[r].action = "close"
            /\ pc' = [pc EXCEPT ![r] = "record"]
  PROVE  IInv'
<1>1. TypeOK'
  BY DEF IInv, TypeOK, InFlight
<1>2. \A q \in Requests :
        pc'[q] = pc[q] \/ (pc[q] = "market" /\ order[q].action = "close" /\ pc'[q] = "record")
  BY DEF IInv, TypeOK
<1>3. /\ \A c : Traded(c)' = Traded(c)
      /\ \A q : Backed(q, snapshot[q].size) => Backed(q, snapshot[q].size)'
  BY SameFills DEF Backed
<1>4. ASSUME NEW q \in Requests
      PROVE  (Control(q) /\ Recorded(q))'
  <2>1. Control(q) /\ Recorded(q)
    BY DEF IInv
  <2>2. Control(q)'
    BY <1>2, <2>1 DEF Control, Opens
  <2>3. Placed(q)' => Placed(q)
    BY <1>2 DEF Placed, Opens
  <2>4. Recorded(q)'
    BY <1>2, <1>3, <2>1, <2>3 DEF Recorded, Opens
  <2> QED BY <2>2, <2>4
<1>5. RowsStayOpen' /\ PositionsWereTraded'
  BY DEF IInv, RowsStayOpen, Listed, PositionsWereTraded
<1>6. PositionsAreBacked'
  <2> SUFFICES ASSUME NEW c \in Coins PROVE Abs(position'[c]) <= Traded(c)'
    BY DEF PositionsAreBacked
  <2>1. /\ position[c] \in Int /\ position'[c] \in Int
        /\ Abs(position[c]) <= Traded(c) /\ Traded(c) \in Int
    BY FillsAreSizes DEF IInv, TypeOK, PositionsAreBacked
  <2>2. Abs(position[c]) \in Int /\ Abs(position'[c]) \in Int
    BY <2>1 DEF Abs
  <2> QED BY <1>3, <2>1, <2>2
<1>7. ListedPositionsWereFilled'
  BY <1>2, <1>3, ListedStays DEF IInv
<1> QED BY <1>1, <1>4, <1>5, <1>6, <1>7 DEF IInv

LEMMA MarketCloseKeeps ==
  ASSUME IInv, NEW r \in Requests, MarketClose(r)
  PROVE  IInv'
<1>1. order[r] \in Order /\ order[r].action = "close" /\ pc[r] = "market"
  BY DEF MarketClose, IInv, Control
<1>2. order[r].coin \in Coins
  BY <1>1 DEF Order
<1>3. PICK left \in 0 .. Abs(position[order[r].coin]) :
           position' = [position EXCEPT ![order[r].coin] =
                          IF position[order[r].coin] > 0 THEN left ELSE -left]
  BY DEF MarketClose
<1>4. position[order[r].coin] \in Int /\ left \in Int
  BY <1>2 DEF IInv, TypeOK
<1>5. position' \in [Coins -> Int]
  <2>1. (IF position[order[r].coin] > 0 THEN left ELSE -left) \in Int
    BY <1>4
  <2> QED BY <1>3, <2>1 DEF IInv, TypeOK
<1>6. \A c \in Coins : position'[c] # 0 => position[c] # 0
  BY <1>2, <1>3, <1>4 DEF IInv, TypeOK, Abs
<1>7. \A c \in Coins : Abs(position'[c]) <= Abs(position[c])
  BY <1>2, <1>3, <1>4 DEF IInv, TypeOK, Abs
<1>8. /\ pc' = [pc EXCEPT ![r] = "record"]
      /\ UNCHANGED <<order, snapshot, filled, row>> /\ stops' \in SUBSET stops
  BY DEF MarketClose
<1> QED BY <1>1, <1>5, <1>6, <1>7, <1>8, ReducingStep

LEMMA StopKeeps ==
  ASSUME IInv, NEW r \in Requests, StopFires(r)
  PROVE  IInv'
<1> DEFINE c == order[r].coin
           size == FilledOrAsked(r, filled[r])
<1>1. Opens(r) /\ c \in Coins /\ order[r].side \in Sides /\ size \in Nat
  <2>1. Opens(r) /\ filled[r] \in Nat
    BY SizeAssumption DEF StopFires, IInv, TypeOK, Control
  <2> QED BY <2>1, SizeAssumption DEF Opens, Order, FilledOrAsked
<1>2. position[c] \in Int
  BY <1>1 DEF IInv, TypeOK
<1>3. /\ position' = [position EXCEPT ![c] =
           IF Signed(order[r].side, position[c]) <= 0 THEN position[c]
           ELSE IF Abs(position[c]) <= size THEN 0
           ELSE position[c] - Signed(order[r].side, size)]
      /\ UNCHANGED <<order, snapshot, filled, row, pc>> /\ stops' \in SUBSET stops
  BY DEF StopFires
<1> HIDE DEF c, size
<1>4. position' \in [Coins -> Int]
  BY <1>1, <1>2, <1>3, Sizes DEF IInv, TypeOK
<1>5. \A d \in Coins : position'[d] = position[d] \/ d = c
  BY <1>1, <1>3 DEF IInv, TypeOK
<1>6. /\ position'[c] # 0 => position[c] # 0
      /\ Abs(position'[c]) <= Abs(position[c])
  <2>1. position'[c] = IF Signed(order[r].side, position[c]) <= 0 THEN position[c]
                       ELSE IF Abs(position[c]) <= size THEN 0
                       ELSE position[c] - Signed(order[r].side, size)
    BY <1>1, <1>3 DEF IInv, TypeOK
  <2> QED BY <1>1, <1>2, <2>1 DEF Abs, Signed, Sides
<1>7. \A d \in Coins : /\ position'[d] # 0 => position[d] # 0
                       /\ Abs(position'[d]) <= Abs(position[d])
  <2>1. \A d \in Coins : position[d] \in Int
    BY DEF IInv, TypeOK
  <2>2. \A d \in Coins : Abs(position[d]) <= Abs(position[d])
    BY <2>1 DEF Abs
  <2> QED BY <1>5, <1>6, <2>2
<1> QED BY <1>3, <1>4, <1>7, ReducingStep

\* A row that is written for an answered open is its own witness.
LEMMA RecordOpenKeeps ==
  ASSUME IInv, NEW r \in Requests, RecordOpen(r)
  PROVE  IInv'
<1> DEFINE k == <<"hyperliquid", order[r].coin>>
<1>1. Opens(r) /\ order[r].coin \in Coins /\ k \in Keys
  BY DEF RecordOpen, IInv, Control, Opens, Order, Keys
<1>2. /\ snapshot[r] \in Row /\ snapshot[r].status = "open"
      /\ snapshot[r] # NoRow /\ Backed(r, snapshot[r].size)
  BY <1>1, NoRowAssumption DEF RecordOpen, IInv, Recorded, Placed
<1>3. /\ pc' = [pc EXCEPT ![r] = "submitted"] /\ pc[r] = "record"
      /\ UNCHANGED <<order, snapshot, position, filled, stops>>
  BY DEF RecordOpen, venueVars
<1>4. /\ row' \in [Keys -> Row \cup {NoRow}]
      /\ row'[k] \in Row /\ row'[k].status = "open" /\ row'[k].size = snapshot[r].size
      /\ \A j \in Keys : j # k => row'[j] = row[j]
  <2>1. row' = [row EXCEPT ![k] = IF row[k] = NoRow THEN snapshot[r]
                                  ELSE [row[k] EXCEPT !.status = snapshot[r].status,
                                                      !.size = snapshot[r].size]]
    BY DEF RecordOpen, Upsert
  <2>2. CASE row[k] = NoRow
    BY <1>1, <1>2, <2>1, <2>2 DEF IInv, TypeOK
  <2>3. CASE row[k] # NoRow
    <3>1. row[k] \in Row
      BY <1>1, <2>3 DEF IInv, TypeOK
    <3> DEFINE p == [row[k] EXCEPT !.status = snapshot[r].status, !.size = snapshot[r].size]
    <3>2. p \in Row /\ p.status = "open" /\ p.size = snapshot[r].size
      BY <1>2, <3>1 DEF Row
    <3>3. row' = [row EXCEPT ![k] = p]
      BY <2>1, <2>3
    <3> HIDE DEF p
    <3> QED BY <1>1, <3>2, <3>3 DEF IInv, TypeOK
  <2> QED BY <2>2, <2>3
<1>5. row'[k] # NoRow
  BY <1>4, NoRowAssumption
<1>6. /\ TypeOK'
      /\ \A c : Traded(c)' = Traded(c)
      /\ \A q : Backed(q, snapshot[q].size)' <=> Backed(q, snapshot[q].size)
  BY <1>3, <1>4, SameFills DEF IInv, TypeOK, InFlight, Backed
<1>7. ASSUME NEW q \in Requests
      PROVE  (Control(q) /\ Recorded(q))'
  <2>1. Control(q)'
    BY <1>1, <1>3 DEF IInv, TypeOK, Control, Opens
  <2>2. Placed(q)' => Placed(q)
    BY <1>1, <1>3 DEF IInv, TypeOK, Placed, Opens
  <2>3. ASSUME pc'[q] = "submitted", Opens(q)'
        PROVE  row'[<<"hyperliquid", order'[q].coin>>] # NoRow
    <3>1. <<"hyperliquid", order[q].coin>> \in Keys
      BY <1>3, <2>3 DEF Opens, Order, Keys
    <3>2. CASE order[q].coin = order[r].coin
      BY <1>3, <1>5, <3>2
    <3>3. CASE order[q].coin # order[r].coin
      <4>1. row[<<"hyperliquid", order[q].coin>>] # NoRow
        BY <1>3, <2>3, <3>3 DEF IInv, TypeOK, Recorded, Opens
      <4> QED BY <1>3, <1>4, <3>1, <3>3, <4>1
    <3> QED BY <3>2, <3>3
  <2>4. Recorded(q)'
    BY <1>3, <1>6, <2>2, <2>3 DEF IInv, Recorded
  <2> QED BY <2>1, <2>4
<1>8. ASSUME NEW c \in Coins, c # order[r].coin
      PROVE  row'[<<"hyperliquid", c>>] = row[<<"hyperliquid", c>>]
  BY <1>4, <1>8 DEF Keys
<1>9. Listed(order[r].coin)'
  BY <1>3, <1>4, <1>5 DEF Listed
<1>10. RowsStayOpen'
  BY <1>3, <1>8, <1>9 DEF IInv, RowsStayOpen, Listed
<1>11. PositionsWereTraded' /\ PositionsAreBacked'
  BY <1>3, <1>6 DEF IInv, PositionsWereTraded, PositionsAreBacked
<1>12. ListedPositionsWereFilled'
  <2> SUFFICES ASSUME NEW c \in Coins, Listed(c)'
               PROVE  \E q \in Requests :
                        /\ pc'[q] = "submitted" /\ order[q].action = "open" /\ order[q].coin = c
                        /\ snapshot[q] # NoRow
                        /\ snapshot[q].size = row'[<<"hyperliquid", c>>].size
                        /\ Backed(q, snapshot[q].size)
    BY <1>3, <1>6 DEF ListedPositionsWereFilled
  <2>1. CASE c = order[r].coin
    BY <1>1, <1>2, <1>3, <1>4, <2>1 DEF IInv, TypeOK, Opens
  <2>2. CASE c # order[r].coin
    <3>1. Listed(c)
      BY <1>8, <2>2 DEF Listed
    <3>2. PICK q \in Requests :
            /\ pc[q] = "submitted" /\ order[q].action = "open" /\ order[q].coin = c
            /\ snapshot[q] # NoRow /\ snapshot[q].size = row[<<"hyperliquid", c>>].size
            /\ Backed(q, snapshot[q].size)
      BY <3>1 DEF IInv, ListedPositionsWereFilled
    <3> QED BY <1>3, <1>8, <2>2, <3>2 DEF IInv, TypeOK
  <2> QED BY <2>1, <2>2
<1> QED BY <1>6, <1>7, <1>10, <1>11, <1>12 DEF IInv

LEMMA RecordCloseKeeps ==
  ASSUME IInv, NEW r \in Requests, RecordClose(r)
  PROVE  IInv'
<1> DEFINE k == <<"", order[r].coin>>
<1>1. ~Opens(r) /\ order[r] \in Order /\ k \in Keys
  BY DEF RecordClose, IInv, Control, Opens, Order, Keys
<1>2. /\ pc' = [pc EXCEPT ![r] = "submitted"] /\ pc[r] = "record"
      /\ UNCHANGED <<order, snapshot, position, filled, stops>>
  BY DEF RecordClose, venueVars
<1>3. /\ row' \in [Keys -> Row \cup {NoRow}]
      /\ \A j \in Keys : j # k => row'[j] = row[j]
  <2>1. row' = [row EXCEPT ![k] = IF row[k] = NoRow THEN ClosedPosition
                                  ELSE [row[k] EXCEPT !.status = ClosedPosition.status,
                                                      !.size = ClosedPosition.size]]
    BY DEF RecordClose, Upsert
  <2>2. CASE row[k] = NoRow
    <3>1. ClosedPosition \in Row
      BY DEF ClosedPosition, Row
    <3> QED BY <2>1, <2>2, <3>1 DEF IInv, TypeOK
  <2>3. CASE row[k] # NoRow
    <3>1. row[k] \in Row
      BY <1>1, <2>3 DEF IInv, TypeOK
    <3> DEFINE p == [row[k] EXCEPT !.status = ClosedPosition.status, !.size = ClosedPosition.size]
    <3>2. p \in Row
      BY <3>1 DEF Row, ClosedPosition
    <3>3. row' = [row EXCEPT ![k] = p]
      BY <2>1, <2>3
    <3> HIDE DEF p
    <3> QED BY <3>2, <3>3 DEF IInv, TypeOK
  <2> QED BY <2>2, <2>3
<1>4. \A c \in Coins : row'[<<"hyperliquid", c>>] = row[<<"hyperliquid", c>>]
  BY <1>3 DEF Keys
<1>5. /\ TypeOK'
      /\ \A c : Traded(c)' = Traded(c)
      /\ \A q : Backed(q, snapshot[q].size)' <=> Backed(q, snapshot[q].size)
  BY <1>2, <1>3, SameFills DEF IInv, TypeOK, InFlight, Backed
<1>6. \A q \in Requests : pc'[q] = pc[q] \/ (q = r /\ pc'[q] = "submitted")
  BY <1>2 DEF IInv, TypeOK
<1>7. ASSUME NEW q \in Requests
      PROVE  (Control(q) /\ Recorded(q))'
  <2>1. Opens(q) => order[q].coin \in Coins
    BY DEF Opens, Order
  <2>2. Control(q) /\ Recorded(q)
    BY DEF IInv
  <2>3. Control(q)'
    BY <1>1, <1>2, <1>6, <2>2 DEF Control, Opens
  <2>4. Recorded(q)'
    BY <1>1, <1>2, <1>4, <1>5, <1>6, <2>1, <2>2 DEF Recorded, Placed, Opens
  <2> QED BY <2>3, <2>4
<1>8. RowsStayOpen' /\ PositionsWereTraded' /\ PositionsAreBacked'
  BY <1>2, <1>4, <1>5
     DEF IInv, RowsStayOpen, Listed, PositionsWereTraded, PositionsAreBacked
<1>9. ListedPositionsWereFilled'
  <2> SUFFICES ASSUME NEW c \in Coins, Listed(c)
               PROVE  \E q \in Requests :
                        /\ pc'[q] = "submitted" /\ order[q].action = "open" /\ order[q].coin = c
                        /\ snapshot[q] # NoRow
                        /\ snapshot[q].size = row[<<"hyperliquid", c>>].size
                        /\ Backed(q, snapshot[q].size)
    BY <1>2, <1>4, <1>5 DEF ListedPositionsWereFilled, Listed
  <2> QED BY <1>6 DEF IInv, ListedPositionsWereFilled
<1> QED BY <1>5, <1>7, <1>8, <1>9 DEF IInv

\* Every step keeps the invariant.
LEMMA StepInv == IInv /\ [Next]_vars => IInv'
<1> SUFFICES ASSUME IInv, [Next]_vars PROVE IInv'
  OBVIOUS
<1>1. CASE \E r \in Requests, o \in Order : PostHedge(r, o)
  BY <1>1, PostKeeps
<1>2. CASE \E r \in Requests : Handler(r) \/ Raises(r) \/ StopFires(r)
  <2>1. PICK r \in Requests : Handler(r) \/ Raises(r) \/ StopFires(r)
    BY <1>2
  <2> QED BY <2>1, HandlerKeeps, MarketOpenKeeps, MarketCloseKeeps, RecordOpenKeeps,
             RecordCloseKeeps, StopKeeps DEF Handler
<1>3. CASE UNCHANGED vars
  <2>1. /\ \A c : Traded(c)' = Traded(c)
        /\ \A q : Backed(q, snapshot[q].size)' <=> Backed(q, snapshot[q].size)
    BY <1>3, SameFills DEF vars, Backed
  <2>2. TypeOK' /\ RowsStayOpen' /\ PositionsWereTraded' /\ PositionsAreBacked'
    BY <1>3, <2>1 DEF vars, IInv, TypeOK, RowsStayOpen, Listed, PositionsWereTraded,
                      PositionsAreBacked
  <2>3. \A q \in Requests : Control(q)' /\ Recorded(q)'
    BY <1>3, <2>1 DEF vars, IInv, Control, Recorded, Placed, Opens
  <2>4. ListedPositionsWereFilled'
    BY <1>3, <2>1, ListedStays DEF vars, IInv
  <2> QED BY <2>2, <2>3, <2>4 DEF IInv
<1> QED BY <1>1, <1>2, <1>3 DEF Next

-----------------------------------------------------------------------------
\* The invariant that ties a handler's place to its order, what it will record
\* to what the venue filled or left unfilled without an error, and the position
\* held to the fills, holds of _execute_hedge for any number of decisions.
THEOREM InvariantHolds == Spec => []IInv
BY InitInv, StepInv, PTL DEF Spec

\* Every variable of the hedge book keeps its type: fills are never larger
\* than orders may be.
THEOREM TypeCorrect == Spec => []TypeOK
<1>1. IInv => TypeOK
  BY DEF IInv
<1> QED BY <1>1, InvariantHolds, PTL

\* A row that list_open shows carries a size that an answered open of the coin
\* was told, and no more than the venue filled of the coin unless that open was
\* answered without a fill, whatever handlers raised and however they
\* interleaved: what _check_filled, get_position and record_hedge do together.
THEOREM RowsWereFilled == Spec => []ListedPositionsWereFilled
<1>1. IInv => ListedPositionsWereFilled
  BY DEF IInv
<1> QED BY <1>1, InvariantHolds, PTL

\* When every handler of a coin has answered and the venue still holds a
\* position, list_open shows it.
THEOREM OpenOnesAreListed == Spec => []OpenPositionsAreListed
<1>1. IInv => OpenPositionsAreListed
  <2> SUFFICES ASSUME IInv, NEW c \in Coins, position[c] # 0,
                      \A r \in Requests :
                        order[r] # NoOrder /\ order[r].coin = c => pc[r] = "submitted"
               PROVE  Listed(c)
    BY DEF OpenPositionsAreListed
  <2>1. PICK r \in Requests : filled[r] > 0 /\ order[r].coin = c
    BY DEF IInv, PositionsWereTraded
  <2>2. Opens(r) /\ pc[r] = "submitted"
    BY <2>1, NoOrderAssumption DEF IInv, Control, Opens
  <2>3. row[<<"hyperliquid", c>>] # NoRow
    BY <2>1, <2>2 DEF IInv, Recorded
  <2> QED BY <2>3 DEF IInv, RowsStayOpen
<1> QED BY <1>1, InvariantHolds, PTL
=============================================================================
