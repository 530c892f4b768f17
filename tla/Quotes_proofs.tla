---------------------------- MODULE Quotes_proofs ----------------------------
(***************************************************************************)
(* What NOMOS' quotes keep to, for every set of books, microprices and     *)
(* ages: the policy's spread and price bounds, which quotes the gate       *)
(* refuses, when an order is matched on arrival, and what a half-placed    *)
(* quote answers.                                                          *)
(***************************************************************************)
EXTENDS Quotes, FiniteSetTheorems, TLAPS

-----------------------------------------------------------------------------
(* The best price of a side.                                                *)

LEMMA DollarIsNat == Dollar \in Nat
BY DEF Dollar

\* A non-empty set of prices has a least element: the intervals that end in
\* its elements are subsets of a finite set, and inclusion is well-founded.
LEMMA PricesHaveLeast ==
  ASSUME NEW T \in SUBSET (0 .. Dollar), T # {}
  PROVE  \E x \in T : \A y \in T : x <= y
<1> DEFINE All == 0 .. Dollar
           R == StrictSubsetOrdering(All)
           Below == {0 .. x : x \in T}
<1>1. IsWellFoundedOn(R, SUBSET All)
  <2>1. IsFiniteSet(All)
    <3>1. 0 \in Int /\ Dollar \in Int
      BY DollarIsNat
    <3>2. QED BY <3>1, FS_Interval
  <2> HIDE DEF All
  <2>2. FiniteSubsetsOf(All) = SUBSET All
    BY <2>1, FS_FiniteSubsetsOfFinite
  <2>3. IsWellFoundedOn(StrictSubsetOrdering(All), FiniteSubsetsOf(All))
    BY FS_StrictSubsetOrderingWellFounded
  <2>4. QED BY <2>2, <2>3
<1>2. Below \subseteq SUBSET All /\ Below # {}
  <2>1. ASSUME NEW x \in T PROVE 0 .. x \subseteq 0 .. Dollar
    BY DollarIsNat
  <2>2. Below # {}
    <3>1. PICK x \in T : TRUE
      OBVIOUS
    <3>2. 0 .. x \in Below
      OBVIOUS
    <3>3. QED BY <3>2
  <2>3. QED BY <2>1, <2>2
<1>3. PICK b \in Below : \A c \in Below : <<c, b>> \notin R
  <2> HIDE DEF R, Below
  <2>1. QED BY <1>1, <1>2, WFMin
<1>4. PICK x \in T : b = 0 .. x
  OBVIOUS
<1>5. SUFFICES ASSUME NEW y \in T, y < x PROVE FALSE
  BY DollarIsNat
<1>6. 0 .. y \in Below /\ 0 .. y \in SUBSET All /\ b \in SUBSET All
  BY <1>2
<1>7. 0 .. y \subseteq b /\ 0 .. y # b
  <2> x \in Nat /\ y \in Nat
    BY DollarIsNat
  <2>1. x \in b /\ x \notin 0 .. y
    BY <1>4, <1>5
  <2>2. 0 .. y \subseteq b
    BY <1>4, <1>5
  <2>3. QED BY <2>1, <2>2
<1>8. <<0 .. y, b>> \in R
  BY <1>6, <1>7, Zenon DEF StrictSubsetOrdering
<1>9. QED BY <1>3, <1>6, <1>8

LEMMA HighestIsGreatest ==
  ASSUME NEW S \in SUBSET (0 .. Dollar), S # {}
  PROVE  Highest(S) \in S /\ \A y \in S : y <= Highest(S)
<1> DEFINE T == {Dollar - y : y \in S}
<1>1. T \in SUBSET (0 .. Dollar) /\ T # {}
  <2>1. ASSUME NEW y \in S PROVE Dollar - y \in 0 .. Dollar
    BY DollarIsNat
  <2>2. PICK y \in S : TRUE
    OBVIOUS
  <2>3. Dollar - y \in T
    OBVIOUS
  <2>4. QED BY <2>1, <2>3
<1>2. PICK x \in T : \A y \in T : x <= y
  BY <1>1, PricesHaveLeast
<1>3. PICK z \in S : x = Dollar - z
  BY <1>2
<1>4. \A y \in S : y <= z
  <2> SUFFICES ASSUME NEW y \in S PROVE y <= z
    OBVIOUS
  <2>1. x <= Dollar - y
    BY <1>2
  <2>2. QED BY <2>1, <1>3, DollarIsNat
<1>5. QED BY <1>4, Zenon DEF Highest

LEMMA LowestIsLeast ==
  ASSUME NEW S \in SUBSET (0 .. Dollar), S # {}
  PROVE  Lowest(S) \in S /\ \A y \in S : Lowest(S) <= y
<1>1. \E x \in S : \A y \in S : x <= y
  BY PricesHaveLeast
<1>2. QED BY <1>1, Zenon DEF Lowest

-----------------------------------------------------------------------------
(* What compute_quote returns.                                              *)

PriceRange == 0 .. Dollar

LEMMA PriceIsInt ==
  ASSUME NEW x \in PriceRange
  PROVE  x \in Int /\ 0 <= x /\ x <= Dollar
BY DollarIsNat DEF PriceRange

\* The markets whose quotes the gate may refuse.
Extreme(b) == b.ask - b.bid <= 104 \/ b.ask - b.bid >= 3998 \/ NearBounds(b)

\* A quote that was computed on the book seen.
Computed(bid, ask, seen) ==
  /\ MinQuote <= bid /\ bid < Dollar /\ bid % 2 = 0
  /\ 0 < ask /\ ask <= MaxQuote /\ ask % 2 = 0
  /\ bid < seen.ask \/ seen.ask <= MinQuote
  /\ seen.bid < ask \/ seen.bid >= MaxQuote
  /\ Extreme(seen) \/ (MIN_BID_ASK_SPREAD < ask - bid /\ ask - bid < MAX_BID_ASK_SPREAD)

LEMMA RoundedIsNear ==
  ASSUME NEW x \in Int, NEW y \in Rounded(x)
  PROVE  /\ y \in Int /\ x - 1 <= y /\ y <= x + 1 /\ y % 2 = 0
         /\ x % 2 = 0 => y = x
BY DEF Rounded

LEMMA WideQuote ==
  ASSUME NEW seen \in [bid : PriceRange, ask : PriceRange], NEW mid \in PriceRange,
         seen.bid <= mid, mid <= seen.ask, seen.bid % 2 = 0, seen.ask % 2 = 0,
         NEW bps \in SpreadBps(seen.bid, seen.ask),
         NEW t \in [bid : Int, ask : Int],
         t = [bid |-> Clamp(mid - HalfSpread(bps)), ask |-> Clamp(mid + HalfSpread(bps))],
         t.ask - t.bid >= MIN_BID_ASK_SPREAD,
         NEW bid \in Rounded(t.bid), NEW ask \in Rounded(t.ask)
  PROVE  Computed(bid, ask, seen)
<1> DEFINE half == HalfSpread(bps)
<1> USE DEF Dollar, MinQuote, MaxQuote, MIN_BID_ASK_SPREAD, MAX_BID_ASK_SPREAD
<1>1. seen.bid \in Int /\ seen.ask \in Int
  <2>1. seen.bid \in PriceRange /\ seen.ask \in PriceRange
    OBVIOUS
  <2>2. QED BY <2>1, PriceIsInt
<1>2. bps \in Int /\ half \in Int /\ half >= 50
  BY <1>1 DEF SpreadBps, HalfSpread
<1>3. /\ bid \in Int /\ t.bid - 1 <= bid /\ bid <= t.bid + 1 /\ bid % 2 = 0
      /\ ask \in Int /\ t.ask - 1 <= ask /\ ask <= t.ask + 1 /\ ask % 2 = 0
      /\ t.bid % 2 = 0 => bid = t.bid
      /\ t.ask % 2 = 0 => ask = t.ask
  BY RoundedIsNear
<1>4. t.bid = Clamp(mid - half) /\ t.ask = Clamp(mid + half)
  OBVIOUS
<1> HIDE DEF half
<1> mid \in Int /\ 0 <= mid /\ mid <= Dollar
  BY PriceIsInt
<1>5. /\ MinQuote <= bid /\ bid < Dollar /\ bid % 2 = 0
      /\ 0 < ask /\ ask <= MaxQuote /\ ask % 2 = 0
  BY <1>2, <1>3, <1>4 DEF Clamp
<1>6. bid < seen.ask \/ seen.ask <= MinQuote
  BY <1>1, <1>2, <1>3, <1>4 DEF Clamp
<1>7. seen.bid < ask \/ seen.bid >= MaxQuote
  BY <1>1, <1>2, <1>3, <1>4 DEF Clamp
<1>8. ASSUME ~Extreme(seen)
      PROVE  MIN_BID_ASK_SPREAD < ask - bid /\ ask - bid < MAX_BID_ASK_SPREAD
  <2>1. /\ 104 < seen.ask - seen.bid /\ seen.ask - seen.bid < 3998
        /\ ~NearBounds(seen)
    BY <1>8, <1>1 DEF Extreme
  <2>2. (seen.ask - seen.bid) % 2 = 0 /\ seen.ask - seen.bid >= 106 /\ seen.ask - seen.bid <= 3996
    BY <1>1, <2>1
  <2>3. PICK w \in Int : seen.ask - seen.bid = 2 * w /\ 53 <= w /\ w <= 1998
                         /\ (seen.ask - seen.bid) \div 2 = w
    BY <1>1, <2>2
  <2>4. bps \in {w, w - 1} /\ half = bps
    BY <2>3, <1>2 DEF SpreadBps, HalfSpread, half
  <2>5. seen.bid - w >= MinQuote /\ seen.ask + w <= MaxQuote
    BY <2>1, <2>3, <1>1 DEF NearBounds, HalfSpread
  <2>6. t.bid = mid - half /\ t.ask = mid + half
    BY <2>4, <2>5, <1>1, <1>2, <1>4 DEF Clamp
  <2>7. QED BY <2>3, <2>4, <2>6, <1>2, <1>3
<1>9. QED BY <1>5, <1>6, <1>7, <1>8 DEF Computed

LEMMA NarrowQuote ==
  ASSUME NEW seen \in [bid : PriceRange, ask : PriceRange], NEW mid \in PriceRange,
         seen.bid <= mid, mid <= seen.ask, seen.bid % 2 = 0, seen.ask % 2 = 0,
         NEW bps \in SpreadBps(seen.bid, seen.ask),
         Clamp(mid + HalfSpread(bps)) - Clamp(mid - HalfSpread(bps)) <= MIN_BID_ASK_SPREAD,
         NEW t \in [bid : Int, ask : Int],
         t = [bid |-> IF mid - 50 < MinQuote THEN MinQuote ELSE mid - 50,
              ask |-> IF mid + 50 > MaxQuote THEN MaxQuote ELSE mid + 50],
         NEW bid \in Rounded(t.bid), NEW ask \in Rounded(t.ask)
  PROVE  Computed(bid, ask, seen)
<1> DEFINE half == HalfSpread(bps)
<1> USE DEF Dollar, MinQuote, MaxQuote, MIN_BID_ASK_SPREAD, MAX_BID_ASK_SPREAD
<1>1. seen.bid \in Int /\ seen.ask \in Int
  <2>1. seen.bid \in PriceRange /\ seen.ask \in PriceRange
    OBVIOUS
  <2>2. QED BY <2>1, PriceIsInt
<1>2. bps \in Int /\ half \in Int /\ half >= 50
  BY <1>1 DEF SpreadBps, HalfSpread
<1>3. /\ bid \in Int /\ t.bid - 1 <= bid /\ bid <= t.bid + 1 /\ bid % 2 = 0
      /\ ask \in Int /\ t.ask - 1 <= ask /\ ask <= t.ask + 1 /\ ask % 2 = 0
      /\ t.bid % 2 = 0 => bid = t.bid
      /\ t.ask % 2 = 0 => ask = t.ask
  BY RoundedIsNear
<1>4. /\ t.bid = IF mid - 50 < MinQuote THEN MinQuote ELSE mid - 50
      /\ t.ask = IF mid + 50 > MaxQuote THEN MaxQuote ELSE mid + 50
  OBVIOUS
<1> mid \in Int /\ 0 <= mid /\ mid <= Dollar
  BY PriceIsInt
<1>5. /\ MinQuote <= bid /\ bid < Dollar /\ bid % 2 = 0
      /\ 0 < ask /\ ask <= MaxQuote /\ ask % 2 = 0
  BY <1>3, <1>4
<1>6. bid < seen.ask \/ seen.ask <= MinQuote
  BY <1>1, <1>3, <1>4
<1>7. seen.bid < ask \/ seen.bid >= MaxQuote
  BY <1>1, <1>3, <1>4
<1>8. Extreme(seen)
  <2> SUFFICES ASSUME ~Extreme(seen) PROVE FALSE
    OBVIOUS
  <2>1. /\ 104 < seen.ask - seen.bid /\ seen.ask - seen.bid < 3998
        /\ ~NearBounds(seen)
    BY <1>1 DEF Extreme
  <2>2. (seen.ask - seen.bid) % 2 = 0 /\ seen.ask - seen.bid >= 106 /\ seen.ask - seen.bid <= 3996
    BY <1>1, <2>1
  <2>3. PICK w \in Int : seen.ask - seen.bid = 2 * w /\ 53 <= w /\ w <= 1998
                         /\ (seen.ask - seen.bid) \div 2 = w
    BY <1>1, <2>2
  <2>4. bps \in {w, w - 1} /\ half = bps
    BY <2>3, <1>2 DEF SpreadBps, HalfSpread, half
  <2>5. seen.bid - w >= MinQuote /\ seen.ask + w <= MaxQuote
    BY <2>1, <2>3, <1>1 DEF NearBounds, HalfSpread
  <2>6. Clamp(mid - half) = mid - half /\ Clamp(mid + half) = mid + half
    BY <2>4, <2>5, <1>1, <1>2 DEF Clamp
  <2>7. QED BY <2>3, <2>4, <2>6, <1>2
<1>9. QED BY <1>5, <1>6, <1>7, <1>8 DEF Computed

LEMMA QuoteIsComputed ==
  ASSUME NEW seen \in [bid : PriceRange, ask : PriceRange], NEW mid \in PriceRange,
         seen.bid <= mid, mid <= seen.ask, seen.bid % 2 = 0, seen.ask % 2 = 0,
         NEW bps \in SpreadBps(seen.bid, seen.ask),
         NEW t \in Targets(mid, HalfSpread(bps)),
         NEW bid \in Rounded(t.bid), NEW ask \in Rounded(t.ask)
  PROVE  Computed(bid, ask, seen)
<1> DEFINE half == HalfSpread(bps)
           wide   == [bid |-> Clamp(mid - half), ask |-> Clamp(mid + half)]
           narrow == [bid |-> IF mid - 50 < MinQuote THEN MinQuote ELSE mid - 50,
                      ask |-> IF mid + 50 > MaxQuote THEN MaxQuote ELSE mid + 50]
<1>1. seen.bid \in Int /\ seen.ask \in Int /\ mid \in Int
  <2>1. seen.bid \in PriceRange /\ seen.ask \in PriceRange
    OBVIOUS
  <2>2. QED BY <2>1, PriceIsInt
<1>2. half \in Int
  BY <1>1 DEF SpreadBps, HalfSpread
<1>3. wide \in [bid : Int, ask : Int] /\ narrow \in [bid : Int, ask : Int]
  BY <1>1, <1>2 DEF Clamp, MinQuote, MaxQuote
<1>4. \/ t = wide /\ wide.ask - wide.bid >= MIN_BID_ASK_SPREAD
      \/ t = narrow /\ wide.ask - wide.bid <= MIN_BID_ASK_SPREAD
  BY DEF Targets
<1>5. CASE t = wide /\ wide.ask - wide.bid >= MIN_BID_ASK_SPREAD
  BY <1>3, <1>5, WideQuote
<1>6. CASE t = narrow /\ wide.ask - wide.bid <= MIN_BID_ASK_SPREAD
  BY <1>3, <1>6, NarrowQuote
<1>7. QED BY <1>4, <1>5, <1>6

-----------------------------------------------------------------------------
(* The gate.                                                                *)

\* A quote that passed the gate.
Passed(k) ==
  /\ MinQuote <= k.bid /\ k.bid < k.ask /\ k.ask <= MaxQuote
  /\ MIN_BID_ASK_SPREAD <= k.ask - k.bid /\ k.ask - k.bid <= MAX_BID_ASK_SPREAD

LEMMA SizeIsUsual == Size \in {50, 100, 200}
BY BookAssumption DEF BookAssumption

LEMMA GateDecides ==
  ASSUME NEW bid \in PriceRange, NEW ask \in PriceRange, NEW seen, Computed(bid, ask, seen),
         NEW age \in Age, NEW v \in PricingVerdicts(bid, ask, Size, age)
  PROVE  /\ v \in BOOLEAN
         /\ v => bid < ask /\ MIN_BID_ASK_SPREAD <= ask - bid /\ ask - bid <= MAX_BID_ASK_SPREAD
         /\ ~v /\ Fresh(age) => Extreme(seen)
<1> USE DEF Dollar, MinQuote, MaxQuote, MIN_BID_ASK_SPREAD, MAX_BID_ASK_SPREAD
<1>1. bid \in Int /\ ask \in Int
  BY PriceIsInt
<1>2. PICK u \in SpreadVerdicts(bid, ask) :
        v = (/\ u /\ Fresh(age)
             /\ 0 < Size /\ Size <= MAX_QUOTE_SIZE_USDC
             /\ bid < ask
             /\ 0 < bid /\ bid < Dollar /\ 0 < ask /\ ask < Dollar)
  <2> HIDE DEF Dollar
  <2> QED BY Zenon DEF PricingVerdicts
<1> DEFINE Limits == {MIN_BID_ASK_SPREAD, MAX_BID_ASK_SPREAD}
           Within == MIN_BID_ASK_SPREAD <= ask - bid /\ ask - bid <= MAX_BID_ASK_SPREAD
<1>v. u \in IF ask - bid \in Limits THEN BOOLEAN ELSE {Within}
  BY DEF SpreadVerdicts
<1>w. ask - bid \in Limits => Within
  BY <1>1
<1> HIDE DEF Limits, Within
<1>3. u \in BOOLEAN
  <2>1. Within \in BOOLEAN
    BY <1>1 DEF Within
  <2>2. QED BY <1>v, <2>1, Zenon
<1>4. u => Within
  BY <1>v, <1>w, Zenon
<1>5. ASSUME ~Extreme(seen), Fresh(age) PROVE v
  <2>1. MIN_BID_ASK_SPREAD < ask - bid /\ ask - bid < MAX_BID_ASK_SPREAD
    BY <1>5 DEF Computed
  <2>2. u
    <3>1. ask - bid \notin Limits /\ Within
      BY <1>1, <2>1 DEF Limits, Within
    <3>2. QED BY <1>v, <3>1, Zenon
  <2>3. 0 < Size /\ Size <= MAX_QUOTE_SIZE_USDC
    BY SizeIsUsual DEF MAX_QUOTE_SIZE_USDC
  <2>4. bid < ask /\ 0 < bid /\ bid < Dollar /\ 0 < ask /\ ask < Dollar
    BY <1>1, <2>1 DEF Computed
  <2>5. QED BY <1>2, <1>5, <2>2, <2>3, <2>4
<1>6. QED
  <2>1. v \in BOOLEAN /\ (v => u /\ bid < ask)
    BY <1>2
  <2>2. QED BY <1>4, <1>5, <2>1 DEF Within

-----------------------------------------------------------------------------
(* The inductive invariant: what is known of a quote at each step of its    *)
(* way, and of the orders that were placed for it.                          *)

Accepted == {"tracing", "bid", "ask", "submitted", "error"}

QuotesAreComputed ==
  \A q \in Quote :
    /\ quote[q].pc # "unused" => Computed(quote[q].bid, quote[q].ask, quote[q].seen)
    /\ quote[q].pc \in Accepted => Passed(quote[q])
    /\ quote[q].pc = "rejected" => Extreme(quote[q].seen)

OrdersAreOfQuotes ==
  \A o \in placed :
    /\ quote[o.quote].pc \in {"ask", "submitted", "error"}
    /\ o.price = IF o.side = "BUY" THEN quote[o.quote].bid ELSE quote[o.quote].ask

IdsAreOfOrders ==
  \A q \in Quote :
    /\ quote[q].bidId => "BUY" \in Sides(q)
    /\ quote[q].askId => "SELL" \in Sides(q)

IInv == TypeOK /\ QuotesAreComputed /\ OrdersAreOfQuotes /\ IdsAreOfOrders

\* The prices anybody reads in the book are prices, and even: NOMOS' own are
\* rounded, and so are those of the others.
LEMMA BestPrices ==
  ASSUME IInv
  PROVE  /\ BestBid \in PriceRange /\ BestBid % 2 = 0
         /\ BestAsk \in PriceRange /\ BestAsk % 2 = 0
<1>1. others \in [bid : PriceRange, ask : PriceRange] /\ others.bid % 2 = 0 /\ others.ask % 2 = 0
  BY BookAssumption DEF BookAssumption, IInv, TypeOK, PriceRange
<1>2. ASSUME NEW side PROVE \A x \in Prices(side) : x \in PriceRange /\ x % 2 = 0
  <2> SUFFICES ASSUME NEW o \in resting PROVE o.price \in PriceRange /\ o.price % 2 = 0
    BY DEF Prices
  <2>1. o \in placed /\ o \in Order
    BY DEF IInv, TypeOK
  <2>2. o.price \in PriceRange /\ o.quote \in Quote
    BY <2>1 DEF Order, PriceRange
  <2>3. quote[o.quote].pc # "unused"
    BY <2>1 DEF IInv, OrdersAreOfQuotes
  <2>4. Computed(quote[o.quote].bid, quote[o.quote].ask, quote[o.quote].seen)
    BY <2>2, <2>3 DEF IInv, QuotesAreComputed
  <2>5. quote[o.quote].bid % 2 = 0 /\ quote[o.quote].ask % 2 = 0
    BY <2>4 DEF Computed
  <2>6. o.price = quote[o.quote].bid \/ o.price = quote[o.quote].ask
    BY <2>1 DEF IInv, OrdersAreOfQuotes
  <2>7. QED BY <2>2, <2>5, <2>6
<1>3. BestBid \in Prices("BUY") \cup {others.bid}
  BY <1>1, <1>2, HighestIsGreatest DEF BestBid, PriceRange
<1>4. BestAsk \in Prices("SELL") \cup {others.ask}
  BY <1>1, <1>2, LowestIsLeast DEF BestAsk, PriceRange
<1>5. QED BY <1>1, <1>2, <1>3, <1>4

LEMMA InitEstablishesIInv == Init => IInv
<1> SUFFICES ASSUME Init PROVE IInv
  OBVIOUS
<1>1. TypeOK
  BY BookAssumption, DollarIsNat DEF BookAssumption, Init, TypeOK, QuoteState, Unused, NoBid, NoAsk
<1>2. QuotesAreComputed
  BY DEF Init, QuotesAreComputed, Unused, Accepted
<1>3. OrdersAreOfQuotes /\ IdsAreOfOrders
  BY DEF Init, OrdersAreOfQuotes, IdsAreOfOrders, Unused
<1>4. QED BY <1>1, <1>2, <1>3 DEF IInv

HasOrder == {"ask", "submitted", "error"}

\* A quote advances without changing its prices, and orders of it may be
\* placed meanwhile.
LEMMA QuoteAdvances ==
  ASSUME IInv, NEW q \in Quote, NEW k \in QuoteState,
         quote' = [quote EXCEPT ![q] = k],
         quote[q].pc # "unused",
         k.bid = quote[q].bid, k.ask = quote[q].ask, k.seen = quote[q].seen,
         k.pc \in Accepted => Passed(quote[q]),
         k.pc = "rejected" => Extreme(quote[q].seen),
         others' \in Book, moves' \in 0 .. MaxMoves,
         placed \subseteq placed', placed' \subseteq Order, resting' \subseteq placed',
         \A o \in placed' \ placed :
           o.quote = q /\ o.price = IF o.side = "BUY" THEN k.bid ELSE k.ask,
         (\E o \in placed' : o.quote = q) => k.pc \in HasOrder,
         k.bidId => quote[q].bidId \/ \E o \in placed' : o.quote = q /\ o.side = "BUY",
         k.askId => quote[q].askId \/ \E o \in placed' : o.quote = q /\ o.side = "SELL"
  PROVE  IInv'
<1>1. /\ quote'[q] = k
      /\ \A r \in Quote \ {q} : quote'[r] = quote[r]
      /\ quote' \in [Quote -> QuoteState]
  BY DEF IInv, TypeOK
<1>2. TypeOK'
  BY <1>1 DEF TypeOK
<1>3. QuotesAreComputed'
  <2>1. Passed(k) = Passed(quote[q])
    BY DEF Passed
  <2>2. QED BY <1>1, <2>1 DEF IInv, QuotesAreComputed
<1>4. OrdersAreOfQuotes'
  <2> SUFFICES ASSUME NEW o \in placed'
               PROVE  /\ quote'[o.quote].pc \in {"ask", "submitted", "error"}
                      /\ o.price = IF o.side = "BUY" THEN quote'[o.quote].bid ELSE quote'[o.quote].ask
    BY DEF OrdersAreOfQuotes
  <2>1. o.quote \in Quote
    BY DEF Order
  <2>2. CASE o.quote = q
    BY <1>1, <2>2 DEF IInv, OrdersAreOfQuotes, HasOrder
  <2>3. CASE o.quote # q
    BY <1>1, <2>1, <2>3 DEF IInv, OrdersAreOfQuotes
  <2>4. QED BY <2>2, <2>3
<1>5. IdsAreOfOrders'
  <2>1. ASSUME NEW r \in Quote, NEW side, side \in Sides(r)
        PROVE  \E o \in placed' : o.quote = r /\ o.side = side
    BY <2>1 DEF Sides
  <2>2. ASSUME NEW r \in Quote, NEW side, \E o \in placed' : o.quote = r /\ o.side = side
        PROVE  side \in Sides(r)'
    BY <2>2 DEF Sides
  <2>3. ASSUME NEW r \in Quote
        PROVE  /\ quote'[r].bidId => "BUY" \in Sides(r)'
               /\ quote'[r].askId => "SELL" \in Sides(r)'
    <3>1. CASE r = q
      BY <1>1, <2>1, <2>2, <3>1 DEF IInv, IdsAreOfOrders
    <3>2. CASE r # q
      BY <1>1, <2>1, <2>2, <3>2 DEF IInv, IdsAreOfOrders
    <3>3. QED BY <3>1, <3>2
  <2>4. QED BY <2>3 DEF IdsAreOfOrders
<1>6. QED BY <1>2, <1>3, <1>4, <1>5 DEF IInv

LEMMA QuoteIsState ==
  ASSUME IInv, NEW q \in Quote
  PROVE  /\ quote[q] \in QuoteState
         /\ quote[q].bid \in PriceRange /\ quote[q].ask \in PriceRange
         /\ quote[q].seen \in [bid : PriceRange, ask : PriceRange]
BY DEF IInv, TypeOK, QuoteState, PriceRange

LEMMA ComputePreserves ==
  ASSUME IInv, NEW q \in Quote, ComputeQuote(q)
  PROVE  IInv'
<1> DEFINE seen == [bid |-> BestBid, ask |-> BestAsk]
<1>1. PICK mid \in Mid, bps \in SpreadBps(BestBid, BestAsk) :
        /\ BestBid <= mid /\ mid <= BestAsk
        /\ \E t \in Targets(mid, HalfSpread(bps)) :
             \E bid \in Rounded(t.bid), ask \in Rounded(t.ask) :
               quote' = [quote EXCEPT ![q] =
                 [Unused EXCEPT !.pc = "posted", !.bid = bid, !.ask = ask, !.seen = seen]]
  BY Zenon DEF ComputeQuote
<1>2. PICK t \in Targets(mid, HalfSpread(bps)) :
        \E bid \in Rounded(t.bid), ask \in Rounded(t.ask) :
          quote' = [quote EXCEPT ![q] =
            [Unused EXCEPT !.pc = "posted", !.bid = bid, !.ask = ask, !.seen = seen]]
  BY <1>1, Zenon
<1>3. PICK bid \in Rounded(t.bid), ask \in Rounded(t.ask) :
          quote' = [quote EXCEPT ![q] =
            [Unused EXCEPT !.pc = "posted", !.bid = bid, !.ask = ask, !.seen = seen]]
  BY <1>2, Zenon
<1>4. /\ seen \in [bid : PriceRange, ask : PriceRange]
      /\ seen.bid = BestBid /\ seen.ask = BestAsk
      /\ seen.bid % 2 = 0 /\ seen.ask % 2 = 0
  BY BestPrices
<1>5. mid \in PriceRange
  BY BookAssumption DEF BookAssumption, PriceRange
<1> HIDE DEF seen
<1>6. Computed(bid, ask, seen)
  BY <1>1, <1>4, <1>5, QuoteIsComputed
<1> DEFINE k == [Unused EXCEPT !.pc = "posted", !.bid = bid, !.ask = ask, !.seen = seen]
<1>7. bid \in PriceRange /\ ask \in PriceRange
  <2>1. bid \in Int /\ ask \in Int
    BY DEF Rounded
  <2>2. 0 <= bid /\ bid <= Dollar /\ 0 <= ask /\ ask <= Dollar
    BY <1>6, <2>1 DEF Computed, MinQuote, MaxQuote, Dollar
  <2>3. QED BY <2>1, <2>2, DollarIsNat DEF PriceRange
<1>8. quote' = [quote EXCEPT ![q] = k]
  BY <1>3
<1>9. k \in QuoteState
  BY <1>4, <1>7, DollarIsNat DEF QuoteState, PriceRange, Unused, NoBid, NoAsk
<1> HIDE DEF k
<1>10. /\ k.pc = "posted" /\ k.bid = bid /\ k.ask = ask /\ k.seen = seen
       /\ ~k.bidId /\ ~k.askId
  BY DEF k, Unused
<1>11. /\ quote'[q] = k
       /\ \A r \in Quote \ {q} : quote'[r] = quote[r]
       /\ quote' \in [Quote -> QuoteState]
  BY <1>8, <1>9 DEF IInv, TypeOK
<1>12. /\ quote[q].pc = "unused"
       /\ UNCHANGED <<others, resting, placed, moves>>
  BY DEF ComputeQuote
<1>13. TypeOK'
  BY <1>11, <1>12 DEF IInv, TypeOK
<1>14. QuotesAreComputed'
  BY <1>6, <1>10, <1>11 DEF IInv, QuotesAreComputed, Accepted
<1>15. \A o \in placed : o.quote \in Quote /\ o.quote # q
  BY <1>12 DEF IInv, TypeOK, Order, OrdersAreOfQuotes
<1>16. OrdersAreOfQuotes'
  BY <1>11, <1>12, <1>15 DEF IInv, OrdersAreOfQuotes
<1>17. IdsAreOfOrders'
  BY <1>10, <1>11, <1>12 DEF IInv, IdsAreOfOrders, Sides
<1>18. QED BY <1>13, <1>14, <1>16, <1>17 DEF IInv

\* A handler takes a step that places no order.
LEMMA HandlerAdvances ==
  ASSUME IInv, NEW q \in Quote, NEW pc,
         pc \in {"tracing", "rejected", "late", "bid", "error"},
         quote[q].pc \in {"posted", "tracing", "bid"},
         pc \in Accepted => Passed(quote[q]),
         pc = "rejected" => Extreme(quote[q].seen),
         quote' = [quote EXCEPT ![q].pc = pc],
         UNCHANGED <<others, resting, placed, moves>>
  PROVE  IInv'
<1> DEFINE k == [quote[q] EXCEPT !.pc = pc]
<1>1. quote[q] \in QuoteState
  BY QuoteIsState
<1>2. k \in QuoteState /\ k.pc = pc
  BY <1>1 DEF QuoteState
<1>3. /\ k.bid = quote[q].bid /\ k.ask = quote[q].ask /\ k.seen = quote[q].seen
      /\ k.bidId = quote[q].bidId /\ k.askId = quote[q].askId
  BY <1>1 DEF QuoteState
<1>4. quote' = [quote EXCEPT ![q] = k]
  OBVIOUS
<1>5. ~\E o \in placed' : o.quote = q
  BY DEF IInv, OrdersAreOfQuotes
<1>6. others' \in Book /\ moves' \in 0 .. MaxMoves /\ placed' = placed
      /\ placed' \subseteq Order /\ resting' \subseteq placed'
  BY DEF IInv, TypeOK
<1> HIDE DEF k
<1>7. /\ k.pc \in Accepted => Passed(quote[q])
      /\ k.pc = "rejected" => Extreme(quote[q].seen)
      /\ quote[q].pc # "unused"
  BY <1>2
<1>8. /\ \A o \in placed' \ placed :
           o.quote = q /\ o.price = IF o.side = "BUY" THEN k.bid ELSE k.ask
      /\ placed \subseteq placed'
      /\ (\E o \in placed' : o.quote = q) => k.pc \in HasOrder
  BY <1>5, <1>6
<1>9. /\ k.bidId => quote[q].bidId \/ \E o \in placed' : o.quote = q /\ o.side = "BUY"
      /\ k.askId => quote[q].askId \/ \E o \in placed' : o.quote = q /\ o.side = "SELL"
  BY <1>3, Zenon
<1>10. QED BY <1>2, <1>3, <1>4, <1>6, <1>7, <1>8, <1>9, QuoteAdvances, Zenon

LEMMA AcceptPlaces ==
  ASSUME NEW o \in Order, IInv, Accept(o)
  PROVE  placed' = placed \cup {o} /\ placed' \subseteq Order /\ resting' \subseteq placed'
BY DEF Accept, IInv, TypeOK

LEMMA PlaceBidPreserves ==
  ASSUME IInv, NEW q \in Quote, PlaceBid(q)
  PROVE  IInv'
<1> DEFINE o == [quote |-> q, side |-> "BUY", price |-> quote[q].bid]
<1>1. o \in Order /\ o.quote = q /\ o.side = "BUY" /\ o.price = quote[q].bid
  BY QuoteIsState DEF Order, PriceRange
<1>2. quote[q].pc = "bid" /\ others' \in Book /\ moves' \in 0 .. MaxMoves
  BY DEF PlaceBid, IInv, TypeOK
<1>3. Passed(quote[q])
  BY <1>2 DEF IInv, QuotesAreComputed, Accepted
<1>4. ~\E p \in placed : p.quote = q
  BY <1>2 DEF IInv, OrdersAreOfQuotes
<1>5. CASE Accept(o) /\ quote' = [quote EXCEPT ![q].pc = "ask", ![q].bidId = TRUE]
  <2> DEFINE k == [quote[q] EXCEPT !.pc = "ask", !.bidId = TRUE]
  <2>1. /\ k \in QuoteState /\ k.pc = "ask"
        /\ k.bid = quote[q].bid /\ k.ask = quote[q].ask /\ k.seen = quote[q].seen
        /\ k.askId = quote[q].askId
    BY QuoteIsState DEF QuoteState
  <2>2. quote' = [quote EXCEPT ![q] = k]
    BY <1>5
  <2>3. placed' = placed \cup {o} /\ placed' \subseteq Order /\ resting' \subseteq placed'
    BY <1>1, <1>5, AcceptPlaces
  <2> HIDE DEF k, o
  <2>4. /\ k.pc \in Accepted => Passed(quote[q])
        /\ k.pc = "rejected" => Extreme(quote[q].seen)
        /\ quote[q].pc # "unused" /\ k.pc \in HasOrder
    BY <1>2, <1>3, <2>1 DEF HasOrder
  <2>5. /\ \A p \in placed' \ placed :
             p.quote = q /\ p.price = IF p.side = "BUY" THEN k.bid ELSE k.ask
        /\ placed \subseteq placed'
        /\ \E p \in placed' : p.quote = q /\ p.side = "BUY"
    BY <1>1, <2>1, <2>3
  <2>6. QED BY <1>2, <2>1, <2>2, <2>3, <2>4, <2>5, QuoteAdvances
<1>6. CASE Accept(o) /\ quote' = [quote EXCEPT ![q].pc = "error"]
  <2> DEFINE k == [quote[q] EXCEPT !.pc = "error"]
  <2>1. /\ k \in QuoteState /\ k.pc = "error"
        /\ k.bid = quote[q].bid /\ k.ask = quote[q].ask /\ k.seen = quote[q].seen
        /\ k.bidId = quote[q].bidId /\ k.askId = quote[q].askId
    BY QuoteIsState DEF QuoteState
  <2>2. quote' = [quote EXCEPT ![q] = k]
    BY <1>6
  <2>3. placed' = placed \cup {o} /\ placed' \subseteq Order /\ resting' \subseteq placed'
    BY <1>1, <1>6, AcceptPlaces
  <2> HIDE DEF k, o
  <2>4. /\ k.pc \in Accepted => Passed(quote[q])
        /\ k.pc = "rejected" => Extreme(quote[q].seen)
        /\ quote[q].pc # "unused" /\ k.pc \in HasOrder
    BY <1>2, <1>3, <2>1 DEF HasOrder
  <2>5. /\ \A p \in placed' \ placed :
             p.quote = q /\ p.price = IF p.side = "BUY" THEN k.bid ELSE k.ask
        /\ placed \subseteq placed'
        /\ \E p \in placed' : p.quote = q /\ p.side = "BUY"
    BY <1>1, <2>1, <2>3
  <2>6. QED BY <1>2, <2>1, <2>2, <2>3, <2>4, <2>5, QuoteAdvances
<1>7. CASE /\ \E pc \in {"ask", "error"} : quote' = [quote EXCEPT ![q].pc = pc]
           /\ UNCHANGED <<resting, placed>>
  <2>0. PICK pc \in {"ask", "error"} : quote' = [quote EXCEPT ![q].pc = pc]
    BY <1>7
  <2> DEFINE k == [quote[q] EXCEPT !.pc = pc]
  <2>1. /\ k \in QuoteState /\ k.pc = pc
        /\ k.bid = quote[q].bid /\ k.ask = quote[q].ask /\ k.seen = quote[q].seen
        /\ k.bidId = quote[q].bidId /\ k.askId = quote[q].askId
    BY QuoteIsState DEF QuoteState
  <2>2. quote' = [quote EXCEPT ![q] = k]
    BY <2>0
  <2>3. placed' = placed /\ placed' \subseteq Order /\ resting' \subseteq placed'
    BY <1>7 DEF IInv, TypeOK
  <2> HIDE DEF k, o
  <2>4. QED BY <1>2, <1>3, <2>1, <2>2, <2>3, QuoteAdvances DEF HasOrder
<1>8. QED BY <1>5, <1>6, <1>7 DEF PlaceBid

LEMMA PlaceAskPreserves ==
  ASSUME IInv, NEW q \in Quote, PlaceAsk(q)
  PROVE  IInv'
<1> DEFINE o == [quote |-> q, side |-> "SELL", price |-> quote[q].ask]
<1>1. o \in Order /\ o.quote = q /\ o.side = "SELL" /\ o.price = quote[q].ask
  BY QuoteIsState DEF Order, PriceRange
<1>2. quote[q].pc = "ask" /\ others' \in Book /\ moves' \in 0 .. MaxMoves
  BY DEF PlaceAsk, IInv, TypeOK
<1>3. Passed(quote[q])
  BY <1>2 DEF IInv, QuotesAreComputed, Accepted
<1>5. CASE Accept(o) /\ quote' = [quote EXCEPT ![q].pc = "submitted", ![q].askId = TRUE]
  <2> DEFINE k == [quote[q] EXCEPT !.pc = "submitted", !.askId = TRUE]
  <2>1. /\ k \in QuoteState /\ k.pc = "submitted"
        /\ k.bid = quote[q].bid /\ k.ask = quote[q].ask /\ k.seen = quote[q].seen
        /\ k.bidId = quote[q].bidId
    BY QuoteIsState DEF QuoteState
  <2>2. quote' = [quote EXCEPT ![q] = k]
    BY <1>5
  <2>3. placed' = placed \cup {o} /\ placed' \subseteq Order /\ resting' \subseteq placed'
    BY <1>1, <1>5, AcceptPlaces
  <2> HIDE DEF k, o
  <2>4. QED BY <1>1, <1>2, <1>3, <2>1, <2>2, <2>3, QuoteAdvances DEF HasOrder
<1>6. CASE Accept(o) /\ quote' = [quote EXCEPT ![q].pc = "error"]
  <2> DEFINE k == [quote[q] EXCEPT !.pc = "error"]
  <2>1. /\ k \in QuoteState /\ k.pc = "error"
        /\ k.bid = quote[q].bid /\ k.ask = quote[q].ask /\ k.seen = quote[q].seen
        /\ k.bidId = quote[q].bidId /\ k.askId = quote[q].askId
    BY QuoteIsState DEF QuoteState
  <2>2. quote' = [quote EXCEPT ![q] = k]
    BY <1>6
  <2>3. placed' = placed \cup {o} /\ placed' \subseteq Order /\ resting' \subseteq placed'
    BY <1>1, <1>6, AcceptPlaces
  <2> HIDE DEF k, o
  <2>4. QED BY <1>1, <1>2, <1>3, <2>1, <2>2, <2>3, QuoteAdvances DEF HasOrder
<1>7. CASE /\ \E pc \in {"submitted", "error"} : quote' = [quote EXCEPT ![q].pc = pc]
           /\ UNCHANGED <<resting, placed>>
  <2>0. PICK pc \in {"submitted", "error"} : quote' = [quote EXCEPT ![q].pc = pc]
    BY <1>7
  <2> DEFINE k == [quote[q] EXCEPT !.pc = pc]
  <2>1. /\ k \in QuoteState /\ k.pc = pc
        /\ k.bid = quote[q].bid /\ k.ask = quote[q].ask /\ k.seen = quote[q].seen
        /\ k.bidId = quote[q].bidId /\ k.askId = quote[q].askId
    BY QuoteIsState DEF QuoteState
  <2>2. quote' = [quote EXCEPT ![q] = k]
    BY <2>0
  <2>3. placed' = placed /\ placed' \subseteq Order /\ resting' \subseteq placed'
    BY <1>7 DEF IInv, TypeOK
  <2> HIDE DEF k, o
  <2>4. QED BY <1>2, <1>3, <2>1, <2>2, <2>3, QuoteAdvances DEF HasOrder
<1>8. QED BY <1>5, <1>6, <1>7 DEF PlaceAsk

LEMMA GatePreserves ==
  ASSUME IInv, NEW q \in Quote, Gate(q)
  PROVE  IInv'
<1>1. quote[q].pc = "posted" /\ UNCHANGED <<others, resting, placed, moves>>
  BY DEF Gate
<1>a. PICK age \in Age :
        \E v \in PricingVerdicts(quote[q].bid, quote[q].ask, Size, age) :
          quote' = [quote EXCEPT ![q].pc =
                      IF v THEN "tracing" ELSE IF Fresh(age) THEN "rejected" ELSE "late"]
  BY Zenon DEF Gate
<1>2. PICK v \in PricingVerdicts(quote[q].bid, quote[q].ask, Size, age) :
        quote' = [quote EXCEPT ![q].pc =
                    IF v THEN "tracing" ELSE IF Fresh(age) THEN "rejected" ELSE "late"]
  BY <1>a, Zenon
<1>3. Computed(quote[q].bid, quote[q].ask, quote[q].seen)
  BY <1>1 DEF IInv, QuotesAreComputed
<1>4. /\ v \in BOOLEAN
      /\ v => /\ quote[q].bid < quote[q].ask
              /\ MIN_BID_ASK_SPREAD <= quote[q].ask - quote[q].bid
              /\ quote[q].ask - quote[q].bid <= MAX_BID_ASK_SPREAD
      /\ ~v /\ Fresh(age) => Extreme(quote[q].seen)
  BY <1>3, QuoteIsState, GateDecides
<1>5. CASE v
  <2>1. Passed(quote[q])
    BY <1>3, <1>4, <1>5 DEF Passed, Computed
  <2>2. quote' = [quote EXCEPT ![q].pc = "tracing"]
    BY <1>2, <1>5
  <2>3. QED BY <1>1, <2>1, <2>2, HandlerAdvances
<1>6. CASE ~v /\ Fresh(age)
  <2>1. quote' = [quote EXCEPT ![q].pc = "rejected"]
    BY <1>2, <1>6
  <2>2. "rejected" \notin Accepted
    BY DEF Accepted
  <2>3. QED BY <1>1, <1>4, <1>6, <2>1, <2>2, HandlerAdvances
<1>7. CASE ~v /\ ~Fresh(age)
  <2>1. quote' = [quote EXCEPT ![q].pc = "late"]
    BY <1>2, <1>7
  <2>2. "late" \notin Accepted
    BY DEF Accepted
  <2>3. QED BY <1>1, <2>1, <2>2, HandlerAdvances
<1>8. QED BY <1>5, <1>6, <1>7

LEMMA NextPreservesIInv == IInv /\ [Next]_vars => IInv'
<1> SUFFICES ASSUME IInv, [Next]_vars PROVE IInv'
  OBVIOUS
<1>1. ASSUME NEW q \in Quote, ComputeQuote(q) PROVE IInv'
  BY <1>1, ComputePreserves
<1>2. ASSUME NEW q \in Quote, Gate(q) PROVE IInv'
  BY <1>2, GatePreserves
<1>3. ASSUME NEW q \in Quote, CommitQuote(q) PROVE IInv'
  <2>1. quote[q].pc = "tracing" /\ UNCHANGED <<others, resting, placed, moves>>
    BY <1>3 DEF CommitQuote
  <2>2. Passed(quote[q])
    BY <2>1 DEF IInv, QuotesAreComputed, Accepted
  <2>3. PICK pc \in {"bid", "error"} : quote' = [quote EXCEPT ![q].pc = pc]
    BY <1>3 DEF CommitQuote
  <2>4. QED BY <2>1, <2>2, <2>3, HandlerAdvances
<1>4. ASSUME NEW q \in Quote, ClientFails(q) PROVE IInv'
  <2>1. /\ quote[q].pc = "bid" /\ UNCHANGED <<others, resting, placed, moves>>
        /\ quote' = [quote EXCEPT ![q].pc = "error"]
    BY <1>4 DEF ClientFails
  <2>2. Passed(quote[q])
    BY <2>1 DEF IInv, QuotesAreComputed, Accepted
  <2>3. QED BY <2>1, <2>2, HandlerAdvances
<1>5. ASSUME NEW q \in Quote, PlaceBid(q) PROVE IInv'
  BY <1>5, PlaceBidPreserves
<1>6. ASSUME NEW q \in Quote, PlaceAsk(q) PROVE IInv'
  BY <1>6, PlaceAskPreserves
<1>7. ASSUME NEW b \in Book, MarketMoves(b) PROVE IInv'
  <2>1. /\ others' = b /\ placed' = placed /\ quote' = quote
        /\ moves' = moves + 1 /\ moves < MaxMoves /\ resting' \subseteq resting
    BY <1>7 DEF MarketMoves
  <2>2. TypeOK'
    BY <2>1, BookAssumption DEF BookAssumption, IInv, TypeOK
  <2>3. QuotesAreComputed' /\ OrdersAreOfQuotes' /\ IdsAreOfOrders'
    BY <2>1 DEF IInv, QuotesAreComputed, OrdersAreOfQuotes, IdsAreOfOrders, Sides
  <2>4. QED BY <2>2, <2>3 DEF IInv
<1>8. CASE UNCHANGED vars
  <2>1. TypeOK'
    BY <1>8 DEF vars, IInv, TypeOK
  <2>2. QuotesAreComputed' /\ OrdersAreOfQuotes' /\ IdsAreOfOrders'
    BY <1>8 DEF vars, IInv, QuotesAreComputed, OrdersAreOfQuotes, IdsAreOfOrders, Sides
  <2>3. QED BY <2>1, <2>2 DEF IInv
<1>9. QED BY <1>1, <1>2, <1>3, <1>4, <1>5, <1>6, <1>7, <1>8 DEF Next, Process

THEOREM Invariance == Spec => []IInv
BY InitEstablishesIInv, NextPreservesIInv, PTL DEF Spec

-----------------------------------------------------------------------------
(* What follows from it.                                                    *)

\* The types of the model hold for any book, policy size and number of quotes.
THEOREM TypeCorrect == Spec => []TypeOK
<1>1. IInv => TypeOK
  BY DEF IInv
<1>2. QED BY <1>1, Invariance, PTL

\* Whatever the books, prices and ages: the orders of a quote that were placed
\* keep the policy's spread and NOMOS' bounds.
THEOREM PlacedQuotesAreWithinPolicy == Spec => []PlacedQuotesHoldTheirSpread
<1>1. IInv => PlacedQuotesHoldTheirSpread
  <2> SUFFICES ASSUME IInv, NEW o \in placed
               PROVE  /\ MinQuote <= o.price /\ o.price <= MaxQuote
                      /\ \A p \in placed :
                           p.quote = o.quote /\ o.side = "BUY" /\ p.side = "SELL" =>
                             /\ p.price - o.price >= MIN_BID_ASK_SPREAD
                             /\ p.price - o.price <= MAX_BID_ASK_SPREAD
    BY DEF PlacedQuotesHoldTheirSpread
  <2>1. o.quote \in Quote /\ o.side \in {"BUY", "SELL"}
    BY DEF IInv, TypeOK, Order
  <2> DEFINE k == quote[o.quote]
  <2>2. k.pc \in Accepted /\ o.price = IF o.side = "BUY" THEN k.bid ELSE k.ask
    BY DEF IInv, OrdersAreOfQuotes, Accepted
  <2>3. Passed(k)
    BY <2>1, <2>2 DEF IInv, QuotesAreComputed
  <2>4. k.bid \in Int /\ k.ask \in Int
    BY <2>1, QuoteIsState, PriceIsInt
  <2> HIDE DEF k
  <2>5. MinQuote <= o.price /\ o.price <= MaxQuote
    BY <2>2, <2>3, <2>4 DEF Passed, MinQuote, MaxQuote
  <2>6. ASSUME NEW p \in placed, p.quote = o.quote, o.side = "BUY", p.side = "SELL"
        PROVE  /\ p.price - o.price >= MIN_BID_ASK_SPREAD
               /\ p.price - o.price <= MAX_BID_ASK_SPREAD
    <3>1. p.price = k.ask
      BY <2>6 DEF IInv, OrdersAreOfQuotes, k
    <3>2. o.price = k.bid
      BY <2>2, <2>6
    <3>3. QED BY <2>3, <2>4, <3>1, <3>2 DEF Passed, MIN_BID_ASK_SPREAD, MAX_BID_ASK_SPREAD, Dollar
  <2>7. QED BY <2>5, <2>6
<1>2. QED BY <1>1, Invariance, PTL

\* On every book: the gate refuses a fresh quote of NOMOS only in extreme markets.
THEOREM OnlyExtremeQuotesAreRejected == Spec => []RejectedQuotesAreExtreme
<1>1. IInv => RejectedQuotesAreExtreme
  BY DEF IInv, QuotesAreComputed, RejectedQuotesAreExtreme, Extreme
<1>2. QED BY <1>1, Invariance, PTL

\* A quote reported with two ids has two orders, and a refused one has none,
\* for any number of overlapping quotes.
THEOREM OneSidedQuotesAreVisible == Spec => []OneSidedQuotesShow
<1>1. IInv => OneSidedQuotesShow
  <2> SUFFICES ASSUME IInv, NEW q \in Quote
               PROVE  /\ Sides(q) # {} => quote[q].pc \in {"ask", "submitted", "error"}
                      /\ quote[q].pc = "submitted" /\ quote[q].bidId /\ quote[q].askId =>
                           Sides(q) = {"BUY", "SELL"}
    BY DEF OneSidedQuotesShow
  <2>1. Sides(q) # {} => quote[q].pc \in {"ask", "submitted", "error"}
    BY DEF Sides, IInv, OrdersAreOfQuotes
  <2>2. Sides(q) \subseteq {"BUY", "SELL"}
    BY DEF Sides, IInv, TypeOK, Order
  <2>3. quote[q].bidId /\ quote[q].askId => {"BUY", "SELL"} \subseteq Sides(q)
    BY DEF IInv, IdsAreOfOrders
  <2>4. QED BY <2>1, <2>2, <2>3
<1>2. QED BY <1>1, Invariance, PTL

\* For every book and any move of the market between a quote and its orders:
\* an order is matched on arrival only against a book that came towards it.
THEOREM QuotesMakeMarkets == Spec => QuotesTakeNothing
<1>1. IInv /\ [Next]_vars =>
        \A o \in placed' \ placed :
          LET seen == quote[o.quote].seen IN
          o \notin resting' =>
              \/ o.side = "BUY"  /\ (BestAsk < seen.ask \/ seen.ask <= MinQuote)
              \/ o.side = "SELL" /\ (BestBid > seen.bid \/ seen.bid >= MaxQuote)
  <2> SUFFICES ASSUME IInv, [Next]_vars, NEW o \in placed' \ placed, o \notin resting'
               PROVE  \/ /\ o.side = "BUY"
                         /\ BestAsk < quote[o.quote].seen.ask \/ quote[o.quote].seen.ask <= MinQuote
                      \/ /\ o.side = "SELL"
                         /\ BestBid > quote[o.quote].seen.bid \/ quote[o.quote].seen.bid >= MaxQuote
    OBVIOUS
  <2>1. PICK q \in Quote : PlaceBid(q) \/ PlaceAsk(q)
    BY DEF Next, Process, ComputeQuote, Gate, CommitQuote, ClientFails, MarketMoves, vars
  <2>2. Computed(quote[q].bid, quote[q].ask, quote[q].seen)
    BY <2>1 DEF PlaceBid, PlaceAsk, IInv, QuotesAreComputed
  <2>3. /\ quote[q].bid \in Int /\ quote[q].ask \in Int
        /\ quote[q].seen.bid \in Int /\ quote[q].seen.ask \in Int
    <3>1. /\ quote[q].bid \in PriceRange /\ quote[q].ask \in PriceRange
          /\ quote[q].seen \in [bid : PriceRange, ask : PriceRange]
      BY QuoteIsState
    <3>2. quote[q].seen.bid \in PriceRange /\ quote[q].seen.ask \in PriceRange
      BY <3>1
    <3>3. QED BY <3>1, <3>2, PriceIsInt
  <2>4. BestBid \in Int /\ BestAsk \in Int
    BY BestPrices, PriceIsInt
  <2>5. CASE PlaceBid(q)
    <3>1. /\ o = [quote |-> q, side |-> "BUY", price |-> quote[q].bid]
          /\ Crosses(o)
      BY <2>5 DEF PlaceBid, Accept
    <3>2. o.quote = q /\ o.side = "BUY" /\ quote[q].bid >= BestAsk
      BY <3>1 DEF Crosses
    <3>3. QED BY <2>2, <2>3, <2>4, <3>2 DEF Computed, MinQuote
  <2>6. CASE PlaceAsk(q)
    <3>1. /\ o = [quote |-> q, side |-> "SELL", price |-> quote[q].ask]
          /\ Crosses(o)
      BY <2>6 DEF PlaceAsk, Accept
    <3>2. o.quote = q /\ o.side = "SELL" /\ quote[q].ask <= BestBid
      BY <3>1 DEF Crosses
    <3>3. QED BY <2>2, <2>3, <2>4, <3>2 DEF Computed, MaxQuote
  <2>7. QED BY <2>1, <2>5, <2>6
<1>2. QED BY <1>1, Invariance, PTL DEF Spec, QuotesTakeNothing
=============================================================================
