------------------------------- MODULE Quotes -------------------------------
(***************************************************************************)
(* NOMOS quotes one market (agents/nomos/main.py): it reads the order      *)
(* book, computes a bid and an ask and posts them.  The orchestrator gates *)
(* the quote, commits its trace and then places two orders at Polymarket,  *)
(* one after the other (orchestrator/app/routers/decisions.py and          *)
(* adapters/real/polymarket.py).  NOMOS waits 10 s for the answer and the  *)
(* commit may take minutes, so quotes overlap; nothing cancels an order.   *)
(*                                                                         *)
(* Prices are in half basis points (module RiskGate).  The sizes at the    *)
(* top of the book weigh its two prices into the microprice, which is any  *)
(* value between them; a float that lies on the edge of a comparison or of *)
(* a rounding falls on either side.                                        *)
(***************************************************************************)
EXTENDS RiskGate, FiniteSets

CONSTANTS
    Book,        \* the books the other traders' orders may form
    Mid,         \* values of the microprice
    Quote,       \* the pricing decisions
    Age,         \* how long a decision is on its way, in ms
    Size,        \* the size of the configured appetite profile
    MaxMoves     \* bound of the number of moves of the market

NoBid == 0
NoAsk == Dollar

ASSUME BookAssumption ==
    /\ Book \subseteq [bid: 0..Dollar, ask: 0..Dollar]
    /\ \A b \in Book : b.bid < b.ask /\ b.bid % 2 = 0 /\ b.ask % 2 = 0
    /\ Mid \subseteq 0..Dollar
    /\ Size \in {50, 100, 200}
    /\ MaxMoves \in Nat
    /\ Age \subseteq Int

VARIABLES
    others,      \* the book of the other traders' orders
    resting,     \* NOMOS' orders that rest in the book
    placed,      \* every order of NOMOS Polymarket has accepted
    quote,       \* quote[q]: a decision on its way through the orchestrator
    moves        \* how often the market has moved

vars == <<others, resting, placed, quote, moves>>

-----------------------------------------------------------------------------
Order == [quote: Quote, side: {"BUY", "SELL"}, price: 0..Dollar]

Highest(S) == CHOOSE x \in S : \A y \in S : y <= x
Lowest(S) == CHOOSE x \in S : \A y \in S : x <= y

Prices(side) == {o.price : o \in {r \in resting : r.side = side}}

(* The book anybody reads: the others' orders and those of NOMOS.          *)
BestBid == Highest(Prices("BUY") \cup {others.bid})
BestAsk == Lowest(Prices("SELL") \cup {others.ask})

Unused == [pc |-> "unused", bid |-> 0, ask |-> 0, seen |-> [bid |-> NoBid, ask |-> NoAsk],
           bidId |-> FALSE, askId |-> FALSE]

Init ==
    /\ others \in Book
    /\ resting = {}
    /\ placed = {}
    /\ quote = [q \in Quote |-> Unused]
    /\ moves = 0

-----------------------------------------------------------------------------
(* compute_quote                                                           *)

(* spread_bps is int((ask - bid) * 10000): the product may fall short of   *)
(* the whole number.                                                       *)
SpreadBps(bid, ask) == {(ask - bid) \div 2, (ask - bid) \div 2 - 1}

(* Half of fair_spread, which is spread_bps but at least 0.005.            *)
HalfSpread(bps) == IF bps > 50 THEN bps ELSE 50

MinQuote == 400
MaxQuote == 19600
Clamp(x) == IF x < MinQuote THEN MinQuote ELSE IF x > MaxQuote THEN MaxQuote ELSE x

(* Mutant: round(x, 2).                                                    *)
RoundedToCents(x) == {y \in (x - 100)..(x + 100) : y % 200 = 0}

(* round(x, 4)                                                             *)
Rounded(x) == {y \in {x - 1, x, x + 1} : y % 2 = 0}

(* Mutant: the second clamp is forgotten.                                  *)
TargetsUnclamped(mid, half) ==
    LET wide   == [bid |-> Clamp(mid - half), ask |-> Clamp(mid + half)]
        narrow == [bid |-> mid - 50, ask |-> mid + 50]
    IN  {t \in {wide, narrow} :
            \/ t = wide /\ wide.ask - wide.bid >= MIN_BID_ASK_SPREAD
            \/ t = narrow /\ wide.ask - wide.bid <= MIN_BID_ASK_SPREAD}

(* Mutant: 0.25 is written for 0.0025.                                     *)
TargetsTooWide(mid, half) == {[bid |-> mid - 5000, ask |-> mid + 5000]}

(* Mutant: a skew of the whole spread, towards the ask.                    *)
TargetsSkewed(mid, half) == {[bid |-> Clamp(mid + half), ask |-> Clamp(mid + 3 * half)]}

(* The prices before they are rounded: both are clamped, and when they are *)
(* then closer than the minimum spread they are taken afresh around the    *)
(* microprice and clamped on their own side only.                          *)
Targets(mid, half) ==
    LET wide   == [bid |-> Clamp(mid - half), ask |-> Clamp(mid + half)]
        narrow == [bid |-> IF mid - 50 < MinQuote THEN MinQuote ELSE mid - 50,
                   ask |-> IF mid + 50 > MaxQuote THEN MaxQuote ELSE mid + 50]
    IN  {t \in {wide, narrow} :
            \/ t = wide /\ wide.ask - wide.bid >= MIN_BID_ASK_SPREAD
            \/ t = narrow /\ wide.ask - wide.bid <= MIN_BID_ASK_SPREAD}

(* The book is read, the prices are computed and the decision is posted.   *)
ComputeQuote(q) ==
    /\ quote[q].pc = "unused"
    /\ BestBid # NoBid
    /\ BestAsk # NoAsk
    /\ \E mid \in Mid, bps \in SpreadBps(BestBid, BestAsk) :
          /\ BestBid <= mid /\ mid <= BestAsk
          /\ \E t \in Targets(mid, HalfSpread(bps)) :
                \E bid \in Rounded(t.bid), ask \in Rounded(t.ask) :
                    quote' = [quote EXCEPT ![q] =
                        [Unused EXCEPT !.pc = "posted", !.bid = bid, !.ask = ask,
                                       !.seen = [bid |-> BestBid, ask |-> BestAsk]]]
    /\ UNCHANGED <<others, resting, placed, moves>>

-----------------------------------------------------------------------------
(* _process for a pricing decision                                         *)

Gate(q) ==
    /\ quote[q].pc = "posted"
    /\ \E age \in Age : \E v \in PricingVerdicts(quote[q].bid, quote[q].ask, Size, age) :
          quote' = [quote EXCEPT ![q].pc =
              IF v THEN "tracing" ELSE IF Fresh(age) THEN "rejected" ELSE "late"]
    /\ UNCHANGED <<others, resting, placed, moves>>

(* The trace sections read book, question and fills again, the trace is    *)
(* pinned and committed; any of it may raise.                              *)
CommitQuote(q) ==
    /\ quote[q].pc = "tracing"
    /\ \E pc \in {"bid", "error"} : quote' = [quote EXCEPT ![q].pc = pc]
    /\ UNCHANGED <<others, resting, placed, moves>>

(* submit_quote: without credentials, signer or collateral the client is   *)
(* not built, and the market's token has to be known.                      *)
ClientFails(q) ==
    /\ quote[q].pc = "bid"
    /\ quote' = [quote EXCEPT ![q].pc = "error"]
    /\ UNCHANGED <<others, resting, placed, moves>>

Crosses(o) == IF o.side = "BUY" THEN o.price >= BestAsk ELSE o.price <= BestBid

(* Polymarket accepts a good-till-cancelled order: it is matched with what *)
(* it crosses, NOMOS' own orders among them, or rests.                     *)
Accept(o) ==
    /\ placed' = placed \cup {o}
    /\ IF Crosses(o)
       THEN \E own \in SUBSET {r \in resting : r.side # o.side /\
                   IF o.side = "BUY" THEN r.price <= o.price ELSE r.price >= o.price} :
               resting' = resting \ own
       ELSE resting' = resting \cup {o}

(* _place: the order is accepted and answered with its id; it is accepted  *)
(* and the answer is lost, or refused, and the call raises; or it is       *)
(* answered without an id, which is taken for the id "".                   *)
PlaceBid(q) ==
    LET o == [quote |-> q, side |-> "BUY", price |-> quote[q].bid] IN
    /\ quote[q].pc = "bid"
    /\ \/ Accept(o) /\ \/ quote' = [quote EXCEPT ![q].pc = "ask", ![q].bidId = TRUE]
                       \/ quote' = [quote EXCEPT ![q].pc = "error"]
       \/ /\ \E pc \in {"ask", "error"} : quote' = [quote EXCEPT ![q].pc = pc]
          /\ UNCHANGED <<resting, placed>>
    /\ UNCHANGED <<others, moves>>

(* Mutant: an exception while the ask is placed is swallowed.              *)
PlaceAskSwallowed(q) ==
    LET o == [quote |-> q, side |-> "SELL", price |-> quote[q].ask] IN
    /\ quote[q].pc = "ask"
    /\ quote' = [quote EXCEPT ![q].pc = "submitted", ![q].askId = TRUE]
    /\ \/ Accept(o)
       \/ UNCHANGED <<resting, placed>>
    /\ UNCHANGED <<others, moves>>

PlaceAsk(q) ==
    LET o == [quote |-> q, side |-> "SELL", price |-> quote[q].ask] IN
    /\ quote[q].pc = "ask"
    /\ \/ Accept(o) /\ \/ quote' = [quote EXCEPT ![q].pc = "submitted", ![q].askId = TRUE]
                       \/ quote' = [quote EXCEPT ![q].pc = "error"]
       \/ /\ \E pc \in {"submitted", "error"} : quote' = [quote EXCEPT ![q].pc = pc]
          /\ UNCHANGED <<resting, placed>>
    /\ UNCHANGED <<others, moves>>

-----------------------------------------------------------------------------
(* The others' orders change; the resting orders they cross are filled.    *)
MarketMoves(b) ==
    /\ moves < MaxMoves
    /\ b # others
    /\ others' = b
    /\ resting' = {r \in resting : IF r.side = "BUY" THEN r.price < b.ask ELSE b.bid < r.price}
    /\ moves' = moves + 1
    /\ UNCHANGED <<placed, quote>>

Process(q) == Gate(q) \/ CommitQuote(q) \/ ClientFails(q) \/ PlaceBid(q) \/ PlaceAsk(q)

Next ==
    \/ \E q \in Quote : ComputeQuote(q) \/ Process(q)
    \/ \E b \in Book : MarketMoves(b)

Spec == Init /\ [][Next]_vars
-----------------------------------------------------------------------------
QuoteState ==
    [pc: {"unused", "posted", "rejected", "late", "tracing", "bid", "ask", "submitted", "error"},
     bid: 0..Dollar, ask: 0..Dollar, seen: [bid: 0..Dollar, ask: 0..Dollar],
     bidId: BOOLEAN, askId: BOOLEAN]

(* The types of the variables; an order rests only once it was accepted.   *)
TypeOK ==
    /\ others \in Book
    /\ placed \subseteq Order
    /\ resting \subseteq placed
    /\ quote \in [Quote -> QuoteState]
    /\ moves \in 0..MaxMoves

(* The two orders of a quote keep the spread the policy asks for, and lie  *)
(* within the prices NOMOS quotes, although near those prices the clamps   *)
(* of compute_quote produce quotes that are crossed or too tight: the gate *)
(* stops every one of them.                                                *)
PlacedQuotesHoldTheirSpread ==
    \A o \in placed :
        /\ MinQuote <= o.price /\ o.price <= MaxQuote
        /\ \A p \in placed :
              p.quote = o.quote /\ o.side = "BUY" /\ p.side = "SELL" =>
                  /\ p.price - o.price >= MIN_BID_ASK_SPREAD
                  /\ p.price - o.price <= MAX_BID_ASK_SPREAD

(* An order of NOMOS makes a market and takes none: it is matched on its   *)
(* arrival only if the other side of the book has come towards it since    *)
(* the quote was computed, minutes before, or lay outside the prices NOMOS *)
(* quotes, where the clamp carries the order across the book.              *)
QuotesTakeNothing ==
    [][\A o \in placed' \ placed :
          LET seen == quote[o.quote].seen IN
          o \notin resting' =>
              \/ o.side = "BUY"  /\ (BestAsk < seen.ask \/ seen.ask <= MinQuote)
              \/ o.side = "SELL" /\ (BestBid > seen.bid \/ seen.bid >= MaxQuote)]_vars

NearBounds(b) ==
    LET half == HalfSpread((b.ask - b.bid) \div 2) IN
    b.bid - half < MinQuote \/ b.ask + half > MaxQuote

(* The gate refuses a fresh quote of NOMOS only where the market is tight  *)
(* (52 basis points and less, where rounding takes the minimum spread      *)
(* away), wide (more than 19.98 %), or near the bounds of what NOMOS       *)
(* quotes: computed quotes and policy agree everywhere else.               *)
RejectedQuotesAreExtreme ==
    \A q \in Quote :
        LET b == quote[q].seen IN
        quote[q].pc = "rejected" =>
            b.ask - b.bid <= 104 \/ b.ask - b.bid >= 3998 \/ NearBounds(b)

Sides(q) == {o.side : o \in {p \in placed : p.quote = q}}

(* A quote of which one side alone was placed is never reported with two   *)
(* order ids: its handler is still at work or failed, or an id is missing. *)
(* A refused quote has no order at all.                                    *)
OneSidedQuotesShow ==
    \A q \in Quote :
        /\ Sides(q) # {} => quote[q].pc \in {"ask", "submitted", "error"}
        /\ quote[q].pc = "submitted" /\ quote[q].bidId /\ quote[q].askId =>
               Sides(q) = {"BUY", "SELL"}

=============================================================================
