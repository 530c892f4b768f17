----------------------------- MODULE HedgeBook -----------------------------
(***************************************************************************)
(* The hedge book: the perpetual positions on Hyperliquid and the rows of  *)
(* hedge_positions that stand for them.  A hedge decision past the risk    *)
(* gate and the trace commit runs _execute_hedge (routers/decisions.py),   *)
(* which opens or closes a position through HyperliquidReal and upserts a  *)
(* row.  Every call of the venue's SDK runs in a thread and is awaited, so *)
(* the handlers of several decisions interleave between calls.             *)
(*                                                                         *)
(* The venue nets all orders of a coin into one signed position.  Prices   *)
(* and profit are left out, and the margin in use is the position's size.  *)
(***************************************************************************)
EXTENDS Integers, FiniteSets, Functions

CONSTANTS
  Requests,   \* hedge decisions
  NoOrder,    \* the content of a request not sent yet
  Coins,      \* perpetuals; a coin stands for its asset index, the position id
  NoRow,
  MaxSize     \* largest order

Sides == {"long", "short"}
Order == [action : {"open"}, coin : Coins, side : Sides, size : 1 .. MaxSize, stop : BOOLEAN]
         \cup [action : {"close"}, coin : Coins]   \* a close uses no other field

\* venue in the key of a row: record_hedge passes none when it closes.
Keys == {"hyperliquid", ""} \X Coins

\* HedgePosition, as far as a row keeps it.
Row == [side : Sides \cup {""}, size : Nat, margin : Nat, status : {"open", "closed"}]

ASSUME RequestsAssumption == IsFiniteSet(Requests)
ASSUME SizeAssumption == MaxSize \in Nat \ {0}
ASSUME NoOrderAssumption == NoOrder \notin Order
ASSUME NoRowAssumption == NoRow \notin Row

VARIABLES
  order,      \* what each request asks for
  pc,         \* where its handler stands
  snapshot,   \* the HedgePosition its handler will record
  position,   \* Hyperliquid: signed size per coin, + long, - short
  filled,     \* Hyperliquid: size filled of each request's market order
  stops,      \* Hyperliquid: requests with a resting reduce-only stop
  row         \* Postgres: hedge_positions by (venue, venue_position_id)

vars == <<order, pc, snapshot, position, filled, stops, row>>
venueVars == <<position, filled, stops>>

InFlight == {"fund", "leverage", "before", "market", "stop", "reread", "record"}

Abs(n) == IF n < 0 THEN -n ELSE n
Signed(side, n) == IF side = "long" THEN n ELSE -n

\* _position_from_asset: the venue's own bookkeeping of a coin.
VenueView(c) ==
  [side |-> IF position[c] >= 0 THEN "long" ELSE "short",
   size |-> Abs(position[c]), margin |-> Abs(position[c]), status |-> "open"]

\* get_position: the position behind a position id, none where it raises a
\* KeyError because the account is flat in that coin.
GetPosition(c) == {VenueView(d) : d \in {e \in {c} : position[e] # 0}}

Init ==
  /\ order = [r \in Requests |-> NoOrder]
  /\ pc = [r \in Requests |-> "idle"]
  /\ snapshot = [r \in Requests |-> NoRow]
  /\ position = [c \in Coins |-> 0]
  /\ filled = [r \in Requests |-> 0]
  /\ stops = {}
  /\ row = [k \in Keys |-> NoRow]

-----------------------------------------------------------------------------
\* POST /decisions/hedge, once the gate has passed and the trace is committed.
PostHedge(r, o) ==
  /\ pc[r] = "idle"
  /\ order' = [order EXCEPT ![r] = o]
  /\ pc' = [pc EXCEPT ![r] = "fund"]
  /\ UNCHANGED <<snapshot, venueVars, row>>

\* _require_funded lets the handler on.
RequireFunded(r) ==
  /\ pc[r] = "fund"
  /\ pc' = [pc EXCEPT ![r] = IF order[r].action = "open" THEN "leverage" ELSE "before"]
  /\ UNCHANGED <<order, snapshot, venueVars, row>>

\* update_leverage, of which the book keeps nothing.
SetLeverage(r) ==
  /\ pc[r] = "leverage"
  /\ pc' = [pc EXCEPT ![r] = "market"]
  /\ UNCHANGED <<order, snapshot, venueVars, row>>

\* filled_sz or size: where the venue says "ok" and reports no fill, the code
\* goes on with the size that was ordered.
FilledOrAsked(r, f) == IF f = 0 THEN order[r].size ELSE f

\* The order fills for f, and nets into the coin's position.  Until the
\* position is read again the handler knows the answer alone.
Fill(r, f) ==
  /\ position' = [position EXCEPT ![order[r].coin] =
                    position[order[r].coin] + Signed(order[r].side, f)]
  /\ filled' = [filled EXCEPT ![r] = f]
  /\ snapshot' = [snapshot EXCEPT ![r] =
                    [side |-> order[r].side, size |-> FilledOrAsked(r, f),
                     margin |-> order[r].size, status |-> "open"]]
  /\ pc' = [pc EXCEPT ![r] = IF order[r].stop THEN "stop" ELSE "reread"]
  /\ UNCHANGED <<order, stops, row>>

\* Mutant: the size is rounded up to the venue's next lot.
MarketOpenRoundsUp(r) ==
  /\ pc[r] = "market" /\ order[r].action = "open"
  /\ \E f \in 0 .. order[r].size + 1 : Fill(r, f)

\* market_open is an immediate-or-cancel order: it fills in part, in full or,
\* as _check_filled allows, not at all without an error.
MarketOpen(r) ==
  /\ pc[r] = "market" /\ order[r].action = "open"
  /\ \E f \in 0 .. order[r].size : Fill(r, f)

\* _place_stop does not look at the result: the stop rests or was refused.
PlaceStop(r) ==
  /\ pc[r] = "stop"
  /\ stops' \in {stops, stops \cup {r}}
  /\ pc' = [pc EXCEPT ![r] = "reread"]
  /\ UNCHANGED <<order, snapshot, position, filled, row>>

\* get_position after the open: the venue's position where there is one; a
\* KeyError keeps what the fill said.
Reread(r) ==
  /\ pc[r] = "reread"
  /\ IF GetPosition(order[r].coin) = {}
     THEN UNCHANGED snapshot
     ELSE \E p \in GetPosition(order[r].coin) : snapshot' = [snapshot EXCEPT ![r] = p]
  /\ pc' = [pc EXCEPT ![r] = "record"]
  /\ UNCHANGED <<order, venueVars, row>>

\* upsert: a conflict updates status, pnl and size only.
Upsert(k, p) ==
  row' = [row EXCEPT ![k] = IF row[k] = NoRow THEN p
                            ELSE [row[k] EXCEPT !.status = p.status, !.size = p.size]]

\* Mutant: a rejected order is recorded all the same.
RecordOpenUnfilled(r) ==
  /\ pc[r] \in {"market", "record"} /\ order[r].action = "open"
  /\ Upsert(<<"hyperliquid", order[r].coin>>,
            [side |-> order[r].side, size |-> order[r].size, margin |-> order[r].size,
             status |-> "open"])
  /\ pc' = [pc EXCEPT ![r] = "submitted"]
  /\ UNCHANGED <<order, snapshot, venueVars>>

\* record_hedge after an open, under the venue and the coin's position id.
RecordOpen(r) ==
  /\ pc[r] = "record" /\ order[r].action = "open"
  /\ Upsert(<<"hyperliquid", order[r].coin>>, snapshot[r])
  /\ pc' = [pc EXCEPT ![r] = "submitted"]
  /\ UNCHANGED <<order, snapshot, venueVars>>

\* close_position reads the position it is about to close.
ReadBefore(r) ==
  /\ pc[r] = "before"
  /\ pc' = [pc EXCEPT ![r] = "market"]
  /\ UNCHANGED <<order, snapshot, venueVars, row>>

\* market_close sends a reduce-only immediate-or-cancel order for the whole
\* position, which fills in full, in part or not at all: the size filled is
\* not looked at.  With no position it does nothing.
MarketClose(r) ==
  /\ pc[r] = "market" /\ order[r].action = "close"
  /\ \E left \in 0 .. Abs(position[order[r].coin]) :
       position' = [position EXCEPT ![order[r].coin] =
                      IF position[order[r].coin] > 0 THEN left ELSE -left]
  /\ pc' = [pc EXCEPT ![r] = "record"]
  /\ UNCHANGED <<order, snapshot, filled, stops, row>>

ClosedPosition == [side |-> "", size |-> 0, margin |-> 0, status |-> "closed"]

\* Mutant: the close is recorded under the venue, whatever it left open.
RecordCloseAtVenue(r) ==
  /\ pc[r] = "record" /\ order[r].action = "close"
  /\ Upsert(<<"hyperliquid", order[r].coin>>, ClosedPosition)
  /\ pc' = [pc EXCEPT ![r] = "submitted"]
  /\ UNCHANGED <<order, snapshot, venueVars>>

\* record_hedge after a close: position_id, status and pnl, but no venue.
RecordClose(r) ==
  /\ pc[r] = "record" /\ order[r].action = "close"
  /\ Upsert(<<"", order[r].coin>>, ClosedPosition)
  /\ pc' = [pc EXCEPT ![r] = "submitted"]
  /\ UNCHANGED <<order, snapshot, venueVars>>

\* Any awaited call may raise: an unfunded account, leverage or an order the
\* venue refuses, a connection or the database that fails.  What the handler
\* would have recorded is lost with it.
Raises(r) ==
  /\ pc[r] \in InFlight
  /\ pc' = [pc EXCEPT ![r] = "error"]
  /\ snapshot' = [snapshot EXCEPT ![r] = NoRow]
  /\ UNCHANGED <<order, venueVars, row>>

\* A resting stop fires, for the size it was placed with: reduce-only, so it
\* never turns a position round.
StopFires(r) ==
  /\ r \in stops
  /\ stops' = stops \ {r}
  /\ LET c == order[r].coin
         size == FilledOrAsked(r, filled[r])
     IN
     position' = [position EXCEPT ![c] =
       IF Signed(order[r].side, position[c]) <= 0 THEN position[c]
       ELSE IF Abs(position[c]) <= size THEN 0
       ELSE position[c] - Signed(order[r].side, size)]
  /\ UNCHANGED <<order, pc, snapshot, filled, row>>

Handler(r) ==
  \/ RequireFunded(r)
  \/ SetLeverage(r)
  \/ MarketOpen(r)
  \/ PlaceStop(r)
  \/ Reread(r)
  \/ RecordOpen(r)
  \/ ReadBefore(r)
  \/ MarketClose(r)
  \/ RecordClose(r)

Next ==
  \/ \E r \in Requests, o \in Order : PostHedge(r, o)
  \/ \E r \in Requests : Handler(r) \/ Raises(r) \/ StopFires(r)

Spec == Init /\ [][Next]_vars

-----------------------------------------------------------------------------
\* The row list_open shows for a coin.
Listed(c) == row[<<"hyperliquid", c>>] # NoRow /\ row[<<"hyperliquid", c>>].status = "open"

\* Types.
TypeOK ==
  /\ order \in [Requests -> Order \cup {NoOrder}]
  /\ pc \in [Requests -> {"idle", "submitted", "error"} \cup InFlight]
  /\ snapshot \in [Requests -> Row \cup {NoRow}]
  /\ position \in [Coins -> Int]
  /\ filled \in [Requests -> 0 .. MaxSize]
  /\ stops \subseteq Requests
  /\ row \in [Keys -> Row \cup {NoRow}]

\* What the venue has filled of a coin, opens of either side together.
FillsOf(c) == [r \in Requests |-> IF order[r] # NoOrder /\ order[r].coin = c THEN filled[r] ELSE 0]
Traded(c) == SumFunctionOnSet(FillsOf(c), Requests)

\* A size that fills account for, or that the venue answered "ok" without one.
Backed(r, size) ==
  size <= Traded(order[r].coin) \/ (filled[r] = 0 /\ size = order[r].size)

\* No row is made up: a listed position is what an answered open of that coin
\* was told last, and it is no larger than all the venue filled of the coin,
\* whatever handlers raised on the way, however they interleaved, and whatever
\* closes and stops left behind them.  The code itself makes one exception, an
\* open that the venue answered without a fill and without an error.
ListedPositionsWereFilled ==
  \A c \in Coins : Listed(c) =>
    \E r \in Requests :
      /\ pc[r] = "submitted" /\ order[r].action = "open" /\ order[r].coin = c
      /\ snapshot[r] # NoRow /\ snapshot[r].size = row[<<"hyperliquid", c>>].size
      /\ Backed(r, snapshot[r].size)

\* No open position is hidden: when every handler that traded a coin reported
\* success and the venue still holds a position there, list_open shows it,
\* also after a close that filled only in part, or not at all.
OpenPositionsAreListed ==
  \A c \in Coins :
    /\ position[c] # 0
    /\ \A r \in Requests : order[r] # NoOrder /\ order[r].coin = c => pc[r] = "submitted"
    => Listed(c)

-----------------------------------------------------------------------------
(* A statement of the repository that the code does not keep.               *)

\* models.py: "Open / closed hedge positions, identified by their venue-native
\* id".  A successful close that leaves the coin flat, with nothing else going
\* on, should not leave it listed as open.
ClosedPositionsAreNotListed ==
  \A c \in Coins :
    /\ position[c] = 0
    /\ \A r \in Requests : pc[r] \in {"idle", "submitted"}
    /\ \E r \in Requests : pc[r] = "submitted" /\ order[r].action = "close" /\ order[r].coin = c
    => ~Listed(c)
=============================================================================
