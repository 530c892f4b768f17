------------------------------ MODULE Exposure ------------------------------
(***************************************************************************)
(* The fill ledger and the inventory derived from it (StateStore of        *)
(* orchestrator/app/state.py over the repositories of                      *)
(* repositories/sqlalchemy.py), and SPATHA, which hedges the exposure the  *)
(* latest snapshots state (agents/spatha/main.py).                         *)
(*                                                                         *)
(* record_fill is one database transaction of three statements - insert    *)
(* the fill unless its (tx_hash, log_index) is known, read the market's    *)
(* latest snapshot, append the next one - and any number of calls overlap, *)
(* for fills that are delivered again or retried after an error.  The      *)
(* isolation is PostgreSQL's default: a statement sees what is committed   *)
(* when it runs, and an insert waits for an open transaction that has      *)
(* inserted the same key.                                                  *)
(*                                                                         *)
(* long_size, short_size and net_exposure are sums of fill sizes, each     *)
(* addition one fill's; a snapshot is modelled by how often each fill has  *)
(* been added (counted), and the sums are taken where they matter.         *)
(***************************************************************************)
EXTENDS RiskGate, FiniteSets, FiniteSetsExt

CONSTANTS
    Market,      \* market ids
    Fill,        \* fills, by (tx_hash, log_index)
    MarketOf,    \* MarketOf[f]: the market of a fill
    Bought,      \* the fills whose side is BUY
    Size,        \* Size[f]: how many shares changed hands
    Call,        \* the calls of record_fill
    Threshold,   \* hedge_inventory_threshold
    MaxTime,     \* bound of the clock, in ms
    NoFill       \* stands for the snapshot a market has before its first fill

ASSUME FillAssumption ==
    /\ MarketOf \in [Fill -> Market]
    /\ Bought \subseteq Fill
    /\ Size \in [Fill -> Nat]
    /\ NoFill \notin Fill
    /\ IsFiniteSet(Fill)
    /\ MaxTime \in Nat
    /\ Threshold \in Nat

VARIABLES
    fills,       \* committed rows of fills
    snapshots,   \* committed rows of inventory_snapshots
    call,        \* call[c]: an execution of record_fill
    now,         \* int(time.time() * 1000)
    inventory,   \* what SPATHA has fetched and not looked at yet
    hedges       \* the hedges SPATHA has sent

vars == <<fills, snapshots, call, now, inventory, hedges>>

-----------------------------------------------------------------------------
Nothing == [f \in Fill |-> 0]

(* A row of inventory_snapshots.  Its id is the fill it was appended for:  *)
(* record_fill appends one row per row of fills.  base is the row it was   *)
(* derived from; the code keeps only the sums.                             *)
Snapshot == [fill: Fill, base: Fill \cup {NoFill}, counted: [Fill -> Nat], ts: 0..MaxTime]

Of(m) == {s \in snapshots : MarketOf[s.fill] = m}

(* Mutant: the oldest row comes first.                                     *)
LatestAscending(m) == {s \in Of(m) : \A t \in Of(m) : s.ts <= t.ts}

(* get_latest and list_latest_all order by snapshot_ts_ms alone: any of    *)
(* the rows of the last millisecond may come first.                        *)
Latest(m) == {s \in Of(m) : \A t \in Of(m) : t.ts <= s.ts}

(* What each fill contributes to the sums of a snapshot.                   *)
Shares(s) == [f \in Fill |-> s.counted[f] * Size[f]]
NetExposure(s) ==
    SumFunctionOnSet(Shares(s), Bought) - SumFunctionOnSet(Shares(s), Fill \ Bought)

Idle == [pc |-> "idle", fill |-> NoFill, base |-> NoFill, counted |-> Nothing, ts |-> 0]

Init ==
    /\ fills = {}
    /\ snapshots = {}
    /\ call = [c \in Call |-> Idle]
    /\ now = 0
    /\ inventory = {}
    /\ hedges = {}

-----------------------------------------------------------------------------
(* record_fill is called: for a new fill, or again for one whose earlier   *)
(* call failed, is still running or has succeeded.                         *)
Deliver(c, f) ==
    /\ call[c].pc = "idle"
    /\ call' = [call EXCEPT ![c].pc = "insert", ![c].fill = f]
    /\ UNCHANGED <<fills, snapshots, now, inventory, hedges>>

Open == {"read", "stamp", "commit"}

(* Mutant: the insert does not ask whether the fill is known.              *)
InsertFillAgain(c) ==
    /\ call[c].pc = "insert"
    /\ call' = [call EXCEPT ![c].pc = "read"]
    /\ UNCHANGED <<fills, snapshots, now, inventory, hedges>>

(* INSERT ... ON CONFLICT DO NOTHING: it waits while another transaction   *)
(* holds the same key, and ends the call when the fill is known.           *)
InsertFill(c) ==
    /\ call[c].pc = "insert"
    /\ ~\E d \in Call : call[d].pc \in Open /\ call[d].fill = call[c].fill
    /\ call' = [call EXCEPT ![c].pc = IF call[c].fill \in fills THEN "done" ELSE "read"]
    /\ UNCHANGED <<fills, snapshots, now, inventory, hedges>>

(* Mutant: the fill is committed before the snapshot is derived from it.   *)
ReadLatestCommitted(c) ==
    LET m == MarketOf[call[c].fill] IN
    /\ call[c].pc = "read"
    /\ fills' = fills \cup {call[c].fill}
    /\ \/ /\ Of(m) = {}
          /\ call' = [call EXCEPT ![c].pc = "stamp"]
       \/ \E s \in Latest(m) :
             call' = [call EXCEPT ![c].pc = "stamp", ![c].base = s.fill,
                                  ![c].counted = s.counted]
    /\ UNCHANGED <<snapshots, now, inventory, hedges>>

ReadLatest(c) ==
    LET m == MarketOf[call[c].fill] IN
    /\ call[c].pc = "read"
    /\ \/ /\ Of(m) = {}
          /\ call' = [call EXCEPT ![c].pc = "stamp"]
       \/ \E s \in Latest(m) :
             call' = [call EXCEPT ![c].pc = "stamp", ![c].base = s.fill,
                                  ![c].counted = s.counted]
    /\ UNCHANGED <<fills, snapshots, now, inventory, hedges>>

(* The new snapshot is built and flushed: the fill's size is added to the  *)
(* sums that were read, and the clock is read once more.                   *)
AppendSnapshot(c) ==
    /\ call[c].pc = "stamp"
    /\ call' = [call EXCEPT ![c].pc = "commit", ![c].ts = now,
                            ![c].counted[call[c].fill] = @ + 1]
    /\ UNCHANGED <<fills, snapshots, now, inventory, hedges>>

CommitFill(c) ==
    LET k == call[c] IN
    /\ k.pc = "commit"
    /\ fills' = fills \cup {k.fill}
    /\ snapshots' = snapshots \cup
         {[fill |-> k.fill, base |-> k.base, counted |-> k.counted, ts |-> k.ts]}
    /\ call' = [call EXCEPT ![c].pc = "done"]
    /\ UNCHANGED <<now, inventory, hedges>>

(* An exception, a lost connection or the death of the orchestrator rolls  *)
(* the transaction back.                                                   *)
RollBack(c) ==
    /\ call[c].pc \in {"insert"} \cup Open
    /\ call' = [call EXCEPT ![c] = [Idle EXCEPT !.pc = "failed"]]
    /\ UNCHANGED <<fills, snapshots, now, inventory, hedges>>

TimePasses ==
    /\ now < MaxTime
    /\ now' = now + 1
    /\ UNCHANGED <<fills, snapshots, call, inventory, hedges>>

-----------------------------------------------------------------------------
(* One query returns the latest snapshot of every market.  SPATHA looks at *)
(* them one by one, and waits for an answer of up to 10 s between two.     *)
FetchInventory ==
    /\ inventory = {}
    /\ \E latest \in [{m \in Market : Of(m) # {}} -> snapshots] :
          /\ \A m \in DOMAIN latest : latest[m] \in Latest(m)
          /\ inventory' = {[market |-> m, exposure |-> NetExposure(latest[m])]
                              : m \in DOMAIN latest}
    /\ UNCHANGED <<fills, snapshots, call, now, hedges>>

Magnitude(x) == IF x < 0 THEN 0 - x ELSE x

(* Mutant: the size keeps the sign of the exposure.                        *)
BuildHedgeSigned(i) ==
    IF Magnitude(i.exposure) < Threshold THEN {}
    ELSE {[market |-> i.market,
           side   |-> IF i.exposure > 0 THEN "short" ELSE "long",
           shares |-> i.exposure]}

(* Mutant: a hedge in the direction of the exposure.                       *)
BuildHedgeSameSide(i) ==
    IF Magnitude(i.exposure) < Threshold THEN {}
    ELSE {[market |-> i.market,
           side   |-> IF i.exposure > 0 THEN "long" ELSE "short",
           shares |-> Magnitude(i.exposure)]}

(* The hedge is for the whole exposure: a thousandth of it in contracts,   *)
(* half of it in margin, at a leverage of two.  What SPATHA has hedged     *)
(* already is not asked.                                                   *)
BuildHedge(i) ==
    IF Magnitude(i.exposure) < Threshold THEN {}
    ELSE {[market |-> i.market,
           side   |-> IF i.exposure > 0 THEN "short" ELSE "long",
           shares |-> Magnitude(i.exposure)]}

(* The hedge is posted, and the gate passes it or not; a decision that is  *)
(* a minute on its way is stale.                                           *)
HedgeMarket(i) ==
    /\ \E age \in {0, MIN_TIMESTAMP_FRESHNESS_MS} :
          hedges' = hedges \cup
              {[market |-> h.market, side |-> h.side, shares |-> h.shares,
                passed |-> HedgePasses(h.shares, h.shares, 2, age)] : h \in BuildHedge(i)}
    /\ inventory' = inventory \ {i}
    /\ UNCHANGED <<fills, snapshots, call, now>>

(* An exception ends the iteration; so does a restart of the agent.        *)
IterationFails ==
    /\ inventory # {}
    /\ inventory' = {}
    /\ UNCHANGED <<fills, snapshots, call, now, hedges>>

RecordFill(c) ==
    \/ \E f \in Fill : Deliver(c, f)
    \/ InsertFill(c) \/ ReadLatest(c) \/ AppendSnapshot(c) \/ CommitFill(c) \/ RollBack(c)

Spatha ==
    \/ FetchInventory
    \/ \E i \in inventory : HedgeMarket(i)
    \/ IterationFails

Next == (\E c \in Call : RecordFill(c)) \/ TimePasses \/ Spatha

Spec == Init /\ [][Next]_vars

-----------------------------------------------------------------------------
CallState ==
    [pc: {"idle", "insert", "done", "failed"} \cup Open, fill: Fill \cup {NoFill},
     base: Fill \cup {NoFill}, counted: [Fill -> Nat], ts: 0..MaxTime]

(* The types of the variables.                                             *)
TypeOK ==
    /\ fills \subseteq Fill
    /\ snapshots \subseteq Snapshot
    /\ call \in [Call -> CallState]
    /\ now \in 0..MaxTime
    /\ inventory \subseteq [market: Market, exposure: Int]
    /\ hedges \subseteq [market: Market, side: {"long", "short"}, shares: Nat,
                           passed: BOOLEAN]

(* A recorded fill and the snapshot derived from it are there together or  *)
(* not at all, one snapshot per fill, whatever fails between the three     *)
(* statements and however often a fill is delivered (record_fill commits   *)
(* once, at its end).                                                      *)
FillAndSnapshotTogether ==
    /\ fills = {s.fill : s \in snapshots}
    /\ \A s, t \in snapshots : s.fill = t.fill => s = t

(* No snapshot counts a fill twice, or one that is not recorded or is      *)
(* another market's: redelivery and retries never inflate an exposure.     *)
NeverOvercounted ==
    \A s \in snapshots : \A f \in Fill :
        s.counted[f] > 0 =>
            s.counted[f] = 1 /\ f \in fills /\ MarketOf[f] = MarketOf[s.fill]

(* Snapshots of a market were derived one from the other, in different     *)
(* milliseconds: no two calls of the market overlapped between their read  *)
(* and their commit.                                                       *)
InTurn(m) ==
    \A s, t \in Of(m) : s # t => s.base # t.base /\ s.ts # t.ts

(* Only calls that overlap, or fall into one millisecond, can lose a fill: *)
(* otherwise the latest snapshot counts every recorded fill of its market. *)
ExactUnlessRaced ==
    \A m \in Market : InTurn(m) =>
        \A s \in Latest(m) : \A f \in fills :
            MarketOf[f] = m => s.counted[f] = 1

(* The fills a hedge of this side offsets.                                 *)
HedgedBy(side, m) == {f \in fills : MarketOf[f] = m /\ (f \in Bought <=> side = "short")}

(* SPATHA never hedges more shares than have been traded: a hedge short is *)
(* for at most what was bought in its market, a hedge long for at most     *)
(* what was sold, however late it is built on the snapshot it was fetched  *)
(* from and however often the fills were delivered.  The gate's notional   *)
(* grows with the square of the exposure, and SPATHA proposes all of it:   *)
(* more than 2236 shares are refused at every tick and stay open.          *)
HedgesWereFilled ==
    \A h \in hedges :
        /\ h.shares <= SumFunctionOnSet(Size, HedgedBy(h.side, h.market))
        /\ h.passed => h.shares <= 2236
=============================================================================
