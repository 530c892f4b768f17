-------------------------- MODULE Exposure_proofs --------------------------
(***************************************************************************)
(* What the ledger promises of any number of overlapping, repeated and     *)
(* failing calls of record_fill, for every set of fills and markets: no    *)
(* fill is counted twice, none without its snapshot, and only a race loses *)
(* one.  And what SPATHA makes of the sums: it hedges no more shares than  *)
(* were traded.                                                            *)
(***************************************************************************)
EXTENDS Exposure, SumTheorems, TLAPS

LedgerTypes ==
    /\ fills \subseteq Fill
    /\ snapshots \subseteq Snapshot
    /\ call \in [Call -> CallState]
    /\ now \in 0..MaxTime

(* The counts n are those of the snapshot b a call for fill f has read.    *)
Read(b, n, f) ==
    \/ b = NoFill /\ n = Nothing
    \/ \E t \in snapshots :
          t.fill = b /\ MarketOf[b] = MarketOf[f] /\ t.counted = n /\ t.ts <= now

(* The counts n are those of snapshot b and one more fill f, at time ts.   *)
Adds(b, n, f, ts) ==
    \/ b = NoFill /\ n = [Nothing EXCEPT ![f] = 1]
    \/ \E t \in snapshots :
          /\ t.fill = b /\ MarketOf[b] = MarketOf[f] /\ t.ts <= ts
          /\ n = [t.counted EXCEPT ![f] = t.counted[f] + 1]

(* An open call works on a fill that is not recorded yet, alone.           *)
CallInv(c) ==
    /\ call[c].pc \in {"insert"} \cup Open => call[c].fill \in Fill
    /\ call[c].pc \in {"idle", "insert", "read"} =>
          call[c].base = NoFill /\ call[c].counted = Nothing
    /\ call[c].pc \in Open => call[c].fill \notin fills
    /\ \A d \in Call :
          /\ call[c].pc \in Open /\ call[d].pc \in Open /\ call[c].fill = call[d].fill
          => c = d
    /\ call[c].pc = "stamp" => Read(call[c].base, call[c].counted, call[c].fill)
    /\ call[c].pc = "commit" =>
          /\ Adds(call[c].base, call[c].counted, call[c].fill, call[c].ts)
          /\ call[c].ts <= now

SnapshotsFollow ==
    \A s \in snapshots : Adds(s.base, s.counted, s.fill, s.ts) /\ s.ts <= now

(* When no calls of a market have raced, its snapshots form one chain: the *)
(* last of them counts every fill, and every other one is a base.          *)
EndsChain(l, m) ==
    /\ \A t \in Of(m) : t.ts <= l.ts
    /\ \A f \in fills : MarketOf[f] = m => l.counted[f] = 1
    /\ \A t \in Of(m) : t = l \/ \E u \in Of(m) : u.base = t.fill

Chained(m) ==
    InTurn(m) /\ Of(m) # {} =>
        /\ \E s \in Of(m) : s.base = NoFill
        /\ \E l \in Of(m) : EndsChain(l, m)

IInv ==
    /\ LedgerTypes
    /\ \A c \in Call : CallInv(c)
    /\ FillAndSnapshotTogether
    /\ NeverOvercounted
    /\ SnapshotsFollow
    /\ \A m \in Market : Chained(m)

-----------------------------------------------------------------------------
LEMMA NothingType == Nothing \in [Fill -> Nat] /\ \A f \in Fill : Nothing[f] = 0
BY DEF Nothing

LEMMA InitInv == Init => IInv
<1> SUFFICES ASSUME Init PROVE IInv
  OBVIOUS
<1>1. LedgerTypes
  BY FillAssumption, NothingType DEF Init, LedgerTypes, Idle, CallState
<1>2. \A c \in Call : CallInv(c)
  BY DEF Init, Idle, CallInv, Open
<1>3. FillAndSnapshotTogether /\ NeverOvercounted /\ SnapshotsFollow
  BY DEF Init, FillAndSnapshotTogether, NeverOvercounted, SnapshotsFollow
<1>4. \A m \in Market : Chained(m)
  BY DEF Init, Chained, Of
<1> QED BY <1>1, <1>2, <1>3, <1>4 DEF IInv

(* A step of one call that commits nothing keeps the invariant.            *)
LEMMA OpenStep ==
  ASSUME IInv, NEW c \in Call, NEW k \in CallState,
         call' = [call EXCEPT ![c] = k], UNCHANGED <<fills, snapshots, now>>,
         k.pc \in {"insert"} \cup Open => k.fill \in Fill,
         k.pc \in {"idle", "insert", "read"} => k.base = NoFill /\ k.counted = Nothing,
         k.pc \in Open => k.fill \notin fills,
         \A d \in Call : k.pc \in Open /\ call[d].pc \in Open /\ k.fill = call[d].fill => c = d,
         k.pc = "stamp" => Read(k.base, k.counted, k.fill),
         k.pc = "commit" => Adds(k.base, k.counted, k.fill, k.ts) /\ k.ts <= now
  PROVE  IInv'
<1>1. call'[c] = k /\ \A d \in Call : d # c => call'[d] = call[d]
  BY DEF IInv, LedgerTypes
<1>2. LedgerTypes'
  BY DEF IInv, LedgerTypes
<1>3. /\ \A b, n, f : Read(b, n, f)' <=> Read(b, n, f)
      /\ \A b, n, f, ts : Adds(b, n, f, ts)' <=> Adds(b, n, f, ts)
  BY DEF Read, Adds
<1>4. CallInv(c)'
  <2>1. ASSUME NEW d \in Call, call'[c].pc \in Open, call'[d].pc \in Open,
               call'[c].fill = call'[d].fill
        PROVE  c = d
    BY <1>1, <2>1
  <2> QED BY <1>1, <1>3, <2>1 DEF CallInv
<1>5. ASSUME NEW e \in Call, e # c
      PROVE  CallInv(e)'
  <2>1. CallInv(e) /\ call'[e] = call[e]
    BY <1>1, <1>5 DEF IInv
  <2>2. ASSUME NEW d \in Call, call'[e].pc \in Open, call'[d].pc \in Open,
               call'[e].fill = call'[d].fill
        PROVE  e = d
    <3>1. CASE d = c
      BY <1>1, <2>1, <2>2, <3>1
    <3>2. CASE d # c
      BY <1>1, <2>1, <2>2, <3>2 DEF CallInv
    <3> QED BY <3>1, <3>2
  <2>3. (call[e].pc = "stamp" => Read(call[e].base, call[e].counted, call[e].fill))'
    BY <1>3, <2>1 DEF CallInv
  <2>4. (call[e].pc = "commit" =>
           /\ Adds(call[e].base, call[e].counted, call[e].fill, call[e].ts)
           /\ call[e].ts <= now)'
    BY <1>3, <2>1 DEF CallInv
  <2> QED BY <2>1, <2>2, <2>3, <2>4 DEF CallInv
<1>6. FillAndSnapshotTogether' /\ NeverOvercounted'
  BY DEF IInv, FillAndSnapshotTogether, NeverOvercounted
<1>7. SnapshotsFollow'
  BY <1>3 DEF IInv, SnapshotsFollow
<1>8. \A m \in Market : Chained(m)'
  BY DEF IInv, Chained, InTurn, EndsChain, Of
<1> QED BY <1>2, <1>4, <1>5, <1>6, <1>7, <1>8 DEF IInv

LEMMA Calls == ASSUME IInv, NEW c \in Call PROVE call[c] \in CallState /\ CallInv(c)
BY DEF IInv, LedgerTypes

LEMMA DeliverKeeps ==
  ASSUME IInv, NEW c \in Call, NEW f \in Fill, Deliver(c, f)
  PROVE  IInv'
<1> DEFINE k == [call[c] EXCEPT !.pc = "insert", !.fill = f]
<1>1. call[c] \in CallState /\ CallInv(c) /\ call[c].pc = "idle"
  BY Calls DEF Deliver
<1>2. k \in CallState
  BY <1>1 DEF CallState
<1>3. k.pc = "insert" /\ k.fill = f /\ k.base = NoFill /\ k.counted = Nothing
  BY <1>1 DEF CallState, CallInv
<1>4. call' = [call EXCEPT ![c] = k] /\ UNCHANGED <<fills, snapshots, now>>
  BY DEF Deliver
<1> HIDE DEF k
<1> QED BY <1>2, <1>3, <1>4, OpenStep DEF Open

LEMMA InsertKeeps ==
  ASSUME IInv, NEW c \in Call, InsertFill(c)
  PROVE  IInv'
<1> DEFINE k == [call[c] EXCEPT !.pc = IF call[c].fill \in fills THEN "done" ELSE "read"]
<1>1. call[c] \in CallState /\ CallInv(c) /\ call[c].pc = "insert"
  BY Calls DEF InsertFill
<1>2. k \in CallState
  BY <1>1 DEF CallState, Open
<1>3. /\ k.pc \in {"done", "read"} /\ k.fill = call[c].fill /\ k.fill \in Fill
      /\ k.base = NoFill /\ k.counted = Nothing /\ (k.pc = "read" => k.fill \notin fills)
  BY <1>1 DEF CallState, CallInv
<1>4. /\ call' = [call EXCEPT ![c] = k] /\ UNCHANGED <<fills, snapshots, now>>
      /\ \A d \in Call : ~(call[d].pc \in Open /\ call[d].fill = call[c].fill)
  BY DEF InsertFill
<1>5. /\ k.pc \in Open => k.fill \notin fills
      /\ k.pc \notin {"stamp", "commit"}
  BY <1>3 DEF Open
<1> HIDE DEF k
<1>6. \A d \in Call :
        k.pc \in Open /\ call[d].pc \in Open /\ k.fill = call[d].fill => c = d
  BY <1>3, <1>4
<1> QED BY <1>2, <1>3, <1>4, <1>5, <1>6, OpenStep

LEMMA ReadKeeps ==
  ASSUME IInv, NEW c \in Call, ReadLatest(c)
  PROVE  IInv'
<1>1. /\ call[c] \in CallState /\ CallInv(c) /\ call[c].pc = "read"
      /\ UNCHANGED <<fills, snapshots, now>>
  BY Calls DEF ReadLatest
<1>2. /\ call[c].fill \in Fill /\ call[c].fill \notin fills
      /\ call[c].base = NoFill /\ call[c].counted = Nothing
  BY <1>1 DEF CallInv, Open
<1>3. \A d \in Call : call[d].pc \in Open /\ call[c].fill = call[d].fill => c = d
  BY <1>1 DEF CallInv, Open
<1>4. CASE call' = [call EXCEPT ![c].pc = "stamp"]
  <2> DEFINE k == [call[c] EXCEPT !.pc = "stamp"]
  <2>1. k \in CallState
    BY <1>1 DEF CallState, Open
  <2>2. k.pc = "stamp" /\ k.fill = call[c].fill /\ k.base = NoFill /\ k.counted = Nothing
    BY <1>1, <1>2 DEF CallState
  <2>3. call' = [call EXCEPT ![c] = k]
    BY <1>4
  <2>4. Read(k.base, k.counted, k.fill)
    BY <2>2 DEF Read
  <2> HIDE DEF k
  <2>5. /\ k.fill \in Fill /\ k.fill \notin fills
        /\ k.pc \notin {"idle", "insert", "read", "commit"}
        /\ \A d \in Call :
             k.pc \in Open /\ call[d].pc \in Open /\ k.fill = call[d].fill => c = d
    BY <1>2, <1>3, <2>2
  <2> QED BY <1>1, <2>1, <2>2, <2>3, <2>4, <2>5, OpenStep
<1>5. CASE \E s \in Latest(MarketOf[call[c].fill]) :
             call' = [call EXCEPT ![c].pc = "stamp", ![c].base = s.fill,
                                  ![c].counted = s.counted]
  <2>1. PICK s \in Latest(MarketOf[call[c].fill]) :
             call' = [call EXCEPT ![c].pc = "stamp", ![c].base = s.fill,
                                  ![c].counted = s.counted]
    BY <1>5
  <2>2. s \in snapshots /\ MarketOf[s.fill] = MarketOf[call[c].fill] /\ s.ts <= now
    BY DEF Latest, Of, IInv, SnapshotsFollow
  <2>3. s \in Snapshot
    BY <2>2 DEF IInv, LedgerTypes
  <2> DEFINE k == [call[c] EXCEPT !.pc = "stamp", !.base = s.fill, !.counted = s.counted]
  <2>4. k \in CallState
    BY <1>1, <2>3 DEF CallState, Open, Snapshot
  <2>5. k.pc = "stamp" /\ k.fill = call[c].fill /\ k.base = s.fill /\ k.counted = s.counted
    BY <1>1 DEF CallState
  <2>6. call' = [call EXCEPT ![c] = k]
    BY <2>1
  <2>7. Read(k.base, k.counted, k.fill)
    BY <2>2, <2>5 DEF Read
  <2> HIDE DEF k
  <2>8. /\ k.fill \in Fill /\ k.fill \notin fills
        /\ k.pc \notin {"idle", "insert", "read", "commit"}
        /\ \A d \in Call :
             k.pc \in Open /\ call[d].pc \in Open /\ k.fill = call[d].fill => c = d
    BY <1>2, <1>3, <2>5
  <2> QED BY <1>1, <2>4, <2>5, <2>6, <2>7, <2>8, OpenStep
<1> QED BY <1>4, <1>5 DEF ReadLatest

LEMMA AppendKeeps ==
  ASSUME IInv, NEW c \in Call, AppendSnapshot(c)
  PROVE  IInv'
<1>1. /\ call[c] \in CallState /\ CallInv(c) /\ call[c].pc = "stamp"
      /\ UNCHANGED <<fills, snapshots, now>>
  BY Calls DEF AppendSnapshot
<1> DEFINE f == call[c].fill
           n == [call[c].counted EXCEPT ![f] = call[c].counted[f] + 1]
           k == [call[c] EXCEPT !.pc = "commit", !.ts = now, !.counted = n]
<1>2. f \in Fill /\ f \notin fills /\ Read(call[c].base, call[c].counted, f)
  BY <1>1 DEF CallInv, Open
<1>3. \A d \in Call : call[d].pc \in Open /\ f = call[d].fill => c = d
  BY <1>1 DEF CallInv, Open
<1>4. call[c].counted \in [Fill -> Nat] /\ now \in 0..MaxTime /\ now <= now
  BY <1>1, FillAssumption DEF CallState, IInv, LedgerTypes
<1>5. n \in [Fill -> Nat]
  <2>1. call[c].counted[f] + 1 \in Nat
    BY <1>2, <1>4
  <2> QED BY <1>4, <2>1
<1>6. Adds(call[c].base, n, f, now)
  <2>1. CASE call[c].base = NoFill /\ call[c].counted = Nothing
    <3>1. n = [Nothing EXCEPT ![f] = 1]
      <4>1. Nothing[f] = 0
        BY <1>2, NothingType
      <4>2. call[c].counted[f] + 1 = 1
        BY <2>1, <4>1
      <4> QED BY <2>1, <4>2
    <3> QED BY <2>1, <3>1 DEF Adds
  <2>2. CASE \E t \in snapshots : /\ t.fill = call[c].base /\ MarketOf[call[c].base] = MarketOf[f]
                                  /\ t.counted = call[c].counted /\ t.ts <= now
    BY <2>2 DEF Adds
  <2> QED BY <1>2, <2>1, <2>2 DEF Read
<1>7. /\ k.pc = "commit" /\ k.fill = f /\ k.base = call[c].base /\ k.counted = n
      /\ k.ts = now
  BY <1>1 DEF CallState
<1>8. k \in CallState
  BY <1>1, <1>4, <1>5 DEF CallState, Open
<1>9. call' = [call EXCEPT ![c] = k]
  BY <1>1 DEF AppendSnapshot, CallState
<1> HIDE DEF k, n, f
<1>10. /\ k.fill \in Fill /\ k.fill \notin fills
       /\ k.pc \notin {"idle", "insert", "read", "stamp"}
       /\ Adds(k.base, k.counted, k.fill, k.ts) /\ k.ts <= now
       /\ \A d \in Call :
            k.pc \in Open /\ call[d].pc \in Open /\ k.fill = call[d].fill => c = d
  BY <1>2, <1>3, <1>4, <1>6, <1>7
<1> QED BY <1>1, <1>8, <1>9, <1>10, OpenStep

LEMMA RollBackKeeps ==
  ASSUME IInv, NEW c \in Call, RollBack(c)
  PROVE  IInv'
<1> DEFINE k == [Idle EXCEPT !.pc = "failed"]
<1>1. k \in CallState
  BY FillAssumption, NothingType DEF Idle, CallState
<1>2. k.pc = "failed" /\ k.pc \notin Open
  BY DEF Idle, Open
<1>3. call' = [call EXCEPT ![c] = k] /\ UNCHANGED <<fills, snapshots, now>>
  BY DEF RollBack
<1> HIDE DEF k
<1> QED BY <1>1, <1>2, <1>3, OpenStep

(* Time and SPATHA leave the ledger alone.                                 *)
LEMMA ClockKeeps ==
  ASSUME IInv, UNCHANGED <<fills, snapshots, call>>, now' \in now..MaxTime
  PROVE  IInv'
<1>1. LedgerTypes' /\ now <= now'
  BY FillAssumption DEF IInv, LedgerTypes
<1>2. \A s \in snapshots : s.ts \in Int
  BY FillAssumption DEF IInv, LedgerTypes, Snapshot
<1>3. \A c \in Call : call[c].ts \in Int
  BY FillAssumption, Calls DEF CallState
<1>4. now \in Int /\ now' \in Int
  BY <1>1, FillAssumption DEF IInv, LedgerTypes
<1>5. /\ \A b, n, f : Read(b, n, f) => Read(b, n, f)'
      /\ \A b, n, f, ts : Adds(b, n, f, ts) => Adds(b, n, f, ts)'
  <2>1. \A b, n, f : Read(b, n, f) => Read(b, n, f)'
    BY <1>1, <1>2, <1>4 DEF Read
  <2>2. \A b, n, f, ts : Adds(b, n, f, ts) => Adds(b, n, f, ts)'
    BY DEF Adds
  <2> QED BY <2>1, <2>2
<1>6. \A c \in Call : CallInv(c)'
  <2> SUFFICES ASSUME NEW c \in Call PROVE CallInv(c)'
    OBVIOUS
  <2>1. CallInv(c)
    BY DEF IInv
  <2>2. (call[c].pc = "stamp" => Read(call[c].base, call[c].counted, call[c].fill))'
    BY <1>5, <2>1 DEF CallInv
  <2>3. (call[c].pc = "commit" =>
           /\ Adds(call[c].base, call[c].counted, call[c].fill, call[c].ts)
           /\ call[c].ts <= now)'
    BY <1>1, <1>3, <1>4, <1>5, <2>1 DEF CallInv
  <2> QED BY <2>1, <2>2, <2>3 DEF CallInv
<1>7. FillAndSnapshotTogether' /\ NeverOvercounted'
  BY DEF IInv, FillAndSnapshotTogether, NeverOvercounted
<1>8. SnapshotsFollow'
  BY <1>1, <1>2, <1>4, <1>5 DEF IInv, SnapshotsFollow
<1>9. \A m \in Market : Chained(m)'
  BY DEF IInv, Chained, InTurn, EndsChain, Of
<1> QED BY <1>1, <1>6, <1>7, <1>8, <1>9 DEF IInv

(* The commit of a call: its fill and its snapshot, at once.               *)
LEMMA CommitStep ==
  ASSUME IInv, NEW c \in Call, NEW k \in CallState, NEW f \in Fill, NEW m \in Market,
         NEW s, k = call[c], f = k.fill, m = MarketOf[f],
         s = [fill |-> k.fill, base |-> k.base, counted |-> k.counted, ts |-> k.ts],
         CommitFill(c)
  PROVE  IInv'
<1>1. /\ k \in CallState /\ CallInv(c) /\ k.pc = "commit"
      /\ fills' = fills \cup {f} /\ snapshots' = snapshots \cup {s}
      /\ call' = [call EXCEPT ![c].pc = "done"] /\ now' = now
  BY Calls DEF CommitFill
<1>2. /\ f \in Fill /\ f \notin fills /\ k.ts <= now
      /\ Adds(k.base, k.counted, f, k.ts)
  BY <1>1 DEF CallInv, Open
<1>3. m \in Market /\ f # NoFill
  BY <1>2, FillAssumption
<1>4. k.base \in Fill \cup {NoFill} /\ k.counted \in [Fill -> Nat] /\ k.ts \in 0..MaxTime
  BY <1>1 DEF CallState
<1>5. s \in Snapshot /\ s.fill = f /\ s.base = k.base /\ s.counted = k.counted /\ s.ts = k.ts
  BY <1>2, <1>4 DEF Snapshot
<1>6. \A t \in snapshots : t.fill \in fills /\ t.fill # f /\ t \in Snapshot
  BY <1>2 DEF IInv, FillAndSnapshotTogether, LedgerTypes
<1>7. LedgerTypes'
  <2>1. call' \in [Call -> CallState]
    <3>1. [k EXCEPT !.pc = "done"] \in CallState
      BY <1>1 DEF CallState, Open
    <3> QED BY <1>1, <3>1 DEF IInv, LedgerTypes
  <2> QED BY <1>1, <1>2, <1>5, <2>1 DEF IInv, LedgerTypes
<1>8. FillAndSnapshotTogether'
  <2>1. fills' = {t.fill : t \in snapshots'}
    BY <1>1, <1>5 DEF IInv, FillAndSnapshotTogether
  <2>2. ASSUME NEW t \in snapshots', NEW u \in snapshots', t.fill = u.fill PROVE t = u
    BY <1>1, <1>5, <1>6, <2>2 DEF IInv, FillAndSnapshotTogether
  <2> QED BY <2>1, <2>2 DEF FillAndSnapshotTogether
<1>9. /\ \A b, n, g : Read(b, n, g) => Read(b, n, g)'
      /\ \A b, n, g, ts : Adds(b, n, g, ts) => Adds(b, n, g, ts)'
  BY <1>1 DEF Read, Adds
<1>10. \A t \in snapshots, g \in Fill :
         /\ t.counted[g] \in Nat
         /\ t.counted[g] > 0 => t.counted[g] = 1 /\ g \in fills /\ MarketOf[g] = MarketOf[t.fill]
  BY <1>6 DEF IInv, NeverOvercounted, Snapshot
<1>11. /\ s.counted[f] = 1
       /\ \A g \in Fill : g # f /\ s.counted[g] > 0 =>
            s.counted[g] = 1 /\ g \in fills /\ MarketOf[g] = m
  <2>1. CASE k.base = NoFill /\ k.counted = [Nothing EXCEPT ![f] = 1]
    BY <1>2, <1>5, <2>1, NothingType
  <2>2. CASE \E t \in snapshots :
               /\ t.fill = k.base /\ MarketOf[k.base] = m /\ t.ts <= k.ts
               /\ k.counted = [t.counted EXCEPT ![f] = t.counted[f] + 1]
    <3>1. PICK t \in snapshots :
               /\ t.fill = k.base /\ MarketOf[k.base] = m
               /\ k.counted = [t.counted EXCEPT ![f] = t.counted[f] + 1]
      BY <2>2
    <3>2. t.counted \in [Fill -> Nat]
      BY <1>6 DEF Snapshot
    <3>3. t.counted[f] = 0
      BY <1>2, <1>10
    <3>4. /\ k.counted[f] = 1
          /\ \A g \in Fill : g # f => k.counted[g] = t.counted[g]
      BY <1>2, <3>1, <3>2, <3>3
    <3> QED BY <1>5, <1>10, <3>1, <3>4
  <2> QED BY <1>2, <2>1, <2>2 DEF Adds
<1>12. NeverOvercounted'
  <2> SUFFICES ASSUME NEW t \in snapshots', NEW g \in Fill, t.counted[g] > 0
               PROVE  t.counted[g] = 1 /\ g \in fills' /\ MarketOf[g] = MarketOf[t.fill]
    BY DEF NeverOvercounted
  <2>1. CASE t = s
    BY <1>1, <1>5, <1>11, <2>1
  <2>2. CASE t \in snapshots
    BY <1>1, <1>10, <2>2
  <2> QED BY <1>1, <2>1, <2>2
<1>13. SnapshotsFollow'
  BY <1>1, <1>2, <1>5, <1>9 DEF IInv, SnapshotsFollow
<1>14. ASSUME NEW d \in Call PROVE CallInv(d)'
  <2>1. /\ CallInv(d)
        /\ \A e \in Call : call'[e] = IF e = c THEN [k EXCEPT !.pc = "done"] ELSE call[e]
    BY <1>1 DEF IInv, LedgerTypes
  <2>2. CASE d = c
    <3>1. call'[d].pc = "done"
      BY <1>1, <2>1, <2>2 DEF CallState
    <3> QED BY <3>1 DEF CallInv, Open
  <2>3. CASE d # c
    <3>1. call'[d] = call[d]
      BY <2>1, <2>3
    <3>2. call[d].pc \in Open => call[d].fill # f
      BY <1>1, <2>1, <2>3 DEF CallInv, Open
    <3>3. ASSUME NEW e \in Call, call'[d].pc \in Open, call'[e].pc \in Open,
                 call'[d].fill = call'[e].fill
          PROVE  d = e
      <4>1. call'[c].pc = "done"
        BY <1>1, <2>1 DEF CallState
      <4>2. e # c
        BY <3>3, <4>1 DEF Open
      <4> QED BY <2>1, <3>1, <3>3, <4>2 DEF CallInv
    <3>4. (call[d].pc = "stamp" => Read(call[d].base, call[d].counted, call[d].fill))'
      BY <1>9, <2>1, <3>1 DEF CallInv
    <3>5. (call[d].pc = "commit" =>
             /\ Adds(call[d].base, call[d].counted, call[d].fill, call[d].ts)
             /\ call[d].ts <= now)'
      BY <1>1, <1>9, <2>1, <3>1 DEF CallInv
    <3>6. call'[d].pc \in Open => call'[d].fill \notin fills'
      <4>1. call[d].pc \in Open => call[d].fill \notin fills
        BY <2>1 DEF CallInv
      <4>2. fills' = fills \cup {f}
        BY <1>1
      <4>3. ASSUME call'[d].pc \in Open PROVE call'[d].fill \notin fills'
        <5>1. call[d].fill \notin fills /\ call[d].fill # f
          BY <3>1, <3>2, <4>1, <4>3
        <5>2. call'[d].fill = call[d].fill
          BY <3>1
        <5> QED BY <4>2, <5>1, <5>2
      <4> QED BY <4>3
    <3> QED BY <2>1, <3>1, <3>3, <3>4, <3>5, <3>6 DEF CallInv
  <2> QED BY <2>2, <2>3
<1>15. ASSUME NEW x \in Market, x # m PROVE Chained(x)'
  <2>1. Of(x)' = Of(x)
    BY <1>1, <1>5, <1>15 DEF Of
  <2>2. \A g \in fills' : MarketOf[g] = x => g \in fills
    BY <1>1, <1>15
  <2> QED BY <2>1, <2>2 DEF IInv, Chained, InTurn, EndsChain
<1>16. Of(m)' = Of(m) \cup {s}
  BY <1>1, <1>5 DEF Of
<1>17. ASSUME InTurn(m)' PROVE Chained(m)'
  <2>1. InTurn(m)
    BY <1>16, <1>17 DEF InTurn
  <2>2. CASE Of(m) = {}
    <3>1. k.base = NoFill
      <4>1. \A t \in snapshots : MarketOf[t.fill] # MarketOf[f]
        BY <2>2 DEF Of
      <4> QED BY <1>2, <4>1 DEF Adds
    <3>2. \A g \in fills : MarketOf[g] # m
      BY <2>2 DEF IInv, FillAndSnapshotTogether, Of
    <3>3. Of(m)' = {s}
      BY <1>16, <2>2
    <3>4. EndsChain(s, m)'
      BY <1>1, <1>4, <1>5, <1>11, <3>2, <3>3 DEF EndsChain
    <3> QED BY <1>5, <3>1, <3>3, <3>4 DEF Chained
  <2>3. CASE Of(m) # {}
    <3>1. PICK first \in Of(m) : first.base = NoFill
      BY <1>3, <2>1, <2>3 DEF IInv, Chained
    <3>2. PICK l \in Of(m) : EndsChain(l, m)
      BY <1>3, <2>1, <2>3 DEF IInv, Chained
    <3>3. s \notin Of(m)
      BY <1>5, <1>6 DEF Of
    <3>4. \A t \in Of(m) : t.base # s.base /\ t.ts # s.ts
      BY <1>16, <1>17, <3>3 DEF InTurn
    <3>5. k.base # NoFill
      BY <1>5, <3>1, <3>4
    <3>6. PICK t \in snapshots :
            /\ t.fill = k.base /\ MarketOf[k.base] = m /\ t.ts <= k.ts
            /\ k.counted = [t.counted EXCEPT ![f] = t.counted[f] + 1]
      BY <1>2, <3>5 DEF Adds
    <3>7. t = l
      <4>1. t \in Of(m)
        BY <3>6 DEF Of
      <4>2. ~\E u \in Of(m) : u.base = t.fill
        BY <1>5, <3>4, <3>6
      <4> QED BY <3>2, <4>1, <4>2 DEF EndsChain
    <3>8. \A u \in Of(m)' : u.ts <= s.ts
      <4>1. \A u \in Of(m) : u.ts <= l.ts /\ u.ts \in Int
        BY <1>6, <3>2, FillAssumption DEF EndsChain, Of, Snapshot
      <4>2. l.ts \in Int /\ l.ts <= s.ts /\ s.ts \in Int
        BY <1>4, <1>5, <3>6, <3>7, <4>1, FillAssumption
      <4> QED BY <1>16, <4>1, <4>2
    <3>9. \A g \in fills' : MarketOf[g] = m => s.counted[g] = 1
      <4> SUFFICES ASSUME NEW g \in fills', MarketOf[g] = m PROVE s.counted[g] = 1
        OBVIOUS
      <4>1. CASE g = f
        BY <1>11, <4>1
      <4>2. CASE g # f
        <5>1. g \in fills /\ g \in Fill
          BY <1>1, <4>2 DEF IInv, LedgerTypes
        <5>2. l.counted[g] = 1
          BY <3>2, <5>1 DEF EndsChain
        <5>3. l.counted \in [Fill -> Nat]
          BY <1>6, <3>6, <3>7 DEF Snapshot
        <5>4. k.counted[g] = l.counted[g]
          BY <3>6, <3>7, <4>2, <5>1, <5>3
        <5> QED BY <1>5, <5>2, <5>4
      <4> QED BY <4>1, <4>2
    <3>10. \A u \in Of(m)' : u = s \/ \E v \in Of(m)' : v.base = u.fill
      <4> SUFFICES ASSUME NEW u \in Of(m)', u # s PROVE \E v \in Of(m)' : v.base = u.fill
        OBVIOUS
      <4>1. u \in Of(m)
        BY <1>16
      <4>2. CASE u = l
        BY <1>5, <1>16, <3>6, <3>7, <4>2
      <4>3. CASE u # l
        BY <1>16, <3>2, <4>1, <4>3 DEF EndsChain
      <4> QED BY <4>2, <4>3
    <3>11. EndsChain(s, m)'
      BY <3>8, <3>9, <3>10 DEF EndsChain
    <3> QED BY <1>16, <3>1, <3>11 DEF Chained
  <2> QED BY <2>2, <2>3
<1>18. \A x \in Market : Chained(x)'
  BY <1>15, <1>17 DEF Chained
<1> QED BY <1>7, <1>8, <1>12, <1>13, <1>14, <1>18 DEF IInv

LEMMA CommitKeeps ==
  ASSUME IInv, NEW c \in Call, CommitFill(c)
  PROVE  IInv'
<1>1. call[c] \in CallState /\ call[c].fill \in Fill
  BY Calls DEF CommitFill, CallInv, Open
<1>2. MarketOf[call[c].fill] \in Market
  BY <1>1, FillAssumption
<1> QED BY <1>1, <1>2, CommitStep

(* Every step keeps the invariant.                                         *)
LEMMA StepInv == IInv /\ [Next]_vars => IInv'
<1> SUFFICES ASSUME IInv, [Next]_vars PROVE IInv'
  OBVIOUS
<1>1. now \in now..MaxTime
  BY FillAssumption DEF IInv, LedgerTypes
<1>2. CASE \E c \in Call : RecordFill(c)
  BY <1>2, DeliverKeeps, InsertKeeps, ReadKeeps, AppendKeeps, CommitKeeps, RollBackKeeps
     DEF RecordFill
<1>3. CASE TimePasses
  <2>1. now' \in now..MaxTime /\ UNCHANGED <<fills, snapshots, call>>
    BY <1>3, FillAssumption DEF TimePasses, IInv, LedgerTypes
  <2> QED BY <2>1, ClockKeeps
<1>4. CASE Spatha
  <2>1. UNCHANGED <<fills, snapshots, call, now>>
    BY <1>4 DEF Spatha, FetchInventory, HedgeMarket, IterationFails
  <2> QED BY <1>1, <2>1, ClockKeeps
<1>5. CASE UNCHANGED vars
  BY <1>1, <1>5, ClockKeeps DEF vars
<1> QED BY <1>2, <1>3, <1>4, <1>5 DEF Next

-----------------------------------------------------------------------------
(* SPATHA.                                                                  *)

(* The shares of a market that a hedge of this side can offset.            *)
Offset(side, m) == SumFunctionOnSet(Size, HedgedBy(side, m))

(* An exposure lies between what was sold and what was bought.             *)
Within(m, x) == 0 - Offset("long", m) <= x /\ x <= Offset("short", m)

SpathaInv ==
    /\ \A i \in inventory : i.market \in Market /\ i.exposure \in Int /\ Within(i.market, i.exposure)
    /\ hedges \subseteq [market: Market, side: {"long", "short"}, shares: Nat, passed: BOOLEAN]
    /\ inventory \subseteq [market: Market, exposure: Int]
    /\ HedgesWereFilled

LEMMA OffsetIsInt ==
  ASSUME IInv, NEW side, NEW m
  PROVE  /\ Offset(side, m) \in Int
         /\ HedgedBy(side, m) \in SUBSET Fill
<1>1. HedgedBy(side, m) \in SUBSET Fill
  BY DEF HedgedBy, IInv, LedgerTypes
<1>2. IsFiniteSet(HedgedBy(side, m)) /\ \A f \in HedgedBy(side, m) : Size[f] \in Int
  BY <1>1, FillAssumption, FS_Subset
<1> QED BY <1>1, <1>2, SumType DEF Offset

(* Recording a fill never lowers what was traded.                          *)
LEMMA OffsetGrows ==
  ASSUME IInv, IInv', fills \subseteq fills', NEW side, NEW m
  PROVE  Offset(side, m) <= Offset(side, m)' /\ Offset(side, m)' \in Int
<1> DEFINE A == HedgedBy(side, m)
           B == HedgedBy(side, m)'
<1>1. A \in SUBSET Fill /\ B \in SUBSET Fill /\ A \subseteq B
  BY DEF HedgedBy, IInv, LedgerTypes
<1>2. \A f \in Fill : Size[f] \in Int /\ 0 <= Size[f] /\ Size[f] <= Size[f]
  BY FillAssumption
<1>3. IsFiniteSet(Fill)
  BY FillAssumption
<1> HIDE DEF A, B
<1>4. SumFunctionOnSet(Size, A) <= SumFunctionOnSet(Size, B)
  BY <1>1, <1>2, <1>3, SumCompares
<1>5. SumFunctionOnSet(Size, B) \in Int
  <2>1. IsFiniteSet(B) /\ \A f \in B : Size[f] \in Int
    BY <1>1, <1>2, <1>3, FS_Subset
  <2> QED BY <2>1, SumType
<1> QED BY <1>4, <1>5 DEF A, B, Offset

(* One side of a snapshot's exposure: each fill it counts is one of the     *)
(* market, counted once.                                                   *)
LEMMA SideOfExposure ==
  ASSUME IInv, NEW s \in snapshots, NEW m, m = MarketOf[s.fill],
         NEW side \in {"long", "short"},
         NEW T, T = IF side = "short" THEN Bought ELSE Fill \ Bought
  PROVE  /\ SumFunctionOnSet(Shares(s), T) \in Int
         /\ 0 <= SumFunctionOnSet(Shares(s), T)
         /\ SumFunctionOnSet(Shares(s), T) <= Offset(side, m)
<1> DEFINE B == HedgedBy(side, m)
           g == Shares(s)
<1>1. T \in SUBSET Fill /\ B \in SUBSET Fill /\ IsFiniteSet(Fill) /\ IsFiniteSet(T)
  BY FillAssumption, OffsetIsInt, FS_Subset
<1>2. s.counted \in [Fill -> Nat]
  BY DEF IInv, LedgerTypes, Snapshot
<1>3. ASSUME NEW f \in Fill
      PROVE  /\ g[f] \in Int /\ 0 <= g[f] /\ Size[f] \in Int /\ 0 <= Size[f]
             /\ g[f] # 0 => f \in fills /\ MarketOf[f] = m /\ g[f] = Size[f]
  <2>1. s.counted[f] \in Nat /\ Size[f] \in Nat
    BY <1>2, FillAssumption
  <2>2. g[f] = s.counted[f] * Size[f]
    BY DEF Shares
  <2>3. CASE s.counted[f] = 0
    BY <2>1, <2>2, <2>3
  <2>4. CASE s.counted[f] # 0
    <3>1. s.counted[f] > 0
      BY <2>1, <2>4
    <3>2. s.counted[f] = 1 /\ f \in fills /\ MarketOf[f] = m
      BY <3>1 DEF IInv, NeverOvercounted
    <3> QED BY <2>1, <2>2, <3>2
  <2> QED BY <2>3, <2>4
<1> HIDE DEF g
<1>4. ASSUME NEW f \in T, f \notin B PROVE g[f] = 0
  <2>1. f \in fills /\ MarketOf[f] = m => f \in B
    BY <1>1, <1>4 DEF HedgedBy
  <2> QED BY <1>1, <1>3, <1>4, <2>1
<1>5. \A f \in T \cap B : g[f] <= Size[f]
  <2> SUFFICES ASSUME NEW f \in T \cap B PROVE g[f] <= Size[f]
    OBVIOUS
  <2> QED BY <1>1, <1>3
<1>6. SumFunctionOnSet(g, T) <= SumFunctionOnSet(Size, B)
  <2>1. /\ \A f \in T : g[f] \in Int
        /\ \A f \in B : Size[f] \in Int
        /\ \A f \in T \ B : g[f] <= 0
        /\ \A f \in B \ T : 0 <= Size[f]
    BY <1>1, <1>3, <1>4
  <2> HIDE DEF B
  <2> QED BY <1>1, <1>5, <2>1, SumCompares
<1>7. SumFunctionOnSet(g, T) \in Int
  BY <1>1, <1>3, SumType
<1>8. 0 <= SumFunctionOnSet(g, T)
  <2>1. {} \in SUBSET Fill /\ {} \cap T = {} /\ {} \ T = {} /\ T \ {} = T
    OBVIOUS
  <2>2. SumFunctionOnSet(g, {}) <= SumFunctionOnSet(g, T)
    BY <1>1, <1>3, <2>1, SumCompares
  <2>3. SumFunctionOnSet(g, {}) = 0
    BY FS_EmptySet, SumUnfolds
  <2> QED BY <2>2, <2>3
<1> QED BY <1>6, <1>7, <1>8 DEF g, B, Offset

LEMMA SnapshotWithin ==
  ASSUME IInv, NEW s \in snapshots
  PROVE  NetExposure(s) \in Int /\ Within(MarketOf[s.fill], NetExposure(s))
<1> DEFINE m == MarketOf[s.fill]
           b == SumFunctionOnSet(Shares(s), Bought)
           d == SumFunctionOnSet(Shares(s), Fill \ Bought)
<1>1. b \in Int /\ 0 <= b /\ b <= Offset("short", m)
  BY SideOfExposure
<1>2. d \in Int /\ 0 <= d /\ d <= Offset("long", m)
  BY SideOfExposure
<1>3. Offset("short", m) \in Int /\ Offset("long", m) \in Int
  BY OffsetIsInt
<1>4. NetExposure(s) = b - d
  BY DEF NetExposure
<1> HIDE DEF b, d, m
<1>5. NetExposure(s) \in Int /\ Within(m, NetExposure(s))
  BY <1>1, <1>2, <1>3, <1>4 DEF Within
<1> QED BY <1>5 DEF m

(* The gate's notional is quadratic in the shares SPATHA proposes.         *)
LEMMA NotionalCap ==
  ASSUME NEW n \in Nat, n * n * 2 <= 10000000
  PROVE  n <= 2236
<1> SUFFICES ASSUME n > 2236 PROVE FALSE
  OBVIOUS
<1>1. n >= 2237
  OBVIOUS
<1>2. n * n >= 2237 * n
  BY <1>1
<1>3. n * n >= 2237 * 2237
  BY <1>1, <1>2
<1> QED BY <1>3

LEMMA SpathaInit == Init => SpathaInv
BY DEF Init, SpathaInv, HedgesWereFilled

(* What was fetched, built or sent stays covered while fills are recorded. *)
LEMMA LedgerKeepsSpatha ==
  ASSUME IInv, IInv', SpathaInv, fills \subseteq fills',
         inventory' \subseteq inventory, hedges' = hedges
  PROVE  SpathaInv'
<1>1. /\ \A m : Offset("long", m) <= Offset("long", m)' /\ Offset("long", m)' \in Int
      /\ \A m : Offset("short", m) <= Offset("short", m)' /\ Offset("short", m)' \in Int
      /\ \A m : Offset("long", m) \in Int /\ Offset("short", m) \in Int
  BY OffsetGrows, OffsetIsInt
<1>2. ASSUME NEW i \in inventory' PROVE i.market \in Market /\ i.exposure \in Int /\ Within(i.market, i.exposure)'
  <2>1. i.market \in Market /\ i.exposure \in Int /\ Within(i.market, i.exposure)
    BY DEF SpathaInv
  <2>2. Within(i.market, i.exposure)'
    BY <1>1, <2>1 DEF Within
  <2> QED BY <2>1, <2>2
<1>3. HedgesWereFilled'
  <2> SUFFICES ASSUME NEW h \in hedges
               PROVE  /\ h.shares <= Offset(h.side, h.market)'
                      /\ h.passed => h.shares <= 2236
    BY DEF HedgesWereFilled, Offset
  <2>1. /\ h.side \in {"long", "short"} /\ h.shares \in Nat
        /\ h.shares <= Offset(h.side, h.market) /\ (h.passed => h.shares <= 2236)
    BY DEF SpathaInv, HedgesWereFilled, Offset
  <2>2. /\ Offset(h.side, h.market) <= Offset(h.side, h.market)'
        /\ Offset(h.side, h.market) \in Int /\ Offset(h.side, h.market)' \in Int
    BY <1>1, <2>1
  <2> QED BY <2>1, <2>2
<1> QED BY <1>2, <1>3 DEF SpathaInv

LEMMA RecordKeepsSpatha ==
  ASSUME IInv, IInv', SpathaInv,
         (\E c \in Call : RecordFill(c)) \/ TimePasses \/ IterationFails \/ UNCHANGED vars
  PROVE  SpathaInv'
<1>1. fills \subseteq fills' /\ inventory' \subseteq inventory /\ hedges' = hedges
  BY DEF RecordFill, Deliver, InsertFill, ReadLatest, AppendSnapshot, CommitFill, RollBack,
         TimePasses, IterationFails, vars
<1> QED BY <1>1, LedgerKeepsSpatha

(* Every fetched exposure is one snapshot's, of that market.               *)
LEMMA FetchKeeps ==
  ASSUME IInv, SpathaInv, FetchInventory
  PROVE  SpathaInv'
<1>1. PICK latest \in [{m \in Market : Of(m) # {}} -> snapshots] :
        /\ \A m \in DOMAIN latest : latest[m] \in Latest(m)
        /\ inventory' = {[market |-> m, exposure |-> NetExposure(latest[m])] : m \in DOMAIN latest}
  BY DEF FetchInventory
<1>2. UNCHANGED <<fills, hedges>>
  BY DEF FetchInventory
<1>3. ASSUME NEW m \in DOMAIN latest
      PROVE  m \in Market /\ NetExposure(latest[m]) \in Int /\ Within(m, NetExposure(latest[m]))
  <2>1. m \in Market /\ latest[m] \in snapshots /\ MarketOf[latest[m].fill] = m
    BY <1>1 DEF Latest, Of
  <2> QED BY <2>1, SnapshotWithin
<1>4. ASSUME NEW i \in inventory'
      PROVE  /\ i.market \in Market /\ i.exposure \in Int /\ Within(i.market, i.exposure)
             /\ i \in [market: Market, exposure: Int]
  <2>1. PICK m \in DOMAIN latest : i = [market |-> m, exposure |-> NetExposure(latest[m])]
    BY <1>1
  <2> QED BY <1>3, <2>1
<1>5. \A m, x : Within(m, x)' <=> Within(m, x)
  BY <1>2 DEF Within, Offset, HedgedBy
<1>6. HedgesWereFilled'
  BY <1>2 DEF SpathaInv, HedgesWereFilled, HedgedBy
<1> QED BY <1>2, <1>4, <1>5, <1>6 DEF SpathaInv

(* A hedge is for the whole exposure, against its sign.                    *)
LEMMA HedgeIsCovered ==
  ASSUME IInv, SpathaInv, NEW i \in inventory, NEW h \in BuildHedge(i)
  PROVE  /\ h.market \in Market /\ h.side \in {"long", "short"} /\ h.shares \in Nat
         /\ h.shares <= Offset(h.side, h.market)
<1>1. /\ h.market = i.market /\ h.shares = Magnitude(i.exposure)
      /\ h.side = IF i.exposure > 0 THEN "short" ELSE "long"
  BY DEF BuildHedge
<1>2. i.market \in Market /\ i.exposure \in Int /\ Within(i.market, i.exposure)
  BY DEF SpathaInv
<1>3. Offset("short", i.market) \in Int /\ Offset("long", i.market) \in Int
  BY OffsetIsInt
<1>4. CASE i.exposure > 0
  BY <1>1, <1>2, <1>3, <1>4 DEF Within, Magnitude
<1>5. CASE ~(i.exposure > 0)
  BY <1>1, <1>2, <1>3, <1>5 DEF Within, Magnitude
<1> QED BY <1>4, <1>5

LEMMA HedgeKeeps ==
  ASSUME IInv, SpathaInv, NEW i \in inventory, HedgeMarket(i)
  PROVE  SpathaInv'
<1>1. PICK age \in {0, MIN_TIMESTAMP_FRESHNESS_MS} :
        hedges' = hedges \cup
            {[market |-> h.market, side |-> h.side, shares |-> h.shares,
              passed |-> HedgePasses(h.shares, h.shares, 2, age)] : h \in BuildHedge(i)}
  BY DEF HedgeMarket
<1>2. fills' = fills /\ inventory' \subseteq inventory
  BY DEF HedgeMarket
<1>3. ASSUME NEW k \in hedges', k \notin hedges
      PROVE  /\ k \in [market: Market, side: {"long", "short"}, shares: Nat, passed: BOOLEAN]
             /\ k.shares <= Offset(k.side, k.market)
             /\ k.passed => k.shares <= 2236
  <2>1. PICK h \in BuildHedge(i) :
          k = [market |-> h.market, side |-> h.side, shares |-> h.shares,
               passed |-> HedgePasses(h.shares, h.shares, 2, age)]
    BY <1>1, <1>3
  <2>2. /\ h.market \in Market /\ h.side \in {"long", "short"} /\ h.shares \in Nat
        /\ h.shares <= Offset(h.side, h.market)
    BY HedgeIsCovered
  <2>3. k.passed \in BOOLEAN
    BY <2>1 DEF HedgePasses
  <2>4. k.passed => h.shares <= 2236
    <3>1. k.passed => h.shares * h.shares * 2 <= 10000000
      BY <2>1 DEF HedgePasses, MAX_HEDGE_NOTIONAL_USDC
    <3> QED BY <2>2, <3>1, NotionalCap
  <2> QED BY <2>1, <2>2, <2>3, <2>4
<1>4. \A m, x, side : (Within(m, x)' <=> Within(m, x)) /\ Offset(side, m)' = Offset(side, m)
  BY <1>2 DEF Within, Offset, HedgedBy
<1>5. HedgesWereFilled'
  <2> SUFFICES ASSUME NEW k \in hedges'
               PROVE  k.shares <= Offset(k.side, k.market) /\ (k.passed => k.shares <= 2236)
    BY <1>4 DEF HedgesWereFilled, Offset
  <2>1. CASE k \in hedges
    BY <2>1 DEF SpathaInv, HedgesWereFilled, Offset
  <2> QED BY <1>3, <2>1
<1>6. hedges' \subseteq [market: Market, side: {"long", "short"}, shares: Nat, passed: BOOLEAN]
  BY <1>3 DEF SpathaInv
<1> QED BY <1>2, <1>4, <1>5, <1>6 DEF SpathaInv

LEMMA SpathaStep == IInv /\ IInv' /\ SpathaInv /\ [Next]_vars => SpathaInv'
BY FetchKeeps, HedgeKeeps, RecordKeepsSpatha DEF Next, Spatha

-----------------------------------------------------------------------------
(* The invariant that follows a call of record_fill from statement to      *)
(* statement, and the snapshots of a market from one to the next.          *)
THEOREM InvariantHolds == Spec => []IInv
BY InitInv, StepInv, PTL DEF Spec

(* A fill and the snapshot derived from it are there together or not at    *)
(* all, one snapshot per fill.                                             *)
THEOREM Together == Spec => []FillAndSnapshotTogether
<1>1. IInv => FillAndSnapshotTogether
  BY DEF IInv
<1> QED BY <1>1, InvariantHolds, PTL

(* No snapshot counts a fill twice, one that is not recorded or one of     *)
(* another market, however often record_fill is called for it.             *)
THEOREM NoneCountedTwice == Spec => []NeverOvercounted
<1>1. IInv => NeverOvercounted
  BY DEF IInv
<1> QED BY <1>1, InvariantHolds, PTL

(* When no two calls of a market overlapped and none fell into one         *)
(* millisecond, its latest snapshot counts every recorded fill.            *)
THEOREM OnlyRacesLoseFills == Spec => []ExactUnlessRaced
<1>1. IInv => ExactUnlessRaced
  <2> SUFFICES ASSUME IInv, NEW m \in Market, InTurn(m), NEW s \in Latest(m),
                      NEW f \in fills, MarketOf[f] = m
               PROVE  s.counted[f] = 1
    BY DEF ExactUnlessRaced
  <2>1. s \in Of(m) /\ \A t \in Of(m) : t.ts <= s.ts
    BY DEF Latest
  <2>2. PICK l \in Of(m) : EndsChain(l, m)
    BY <2>1 DEF IInv, Chained
  <2>3. s.ts = l.ts
    <3>1. s.ts \in Int /\ l.ts \in Int
      BY <2>1, <2>2, FillAssumption DEF IInv, LedgerTypes, Of, Snapshot
    <3> QED BY <2>1, <2>2, <3>1 DEF EndsChain
  <2>4. s = l
    BY <2>1, <2>2, <2>3 DEF InTurn
  <2> QED BY <2>2, <2>4 DEF EndsChain
<1> QED BY <1>1, InvariantHolds, PTL

(* The types of the ledger's and of SPATHA's state, and what SPATHA has    *)
(* fetched lies between what was sold and what was bought.                 *)
THEOREM SpathaInvariantHolds == Spec => []SpathaInv
<1>1. Init => SpathaInv
  BY SpathaInit
<1>2. IInv /\ IInv' /\ SpathaInv /\ [Next]_vars => SpathaInv'
  BY SpathaStep
<1> QED BY <1>1, <1>2, InvariantHolds, PTL DEF Spec

(* Types; every hedge is for a non-negative number of shares.              *)
THEOREM TypeCorrect == Spec => []TypeOK
<1>1. IInv /\ SpathaInv => TypeOK
  BY DEF IInv, LedgerTypes, SpathaInv, TypeOK
<1> QED BY <1>1, InvariantHolds, SpathaInvariantHolds, PTL

(* SPATHA never hedges more shares of a side than have been traded, and    *)
(* the gate never passes a hedge of more than 2236 shares.                 *)
THEOREM HedgesAreCovered == Spec => []HedgesWereFilled
<1>1. SpathaInv => HedgesWereFilled
  BY DEF SpathaInv
<1> QED BY <1>1, SpathaInvariantHolds, PTL
=============================================================================
