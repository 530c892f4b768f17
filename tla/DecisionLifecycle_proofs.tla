---------------------- MODULE DecisionLifecycle_proofs ----------------------
(***************************************************************************)
(* Invariants of the decision lifecycle, the audit of its commits, and its *)
(* implementation of AnchoredExecution, for every set of requests, roles   *)
(* and nonces, every number of restarts, crashes and forgotten nonces, and *)
(* exceptions raised anywhere.                                             *)
(***************************************************************************)
EXTENDS TraceAudit, TLAPS

-----------------------------------------------------------------------------
(* The inductive invariant.                                                 *)

\* Where a request's handler stands, and what has become of the request at
\* Circle, at a venue and in the tables, constrain each other.
Untouched == {"idle", "claim", "reject", "replayed", "rejected"}
Confirmed == {"trace", "execute", "await", "store", "submitted"}
Executed == {"store", "submitted"}

Control(r) ==
  /\ pc[r] # "idle" => decision[r] \in Decision
  /\ pc[r] \in Untouched => r \notin pinned
  /\ pc[r] \in Untouched \cup {"build", "submit"} => tx[r] = "none"
  /\ pc[r] \in {"submit", "poll"} \cup Confirmed => r \in pinned
  /\ tx[r] # "none" => r \in pinned
  /\ pc[r] \in Confirmed => tx[r] = "landed"
  /\ venue[r] # "none" => tx[r] = "landed"
  /\ pc[r] \in Untouched \cup {"build", "submit", "poll", "trace", "execute"} => venue[r] = "none"
  /\ pc[r] = "await" => ~decision[r].noop
  /\ pc[r] \in Executed /\ ~decision[r].noop =>
       venue[r] = "acted" /\ (decision[r].role \in RecordingRoles => r \in actionRows)
  /\ r \in actionRows => venue[r] = "acted"
  /\ decisionRow[r] = "rejected" => pc[r] = "rejected"
  /\ decisionRow[r] = "approved" => pc[r] = "submitted"

ControlInv == \A r \in Requests : Control(r)

\* A landed transaction put the request's own body into the log.
LandedIsAnchored == \A r \in Requests : tx[r] = "landed" => Anchored(r)

\* A trace row belongs to a request whose transaction landed, ...
RowsAreLanded ==
  \A k \in Keys : traceRow[k] # NoRequest =>
    tx[traceRow[k]] = "landed" /\ Key(traceRow[k]) = k

\* ... and is there from store_trace on.
RowIsWritten ==
  \A r \in Requests : pc[r] \in Confirmed \ {"trace"} => traceRow[Key(r)] = r

\* A request past the nonce check holds its nonce, alone, until Redis forgets.
Admitted(r) == pc[r] \in {"reject", "build"} \/ r \in pinned \/ decisionRow[r] # "none"
NonceOf(r) == <<decision[r].role, decision[r].nonce>>
NoncesHeld ==
  flushes = 0 =>
    \A r \in Requests : Admitted(r) =>
      /\ NonceOf(r) \in claimed
      /\ \A s \in Requests : Admitted(s) /\ NonceOf(s) = NonceOf(r) => s = r

IInv ==
  /\ TypeOK
  /\ ControlInv
  /\ LandedIsAnchored
  /\ RowsAreLanded
  /\ RowIsWritten
  /\ NoncesHeld

-----------------------------------------------------------------------------
(* The chain.                                                               *)

\* What every step does to the registry: nothing, or one commit of a decision
\* that had none, by the request whose transaction lands.
ChainGrows ==
  \A k \in Keys : byAgentDecision[k] # 0 =>
    /\ byAgentDecision'[k] = byAgentDecision[k]
    /\ commits'[byAgentDecision[k]] = commits[byAgentDecision[k]]

\* A landing transaction extends the log by one commit of its own decision.
LEMMA Landing ==
  ASSUME Registry!TypeOK, NEW r \in Requests, decision[r] \in Decision,
         Registry!CommitTrace(TraceKeeper, decision[r].role, decision[r].id, r, r)
  PROVE  /\ Registry!TypeOK'
         /\ ChainGrows
         /\ byAgentDecision[Key(r)] = 0
         /\ byAgentDecision' = [byAgentDecision EXCEPT ![Key(r)] = totalCommits + 1]
         /\ byAgentDecision'[Key(r)] # 0
         /\ commits'[byAgentDecision'[Key(r)]].traceHash = r
  <1> DEFINE new == [agentId |-> decision[r].role, decisionId |-> decision[r].id,
                     traceHash |-> r, ipfsCid |-> r]
             n == totalCommits + 1
  <1>1. /\ totalCommits \in Nat
        /\ commits \in [1 .. totalCommits -> Registry!Commit]
        /\ byAgentDecision \in [Keys -> 0 .. totalCommits]
    BY DEF Registry!TypeOK, Keys
  <1>2. decision[r].role \in Roles /\ decision[r].id \in Ids /\ Key(r) \in Keys
    BY DEF Decision, Key, Keys
  <1>3. new \in Registry!Commit /\ new.traceHash = r
    BY <1>2 DEF Registry!Commit
  <1>4. /\ byAgentDecision[Key(r)] = 0
        /\ totalCommits' = n
        /\ byAgentDecision' = [byAgentDecision EXCEPT ![Key(r)] = n]
        /\ commits' = [i \in DOMAIN commits \cup {n} |-> IF i = n THEN new ELSE commits[i]]
    BY DEF Registry!CommitTrace, Registry!WithCommit, Key
  <1> HIDE DEF new
  <1>5. DOMAIN commits \cup {n} = 1 .. n
    BY <1>1
  <1>6. commits' = [i \in 1 .. n |-> IF i = n THEN new ELSE commits[i]]
    BY <1>4, <1>5
  <1>7. commits' \in [1 .. n -> Registry!Commit]
    BY <1>1, <1>3, <1>6
  <1>8. byAgentDecision' \in [Keys -> 0 .. n]
    <2>1. byAgentDecision \in [Keys -> 0 .. n] /\ n \in 0 .. n
      BY <1>1
    <2>2. QED BY <2>1, <1>4
  <1>9. Registry!TypeOK'
    BY <1>1, <1>4, <1>7, <1>8 DEF Registry!TypeOK, Keys
  <1>10. ChainGrows
    <2> SUFFICES ASSUME NEW k \in Keys, byAgentDecision[k] # 0
                 PROVE  /\ byAgentDecision'[k] = byAgentDecision[k]
                        /\ commits'[byAgentDecision[k]] = commits[byAgentDecision[k]]
      BY DEF ChainGrows
    <2>1. k # Key(r) /\ byAgentDecision[k] \in 1 .. totalCommits
      BY <1>1, <1>4
    <2>2. QED BY <2>1, <1>1, <1>2, <1>4, <1>6
  <1>11. byAgentDecision'[Key(r)] = n /\ commits'[n] = new
    BY <1>1, <1>2, <1>4, <1>6
  <1>12. QED BY <1>1, <1>3, <1>4, <1>9, <1>10, <1>11

-----------------------------------------------------------------------------
(* Each part of the invariant is preserved.                                 *)

\* Every step keeps control, order and tables in step with each other.
LEMMA ControlKept ==
  ASSUME TypeOK, ControlInv, [Next]_vars PROVE ControlInv'
  <1>0. /\ counter \in [Roles -> 0 .. MaxDecisionId] /\ MaxDecisionId \in Nat
        /\ DOMAIN decision = Requests /\ DOMAIN pc = Requests /\ DOMAIN tx = Requests
        /\ DOMAIN venue = Requests /\ DOMAIN decisionRow = Requests
        /\ \A q \in Requests : decisionRow[q] \in {"none", "rejected", "approved"}
    BY BoundsAssumption DEF TypeOK
  <1> USE <1>0 DEF ControlInv, Control, Untouched, Confirmed, Executed, InFlight
  <1>1. ASSUME NEW a \in Roles, NEW r \in Requests, NEW n \in Nonces, NEW noop \in BOOLEAN,
               AgentSubmit(a, r, n, noop)
        PROVE  ControlInv'
    <2>1. [role |-> a, id |-> counter[a] + 1, nonce |-> n, noop |-> noop] \in Decision
      BY <1>1 DEF AgentSubmit, Decision, Ids
    <2>2. QED BY <1>1, <2>1 DEF AgentSubmit, agentVars, faultVars, chainVars, rowVars
  <1>2. ASSUME NEW a \in Roles, AgentDropsId(a) PROVE ControlInv'
    BY <1>2 DEF AgentDropsId, agentVars, faultVars, chainVars, rowVars
  <1>3. ASSUME NEW a \in Roles, AgentRestart(a) PROVE ControlInv'
    BY <1>3 DEF AgentRestart, agentVars, faultVars, chainVars, rowVars
  <1>4. ASSUME NEW r \in Requests, RefuseReplay(r) PROVE ControlInv'
    BY <1>4 DEF RefuseReplay, agentVars, faultVars, chainVars, rowVars
  <1>5. ASSUME NEW r \in Requests, NEW approved \in BOOLEAN, ClaimNonce(r, approved) PROVE ControlInv'
    BY <1>5 DEF ClaimNonce, agentVars, faultVars, chainVars, rowVars
  <1>6. ASSUME NEW r \in Requests, StoreRejected(r) PROVE ControlInv'
    BY <1>6 DEF StoreRejected, agentVars, faultVars, chainVars, rowVars
  <1>7. ASSUME NEW r \in Requests, PinTrace(r) PROVE ControlInv'
    BY <1>7 DEF PinTrace, PinToIpfs, agentVars, faultVars, chainVars, rowVars
  <1>8. ASSUME NEW r \in Requests, SubmitCommit(r) PROVE ControlInv'
    BY <1>8 DEF SubmitCommit, agentVars, faultVars, chainVars, rowVars
  <1>9. ASSUME NEW r \in Requests, PollConfirmed(r) PROVE ControlInv'
    BY <1>9 DEF PollConfirmed, agentVars, faultVars, chainVars, rowVars
  <1>10. ASSUME NEW r \in Requests, PollGivesUp(r) PROVE ControlInv'
    BY <1>10 DEF PollGivesUp, agentVars, faultVars, chainVars, rowVars
  <1>11. ASSUME NEW r \in Requests, StoreTrace(r) PROVE ControlInv'
    BY <1>11 DEF StoreTrace, agentVars, faultVars, chainVars, rowVars
  <1>12. ASSUME NEW r \in Requests, SendAction(r) PROVE ControlInv'
    BY <1>12 DEF SendAction, agentVars, faultVars, chainVars, rowVars
  <1>13. ASSUME NEW r \in Requests, SkipNoop(r) PROVE ControlInv'
    BY <1>13 DEF SkipNoop, agentVars, faultVars, chainVars, rowVars
  <1>14. ASSUME NEW r \in Requests, RecordAction(r) PROVE ControlInv'
    BY <1>14 DEF RecordAction, agentVars, faultVars, chainVars, rowVars
  <1>15. ASSUME NEW r \in Requests, ExecutionFails(r) PROVE ControlInv'
    BY <1>15 DEF ExecutionFails, agentVars, faultVars, chainVars, rowVars
  <1>16. ASSUME NEW r \in Requests, StoreDecision(r) PROVE ControlInv'
    BY <1>16 DEF StoreDecision, agentVars, faultVars, chainVars, rowVars
  <1>17. ASSUME NEW r \in Requests, HandlerRaises(r) PROVE ControlInv'
    BY <1>17 DEF HandlerRaises, agentVars, faultVars, chainVars, rowVars
  <1>18. ASSUME NEW r \in Requests, TxLands(r) PROVE ControlInv'
    BY <1>18 DEF TxLands, agentVars, faultVars, chainVars, rowVars
  <1>19. ASSUME NEW r \in Requests, TxFails(r) PROVE ControlInv'
    BY <1>19 DEF TxFails, agentVars, faultVars, chainVars, rowVars
  <1>20. ASSUME NEW r \in Requests, VenueAnswers(r) PROVE ControlInv'
    BY <1>20 DEF VenueAnswers, agentVars, faultVars, chainVars, rowVars
  <1>21. CASE OrchestratorCrash
    BY <1>21 DEF OrchestratorCrash, agentVars, faultVars, chainVars, rowVars
  <1>22. CASE RedisLosesNonces
    BY <1>22 DEF RedisLosesNonces, agentVars, faultVars, chainVars, rowVars
  <1>23. CASE UNCHANGED vars
    BY <1>23 DEF vars
  <1>24. QED BY <1>1, <1>2, <1>3, <1>4, <1>5, <1>6, <1>7, <1>8, <1>9, <1>10, <1>11, <1>12, <1>13, <1>14, <1>15, <1>16, <1>17, <1>18, <1>19, <1>20, <1>21, <1>22, <1>23 DEF Next, AgentStep, HandlerStep

\* A step commits one landing transaction, or leaves Circle's landed
\* transactions, the registry and the requests already sent as they are.
LEMMA ChainFrame ==
  ASSUME TypeOK, ControlInv, [Next]_vars
  PROVE  /\ Registry!TypeOK'
         /\ ChainGrows
         /\ \A r \in Requests : pc[r] # "idle" => decision'[r] = decision[r]
         /\ \A r \in Requests : tx[r] = "landed" => tx'[r] = "landed"
         /\ \A r \in Requests : tx'[r] = "landed" => tx[r] = "landed" \/ Anchored(r)'
  <1> DEFINE Frame == /\ Registry!TypeOK'
                      /\ ChainGrows
                      /\ \A r \in Requests : pc[r] # "idle" => decision'[r] = decision[r]
                      /\ \A r \in Requests : tx[r] = "landed" => tx'[r] = "landed"
                      /\ \A r \in Requests : tx'[r] = "landed" => tx[r] = "landed" \/ Anchored(r)'
             Quiet == UNCHANGED <<decision, tx, chainVars>>
  <1>0. /\ DOMAIN decision = Requests /\ DOMAIN tx = Requests /\ Registry!TypeOK
        /\ \A q \in Requests : pc[q] # "idle" => decision[q] \in Decision
        /\ \A q \in Requests : tx[q] # "none" => pc[q] # "idle"
    BY DEF TypeOK, ControlInv, Control, Untouched
  <1>1. CASE Quiet
    BY <1>0, <1>1 DEF Quiet, chainVars, ChainGrows, Registry!TypeOK
  <1>2. ASSUME NEW a \in Roles, NEW r \in Requests, NEW n \in Nonces, NEW noop \in BOOLEAN,
               AgentSubmit(a, r, n, noop)
        PROVE  Frame
    BY <1>0, <1>2 DEF AgentSubmit, chainVars, ChainGrows, Registry!TypeOK
  <1>3. ASSUME NEW r \in Requests, SubmitCommit(r) \/ TxFails(r) PROVE Frame
    <2>1. tx[r] # "landed"
      BY <1>3 DEF SubmitCommit, TxFails, ControlInv, Control
    <2>2. QED BY <1>0, <1>3, <2>1 DEF SubmitCommit, TxFails, chainVars, ChainGrows, Registry!TypeOK
  <1>4. ASSUME NEW r \in Requests, TxLands(r) PROVE Frame
    <2>1. /\ decision[r] \in Decision
          /\ Registry!CommitTrace(TraceKeeper, decision[r].role, decision[r].id, r, r)
          /\ UNCHANGED decision
          /\ tx' = [tx EXCEPT ![r] = "landed"]
      BY <1>0, <1>4 DEF TxLands
    <2>2. /\ Registry!TypeOK' /\ ChainGrows
          /\ byAgentDecision'[Key(r)] # 0
          /\ commits'[byAgentDecision'[Key(r)]].traceHash = r
      BY <1>0, <2>1, Landing
    <2>3. Anchored(r)'
      BY <2>1, <2>2 DEF Anchored, Key
    <2>4. QED BY <1>0, <2>1, <2>2, <2>3
  <1>5. QED
    <2>1. [Next]_vars =>
            \/ Quiet
            \/ \E a \in Roles, r \in Requests, n \in Nonces, noop \in BOOLEAN : AgentSubmit(a, r, n, noop)
            \/ \E r \in Requests : SubmitCommit(r) \/ TxFails(r) \/ TxLands(r)
      BY DEF Next, AgentStep, HandlerStep, vars, chainVars, AgentDropsId, AgentRestart, RefuseReplay,
             ClaimNonce, StoreRejected, PinTrace, PinToIpfs, PollConfirmed, PollGivesUp, StoreTrace, SendAction,
             SkipNoop, RecordAction, ExecutionFails, StoreDecision, HandlerRaises, VenueAnswers,
             OrchestratorCrash, RedisLosesNonces
    <2>2. QED BY <1>1, <1>2, <1>3, <1>4, <2>1

\* Every variable keeps its type.
LEMMA TypeKept ==
  ASSUME TypeOK, ControlInv, [Next]_vars PROVE TypeOK'
  <1> USE BoundsAssumption
  <1>1. Registry!TypeOK'
    BY ChainFrame
  <1>2. /\ counter' \in [Roles -> 0 .. MaxDecisionId]
        /\ restarts' \in 0 .. MaxRestarts
    <2>1. CASE UNCHANGED agentVars
      BY <2>1 DEF TypeOK, agentVars
    <2>2. ASSUME NEW a \in Roles, AgentStep(a)
          PROVE  /\ counter' \in [Roles -> 0 .. MaxDecisionId]
                 /\ restarts' \in 0 .. MaxRestarts
      BY <2>2 DEF AgentStep, AgentSubmit, AgentDropsId, AgentRestart, TypeOK
    <2>3. [Next]_vars => UNCHANGED agentVars \/ \E a \in Roles : AgentStep(a)
      BY DEF Next, HandlerStep, vars, agentVars, RefuseReplay, ClaimNonce, StoreRejected, PinTrace, PinToIpfs,
             SubmitCommit, PollConfirmed, PollGivesUp, StoreTrace, SendAction, SkipNoop, RecordAction,
             ExecutionFails, StoreDecision, HandlerRaises, TxLands, TxFails, VenueAnswers,
             OrchestratorCrash, RedisLosesNonces
    <2>4. QED BY <2>1, <2>2, <2>3
  <1>3. crashes' \in 0 .. MaxCrashes /\ flushes' \in 0 .. MaxFlushes /\ claimed' \subseteq Roles \X Nonces
    <2>1. CASE UNCHANGED <<faultVars, claimed>>
      BY <2>1 DEF TypeOK, faultVars
    <2>2. CASE OrchestratorCrash \/ RedisLosesNonces
      BY <2>2 DEF OrchestratorCrash, RedisLosesNonces, TypeOK
    <2>3. ASSUME NEW r \in Requests, NEW approved \in BOOLEAN, ClaimNonce(r, approved)
          PROVE  UNCHANGED faultVars /\ claimed' \subseteq Roles \X Nonces
      <3>1. decision[r] \in Decision
        BY <2>3 DEF ClaimNonce, ControlInv, Control
      <3>2. QED BY <2>3, <3>1 DEF ClaimNonce, TypeOK, Decision
    <2>4. [Next]_vars =>
            \/ UNCHANGED <<faultVars, claimed>>
            \/ OrchestratorCrash \/ RedisLosesNonces
            \/ \E r \in Requests, approved \in BOOLEAN : ClaimNonce(r, approved)
      BY DEF Next, AgentStep, HandlerStep, vars, faultVars, AgentSubmit, AgentDropsId, AgentRestart,
             RefuseReplay, StoreRejected, PinTrace, PinToIpfs, SubmitCommit, PollConfirmed, PollGivesUp,
             StoreTrace, SendAction, SkipNoop, RecordAction, ExecutionFails, StoreDecision,
             HandlerRaises, TxLands, TxFails, VenueAnswers
    <2>5. QED BY <2>1, <2>2, <2>3, <2>4 DEF faultVars, TypeOK
  <1>4. decision' \in [Requests -> Decision \cup {NoDecision}]
    <2>1. ASSUME NEW a \in Roles, NEW r \in Requests, NEW n \in Nonces, NEW noop \in BOOLEAN,
                 AgentSubmit(a, r, n, noop)
          PROVE  decision' \in [Requests -> Decision \cup {NoDecision}]
      <3>1. [role |-> a, id |-> counter[a] + 1, nonce |-> n, noop |-> noop] \in Decision
        BY <2>1 DEF AgentSubmit, Decision, Ids, TypeOK
      <3>2. QED BY <2>1, <3>1 DEF AgentSubmit, TypeOK
    <2>2. [Next]_vars =>
            \/ UNCHANGED decision
            \/ \E a \in Roles, r \in Requests, n \in Nonces, noop \in BOOLEAN : AgentSubmit(a, r, n, noop)
      BY DEF Next, AgentStep, HandlerStep, vars, AgentDropsId, AgentRestart, RefuseReplay, ClaimNonce,
             StoreRejected, PinTrace, PinToIpfs, SubmitCommit, PollConfirmed, PollGivesUp, StoreTrace, SendAction,
             SkipNoop, RecordAction, ExecutionFails, StoreDecision, HandlerRaises, TxLands, TxFails,
             VenueAnswers, OrchestratorCrash, RedisLosesNonces
    <2>3. QED BY <2>1, <2>2 DEF TypeOK
  <1>5. /\ pc' \in [Requests -> {"idle"} \cup InFlight \cup Done]
        /\ tx' \in [Requests -> {"none", "queued", "landed", "failed"}]
        /\ pinned' \subseteq Requests
        /\ venue' \in [Requests -> {"none", "sent", "acted", "refused"}]
        /\ actionRows' \subseteq Requests
        /\ decisionRow' \in [Requests -> {"none", "rejected", "approved"}]
    <2> DEFINE Typed ==
          /\ pc \in [Requests -> {"idle"} \cup InFlight \cup Done]
          /\ tx \in [Requests -> {"none", "queued", "landed", "failed"}]
          /\ pinned \subseteq Requests
          /\ venue \in [Requests -> {"none", "sent", "acted", "refused"}]
          /\ actionRows \subseteq Requests
          /\ decisionRow \in [Requests -> {"none", "rejected", "approved"}]
    <2>0. Typed
      BY DEF TypeOK
    <2> USE <2>0 DEF InFlight, Done, Responses
    <2>1. ASSUME UNCHANGED <<pc, tx, pinned, venue, actionRows, decisionRow>> PROVE Typed'
      BY <2>1
    <2>2. ASSUME NEW r \in Requests, HandlerStep(r) \/ HandlerRaises(r) PROVE Typed'
      <3>1. CASE RefuseReplay(r) \/ (\E approved \in BOOLEAN : ClaimNonce(r, approved)) \/ StoreRejected(r)
        BY <3>1 DEF RefuseReplay, ClaimNonce, StoreRejected, rowVars
      <3>2. CASE PinTrace(r) \/ SubmitCommit(r) \/ PollConfirmed(r) \/ PollGivesUp(r) \/ StoreTrace(r)
        BY <3>2 DEF PinTrace, PinToIpfs, SubmitCommit, PollConfirmed, PollGivesUp, StoreTrace, rowVars
      <3>3. CASE SendAction(r) \/ SkipNoop(r) \/ RecordAction(r) \/ ExecutionFails(r)
        BY <3>3 DEF SendAction, SkipNoop, RecordAction, ExecutionFails, rowVars
      <3>4. CASE StoreDecision(r) \/ HandlerRaises(r)
        BY <3>4 DEF StoreDecision, HandlerRaises, rowVars
      <3>5. QED BY <2>2, <3>1, <3>2, <3>3, <3>4 DEF HandlerStep
    <2>3. ASSUME NEW r \in Requests, TxLands(r) \/ TxFails(r) \/ VenueAnswers(r) PROVE Typed'
      BY <2>3 DEF TxLands, TxFails, VenueAnswers, rowVars
    <2>4. ASSUME OrchestratorCrash PROVE Typed'
      BY <2>4 DEF OrchestratorCrash, rowVars
    <2>5. ASSUME NEW a \in Roles, NEW r \in Requests, NEW n \in Nonces, NEW noop \in BOOLEAN,
                 AgentSubmit(a, r, n, noop)
          PROVE  Typed'
      BY <2>5 DEF AgentSubmit, rowVars
    <2>6. ASSUME NEW a \in Roles, AgentDropsId(a) \/ AgentRestart(a) PROVE Typed'
      BY <2>6 DEF AgentDropsId, AgentRestart, rowVars
    <2>7. ASSUME RedisLosesNonces PROVE Typed'
      BY <2>7 DEF RedisLosesNonces, rowVars
    <2> HIDE DEF Typed
    <2>8. Typed'
      BY <2>1, <2>2, <2>3, <2>4, <2>5, <2>6, <2>7 DEF Next, AgentStep, vars
    <2>9. QED BY <2>8 DEF Typed
  <1>6. traceRow' \in [Keys -> Requests \cup {NoRequest}]
    <2>1. ASSUME NEW r \in Requests, StoreTrace(r) PROVE traceRow' \in [Keys -> Requests \cup {NoRequest}]
      BY <2>1 DEF StoreTrace, TypeOK
    <2>2. [Next]_vars => UNCHANGED traceRow \/ \E r \in Requests : StoreTrace(r)
      BY DEF Next, AgentStep, HandlerStep, vars, rowVars, AgentSubmit, AgentDropsId, AgentRestart,
             RefuseReplay, ClaimNonce, StoreRejected, PinTrace, PinToIpfs, SubmitCommit, PollConfirmed, PollGivesUp,
             SendAction, SkipNoop, RecordAction, ExecutionFails, StoreDecision, HandlerRaises, TxLands,
             TxFails, VenueAnswers, OrchestratorCrash, RedisLosesNonces
    <2>3. QED BY <2>1, <2>2 DEF TypeOK
  <1>7. QED BY <1>1, <1>2, <1>3, <1>4, <1>5, <1>6 DEF TypeOK

\* A landed transaction stays the anchor of its request.
LEMMA LandedKept ==
  ASSUME TypeOK, ControlInv, LandedIsAnchored, [Next]_vars PROVE LandedIsAnchored'
  <1> SUFFICES ASSUME NEW r \in Requests, tx'[r] = "landed" PROVE Anchored(r)'
    BY DEF LandedIsAnchored
  <1>1. CASE tx[r] = "landed"
    <2>1. Anchored(r) /\ pc[r] # "idle" /\ decision[r] \in Decision
      BY <1>1 DEF LandedIsAnchored, ControlInv, Control, Untouched
    <2>2. decision'[r] = decision[r] /\ ChainGrows
      BY <2>1, ChainFrame
    <2>3. Key(r) \in Keys /\ Key(r)' = Key(r)
      BY <2>1, <2>2 DEF Key, Keys, Decision
    <2>4. byAgentDecision[Key(r)] # 0 /\ commits[byAgentDecision[Key(r)]].traceHash = r
      BY <2>1 DEF Anchored
    <2>5. /\ byAgentDecision'[Key(r)] = byAgentDecision[Key(r)]
          /\ commits'[byAgentDecision[Key(r)]] = commits[byAgentDecision[Key(r)]]
      BY <2>2, <2>3, <2>4 DEF ChainGrows
    <2>6. byAgentDecision'[Key(r)'] # 0 /\ commits'[byAgentDecision'[Key(r)']].traceHash = r
      BY <2>3, <2>4, <2>5
    <2>7. QED BY <2>6 DEF Anchored
  <1>2. CASE tx[r] # "landed"
    BY <1>2, ChainFrame
  <1>3. QED BY <1>1, <1>2

\* Two requests anchored under one key are one request.
LEMMA AnchorIsUnique ==
  ASSUME NEW r \in Requests, NEW s \in Requests, Anchored(r), Anchored(s), Key(r) = Key(s)
  PROVE  r = s
  BY DEF Anchored

\* What a step does to the rows of traces: nothing, or store_trace's upsert.
LEMMA RowFrame ==
  ASSUME TypeOK, [Next]_vars
  PROVE  \/ /\ UNCHANGED traceRow
            /\ \A r \in Requests : pc'[r] \in Confirmed \ {"trace"} =>
                 pc[r] \in Confirmed \ {"trace"}
         \/ \E r \in Requests : StoreTrace(r)
  <1> DEFINE Quiet == /\ UNCHANGED traceRow
                      /\ \A r \in Requests : pc'[r] \in Confirmed \ {"trace"} =>
                           pc[r] \in Confirmed \ {"trace"}
  <1>0. DOMAIN pc = Requests
    BY DEF TypeOK
  <1>1. ASSUME NEW r \in Requests, HandlerStep(r) \/ HandlerRaises(r), ~StoreTrace(r)
        PROVE  Quiet
    <2> USE <1>0 DEF Confirmed, rowVars
    <2>1. CASE RefuseReplay(r) \/ (\E approved \in BOOLEAN : ClaimNonce(r, approved)) \/ StoreRejected(r)
      BY <2>1 DEF RefuseReplay, ClaimNonce, StoreRejected
    <2>2. CASE PinTrace(r) \/ SubmitCommit(r) \/ PollConfirmed(r) \/ PollGivesUp(r)
      BY <2>2 DEF PinTrace, PinToIpfs, SubmitCommit, PollConfirmed, PollGivesUp
    <2>3. CASE SendAction(r) \/ SkipNoop(r) \/ RecordAction(r) \/ ExecutionFails(r)
      BY <2>3 DEF SendAction, SkipNoop, RecordAction, ExecutionFails
    <2>4. CASE StoreDecision(r) \/ HandlerRaises(r)
      BY <2>4 DEF StoreDecision, HandlerRaises
    <2>5. QED BY <1>1, <2>1, <2>2, <2>3, <2>4 DEF HandlerStep
  <1>2. ASSUME NEW r \in Requests, TxLands(r) \/ TxFails(r) \/ VenueAnswers(r) PROVE Quiet
    BY <1>2 DEF TxLands, TxFails, VenueAnswers, rowVars
  <1>3. ASSUME OrchestratorCrash \/ RedisLosesNonces PROVE Quiet
    BY <1>0, <1>3 DEF OrchestratorCrash, RedisLosesNonces, rowVars, Confirmed
  <1>4. ASSUME NEW a \in Roles, AgentStep(a) PROVE Quiet
    BY <1>0, <1>4 DEF AgentStep, AgentSubmit, AgentDropsId, AgentRestart, rowVars, Confirmed
  <1>5. ASSUME UNCHANGED vars PROVE Quiet
    BY <1>5 DEF vars
  <1> HIDE DEF Quiet
  <1>6. Quiet \/ \E r \in Requests : StoreTrace(r)
    BY <1>1, <1>2, <1>3, <1>4, <1>5 DEF Next
  <1>7. QED BY <1>6 DEF Quiet

\* Rows stay with landed requests, under those requests' own keys.
LEMMA RowsKept ==
  ASSUME TypeOK, ControlInv, LandedIsAnchored, RowsAreLanded, RowIsWritten, [Next]_vars
  PROVE  RowsAreLanded' /\ RowIsWritten'
  <1>0. /\ DOMAIN pc = Requests /\ traceRow \in [Keys -> Requests \cup {NoRequest}]
        /\ \A q \in Requests : pc[q] # "idle" => decision[q] \in Decision /\ Key(q) \in Keys
        /\ \A q \in Requests : pc[q] # "idle" => decision'[q] = decision[q]
        /\ \A q \in Requests : tx[q] = "landed" => pc[q] # "idle" /\ tx'[q] = "landed"
        /\ \A q \in Requests : pc[q] \in Confirmed => tx[q] = "landed"
    <2>1. \A q \in Requests : pc[q] # "idle" => decision'[q] = decision[q]
      BY ChainFrame
    <2>2. \A q \in Requests : pc[q] # "idle" => decision[q] \in Decision /\ Key(q) \in Keys
      BY DEF ControlInv, Control, Key, Keys, Decision
    <2>3. \A q \in Requests : tx[q] = "landed" => pc[q] # "idle" /\ tx'[q] = "landed"
      BY ChainFrame DEF ControlInv, Control, Untouched
    <2>4. QED BY <2>1, <2>2, <2>3 DEF TypeOK, ControlInv, Control
  <1> USE DEF Key
  <1>1. CASE /\ UNCHANGED traceRow
             /\ \A r \in Requests : pc'[r] \in Confirmed \ {"trace"} =>
                  pc[r] \in Confirmed \ {"trace"}
    <2>1. RowsAreLanded'
      <3> SUFFICES ASSUME NEW k \in Keys, traceRow'[k] # NoRequest
                   PROVE  tx'[traceRow'[k]] = "landed" /\ Key(traceRow[k])' = k
        BY DEF RowsAreLanded
      <3>1. traceRow'[k] = traceRow[k] /\ traceRow[k] \in Requests
        BY <1>0, <1>1
      <3>2. tx[traceRow[k]] = "landed" /\ Key(traceRow[k]) = k
        BY <1>1, <3>1 DEF RowsAreLanded
      <3>3. QED BY <1>0, <1>1, <3>1, <3>2
    <2>2. RowIsWritten'
      <3> SUFFICES ASSUME NEW r \in Requests, pc'[r] \in Confirmed \ {"trace"}
                   PROVE  traceRow'[Key(r)'] = r
        BY DEF RowIsWritten, Key
      <3>1. traceRow[Key(r)] = r /\ Key(r)' = Key(r)
        BY <1>0, <1>1 DEF RowIsWritten, Confirmed
      <3>2. QED BY <1>1, <3>1
    <2>3. QED BY <2>1, <2>2
  <1>2. ASSUME NEW r \in Requests, StoreTrace(r) PROVE RowsAreLanded' /\ RowIsWritten'
    <2>1. /\ pc[r] = "trace" /\ pc' = [pc EXCEPT ![r] = "execute"]
          /\ traceRow' = [traceRow EXCEPT ![Key(r)] = r]
      BY <1>2 DEF StoreTrace
    <2>2. tx[r] = "landed" /\ Anchored(r) /\ Key(r) \in Keys /\ Key(r)' = Key(r) /\ tx'[r] = "landed"
      BY <1>0, <2>1 DEF Confirmed, LandedIsAnchored
    <2>3. RowsAreLanded'
      <3> SUFFICES ASSUME NEW k \in Keys, traceRow'[k] # NoRequest
                   PROVE  tx'[traceRow'[k]] = "landed" /\ Key(traceRow[k])' = k
        BY DEF RowsAreLanded
      <3>1. CASE k = Key(r)
        BY <1>0, <2>1, <2>2, <3>1
      <3>2. CASE k # Key(r)
        <4>1. traceRow'[k] = traceRow[k] /\ traceRow[k] \in Requests
          BY <1>0, <2>1, <3>2
        <4>2. tx[traceRow[k]] = "landed" /\ Key(traceRow[k]) = k
          BY <4>1 DEF RowsAreLanded
        <4>3. Key(traceRow[k])' = Key(traceRow[k])
          BY <1>0, <1>2, <4>1, <4>2 DEF StoreTrace, rowVars, Key
        <4>4. QED BY <1>0, <4>1, <4>2, <4>3
      <3>3. QED BY <3>1, <3>2
    <2>4. RowIsWritten'
      <3> SUFFICES ASSUME NEW s \in Requests, pc'[s] \in Confirmed \ {"trace"}
                   PROVE  traceRow'[Key(s)'] = s
        BY DEF RowIsWritten
      <3>1. CASE s = r
        BY <1>0, <2>1, <2>2, <3>1
      <3>2. CASE s # r
        <4>1. pc[s] \in Confirmed \ {"trace"} /\ pc[s] # "idle"
          BY <1>0, <2>1, <3>2 DEF Confirmed
        <4>2. traceRow[Key(s)] = s /\ Key(s) \in Keys /\ Key(s)' = Key(s)
          BY <1>0, <4>1 DEF RowIsWritten
        <4>3. Anchored(s)
          BY <1>0, <4>1 DEF LandedIsAnchored
        <4>4. Key(s) # Key(r)
          BY <2>2, <3>2, <4>3, AnchorIsUnique
        <4>5. QED BY <1>0, <2>1, <4>2, <4>4
      <3>3. QED BY <3>1, <3>2
    <2>5. QED BY <2>3, <2>4
  <1>3. QED BY <1>1, <1>2, RowFrame

\* A step admits a request past the nonce check only through ClaimNonce, and
\* only RedisLosesNonces takes a nonce out of the sets.
LEMMA NonceFrame ==
  ASSUME TypeOK, ControlInv, [Next]_vars
  PROVE  \/ /\ flushes' = flushes /\ claimed' = claimed
            /\ \A r \in Requests : Admitted(r)' => Admitted(r)
         \/ \E r \in Requests, approved \in BOOLEAN : ClaimNonce(r, approved)
         \/ flushes' # 0
  <1> DEFINE Quiet == /\ flushes' = flushes /\ claimed' = claimed
                      /\ \A r \in Requests : Admitted(r)' => Admitted(r)
             Claims == \E r \in Requests, approved \in BOOLEAN : ClaimNonce(r, approved)
  <1>0. DOMAIN pc = Requests /\ DOMAIN decisionRow = Requests /\ flushes \in Nat
    BY BoundsAssumption DEF TypeOK
  <1>1. ASSUME NEW r \in Requests, HandlerStep(r) \/ HandlerRaises(r), ~Claims PROVE Quiet
    <2> USE <1>0 DEF Admitted, faultVars, rowVars
    <2>1. CASE RefuseReplay(r) \/ StoreRejected(r) \/ HandlerRaises(r)
      BY <2>1 DEF RefuseReplay, StoreRejected, HandlerRaises
    <2>2. CASE PinTrace(r) \/ SubmitCommit(r) \/ PollConfirmed(r) \/ PollGivesUp(r) \/ StoreTrace(r)
      BY <2>2 DEF PinTrace, PinToIpfs, SubmitCommit, PollConfirmed, PollGivesUp, StoreTrace
    <2>3. CASE SendAction(r) \/ SkipNoop(r) \/ RecordAction(r) \/ ExecutionFails(r)
      BY <2>3 DEF SendAction, SkipNoop, RecordAction, ExecutionFails
    <2>4. CASE StoreDecision(r)
      <3>1. r \in pinned
        BY <2>4 DEF StoreDecision, ControlInv, Control, Confirmed
      <3>2. QED BY <2>4, <3>1 DEF StoreDecision
    <2>5. QED BY <1>1, <2>1, <2>2, <2>3, <2>4 DEF HandlerStep
  <1>2. ASSUME NEW r \in Requests, TxLands(r) \/ TxFails(r) \/ VenueAnswers(r) PROVE Quiet
    BY <1>2 DEF TxLands, TxFails, VenueAnswers, faultVars, rowVars, Admitted
  <1>3. ASSUME OrchestratorCrash PROVE Quiet
    BY <1>0, <1>3 DEF OrchestratorCrash, rowVars, Admitted
  <1>4. ASSUME NEW a \in Roles, AgentStep(a) PROVE Quiet
    BY <1>0, <1>4 DEF AgentStep, AgentSubmit, AgentDropsId, AgentRestart, faultVars, rowVars, Admitted
  <1>5. ASSUME UNCHANGED vars PROVE Quiet
    BY <1>5 DEF vars, Admitted
  <1>6. ASSUME RedisLosesNonces PROVE flushes' # 0
    BY <1>0, <1>6 DEF RedisLosesNonces
  <1> HIDE DEF Quiet, Claims
  <1>7. Quiet \/ Claims \/ flushes' # 0
    BY <1>1, <1>2, <1>3, <1>4, <1>5, <1>6 DEF Next
  <1>8. QED BY <1>7 DEF Quiet, Claims

\* Requests past the nonce check go on holding their nonces, each its own.
LEMMA NoncesKept ==
  ASSUME TypeOK, ControlInv, NoncesHeld, [Next]_vars PROVE NoncesHeld'
  <1>1. \A q \in Requests : Admitted(q) => decision'[q] = decision[q]
    <2>1. \A q \in Requests : Admitted(q) => pc[q] # "idle"
      BY DEF Admitted, ControlInv, Control, Untouched, TypeOK
    <2>2. QED BY <2>1, ChainFrame
  <1>2. CASE /\ flushes' = flushes /\ claimed' = claimed
             /\ \A r \in Requests : Admitted(r)' => Admitted(r)
    BY <1>1, <1>2 DEF NoncesHeld, NonceOf
  <1>3. ASSUME NEW r \in Requests, NEW approved \in BOOLEAN, ClaimNonce(r, approved)
        PROVE  NoncesHeld'
    <2>1. /\ flushes' = flushes /\ UNCHANGED decision
          /\ NonceOf(r) \notin claimed /\ claimed' = claimed \cup {NonceOf(r)}
      BY <1>3 DEF ClaimNonce, faultVars, NonceOf
    <2>2. \A q \in Requests : Admitted(q)' => q = r \/ Admitted(q)
      BY <1>3 DEF ClaimNonce, rowVars, Admitted, TypeOK
    <2>3. SUFFICES ASSUME flushes = 0, NEW q \in Requests, Admitted(q)'
                   PROVE  /\ NonceOf(q) \in claimed'
                          /\ \A s \in Requests : Admitted(s)' /\ NonceOf(s) = NonceOf(q) => s = q
      BY <2>1 DEF NoncesHeld, NonceOf
    <2>4. \A s \in Requests : Admitted(s) => NonceOf(s) \in claimed /\ NonceOf(s) # NonceOf(r)
      BY <2>1, <2>3 DEF NoncesHeld
    <2>5. NonceOf(q) \in claimed'
      BY <2>1, <2>2, <2>3, <2>4
    <2>6. ASSUME NEW s \in Requests, Admitted(s)', NonceOf(s) = NonceOf(q) PROVE s = q
      BY <2>2, <2>3, <2>4, <2>6 DEF NoncesHeld
    <2>7. QED BY <2>5, <2>6
  <1>4. CASE flushes' # 0
    BY <1>4 DEF NoncesHeld
  <1>5. QED BY <1>2, <1>3, <1>4, NonceFrame

-----------------------------------------------------------------------------
(* The theorems.                                                            *)

LEMMA InitEstablishes == Init => IInv
  <1> SUFFICES ASSUME Init PROVE IInv
    OBVIOUS
  <1>1. Registry!TypeOK
    BY DEF Init, Registry!TypeOK, Keys
  <1>2. TypeOK
    BY <1>1, BoundsAssumption DEF Init, TypeOK
  <1>3. ControlInv /\ LandedIsAnchored /\ RowsAreLanded /\ RowIsWritten /\ NoncesHeld
    BY DEF Init, ControlInv, Control, Untouched, Confirmed, Executed, LandedIsAnchored,
           RowsAreLanded, RowIsWritten, NoncesHeld, Admitted
  <1>4. QED BY <1>2, <1>3 DEF IInv

\* The inductive invariant holds in every reachable state: it ties a handler's
\* place to what the chain, the venue and the tables hold of its request.
THEOREM InvariantHolds == Spec => []IInv
  <1>1. IInv /\ [Next]_vars => IInv'
    BY TypeKept, ControlKept, LandedKept, RowsKept, NoncesKept DEF IInv
  <1>2. QED BY <1>1, InitEstablishes, PTL DEF Spec

\* Types are correct, the contract's index without holes among them.
THEOREM TypeCorrect == Spec => []TypeOK
  <1>1. IInv => TypeOK
    BY DEF IInv
  <1>2. QED BY <1>1, InvariantHolds, PTL

\* Nothing reaches a venue before its body is pinned and on chain.
THEOREM AnchorFirst == Spec => []AnchorBeforeExecution
  <1>1. IInv => AnchorBeforeExecution
    BY DEF IInv, ControlInv, Control, LandedIsAnchored, AnchorBeforeExecution
  <1>2. QED BY <1>1, InvariantHolds, PTL

\* No decision of an agent is executed twice, by whichever requests.
THEOREM ExecutedOnce == Spec => []ExecutedOncePerDecision
  <1>1. IInv => ExecutedOncePerDecision
    <2> SUFFICES ASSUME IInv, NEW r \in Requests, NEW s \in Requests,
                        venue[r] = "acted", venue[s] = "acted", Key(r) = Key(s)
                 PROVE  r = s
      BY DEF ExecutedOncePerDecision
    <2>1. Anchored(r) /\ Anchored(s)
      BY DEF IInv, ControlInv, Control, LandedIsAnchored
    <2>2. QED BY <2>1, AnchorIsUnique
  <1>2. QED BY <1>1, InvariantHolds, PTL

\* A replayed or rejected request leaves nothing anywhere else.
THEOREM RefusedClean == Spec => []RefusedLeavesNothing
  <1>1. IInv => RefusedLeavesNothing
    <2> SUFFICES ASSUME IInv, NEW r \in Requests, pc[r] = "replayed" \/ decisionRow[r] = "rejected"
                 PROVE  /\ r \notin pinned /\ tx[r] = "none" /\ venue[r] = "none"
                        /\ r \notin actionRows
                        /\ \A k \in Keys : traceRow[k] # r
      BY DEF RefusedLeavesNothing
    <2>1. r \notin pinned /\ tx[r] = "none" /\ venue[r] = "none" /\ r \notin actionRows
      BY DEF IInv, ControlInv, Control, Untouched
    <2>2. \A k \in Keys : traceRow[k] # r
      BY <2>1, NoRequestAssumption DEF IInv, RowsAreLanded
    <2>3. QED BY <2>1, <2>2
  <1>2. QED BY <1>1, InvariantHolds, PTL

\* Each row of traces carries the hash the registry holds for its decision.
THEOREM RowsMatchChain == Spec => []TraceRowsMatchChain
  <1>1. IInv => TraceRowsMatchChain
    <2> SUFFICES ASSUME IInv, NEW k \in Keys, traceRow[k] # NoRequest
                 PROVE  /\ byAgentDecision[k] # 0
                        /\ commits[byAgentDecision[k]].traceHash = traceRow[k]
      BY DEF TraceRowsMatchChain
    <2>1. traceRow[k] \in Requests /\ tx[traceRow[k]] = "landed" /\ Key(traceRow[k]) = k
      BY DEF IInv, TypeOK, RowsAreLanded
    <2>2. Anchored(traceRow[k])
      BY <2>1 DEF IInv, LandedIsAnchored
    <2>3. QED BY <2>1, <2>2 DEF Anchored
  <1>2. QED BY <1>1, InvariantHolds, PTL

\* Until Redis loses nonces, one request at most is admitted with a nonce.
THEOREM NonceOnce == Spec => []NonceAdmitsOnce
  <1>1. IInv => NonceAdmitsOnce
    <2> SUFFICES ASSUME IInv, flushes = 0, NEW r \in Requests, NEW s \in Requests,
                        r \in pinned \/ decisionRow[r] # "none",
                        s \in pinned \/ decisionRow[s] # "none",
                        decision[r].role = decision[s].role, decision[r].nonce = decision[s].nonce
                 PROVE  r = s
      BY DEF NonceAdmitsOnce
    <2>1. Admitted(r) /\ Admitted(s) /\ NonceOf(r) = NonceOf(s)
      BY DEF Admitted, NonceOf
    <2>2. QED BY <2>1 DEF IInv, NoncesHeld
  <1>2. QED BY <1>1, InvariantHolds, PTL

\* An approved row of decisions is evidence of the whole lifecycle.
THEOREM ApprovedEvidence == Spec => []ApprovedRowIsEvidence
  <1>1. IInv => ApprovedRowIsEvidence
    BY DEF IInv, ControlInv, Control, Confirmed, Executed, RowIsWritten, ApprovedRowIsEvidence
  <1>2. QED BY <1>1, InvariantHolds, PTL

\* The upsert of store_trace never replaces another request's trace.
THEOREM RowsWriteOnce == Spec => TraceRowsWriteOnce
  <1> DEFINE Kept == \A k \in Keys : traceRow[k] # NoRequest => traceRow'[k] = traceRow[k]
  <1>1. IInv /\ [Next]_vars => [Kept]_vars
    <2> SUFFICES ASSUME IInv, Next, NEW k \in Keys, traceRow[k] # NoRequest
                 PROVE  traceRow'[k] = traceRow[k]
      OBVIOUS
    <2>1. ASSUME NEW r \in Requests, StoreTrace(r) PROVE traceRow'[k] = traceRow[k]
      <3>1. tx[r] = "landed" /\ Anchored(r)
        BY <2>1 DEF StoreTrace, IInv, ControlInv, Control, Confirmed, LandedIsAnchored
      <3>2. traceRow[k] \in Requests /\ Anchored(traceRow[k]) /\ Key(traceRow[k]) = k
        BY DEF IInv, TypeOK, RowsAreLanded, LandedIsAnchored
      <3>3. k = Key(r) => traceRow[k] = r
        BY <3>1, <3>2, AnchorIsUnique
      <3>4. QED BY <2>1, <3>3 DEF StoreTrace, IInv, TypeOK
    <2>2. QED BY <2>1, RowFrame DEF IInv
  <1>2. QED BY <1>1, InvariantHolds, PTL DEF Spec, TraceRowsWriteOnce

-----------------------------------------------------------------------------
(* The lifecycle implements AnchoredExecution.                              *)

\* A landing transaction is the abstract anchoring of its request's body.
LEMMA LandingAnchors ==
  ASSUME IInv, NEW r \in Requests, TxLands(r) PROVE Anchoring!Anchor(Key(r), r)
  <1>1. decision[r] \in Decision /\ Key(r) \in Keys /\ Registry!TypeOK
    <2>1. pc[r] # "idle"
      BY DEF TxLands, IInv, ControlInv, Control, Untouched
    <2>2. QED BY <2>1 DEF IInv, TypeOK, ControlInv, Control, Key, Keys, Decision
  <1>2. Registry!CommitTrace(TraceKeeper, decision[r].role, decision[r].id, r, r)
    BY DEF TxLands
  <1>3. /\ ChainGrows
        /\ byAgentDecision[Key(r)] = 0
        /\ byAgentDecision' = [byAgentDecision EXCEPT ![Key(r)] = totalCommits + 1]
        /\ byAgentDecision'[Key(r)] # 0
        /\ commits'[byAgentDecision'[Key(r)]].traceHash = r
    BY <1>1, <1>2, Landing
  <1>4. byAgentDecision \in [Keys -> Nat]
    BY <1>1 DEF Registry!TypeOK, Keys
  <1>5. anchorOf' = [anchorOf EXCEPT ![Key(r)] = r]
    <2> SUFFICES ASSUME NEW k \in Keys
                 PROVE  (IF byAgentDecision'[k] = 0 THEN NoRequest
                         ELSE commits'[byAgentDecision'[k]].traceHash)
                        = IF k = Key(r) THEN r
                          ELSE IF byAgentDecision[k] = 0 THEN NoRequest
                               ELSE commits[byAgentDecision[k]].traceHash
      BY DEF anchorOf
    <2>1. CASE k = Key(r)
      BY <1>3, <2>1
    <2>2. CASE k # Key(r)
      <3>1. byAgentDecision'[k] = byAgentDecision[k]
        BY <1>3, <1>4, <2>2
      <3>2. QED BY <1>3, <2>2, <3>1 DEF ChainGrows
    <2>3. QED BY <2>1, <2>2
  <1>6. actsOf' = actsOf
    BY DEF TxLands, actsOf, Key
  <1>7. anchorOf[Key(r)] = NoRequest
    BY <1>1, <1>3 DEF anchorOf
  <1>8. QED BY <1>5, <1>6, <1>7 DEF Anchoring!Anchor

\* A venue's fill is the abstract act of the body it was sent for; its
\* refusal is no act.
LEMMA AnswerActs ==
  ASSUME IInv, NEW r \in Requests, VenueAnswers(r)
  PROVE  Anchoring!Act(Key(r), r) \/ UNCHANGED <<anchorOf, actsOf>>
  <1>1. Anchored(r) /\ Key(r) \in Keys
    BY DEF VenueAnswers, IInv, ControlInv, Control, Untouched, LandedIsAnchored, Key, Keys, Decision
  <1>2. anchorOf' = anchorOf /\ UNCHANGED decision /\ venue[r] = "sent" /\ DOMAIN venue = Requests
    BY DEF VenueAnswers, chainVars, anchorOf, IInv, TypeOK
  <1>3. anchorOf[Key(r)] = r
    BY <1>1 DEF anchorOf, Anchored
  <1>4. CASE venue' = [venue EXCEPT ![r] = "acted"]
    <2>1. \A q \in Requests : venue'[q] = "acted" <=> venue[q] = "acted" \/ q = r
      BY <1>2, <1>4
    <2>2. actsOf' = actsOf \cup {<<Key(r), r>>}
      BY <1>2, <2>1 DEF actsOf, Key
    <2>3. <<Key(r), r>> \notin actsOf
      BY <1>2 DEF actsOf
    <2>4. QED BY <1>2, <1>3, <2>2, <2>3 DEF Anchoring!Act
  <1>5. CASE venue' = [venue EXCEPT ![r] = "refused"]
    <2>1. \A q \in Requests : venue'[q] = "acted" <=> venue[q] = "acted"
      BY <1>2, <1>5
    <2>2. QED BY <1>2, <2>1 DEF actsOf, Key
  <1>6. QED BY <1>4, <1>5 DEF VenueAnswers

\* No other step moves the chain or completes an order.
LEMMA OthersStutter ==
  ASSUME IInv, [Next]_vars
  PROVE  \/ UNCHANGED <<anchorOf, actsOf>>
         \/ \E r \in Requests : TxLands(r) \/ VenueAnswers(r)
  <1>1. CASE UNCHANGED <<chainVars, decision, venue>>
    BY <1>1 DEF chainVars, anchorOf, actsOf, Key
  <1>2. ASSUME NEW a \in Roles, NEW r \in Requests, NEW n \in Nonces, NEW noop \in BOOLEAN,
               AgentSubmit(a, r, n, noop)
        PROVE  UNCHANGED <<anchorOf, actsOf>>
    <2>1. venue' = venue /\ venue[r] = "none" /\ \A q \in Requests \ {r} : decision'[q] = decision[q]
      BY <1>2 DEF AgentSubmit, IInv, TypeOK, ControlInv, Control, Untouched
    <2>2. actsOf' = actsOf
      BY <2>1 DEF actsOf, Key
    <2>3. QED BY <1>2, <2>2 DEF AgentSubmit, chainVars, anchorOf
  <1>3. ASSUME NEW r \in Requests, SendAction(r) PROVE UNCHANGED <<anchorOf, actsOf>>
    <2>1. \A q \in Requests : venue'[q] = "acted" <=> venue[q] = "acted"
      BY <1>3 DEF SendAction, IInv, TypeOK, ControlInv, Control
    <2>2. actsOf' = actsOf
      BY <1>3, <2>1 DEF SendAction, actsOf, Key
    <2>3. QED BY <1>3, <2>2 DEF SendAction, chainVars, anchorOf
  <1>4. [Next]_vars =>
          \/ UNCHANGED <<chainVars, decision, venue>>
          \/ \E a \in Roles, r \in Requests, n \in Nonces, noop \in BOOLEAN : AgentSubmit(a, r, n, noop)
          \/ \E r \in Requests : SendAction(r)
          \/ \E r \in Requests : TxLands(r) \/ VenueAnswers(r)
    BY DEF Next, AgentStep, HandlerStep, vars, chainVars, AgentDropsId, AgentRestart, RefuseReplay,
           ClaimNonce, StoreRejected, PinTrace, PinToIpfs, SubmitCommit, PollConfirmed, PollGivesUp, StoreTrace,
           SkipNoop, RecordAction, ExecutionFails, StoreDecision, HandlerRaises, TxFails,
           OrchestratorCrash, RedisLosesNonces
  <1>5. QED BY <1>1, <1>2, <1>3, <1>4

\* Whatever fails, restarts or interleaves, the lifecycle is a run of
\* AnchoredExecution: anchored first, to one body for ever, executed once.
THEOREM ImplementsAnchoring == Spec => AnchoringSpec
  <1>1. Init => Anchoring!Init
    BY DEF Init, Anchoring!Init, anchorOf, actsOf
  <1>2. IInv /\ [Next]_vars => [Anchoring!Next]_(Anchoring!vars)
    <2> SUFFICES ASSUME IInv, [Next]_vars
                 PROVE  Anchoring!Next \/ UNCHANGED <<anchorOf, actsOf>>
      BY DEF Anchoring!vars
    <2>1. ASSUME NEW r \in Requests, TxLands(r) \/ VenueAnswers(r)
          PROVE  Anchoring!Next \/ UNCHANGED <<anchorOf, actsOf>>
      <3>1. Key(r) \in Keys
        BY <2>1 DEF TxLands, VenueAnswers, IInv, ControlInv, Control, Untouched, Key, Keys, Decision
      <3>2. QED BY <2>1, <3>1, LandingAnchors, AnswerActs DEF Anchoring!Next
    <2>2. QED BY <2>1, OthersStutter
  <1>3. QED BY <1>1, <1>2, InvariantHolds, PTL DEF Spec, AnchoringSpec, Anchoring!Spec

\* What was acted upon is anchored, in terms of the abstract state alone.
ActsAreAnchored ==
  \A act \in actsOf : act[1] \in Keys /\ act[2] \in Requests /\ anchorOf[act[1]] = act[2]

\* The abstract specification is strong enough: whatever implements it, with
\* these anchors and acts, executes no decision id of an agent twice.
THEOREM AnchoringSuffices == AnchoringSpec => []ExecutedOncePerDecision
  <1>1. Anchoring!Init => ActsAreAnchored
    BY DEF Anchoring!Init, ActsAreAnchored
  <1>2. ActsAreAnchored /\ [Anchoring!Next]_(Anchoring!vars) => ActsAreAnchored'
    <2> SUFFICES ASSUME ActsAreAnchored, [Anchoring!Next]_(Anchoring!vars), NEW act \in actsOf'
                 PROVE  act[1] \in Keys /\ act[2] \in Requests /\ anchorOf'[act[1]] = act[2]
      BY DEF ActsAreAnchored
    <2>1. ASSUME NEW k \in Keys, NEW b \in Requests, Anchoring!Anchor(k, b)
          PROVE  act[1] \in Keys /\ act[2] \in Requests /\ anchorOf'[act[1]] = act[2]
      <3>1. act \in actsOf /\ anchorOf[k] = NoRequest /\ anchorOf' = [anchorOf EXCEPT ![k] = b]
        BY <2>1 DEF Anchoring!Anchor
      <3>2. act[1] \in Keys /\ act[2] \in Requests /\ anchorOf[act[1]] = act[2]
        BY <3>1 DEF ActsAreAnchored
      <3>3. act[1] # k
        BY <3>1, <3>2, NoRequestAssumption
      <3>4. DOMAIN anchorOf = Keys
        BY DEF anchorOf
      <3>5. QED BY <3>1, <3>2, <3>3, <3>4
    <2>2. ASSUME NEW k \in Keys, NEW b \in Requests, Anchoring!Act(k, b)
          PROVE  act[1] \in Keys /\ act[2] \in Requests /\ anchorOf'[act[1]] = act[2]
      BY <2>2 DEF Anchoring!Act, ActsAreAnchored
    <2>3. CASE UNCHANGED <<anchorOf, actsOf>>
      BY <2>3 DEF ActsAreAnchored
    <2>4. QED BY <2>1, <2>2, <2>3 DEF Anchoring!Next, Anchoring!vars
  <1>3. ActsAreAnchored => ExecutedOncePerDecision
    <2> SUFFICES ASSUME ActsAreAnchored, NEW q \in Requests, NEW r \in Requests,
                        venue[q] = "acted", venue[r] = "acted", Key(q) = Key(r)
                 PROVE  q = r
      BY DEF ExecutedOncePerDecision
    <2>1. <<Key(q), q>> \in actsOf /\ <<Key(r), r>> \in actsOf
      BY DEF actsOf
    <2>2. anchorOf[Key(q)] = q /\ anchorOf[Key(r)] = r
      BY <2>1 DEF ActsAreAnchored
    <2>3. QED BY <2>2
  <1>4. QED BY <1>1, <1>2, <1>3, PTL DEF AnchoringSpec, Anchoring!Spec

-----------------------------------------------------------------------------
(* The audit of a stored decision (TraceAudit).                             *)

\* Every commit of the log is indexed under its own key, names the body it
\* hashes, and that body is pinned.
LogIsPinned ==
  \A i \in 1 .. totalCommits :
    /\ commits[i].ipfsCid = commits[i].traceHash
    /\ commits[i].traceHash \in pinned
    /\ <<commits[i].agentId, commits[i].decisionId>> \in Keys
    /\ byAgentDecision[<<commits[i].agentId, commits[i].decisionId>>] = i

\* The log grows only by the body of a request whose transaction lands, and
\* nothing is ever unpinned.
LEMMA LogFrame ==
  ASSUME TypeOK, [Next]_vars
  PROVE  /\ pinned \subseteq pinned'
         /\ UNCHANGED chainVars \/ \E r \in Requests : TxLands(r)
BY DEF Next, AgentStep, HandlerStep, vars, chainVars, AgentSubmit, AgentDropsId, AgentRestart,
       RefuseReplay, ClaimNonce, StoreRejected, PinTrace, PinToIpfs, SubmitCommit, PollConfirmed,
       PollGivesUp, StoreTrace, SendAction, SkipNoop, RecordAction, ExecutionFails, StoreDecision,
       HandlerRaises, TxLands, TxFails, VenueAnswers, OrchestratorCrash, RedisLosesNonces

LEMMA LogKept ==
  ASSUME IInv, LogIsPinned, [Next]_vars PROVE LogIsPinned'
  <1>1. pinned \subseteq pinned'
    BY LogFrame DEF IInv
  <1>2. CASE UNCHANGED chainVars
    BY <1>1, <1>2 DEF LogIsPinned, chainVars
  <1>3. ASSUME NEW r \in Requests, TxLands(r) PROVE LogIsPinned'
    <2> DEFINE n == totalCommits + 1
               new == [agentId |-> decision[r].role, decisionId |-> decision[r].id,
                       traceHash |-> r, ipfsCid |-> r]
    <2>1. r \in pinned /\ decision[r] \in Decision
      BY <1>3 DEF TxLands, IInv, ControlInv, Control, Untouched
    <2>2. Key(r) = <<new.agentId, new.decisionId>> /\ Key(r) \in Keys
      BY <2>1 DEF Key, Keys, Decision
    <2>3. /\ totalCommits \in Nat
          /\ commits \in [1 .. totalCommits -> Registry!Commit]
          /\ byAgentDecision \in [Keys -> 0 .. totalCommits]
      BY DEF IInv, TypeOK, Registry!TypeOK, Keys
    <2>4. /\ byAgentDecision[Key(r)] = 0
          /\ totalCommits' = n
          /\ byAgentDecision' = [byAgentDecision EXCEPT ![Key(r)] = n]
          /\ commits' = [i \in DOMAIN commits \cup {n} |-> IF i = n THEN new ELSE commits[i]]
      BY <1>3 DEF TxLands, Registry!CommitTrace, Registry!WithCommit, Key
    <2>5. new.ipfsCid = r /\ new.traceHash = r
      OBVIOUS
    <2> HIDE DEF new
    <2>6. ASSUME NEW i \in 1 .. n
          PROVE  /\ commits'[i].ipfsCid = commits'[i].traceHash
                 /\ commits'[i].traceHash \in pinned'
                 /\ <<commits'[i].agentId, commits'[i].decisionId>> \in Keys
                 /\ byAgentDecision'[<<commits'[i].agentId, commits'[i].decisionId>>] = i
      <3>1. CASE i = n
        <4>1. commits'[i] = new
          BY <2>4, <3>1
        <4>2. byAgentDecision'[Key(r)] = n
          BY <2>2, <2>3, <2>4
        <4>3. QED BY <1>1, <2>1, <2>2, <2>5, <3>1, <4>1, <4>2
      <3>2. CASE i # n
        <4> DEFINE k == <<commits[i].agentId, commits[i].decisionId>>
        <4>1. i \in 1 .. totalCommits /\ i # 0
          BY <2>3, <3>2
        <4>2. commits'[i] = commits[i]
          BY <2>3, <2>4, <3>2, <4>1
        <4>3. /\ commits[i].ipfsCid = commits[i].traceHash /\ commits[i].traceHash \in pinned
              /\ k \in Keys /\ byAgentDecision[k] = i
          BY <4>1 DEF LogIsPinned
        <4> HIDE DEF k
        <4>4. k # Key(r)
          BY <2>4, <4>1, <4>3
        <4>5. byAgentDecision'[k] = i
          BY <2>3, <2>4, <4>3, <4>4
        <4>6. QED BY <1>1, <4>2, <4>3, <4>5 DEF k
      <3>3. QED BY <3>1, <3>2
    <2>7. QED BY <2>4, <2>6 DEF LogIsPinned, Keys
  <1>4. QED BY <1>2, <1>3, LogFrame DEF IInv

\* The script's answers for a decision in such a log.
LEMMA AuditAnswers ==
  ASSUME IInv, LogIsPinned, NEW i \in 1 .. totalCommits
  PROVE  LET answers == VerifyExisting(<<commits[i].agentId, commits[i].decisionId>>)
         IN  "verified" \in answers /\ "mismatch" \notin answers
  <1> DEFINE k == <<commits[i].agentId, commits[i].decisionId>>
             h == commits[i].traceHash
  <1>1. /\ commits[i].ipfsCid = h /\ h \in pinned
        /\ byAgentDecision[k] = i /\ i # 0
        /\ k[1] = commits[i].agentId /\ k[2] = commits[i].decisionId
    BY DEF LogIsPinned
  <1>2. h \in Requests /\ h # NoRequest
    BY <1>1, NoRequestAssumption DEF IInv, TypeOK
  <1>3. k = <<k[1], k[2]>>
    OBVIOUS
  <1> HIDE DEF k
  <1>4. GetTraceCommit(k) = {NoRequest, h}
    BY <1>1, <1>3 DEF GetTraceCommit, Registry!GetCommit
  <1>5. FetchFromIpfs(h) = {NoRequest, h}
    BY <1>1 DEF FetchFromIpfs
  <1>6. Registry!VerifyTrace(k[1], k[2], h)
    BY <1>1, <1>3 DEF Registry!VerifyTrace
  <1>7. VerifyBody(k, NoRequest) = "unavailable" /\ VerifyBody(k, h) = "verified"
    BY <1>1, <1>2, <1>6 DEF VerifyBody
  <1>8. VerifyExisting(k) = {"no commit", "unavailable", "verified"}
    <2>1. {VerifyBody(k, body) : body \in FetchFromIpfs(h)} = {"unavailable", "verified"}
      BY <1>5, <1>7
    <2>2. VerifyExisting(k) =
            UNION {IF cid = NoRequest THEN {"no commit"}
                   ELSE {VerifyBody(k, body) : body \in FetchFromIpfs(cid)} : cid \in {NoRequest, h}}
      BY <1>4 DEF VerifyExisting
    <2>3. QED BY <1>2, <2>1, <2>2
  <1>9. QED BY <1>8 DEF k

\* Every commit passes the audit, however handlers interleaved, crashed or
\* gave up around it.
THEOREM AuditPasses == Spec => []CommitsPassTheAudit
  <1>1. Init => LogIsPinned
    BY DEF Init, LogIsPinned
  <1>2. IInv /\ LogIsPinned /\ [Next]_vars => LogIsPinned'
    BY LogKept
  <1>3. IInv /\ LogIsPinned /\ TraceRowsMatchChain => CommitsPassTheAudit
    <2> SUFFICES ASSUME IInv, LogIsPinned, TraceRowsMatchChain PROVE CommitsPassTheAudit
      OBVIOUS
    <2>1. ASSUME NEW r \in Requests, NEW k \in GetTraceByHash(r)
          PROVE  VerifyBody(k, r) = "verified"
      <3>1. k \in Keys /\ traceRow[k] = r /\ r # NoRequest
        BY <2>1, NoRequestAssumption DEF GetTraceByHash
      <3>2. byAgentDecision[k] # 0 /\ commits[byAgentDecision[k]].traceHash = r
        BY <3>1 DEF TraceRowsMatchChain
      <3>3. k = <<k[1], k[2]>>
        BY <3>1 DEF Keys
      <3>4. QED BY <3>1, <3>2, <3>3 DEF VerifyBody, Registry!VerifyTrace
    <2>2. QED BY <2>1, AuditAnswers DEF CommitsPassTheAudit
  <1>4. QED BY <1>1, <1>2, <1>3, InvariantHolds, RowsMatchChain, PTL DEF Spec
=============================================================================
