------------------------- MODULE DecisionLifecycle -------------------------
(***************************************************************************)
(* The life of a decision: an agent numbers and submits it, the            *)
(* orchestrator's request handler (_process in routers/decisions.py) claims*)
(* its nonce, runs the risk gate, pins and commits its trace, executes it  *)
(* at a venue and stores it.  Handlers of several requests interleave at   *)
(* every await, and run on after the agent's client has timed out.  The    *)
(* Circle wallet service and the venues act on their own: a transaction    *)
(* may land, and an order may fill, after the handler gave up on it.       *)
(*                                                                         *)
(* A trace body contains the time and the adapters' readings, so bodies of *)
(* different requests differ; a request stands for its body, for the hash  *)
(* of it and for its content id.                                           *)
(***************************************************************************)
EXTENDS Naturals, FiniteSets

CONSTANTS
  Requests,        \* requests the agents may send
  NoRequest,
  Roles,           \* agent roles
  RecordingRoles,  \* roles whose executor records an action row: hedge, treasury
  NoopRoles,       \* roles that may decide to do nothing: treasury
  Nonces,
  NoDecision,      \* the content of a request not sent yet
  TraceKeeper,     \* the Circle wallet that signs commits
  RaisePoints,     \* program counters at which an awaited call may raise
  MaxDecisionId, MaxRestarts, MaxCrashes, MaxFlushes   \* bounds of the model

Ids == 1 .. MaxDecisionId
Keys == Roles \X Ids
Decision == [role : Roles, id : Ids, nonce : Nonces, noop : BOOLEAN]

ASSUME BoundsAssumption ==
  MaxDecisionId \in Nat /\ MaxRestarts \in Nat /\ MaxCrashes \in Nat /\ MaxFlushes \in Nat
ASSUME NoRequestAssumption == NoRequest \notin Requests
ASSUME NoDecisionAssumption == NoDecision \notin Decision

VARIABLES
  counter,      \* each agent's _decision_counter
  restarts, crashes, flushes,   \* how often these happened, for the bounds
  decision,     \* what each request carries
  pc,           \* where the handler of each request stands
  claimed,      \* Redis: <<role, nonce>> pairs in the nonce sets
  pinned,       \* IPFS: requests whose body is pinned
  tx,           \* Circle: the state of each request's commit transaction
  commits, byAgentDecision, totalCommits,   \* Arc: the TraceRegistry contract
  traceRow,     \* Postgres: the row of (role, id) in traces
  venue,        \* the venue's view of each request's order
  actionRows,   \* Postgres: requests with a hedge or treasury row
  decisionRow   \* Postgres: each request's row in decisions

agentVars == <<counter, restarts>>
faultVars == <<crashes, flushes>>
chainVars == <<commits, byAgentDecision, totalCommits>>
rowVars == <<traceRow, actionRows, decisionRow>>
vars == <<counter, restarts, crashes, flushes, decision, pc, claimed, pinned, tx,
          commits, byAgentDecision, totalCommits, traceRow, venue, actionRows, decisionRow>>

Registry == INSTANCE TraceRegistry
  WITH Addresses <- {TraceKeeper}, Owner <- TraceKeeper, Agents <- Roles,
       DecisionIds <- Ids, Hashes <- Requests, Cids <- Requests,
       authorizedKeepers <- {TraceKeeper}

\* Program counters: "claim" .. "store" are awaits of a running handler, the
\* others its HTTP response (409, rejected, submitted, 500), or none at all.
InFlight == {"claim", "reject", "build", "submit", "poll", "trace", "execute", "await", "store"}
Responses == {"replayed", "rejected", "submitted", "error"}
Done == Responses \cup {"lost"}

Key(r) == <<decision[r].role, decision[r].id>>

Init ==
  /\ counter = [a \in Roles |-> 0]
  /\ restarts = 0 /\ crashes = 0 /\ flushes = 0
  /\ decision = [r \in Requests |-> NoDecision]
  /\ pc = [r \in Requests |-> "idle"]
  /\ claimed = {}
  /\ pinned = {}
  /\ tx = [r \in Requests |-> "none"]
  /\ commits = [i \in {} |-> 0]
  /\ byAgentDecision = [k \in Keys |-> 0]
  /\ totalCommits = 0
  /\ traceRow = [k \in Keys |-> NoRequest]
  /\ venue = [r \in Requests |-> "none"]
  /\ actionRows = {}
  /\ decisionRow = [r \in Requests |-> "none"]

-----------------------------------------------------------------------------
(* The agents.                                                              *)

\* Mutant: _next_id returns the counter before the increment.
AgentSubmitOldCounter(a, r, n, noop) ==
  /\ pc[r] = "idle"
  /\ counter[a] < MaxDecisionId
  /\ noop => a \in NoopRoles
  /\ counter' = [counter EXCEPT ![a] = counter[a] + 1]
  /\ decision' = [decision EXCEPT ![r] =
                    [role |-> a, id |-> counter[a], nonce |-> n, noop |-> noop]]
  /\ pc' = [pc EXCEPT ![r] = "claim"]
  /\ UNCHANGED <<restarts, faultVars, claimed, pinned, tx, chainVars, venue, rowVars>>

\* An agent's tick: number a decision and POST it.  The agent's HTTP client
\* waits 10 or 15 seconds and then goes on to its next tick whether or not
\* the handler has finished, so a tick does not wait for earlier requests.
\* The number sent is the counter after the increment; the nonce is the wall
\* clock in microseconds modulo 2^31, which comes round every 36 minutes.
AgentSubmit(a, r, n, noop) ==
  /\ pc[r] = "idle"
  /\ counter[a] < MaxDecisionId
  /\ noop => a \in NoopRoles
  /\ counter' = [counter EXCEPT ![a] = counter[a] + 1]
  /\ decision' = [decision EXCEPT ![r] =
                    [role |-> a, id |-> counter[a] + 1, nonce |-> n, noop |-> noop]]
  /\ pc' = [pc EXCEPT ![r] = "claim"]
  /\ UNCHANGED <<restarts, faultVars, claimed, pinned, tx, chainVars, venue, rowVars>>

\* A tick that uses a number up and submits nothing: AGROS below its
\* threshold, a decision that fails validation, an unreachable orchestrator.
AgentDropsId(a) ==
  /\ counter[a] < MaxDecisionId
  /\ counter' = [counter EXCEPT ![a] = counter[a] + 1]
  /\ UNCHANGED <<restarts, faultVars, decision, pc, claimed, pinned, tx, chainVars, venue, rowVars>>

\* The counter lives in the agent's process and starts again with it.
AgentRestart(a) ==
  /\ restarts < MaxRestarts
  /\ restarts' = restarts + 1
  /\ counter' = [counter EXCEPT ![a] = 0]
  /\ UNCHANGED <<faultVars, decision, pc, claimed, pinned, tx, chainVars, venue, rowVars>>

-----------------------------------------------------------------------------
(* The handler, from one await to the next.                                 *)

\* claim_nonce finds the nonce in the set: 409.
RefuseReplay(r) ==
  /\ pc[r] = "claim"
  /\ <<decision[r].role, decision[r].nonce>> \in claimed
  /\ pc' = [pc EXCEPT ![r] = "replayed"]
  /\ UNCHANGED <<agentVars, faultVars, decision, claimed, pinned, tx, chainVars, venue, rowVars>>

\* Mutant: the answer of SADD is not looked at.
ClaimNonceUnchecked(r, approved) ==
  /\ pc[r] = "claim"
  /\ claimed' = claimed \cup {<<decision[r].role, decision[r].nonce>>}
  /\ pc' = [pc EXCEPT ![r] = IF approved THEN "build" ELSE "reject"]
  /\ UNCHANGED <<agentVars, faultVars, decision, pinned, tx, chainVars, venue, rowVars>>

\* claim_nonce adds the nonce (SADD is atomic), and the risk gate, which does
\* not await, approves the decision or rejects it.
ClaimNonce(r, approved) ==
  /\ pc[r] = "claim"
  /\ <<decision[r].role, decision[r].nonce>> \notin claimed
  /\ claimed' = claimed \cup {<<decision[r].role, decision[r].nonce>>}
  /\ pc' = [pc EXCEPT ![r] = IF approved THEN "build" ELSE "reject"]
  /\ UNCHANGED <<agentVars, faultVars, decision, pinned, tx, chainVars, venue, rowVars>>

\* The unique constraints of the decisions table, on (agent_role,
\* decision_id) and on (agent_role, nonce).
RowConflict(r) ==
  \E s \in Requests \ {r} :
    /\ decisionRow[s] # "none"
    /\ decision[s].role = decision[r].role
    /\ decision[s].id = decision[r].id \/ decision[s].nonce = decision[r].nonce

\* Mutant: the handler does not return after storing the rejection.
StoreRejectedFallsThrough(r) ==
  /\ pc[r] = "reject"
  /\ pc' = [pc EXCEPT ![r] = "build"]
  /\ decisionRow' = [decisionRow EXCEPT ![r] = "rejected"]
  /\ UNCHANGED <<agentVars, faultVars, decision, claimed, pinned, tx, chainVars,
                 traceRow, venue, actionRows>>

\* store_decision of a rejected decision: an INSERT, which a conflict fails.
StoreRejected(r) ==
  /\ pc[r] = "reject"
  /\ IF RowConflict(r)
     THEN /\ pc' = [pc EXCEPT ![r] = "error"]
          /\ UNCHANGED decisionRow
     ELSE /\ pc' = [pc EXCEPT ![r] = "rejected"]
          /\ decisionRow' = [decisionRow EXCEPT ![r] = "rejected"]
  /\ UNCHANGED <<agentVars, faultVars, decision, claimed, pinned, tx, chainVars,
                 traceRow, venue, actionRows>>

\* Mutant: the body is hashed and never pinned.
PinTraceUnpinned(r) ==
  /\ pc[r] = "build"
  /\ pc' = [pc EXCEPT ![r] = "submit"]
  /\ UNCHANGED <<agentVars, faultVars, decision, claimed, pinned, tx, chainVars, venue, rowVars>>

\* pin_to_ipfs.  Content is its own identifier: the same body pinned again
\* is the same pin.
PinToIpfs(body) == pinned' = pinned \cup {body}

\* trace_builder reads the adapters; TracePipeline.commit assembles, hashes
\* and pins the body.
PinTrace(r) ==
  /\ pc[r] = "build"
  /\ PinToIpfs(r)
  /\ pc' = [pc EXCEPT ![r] = "submit"]
  /\ UNCHANGED <<agentVars, faultVars, decision, claimed, tx, chainVars, venue, rowVars>>

\* execute_contract hands commitTrace to Circle, which queues it.
SubmitCommit(r) ==
  /\ pc[r] = "submit"
  /\ tx' = [tx EXCEPT ![r] = "queued"]
  /\ pc' = [pc EXCEPT ![r] = "poll"]
  /\ UNCHANGED <<agentVars, faultVars, decision, claimed, pinned, chainVars, venue, rowVars>>

\* Mutants: a state that is not final, or a failed one, passes for success.
PollConfirmedEarly(r) ==
  /\ pc[r] = "poll"
  /\ tx[r] \in {"queued", "landed"}
  /\ pc' = [pc EXCEPT ![r] = "trace"]
  /\ UNCHANGED <<agentVars, faultVars, decision, claimed, pinned, tx, chainVars, venue, rowVars>>
PollConfirmedOnFailure(r) ==
  /\ pc[r] = "poll"
  /\ tx[r] \in {"failed", "landed"}
  /\ pc' = [pc EXCEPT ![r] = "trace"]
  /\ UNCHANGED <<agentVars, faultVars, decision, claimed, pinned, tx, chainVars, venue, rowVars>>

\* wait_for_tx sees CONFIRMED or COMPLETE.
PollConfirmed(r) ==
  /\ pc[r] = "poll"
  /\ tx[r] = "landed"
  /\ pc' = [pc EXCEPT ![r] = "trace"]
  /\ UNCHANGED <<agentVars, faultVars, decision, claimed, pinned, tx, chainVars, venue, rowVars>>

\* Mutants: the timeout is swallowed and the handler goes on; there is no
\* timeout, only a failure ends the polling.
PollSwallowsTimeout(r) ==
  /\ pc[r] = "poll"
  /\ tx[r] \in {"failed", "queued", "landed"}
  /\ pc' = [pc EXCEPT ![r] = "trace"]
  /\ UNCHANGED <<agentVars, faultVars, decision, claimed, pinned, tx, chainVars, venue, rowVars>>
PollForEver(r) ==
  /\ pc[r] = "poll"
  /\ tx[r] = "failed"
  /\ pc' = [pc EXCEPT ![r] = "error"]
  /\ UNCHANGED <<agentVars, faultVars, decision, claimed, pinned, tx, chainVars, venue, rowVars>>

\* wait_for_tx sees FAILED, CANCELLED or DENIED and raises, or it raises
\* TimeoutError after POLL_TIMEOUT_SEC: the transaction may still be queued,
\* or have landed since the last poll.
PollGivesUp(r) ==
  /\ pc[r] = "poll"
  /\ tx[r] \in {"failed", "queued", "landed"}
  /\ pc' = [pc EXCEPT ![r] = "error"]
  /\ UNCHANGED <<agentVars, faultVars, decision, claimed, pinned, tx, chainVars, venue, rowVars>>

\* store_trace: INSERT ... ON CONFLICT DO UPDATE on (decision_id, agent_role).
StoreTrace(r) ==
  /\ pc[r] = "trace"
  /\ traceRow' = [traceRow EXCEPT ![Key(r)] = r]
  /\ pc' = [pc EXCEPT ![r] = "execute"]
  /\ UNCHANGED <<agentVars, faultVars, decision, claimed, pinned, tx, chainVars, venue,
                 actionRows, decisionRow>>

\* The executor sends the order, quote, subscription or transfer.
SendAction(r) ==
  /\ pc[r] = "execute"
  /\ ~decision[r].noop
  /\ venue' = [venue EXCEPT ![r] = "sent"]
  /\ pc' = [pc EXCEPT ![r] = "await"]
  /\ UNCHANGED <<agentVars, faultVars, decision, claimed, pinned, tx, chainVars, rowVars>>

\* _execute_treasury returns at once for a noop.
SkipNoop(r) ==
  /\ pc[r] = "execute"
  /\ decision[r].noop
  /\ pc' = [pc EXCEPT ![r] = "store"]
  /\ UNCHANGED <<agentVars, faultVars, decision, claimed, pinned, tx, chainVars, venue, rowVars>>

\* Mutant: the executor does not wait for the venue's answer.
RecordActionUnanswered(r) ==
  /\ pc[r] = "await"
  /\ venue[r] \in {"sent", "acted"}
  /\ actionRows' = IF decision[r].role \in RecordingRoles THEN actionRows \cup {r} ELSE actionRows
  /\ pc' = [pc EXCEPT ![r] = "store"]
  /\ UNCHANGED <<agentVars, faultVars, decision, claimed, pinned, tx, chainVars, venue,
                 traceRow, decisionRow>>

\* The venue's answer arrives; record_hedge or record_treasury writes it.
RecordAction(r) ==
  /\ pc[r] = "await"
  /\ venue[r] = "acted"
  /\ actionRows' = IF decision[r].role \in RecordingRoles THEN actionRows \cup {r} ELSE actionRows
  /\ pc' = [pc EXCEPT ![r] = "store"]
  /\ UNCHANGED <<agentVars, faultVars, decision, claimed, pinned, tx, chainVars, venue,
                 traceRow, decisionRow>>

\* The venue refuses, or the executor's call to it fails with the order's
\* fate unknown: 500.
ExecutionFails(r) ==
  /\ pc[r] = "await"
  /\ venue[r] \in {"refused", "sent"}
  /\ pc' = [pc EXCEPT ![r] = "error"]
  /\ UNCHANGED <<agentVars, faultVars, decision, claimed, pinned, tx, chainVars, venue, rowVars>>

\* store_decision of an approved decision, after it was executed, and the
\* broadcast to the dashboards.
StoreDecision(r) ==
  /\ pc[r] = "store"
  /\ IF RowConflict(r)
     THEN /\ pc' = [pc EXCEPT ![r] = "error"]
          /\ UNCHANGED decisionRow
     ELSE /\ pc' = [pc EXCEPT ![r] = "submitted"]
          /\ decisionRow' = [decisionRow EXCEPT ![r] = "approved"]
  /\ UNCHANGED <<agentVars, faultVars, decision, claimed, pinned, tx, chainVars,
                 traceRow, venue, actionRows>>

\* Any awaited call (Redis, Postgres, an adapter, Circle) may raise.
HandlerRaises(r) ==
  /\ pc[r] \in RaisePoints \cap InFlight
  /\ pc' = [pc EXCEPT ![r] = "error"]
  /\ UNCHANGED <<agentVars, faultVars, decision, claimed, pinned, tx, chainVars, venue, rowVars>>

HandlerStep(r) ==
  \/ RefuseReplay(r)
  \/ \E approved \in BOOLEAN : ClaimNonce(r, approved)
  \/ StoreRejected(r)
  \/ PinTrace(r)
  \/ SubmitCommit(r)
  \/ PollConfirmed(r)
  \/ PollGivesUp(r)
  \/ StoreTrace(r)
  \/ SendAction(r)
  \/ SkipNoop(r)
  \/ RecordAction(r)
  \/ ExecutionFails(r)
  \/ StoreDecision(r)

-----------------------------------------------------------------------------
(* Circle and the Arc chain, the venues, and the machine underneath.        *)

\* The queued transaction executes commitTrace.
TxLands(r) ==
  /\ tx[r] = "queued"
  /\ Registry!CommitTrace(TraceKeeper, decision[r].role, decision[r].id, r, r)
  /\ tx' = [tx EXCEPT ![r] = "landed"]
  /\ UNCHANGED <<agentVars, faultVars, decision, pc, claimed, pinned, venue, rowVars>>

\* It reverts (DuplicateDecision above all), or Circle cancels or denies it.
TxFails(r) ==
  /\ tx[r] = "queued"
  /\ tx' = [tx EXCEPT ![r] = "failed"]
  /\ UNCHANGED <<agentVars, faultVars, decision, pc, claimed, pinned, chainVars, venue, rowVars>>

\* A venue decides on an order it was sent, whoever still waits for it.
VenueAnswers(r) ==
  /\ venue[r] = "sent"
  /\ \E answer \in {"acted", "refused"} : venue' = [venue EXCEPT ![r] = answer]
  /\ UNCHANGED <<agentVars, faultVars, decision, pc, claimed, pinned, tx, chainVars, rowVars>>

\* The orchestrator's process dies: running handlers end without a response.
OrchestratorCrash ==
  /\ crashes < MaxCrashes
  /\ \E r \in Requests : pc[r] \in InFlight
  /\ crashes' = crashes + 1
  /\ pc' = [r \in Requests |-> IF pc[r] \in InFlight THEN "lost" ELSE pc[r]]
  /\ UNCHANGED <<agentVars, flushes, decision, claimed, pinned, tx, chainVars, venue, rowVars>>

\* Redis restarts from a snapshot that misses some of the latest nonces.
RedisLosesNonces ==
  /\ flushes < MaxFlushes
  /\ flushes' = flushes + 1
  /\ claimed' \in SUBSET claimed \ {claimed}
  /\ UNCHANGED <<agentVars, crashes, decision, pc, pinned, tx, chainVars, venue, rowVars>>

AgentStep(a) ==
  \/ \E r \in Requests, n \in Nonces, noop \in BOOLEAN : AgentSubmit(a, r, n, noop)
  \/ AgentDropsId(a)
  \/ AgentRestart(a)

Next ==
  \/ \E a \in Roles : AgentStep(a)
  \/ \E r \in Requests : HandlerStep(r) \/ HandlerRaises(r)
  \/ \E r \in Requests : TxLands(r) \/ TxFails(r) \/ VenueAnswers(r)
  \/ OrchestratorCrash
  \/ RedisLosesNonces

Spec == Init /\ [][Next]_vars

\* The event loop runs every handler whose await is over, and a venue gives
\* its answer to every order it was sent.  Nothing is assumed of the chain.
Fairness == \A r \in Requests : WF_vars(HandlerStep(r)) /\ WF_vars(VenueAnswers(r))

FairSpec == Spec /\ Fairness

-----------------------------------------------------------------------------
\* The body the registry holds for the decision of r is r's own.
Anchored(r) ==
  /\ byAgentDecision[Key(r)] # 0
  /\ commits[byAgentDecision[Key(r)]].traceHash = r

\* Types, with the registry's own: its indices run without a hole.
TypeOK ==
  /\ counter \in [Roles -> 0 .. MaxDecisionId]
  /\ restarts \in 0 .. MaxRestarts /\ crashes \in 0 .. MaxCrashes /\ flushes \in 0 .. MaxFlushes
  /\ decision \in [Requests -> Decision \cup {NoDecision}]
  /\ pc \in [Requests -> {"idle"} \cup InFlight \cup Done]
  /\ claimed \subseteq Roles \X Nonces
  /\ pinned \subseteq Requests
  /\ tx \in [Requests -> {"none", "queued", "landed", "failed"}]
  /\ Registry!TypeOK
  /\ traceRow \in [Keys -> Requests \cup {NoRequest}]
  /\ venue \in [Requests -> {"none", "sent", "acted", "refused"}]
  /\ actionRows \subseteq Requests
  /\ decisionRow \in [Requests -> {"none", "rejected", "approved"}]

\* "The pin + commit must succeed BEFORE the order submits": whatever reached
\* a venue had its own body pinned and committed under its decision, in the
\* chain's log and not merely in the handler's memory.
AnchorBeforeExecution ==
  \A r \in Requests : venue[r] # "none" => r \in pinned /\ Anchored(r)

\* A decision id is acted upon at most once.  Agents reuse ids after a
\* restart, nonces may be forgotten and clients time out: what stops a second
\* execution is the registry's duplicate check together with the handler
\* waiting for its own transaction.
ExecutedOncePerDecision ==
  \A r, s \in Requests :
    venue[r] = "acted" /\ venue[s] = "acted" /\ Key(r) = Key(s) => r = s

\* A request that was refused as a replay or stored as rejected left nothing
\* behind it, on IPFS, at Circle, at a venue or in another table.
RefusedLeavesNothing ==
  \A r \in Requests :
    pc[r] = "replayed" \/ decisionRow[r] = "rejected" =>
      /\ r \notin pinned /\ tx[r] = "none" /\ venue[r] = "none"
      /\ r \notin actionRows
      /\ \A k \in Keys : traceRow[k] # r

\* The traces table never disagrees with the chain: the hash of a row is the
\* hash the registry holds for that agent and decision.
TraceRowsMatchChain ==
  \A k \in Keys : traceRow[k] # NoRequest =>
    /\ byAgentDecision[k] # 0
    /\ commits[byAgentDecision[k]].traceHash = traceRow[k]

\* store_trace is an upsert "so retries don't violate the unique constraint";
\* it never replaces the trace of one request by that of another.
TraceRowsWriteOnce ==
  [][\A k \in Keys : traceRow[k] # NoRequest => traceRow'[k] = traceRow[k]]_vars

\* As long as Redis forgets nothing, one request at most gets past the nonce
\* check with a given role and nonce, however requests interleave.
NonceAdmitsOnce ==
  flushes = 0 =>
    \A r, s \in Requests :
      /\ r \in pinned \/ decisionRow[r] # "none"
      /\ s \in pinned \/ decisionRow[s] # "none"
      /\ decision[r].role = decision[s].role /\ decision[r].nonce = decision[s].nonce
      => r = s

\* An approved row in decisions proves the whole lifecycle: its trace row is
\* there and its own, its action was taken, and recorded where the role records.
ApprovedRowIsEvidence ==
  \A r \in Requests : decisionRow[r] = "approved" =>
    /\ traceRow[Key(r)] = r
    /\ decision[r].noop \/ venue[r] = "acted"
    /\ decision[r].role \in RecordingRoles /\ ~decision[r].noop => r \in actionRows

\* The lifecycle implements AnchoredExecution: the registry's log is the
\* anchor, the venues' fills are the acts.
anchorOf == [k \in Keys |-> IF byAgentDecision[k] = 0 THEN NoRequest
                            ELSE commits[byAgentDecision[k]].traceHash]
actsOf == {<<Key(r), r>> : r \in {q \in Requests : venue[q] = "acted"}}

Anchoring == INSTANCE AnchoredExecution
  WITH Bodies <- Requests, NoBody <- NoRequest, anchor <- anchorOf, acts <- actsOf

AnchoringSpec == Anchoring!Spec

\* Every submitted request is answered, or dies with the process: the chain
\* may stall for ever and a handler still returns.
EveryRequestEnds == \A r \in Requests : pc[r] = "claim" ~> pc[r] \in Done

-----------------------------------------------------------------------------
(* A statement of the repository that the code does not keep.               *)

\* models.py: decisions holds "every approved or rejected decision an agent
\* submits".  A request whose handler has ended and whose action was taken and
\* recorded should then have an approved row.
ExecutedDecisionIsStored ==
  \A r \in Requests : pc[r] \in Done /\ r \in actionRows => decisionRow[r] = "approved"
=============================================================================
