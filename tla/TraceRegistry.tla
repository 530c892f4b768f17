--------------------------- MODULE TraceRegistry ---------------------------
(***************************************************************************)
(* The TraceRegistry contract (contracts/src/TraceRegistry.sol): the       *)
(* on-chain, append-only log of decision hashes.  A transaction is one     *)
(* atomic step; a reverted transaction changes nothing and is therefore no *)
(* step at all.  The block timestamp is left out.                          *)
(***************************************************************************)
EXTENDS Naturals

CONSTANTS
  Addresses,    \* accounts that send transactions
  Owner,        \* msg.sender of the constructor; there is no transfer of it
  Agents,       \* agent ids
  DecisionIds,  \* decision ids agents use
  Hashes,       \* sha256 values of trace bodies
  Cids          \* IPFS content ids

ASSUME OwnerAssumption == Owner \in Addresses

VARIABLES
  commits,            \* commitIndex -> Commit, defined on the indices written
  byAgentDecision,    \* (agentId, decisionId) -> commitIndex, 0 when absent
  totalCommits,
  authorizedKeepers

logVars == <<commits, byAgentDecision, totalCommits>>
vars == <<commits, byAgentDecision, totalCommits, authorizedKeepers>>

Commit == [agentId : Agents, decisionId : DecisionIds,
           traceHash : Hashes, ipfsCid : Cids]

Init ==
  /\ commits = [i \in {} |-> 0]
  /\ byAgentDecision = [k \in Agents \X DecisionIds |-> 0]
  /\ totalCommits = 0
  /\ authorizedKeepers = {Owner}

-----------------------------------------------------------------------------
\* setKeeper: only the owner authorises or revokes a keeper.
SetKeeper(caller, keeper, authorized) ==
  /\ caller = Owner
  /\ authorizedKeepers' = IF authorized THEN authorizedKeepers \cup {keeper}
                                        ELSE authorizedKeepers \ {keeper}
  /\ UNCHANGED logVars

\* The mapping write commits[idx] = c.
WithCommit(idx, c) ==
  [i \in DOMAIN commits \cup {idx} |-> IF i = idx THEN c ELSE commits[i]]

\* Mutants: the duplicate check is gone; the index is read before the
\* increment.
CommitTraceTwice(caller, agent, id, hash, cid) ==
  /\ caller \in authorizedKeepers
  /\ totalCommits' = totalCommits + 1
  /\ commits' = WithCommit(totalCommits + 1,
                  [agentId |-> agent, decisionId |-> id,
                   traceHash |-> hash, ipfsCid |-> cid])
  /\ byAgentDecision' = [byAgentDecision EXCEPT ![<<agent, id>>] = totalCommits + 1]
  /\ UNCHANGED authorizedKeepers
CommitTraceOldIndex(caller, agent, id, hash, cid) ==
  /\ caller \in authorizedKeepers
  /\ byAgentDecision[<<agent, id>>] = 0
  /\ totalCommits' = totalCommits + 1
  /\ commits' = WithCommit(totalCommits,
                  [agentId |-> agent, decisionId |-> id,
                   traceHash |-> hash, ipfsCid |-> cid])
  /\ byAgentDecision' = [byAgentDecision EXCEPT ![<<agent, id>>] = totalCommits]
  /\ UNCHANGED authorizedKeepers

\* commitTrace: NotAuthorized and DuplicateDecision revert, so both are guards.
CommitTrace(caller, agent, id, hash, cid) ==
  /\ caller \in authorizedKeepers
  /\ byAgentDecision[<<agent, id>>] = 0
  /\ totalCommits' = totalCommits + 1
  /\ commits' = WithCommit(totalCommits + 1,
                  [agentId |-> agent, decisionId |-> id,
                   traceHash |-> hash, ipfsCid |-> cid])
  /\ byAgentDecision' = [byAgentDecision EXCEPT ![<<agent, id>>] = totalCommits + 1]
  /\ UNCHANGED authorizedKeepers

Next ==
  \/ \E caller, keeper \in Addresses, authorized \in BOOLEAN :
        SetKeeper(caller, keeper, authorized)
  \/ \E caller \in Addresses, agent \in Agents, id \in DecisionIds,
        hash \in Hashes, cid \in Cids : CommitTrace(caller, agent, id, hash, cid)

Spec == Init /\ [][Next]_vars

-----------------------------------------------------------------------------
\* verifyTrace: does the stored hash of (agent, id) equal the hash of a body?
VerifyTrace(agent, id, hash) ==
  /\ byAgentDecision[<<agent, id>>] # 0
  /\ commits[byAgentDecision[<<agent, id>>]].traceHash = hash

\* getCommit: the commit of a decision, none where the call reverts.
GetCommit(agent, id) ==
  {commits[i] : i \in {byAgentDecision[<<agent, id>>]} \ {0}}

-----------------------------------------------------------------------------
\* Indices run from 1 to totalCommits without a hole, over stored commits.
TypeOK ==
  /\ totalCommits \in Nat
  /\ commits \in [1 .. totalCommits -> Commit]
  /\ byAgentDecision \in [Agents \X DecisionIds -> 0 .. totalCommits]
  /\ authorizedKeepers \subseteq Addresses

\* The two mappings are inverse to one another: an index found through
\* byAgentDecision leads to a commit of that very decision, and every commit
\* of the log is the one its decision is found under.  No commit is shadowed
\* by a later one and no decision is stored twice.
IndexIsInverse ==
  /\ \A agent \in Agents, id \in DecisionIds :
        byAgentDecision[<<agent, id>>] # 0 =>
          /\ commits[byAgentDecision[<<agent, id>>]].agentId = agent
          /\ commits[byAgentDecision[<<agent, id>>]].decisionId = id
  /\ \A i \in 1 .. totalCommits :
        byAgentDecision[<<commits[i].agentId, commits[i].decisionId>>] = i

\* The title of the contract, "append-only log": whatever keepers and the
\* owner do, a stored commit stays stored, unchanged and under its index.
AppendOnly ==
  [][\A i \in DOMAIN commits : i \in DOMAIN commits' /\ commits'[i] = commits[i]]_vars

\* A body that verifies for a decision keeps verifying: neither a later
\* commit nor a revocation of the keeper that wrote it withdraws the proof.
VerifiedForever ==
  [][\A agent \in Agents, id \in DecisionIds, hash \in Hashes :
        VerifyTrace(agent, id, hash) => VerifyTrace(agent, id, hash)']_vars
=============================================================================
