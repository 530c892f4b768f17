----------------------------- MODULE TraceAudit -----------------------------
(***************************************************************************)
(* What a reader of the system can establish afterwards about a decision:  *)
(* the trace endpoints of the orchestrator (routers/traces.py) and the     *)
(* audit script (scripts/live/verify_trace.py) over the state of           *)
(* DecisionLifecycle.  They change nothing, and what they read in several  *)
(* calls (a commit, a pinned body) is never changed once it is there, so   *)
(* each is the set of answers it may give in a state.                      *)
(***************************************************************************)
EXTENDS DecisionLifecycle

\* The columns of a row of traces, which _to_dict makes the keys of the
\* dictionary the endpoints work on.
TraceColumns == {"id", "decision_id", "agent_role", "trace_hash", "cid",
                 "arc_tx", "arc_block", "body", "committed_at"}

\* get_trace: the rows with this decision id, whichever agent they are of;
\* .first() picks one of them.
GetTrace(id) == {traceRow[k] : k \in {j \in Keys : j[2] = id}} \ {NoRequest}

\* get_trace_by_hash: the rows with this hash, as the keys they are stored under.
GetTraceByHash(hash) == {k \in Keys : traceRow[k] = hash}

\* fetch_from_ipfs: every gateway may fail, whatever is pinned.
FetchFromIpfs(cid) == {NoRequest} \cup ({cid} \cap pinned)

\* GET /traces/{decision_id}/verify on the row it was given: the value of
\* trace["ipfs_cid"], or a KeyError that FastAPI answers with 500.
VerifyRow(row) ==
  IF "ipfs_cid" \in TraceColumns
  THEN {IF body = NoRequest THEN "502"
        ELSE IF body = row THEN "matches" ELSE "differs" : body \in FetchFromIpfs(row)}
  ELSE {"500"}

\* The endpoint's answers for a decision id.
VerifyEndpoint(id) ==
  IF GetTrace(id) = {} THEN {"404"} ELSE UNION {VerifyRow(row) : row \in GetTrace(id)}

\* get_trace_commit: getCommit of the contract, None when it reverts; the RPC
\* node may fail as well.
GetTraceCommit(k) ==
  {NoRequest} \cup {c.ipfsCid : c \in Registry!GetCommit(k[1], k[2])}

\* verify_existing: fetch the body by the content id on chain, compare its
\* hash with the one on chain, and ask the contract's verifyTrace.
VerifyBody(k, body) ==
  IF body = NoRequest THEN "unavailable"
  ELSE IF /\ commits[byAgentDecision[k]].traceHash = body
          /\ Registry!VerifyTrace(k[1], k[2], body)
       THEN "verified" ELSE "mismatch"
VerifyExisting(k) ==
  UNION {IF cid = NoRequest THEN {"no commit"}
         ELSE {VerifyBody(k, body) : body \in FetchFromIpfs(cid)} : cid \in GetTraceCommit(k)}

-----------------------------------------------------------------------------
\* Every commit of the log passes the audit: whatever crashed, raised or timed
\* out around it, the script may fail to reach a gateway but can find the body
\* and never finds a different one; and a trace found by the hash of a body is
\* a decision whose commit carries that body.
CommitsPassTheAudit ==
  /\ \A i \in 1 .. totalCommits :
       LET answers == VerifyExisting(<<commits[i].agentId, commits[i].decisionId>>) IN
         "verified" \in answers /\ "mismatch" \notin answers
  /\ \A r \in Requests : \A k \in GetTraceByHash(r) : VerifyBody(k, r) = "verified"

\* verify_trace of the endpoint: "Fetch the IPFS body, recompute sha256,
\* confirm it matches the on-chain hash."  With a gateway that answers, some
\* stored trace should then be confirmed.
StoredTraceCanBeConfirmed ==
  \A id \in Ids : GetTrace(id) # {} => "matches" \in VerifyEndpoint(id)
=============================================================================
