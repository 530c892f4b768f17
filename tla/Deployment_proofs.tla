-------------------------- MODULE Deployment_proofs --------------------------
(***************************************************************************)
(* Theorems about the trace registry, for every set of accounts, agents,   *)
(* decision ids, hashes and content ids, and about the deployment: the     *)
(* deployed TraceRegistry is that registry, builder codes name their       *)
(* agents, and the bootstrap script keeps the entity secret and the trace  *)
(* keeper.                                                                 *)
(***************************************************************************)
EXTENDS Deployment, FiniteSetTheorems, TLAPS

-----------------------------------------------------------------------------
(* The trace registry on its own.                                           *)

(* What commitTrace does to the log, given a well-typed log: it extends it   *)
(* at the end by one commit and leaves every earlier commit where it was.    *)
LEMMA CommitExtends ==
  ASSUME TypeOK,
         NEW caller \in Addresses, NEW agent \in Agents, NEW id \in DecisionIds,
         NEW hash \in Hashes, NEW cid \in Cids,
         CommitTrace(caller, agent, id, hash, cid)
  PROVE  /\ totalCommits' = totalCommits + 1
         /\ commits' \in [1 .. totalCommits' -> Commit]
         /\ \A i \in 1 .. totalCommits : commits'[i] = commits[i]
         /\ commits'[totalCommits'] = [agentId |-> agent, decisionId |-> id,
                                       traceHash |-> hash, ipfsCid |-> cid]
  <1> DEFINE c == [agentId |-> agent, decisionId |-> id,
                   traceHash |-> hash, ipfsCid |-> cid]
  <1>1. c \in Commit
    BY DEF Commit
  <1>2. commits' = [i \in DOMAIN commits \cup {totalCommits + 1} |->
                      IF i = totalCommits + 1 THEN c ELSE commits[i]]
    BY DEF CommitTrace, WithCommit
  <1>3. /\ totalCommits \in Nat
        /\ totalCommits' = totalCommits + 1
        /\ DOMAIN commits = 1 .. totalCommits
        /\ \A i \in 1 .. totalCommits : commits[i] \in Commit
    BY DEF TypeOK, CommitTrace
  <1>4. DOMAIN commits \cup {totalCommits + 1} = 1 .. totalCommits'
    BY <1>3
  <1> HIDE DEF c
  <1>5. commits' = [i \in 1 .. totalCommits' |->
                      IF i = totalCommits + 1 THEN c ELSE commits[i]]
    BY <1>2, <1>4
  <1>6. commits' \in [1 .. totalCommits' -> Commit]
    BY <1>1, <1>3, <1>5
  <1>7. \A i \in 1 .. totalCommits : commits'[i] = commits[i]
    BY <1>3, <1>5
  <1>8. commits'[totalCommits'] = c
    BY <1>3, <1>5
  <1>9. QED BY <1>3, <1>6, <1>7, <1>8 DEF c

-----------------------------------------------------------------------------
\* The log's indices are always exactly 1..totalCommits, over well-formed
\* commits, whatever the sequence of transactions.
THEOREM TypeCorrect == Spec => []TypeOK
  <1>1. Init => TypeOK
    BY OwnerAssumption DEF Init, TypeOK
  <1>2. TypeOK /\ [Next]_vars => TypeOK'
    <2> SUFFICES ASSUME TypeOK, [Next]_vars PROVE TypeOK'
      OBVIOUS
    <2>1. CASE UNCHANGED vars
      BY <2>1 DEF vars, TypeOK
    <2>2. ASSUME NEW caller \in Addresses, NEW keeper \in Addresses,
                 NEW authorized \in BOOLEAN, SetKeeper(caller, keeper, authorized)
          PROVE  TypeOK'
      BY <2>2 DEF SetKeeper, logVars, TypeOK
    <2>3. ASSUME NEW caller \in Addresses, NEW agent \in Agents, NEW id \in DecisionIds,
                 NEW hash \in Hashes, NEW cid \in Cids,
                 CommitTrace(caller, agent, id, hash, cid)
          PROVE  TypeOK'
      <3>1. totalCommits' = totalCommits + 1 /\ commits' \in [1 .. totalCommits' -> Commit]
        BY <2>3, CommitExtends
      <3>2. totalCommits \in Nat /\ byAgentDecision \in [Agents \X DecisionIds -> 0 .. totalCommits]
        BY DEF TypeOK
      <3>3. byAgentDecision' = [byAgentDecision EXCEPT ![<<agent, id>>] = totalCommits + 1]
        BY <2>3 DEF CommitTrace
      <3>4. byAgentDecision' \in [Agents \X DecisionIds -> 0 .. totalCommits']
        BY <3>1, <3>2, <3>3
      <3>5. authorizedKeepers' \subseteq Addresses
        BY <2>3 DEF CommitTrace, TypeOK
      <3>6. QED BY <3>1, <3>2, <3>4, <3>5 DEF TypeOK
    <2>4. QED BY <2>1, <2>2, <2>3 DEF Next
  <1>3. QED BY <1>1, <1>2, PTL DEF Spec

-----------------------------------------------------------------------------
\* byAgentDecision and commits stay inverse to one another: no commit is ever
\* shadowed and no decision is ever found under another's commit.
THEOREM IndexCorrect == Spec => []IndexIsInverse
  <1>1. Init => IndexIsInverse
    BY DEF Init, IndexIsInverse
  <1>2. TypeOK /\ IndexIsInverse /\ [Next]_vars => IndexIsInverse'
    <2> SUFFICES ASSUME TypeOK, IndexIsInverse, [Next]_vars PROVE IndexIsInverse'
      OBVIOUS
    <2>1. CASE UNCHANGED vars
      BY <2>1 DEF vars, IndexIsInverse
    <2>2. ASSUME NEW caller \in Addresses, NEW keeper \in Addresses,
                 NEW authorized \in BOOLEAN, SetKeeper(caller, keeper, authorized)
          PROVE  IndexIsInverse'
      BY <2>2 DEF SetKeeper, logVars, IndexIsInverse
    <2>3. ASSUME NEW caller \in Addresses, NEW agent \in Agents, NEW id \in DecisionIds,
                 NEW hash \in Hashes, NEW cid \in Cids,
                 CommitTrace(caller, agent, id, hash, cid)
          PROVE  IndexIsInverse'
      <3>1. /\ totalCommits' = totalCommits + 1
            /\ \A i \in 1 .. totalCommits : commits'[i] = commits[i]
            /\ commits'[totalCommits'].agentId = agent
            /\ commits'[totalCommits'].decisionId = id
        <4>1. /\ totalCommits' = totalCommits + 1
              /\ \A i \in 1 .. totalCommits : commits'[i] = commits[i]
              /\ commits'[totalCommits'] = [agentId |-> agent, decisionId |-> id,
                                            traceHash |-> hash, ipfsCid |-> cid]
          BY <2>3, CommitExtends
        <4>2. QED BY <4>1
      <3>2. /\ byAgentDecision' = [byAgentDecision EXCEPT ![<<agent, id>>] = totalCommits + 1]
            /\ byAgentDecision[<<agent, id>>] = 0
        BY <2>3 DEF CommitTrace
      <3>3. /\ totalCommits \in Nat
            /\ byAgentDecision \in [Agents \X DecisionIds -> 0 .. totalCommits]
            /\ \A i \in 1 .. totalCommits :
                 commits[i].agentId \in Agents /\ commits[i].decisionId \in DecisionIds
        BY DEF TypeOK, Commit
      <3>4. ASSUME NEW a \in Agents, NEW d \in DecisionIds, byAgentDecision'[<<a, d>>] # 0
            PROVE  /\ commits'[byAgentDecision'[<<a, d>>]].agentId = a
                   /\ commits'[byAgentDecision'[<<a, d>>]].decisionId = d
        <4>1. CASE a = agent /\ d = id
          BY <3>1, <3>2, <3>3, <4>1
        <4>2. CASE ~(a = agent /\ d = id)
          <5>1. <<a, d>> # <<agent, id>>
            BY <4>2
          <5>2. byAgentDecision'[<<a, d>>] = byAgentDecision[<<a, d>>]
            BY <3>2, <3>3, <5>1
          <5>3. byAgentDecision[<<a, d>>] \in 1 .. totalCommits
            BY <3>3, <3>4, <5>2
          <5>4. QED BY <3>1, <5>2, <5>3 DEF IndexIsInverse
        <4>3. QED BY <4>1, <4>2
      <3>5. ASSUME NEW i \in 1 .. totalCommits'
            PROVE  byAgentDecision'[<<commits'[i].agentId, commits'[i].decisionId>>] = i
        <4>1. CASE i = totalCommits'
          BY <3>1, <3>2, <3>3, <4>1
        <4>2. CASE i # totalCommits'
          <5>1. i \in 1 .. totalCommits
            BY <3>1, <3>3, <4>2
          <5>2. byAgentDecision[<<commits[i].agentId, commits[i].decisionId>>] = i
            BY <5>1 DEF IndexIsInverse
          <5>3. <<commits[i].agentId, commits[i].decisionId>> # <<agent, id>>
            BY <3>2, <5>1, <5>2
          <5>4. QED BY <3>1, <3>2, <3>3, <5>1, <5>2, <5>3
        <4>3. QED BY <4>1, <4>2
      <3>6. QED BY <3>4, <3>5 DEF IndexIsInverse
    <2>4. QED BY <2>1, <2>2, <2>3 DEF Next
  <1>3. QED BY <1>1, <1>2, TypeCorrect, PTL DEF Spec

-----------------------------------------------------------------------------
\* No transaction removes or rewrites a stored commit.
THEOREM LogIsAppendOnly == Spec => AppendOnly
  <1> DEFINE Kept == \A i \in DOMAIN commits :
                       i \in DOMAIN commits' /\ commits'[i] = commits[i]
  <1>1. TypeOK /\ [Next]_vars => [Kept]_vars
    <2> SUFFICES ASSUME TypeOK, Next PROVE Kept
      OBVIOUS
    <2>1. ASSUME NEW caller \in Addresses, NEW keeper \in Addresses,
                 NEW authorized \in BOOLEAN, SetKeeper(caller, keeper, authorized)
          PROVE  Kept
      BY <2>1 DEF SetKeeper, logVars
    <2>2. ASSUME NEW caller \in Addresses, NEW agent \in Agents, NEW id \in DecisionIds,
                 NEW hash \in Hashes, NEW cid \in Cids,
                 CommitTrace(caller, agent, id, hash, cid)
          PROVE  Kept
      <3>1. /\ totalCommits' = totalCommits + 1
            /\ commits' \in [1 .. totalCommits' -> Commit]
            /\ \A i \in 1 .. totalCommits : commits'[i] = commits[i]
        BY <2>2, CommitExtends
      <3>2. totalCommits \in Nat /\ DOMAIN commits = 1 .. totalCommits
        BY DEF TypeOK
      <3>3. QED BY <3>1, <3>2
    <2>3. QED BY <2>1, <2>2 DEF Next
  <1>2. QED BY <1>1, TypeCorrect, PTL DEF Spec, AppendOnly

\* A body that verifies once verifies in every later state.
THEOREM VerificationIsStable == Spec => VerifiedForever
  <1> DEFINE Stable == \A agent \in Agents, id \in DecisionIds, hash \in Hashes :
                         VerifyTrace(agent, id, hash) => VerifyTrace(agent, id, hash)'
  <1>1. TypeOK /\ [Next]_vars => [Stable]_vars
    <2> SUFFICES ASSUME TypeOK, Next,
                        NEW a \in Agents, NEW d \in DecisionIds, NEW h \in Hashes,
                        VerifyTrace(a, d, h)
                 PROVE  VerifyTrace(a, d, h)'
      OBVIOUS
    <2>1. ASSUME NEW caller \in Addresses, NEW keeper \in Addresses,
                 NEW authorized \in BOOLEAN, SetKeeper(caller, keeper, authorized)
          PROVE  VerifyTrace(a, d, h)'
      BY <2>1 DEF SetKeeper, logVars, VerifyTrace
    <2>2. ASSUME NEW caller \in Addresses, NEW agent \in Agents, NEW id \in DecisionIds,
                 NEW hash \in Hashes, NEW cid \in Cids,
                 CommitTrace(caller, agent, id, hash, cid)
          PROVE  VerifyTrace(a, d, h)'
      <3>1. \A i \in 1 .. totalCommits : commits'[i] = commits[i]
        BY <2>2, CommitExtends
      <3>2. byAgentDecision[<<a, d>>] \in 1 .. totalCommits
        BY DEF TypeOK, VerifyTrace
      <3>3. byAgentDecision'[<<a, d>>] = byAgentDecision[<<a, d>>]
        BY <2>2 DEF CommitTrace, VerifyTrace, TypeOK
      <3>4. QED BY <3>1, <3>2, <3>3 DEF VerifyTrace
    <2>3. QED BY <2>1, <2>2 DEF Next
  <1>2. QED BY <1>1, TypeCorrect, PTL DEF Spec, VerifiedForever

-----------------------------------------------------------------------------
(* The entity secret.                                                       *)

\* Circle never knows another secret than the one in the file: the file is
\* written first, and never again once it is there.
THEOREM SecretIsKept == SystemSpec => []RegisteredSecretIsOnFile
  <1> USE DEF RegisteredSecretIsOnFile, Boot!RegisteredSecretIsOnFile
  <1>1. SystemInit => RegisteredSecretIsOnFile
    BY DEF SystemInit, Boot!Init
  <1>2. RegisteredSecretIsOnFile /\ [SystemNext]_systemVars => RegisteredSecretIsOnFile'
    <2> SUFFICES ASSUME RegisteredSecretIsOnFile, [SystemNext]_systemVars
                 PROVE  RegisteredSecretIsOnFile'
      OBVIOUS
    <2>1. CASE Boot!LoadOrCreateSecret
      BY <2>1 DEF Boot!LoadOrCreateSecret, Boot!circleVars
    <2>2. CASE Boot!RegisterSecret
      BY <2>2 DEF Boot!RegisterSecret
    <2>3. CASE UNCHANGED <<registered, secretFile>>
      BY <2>3
    <2>4. ASSUME Boot!Next PROVE Boot!LoadOrCreateSecret \/ Boot!RegisterSecret
                                 \/ UNCHANGED <<registered, secretFile>>
      <3> USE DEF Boot!fileVars, Boot!circleVars, Boot!envVars
      <3>1. CASE Boot!Run \/ Boot!SkipRegistration \/ Boot!Stop
        BY <3>1 DEF Boot!Run, Boot!SkipRegistration, Boot!Stop
      <3>2. CASE Boot!ListWalletSets \/ Boot!CreateWalletSet \/ Boot!ListWallets
        BY <3>2 DEF Boot!ListWalletSets, Boot!CreateWalletSet, Boot!ListWallets
      <3>3. CASE Boot!CreateWallets
        BY <3>3 DEF Boot!CreateWallets
      <3>4. CASE Boot!WriteEnv
        BY <3>4 DEF Boot!WriteEnv
      <3>5. CASE Boot!OtherSet
        BY <3>5 DEF Boot!OtherSet
      <3>6. ASSUME NEW s \in 1 .. MaxSets, Boot!OtherWallets(s)
            PROVE  UNCHANGED <<registered, secretFile>>
        BY <3>6 DEF Boot!OtherWallets
      <3>7. QED BY <2>4, <3>1, <3>2, <3>3, <3>4, <3>5, <3>6 DEF Boot!Next, Boot!Script
    <2>5. CASE UNCHANGED bootVars
      BY <2>3, <2>5 DEF bootVars
    <2>6. QED
      BY <2>1, <2>2, <2>3, <2>4, <2>5
      DEF SystemNext, Bootstrapping, DeployTraceRegistry, DeployBuilderRegistry,
          PreRegisterAgent, AuthorizeTraceKeeper, CallTraceRegistry, CallBuilderRegistry, systemVars
  <1>3. QED BY <1>1, <1>2, PTL DEF SystemSpec

-----------------------------------------------------------------------------
(* The keepers' wallets.                                                    *)

\* The wallets one call of Circle creates, and their number.
Batch(b) == [batch : {b}, keeper : Keepers, chain : Chains]

\* The bootstrap module counts as this one does.
LEMMA SameCardinality == ASSUME NEW S PROVE Boot!Cardinality(S) = Cardinality(S)
  BY DEF Boot!Cardinality, Cardinality

LEMMA BatchSize ==
  ASSUME NEW b
  PROVE  /\ IsFiniteSet(Batch(b)) /\ Cardinality(Batch(b)) = Boot!Expected
         /\ Boot!Expected \in Nat /\ Boot!Expected <= WalletPage
  <1> DEFINE f == [p \in Keepers \X Chains |-> [batch |-> b, keeper |-> p[1], chain |-> p[2]]]
  <1>1. IsFiniteSet(Keepers) /\ IsFiniteSet(Chains)
    BY KeepersAssumption DEF KeepersAssumption
  <1>2. /\ IsFiniteSet(Keepers \X Chains)
        /\ Cardinality(Keepers \X Chains) = Boot!Expected
        /\ Boot!Expected = Cardinality(Keepers) * Cardinality(Chains)
    BY <1>1, FS_Product, SameCardinality DEF Boot!Expected
  <1>3. f \in [Keepers \X Chains -> Batch(b)]
    BY DEF Batch
  <1>4. \A p, q \in Keepers \X Chains : f[p] = f[q] => p = q
    OBVIOUS
  <1>5. \A w \in Batch(b) : \E p \in Keepers \X Chains : f[p] = w
    <2> SUFFICES ASSUME NEW w \in Batch(b) PROVE \E p \in Keepers \X Chains : f[p] = w
      OBVIOUS
    <2>1. <<w.keeper, w.chain>> \in Keepers \X Chains /\ f[<<w.keeper, w.chain>>] = w
      BY DEF Batch
    <2>2. QED BY <2>1
  <1> HIDE DEF f
  <1>6. ExistsBijection(Keepers \X Chains, Batch(b))
    BY <1>3, <1>4, <1>5 DEF ExistsBijection, Bijection, Injection, Surjection, IsInjective
  <1>7. IsFiniteSet(Batch(b)) /\ Cardinality(Batch(b)) = Boot!Expected
    BY <1>2, <1>6, FS_Bijection
  <1>8. Cardinality(Keepers \X Chains) \in Nat
    BY <1>2, FS_CardinalityType
  <1>9. Boot!Expected <= WalletPage
    BY <1>2, PagesAssumption DEF PagesAssumption
  <1>10. QED BY <1>2, <1>7, <1>8, <1>9

LEMMA BatchMembers ==
  ASSUME NEW b
  PROVE  /\ \A w \in Batch(b) : w.batch = b
         /\ \A c \in Chains : [batch |-> b, keeper |-> TraceName, chain |-> c] \in Batch(b)
         /\ \E w : w \in Batch(b)
  <1>1. TraceName \in Keepers /\ \E c : c \in Chains
    BY KeepersAssumption DEF KeepersAssumption
  <1>2. \A w \in Batch(b) : w.batch = b
    BY DEF Batch
  <1>3. \A c \in Chains : [batch |-> b, keeper |-> TraceName, chain |-> c] \in Batch(b)
    BY <1>1 DEF Batch
  <1>4. PICK c : c \in Chains
    BY <1>1
  <1>5. \E w : w \in Batch(b)
    <2>1. [batch |-> b, keeper |-> TraceName, chain |-> c] \in Batch(b)
      BY <1>3, <1>4
    <2>2. QED BY <2>1
  <1>6. QED BY <1>2, <1>3, <1>5

\* What a run knows, and when it is about to create a batch of its own.
HasSet == step \in {"list", "create", "write"}
Creating == step \in {"secret", "register", "set", "newset", "list", "create"}

\* Batch b has been created; the oldest set's wallets fit in a page; they are
\* those of batch b, and the set is seen.
Known(b) == \E v \in wallets : v.wallet.batch = b
Fits == Cardinality(Boot!In(1)) + others[1] <= WalletPage
Listed(b) == sets <= SetPage /\ Boot!In(1) = Batch(b) /\ Fits

\* Types, and what the script has in its variables: it takes the oldest set
\* unless that was empty of its wallets, creates wallets in it only when there
\* are none, and otherwise has all of them if they fit in a page.
ScriptInv ==
  /\ runs \in 0 .. MaxRuns
  /\ step # "stopped" => runs # 0
  /\ sets \in 0 .. MaxSets
  /\ others \in [1 .. MaxSets -> Nat]
  /\ found \in [set : 0 .. MaxSets, wallets : SUBSET Boot!Wallets]
  /\ wallets \subseteq [set : 1 .. sets, wallet : Boot!Wallets]
  /\ step = "newset" => wallets = {}
  /\ \A v \in wallets : v.wallet.batch <= runs /\ (Creating => v.wallet.batch # runs)
FoundInv ==
  /\ HasSet => found.set \in 1 .. sets
  /\ HasSet /\ found.set # 1 /\ sets <= SetPage => Boot!In(1) = {}
  /\ step = "create" /\ found.set = 1 => Boot!In(1) = {}
  /\ step = "write" => found.wallets \subseteq Boot!In(found.set)
  /\ step = "write" /\ found.set = 1 /\ Fits => found.wallets = Boot!In(1)
WalletsInv == Boot!In(1) = {} \/ \E b \in 1 .. MaxRuns : Boot!In(1) = Batch(b)
EnvInv ==
  /\ addrs \in [Keepers -> 0 .. MaxRuns]
  /\ addrs[TraceName] # 0 =>
       /\ Known(addrs[TraceName])
       /\ Listed(addrs[TraceName]) =>
            \A c \in Chains : ids[<<TraceName, c>>] =
              [batch |-> addrs[TraceName], keeper |-> TraceName, chain |-> c]
BootInv == ScriptInv /\ FoundInv /\ WalletsInv /\ EnvInv

LEMMA BootInvInit == SystemInit => BootInv
  <1> SUFFICES ASSUME SystemInit PROVE BootInv
    OBVIOUS
  <1>1. /\ runs = 0 /\ step = "stopped" /\ sets = 0 /\ wallets = {}
        /\ others = [s \in 1 .. MaxSets |-> 0]
        /\ found = [set |-> 0, wallets |-> {}] /\ addrs = [k \in Keepers |-> 0]
    BY DEF SystemInit, Boot!Init
  <1>2. Boot!In(1) = {}
    BY <1>1 DEF Boot!In
  <1>3. ScriptInv /\ EnvInv
    BY <1>1, KeepersAssumption, BoundsAssumption
    DEF KeepersAssumption, BoundsAssumption, ScriptInv, EnvInv
  <1>4. QED BY <1>1, <1>2, <1>3 DEF BootInv, FoundInv, WalletsInv, HasSet

\* The first set's wallets depend on the wallets alone.
LEMMA SameWallets ==
  ASSUME wallets' = wallets PROVE \A s : Boot!In(s)' = Boot!In(s)
  BY DEF Boot!In

\* The steps that only move on, or that read no more than the list of sets.
LEMMA QuietStep ==
  ASSUME BootInv, UNCHANGED <<runs, sets, others, wallets, ids, addrs>>,
         found' \in [set : 0 .. MaxSets, wallets : SUBSET Boot!Wallets],
         step' # "stopped" => runs # 0,
         step' = "newset" => wallets = {},
         Creating' => Creating,
         FoundInv'
  PROVE  BootInv'
  <1>1. Boot!In(1)' = Boot!In(1) /\ Fits' = Fits
    BY SameWallets DEF Fits
  <1>2. ScriptInv'
    BY DEF BootInv, ScriptInv
  <1>3. WalletsInv'
    BY <1>1 DEF BootInv, WalletsInv
  <1>4. EnvInv'
    BY <1>1 DEF BootInv, EnvInv, Known, Listed
  <1>5. QED BY <1>2, <1>3, <1>4 DEF BootInv

LEMMA WithoutSet ==
  ASSUME BootInv, UNCHANGED <<runs, sets, others, wallets, ids, addrs>>,
         found' = found, step' \in {"register", "set", "newset", "stopped"},
         step # "stopped", step' # "stopped" => Creating, step' = "newset" => wallets = {}
  PROVE  BootInv'
  <1>1. ~HasSet' /\ step' # "create" /\ step' # "write"
    BY DEF HasSet
  <1>2. FoundInv'
    BY <1>1 DEF FoundInv
  <1>3. Creating' => Creating
    BY DEF Creating
  <1>4. found' \in [set : 0 .. MaxSets, wallets : SUBSET Boot!Wallets] /\ runs # 0
    BY DEF BootInv, ScriptInv
  <1>5. QED BY <1>2, <1>3, <1>4, QuietStep

-----------------------------------------------------------------------------
\* A page shows all of the first set's wallets when they fit, and as many as
\* a batch has when there is one.
LEMMA ListWalletsStep == ASSUME BootInv, Boot!ListWallets PROVE BootInv'
  <1> DEFINE foreign == others[found.set]
             total == Cardinality(Boot!In(found.set)) + foreign
             listed == IF total <= WalletPage THEN total ELSE WalletPage
  <1>1. /\ step = "list"
        /\ UNCHANGED <<runs, sets, others, wallets, ids, addrs>>
        /\ \/ listed < Boot!Expected /\ step' = "create" /\ found' = found
           \/ /\ listed >= Boot!Expected /\ step' = "write"
              /\ \E shown \in SUBSET Boot!In(found.set) :
                   /\ Cardinality(shown) <= listed /\ listed <= Cardinality(shown) + foreign
                   /\ found' = [found EXCEPT !.wallets = shown]
    BY SameCardinality DEF Boot!ListWallets, Boot!fileVars, Boot!circleVars, Boot!envVars
  <1>2. /\ found \in [set : 0 .. MaxSets, wallets : SUBSET Boot!Wallets]
        /\ found.set \in 1 .. sets /\ sets \in 0 .. MaxSets /\ runs # 0
        /\ found.set # 1 /\ sets <= SetPage => Boot!In(1) = {}
    BY <1>1 DEF BootInv, ScriptInv, FoundInv, HasSet
  <1>3. foreign \in Nat /\ WalletPage \in Nat
    BY <1>2, PagesAssumption, BoundsAssumption
    DEF PagesAssumption, BoundsAssumption, BootInv, ScriptInv
  <1>4. \A s : Boot!In(s)' = Boot!In(s)
    BY <1>1, SameWallets
  <1>5. CASE listed < Boot!Expected /\ step' = "create" /\ found' = found
    <2>1. ASSUME found.set = 1 PROVE Boot!In(1) = {}
      <3>1. ASSUME NEW b, Boot!In(1) = Batch(b) PROVE FALSE
        <4>1. /\ Cardinality(Boot!In(1)) = Boot!Expected
              /\ Boot!Expected \in Nat /\ Boot!Expected <= WalletPage
          BY <3>1, BatchSize
        <4>2. total = Boot!Expected + foreign
          BY <2>1, <4>1
        <4>3. QED BY <1>3, <1>5, <4>1, <4>2
      <3>2. QED BY <3>1 DEF BootInv, WalletsInv
    <2>2. FoundInv'
      BY <1>1, <1>2, <1>4, <1>5, <2>1 DEF FoundInv, HasSet
    <2>3. QED BY <1>1, <1>2, <1>5, <2>2, QuietStep DEF Creating
  <1>6. CASE listed >= Boot!Expected /\ step' = "write"
    <2>1. PICK shown \in SUBSET Boot!In(found.set) :
            /\ Cardinality(shown) <= listed /\ listed <= Cardinality(shown) + foreign
            /\ found' = [found EXCEPT !.wallets = shown]
      BY <1>1, <1>6
    <2>2. Boot!In(found.set) \subseteq Boot!Wallets
      BY DEF BootInv, ScriptInv, Boot!In
    <2>3. /\ found' \in [set : 0 .. MaxSets, wallets : SUBSET Boot!Wallets]
          /\ found'.set = found.set /\ found'.wallets = shown
      BY <1>2, <2>1, <2>2
    <2>4. ASSUME found.set = 1, Fits PROVE shown = Boot!In(1)
      <3>1. CASE Boot!In(1) = {}
        BY <2>1, <2>4, <3>1
      <3>2. ASSUME NEW b, Boot!In(1) = Batch(b) PROVE shown = Boot!In(1)
        <4>1. IsFiniteSet(Boot!In(1)) /\ Cardinality(Boot!In(1)) \in Nat
          BY <3>2, BatchSize
        <4>2. shown \subseteq Boot!In(1)
          BY <2>1, <2>4
        <4>3. /\ Cardinality(shown) \in Nat /\ Cardinality(shown) <= Cardinality(Boot!In(1))
              /\ Cardinality(shown) = Cardinality(Boot!In(1)) => shown = Boot!In(1)
          BY <4>1, <4>2, FS_Subset, FS_CardinalityType
        <4>4. total = Cardinality(Boot!In(1)) + foreign /\ total <= WalletPage
          BY <2>4 DEF Fits
        <4>5. QED BY <1>3, <2>1, <4>1, <4>3, <4>4
      <3>3. QED BY <3>1, <3>2 DEF BootInv, WalletsInv
    <2>5. FoundInv'
      <3>1. Fits' = Fits
        BY <1>1, <1>4 DEF Fits
      <3>2. HasSet' /\ step' # "create" /\ found'.wallets \subseteq Boot!In(found.set)'
        <4>1. Boot!In(found.set)' = Boot!In(found.set)
          BY <1>1, <2>3 DEF Boot!In
        <4>2. QED BY <1>6, <2>1, <2>3, <4>1 DEF HasSet
      <3>3. QED BY <1>1, <1>2, <1>4, <1>6, <2>3, <2>4, <3>1, <3>2 DEF FoundInv
    <2>6. ~Creating'
      BY <1>6 DEF Creating
    <2>7. QED BY <1>1, <1>2, <1>6, <2>3, <2>5, <2>6, QuietStep
  <1>7. QED BY <1>1, <1>5, <1>6

\* create_wallets puts a batch nobody knows into a set without one.
LEMMA WhatIsCreated ==
  ASSUME BootInv, Boot!CreateWallets
  PROVE  /\ runs \in 1 .. MaxRuns /\ ~Known(runs)
         /\ found.set \in 1 .. sets
         /\ wallets' = wallets \cup {[set |-> found.set, wallet |-> w] : w \in Batch(runs)}
         /\ found.set = 1 => Boot!In(1)' = Batch(runs)
         /\ found.set # 1 => Boot!In(1)' = Boot!In(1)
         /\ UNCHANGED <<runs, sets, others, ids, addrs>>
         /\ \/ step' = "write" /\ found' = [found EXCEPT !.wallets = Batch(runs)]
            \/ step' = "stopped" /\ found' = found
  <1>1. /\ step = "create"
        /\ wallets' = wallets \cup {[set |-> found.set, wallet |-> w] : w \in Batch(runs)}
        /\ UNCHANGED <<runs, sets, others, ids, addrs>>
        /\ \/ step' = "write" /\ found' = [found EXCEPT !.wallets = Batch(runs)]
           \/ step' = "stopped" /\ found' = found
    BY DEF Boot!CreateWallets, Boot!fileVars, Boot!envVars, Batch
  <1>2. runs \in 1 .. MaxRuns /\ ~Known(runs) /\ found.set \in 1 .. sets
    BY <1>1, BoundsAssumption
    DEF BoundsAssumption, BootInv, ScriptInv, FoundInv, HasSet, Creating, Known
  <1>3. \A s : Boot!In(s)' = IF s = found.set THEN Boot!In(s) \cup Batch(runs) ELSE Boot!In(s)
    <2> SUFFICES ASSUME NEW s
                 PROVE  Boot!In(s)' = IF s = found.set THEN Boot!In(s) \cup Batch(runs)
                                                       ELSE Boot!In(s)
      OBVIOUS
    <2> DEFINE new == {[set |-> found.set, wallet |-> w] : w \in Batch(runs)}
    <2>1. \A v \in new : v.set = found.set /\ v.wallet \in Batch(runs)
      OBVIOUS
    <2>2. \A w \in Batch(runs) : \E v \in new : v.set = found.set /\ v.wallet = w
      <3> SUFFICES ASSUME NEW w \in Batch(runs)
                   PROVE  \E v \in new : v.set = found.set /\ v.wallet = w
        OBVIOUS
      <3>1. [set |-> found.set, wallet |-> w] \in new
        OBVIOUS
      <3>2. QED BY <3>1
    <2> HIDE DEF new
    <2>3. wallets' = wallets \cup new
      BY <1>1 DEF new
    <2>4. Boot!In(s)' = {w.wallet : w \in {v \in wallets \cup new : v.set = s}}
      BY <2>3 DEF Boot!In
    <2>5. QED BY <2>1, <2>2, <2>4 DEF Boot!In
  <1>4. found.set = 1 => Boot!In(1) = {}
    BY <1>1 DEF BootInv, FoundInv
  <1>5. found.set = 1 => Boot!In(1)' = Batch(runs)
    BY <1>3, <1>4
  <1>6. found.set # 1 => Boot!In(1)' = Boot!In(1)
    BY <1>3
  <1>7. QED BY <1>1, <1>2, <1>5, <1>6

LEMMA CreateWalletsStep == ASSUME BootInv, Boot!CreateWallets PROVE BootInv'
  <1>1. /\ runs \in 1 .. MaxRuns /\ ~Known(runs)
        /\ found.set \in 1 .. sets
        /\ wallets' = wallets \cup {[set |-> found.set, wallet |-> w] : w \in Batch(runs)}
        /\ found.set = 1 => Boot!In(1)' = Batch(runs)
        /\ found.set # 1 => Boot!In(1)' = Boot!In(1)
        /\ UNCHANGED <<runs, sets, others, ids, addrs>>
        /\ \/ step' = "write" /\ found' = [found EXCEPT !.wallets = Batch(runs)]
           \/ step' = "stopped" /\ found' = found
    BY WhatIsCreated
  <1>2. Batch(runs) \in SUBSET Boot!Wallets
    BY <1>1 DEF Batch, Boot!Wallets
  <1>3. /\ found' \in [set : 0 .. MaxSets, wallets : SUBSET Boot!Wallets]
        /\ found'.set = found.set
        /\ step' = "write" => found'.wallets = Batch(runs)
    BY <1>1, <1>2 DEF BootInv, ScriptInv
  <1>4. ScriptInv'
    <2>1. wallets' \subseteq [set : 1 .. sets, wallet : Boot!Wallets]
      BY <1>1, <1>2 DEF BootInv, ScriptInv
    <2>2. \A v \in wallets' : v.wallet.batch <= runs
      <3>1. \A v \in wallets : v.wallet.batch <= runs
        BY DEF BootInv, ScriptInv
      <3>2. \A w \in Batch(runs) : w.batch <= runs
        BY <1>1, BatchMembers
      <3>3. QED BY <1>1, <3>1, <3>2
    <2>3. ~Creating' /\ step' # "newset"
      BY <1>1 DEF Creating
    <2>4. QED BY <1>1, <1>3, <2>1, <2>2, <2>3 DEF BootInv, ScriptInv
  <1>5. FoundInv'
    <2>1. CASE step' = "stopped"
      BY <2>1 DEF FoundInv, HasSet
    <2>2. CASE step' = "write"
      <3>1. found.set # 1 /\ sets <= SetPage => Boot!In(1) = {}
        <4>1. HasSet
          BY DEF HasSet, Boot!CreateWallets
        <4>2. QED BY <4>1 DEF BootInv, FoundInv
      <3>2. Batch(runs) \subseteq Boot!In(found.set)'
        <4> SUFFICES ASSUME NEW w \in Batch(runs) PROVE w \in Boot!In(found.set)'
          OBVIOUS
        <4>1. [set |-> found.set, wallet |-> w] \in wallets'
          BY <1>1
        <4>2. QED BY <1>3, <4>1 DEF Boot!In
      <3>3. QED BY <1>1, <1>3, <2>2, <3>1, <3>2 DEF FoundInv
    <2>3. QED BY <1>1, <2>1, <2>2
  <1>6. WalletsInv'
    BY <1>1 DEF BootInv, WalletsInv
  <1>7. EnvInv'
    <2>1. ASSUME addrs[TraceName] # 0
          PROVE  Known(addrs[TraceName])' /\ (Listed(addrs[TraceName])' => Listed(addrs[TraceName]))
      <3>1. Known(addrs[TraceName]) /\ addrs[TraceName] # runs
        BY <1>1, <2>1 DEF BootInv, EnvInv
      <3>2. Known(addrs[TraceName])'
        BY <1>1, <3>1 DEF Known
      <3>3. Batch(runs) # Batch(addrs[TraceName])
        BY <3>1, BatchMembers
      <3>4. ASSUME Listed(addrs[TraceName])' PROVE Listed(addrs[TraceName])
        <4>1. Boot!In(1)' = Batch(addrs[TraceName])
          BY <1>1, <3>4 DEF Listed
        <4>2. found.set # 1 /\ Boot!In(1)' = Boot!In(1)
          BY <1>1, <3>3, <4>1
        <4>3. QED BY <1>1, <3>4, <4>2 DEF Listed, Fits
      <3>5. QED BY <3>2, <3>4
    <2>2. QED BY <1>1, <2>1 DEF BootInv, EnvInv
  <1>8. QED BY <1>4, <1>5, <1>6, <1>7 DEF BootInv

\* What writing .env does to the trace keeper: its address is that of wallets
\* found, and a batch that is found as a whole is written as a whole.
LEMMA WhatIsWritten ==
  ASSUME BootInv, Boot!WriteEnv
  PROVE  /\ addrs' \in [Keepers -> 0 .. MaxRuns]
         /\ addrs'[TraceName] # 0 => \E w \in found.wallets : w.batch = addrs'[TraceName]
         /\ \A b \in 1 .. MaxRuns : found.wallets = Batch(b) =>
              /\ addrs'[TraceName] = b
              /\ \A c \in Chains :
                   ids'[<<TraceName, c>>] = [batch |-> b, keeper |-> TraceName, chain |-> c]
  <1>1. TraceName \in Keepers /\ Chains # {}
    BY KeepersAssumption DEF KeepersAssumption
  <1>2. PICK last \in SUBSET found.wallets :
          /\ \A k \in Keepers, c \in Chains :
               Boot!On(k, c) # {} => \E w \in Boot!On(k, c) : last \cap Boot!On(k, c) = {w}
          /\ ids' = [p \in Keepers \X Chains |->
                      IF Boot!On(p[1], p[2]) = {} THEN Boot!Blank
                      ELSE CHOOSE w \in last : w \in Boot!On(p[1], p[2])]
    BY Zenon DEF Boot!WriteEnv
  <1>3. /\ addrs' \in [Keepers -> 0 .. MaxRuns]
        /\ IF Boot!Named(TraceName) = {} THEN addrs'[TraceName] = 0
           ELSE addrs'[TraceName] \in {w.batch : w \in Boot!Named(TraceName)}
    BY <1>1 DEF Boot!WriteEnv
  <1>4. addrs'[TraceName] # 0 => \E w \in found.wallets : w.batch = addrs'[TraceName]
    BY <1>3 DEF Boot!Named
  <1>5. ASSUME NEW b \in 1 .. MaxRuns, found.wallets = Batch(b)
        PROVE  /\ addrs'[TraceName] = b
               /\ \A c \in Chains :
                    ids'[<<TraceName, c>>] = [batch |-> b, keeper |-> TraceName, chain |-> c]
    <2>1. \A c \in Chains : Boot!On(TraceName, c) = {[batch |-> b, keeper |-> TraceName, chain |-> c]}
      <3> SUFFICES ASSUME NEW c \in Chains
                   PROVE  Boot!On(TraceName, c) = {[batch |-> b, keeper |-> TraceName, chain |-> c]}
        OBVIOUS
      <3>1. [batch |-> b, keeper |-> TraceName, chain |-> c] \in Batch(b)
        BY <1>1 DEF Batch
      <3>2. \A w \in Batch(b) : w = [batch |-> w.batch, keeper |-> w.keeper, chain |-> w.chain]
                                /\ w.batch = b
        BY DEF Batch
      <3>3. QED BY <1>5, <3>1, <3>2 DEF Boot!On, Boot!Named
    <2>2. Boot!Named(TraceName) # {} /\ \A w \in Boot!Named(TraceName) : w.batch = b
      <3>1. PICK c \in Chains : TRUE
        BY <1>1
      <3>2. [batch |-> b, keeper |-> TraceName, chain |-> c] \in Boot!On(TraceName, c)
        BY <2>1, <3>1
      <3>3. QED BY <1>5, <3>2 DEF Batch, Boot!On, Boot!Named
    <2>3. addrs'[TraceName] = b
      BY <1>3, <2>2
    <2>4. ASSUME NEW c \in Chains
          PROVE  ids'[<<TraceName, c>>] = [batch |-> b, keeper |-> TraceName, chain |-> c]
      <3> DEFINE x == [batch |-> b, keeper |-> TraceName, chain |-> c]
      <3>1. Boot!On(TraceName, c) = {x}
        BY <2>1
      <3> HIDE DEF x
      <3>2. x \in last
        BY <1>1, <1>2, <3>1
      <3>3. ids'[<<TraceName, c>>] = CHOOSE w \in last : w \in Boot!On(TraceName, c)
        BY <1>1, <1>2, <3>1
      <3>4. (CHOOSE w \in last : w \in {x}) = x
        BY <3>2
      <3>5. ids'[<<TraceName, c>>] = x
        BY <3>1, <3>3, <3>4
      <3>6. QED BY <3>5 DEF x
    <2>5. QED BY <2>3, <2>4
  <1>6. QED BY <1>3, <1>4, <1>5

\* A batch that the script's lists show is what the script has found.
LEMMA ListedIsFound ==
  ASSUME BootInv, step = "write", NEW b, Listed(b)
  PROVE  found.wallets = Batch(b)
  <1>1. HasSet /\ Boot!In(1) # {}
    BY BatchMembers DEF HasSet, Listed
  <1>2. found.set = 1
    BY <1>1 DEF BootInv, FoundInv, Listed
  <1>3. QED BY <1>2 DEF BootInv, FoundInv, Listed

LEMMA WriteEnvStep == ASSUME BootInv, Boot!WriteEnv PROVE BootInv'
  <1>1. /\ addrs' \in [Keepers -> 0 .. MaxRuns]
        /\ addrs'[TraceName] # 0 => \E w \in found.wallets : w.batch = addrs'[TraceName]
        /\ \A b \in 1 .. MaxRuns : found.wallets = Batch(b) =>
             /\ addrs'[TraceName] = b
             /\ \A c \in Chains :
                  ids'[<<TraceName, c>>] = [batch |-> b, keeper |-> TraceName, chain |-> c]
    BY WhatIsWritten
  <1>2. /\ step = "write" /\ step' = "stopped"
        /\ UNCHANGED <<runs, sets, others, wallets, found>>
    BY DEF Boot!WriteEnv, Boot!fileVars, Boot!circleVars
  <1>3. Boot!In(1)' = Boot!In(1) /\ Fits' = Fits
    BY <1>2, SameWallets DEF Fits
  <1>4. ScriptInv' /\ FoundInv' /\ WalletsInv'
    <2>1. ScriptInv'
      BY <1>2 DEF BootInv, ScriptInv, Creating
    <2>2. FoundInv'
      BY <1>2 DEF FoundInv, HasSet
    <2>3. WalletsInv'
      BY <1>3 DEF BootInv, WalletsInv
    <2>4. QED BY <2>1, <2>2, <2>3
  <1>5. ASSUME addrs'[TraceName] # 0
        PROVE  /\ Known(addrs[TraceName])'
               /\ Listed(addrs[TraceName])' =>
                    \A c \in Chains : ids'[<<TraceName, c>>] =
                      [batch |-> addrs'[TraceName], keeper |-> TraceName, chain |-> c]
    <2>1. addrs'[TraceName] \in 1 .. MaxRuns
      BY <1>1, <1>5, KeepersAssumption, BoundsAssumption
      DEF KeepersAssumption, BoundsAssumption
    <2>2. PICK w \in found.wallets : w.batch = addrs'[TraceName]
      BY <1>1, <1>5
    <2>3. w \in Boot!In(found.set)
      BY <1>2 DEF BootInv, FoundInv
    <2>4. Known(addrs[TraceName])'
      BY <1>2, <2>2, <2>3 DEF Known, Boot!In
    <2>5. ASSUME Listed(addrs[TraceName])'
          PROVE  \A c \in Chains : ids'[<<TraceName, c>>] =
                   [batch |-> addrs'[TraceName], keeper |-> TraceName, chain |-> c]
      <3>1. Listed(addrs'[TraceName])
        BY <1>2, <1>3, <2>5 DEF Listed
      <3>2. found.wallets = Batch(addrs'[TraceName])
        BY <1>2, <3>1, ListedIsFound
      <3>3. QED BY <1>1, <2>1, <3>2
    <2>6. QED BY <2>4, <2>5
  <1>6. EnvInv'
    BY <1>1, <1>5 DEF EnvInv
  <1>7. QED BY <1>4, <1>6 DEF BootInv

\* Others only make the lists longer.
LEMMA OthersStep ==
  ASSUME BootInv, Boot!OtherSet \/ \E s \in 1 .. MaxSets : Boot!OtherWallets(s)
  PROVE  /\ BootInv'
         /\ UNCHANGED <<wallets, addrs, ids>>
         /\ \A b : Listed(b)' => Listed(b)
  <1>1. /\ UNCHANGED <<runs, step, wallets, found, ids, addrs>>
        /\ sets' \in 0 .. MaxSets /\ sets <= sets'
        /\ others' \in [1 .. MaxSets -> Nat] /\ others[1] <= others'[1]
    <2>1. sets \in 0 .. MaxSets /\ others \in [1 .. MaxSets -> Nat] /\ MaxSets \in Nat \ {0}
      BY BoundsAssumption DEF BoundsAssumption, BootInv, ScriptInv
    <2>2. CASE Boot!OtherSet
      BY <2>1, <2>2 DEF Boot!OtherSet, Boot!fileVars, Boot!envVars
    <2>3. ASSUME NEW s \in 1 .. MaxSets, Boot!OtherWallets(s)
          PROVE  /\ UNCHANGED <<runs, step, wallets, found, ids, addrs>>
                 /\ sets' = sets
                 /\ others' \in [1 .. MaxSets -> Nat] /\ others[1] <= others'[1]
      <3>1. PICK n \in OtherSizes : others[s] < n /\ others' = [others EXCEPT ![s] = n]
        BY <2>3 DEF Boot!OtherWallets
      <3>2. n \in Nat
        BY BoundsAssumption DEF BoundsAssumption
      <3>3. QED BY <2>1, <2>3, <3>1, <3>2 DEF Boot!OtherWallets, Boot!fileVars, Boot!envVars
    <2>4. QED BY <2>1, <2>2, <2>3
  <1>2. \A s : Boot!In(s)' = Boot!In(s)
    BY <1>1, SameWallets
  <1>3. Fits' => Fits
    <2>1. CASE Boot!In(1) = {}
      <3>1. Cardinality(Boot!In(1)) \in Nat
        BY <2>1, FS_EmptySet
      <3>2. QED BY <1>1, <1>2, <3>1, BoundsAssumption, PagesAssumption
                DEF BoundsAssumption, PagesAssumption, Fits, BootInv, ScriptInv
    <2>2. ASSUME NEW b, Boot!In(1) = Batch(b) PROVE Fits' => Fits
      <3>1. Cardinality(Boot!In(1)) \in Nat
        BY <2>2, BatchSize
      <3>2. QED BY <1>1, <1>2, <3>1, BoundsAssumption, PagesAssumption
                DEF BoundsAssumption, PagesAssumption, Fits, BootInv, ScriptInv
    <2>3. QED BY <2>1, <2>2 DEF BootInv, WalletsInv
  <1>4. sets' <= SetPage => sets <= SetPage
    BY <1>1, PagesAssumption DEF PagesAssumption, BootInv, ScriptInv
  <1>5. \A b : Listed(b)' => Listed(b)
    BY <1>2, <1>3, <1>4 DEF Listed
  <1>6. ScriptInv'
    <2>1. wallets \subseteq [set : 1 .. sets', wallet : Boot!Wallets]
      BY <1>1 DEF BootInv, ScriptInv
    <2>2. QED BY <1>1, <2>1 DEF BootInv, ScriptInv, Creating
  <1>7. FoundInv'
    <2>1. HasSet' = HasSet
      BY <1>1 DEF HasSet
    <2>2. HasSet => found.set \in 1 .. sets'
      BY <1>1 DEF BootInv, ScriptInv, FoundInv
    <2>3. QED BY <1>1, <1>2, <1>3, <1>4, <2>1, <2>2 DEF BootInv, FoundInv
  <1>8. WalletsInv' /\ EnvInv'
    <2>1. WalletsInv'
      BY <1>2 DEF BootInv, WalletsInv
    <2>2. EnvInv'
      BY <1>1, <1>5 DEF BootInv, EnvInv, Known
    <2>3. QED BY <2>1, <2>2
  <1>9. QED BY <1>1, <1>5, <1>6, <1>7, <1>8 DEF BootInv

-----------------------------------------------------------------------------
LEMMA BootInvStep == BootInv /\ Boot!Next => BootInv'
  <1> SUFFICES ASSUME BootInv, Boot!Next PROVE BootInv'
    OBVIOUS
  <1> USE DEF Boot!fileVars, Boot!circleVars, Boot!envVars
  <1>1. CASE Boot!Run
    <2>1. /\ runs' \in 0 .. MaxRuns /\ runs' # 0 /\ runs' = runs + 1 /\ runs \in Nat
          /\ UNCHANGED <<sets, others, wallets, ids, addrs>>
      BY <1>1, BoundsAssumption DEF BoundsAssumption, Boot!Run, BootInv, ScriptInv
    <2>2. found' \in [set : 0 .. MaxSets, wallets : SUBSET Boot!Wallets] /\ step' = "secret"
      BY <1>1, BoundsAssumption DEF BoundsAssumption, Boot!Run
    <2>3. \A v \in wallets : v.wallet.batch <= runs' /\ v.wallet.batch # runs'
      <3>1. \A v \in wallets : v.wallet.batch \in Nat /\ v.wallet.batch <= runs
        BY BoundsAssumption DEF BoundsAssumption, BootInv, ScriptInv, Boot!Wallets
      <3>2. QED BY <2>1, <3>1
    <2>4. ScriptInv'
      BY <2>1, <2>2, <2>3 DEF BootInv, ScriptInv
    <2>5. FoundInv'
      BY <2>2 DEF FoundInv, HasSet
    <2>6. Boot!In(1)' = Boot!In(1) /\ Fits' = Fits
      BY <2>1, SameWallets DEF Fits
    <2>7. WalletsInv'
      BY <2>6 DEF BootInv, WalletsInv
    <2>8. EnvInv'
      BY <2>1, <2>6 DEF BootInv, EnvInv, Known, Listed
    <2>9. QED BY <2>4, <2>5, <2>7, <2>8 DEF BootInv
  <1>2. CASE Boot!LoadOrCreateSecret
    BY <1>2, WithoutSet DEF Boot!LoadOrCreateSecret, Creating
  <1>3. CASE Boot!SkipRegistration
    BY <1>3, WithoutSet DEF Boot!SkipRegistration, Creating
  <1>4. CASE Boot!RegisterSecret
    BY <1>4, WithoutSet DEF Boot!RegisterSecret, Creating
  <1>5. CASE Boot!Stop
    BY <1>5, WithoutSet DEF Boot!Stop
  <1>6. CASE Boot!ListWalletSets
    <2>1. UNCHANGED <<runs, sets, others, wallets, ids, addrs>> /\ step = "set" /\ runs # 0
      BY <1>6 DEF Boot!ListWalletSets, BootInv, ScriptInv
    <2>2. CASE sets = 0 /\ step' = "newset" /\ found' = found
      <3>1. wallets = {}
        BY <2>2 DEF BootInv, ScriptInv
      <3>2. QED BY <2>1, <2>2, <3>1, WithoutSet DEF Creating
    <2>3. ASSUME NEW s \in Boot!OldestOnPage,
                 step' = "list", found' = [found EXCEPT !.set = s]
          PROVE  BootInv'
      <3>1. /\ s \in 1 .. sets /\ s \in 0 .. MaxSets
            /\ sets <= SetPage => s = 1
        BY PagesAssumption, BoundsAssumption
        DEF PagesAssumption, BoundsAssumption, Boot!OldestOnPage, BootInv, ScriptInv
      <3>2. /\ found' \in [set : 0 .. MaxSets, wallets : SUBSET Boot!Wallets]
            /\ found'.set = s
        BY <2>3, <3>1 DEF BootInv, ScriptInv
      <3>3. FoundInv'
        BY <2>1, <2>3, <3>1, <3>2 DEF FoundInv, HasSet
      <3>4. QED BY <2>1, <2>3, <3>2, <3>3, QuietStep DEF Creating
    <2>4. QED BY <1>6, <2>2, <2>3 DEF Boot!ListWalletSets
  <1>7. CASE Boot!CreateWalletSet
    <2>1. /\ step = "newset" /\ sets < MaxSets /\ sets' = sets + 1
          /\ \/ step' = "list" /\ found' = [found EXCEPT !.set = sets']
             \/ step' = "stopped" /\ found' = found
          /\ UNCHANGED <<runs, others, wallets, ids, addrs>>
      BY <1>7 DEF Boot!CreateWalletSet
    <2>2. wallets = {} /\ runs # 0 /\ sets \in 0 .. MaxSets
      BY <2>1 DEF BootInv, ScriptInv
    <2>3. sets' \in 1 .. MaxSets
      BY <2>1, <2>2, BoundsAssumption DEF BoundsAssumption
    <2>4. /\ found' \in [set : 0 .. MaxSets, wallets : SUBSET Boot!Wallets]
          /\ step' = "list" => found'.set = sets'
      BY <2>1, <2>3 DEF BootInv, ScriptInv
    <2>5. Boot!In(1)' = {} /\ wallets' = {}
      BY <2>1, <2>2 DEF Boot!In
    <2>6. ScriptInv'
      BY <2>1, <2>2, <2>3, <2>4, <2>5 DEF BootInv, ScriptInv
    <2>7. FoundInv'
      BY <2>1, <2>3, <2>4, <2>5 DEF FoundInv, HasSet
    <2>8. WalletsInv' /\ EnvInv'
      BY <2>1, <2>2, <2>5 DEF BootInv, WalletsInv, EnvInv, Known
    <2>9. QED BY <2>6, <2>7, <2>8 DEF BootInv
  <1>8. CASE Boot!ListWallets
    BY <1>8, ListWalletsStep
  <1>9. CASE Boot!CreateWallets
    BY <1>9, CreateWalletsStep
  <1>10. CASE Boot!WriteEnv
    BY <1>10, WriteEnvStep
  <1>11. CASE Boot!OtherSet \/ \E s \in 1 .. MaxSets : Boot!OtherWallets(s)
    BY <1>11, OthersStep
  <1>12. QED
    BY <1>1, <1>2, <1>3, <1>4, <1>5, <1>6, <1>7, <1>8, <1>9, <1>10, <1>11
    DEF Boot!Next, Boot!Script

\* What a step does to a batch that is known: it stays known, and when the
\* lists show it after the step, they did so before, and writing .env names it.
LEMMA KnownStep ==
  ASSUME BootInv, Boot!Next, NEW b \in 1 .. MaxRuns, Known(b)
  PROVE  /\ Known(b)'
         /\ Listed(b)' => Listed(b)
         /\ Listed(b)' /\ addrs[TraceName] = b => addrs'[TraceName] = b
  <1> USE DEF Boot!fileVars, Boot!circleVars, Boot!envVars
  <1>1. CASE Boot!CreateWallets
    <2>1. /\ ~Known(runs) /\ wallets \subseteq wallets'
          /\ found.set = 1 => Boot!In(1)' = Batch(runs)
          /\ found.set # 1 => Boot!In(1)' = Boot!In(1)
          /\ UNCHANGED <<sets, others, addrs>>
      BY <1>1, WhatIsCreated
    <2>2. Known(b)' /\ b # runs
      BY <2>1 DEF Known
    <2>3. Batch(runs) # Batch(b)
      BY <2>2, BatchMembers
    <2>4. ASSUME Listed(b)' PROVE Listed(b)
      <3>1. Boot!In(1)' = Batch(b)
        BY <2>4 DEF Listed
      <3>2. Boot!In(1)' = Boot!In(1)
        BY <2>1, <2>3, <3>1
      <3>3. QED BY <2>1, <2>4, <3>2 DEF Listed, Fits
    <2>5. QED BY <2>1, <2>2, <2>4
  <1>2. CASE Boot!WriteEnv
    <2>1. step = "write" /\ UNCHANGED <<sets, others, wallets>>
      BY <1>2 DEF Boot!WriteEnv
    <2>2. Boot!In(1)' = Boot!In(1) /\ Fits' = Fits
      BY <2>1, SameWallets DEF Fits
    <2>3. Known(b)' /\ (Listed(b)' => Listed(b))
      BY <2>1, <2>2 DEF Known, Listed
    <2>4. Listed(b) => addrs'[TraceName] = b
      BY <1>2, <2>1, ListedIsFound, WhatIsWritten
    <2>5. QED BY <2>3, <2>4
  <1>3. CASE Boot!OtherSet \/ \E s \in 1 .. MaxSets : Boot!OtherWallets(s)
    BY <1>3, OthersStep DEF Known
  <1>4. CASE /\ UNCHANGED <<others, wallets, addrs>>
             /\ UNCHANGED sets \/ wallets = {}
    <2>1. Boot!In(1)' = Boot!In(1) /\ Fits' = Fits
      BY <1>4, SameWallets DEF Fits
    <2>2. QED BY <1>4, <2>1 DEF Known, Listed
  <1>5. CASE Boot!CreateWalletSet
    BY <1>4, <1>5 DEF Boot!CreateWalletSet, BootInv, ScriptInv
  <1>6. CASE Boot!Run \/ Boot!LoadOrCreateSecret \/ Boot!SkipRegistration \/ Boot!RegisterSecret
             \/ Boot!ListWalletSets \/ Boot!ListWallets \/ Boot!Stop
    BY <1>4, <1>6
    DEF Boot!Run, Boot!LoadOrCreateSecret, Boot!SkipRegistration, Boot!RegisterSecret,
        Boot!ListWalletSets, Boot!ListWallets, Boot!Stop
  <1>7. QED BY <1>1, <1>2, <1>3, <1>5, <1>6 DEF Boot!Next, Boot!Script

-----------------------------------------------------------------------------
(* The trace keeper of the deployment.                                      *)

DeployInv ==
  /\ BootInv
  /\ deployKeeper \in Addresses
  /\ deployKeeper # 0 =>
       /\ Known(deployKeeper)
       /\ Listed(deployKeeper) => addrs[TraceName] = deployKeeper

LEMMA DeployInvStep == DeployInv /\ [SystemNext]_systemVars => DeployInv'
  <1> SUFFICES ASSUME DeployInv, [SystemNext]_systemVars PROVE DeployInv'
    OBVIOUS
  <1>1. CASE Bootstrapping
    <2>1. BootInv' /\ UNCHANGED deployKeeper /\ Boot!Next /\ BootInv
      BY <1>1, BootInvStep DEF Bootstrapping, deployVars, DeployInv
    <2>2. deployKeeper # 0 => deployKeeper \in 1 .. MaxRuns
      BY AccountsAssumption, BoundsAssumption
      DEF AccountsAssumption, BoundsAssumption, DeployInv
    <2>3. ASSUME deployKeeper # 0
          PROVE  /\ Known(deployKeeper)'
                 /\ Listed(deployKeeper)' => addrs'[TraceName] = deployKeeper
      <3> DEFINE b == deployKeeper
      <3>1. b \in 1 .. MaxRuns /\ Known(b) /\ (Listed(b) => addrs[TraceName] = b) /\ b' = b
        BY <2>1, <2>2, <2>3 DEF DeployInv
      <3>2. ASSUME NEW x \in 1 .. MaxRuns, x = deployKeeper
            PROVE  /\ Known(x)'
                   /\ Listed(x)' => addrs'[TraceName] = x
        BY <2>1, <3>1, <3>2, KnownStep
      <3>3. QED BY <3>1, <3>2, <2>1 DEF Known, Listed
    <2>4. QED BY <2>1, <2>3 DEF DeployInv
  <1>2. CASE DeployTraceRegistry
    <2>1. addrs[TraceName] \in Addresses
      BY KeepersAssumption, AccountsAssumption
      DEF KeepersAssumption, AccountsAssumption, DeployInv, BootInv, EnvInv
    <2>2. UNCHANGED bootVars /\ deployKeeper' = addrs[TraceName] /\ addrs[TraceName] # 0
      BY <1>2 DEF DeployTraceRegistry
    <2>3. BootInv'
      BY <2>2 DEF bootVars, DeployInv, BootInv, ScriptInv, FoundInv, WalletsInv, EnvInv,
                  HasSet, Creating, Known, Listed, Fits, Boot!In
    <2>4. Known(deployKeeper)'
      BY <2>2 DEF bootVars, DeployInv, BootInv, EnvInv, Known
    <2>5. addrs'[TraceName] = deployKeeper'
      BY <2>2 DEF bootVars
    <2>6. QED BY <2>1, <2>2, <2>3, <2>4, <2>5 DEF DeployInv
  <1>3. CASE UNCHANGED <<bootVars, deployKeeper>>
    BY <1>3 DEF bootVars, DeployInv, BootInv, ScriptInv, FoundInv, WalletsInv, EnvInv,
                HasSet, Creating, Known, Listed, Fits, Boot!In
  <1>4. QED
    BY <1>1, <1>2, <1>3
    DEF SystemNext, DeployBuilderRegistry, PreRegisterAgent, AuthorizeTraceKeeper,
        CallTraceRegistry, CallBuilderRegistry, deployVars, systemVars

LEMMA DeployInvHolds == SystemSpec => []DeployInv
  <1>1. SystemInit => DeployInv
    BY BootInvInit, OwnerAssumption, AccountsAssumption
    DEF AccountsAssumption, SystemInit, DeployInv
  <1>2. QED BY <1>1, DeployInvStep, PTL DEF SystemSpec

\* However often the script is run again and whichever answers are lost, .env
\* names the keeper the contract was told of, as long as the script's lists
\* show it that keeper's wallets.
THEOREM TraceKeeperStays == SystemSpec => []TraceKeeperIsKept
  <1>1. DeployInv => TraceKeeperIsKept
    <2> SUFFICES ASSUME DeployInv, KeeperIsListed
                 PROVE  /\ addrs[TraceName] = deployKeeper
                        /\ \A c \in Chains : ids[<<TraceName, c>>] =
                             [batch |-> deployKeeper, keeper |-> TraceName, chain |-> c]
      BY DEF TraceKeeperIsKept
    <2>1. PICK c \in Chains : TRUE
      BY KeepersAssumption DEF KeepersAssumption
    <2>2. [batch |-> deployKeeper, keeper |-> TraceName, chain |-> c] \in Boot!In(1)
      BY <2>1 DEF KeeperIsListed
    <2>3. PICK b \in 1 .. MaxRuns : Boot!In(1) = Batch(b)
      BY <2>2 DEF DeployInv, BootInv, WalletsInv
    <2>4. b = deployKeeper
      BY <2>2, <2>3, BatchMembers
    <2>5. Listed(deployKeeper)
      BY <2>3, <2>4 DEF KeeperIsListed, Listed, Fits
    <2>6. addrs[TraceName] = deployKeeper /\ deployKeeper # 0
      BY <2>5 DEF DeployInv, KeeperIsListed
    <2>7. QED BY <2>5, <2>6 DEF DeployInv, BootInv, EnvInv
  <1>2. QED BY <1>1, DeployInvHolds, PTL

-----------------------------------------------------------------------------
(* The trace registry.                                                      *)

LEMMA StepsOfTheRegistry == DeployInv /\ [SystemNext]_systemVars => [Next]_vars
  <1> SUFFICES ASSUME DeployInv, [SystemNext]_systemVars PROVE [Next]_vars
    OBVIOUS
  <1>1. CASE AuthorizeTraceKeeper
    <2>1. SetKeeper(Owner, deployKeeper, TRUE) /\ deployKeeper \in Addresses /\ TRUE \in BOOLEAN
      BY <1>1 DEF AuthorizeTraceKeeper, DeployInv
    <2>2. QED BY <2>1, OwnerAssumption DEF Next
  <1>2. CASE CallTraceRegistry
    BY <1>2 DEF CallTraceRegistry
  <1>3. CASE UNCHANGED vars
    BY <1>3
  <1>4. QED
    BY <1>1, <1>2, <1>3
    DEF SystemNext, Bootstrapping, DeployTraceRegistry, DeployBuilderRegistry,
        PreRegisterAgent, CallBuilderRegistry, systemVars

\* The deployed system implements the registry's own specification: neither
\* the script nor the deployment does to the log what a transaction may not.
THEOREM SystemImplementsRegistry == SystemSpec => Spec
  <1>1. SystemInit => Init
    BY DEF SystemInit
  <1>2. QED BY <1>1, StepsOfTheRegistry, DeployInvHolds, PTL DEF SystemSpec, Spec

\* The registry's properties, for the deployed system.
THEOREM DeployedTypeCorrect == SystemSpec => []TypeOK
  BY SystemImplementsRegistry, TypeCorrect, PTL
THEOREM DeployedIndexCorrect == SystemSpec => []IndexIsInverse
  BY SystemImplementsRegistry, IndexCorrect, PTL
THEOREM DeployedVerificationIsStable == SystemSpec => VerifiedForever
  BY SystemImplementsRegistry, VerificationIsStable, PTL

-----------------------------------------------------------------------------
(* The builder registry.                                                    *)

BuildersInv == Builders!TypeOK /\ Builders!CodesNameTheirAgent

\* A record keeps its type when its score is replaced by another.
Reputations == 0 .. 10000

LEMMA ScoreUpdate ==
  \A r \in Builders!Agent : \A x \in Reputations :
    [r EXCEPT !.reputation = x] \in Builders!Agent
  <1>1. Builders!Agent = [builderCode : Codes, reputation : Reputations,
                          registeredAt : Nat, active : BOOLEAN]
    BY DEF Builders!Agent, Reputations
  <1>2. QED BY <1>1

\* registerAgent keeps codes and agents in step, on its own, whoever calls.
LEMMA RegisterKeepsCodes ==
  ASSUME BuildersInv, NEW caller, NEW agent \in AgentIds, NEW code \in Codes,
         Builders!RegisterAgent(caller, agent, code)
  PROVE  BuildersInv'
  <1> DEFINE new == [builderCode |-> code, reputation |-> 5000,
                     registeredAt |-> registrations + 1, active |-> TRUE]
  <1>1. /\ agents' = [agents EXCEPT ![agent] = new]
        /\ byBuilderCode' = [byBuilderCode EXCEPT ![code] = agent]
        /\ agents[agent].registeredAt = 0
        /\ registrations' = registrations + 1
        /\ reputationOracle' = reputationOracle
    BY DEF Builders!RegisterAgent, Builders!Register
  <1>2. /\ agents \in [AgentIds -> Builders!Agent]
        /\ byBuilderCode \in [Codes -> AgentIds \cup {0}]
        /\ registrations \in Nat
        /\ \A a \in AgentIds : agents[a].registeredAt <= registrations
    BY DEF BuildersInv, Builders!TypeOK
  <1>3. /\ new \in Builders!Agent
        /\ new.registeredAt = registrations + 1 /\ new.builderCode = code
    BY <1>2 DEF Builders!Agent
  <1>4. 0 \in AgentIds
    BY BuildersAssumption DEF BuildersAssumption
  <1> HIDE DEF new
  <1>5. \A a \in AgentIds : agents'[a] = IF a = agent THEN new ELSE agents[a]
    BY <1>1, <1>2
  <1>6. \A a \in AgentIds : agents[a].registeredAt \in Nat /\ agents[a].builderCode \in Codes
    BY <1>2 DEF Builders!Agent
  <1>7. Builders!TypeOK'
    <2>1. agents' \in [AgentIds -> Builders!Agent] /\ registrations' \in Nat
      BY <1>1, <1>2, <1>3
    <2>2. byBuilderCode' \in [Codes -> AgentIds \cup {0}]
      BY <1>1, <1>2
    <2>3. \A a \in AgentIds : agents'[a].registeredAt <= registrations'
      BY <1>1, <1>2, <1>3, <1>5, <1>6
    <2>4. QED BY <1>1, <2>1, <2>2, <2>3 DEF BuildersInv, Builders!TypeOK
  <1>8. ASSUME NEW c \in Codes, byBuilderCode'[c] # 0
        PROVE  /\ agents'[byBuilderCode'[c]].registeredAt # 0
               /\ agents'[byBuilderCode'[c]].builderCode = c
    <2>1. CASE c = code
      BY <1>1, <1>2, <1>3, <1>5, <2>1
    <2>2. CASE c # code
      <3>1. byBuilderCode'[c] = byBuilderCode[c] /\ byBuilderCode[c] \in AgentIds
        BY <1>1, <1>2, <1>4, <2>2
      <3>2. /\ agents[byBuilderCode[c]].registeredAt # 0
            /\ agents[byBuilderCode[c]].builderCode = c
        BY <1>8, <3>1 DEF BuildersInv, Builders!CodesNameTheirAgent
      <3>3. byBuilderCode[c] # agent
        BY <1>1, <3>2
      <3>4. QED BY <1>5, <3>1, <3>2, <3>3
    <2>3. QED BY <2>1, <2>2
  <1>9. ASSUME NEW a \in AgentIds, agents'[a].registeredAt # 0
        PROVE  LET named == agents'[byBuilderCode'[agents'[a].builderCode]] IN
                 /\ named.builderCode = agents'[a].builderCode
                 /\ named.registeredAt >= agents'[a].registeredAt
    <2> DEFINE c == agents'[a].builderCode
    <2>1. c \in Codes /\ agents'[a].registeredAt \in Nat
                      /\ agents'[a].registeredAt <= registrations + 1
      BY <1>2, <1>3, <1>5, <1>6
    <2>2. CASE c = code
      <3>1. byBuilderCode'[c] = agent
        BY <1>1, <1>2, <2>1, <2>2
      <3>2. agents'[agent] = new
        BY <1>5
      <3>3. QED BY <1>2, <1>3, <2>1, <2>2, <3>1, <3>2
    <2>3. CASE c # code
      <3>1. a # agent /\ agents'[a] = agents[a]
        BY <1>3, <1>5, <2>3
      <3> DEFINE m == byBuilderCode[c]
      <3>2. byBuilderCode'[c] = m /\ m \in AgentIds
        BY <1>1, <1>2, <1>4, <2>1, <2>3
      <3>3. /\ agents[m].builderCode = c
            /\ agents[m].registeredAt >= agents[a].registeredAt
        BY <1>9, <3>1 DEF BuildersInv, Builders!CodesNameTheirAgent
      <3>4. m # agent
        BY <1>1, <1>6, <1>9, <3>1, <3>3
      <3>5. agents'[m] = agents[m]
        BY <1>5, <3>2, <3>4
      <3>6. QED BY <3>1, <3>2, <3>3, <3>5
    <2>4. QED BY <2>2, <2>3
  <1>10. QED BY <1>7, <1>8, <1>9 DEF BuildersInv, Builders!CodesNameTheirAgent

LEMMA CodeOfAgent == \A r \in Builders!Agent : r.builderCode \in Codes
  BY DEF Builders!Agent

\* The other calls change neither an agent's code nor its registration.
LEMMA OthersKeepCodes ==
  ASSUME BuildersInv, agents' \in [AgentIds -> Builders!Agent],
         \A a \in AgentIds : /\ agents'[a].registeredAt = agents[a].registeredAt
                             /\ agents'[a].builderCode = agents[a].builderCode,
         UNCHANGED <<byBuilderCode, reputationOracle, registrations>>
  PROVE  BuildersInv'
  <1>1. Builders!TypeOK'
    BY DEF BuildersInv, Builders!TypeOK
  <1>2. \A c \in Codes : byBuilderCode[c] \in AgentIds
    BY BuildersAssumption DEF BuildersAssumption, BuildersInv, Builders!TypeOK
  <1>3. \A a \in AgentIds : agents[a].builderCode \in Codes
    <2>1. \A a \in AgentIds : agents[a] \in Builders!Agent
      BY Zenon DEF BuildersInv, Builders!TypeOK
    <2>2. QED BY <2>1, CodeOfAgent, Zenon
  <1>4. Builders!CodesNameTheirAgent'
    BY <1>2, <1>3 DEF BuildersInv, Builders!CodesNameTheirAgent
  <1>5. QED BY <1>1, <1>4 DEF BuildersInv

LEMMA Deactivated ==
  \A r \in Builders!Agent : [r EXCEPT !.active = FALSE] \in Builders!Agent
  <1>1. \A r \in Builders!Agent : \A b \in BOOLEAN :
          [r EXCEPT !.active = b] \in Builders!Agent
    BY DEF Builders!Agent
  <1>2. FALSE \in BOOLEAN
    OBVIOUS
  <1>3. QED BY <1>1, <1>2, Zenon

LEMMA BuildersStep == BuildersInv /\ [SystemNext]_systemVars => BuildersInv'
  <1> SUFFICES ASSUME BuildersInv, [SystemNext]_systemVars PROVE BuildersInv'
    OBVIOUS
  <1>1. CASE PreRegisterAgent
    <2>1. deployed - 1 \in AgentIds /\ NomosCode \in Codes /\ NullCode \in Codes
      BY <1>1, BuildersAssumption DEF BuildersAssumption, PreRegisterAgent
    <2>2. PICK code \in Codes : Builders!RegisterAgent(Owner, deployed - 1, code)
      BY <1>1, <2>1 DEF PreRegisterAgent
    <2>3. QED BY <2>1, <2>2, RegisterKeepsCodes
  <1>2. CASE CallBuilderRegistry
    <2>1. ASSUME NEW caller \in Addresses, NEW newOracle \in Addresses,
                 Builders!SetReputationOracle(caller, newOracle)
          PROVE  BuildersInv'
      BY <2>1 DEF Builders!SetReputationOracle, BuildersInv, Builders!TypeOK,
                  Builders!CodesNameTheirAgent
    <2>2. ASSUME NEW caller \in Addresses, NEW agent \in AgentIds, NEW code \in Codes,
                 Builders!RegisterAgent(caller, agent, code)
          PROVE  BuildersInv'
      BY <2>2, RegisterKeepsCodes
    <2>3. ASSUME NEW caller \in Addresses, NEW agent \in AgentIds, NEW score \in Scores,
                 Builders!UpdateReputation(caller, agent, score)
          PROVE  BuildersInv'
      <3>1. score \in Nat
        BY BuildersAssumption DEF BuildersAssumption
      <3>2. /\ score <= 10000 /\ agents' = [agents EXCEPT ![agent].reputation = score]
            /\ UNCHANGED <<byBuilderCode, reputationOracle, registrations>>
            /\ agents \in [AgentIds -> Builders!Agent]
        BY <2>3 DEF Builders!UpdateReputation, BuildersInv, Builders!TypeOK
      <3>3. agents' \in [AgentIds -> Builders!Agent]
        <4>1. [agents[agent] EXCEPT !.reputation = score] \in Builders!Agent
          <5>1. agents[agent] \in Builders!Agent
            BY <3>2
          <5>2. score \in Reputations
            <6>1. score <= 10000
              BY <3>2
            <6>2. QED BY <3>1, <6>1 DEF Reputations
          <5>3. QED BY <5>1, <5>2, ScoreUpdate, Zenon
        <4>2. QED BY <3>2, <4>1
      <3>4. \A a \in AgentIds : /\ agents'[a].registeredAt = agents[a].registeredAt
                                /\ agents'[a].builderCode = agents[a].builderCode
        BY <3>2 DEF Builders!Agent
      <3>5. QED BY <3>2, <3>3, <3>4, OthersKeepCodes
    <2>4. ASSUME NEW caller \in Addresses, NEW agent \in AgentIds, Builders!Deactivate(caller, agent)
          PROVE  BuildersInv'
      <3>1. /\ agents' = [agents EXCEPT ![agent].active = FALSE]
            /\ UNCHANGED <<byBuilderCode, reputationOracle, registrations>>
            /\ agents \in [AgentIds -> Builders!Agent]
        BY <2>4 DEF Builders!Deactivate, BuildersInv, Builders!TypeOK
      <3>2. agents' \in [AgentIds -> Builders!Agent]
        <4>1. [agents[agent] EXCEPT !.active = FALSE] \in Builders!Agent
          <5>1. agents[agent] \in Builders!Agent
            BY <3>1
          <5>2. QED BY <5>1, Deactivated, Zenon
        <4>2. QED BY <3>1, <4>1
      <3>3. \A a \in AgentIds : /\ agents'[a].registeredAt = agents[a].registeredAt
                                /\ agents'[a].builderCode = agents[a].builderCode
        BY <3>1 DEF Builders!Agent
      <3>4. QED BY <3>1, <3>2, <3>3, OthersKeepCodes
    <2>5. QED BY <1>2, <2>1, <2>2, <2>3, <2>4 DEF CallBuilderRegistry, Builders!Next
  <1>3. CASE UNCHANGED builderVars
    BY <1>3 DEF builderVars, BuildersInv, Builders!TypeOK, Builders!CodesNameTheirAgent
  <1>4. QED
    BY <1>1, <1>2, <1>3
    DEF SystemNext, Bootstrapping, DeployTraceRegistry, DeployBuilderRegistry,
        AuthorizeTraceKeeper, CallTraceRegistry, systemVars

\* An agent found by a builder code has that code, and every registered agent
\* is found by its code or hidden behind a later registration of it.
THEOREM CodesAreRight == SystemSpec => []CodesNameTheirAgent
  <1>1. SystemInit => BuildersInv
    BY OwnerAssumption, BuildersAssumption
    DEF BuildersAssumption, SystemInit, Builders!Init, BuildersInv, Builders!TypeOK,
        Builders!CodesNameTheirAgent, Builders!Agent
  <1>2. QED BY <1>1, BuildersStep, PTL DEF SystemSpec, BuildersInv, CodesNameTheirAgent
=============================================================================
