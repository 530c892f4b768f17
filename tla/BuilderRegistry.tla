-------------------------- MODULE BuilderRegistry --------------------------
(***************************************************************************)
(* The BuilderRegistry contract (contracts/src/BuilderRegistry.sol): which *)
(* agent owns a Polymarket builder code, and each agent's reputation.  A   *)
(* transaction is one atomic step and a reverted one is no step.  Agents'  *)
(* controller wallets, which nothing reads back, are left out.  For the    *)
(* time of a registration stands its number among all registrations: its   *)
(* order is all that is told apart, and transactions of one block have an  *)
(* order too.                                                              *)
(***************************************************************************)
EXTENDS Naturals

CONSTANTS
  Accounts,   \* accounts that send transactions
  Deployer,   \* msg.sender of the constructor
  AgentIds,   \* uint256: 0 is an id like any other
  Codes,      \* bytes32 builder codes, the null code among them
  NullCode,
  Scores      \* reputations the oracle may send

VARIABLES
  agents,           \* agentId -> Agent
  byBuilderCode,    \* builderCode -> agentId, 0 when absent
  reputationOracle,
  registrations     \* how many there were; the block's time goes by it

vars == <<agents, byBuilderCode, reputationOracle, registrations>>

Agent == [builderCode : Codes, reputation : 0 .. 10000,
          registeredAt : Nat, active : BOOLEAN]

Init ==
  /\ agents = [a \in AgentIds |-> [builderCode |-> NullCode, reputation |-> 0,
                                   registeredAt |-> 0, active |-> FALSE]]
  /\ byBuilderCode = [c \in Codes |-> 0]
  /\ reputationOracle = Deployer
  /\ registrations = 0

\* setReputationOracle: onlyOwner.
SetReputationOracle(caller, newOracle) ==
  /\ caller = Deployer
  /\ reputationOracle' = newOracle
  /\ UNCHANGED <<agents, byBuilderCode, registrations>>

\* What registerAgent writes.  The code is not checked against the codes of
\* other agents: the last one registered with a code is the one it names.
Register(agent, code) ==
  /\ registrations' = registrations + 1
  /\ agents' = [agents EXCEPT ![agent] =
                  [builderCode |-> code, reputation |-> 5000,
                   registeredAt |-> registrations + 1, active |-> TRUE]]
  /\ byBuilderCode' = [byBuilderCode EXCEPT ![code] = agent]
  /\ UNCHANGED reputationOracle

\* Mutant: AlreadyRegistered is not checked.
RegisterAgentAgain(caller, agent, code) ==
  /\ caller = Deployer
  /\ Register(agent, code)

\* registerAgent: onlyOwner, and once per agent, agent 0 included.
RegisterAgent(caller, agent, code) ==
  /\ caller = Deployer
  /\ agents[agent].registeredAt = 0
  /\ Register(agent, code)

\* updateReputation: of any agent, registered or not; InvalidScore reverts.
UpdateReputation(caller, agent, score) ==
  /\ caller = reputationOracle
  /\ score <= 10000
  /\ agents' = [agents EXCEPT ![agent].reputation = score]
  /\ UNCHANGED <<byBuilderCode, reputationOracle, registrations>>

\* deactivate: there is no way back, and the code stays taken.
Deactivate(caller, agent) ==
  /\ caller = Deployer
  /\ agents' = [agents EXCEPT ![agent].active = FALSE]
  /\ UNCHANGED <<byBuilderCode, reputationOracle, registrations>>

Next ==
  \/ \E caller, newOracle \in Accounts : SetReputationOracle(caller, newOracle)
  \/ \E caller \in Accounts, agent \in AgentIds, code \in Codes : RegisterAgent(caller, agent, code)
  \/ \E caller \in Accounts, agent \in AgentIds, score \in Scores :
        UpdateReputation(caller, agent, score)
  \/ \E caller \in Accounts, agent \in AgentIds : Deactivate(caller, agent)

Spec == Init /\ [][Next]_vars

-----------------------------------------------------------------------------
\* Types of the contract's storage.
TypeOK ==
  /\ agents \in [AgentIds -> Agent]
  /\ byBuilderCode \in [Codes -> AgentIds \cup {0}]
  /\ reputationOracle \in Accounts
  /\ registrations \in Nat
  /\ \A agent \in AgentIds : agents[agent].registeredAt <= registrations

\* "Maps AKRITA agents to their Polymarket V2 builder codes": an agent found
\* by a builder code is registered with that very code, and every registered
\* agent's code leads to an agent with that code which was registered no
\* earlier: an agent is hidden only behind a later registration of its code,
\* and retired agents stay in the maps.  The agent found may be agent 0, whom
\* a caller cannot tell from an absent one.
CodesNameTheirAgent ==
  /\ \A code \in Codes : byBuilderCode[code] # 0 =>
        /\ agents[byBuilderCode[code]].registeredAt # 0
        /\ agents[byBuilderCode[code]].builderCode = code
  /\ \A agent \in AgentIds : agents[agent].registeredAt # 0 =>
        LET named == agents[byBuilderCode[agents[agent].builderCode]] IN
          /\ named.builderCode = agents[agent].builderCode
          /\ named.registeredAt >= agents[agent].registeredAt
=============================================================================
