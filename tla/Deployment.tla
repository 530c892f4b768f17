----------------------------- MODULE Deployment -----------------------------
(***************************************************************************)
(* Setting the system up: the bootstrap script makes the keepers' wallets, *)
(* Deploy.s.sol deploys the two contracts, registers the agents and        *)
(* authorises the trace keeper, transaction by transaction, and accounts   *)
(* of every kind then call the contracts.  The script may be run again at  *)
(* any time.  A deployment that stops half-way is abandoned for good, and  *)
(* another one, with fresh contracts, is another behaviour.                *)
(*                                                                         *)
(* Accounts are numbers: 0 deploys, and b is the address of the trace      *)
(* keeper's wallets of batch b.                                            *)
(***************************************************************************)
EXTENDS TraceRegistry, FiniteSets

CONSTANTS
  Keepers, Chains, MaxRuns, MaxSets, OtherSizes,    \* of the bootstrap script
  SetPage, WalletPage,                              \* of Circle's lists
  AgentIds, Codes, NullCode, Scores,                \* of the builder registry
  NomosCode,                                        \* NOMOS_BUILDER_CODE
  TraceName,                                        \* the trace keeper, of Keepers
  MaxAdministration                                 \* calls of the owner and the oracle after the deployment

ASSUME AccountsAssumption == Owner = 0 /\ Addresses = 0 .. MaxRuns
ASSUME KeepersAssumption ==
  /\ TraceName \in Keepers /\ IsFiniteSet(Keepers)
  /\ Chains # {} /\ IsFiniteSet(Chains)
ASSUME BuildersAssumption ==
  /\ 0 .. 3 \subseteq AgentIds /\ AgentIds \subseteq Nat
  /\ NomosCode \in Codes /\ NullCode \in Codes /\ Scores \subseteq Nat
ASSUME BoundsAssumption ==
  MaxRuns \in Nat /\ MaxSets \in Nat \ {0} /\ OtherSizes \subseteq Nat /\ MaxAdministration \in Nat
\* A page of wallets, 50 in the script, holds the batch of 8.
ASSUME PagesAssumption ==
  /\ SetPage \in Nat \ {0}
  /\ WalletPage \in Nat /\ Cardinality(Keepers) * Cardinality(Chains) <= WalletPage

VARIABLES
  runs, step, secretFile, recovery, registered, sets, others, wallets, found, ids, addrs,
  agents, byBuilderCode, reputationOracle, registrations,
  deployed,        \* transactions of Deploy.s.sol that were mined
  deployKeeper,    \* TRACE_KEEPER_WALLET as Deploy.s.sol read it
  administration   \* calls of the owner and the oracle since, for the bound

bootVars == <<runs, step, secretFile, recovery, registered, sets, others, wallets, found, ids, addrs>>
builderVars == <<agents, byBuilderCode, reputationOracle, registrations>>
deployVars == <<deployed, deployKeeper>>
systemVars == <<vars, bootVars, builderVars, deployVars, administration>>

Boot == INSTANCE Bootstrap
Builders == INSTANCE BuilderRegistry WITH Accounts <- Addresses, Deployer <- Owner

SystemInit ==
  /\ Init /\ Boot!Init /\ Builders!Init
  /\ deployed = 0 /\ deployKeeper = 0
  /\ administration = 0

-----------------------------------------------------------------------------
(* Deploy.s.sol.  forge runs the script before it broadcasts anything, so   *)
(* that the environment is read once, and then sends the transactions in    *)
(* order.  It may stop after any of them.                                   *)

TransactionCount == 6

\* new TraceRegistry().  The operator has copied the trace keeper's address
\* from .env; vm.envAddress refuses a blank one.
DeployTraceRegistry ==
  /\ deployed = 0
  /\ addrs[TraceName] # 0
  /\ deployKeeper' = addrs[TraceName]
  /\ deployed' = 1
  /\ UNCHANGED <<vars, bootVars, builderVars, administration>>

DeployBuilderRegistry ==
  /\ deployed = 1
  /\ deployed' = 2
  /\ UNCHANGED <<vars, bootVars, builderVars, deployKeeper, administration>>

\* The three registerAgent transactions: NOMOS with its code, and SPATHA and
\* AGROS, which "don't quote Polymarket directly", both with the null code.
PreRegisterAgent ==
  /\ deployed \in 2 .. 4
  /\ LET agent == deployed - 1 IN
       Builders!RegisterAgent(Owner, agent, IF agent = 1 THEN NomosCode ELSE NullCode)
  /\ deployed' = deployed + 1
  /\ UNCHANGED <<vars, bootVars, deployKeeper, administration>>

\* setKeeper(TRACE_KEEPER_WALLET, true).
AuthorizeTraceKeeper ==
  /\ deployed = 5
  /\ SetKeeper(Owner, deployKeeper, TRUE)
  /\ deployed' = 6
  /\ UNCHANGED <<bootVars, builderVars, deployKeeper, administration>>

-----------------------------------------------------------------------------
\* Calls of the contracts by anybody, once there is a trace keeper.
Administer ==
  /\ administration < MaxAdministration
  /\ administration' = administration + 1

CallTraceRegistry ==
  /\ deployed = TransactionCount
  /\ Next
  /\ IF UNCHANGED logVars THEN Administer ELSE UNCHANGED administration
  /\ UNCHANGED <<bootVars, builderVars, deployVars>>

CallBuilderRegistry ==
  /\ deployed = TransactionCount
  /\ Builders!Next
  /\ Administer
  /\ UNCHANGED <<vars, bootVars, deployVars>>

Bootstrapping ==
  /\ Boot!Next
  /\ UNCHANGED <<vars, builderVars, deployVars, administration>>

SystemNext ==
  \/ Bootstrapping
  \/ DeployTraceRegistry \/ DeployBuilderRegistry \/ PreRegisterAgent \/ AuthorizeTraceKeeper
  \/ CallTraceRegistry
  \/ CallBuilderRegistry

SystemSpec == SystemInit /\ [][SystemNext]_systemVars

-----------------------------------------------------------------------------
\* The trace keeper's wallets that a deployment was given stand in the oldest
\* set of the account, and the lists of sets and of its wallets fit in a page.
KeeperIsListed ==
  /\ deployKeeper # 0
  /\ sets <= SetPage
  /\ \A c \in Chains :
       [batch |-> deployKeeper, keeper |-> TraceName, chain |-> c] \in Boot!In(1)
  /\ Cardinality(Boot!In(1)) + others[1] <= WalletPage

\* The script is "idempotent", as far as its lists show it what there is: once
\* a deployment was given the trace keeper's address, .env keeps naming that
\* keeper, by its address and by the wallet ids with which the orchestrator
\* signs, however often the script is run again, answers of Circle are lost
\* and others create sets and wallets.  A set that somebody else creates
\* between the script's two calls is older than the script's, and the next
\* run then names another keeper.
TraceKeeperIsKept ==
  KeeperIsListed =>
    /\ addrs[TraceName] = deployKeeper
    /\ \A c \in Chains :
         ids[<<TraceName, c>>] = [batch |-> deployKeeper, keeper |-> TraceName, chain |-> c]

\* The codes of the builder registry and the secret of the bootstrap script,
\* for the composition.
CodesNameTheirAgent == Builders!CodesNameTheirAgent
RegisteredSecretIsOnFile == Boot!RegisteredSecretIsOnFile
=============================================================================
