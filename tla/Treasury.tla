------------------------------ MODULE Treasury ------------------------------
(***************************************************************************)
(* The treasury: AGROS' sweeps between USDC and USYC, and Gateway          *)
(* transfers of USDC between chains.  A treasury decision past the nonce   *)
(* check runs the gate, the trace commit and _execute_treasury             *)
(* (routers/decisions.py).  A move takes several calls, each a Circle      *)
(* transaction that is queued, polled and given up after a while; it may   *)
(* land all the same.                                                      *)
(*                                                                         *)
(* Amounts are whole dollars and whole shares.  A share is worth           *)
(* NavNum / NavDen dollars, and the Teller rounds down.  Gas, Gateway's    *)
(* fee and the growth of the share price are left out.  The keeper's name  *)
(* "agros-keeper" is taken to reach the treasury's wallet at Circle.       *)
(***************************************************************************)
EXTENDS Integers, FiniteSets, Functions

CONSTANTS
  Requests,        \* POSTs to /decisions/treasury
  NoOrder,
  NoTx,
  NoBalance,
  NoChain,         \* src_chain or dst_chain left out
  GatewayChains,   \* _CHAIN_META
  WalletChains,    \* chains on which the treasury has a Circle wallet
  OperatorOrders,  \* decisions posted by others than AGROS
  InitialUsdc,     \* the balances on Arc the run starts from
  InitialUsyc,
  InitialDeposit,  \* in the Gateway Wallet, on every chain
  Target,          \* max(MIN_USDC_BUFFER, outflow * SAFETY_MULTIPLIER)
  MinSweep,        \* USYC_MIN_SUBSCRIBE of AGROS
  GateMin,         \* MIN_USYC_SUBSCRIBE of the gate
  GateMax,         \* MAX_USYC_SUBSCRIBE_PER_TICK of the gate
  GateBuffer,      \* MIN_USDC_OPERATIONAL_BUFFER of the gate
  NavNum, NavDen

\* Chain and TreasuryDecision of shared/models.py.
Chains == {"arc", "polygon", "hyperliquid", "arbitrum"}
Transfers == [action : {"gateway_transfer"}, amount : Nat,
              src : Chains \cup {NoChain}, dst : Chains \cup {NoChain}]
Order == Transfers \cup [action : {"usyc_subscribe", "usyc_redeem", "noop"}, amount : Nat]

Calls == {"approve", "deposit", "redeem", "mint"}
TxStates == {"queued", "landed", "failed"}
InFlight == {"execute", "poll", "burn", "mint", "record"}

ASSUME AmountsAssumption ==
  /\ InitialUsdc \subseteq Nat
  /\ {InitialUsyc, InitialDeposit, Target, MinSweep, GateMin, GateMax, GateBuffer} \subseteq Nat
  /\ MinSweep > 0
ASSUME OrderAssumption == OperatorOrders \subseteq Order /\ NoOrder \notin Order
ASSUME TxAssumption == NoTx \notin [call : Calls, state : TxStates]
ASSUME NavAssumption == NavNum \in Nat \ {0} /\ NavDen \in Nat \ {0}
ASSUME ChainAssumption == "arc" \in GatewayChains
ASSUME FiniteAssumption == IsFiniteSet(Requests) /\ IsFiniteSet(GatewayChains)

VARIABLES
  seen,       \* AGROS: the balances of this tick, once read
  order,      \* the decision of each request
  pc,         \* where its handler stands
  tx,         \* Circle: the request's latest contract call
  usdc,       \* USDC in the treasury's wallet, per chain
  usyc,       \* USYC shares
  allowance,  \* what the Teller may pull
  deposited,  \* Gateway: the unified balance's part on each chain
  burned,     \* Gateway: requests whose burn intent was attested
  actions     \* Postgres: requests with a row in treasury_actions

vars == <<seen, order, pc, tx, usdc, usyc, allowance, deposited, burned, actions>>
funds == <<usdc, usyc, allowance>>

Lesser(a, b) == IF a < b THEN a ELSE b
SharesFor(assets) == (assets * NavDen) \div NavNum
AssetsFor(shares) == (shares * NavNum) \div NavDen

Init ==
  /\ seen = NoBalance
  /\ order = [r \in Requests |-> NoOrder]
  /\ pc = [r \in Requests |-> "idle"]
  /\ tx = [r \in Requests |-> NoTx]
  /\ \E u \in InitialUsdc : usdc = [c \in GatewayChains |-> IF c = "arc" THEN u ELSE 0]
  /\ usyc = InitialUsyc
  /\ allowance = 0
  /\ deposited = [c \in GatewayChains |-> InitialDeposit]
  /\ burned = {}
  /\ actions = {}

-----------------------------------------------------------------------------
(* AGROS' loop.  Its client gives up after 15 s, long before a handler that *)
(* polls, so a tick may come while any number of its requests are open.     *)

\* get_balance of the treasury's wallet on Arc starts each token at 0 and leaves
\* it there when Circle does not list it or its amount does not parse.
GetBalance == [usdc : {usdc["arc"], 0}, usyc : {usyc, 0}]

\* /state/balances leaves out a wallet that cannot be read at all, which AGROS
\* takes for empty.
GetBalances == GetBalance \cup {[usdc |-> 0, usyc |-> 0]}

\* fetch_balances.
AgrosReads ==
  /\ seen = NoBalance
  /\ seen' \in GetBalances
  /\ UNCHANGED <<order, pc, tx, funds, deposited, burned, actions>>

Surplus(b) == b.usdc - Target
Subscription(amount) == [action |-> "usyc_subscribe", amount |-> amount]
Redemption(amount) == [action |-> "usyc_redeem", amount |-> amount]

\* Mutant: the deficit is made up with a margin of one more minimum.
RedeemAmountWithMargin(b) == Lesser(MinSweep - Surplus(b), (b.usyc * 99) \div 100)

\* Only what AGROS has, less a hundredth; the deficit is in USDC and the
\* holding in shares.
RedeemAmount(b) == Lesser(-Surplus(b), (b.usyc * 99) \div 100)

\* Mutant: everything above the gate's buffer counts as surplus.
BuildDecisionAboveBuffer(b) ==
  IF Surplus(b) >= MinSweep THEN {Subscription(b.usdc - GateBuffer)}
  ELSE IF Surplus(b) < -MinSweep /\ RedeemAmount(b) >= MinSweep
  THEN {Redemption(RedeemAmount(b))}
  ELSE {}

\* Mutant: the sign and the threshold of the surplus are lost.
BuildDecisionUnsigned(b) ==
  IF Surplus(b) # 0 THEN {Subscription(Surplus(b))} ELSE {}

\* What build_decision returns: at most one decision.
BuildDecision(b) ==
  IF Surplus(b) >= MinSweep THEN {Subscription(Surplus(b))}
  ELSE IF Surplus(b) < -MinSweep /\ RedeemAmount(b) >= MinSweep
  THEN {Redemption(RedeemAmount(b))}
  ELSE {}

\* The risk gate's treasury checks.  Age, nonce and hash are the lifecycle's.
GateApproves(o) ==
  /\ o.action # "noop" => o.amount > 0
  /\ o.action = "usyc_subscribe" => o.amount \in GateMin .. GateMax
  /\ o.action = "gateway_transfer" =>
       o.src # NoChain /\ o.dst # NoChain /\ o.src # o.dst

\* POST /decisions/treasury up to the executor.
Post(r, o) ==
  /\ pc[r] = "idle"
  /\ order' = [order EXCEPT ![r] = o]
  /\ pc' = [pc EXCEPT ![r] = IF GateApproves(o) THEN "execute" ELSE "rejected"]

AgrosDecides ==
  /\ seen # NoBalance
  /\ seen' = NoBalance
  /\ IF BuildDecision(seen) = {}
     THEN UNCHANGED <<order, pc>>
     ELSE \E r \in Requests, o \in BuildDecision(seen) : Post(r, o)
  /\ UNCHANGED <<tx, funds, deposited, burned, actions>>

\* The endpoint serves whoever posts to it.
OperatorPosts ==
  /\ \E r \in Requests, o \in OperatorOrders : Post(r, o)
  /\ UNCHANGED <<seen, tx, funds, deposited, burned, actions>>

-----------------------------------------------------------------------------
(* _execute_treasury, from one awaited call to the next.                    *)

\* execute_contract up to its first poll.
Queue(r, call) == tx' = [tx EXCEPT ![r] = [call |-> call, state |-> "queued"]]

ExecuteNoop(r) ==
  /\ pc[r] = "execute" /\ order[r].action = "noop"
  /\ pc' = [pc EXCEPT ![r] = "submitted"]
  /\ UNCHANGED <<seen, order, tx, funds, deposited, burned, actions>>

\* subscribe: the approval first.
Subscribe(r) ==
  /\ pc[r] = "execute" /\ order[r].action = "usyc_subscribe"
  /\ Queue(r, "approve")
  /\ pc' = [pc EXCEPT ![r] = "poll"]
  /\ UNCHANGED <<seen, order, funds, deposited, burned, actions>>

Redeem(r) ==
  /\ pc[r] = "execute" /\ order[r].action = "usyc_redeem"
  /\ Queue(r, "redeem")
  /\ pc' = [pc EXCEPT ![r] = "poll"]
  /\ UNCHANGED <<seen, order, funds, deposited, burned, actions>>

\* _chain raises for a chain Gateway does not serve, or none.
Known(c) == c \in GatewayChains

\* get_domain_balance of the treasury.
DomainBalance(c) == deposited[c]

\* transfer: both chains are known and the source's deposit covers the amount.
CheckDeposit(r) ==
  /\ pc[r] = "execute" /\ order[r].action = "gateway_transfer"
  /\ pc' = [pc EXCEPT ![r] =
              IF /\ Known(order[r].src) /\ Known(order[r].dst)
                 /\ DomainBalance(order[r].src) >= order[r].amount
              THEN "burn" ELSE "error"]
  /\ UNCHANGED <<seen, order, tx, funds, deposited, burned, actions>>

\* Mutant: the mint does not wait for the burn intent to be attested.
BurnUnattested(r) ==
  /\ pc[r] = "burn"
  /\ pc' = [pc EXCEPT ![r] = "mint"]
  /\ UNCHANGED <<seen, order, tx, funds, deposited, burned, actions>>

\* The signed burn intent is posted.  Gateway takes it while the deposit
\* covers it; the answer may be lost.
Burn(r) ==
  /\ pc[r] = "burn"
  /\ deposited[order[r].src] >= order[r].amount
  /\ deposited' = [deposited EXCEPT ![order[r].src] = @ - order[r].amount]
  /\ burned' = burned \cup {r}
  /\ \E answered \in BOOLEAN : pc' = [pc EXCEPT ![r] = IF answered THEN "mint" ELSE "error"]
  /\ UNCHANGED <<seen, order, tx, funds, actions>>

\* wallet_id of the treasury raises on a chain where it has no wallet.
HasWallet(c) == c \in WalletChains

\* The mint needs a wallet on the destination.
Mint(r) ==
  /\ pc[r] = "mint"
  /\ HasWallet(order[r].dst)
  /\ Queue(r, "mint")
  /\ pc' = [pc EXCEPT ![r] = "poll"]
  /\ UNCHANGED <<seen, order, funds, deposited, burned, actions>>

\* Mutant: the handler does not wait for the transaction.
PollNothing(r) ==
  /\ pc[r] = "poll"
  /\ IF tx[r].call = "approve"
     THEN Queue(r, "deposit") /\ UNCHANGED pc
     ELSE pc' = [pc EXCEPT ![r] = "record"] /\ UNCHANGED tx
  /\ UNCHANGED <<seen, order, funds, deposited, burned, actions>>

\* wait_for_tx returns: the approval is followed by the deposit, the other
\* calls end the move.
PollConfirmed(r) ==
  /\ pc[r] = "poll" /\ tx[r].state = "landed"
  /\ IF tx[r].call = "approve"
     THEN Queue(r, "deposit") /\ UNCHANGED pc
     ELSE pc' = [pc EXCEPT ![r] = "record"] /\ UNCHANGED tx
  /\ UNCHANGED <<seen, order, funds, deposited, burned, actions>>

\* record_treasury: a plain insert, in a transaction of its own.
RecordTreasury(r) == actions' = actions \cup {r}

\* The record of the move, then the response.
Record(r) ==
  /\ pc[r] = "record"
  /\ RecordTreasury(r)
  /\ pc' = [pc EXCEPT ![r] = "submitted"]
  /\ UNCHANGED <<seen, order, tx, funds, deposited, burned>>

\* Any awaited call may raise: the commit, the Teller's gate, a connection,
\* the database; wait_for_tx also when the transaction failed or 180 s passed.
Raises(r) ==
  /\ pc[r] \in InFlight
  /\ pc' = [pc EXCEPT ![r] = "error"]
  /\ UNCHANGED <<seen, order, tx, funds, deposited, burned, actions>>

-----------------------------------------------------------------------------
(* The chains, behind Circle's queue.                                       *)

\* Mutant: the Teller is approved for whatever the wallet holds.
ApproveBalance(r) ==
  /\ allowance' = usdc["arc"]
  /\ UNCHANGED <<usdc, usyc>>

\* An ERC-20 approval replaces the one before.
Approve(r) ==
  /\ allowance' = order[r].amount
  /\ UNCHANGED <<usdc, usyc>>

Deposit(r) ==
  /\ order[r].amount <= Lesser(allowance, usdc["arc"])
  /\ allowance' = allowance - order[r].amount
  /\ usdc' = [usdc EXCEPT !["arc"] = @ - order[r].amount]
  /\ usyc' = usyc + SharesFor(order[r].amount)

RedeemShares(r) ==
  /\ order[r].amount <= usyc
  /\ usyc' = usyc - order[r].amount
  /\ usdc' = [usdc EXCEPT !["arc"] = @ + AssetsFor(order[r].amount)]
  /\ UNCHANGED allowance

MintUsdc(r) ==
  /\ usdc' = [usdc EXCEPT ![order[r].dst] = @ + order[r].amount]
  /\ UNCHANGED <<usyc, allowance>>

TxLands(r) ==
  /\ tx[r] # NoTx /\ tx[r].state = "queued"
  /\ \/ tx[r].call = "approve" /\ Approve(r)
     \/ tx[r].call = "deposit" /\ Deposit(r)
     \/ tx[r].call = "redeem" /\ RedeemShares(r)
     \/ tx[r].call = "mint" /\ MintUsdc(r)
  /\ tx' = [tx EXCEPT ![r].state = "landed"]
  /\ UNCHANGED <<seen, order, pc, deposited, burned, actions>>

\* A call that reverts, or that Circle denies or cancels.
TxFails(r) ==
  /\ tx[r] # NoTx /\ tx[r].state = "queued"
  /\ tx' = [tx EXCEPT ![r].state = "failed"]
  /\ UNCHANGED <<seen, order, pc, funds, deposited, burned, actions>>

Handler(r) ==
  \/ ExecuteNoop(r)
  \/ Subscribe(r)
  \/ Redeem(r)
  \/ CheckDeposit(r)
  \/ Burn(r)
  \/ Mint(r)
  \/ PollConfirmed(r)
  \/ Record(r)
  \/ Raises(r)

Next ==
  \/ AgrosReads
  \/ AgrosDecides
  \/ OperatorPosts
  \/ \E r \in Requests : Handler(r) \/ TxLands(r) \/ TxFails(r)

Spec == Init /\ [][Next]_vars

-----------------------------------------------------------------------------
Moved(r, call) == tx[r] # NoTx /\ tx[r].call = call /\ tx[r].state = "landed"
Sweeps == {r \in Requests : Moved(r, "deposit")}
Redemptions == {r \in Requests : Moved(r, "redeem")}
Mints == {r \in Requests : Moved(r, "mint") /\ order[r].dst = "arc"}

\* The call a move ends with.
LastCall(o) ==
  IF o.action = "usyc_subscribe" THEN "deposit"
  ELSE IF o.action = "usyc_redeem" THEN "redeem"
  ELSE "mint"

\* Types; no balance is ever negative.
TypeOK ==
  /\ seen \in [usdc : Nat, usyc : Nat] \cup {NoBalance}
  /\ order \in [Requests -> Order \cup {NoOrder}]
  /\ pc \in [Requests -> {"idle", "rejected", "submitted", "error"} \cup InFlight]
  /\ tx \in [Requests -> [call : Calls, state : TxStates] \cup {NoTx}]
  /\ usdc \in [GatewayChains -> Nat]
  /\ usyc \in Nat
  /\ allowance \in Nat
  /\ deposited \in [GatewayChains -> Nat]
  /\ burned \subseteq Requests
  /\ actions \subseteq Requests

\* A move that was answered as submitted, or that has a row, is complete: its
\* last transaction landed, and a transfer's burn went before it.  Funds
\* burned on one chain and not minted on the other belong to a handler still
\* at work or answered 500.
ReportedMovesAreComplete ==
  \A r \in Requests :
    r \in actions \/ (pc[r] = "submitted" /\ order[r].action # "noop") =>
      /\ Moved(r, LastCall(order[r]))
      /\ order[r].action = "gateway_transfer" => r \in burned

\* When every subscription that approved the Teller succeeded, nothing is
\* left approved, in whatever order approvals (which replace one another) and
\* deposits of overlapping sweeps landed.
SuccessfulSweepsLeaveNoAllowance ==
  (\A r \in Requests :
     order[r] # NoOrder /\ order[r].action = "usyc_subscribe" /\ tx[r] # NoTx =>
       pc[r] = "submitted")
  => allowance = 0

\* What shares are worth above a dollar each.
Premium(shares) == AssetsFor(shares) - shares

\* What AGROS sees of the first holding when only the USDC is not read.
UsdcUnread == [usdc |-> 0, usyc |-> InitialUsyc]

\* One move of AGROS' on its own brings the wallet to the target and no
\* further, however stale the balances it was decided on.  A sweep leaves the
\* target, whatever of the balances was not read.  A redemption, which takes
\* the deficit in dollars for a number of shares, overshoots by no more than
\* the premium of what it redeemed, so that it is not swept back while that is
\* less than MinSweep; except that a redemption decided on a USDC balance that
\* was not read, beside shares that were, makes up the whole target again.
SoleMoveMeetsTarget ==
  \A r \in Requests : order[r] \notin OperatorOrders =>
    /\ Sweeps = {r} => usdc["arc"] >= Target
    /\ Redemptions = {r} /\ Sweeps \cup Mints = {} =>
         \/ usdc["arc"] - Target <= Premium(order[r].amount)
         \/ order[r].amount = RedeemAmount(UsdcUnread)

\* The dollars each request has taken out of the treasury's balances: to the
\* Teller, from it, or from one chain and not yet to the other.
Outside ==
  [r \in Requests |->
     IF Moved(r, "deposit") THEN order[r].amount
     ELSE IF Moved(r, "redeem") THEN -AssetsFor(order[r].amount)
     ELSE IF r \in burned /\ ~Moved(r, "mint") THEN order[r].amount
     ELSE 0]

OnChain == SumFunctionOnSet(usdc, GatewayChains) + SumFunctionOnSet(deposited, GatewayChains)

\* No dollar is made or lost, over whatever sweeps, redemptions and transfers
\* overlap, raise half-way or land after they were given up: what is neither
\* in a wallet nor in a deposit is with the Teller, or burned and owed.
FundsAreConserved ==
  \E u \in InitialUsdc :
    OnChain + SumFunctionOnSet(Outside, Requests)
      = u + SumFunctionOnSet([c \in GatewayChains |-> InitialDeposit], GatewayChains)

-----------------------------------------------------------------------------
(* A statement of the repository that the code does not keep.               *)

\* risk_agent.py, MIN_USDC_OPERATIONAL_BUFFER: "never sweep below this".
NeverSweptBelowBuffer ==
  [][usdc'["arc"] < usdc["arc"] => usdc'["arc"] >= GateBuffer]_vars
=============================================================================
