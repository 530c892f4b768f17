--------------------------- MODULE Treasury_proofs ---------------------------
(***************************************************************************)
(* Types of the treasury; that a move is complete when it is reported;     *)
(* that sweeps which succeed leave no allowance; that a single move of     *)
(* AGROS' meets its target; and that no dollar is lost.  For every set of  *)
(* requests, every configuration of chains and wallets, every threshold    *)
(* and every share price.                                                  *)
(***************************************************************************)
EXTENDS Treasury, SumTheorems, TLAPS

Sent(r) == tx[r] # NoTx

\* A request that was posted has an order, and one without has done nothing.
Posted(r) ==
  /\ pc[r] # "idle" => order[r] \in Order
  /\ pc[r] \in {"idle", "rejected", "execute", "burn", "mint"} => tx[r] = NoTx

\* A contract call belongs to the action ordered, a mint to a burn.
CallFits(r) ==
  Sent(r) =>
    /\ order[r] \in Order
    /\ tx[r].call \in {"approve", "deposit"} => order[r].action = "usyc_subscribe"
    /\ tx[r].call = "redeem" => order[r].action = "usyc_redeem"
    /\ tx[r].call = "mint" => order[r].action = "gateway_transfer" /\ r \in burned

\* A transfer past its check names two chains of Gateway's.
TransferChecked(r) ==
  pc[r] \in {"burn", "mint"} \/ (Sent(r) /\ tx[r].call = "mint") =>
    /\ order[r].action = "gateway_transfer"
    /\ order[r].src \in GatewayChains /\ order[r].dst \in GatewayChains

\* A handler past its polling holds a landed last call.
Finished(r) ==
  /\ pc[r] = "poll" => Sent(r)
  /\ pc[r] = "mint" => r \in burned
  /\ pc[r] = "record" \/ (pc[r] = "submitted" /\ order[r].action # "noop") =>
       Sent(r) /\ tx[r].state = "landed" /\ tx[r].call # "approve"
  /\ r \in actions => pc[r] = "submitted" /\ order[r].action # "noop"

IInv ==
  /\ TypeOK
  /\ \A r \in Requests : Posted(r) /\ CallFits(r) /\ TransferChecked(r) /\ Finished(r)

-----------------------------------------------------------------------------
\* The schema bounds every amount from below.
LEMMA OrderAmount == \A o \in Order : o.amount \in Nat
BY DEF Order, Transfers

\* Both conversions of the Teller round to a whole, non-negative number.
LEMMA Conversions == \A n \in Nat : SharesFor(n) \in Nat /\ AssetsFor(n) \in Nat
<1>1. \A a, b \in Nat : a * b \in Nat
  OBVIOUS
<1>2. \A a \in Nat, d \in Nat \ {0} : a \div d \in Nat
  OBVIOUS
<1> QED BY <1>1, <1>2, NavAssumption DEF SharesFor, AssetsFor

\* AGROS posts well-formed orders: what it sweeps or redeems is not negative.
LEMMA AgrosOrders ==
  ASSUME NEW b \in [usdc : Nat, usyc : Nat], NEW o \in BuildDecision(b)
  PROVE  o \in Order
<1>1. Surplus(b) \in Int /\ MinSweep \in Nat
  BY AmountsAssumption DEF Surplus
<1>2. RedeemAmount(b) \in Int
  <2>1. (b.usyc * 99) \div 100 \in Int
    OBVIOUS
  <2> QED BY <1>1, <2>1 DEF RedeemAmount, Lesser
<1>3. CASE Surplus(b) >= MinSweep
  BY <1>1, <1>3 DEF BuildDecision, Subscription, Order
<1>4. CASE ~(Surplus(b) >= MinSweep) /\ Surplus(b) < -MinSweep /\ RedeemAmount(b) >= MinSweep
  BY <1>1, <1>2, <1>4 DEF BuildDecision, Redemption, Order
<1>5. CASE ~(Surplus(b) >= MinSweep) /\ ~(Surplus(b) < -MinSweep /\ RedeemAmount(b) >= MinSweep)
  BY <1>5 DEF BuildDecision
<1> QED BY <1>3, <1>4, <1>5

\* Posting an order keeps the invariant.
LEMMA PostKeeps ==
  ASSUME IInv, NEW r \in Requests, NEW o \in Order, Post(r, o),
         seen' \in [usdc : Nat, usyc : Nat] \cup {NoBalance},
         UNCHANGED <<tx, funds, deposited, burned, actions>>
  PROVE  IInv'
<1>1. TypeOK'
  BY DEF IInv, TypeOK, Post, funds, InFlight
<1>2. ASSUME NEW q \in Requests
      PROVE  (Posted(q) /\ CallFits(q) /\ TransferChecked(q) /\ Finished(q))'
  BY DEF IInv, TypeOK, Post, Posted, CallFits, TransferChecked, Finished, Sent
<1> QED BY <1>1, <1>2 DEF IInv

\* The invariant is inductive.
LEMMA InitInv == Init => IInv
<1> SUFFICES ASSUME Init PROVE IInv
  OBVIOUS
<1>1. TypeOK
  BY AmountsAssumption DEF Init, TypeOK
<1>2. \A r \in Requests : Posted(r) /\ CallFits(r) /\ TransferChecked(r) /\ Finished(r)
  BY DEF Init, Posted, CallFits, TransferChecked, Finished, Sent
<1> QED BY <1>1, <1>2 DEF IInv

LEMMA AgrosKeeps ==
  ASSUME IInv, AgrosReads \/ AgrosDecides \/ OperatorPosts
  PROVE  IInv'
<1>1. CASE AgrosReads
  <2>1. usdc["arc"] \in Nat /\ usyc \in Nat
    BY ChainAssumption DEF IInv, TypeOK
  <2>2. TypeOK'
    BY <1>1, <2>1 DEF AgrosReads, GetBalances, GetBalance, IInv, TypeOK, funds
  <2> QED BY <1>1, <2>2 DEF AgrosReads, IInv, Posted, CallFits, TransferChecked, Finished, Sent
<1>2. CASE AgrosDecides /\ BuildDecision(seen) = {}
  <2>1. TypeOK'
    BY <1>2 DEF AgrosDecides, IInv, TypeOK, funds
  <2> QED BY <1>2, <2>1 DEF AgrosDecides, IInv, Posted, CallFits, TransferChecked, Finished, Sent
<1>3. CASE AgrosDecides /\ BuildDecision(seen) # {}
  <2>1. PICK r \in Requests, o \in BuildDecision(seen) : Post(r, o)
    BY <1>3 DEF AgrosDecides
  <2>2. seen \in [usdc : Nat, usyc : Nat]
    BY <1>3 DEF AgrosDecides, IInv, TypeOK
  <2>3. o \in Order
    BY <2>2, AgrosOrders
  <2>4. seen' = NoBalance /\ UNCHANGED <<tx, funds, deposited, burned, actions>>
    BY <1>3 DEF AgrosDecides
  <2> QED BY <2>1, <2>3, <2>4, PostKeeps
<1>4. CASE OperatorPosts
  <2>1. PICK r \in Requests, o \in OperatorOrders : Post(r, o)
    BY <1>4 DEF OperatorPosts
  <2>2. seen' \in [usdc : Nat, usyc : Nat] \cup {NoBalance}
    BY <1>4 DEF OperatorPosts, IInv, TypeOK
  <2>3. o \in Order /\ UNCHANGED <<tx, funds, deposited, burned, actions>>
    BY <1>4, OrderAssumption DEF OperatorPosts
  <2> QED BY <2>1, <2>2, <2>3, PostKeeps
<1> QED BY <1>1, <1>2, <1>3, <1>4
\* One lemma for the handler's steps: none of them moves funds but Burn.
LEMMA HandlerKeeps ==
  ASSUME IInv, NEW r \in Requests, Handler(r)
  PROVE  IInv'
<1> DEFINE Rest(q) == Posted(q) /\ CallFits(q) /\ TransferChecked(q) /\ Finished(q)
<1> USE TxAssumption DEF Posted, CallFits, TransferChecked, Finished, Sent
<1>1. CASE ExecuteNoop(r)
  <2>1. TypeOK'
    BY <1>1 DEF ExecuteNoop, IInv, TypeOK, funds
  <2>2. ASSUME NEW q \in Requests PROVE Rest(q)'
    BY <1>1 DEF ExecuteNoop, IInv, TypeOK
  <2> QED BY <2>1, <2>2 DEF IInv
<1>2. CASE Subscribe(r)
  <2>1. TypeOK'
    BY <1>2 DEF Subscribe, Queue, IInv, TypeOK, funds, Calls, TxStates, InFlight
  <2>2. ASSUME NEW q \in Requests PROVE Rest(q)'
    BY <1>2 DEF Subscribe, Queue, IInv, TypeOK, Calls, TxStates
  <2> QED BY <2>1, <2>2 DEF IInv
<1>3. CASE Redeem(r)
  <2>1. TypeOK'
    BY <1>3 DEF Redeem, Queue, IInv, TypeOK, funds, Calls, TxStates, InFlight
  <2>2. ASSUME NEW q \in Requests PROVE Rest(q)'
    BY <1>3 DEF Redeem, Queue, IInv, TypeOK, Calls, TxStates
  <2> QED BY <2>1, <2>2 DEF IInv
<1>4. CASE CheckDeposit(r)
  <2>1. TypeOK'
    BY <1>4 DEF CheckDeposit, Known, DomainBalance, IInv, TypeOK, funds, InFlight
  <2>2. ASSUME NEW q \in Requests PROVE Rest(q)'
    BY <1>4 DEF CheckDeposit, Known, DomainBalance, IInv, TypeOK
  <2> QED BY <2>1, <2>2 DEF IInv
<1>5. CASE Burn(r)
  <2>1. /\ order[r] \in Order /\ order[r].src \in GatewayChains
        /\ deposited[order[r].src] \in Nat /\ order[r].amount \in Nat
    BY <1>5, OrderAmount DEF Burn, IInv, TypeOK
  <2>2. deposited[order[r].src] - order[r].amount \in Nat
    BY <1>5, <2>1 DEF Burn
  <2>3. TypeOK'
    BY <1>5, <2>2 DEF Burn, IInv, TypeOK, funds, InFlight
  <2>4. ASSUME NEW q \in Requests PROVE Rest(q)'
    BY <1>5 DEF Burn, IInv, TypeOK
  <2> QED BY <2>3, <2>4 DEF IInv
<1>6. CASE Mint(r)
  <2>1. TypeOK'
    BY <1>6 DEF Mint, Queue, IInv, TypeOK, funds, Calls, TxStates, InFlight
  <2>2. ASSUME NEW q \in Requests PROVE Rest(q)'
    BY <1>6 DEF Mint, Queue, IInv, TypeOK, Calls, TxStates
  <2> QED BY <2>1, <2>2 DEF IInv
<1>7. CASE PollConfirmed(r)
  <2>1. TypeOK'
    BY <1>7 DEF PollConfirmed, Queue, IInv, TypeOK, funds, Calls, TxStates, InFlight
  <2>2. ASSUME NEW q \in Requests PROVE Rest(q)'
    BY <1>7 DEF PollConfirmed, Queue, IInv, TypeOK, Calls, TxStates
  <2> QED BY <2>1, <2>2 DEF IInv
<1>8. CASE Record(r)
  <2>1. TypeOK'
    BY <1>8 DEF Record, RecordTreasury, IInv, TypeOK, funds
  <2>2. ASSUME NEW q \in Requests PROVE Rest(q)'
    BY <1>8 DEF Record, RecordTreasury, IInv, TypeOK, Calls
  <2> QED BY <2>1, <2>2 DEF IInv
<1>9. CASE Raises(r)
  <2>1. TypeOK'
    BY <1>9 DEF Raises, IInv, TypeOK, funds
  <2>2. ASSUME NEW q \in Requests PROVE Rest(q)'
    BY <1>9 DEF Raises, IInv, TypeOK, InFlight
  <2> QED BY <2>1, <2>2 DEF IInv
<1> QED BY <1>1, <1>2, <1>3, <1>4, <1>5, <1>6, <1>7, <1>8, <1>9 DEF Handler

\* A transaction moves no more than there is.
LEMMA LandingTypes ==
  ASSUME IInv, NEW r \in Requests, TxLands(r)
  PROVE  usdc' \in [GatewayChains -> Nat] /\ usyc' \in Nat /\ allowance' \in Nat
<1>1. order[r] \in Order /\ order[r].amount \in Nat
  BY OrderAmount DEF TxLands, IInv, CallFits, Sent
<1>2. /\ usdc \in [GatewayChains -> Nat] /\ usdc["arc"] \in Nat
      /\ usyc \in Nat /\ allowance \in Nat
  BY ChainAssumption DEF IInv, TypeOK
<1>3. CASE tx[r].call = "approve" /\ Approve(r)
  BY <1>1, <1>2, <1>3 DEF Approve
<1>4. CASE tx[r].call = "deposit" /\ Deposit(r)
  <2>1. order[r].amount <= allowance /\ order[r].amount <= usdc["arc"]
    BY <1>1, <1>2, <1>4 DEF Deposit, Lesser
  <2>2. SharesFor(order[r].amount) \in Nat
    BY <1>1, Conversions
  <2>3. /\ allowance - order[r].amount \in Nat /\ usdc["arc"] - order[r].amount \in Nat
        /\ usyc + SharesFor(order[r].amount) \in Nat
    BY <1>1, <1>2, <2>1, <2>2
  <2> QED BY <1>2, <1>4, <2>3 DEF Deposit
<1>5. CASE tx[r].call = "redeem" /\ RedeemShares(r)
  <2>1. AssetsFor(order[r].amount) \in Nat
    BY <1>1, Conversions
  <2>2. usyc - order[r].amount \in Nat /\ usdc["arc"] + AssetsFor(order[r].amount) \in Nat
    BY <1>1, <1>2, <1>5, <2>1 DEF RedeemShares
  <2> QED BY <1>2, <1>5, <2>2 DEF RedeemShares
<1>6. CASE tx[r].call = "mint" /\ MintUsdc(r)
  <2>1. order[r].dst \in GatewayChains
    BY <1>6 DEF IInv, TransferChecked, Sent, TxLands
  <2>2. usdc[order[r].dst] + order[r].amount \in Nat
    BY <1>1, <1>2, <2>1
  <2> QED BY <1>2, <1>6, <2>2 DEF MintUsdc
<1> QED BY <1>3, <1>4, <1>5, <1>6 DEF TxLands

LEMMA ChainKeeps ==
  ASSUME IInv, NEW r \in Requests, TxLands(r) \/ TxFails(r)
  PROVE  IInv'
<1>1. /\ tx[r] \in [call : Calls, state : TxStates] /\ tx[r].state = "queued"
      /\ tx'[r] \in [call : Calls, state : TxStates] /\ tx'[r].call = tx[r].call
      /\ \A q \in Requests \ {r} : tx'[q] = tx[q]
  BY DEF TxLands, TxFails, IInv, TypeOK, TxStates
<1>2. Sent(r) /\ Sent(r)' /\ UNCHANGED <<seen, order, pc, deposited, burned, actions>>
  BY <1>1, TxAssumption DEF TxLands, TxFails, Sent
<1>3. TypeOK'
  <2>1. usdc' \in [GatewayChains -> Nat] /\ usyc' \in Nat /\ allowance' \in Nat
    BY LandingTypes DEF TxFails, funds, IInv, TypeOK
  <2>2. tx' \in [Requests -> [call : Calls, state : TxStates] \cup {NoTx}]
    BY DEF TxLands, TxFails, IInv, TypeOK, TxStates
  <2> QED BY <1>2, <2>1, <2>2 DEF IInv, TypeOK
<1>4. ASSUME NEW q \in Requests
      PROVE  (Posted(q) /\ CallFits(q) /\ TransferChecked(q) /\ Finished(q))'
  <2>1. Sent(q)' = Sent(q) /\ tx'[q].call = tx[q].call
    BY <1>1, <1>2 DEF Sent
  <2>2. pc[q] \in {"record", "submitted"} /\ Sent(q) /\ tx[q].state = "landed" => q # r
    BY <1>1
  <2>3. q # r => tx'[q] = tx[q]
    BY <1>1
  <2> QED
    BY <1>1, <1>2, <2>1, <2>2, <2>3
    DEF IInv, Posted, CallFits, TransferChecked, Finished, Sent
<1> QED BY <1>3, <1>4 DEF IInv

-----------------------------------------------------------------------------
\* The strengthened invariant holds in every state.
THEOREM InvariantHolds == Spec => []IInv
<1>1. Init => IInv
  BY InitInv
<1>2. IInv /\ [Next]_vars => IInv'
  <2> SUFFICES ASSUME IInv, [Next]_vars PROVE IInv'
    OBVIOUS
  <2>1. CASE AgrosReads \/ AgrosDecides \/ OperatorPosts
    BY <2>1, AgrosKeeps
  <2>2. CASE \E r \in Requests : Handler(r) \/ TxLands(r) \/ TxFails(r)
    BY <2>2, HandlerKeeps, ChainKeeps
  <2>3. CASE UNCHANGED vars
    BY <2>3 DEF vars, funds, IInv, TypeOK, Posted, CallFits, TransferChecked, Finished, Sent
  <2> QED BY <2>1, <2>2, <2>3 DEF Next
<1> QED BY <1>1, <1>2, PTL DEF Spec

\* Types: no balance, allowance or deposit is ever negative.
THEOREM TypeCorrect == Spec => []TypeOK
<1>1. IInv => TypeOK
  BY DEF IInv
<1> QED BY <1>1, InvariantHolds, PTL

\* A treasury move that is reported as submitted, or recorded, is complete on
\* every chain it touches.
THEOREM ReportsAreComplete == Spec => []ReportedMovesAreComplete
<1>1. IInv => ReportedMovesAreComplete
  <2> SUFFICES ASSUME IInv, NEW r \in Requests,
                      r \in actions \/ (pc[r] = "submitted" /\ order[r].action # "noop")
               PROVE  /\ Moved(r, LastCall(order[r]))
                      /\ order[r].action = "gateway_transfer" => r \in burned
    BY DEF ReportedMovesAreComplete
  <2>1. Sent(r) /\ tx[r].state = "landed" /\ tx[r].call # "approve"
    BY DEF IInv, Finished
  <2>2. tx[r].call \in {"deposit", "redeem", "mint"}
    BY <2>1 DEF IInv, TypeOK, Calls, Sent
  <2> QED BY <2>1, <2>2 DEF IInv, CallFits, Moved, LastCall, Sent
<1> QED BY <1>1, InvariantHolds, PTL

-----------------------------------------------------------------------------
(* What the Teller may still pull.  Approvals replace one another and       *)
(* deposits of overlapping sweeps land in any order, so the sweep that owes  *)
(* the allowance changes; the invariant above is assumed throughout.        *)

\* Sweep r has approved the Teller, at least for the whole allowance, and its
\* deposit has not landed.
Owes(r) ==
  /\ Sent(r) /\ order[r].action = "usyc_subscribe"
  /\ allowance <= order[r].amount
  /\ \/ tx[r].call = "approve" /\ tx[r].state = "landed"
     \/ tx[r].call = "deposit" /\ tx[r].state # "landed"

AllowanceIsOwed == allowance > 0 => \E r \in Requests : Owes(r)

\* A step that touches neither the allowance nor the calls already sent leaves
\* the debt where it is.
LEMMA DebtStays ==
  ASSUME AllowanceIsOwed, allowance' = allowance,
         \A q \in Requests : Sent(q) => tx'[q] = tx[q] /\ order'[q] = order[q]
  PROVE  AllowanceIsOwed'
BY DEF AllowanceIsOwed, Owes, Sent

LEMMA PostingOwes ==
  ASSUME IInv, AllowanceIsOwed, AgrosReads \/ AgrosDecides \/ OperatorPosts
  PROVE  AllowanceIsOwed'
<1>1. allowance' = allowance /\ tx' = tx
  BY DEF AgrosReads, AgrosDecides, OperatorPosts, funds
<1>2. ASSUME NEW q \in Requests, Sent(q) PROVE order'[q] = order[q]
  <2>1. pc[q] # "idle"
    BY <1>2 DEF IInv, Posted, Sent
  <2>2. order' = order \/ \E r \in Requests : pc[r] = "idle" /\ \E o : order' = [order EXCEPT ![r] = o]
    BY DEF AgrosReads, AgrosDecides, OperatorPosts, Post
  <2> QED BY <2>1, <2>2 DEF IInv, TypeOK
<1> QED BY <1>1, <1>2, DebtStays

LEMMA HandlerOwes ==
  ASSUME IInv, AllowanceIsOwed, NEW r \in Requests, Handler(r)
  PROVE  AllowanceIsOwed'
<1>1. order' = order /\ allowance' = allowance
  BY DEF Handler, ExecuteNoop, Subscribe, Redeem, CheckDeposit, Burn, Mint,
         PollConfirmed, Record, Raises, funds
<1>2. CASE ~PollConfirmed(r)
  <2>1. tx' = tx \/ (tx[r] = NoTx /\ \E call : Queue(r, call))
    BY <1>2 DEF Handler, ExecuteNoop, Subscribe, Redeem, CheckDeposit, Burn, Mint,
                Record, Raises, IInv, Posted
  <2>2. \A q \in Requests : Sent(q) => tx'[q] = tx[q]
    BY <2>1 DEF Queue, IInv, TypeOK, Sent
  <2> QED BY <1>1, <2>2, DebtStays
<1>3. CASE PollConfirmed(r) /\ tx[r].call # "approve"
  BY <1>1, <1>3, DebtStays DEF PollConfirmed
<1>4. CASE PollConfirmed(r) /\ tx[r].call = "approve"
  \* The sweep whose approval landed now has its deposit queued.
  <2>1. tx' = [tx EXCEPT ![r] = [call |-> "deposit", state |-> "queued"]]
    BY <1>4 DEF PollConfirmed, Queue
  <2>2. tx'[r] # NoTx
    BY <2>1, TxAssumption DEF IInv, TypeOK, Calls, TxStates
  <2>3. ASSUME NEW w \in Requests, Owes(w) PROVE Owes(w)'
    <3>1. CASE w = r
      BY <1>1, <2>1, <2>2, <2>3, <3>1 DEF Owes, Sent, IInv, TypeOK
    <3>2. CASE w # r
      BY <1>1, <2>1, <2>3, <3>2 DEF Owes, Sent, IInv, TypeOK
    <3> QED BY <3>1, <3>2
  <2> QED BY <1>1, <2>3 DEF AllowanceIsOwed
<1> QED BY <1>2, <1>3, <1>4

LEMMA ChainOwes ==
  ASSUME IInv, AllowanceIsOwed, NEW r \in Requests, TxLands(r) \/ TxFails(r)
  PROVE  AllowanceIsOwed'
<1>1. /\ Sent(r) /\ Sent(r)' /\ order' = order
      /\ tx[r].state = "queued" /\ tx'[r].call = tx[r].call
      /\ \A q \in Requests \ {r} : tx'[q] = tx[q]
  BY TxAssumption DEF TxLands, TxFails, IInv, TypeOK, TxStates, Sent
<1>2. order[r] \in Order /\ order[r].amount \in Nat /\ allowance \in Nat
  BY <1>1, OrderAmount DEF IInv, CallFits, TypeOK
<1>3. ASSUME NEW w \in Requests, w # r, Owes(w), allowance' <= allowance, allowance' \in Nat
      PROVE  Owes(w)'
  <2>1. order[w].amount \in Nat
    BY <1>3, OrderAmount DEF IInv, CallFits, Owes
  <2>2. allowance' <= order[w].amount
    BY <1>2, <1>3, <2>1 DEF Owes
  <2> QED BY <1>1, <1>3, <2>2 DEF Owes, Sent
<1>4. ASSUME NEW w \in Requests, Owes(w)
      PROVE  w = r => tx[r].call = "deposit" /\ allowance <= order[r].amount
  BY <1>1, <1>4 DEF Owes
<1>5. CASE TxLands(r) /\ tx[r].call = "approve"
  <2>1. allowance' = order[r].amount /\ tx'[r].state = "landed"
    BY <1>5 DEF TxLands, Approve, IInv, TypeOK
  <2>2. order[r].action = "usyc_subscribe"
    BY <1>1, <1>5 DEF IInv, CallFits
  <2>3. Owes(r)'
    BY <1>1, <1>2, <1>5, <2>1, <2>2 DEF Owes
  <2> QED BY <2>3 DEF AllowanceIsOwed
<1>6. CASE TxLands(r) /\ tx[r].call = "deposit"
  <2>1. order[r].amount <= allowance /\ allowance' = allowance - order[r].amount
    <3>1. usdc["arc"] \in Nat
      BY ChainAssumption DEF IInv, TypeOK
    <3>2. Deposit(r)
      BY <1>6 DEF TxLands
    <3> QED BY <1>2, <3>1, <3>2 DEF Deposit, Lesser
  <2>2. allowance' <= allowance /\ allowance' \in Nat
    BY <1>2, <2>1
  <2>3. ASSUME allowance' > 0 PROVE \E w \in Requests : Owes(w)'
    <3>1. PICK w \in Requests : Owes(w)
      BY <1>2, <2>2, <2>3 DEF AllowanceIsOwed
    <3>2. w # r
      BY <1>2, <1>4, <2>1, <2>3, <3>1
    <3> QED BY <1>3, <2>2, <3>1, <3>2
  <2> QED BY <2>3 DEF AllowanceIsOwed
<1>7. CASE TxFails(r) \/ (TxLands(r) /\ tx[r].call \notin {"approve", "deposit"})
  <2>1. allowance' = allowance
    BY <1>7 DEF TxFails, TxLands, RedeemShares, MintUsdc, funds
  <2>2. ASSUME NEW w \in Requests, Owes(w) PROVE Owes(w)'
    <3>1. CASE w # r
      BY <1>2, <1>3, <2>1, <2>2, <3>1
    <3>2. CASE w = r
      <4>1. tx[r].call = "deposit" /\ allowance <= order[r].amount
        BY <1>4, <2>2, <3>2
      <4>2. tx'[r].state # "landed"
        BY <1>7, <4>1 DEF TxFails, IInv, TypeOK
      <4> QED BY <1>1, <2>1, <2>2, <3>2, <4>1, <4>2 DEF Owes
    <3> QED BY <3>1, <3>2
  <2> QED BY <2>1, <2>2 DEF AllowanceIsOwed
<1> QED BY <1>5, <1>6, <1>7

\* No allowance is left once every sweep that approved the Teller succeeded,
\* for any number of overlapping sweeps and any order of their transactions.
THEOREM AllowanceIsConsumed == Spec => []SuccessfulSweepsLeaveNoAllowance
<1>1. Init => AllowanceIsOwed
  BY DEF Init, AllowanceIsOwed
<1>2. IInv /\ AllowanceIsOwed /\ [Next]_vars => AllowanceIsOwed'
  <2> SUFFICES ASSUME IInv, AllowanceIsOwed, [Next]_vars PROVE AllowanceIsOwed'
    OBVIOUS
  <2>1. CASE AgrosReads \/ AgrosDecides \/ OperatorPosts
    BY <2>1, PostingOwes
  <2>2. CASE \E r \in Requests : Handler(r) \/ TxLands(r) \/ TxFails(r)
    BY <2>2, HandlerOwes, ChainOwes
  <2>3. CASE UNCHANGED vars
    BY <2>3, DebtStays DEF vars, funds
  <2> QED BY <2>1, <2>2, <2>3 DEF Next
<1>3. IInv /\ AllowanceIsOwed => SuccessfulSweepsLeaveNoAllowance
  <2> SUFFICES ASSUME IInv, AllowanceIsOwed, allowance # 0,
                      \A r \in Requests :
                        order[r] # NoOrder /\ order[r].action = "usyc_subscribe" /\ tx[r] # NoTx =>
                          pc[r] = "submitted"
               PROVE  FALSE
    BY DEF SuccessfulSweepsLeaveNoAllowance
  <2>1. PICK w \in Requests : Owes(w)
    BY DEF AllowanceIsOwed, IInv, TypeOK
  <2>2. order[w] \in Order /\ order[w] # NoOrder
    BY <2>1, OrderAssumption DEF IInv, CallFits, Owes
  <2>3. pc[w] = "submitted" /\ order[w].action = "usyc_subscribe"
    BY <2>1, <2>2 DEF Owes, Sent
  <2> QED BY <2>1, <2>3 DEF IInv, Finished, Owes
<1> QED BY <1>1, <1>2, <1>3, InvariantHolds, PTL DEF Spec

-----------------------------------------------------------------------------
(* Moves that have landed, and AGROS' decisions on them.                    *)

Ends == {"deposit", "redeem", "mint"}

\* Only a landing moves USDC or shares, or adds to the moves made.
LEMMA QuietSteps ==
  ASSUME IInv, [Next]_vars, ~\E r \in Requests : TxLands(r)
  PROVE  /\ usdc' = usdc /\ usyc' = usyc
         /\ \A q \in Requests, call \in Ends : Moved(q, call)' <=> Moved(q, call)
         /\ \A q \in Requests : pc[q] # "idle" => order'[q] = order[q]
<1>1. CASE AgrosReads \/ AgrosDecides \/ OperatorPosts \/ UNCHANGED vars
  <2>1. UNCHANGED <<tx, usdc, usyc>>
    BY <1>1 DEF AgrosReads, AgrosDecides, OperatorPosts, vars, funds
  <2>2. order' = order \/ \E r \in Requests : pc[r] = "idle" /\ \E o : order' = [order EXCEPT ![r] = o]
    BY <1>1 DEF AgrosReads, AgrosDecides, OperatorPosts, Post, vars
  <2>3. \A q \in Requests : pc[q] # "idle" => order'[q] = order[q]
    BY <2>2 DEF IInv, TypeOK
  <2> QED BY <2>1, <2>3 DEF Moved
<1>2. ASSUME NEW r \in Requests, Handler(r) \/ TxFails(r)
      PROVE  /\ UNCHANGED <<order, usdc, usyc>>
             /\ \A q \in Requests, call \in Ends : Moved(q, call)' <=> Moved(q, call)
  <2>1. UNCHANGED <<order, usdc, usyc>>
    BY <1>2 DEF TxFails, Handler, ExecuteNoop, Subscribe, Redeem, CheckDeposit, Burn, Mint,
                PollConfirmed, Record, Raises, funds
  <2>2. \/ tx' = tx
        \/ /\ \A call \in Ends : ~Moved(r, call)
           /\ \/ \E call : Queue(r, call)
              \/ tx[r] # NoTx /\ tx' = [tx EXCEPT ![r].state = "failed"]
    <3>1. CASE PollConfirmed(r)
      BY <3>1 DEF PollConfirmed, Moved, Ends
    <3>2. CASE TxFails(r)
      BY <3>2 DEF TxFails, Moved
    <3>3. CASE Handler(r) /\ ~PollConfirmed(r)
      BY <3>3 DEF Handler, ExecuteNoop, Subscribe, Redeem, CheckDeposit, Burn, Mint,
                  Record, Raises, IInv, Posted, Moved
    <3> QED BY <1>2, <3>1, <3>2, <3>3
  <2>3. /\ \A q \in Requests \ {r} : tx'[q] = tx[q]
        /\ tx' # tx => tx'[r].state # "landed"
    BY <2>2, TxAssumption DEF Queue, IInv, TypeOK, TxStates
  <2> QED BY <2>1, <2>2, <2>3 DEF Moved
<1> QED BY <1>1, <1>2 DEF Next

\* A landing completes one move of one request, or none if it is an approval.
LEMMA LandingSteps ==
  ASSUME IInv, NEW r \in Requests, TxLands(r)
  PROVE  /\ UNCHANGED <<seen, order, deposited, burned>>
         /\ order[r] \in Order /\ order[r].amount \in Nat
         /\ \A call \in Ends : ~Moved(r, call) /\ (Moved(r, call)' <=> tx[r].call = call)
         /\ \A q \in Requests \ {r}, call \in Ends : Moved(q, call)' <=> Moved(q, call)
<1>1. /\ Sent(r) /\ tx'[r] # NoTx /\ tx[r].state = "queued" /\ tx'[r].state = "landed"
      /\ tx'[r].call = tx[r].call /\ \A q \in Requests \ {r} : tx'[q] = tx[q]
      /\ UNCHANGED <<seen, order, deposited, burned>>
  BY TxAssumption DEF TxLands, IInv, TypeOK, TxStates, Sent
<1>2. order[r] \in Order
  BY <1>1 DEF IInv, CallFits
<1> QED BY <1>1, <1>2, OrderAmount DEF Moved

\* AGROS sweeps what it saw above the target, and redeems at most what it saw
\* missing, if it saw shares; in either case the amount it computed.
LEMMA AgrosDecision ==
  ASSUME NEW b \in [usdc : Nat, usyc : Nat], NEW o \in BuildDecision(b)
  PROVE  /\ o.action = "usyc_subscribe" => o.amount + Target = b.usdc
         /\ o.action = "usyc_redeem" =>
              b.usyc # 0 /\ o.amount + b.usdc <= Target /\ o.amount = RedeemAmount(b)
<1>1. Surplus(b) = b.usdc - Target /\ b.usdc \in Nat /\ Target \in Nat /\ MinSweep \in Nat
  BY AmountsAssumption DEF Surplus
<1>2. CASE Surplus(b) >= MinSweep
  BY <1>1, <1>2 DEF BuildDecision, Subscription
<1>3. CASE ~(Surplus(b) >= MinSweep)
  <2>1. o = Redemption(RedeemAmount(b)) /\ RedeemAmount(b) >= MinSweep
    BY <1>3 DEF BuildDecision
  <2>2. b.usyc \in Nat /\ (b.usyc * 99) \div 100 \in Nat /\ (b.usyc = 0 => (b.usyc * 99) \div 100 = 0)
    OBVIOUS
  <2>3. RedeemAmount(b) \in Int /\ RedeemAmount(b) <= -Surplus(b)
        /\ RedeemAmount(b) <= (b.usyc * 99) \div 100
    BY <1>1, <2>2 DEF RedeemAmount, Lesser
  <2>4. b.usyc # 0
    BY <2>1, <2>2, <2>3, AmountsAssumption
  <2> QED BY <1>1, <2>1, <2>3, <2>4 DEF Redemption
<1> QED BY <1>2, <1>3

\* An order of AGROS' own.
Own(r) == order[r] \in Order \ OperatorOrders

\* Until a sweep lands, the wallet holds at least what AGROS' sweeps were
\* decided on, read or not.
SweepsAreCovered ==
  Sweeps = {} =>
    /\ seen # NoBalance => seen.usdc <= usdc["arc"]
    /\ \A r \in Requests :
         Own(r) /\ order[r].action = "usyc_subscribe" =>
           order[r].amount + Target <= usdc["arc"]

\* What AGROS sees of a holding no move has touched: no shares, the USDC there
\* is, or none of it beside all the shares.
FirstSight ==
  /\ seen \in [usdc : Nat, usyc : Nat]
  /\ seen.usyc = 0 \/ seen.usdc = usdc["arc"] \/ RedeemAmount(seen) = RedeemAmount(UsdcUnread)

\* Until any move lands, a redemption is no more than what is missing, or the
\* one that is decided on USDC that was not read.
RedemptionsAreMissing ==
  Sweeps \cup Redemptions \cup Mints = {} =>
    /\ usyc = InitialUsyc
    /\ seen # NoBalance => FirstSight
    /\ \A r \in Requests :
         Own(r) /\ order[r].action = "usyc_redeem" =>
           \/ order[r].amount + usdc["arc"] <= Target
           \/ order[r].amount = RedeemAmount(UsdcUnread)

MoveInv == SweepsAreCovered /\ RedemptionsAreMissing /\ SoleMoveMeetsTarget

\* A step that moves nothing.
LEMMA QuietMoves ==
  ASSUME IInv, [Next]_vars, ~\E r \in Requests : TxLands(r)
  PROVE  Sweeps' = Sweeps /\ Redemptions' = Redemptions /\ Mints' = Mints
<1>1. \A q \in Requests, call \in Ends : Moved(q, call)' <=> Moved(q, call)
  BY QuietSteps
<1>2. \A q \in Requests : Moved(q, "mint") => order'[q] = order[q]
  BY QuietSteps DEF Moved, IInv, Posted
<1> QED BY <1>1, <1>2 DEF Sweeps, Redemptions, Mints, Ends

\* The orders posted in a step, AGROS' among them decided on what it has seen.
LEMMA Posts ==
  ASSUME IInv, [Next]_vars, ~\E r \in Requests : TxLands(r), NEW r \in Requests, Own(r)'
  PROVE  order'[r] = order[r] \/ (seen # NoBalance /\ order'[r] \in BuildDecision(seen))
<1>1. CASE AgrosDecides
  BY <1>1 DEF AgrosDecides, Post, IInv, TypeOK
<1>2. CASE OperatorPosts
  BY <1>2 DEF OperatorPosts, Post, IInv, TypeOK, Own
<1>3. CASE ~AgrosDecides /\ ~OperatorPosts
  BY <1>3 DEF Next, AgrosReads, vars, TxFails, Handler, ExecuteNoop, Subscribe, Redeem,
              CheckDeposit, Burn, Mint, PollConfirmed, Record, Raises
<1> QED BY <1>1, <1>2, <1>3

LEMMA SeenStep ==
  ASSUME IInv, [Next]_vars, seen' # NoBalance
  PROVE  seen' = seen \/ seen' \in GetBalances
BY DEF Next, AgrosReads, AgrosDecides, OperatorPosts, vars, TxLands, TxFails, Handler,
       ExecuteNoop, Subscribe, Redeem, CheckDeposit, Burn, Mint, PollConfirmed, Record, Raises

LEMMA QuietKeepsMoves ==
  ASSUME IInv, MoveInv, [Next]_vars, ~\E r \in Requests : TxLands(r)
  PROVE  MoveInv'
<1>1. /\ Sweeps' = Sweeps /\ Redemptions' = Redemptions /\ Mints' = Mints
      /\ usdc' = usdc /\ usdc["arc"] \in Nat
  BY QuietMoves, QuietSteps, ChainAssumption DEF IInv, TypeOK
<1>2. seen' \in GetBalances =>
        /\ seen' \in [usdc : Nat, usyc : Nat] /\ seen'.usdc <= usdc["arc"]
        /\ \/ seen'.usyc = 0 \/ seen'.usdc = usdc["arc"]
           \/ seen' = [usdc |-> 0, usyc |-> usyc]
  BY <1>1 DEF GetBalances, GetBalance, IInv, TypeOK
<1>3. SweepsAreCovered'
  <2> SUFFICES ASSUME Sweeps = {}
               PROVE  /\ seen' # NoBalance => seen'.usdc <= usdc["arc"]
                      /\ \A r \in Requests :
                           Own(r)' /\ order'[r].action = "usyc_subscribe" =>
                             order'[r].amount + Target <= usdc["arc"]
    BY <1>1 DEF SweepsAreCovered
  <2>1. seen' # NoBalance => seen'.usdc <= usdc["arc"]
    BY <1>2, SeenStep DEF MoveInv, SweepsAreCovered
  <2>2. ASSUME NEW r \in Requests, Own(r)', order'[r].action = "usyc_subscribe"
        PROVE  order'[r].amount + Target <= usdc["arc"]
    <3>1. CASE order'[r] = order[r]
      BY <2>2, <3>1 DEF MoveInv, SweepsAreCovered, Own
    <3>2. CASE seen # NoBalance /\ order'[r] \in BuildDecision(seen)
      <4>1. seen \in [usdc : Nat, usyc : Nat] /\ seen.usdc <= usdc["arc"]
        BY <3>2 DEF IInv, TypeOK, MoveInv, SweepsAreCovered
      <4>2. order'[r].amount + Target = seen.usdc
        BY <2>2, <3>2, <4>1, AgrosDecision
      <4> QED BY <4>1, <4>2
    <3> QED BY <2>2, <3>1, <3>2, Posts
  <2> QED BY <2>1, <2>2
<1>4. RedemptionsAreMissing'
  <2> SUFFICES ASSUME Sweeps \cup Redemptions \cup Mints = {}
               PROVE  /\ usyc' = InitialUsyc
                      /\ seen' # NoBalance => FirstSight'
                      /\ \A r \in Requests :
                           Own(r)' /\ order'[r].action = "usyc_redeem" =>
                             \/ order'[r].amount + usdc["arc"] <= Target
                             \/ order'[r].amount = RedeemAmount(UsdcUnread)
    BY <1>1 DEF RedemptionsAreMissing
  <2>0. usyc = InitialUsyc /\ usyc' = usyc
    BY QuietSteps DEF MoveInv, RedemptionsAreMissing
  <2>1. seen' # NoBalance => FirstSight'
    <3>1. CASE seen' = seen /\ seen # NoBalance
      BY <1>1, <3>1 DEF MoveInv, RedemptionsAreMissing, FirstSight, RedeemAmount, Surplus
    <3>2. CASE seen' \in GetBalances
      BY <1>1, <1>2, <2>0, <3>2 DEF FirstSight, UsdcUnread, RedeemAmount, Surplus
    <3> QED BY <3>1, <3>2, SeenStep
  <2>2. ASSUME NEW r \in Requests, Own(r)', order'[r].action = "usyc_redeem"
        PROVE  \/ order'[r].amount + usdc["arc"] <= Target
               \/ order'[r].amount = RedeemAmount(UsdcUnread)
    <3>1. CASE order'[r] = order[r]
      BY <2>2, <3>1 DEF MoveInv, RedemptionsAreMissing, Own
    <3>2. CASE seen # NoBalance /\ order'[r] \in BuildDecision(seen)
      <4>1. /\ seen \in [usdc : Nat, usyc : Nat]
            /\ \/ seen.usyc = 0 \/ seen.usdc = usdc["arc"]
               \/ RedeemAmount(seen) = RedeemAmount(UsdcUnread)
        BY <3>2 DEF MoveInv, RedemptionsAreMissing, FirstSight
      <4>2. /\ seen.usyc # 0 /\ order'[r].amount + seen.usdc <= Target
            /\ order'[r].amount = RedeemAmount(seen)
        BY <2>2, <3>2, <4>1, AgrosDecision
      <4> QED BY <4>1, <4>2
    <3> QED BY <2>2, <3>1, <3>2, Posts
  <2> QED BY <2>0, <2>1, <2>2
<1>5. SoleMoveMeetsTarget'
  <2> SUFFICES ASSUME NEW r \in Requests, order'[r] \notin OperatorOrders
               PROVE  /\ Sweeps = {r} => usdc["arc"] >= Target
                      /\ Redemptions = {r} /\ Sweeps \cup Mints = {} =>
                           \/ usdc["arc"] - Target <= Premium(order'[r].amount)
                           \/ order'[r].amount = RedeemAmount(UsdcUnread)
    BY <1>1 DEF SoleMoveMeetsTarget, Premium, AssetsFor, RedeemAmount, UsdcUnread, Surplus
  <2>1. r \in Sweeps \cup Redemptions => order'[r] = order[r]
    BY QuietSteps DEF Sweeps, Redemptions, Moved, IInv, Posted
  <2> QED BY <2>1 DEF MoveInv, SoleMoveMeetsTarget
<1> QED BY <1>3, <1>4, <1>5 DEF MoveInv

\* The four calls, and what each of them leaves of the moves.
LEMMA LandingKeepsMoves ==
  ASSUME IInv, MoveInv, NEW r \in Requests, TxLands(r)
  PROVE  MoveInv'
<1> DEFINE a == order[r].amount
<1>1. /\ UNCHANGED <<seen, order>> /\ order[r] \in Order /\ a \in Nat
      /\ usdc["arc"] \in Nat /\ Target \in Nat
      /\ seen # NoBalance => seen.usdc \in Nat
      /\ \A q \in Requests : Own(q) => order[q].amount \in Nat
  BY LandingSteps, ChainAssumption, AmountsAssumption, OrderAmount DEF IInv, TypeOK, Own
<1>2. /\ Sweeps' = IF tx[r].call = "deposit" THEN Sweeps \cup {r} ELSE Sweeps
      /\ Redemptions' = IF tx[r].call = "redeem" THEN Redemptions \cup {r} ELSE Redemptions
      /\ Mints' = IF tx[r].call = "mint" /\ order[r].dst = "arc" THEN Mints \cup {r} ELSE Mints
      /\ r \notin Sweeps \cup Redemptions \cup Mints
  BY LandingSteps DEF Sweeps, Redemptions, Mints, Ends
<1>3. CASE tx[r].call = "deposit" /\ Deposit(r)
  <2>1. /\ usdc'["arc"] = usdc["arc"] - a /\ usdc'["arc"] \in Int
        /\ Sweeps' = Sweeps \cup {r} /\ order[r].action = "usyc_subscribe"
    <3>1. Sent(r)
      BY DEF TxLands, Sent
    <3> QED BY <1>1, <1>2, <1>3, <3>1, ChainAssumption DEF Deposit, IInv, TypeOK, CallFits
  <2>2. SweepsAreCovered' /\ RedemptionsAreMissing'
    BY <2>1 DEF SweepsAreCovered, RedemptionsAreMissing
  <2>3. SoleMoveMeetsTarget'
    <3> SUFFICES ASSUME NEW q \in Requests, order[q] \notin OperatorOrders, Sweeps' = {q}
                 PROVE  usdc'["arc"] >= Target
      BY <1>1, <2>1 DEF SoleMoveMeetsTarget
    <3>1. q = r /\ Sweeps = {}
      BY <1>2, <2>1
    <3>2. a + Target <= usdc["arc"]
      BY <1>1, <2>1, <3>1 DEF MoveInv, SweepsAreCovered, Own
    <3> QED BY <1>1, <2>1, <3>2
  <2> QED BY <2>2, <2>3 DEF MoveInv
<1>4. CASE tx[r].call = "redeem" /\ RedeemShares(r)
  <2>1. /\ usdc'["arc"] = usdc["arc"] + AssetsFor(a) /\ AssetsFor(a) \in Nat
        /\ Redemptions' = Redemptions \cup {r} /\ Sweeps' = Sweeps /\ Mints' = Mints
        /\ order[r].action = "usyc_redeem"
    <3>1. Sent(r)
      BY DEF TxLands, Sent
    <3> QED BY <1>1, <1>2, <1>4, <3>1, ChainAssumption, Conversions
            DEF RedeemShares, IInv, TypeOK, CallFits
  <2>2. usdc'["arc"] >= usdc["arc"] /\ usdc'["arc"] \in Nat
    BY <1>1, <2>1
  <2>3. SweepsAreCovered'
    BY <1>1, <2>1, <2>2 DEF MoveInv, SweepsAreCovered, Own
  <2>4. RedemptionsAreMissing'
    BY <2>1 DEF RedemptionsAreMissing
  <2>5. ASSUME NEW q \in Requests, order[q] \notin OperatorOrders, Sweeps = {q}
        PROVE  usdc'["arc"] >= Target
    <3>1. usdc["arc"] >= Target
      BY <2>5 DEF MoveInv, SoleMoveMeetsTarget
    <3> QED BY <1>1, <2>2, <3>1
  <2>6. ASSUME NEW q \in Requests, order[q] \notin OperatorOrders,
               Redemptions' = {q}, Sweeps \cup Mints = {}
        PROVE  \/ usdc'["arc"] - Target <= Premium(order[q].amount)
               \/ order[q].amount = RedeemAmount(UsdcUnread)
    <3>1. q = r /\ Redemptions = {}
      BY <1>2, <2>1, <2>6
    <3>2. a + usdc["arc"] <= Target \/ a = RedeemAmount(UsdcUnread)
      BY <1>1, <2>1, <2>6, <3>1 DEF MoveInv, RedemptionsAreMissing, Own
    <3> QED BY <1>1, <2>1, <3>1, <3>2 DEF Premium
  <2>7. SoleMoveMeetsTarget'
    BY <1>1, <2>1, <2>5, <2>6 DEF SoleMoveMeetsTarget, Premium, AssetsFor, RedeemAmount, UsdcUnread, Surplus
  <2> QED BY <2>3, <2>4, <2>7 DEF MoveInv
<1>5. CASE (tx[r].call = "approve" /\ Approve(r)) \/ (tx[r].call = "mint" /\ MintUsdc(r))
  <2>1. /\ Sweeps' = Sweeps /\ Redemptions' = Redemptions
        /\ Mints' = Mints => usdc'["arc"] = usdc["arc"]
        /\ Mints \subseteq Mints'
        /\ usdc'["arc"] \in Nat /\ usdc'["arc"] >= usdc["arc"]
    <3>1. CASE Approve(r)
      BY <1>1, <1>2, <1>5, <3>1 DEF Approve, MintUsdc
    <3>2. CASE tx[r].call = "mint" /\ MintUsdc(r)
      <4>1. usdc'["arc"] = IF order[r].dst = "arc" THEN usdc["arc"] + a ELSE usdc["arc"]
        BY <3>2, ChainAssumption DEF MintUsdc, IInv, TypeOK
      <4> QED BY <1>1, <1>2, <3>2, <4>1
    <3> QED BY <1>5, <3>1, <3>2
  <2>2. SweepsAreCovered'
    BY <1>1, <2>1 DEF MoveInv, SweepsAreCovered, Own
  <2>3. RedemptionsAreMissing'
    <3> SUFFICES ASSUME Sweeps' \cup Redemptions' \cup Mints' = {} PROVE RedemptionsAreMissing'
      BY DEF RedemptionsAreMissing
    <3>1. Mints' = Mints /\ usdc'["arc"] = usdc["arc"] /\ Sweeps \cup Redemptions \cup Mints = {}
      BY <2>1
    <3>2. usyc' = usyc /\ UNCHANGED <<seen, order>>
      BY <1>1, <1>5 DEF Approve, MintUsdc
    <3>3. FirstSight' <=> FirstSight
      BY <3>1, <3>2 DEF FirstSight, RedeemAmount, UsdcUnread, Surplus
    <3> QED BY <3>1, <3>2, <3>3
            DEF MoveInv, RedemptionsAreMissing, Own, RedeemAmount, UsdcUnread, Surplus
  <2>4. ASSUME NEW q \in Requests, order[q] \notin OperatorOrders, Sweeps = {q}
        PROVE  usdc'["arc"] >= Target
    <3>1. usdc["arc"] >= Target
      BY <2>4 DEF MoveInv, SoleMoveMeetsTarget
    <3> QED BY <1>1, <2>1, <3>1
  <2>5. ASSUME NEW q \in Requests, order[q] \notin OperatorOrders,
               Redemptions = {q}, Sweeps \cup Mints' = {}
        PROVE  \/ usdc'["arc"] - Target <= Premium(order[q].amount)
               \/ order[q].amount = RedeemAmount(UsdcUnread)
    <3>1. Mints' = Mints /\ usdc'["arc"] = usdc["arc"] /\ Sweeps \cup Mints = {}
      BY <2>1, <2>5
    <3> QED BY <2>5, <3>1 DEF MoveInv, SoleMoveMeetsTarget
  <2>6. SoleMoveMeetsTarget'
    BY <1>1, <2>1, <2>4, <2>5 DEF SoleMoveMeetsTarget, Premium, AssetsFor, RedeemAmount, UsdcUnread, Surplus
  <2> QED BY <2>2, <2>3, <2>6 DEF MoveInv
<1> QED BY <1>3, <1>4, <1>5 DEF TxLands

\* A single sweep of AGROS' leaves the target, and a single redemption of it
\* overshoots by a premium unless get_balance gave AGROS its shares without its
\* USDC, for every set of other requests, open, given up or landing late, every
\* threshold and every share price.
THEOREM SoleMovesMeetTarget == Spec => []SoleMoveMeetsTarget
<1>1. Init => MoveInv
  BY OrderAssumption DEF Init, MoveInv, SweepsAreCovered, RedemptionsAreMissing, SoleMoveMeetsTarget,
     Sweeps, Redemptions, Moved, Own
<1>2. IInv /\ MoveInv /\ [Next]_vars => MoveInv'
  BY QuietKeepsMoves, LandingKeepsMoves
<1>3. MoveInv => SoleMoveMeetsTarget
  BY DEF MoveInv
<1> QED BY <1>1, <1>2, <1>3, InvariantHolds, PTL DEF Spec

-----------------------------------------------------------------------------
(* Conservation.  A step changes one balance and what one request keeps     *)
(* outside, by the same amount, or moves nothing.                           *)

\* A request is burned once, when its transfer has passed the check.
BurnedOnce ==
  \A r \in burned :
    order[r].action = "gateway_transfer" /\ pc[r] \notin {"idle", "rejected", "execute", "burn"}

LEMMA BurnedStep == IInv /\ BurnedOnce /\ [Next]_vars => BurnedOnce'
<1> SUFFICES ASSUME IInv, BurnedOnce, [Next]_vars, NEW r \in burned'
             PROVE  (order[r].action = "gateway_transfer" /\ pc[r] \notin {"idle", "rejected", "execute", "burn"})'
  BY DEF BurnedOnce
<1> USE DEF BurnedOnce, IInv, TypeOK
<1>1. CASE AgrosReads \/ UNCHANGED vars \/ \E q \in Requests : TxLands(q) \/ TxFails(q)
  BY <1>1 DEF AgrosReads, vars, TxLands, TxFails
<1>2. CASE AgrosDecides \/ OperatorPosts
  BY <1>2 DEF AgrosDecides, OperatorPosts, Post
<1>3. ASSUME NEW q \in Requests, Handler(q), ~Burn(q)
      PROVE  (order[r].action = "gateway_transfer" /\ pc[r] \notin {"idle", "rejected", "execute", "burn"})'
  BY <1>3 DEF Handler, ExecuteNoop, Subscribe, Redeem, CheckDeposit, Mint, PollConfirmed,
              Record, Raises
<1>4. ASSUME NEW q \in Requests, Burn(q)
      PROVE  (order[r].action = "gateway_transfer" /\ pc[r] \notin {"idle", "rejected", "execute", "burn"})'
  BY <1>4 DEF Burn, TransferChecked
<1> QED BY <1>1, <1>2, <1>3, <1>4 DEF Next

LEMMA OutsideType ==
  ASSUME IInv, BurnedOnce
  PROVE  /\ \A r \in Requests : Outside[r] \in Int
         /\ SumFunctionOnSet(Outside, Requests) \in Int
         /\ SumFunctionOnSet(usdc, GatewayChains) \in Int
         /\ SumFunctionOnSet(deposited, GatewayChains) \in Int
<1>1. ASSUME NEW r \in Requests PROVE Outside[r] \in Int
  <2>1. Sent(r) \/ r \in burned => order[r].amount \in Nat
    BY OrderAmount DEF IInv, CallFits, Posted, BurnedOnce
  <2>2. order[r].amount \in Nat => AssetsFor(order[r].amount) \in Nat
    BY Conversions
  <2> QED BY <2>1, <2>2 DEF Outside, Moved, Sent
<1>2. SumFunctionOnSet(Outside, Requests) \in Int
  BY <1>1, FiniteAssumption, SumType
<1>3. \A c \in GatewayChains : usdc[c] \in Int /\ deposited[c] \in Int
  BY DEF IInv, TypeOK
<1>4. SumFunctionOnSet(usdc, GatewayChains) \in Int /\ SumFunctionOnSet(deposited, GatewayChains) \in Int
  BY <1>3, FiniteAssumption, SumType
<1> QED BY <1>1, <1>2, <1>4

Funds == OnChain + SumFunctionOnSet(Outside, Requests)

\* A move of n dollars from a wallet or a deposit to the outside, or back.
LEMMA WalletMoves ==
  ASSUME IInv, IInv', BurnedOnce, BurnedOnce', NEW r \in Requests, NEW c \in GatewayChains,
         NEW n \in Int,
         \A q \in Requests \ {r} : Outside[q]' = Outside[q], Outside[r]' = Outside[r] + n,
         \/ usdc' = [usdc EXCEPT ![c] = @ - n] /\ deposited' = deposited
         \/ deposited' = [deposited EXCEPT ![c] = @ - n] /\ usdc' = usdc
  PROVE  Funds' = Funds
<1>1. /\ SumFunctionOnSet(Outside, Requests) \in Int
      /\ SumFunctionOnSet(usdc, GatewayChains) \in Int
      /\ SumFunctionOnSet(deposited, GatewayChains) \in Int
      /\ \A q \in Requests : Outside[q] \in Int
  BY OutsideType
<1>2. \A q \in Requests : Outside[q]' \in Int
  <2>1. (\A q \in Requests : Outside[q] \in Int)'
    BY OutsideType
  <2> QED BY <2>1
<1>3. /\ Outside \in [Requests -> Int] /\ Outside' \in [Requests -> Int]
      /\ usdc \in [GatewayChains -> Int] /\ usdc' \in [GatewayChains -> Int]
      /\ deposited \in [GatewayChains -> Int] /\ deposited' \in [GatewayChains -> Int]
  BY <1>1, <1>2 DEF Outside, IInv, TypeOK
<1>4. SumFunctionOnSet(Outside', Requests) = SumFunctionOnSet(Outside, Requests) + n
  BY <1>3, FiniteAssumption, SumShifts
<1>5. CASE usdc' = [usdc EXCEPT ![c] = @ - n] /\ deposited' = deposited
  <2> DEFINE d == -n
  <2>1. \A x \in GatewayChains \ {c} : usdc'[x] = usdc[x]
    BY <1>5 DEF IInv, TypeOK
  <2>2. d \in Int /\ usdc'[c] = usdc[c] + d
    BY <1>5 DEF IInv, TypeOK
  <2> HIDE DEF d
  <2>3. SumFunctionOnSet(usdc', GatewayChains) = SumFunctionOnSet(usdc, GatewayChains) + d
    BY <1>3, <2>1, <2>2, FiniteAssumption, SumShifts
  <2>4. SumFunctionOnSet(usdc', GatewayChains) = SumFunctionOnSet(usdc, GatewayChains) - n
    BY <1>1, <2>3 DEF d
  <2> QED BY <1>1, <1>4, <1>5, <2>4 DEF Funds, OnChain
<1>6. CASE deposited' = [deposited EXCEPT ![c] = @ - n] /\ usdc' = usdc
  <2> DEFINE d == -n
  <2>1. \A x \in GatewayChains \ {c} : deposited'[x] = deposited[x]
    BY <1>6 DEF IInv, TypeOK
  <2>2. d \in Int /\ deposited'[c] = deposited[c] + d
    BY <1>6 DEF IInv, TypeOK
  <2> HIDE DEF d
  <2>3. SumFunctionOnSet(deposited', GatewayChains) = SumFunctionOnSet(deposited, GatewayChains) + d
    BY <1>3, <2>1, <2>2, FiniteAssumption, SumShifts
  <2>4. SumFunctionOnSet(deposited', GatewayChains) = SumFunctionOnSet(deposited, GatewayChains) - n
    BY <1>1, <2>3 DEF d
  <2> QED BY <1>1, <1>4, <1>6, <2>4 DEF Funds, OnChain
<1> QED BY <1>5, <1>6

LEMMA FundsStay ==
  ASSUME IInv, BurnedOnce, \A q \in Requests : Outside[q]' = Outside[q],
         usdc' = usdc, deposited' = deposited
  PROVE  Funds' = Funds
<1> DEFINE g == Outside
           h == Outside'
<1>1. \A q \in Requests : g[q] \in Int /\ h[q] = g[q]
  BY OutsideType
<1> HIDE DEF g, h
<1>2. SumFunctionOnSet(h, Requests) = SumFunctionOnSet(g, Requests)
  BY <1>1, FiniteAssumption, SumSame
<1> QED BY <1>2 DEF g, h, Funds, OnChain

LEMMA QuietFunds ==
  ASSUME IInv, BurnedOnce, [Next]_vars, ~\E r \in Requests : TxLands(r) \/ Burn(r)
  PROVE  Funds' = Funds
<1>1. burned' = burned /\ deposited' = deposited /\ usdc' = usdc
  <2>1. usdc' = usdc
    BY QuietSteps
  <2>2. burned' = burned /\ deposited' = deposited
    BY DEF Next, AgrosReads, AgrosDecides, OperatorPosts, vars, TxFails, Handler, ExecuteNoop,
           Subscribe, Redeem, CheckDeposit, Mint, PollConfirmed, Record, Raises
  <2> QED BY <2>1, <2>2
<1>2. ASSUME NEW q \in Requests PROVE Outside[q]' = Outside[q]
  <2>1. \A call \in Ends : Moved(q, call)' <=> Moved(q, call)
    BY QuietSteps
  <2>2. Sent(q) \/ q \in burned => order'[q] = order[q]
    <3>1. Sent(q) \/ q \in burned => pc[q] # "idle"
      BY DEF IInv, Posted, Sent, BurnedOnce
    <3> QED BY <3>1, QuietSteps
  <2>3. \A call \in Ends : Moved(q, call) => Sent(q)
    BY DEF Moved, Sent
  <2> QED BY <1>1, <2>1, <2>2, <2>3 DEF Outside, Ends, AssetsFor
<1> QED BY <1>1, <1>2, FundsStay

LEMMA BurnFunds ==
  ASSUME IInv, IInv', BurnedOnce, BurnedOnce', NEW r \in Requests, Burn(r)
  PROVE  Funds' = Funds
<1> DEFINE n == order[r].amount
           c == order[r].src
<1>1. /\ UNCHANGED <<order, tx, usdc>> /\ burned' = burned \cup {r}
      /\ deposited' = [deposited EXCEPT ![c] = @ - n]
      /\ pc[r] = "burn" /\ tx[r] = NoTx /\ r \notin burned
  BY DEF Burn, IInv, Posted, BurnedOnce, funds
<1>2. c \in GatewayChains /\ n \in Int
  BY <1>1, OrderAmount DEF IInv, TransferChecked, Posted
<1>3. \A q \in Requests \ {r} : Outside[q]' = Outside[q]
  BY <1>1 DEF Outside, Moved, AssetsFor
<1>4. Outside[r]' = n /\ Outside[r] = 0
  BY <1>1 DEF Outside, Moved
<1>5. Outside[r]' = Outside[r] + n
  BY <1>2, <1>4
<1> HIDE DEF n, c
<1> QED BY <1>1, <1>2, <1>3, <1>5, WalletMoves

LEMMA LandingFunds ==
  ASSUME IInv, IInv', BurnedOnce, BurnedOnce', NEW r \in Requests, TxLands(r)
  PROVE  Funds' = Funds
<1> DEFINE a == order[r].amount
<1>1. /\ UNCHANGED <<order, deposited, burned>> /\ order[r] \in Order /\ a \in Nat
      /\ AssetsFor(a) \in Nat /\ usdc \in [GatewayChains -> Nat]
      /\ \A call \in Ends : ~Moved(r, call) /\ (Moved(r, call)' <=> tx[r].call = call)
      /\ Sent(r)
  BY LandingSteps, Conversions DEF IInv, TypeOK, TxLands, Sent
<1>2. ASSUME NEW q \in Requests \ {r} PROVE Outside[q]' = Outside[q]
  <2>1. \A call \in Ends : Moved(q, call)' <=> Moved(q, call)
    BY LandingSteps
  <2> QED BY <1>1, <2>1 DEF Outside, Ends, AssetsFor
<1>3. CASE tx[r].call = "approve" /\ Approve(r)
  <2>1. Outside[r]' = Outside[r] /\ usdc' = usdc
    BY <1>1, <1>3 DEF Outside, Ends, Approve
  <2> QED BY <1>1, <1>2, <2>1, FundsStay
<1>4. CASE tx[r].call = "deposit" /\ Deposit(r)
  <2>1. r \notin burned
    BY <1>1, <1>4 DEF IInv, CallFits, BurnedOnce
  <2>2. Outside[r] = 0 /\ Outside[r]' = a
    BY <1>1, <1>4, <2>1 DEF Outside, Ends
  <2>3. usdc' = [usdc EXCEPT !["arc"] = @ - a] /\ Outside[r]' = Outside[r] + a /\ a \in Int
    BY <1>1, <1>4, <2>2 DEF Deposit
  <2> HIDE DEF a
  <2> QED BY <1>1, <1>2, <2>3, ChainAssumption, WalletMoves
<1>5. CASE tx[r].call = "redeem" /\ RedeemShares(r)
  <2> DEFINE n == -AssetsFor(a)
  <2>1. r \notin burned
    BY <1>1, <1>5 DEF IInv, CallFits, BurnedOnce
  <2>2. Outside[r] = 0 /\ Outside[r]' = n /\ n \in Int
    BY <1>1, <1>5, <2>1 DEF Outside, Ends, AssetsFor
  <2>3. usdc' = [usdc EXCEPT !["arc"] = @ - n]
    <3>1. usdc["arc"] - n = usdc["arc"] + AssetsFor(a)
      BY <1>1, ChainAssumption
    <3> QED BY <1>5, <3>1 DEF RedeemShares
  <2> HIDE DEF n
  <2>4. Outside[r]' = Outside[r] + n
    BY <2>2
  <2> QED BY <1>1, <1>2, <2>2, <2>3, <2>4, ChainAssumption, WalletMoves
<1>6. CASE tx[r].call = "mint" /\ MintUsdc(r)
  <2> DEFINE n == -a
             c == order[r].dst
  <2>1. r \in burned /\ c \in GatewayChains
    BY <1>1, <1>6 DEF IInv, CallFits, TransferChecked
  <2>2. Outside[r] = a /\ Outside[r]' = 0 /\ n \in Int
    BY <1>1, <1>6, <2>1 DEF Outside, Ends
  <2>3. usdc' = [usdc EXCEPT ![c] = @ - n]
    <3>1. usdc[c] - n = usdc[c] + a
      BY <1>1, <2>1
    <3> QED BY <1>6, <3>1 DEF MintUsdc
  <2>4. Outside[r]' = Outside[r] + n
    BY <1>1, <2>2
  <2> HIDE DEF n, c, a
  <2> QED BY <1>1, <1>2, <2>1, <2>2, <2>3, <2>4, WalletMoves
<1> QED BY <1>3, <1>4, <1>5, <1>6 DEF TxLands

LEMMA InitialFunds == Init => FundsAreConserved
<1> SUFFICES ASSUME Init PROVE FundsAreConserved
  OBVIOUS
<1> DEFINE d == [c \in GatewayChains |-> InitialDeposit]
           e == [c \in GatewayChains |-> 0]
<1>1. PICK u \in InitialUsdc : usdc = [c \in GatewayChains |-> IF c = "arc" THEN u ELSE 0]
  BY DEF Init
<1>2. u \in Nat /\ deposited = d
  BY AmountsAssumption DEF Init
<1>3. ASSUME NEW S, IsFiniteSet(S), NEW g, \A x \in S : g[x] = 0
      PROVE  SumFunctionOnSet(g, S) = 0
  <2>1. {} \in SUBSET S /\ {} \cap S = {} /\ {} \ S = {} /\ S \ {} = S /\ S \in SUBSET S
    OBVIOUS
  <2>2. /\ SumFunctionOnSet(g, {}) <= SumFunctionOnSet(g, S)
        /\ SumFunctionOnSet(g, S) <= SumFunctionOnSet(g, {})
    BY <1>3, <2>1, SumCompares
  <2>3. SumFunctionOnSet(g, {}) = 0
    BY FS_EmptySet, SumUnfolds
  <2>4. SumFunctionOnSet(g, S) \in Int
    BY <1>3, SumType
  <2> QED BY <2>2, <2>3, <2>4
<1>4. SumFunctionOnSet(Outside, Requests) = 0
  <2>1. \A r \in Requests : Outside[r] = 0
    BY DEF Init, Outside, Moved
  <2> QED BY <1>3, <2>1, FiniteAssumption
<1>5. SumFunctionOnSet(usdc, GatewayChains) = u
  <2>1. SumFunctionOnSet(e, GatewayChains) = 0
    BY <1>3, FiniteAssumption
  <2>2. /\ \A c \in GatewayChains : e[c] = 0 /\ usdc[c] \in Int
        /\ \A c \in GatewayChains \ {"arc"} : usdc[c] = e[c]
        /\ usdc["arc"] = u
    BY <1>1, <1>2, ChainAssumption
  <2> HIDE DEF e
  <2>3. SumFunctionOnSet(usdc, GatewayChains) = SumFunctionOnSet(e, GatewayChains) - e["arc"] + u
    BY <2>2, FiniteAssumption, ChainAssumption, SumChanges
  <2>4. e["arc"] = 0
    BY <2>2, ChainAssumption
  <2> QED BY <1>2, <2>1, <2>3, <2>4
<1>6. SumFunctionOnSet(d, GatewayChains) \in Int
  <2>1. \A c \in GatewayChains : d[c] \in Int
    BY AmountsAssumption
  <2> QED BY <2>1, FiniteAssumption, SumType
<1>7. OnChain + SumFunctionOnSet(Outside, Requests) = u + SumFunctionOnSet(d, GatewayChains)
  BY <1>2, <1>4, <1>5, <1>6 DEF OnChain
<1> QED BY <1>7 DEF FundsAreConserved

\* What the treasury holds, what the Teller holds of it and what is burned and
\* not minted add up to what it started with, whatever overlaps or fails.
THEOREM NoDollarIsLost == Spec => []FundsAreConserved
<1>1. Init => BurnedOnce /\ FundsAreConserved
  BY InitialFunds DEF Init, BurnedOnce
<1>2. IInv /\ IInv' /\ BurnedOnce /\ FundsAreConserved /\ [Next]_vars
        => BurnedOnce' /\ FundsAreConserved'
  <2> SUFFICES ASSUME IInv, IInv', BurnedOnce, FundsAreConserved, [Next]_vars
               PROVE  BurnedOnce' /\ FundsAreConserved'
    OBVIOUS
  <2>1. BurnedOnce'
    BY BurnedStep
  <2>2. Funds' = Funds
    BY <2>1, QuietFunds, BurnFunds, LandingFunds
  <2> QED BY <2>1, <2>2 DEF FundsAreConserved, Funds
<1> QED BY <1>1, <1>2, InvariantHolds, PTL DEF Spec
=============================================================================
