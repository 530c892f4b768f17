------------------------------ MODULE RiskGate ------------------------------
(***************************************************************************)
(* The checks RiskAgent.evaluate runs on NOMOS' quotes and SPATHA's hedges *)
(* (orchestrator/app/risk_agent.py); those on treasury decisions are       *)
(* GateApproves of module Treasury.  Prices are whole multiples of half a  *)
(* basis point, 1/20000: NOMOS halves spreads counted in basis points.     *)
(***************************************************************************)
EXTENDS Integers

Dollar == 20000

MAX_QUOTE_SIZE_USDC == 1000
MAX_BID_ASK_SPREAD == Dollar \div 5
MIN_BID_ASK_SPREAD == Dollar \div 200
MAX_HEDGE_LEVERAGE == 5
MAX_HEDGE_NOTIONAL_USDC == 5000
MIN_TIMESTAMP_FRESHNESS_MS == 60000

(* The age of a decision as the orchestrator's clock sees it; an agent's   *)
(* clock may be ahead.                                                     *)
Fresh(age) == 0 - MIN_TIMESTAMP_FRESHNESS_MS < age /\ age < MIN_TIMESTAMP_FRESHNESS_MS

(* ask - bid is a difference of two floats: at either limit its last bit   *)
(* decides.  The result is the set of verdicts the check may give.         *)
SpreadVerdicts(bid, ask) ==
    IF ask - bid \in {MIN_BID_ASK_SPREAD, MAX_BID_ASK_SPREAD} THEN BOOLEAN
    ELSE {MIN_BID_ASK_SPREAD <= ask - bid /\ ask - bid <= MAX_BID_ASK_SPREAD}

PricingVerdicts(bid, ask, size, age) ==
    {v /\ Fresh(age)
       /\ 0 < size /\ size <= MAX_QUOTE_SIZE_USDC
       /\ bid < ask
       /\ 0 < bid /\ bid < Dollar /\ 0 < ask /\ ask < Dollar :
           v \in SpreadVerdicts(bid, ask)}

(* A hedge of size thousandths of a contract against margin halves of a    *)
(* USDC.  The notional is size * margin_amount * leverage, as in the code. *)
HedgePasses(size, margin, leverage, age) ==
    /\ Fresh(age)
    /\ 1 <= leverage /\ leverage <= MAX_HEDGE_LEVERAGE
    /\ size * margin * leverage <= 2000 * MAX_HEDGE_NOTIONAL_USDC
    /\ margin > 0
=============================================================================
