# AKRITA in TLA+

AKRITA is a multi-agent keeper for prediction markets: three agents decide
(NOMOS quotes, SPATHA hedges, AGROS moves treasury funds) and one orchestrator
carries every decision through a nonce check, a risk gate, a trace commit on
chain, the execution at a venue and the tables a dashboard reads.  This
directory models the parts of it whose correctness depends on the order in
which concurrent, failing steps happen, checks them with TLC and proves most of
the safety results with TLAPS.  `PROJECT.json` is the machine-readable index:
components, runs, mutants, the source lines of every definition, findings,
hazards and theorems.

## 1. Inventory

| Component (source) | State | Operations | Talks to |
|---|---|---|---|
| TraceRegistry (`contracts/src/TraceRegistry.sol`) | `commits`, `byAgentDecision`, `totalCommits`, `authorizedKeepers` | `setKeeper`, `commitTrace`, `verifyTrace`, `getCommit` | called by the trace keeper's Circle wallet |
| BuilderRegistry (`contracts/src/BuilderRegistry.sol`) | `agents`, `byBuilderCode`, `reputationOracle` | register, update reputation, deactivate, change oracle | called by `Deploy.s.sol` |
| Bootstrap and deployment (`scripts/bootstrap/create_circle_wallets.py`, `contracts/script/Deploy.s.sol`) | secret and recovery files, `.env`; secret, sets and wallets at Circle | `main`, step by step; 6 transactions | Circle, Arc |
| Request handler (`routers/decisions.py` `_process`, `trace_pipeline.py`) | the coroutine of each HTTP request | claim nonce, gate, build and pin the trace, commit it, store the trace row, execute, store the decision, broadcast | Redis, Postgres, Pinata, Circle, venues, WebSockets |
| Agents (`agents/{nomos,spatha,agros}/main.py`) | `_decision_counter`, in memory | tick: read, decide, number, POST, wait 10–15 s | orchestrator (HTTP) |
| Circle wallets (`adapters/real/circle_wallets.py`, `arc.py`) | transaction states at Circle | `execute_contract`, `wait_for_tx` (poll 3 s, give up at 180 s) | Arc |
| Redis (`redis_client.py`) | nonce set per role | `claim_nonce` (SADD); unused counters | handler |
| Postgres (`repositories/sqlalchemy.py`, `db/models.py`) | decisions, traces, hedge positions, treasury actions, fills, snapshots | insert, upsert, queries | handler, REST |
| Risk gate (`risk_agent.py`) | none (pure) | 4 universal checks and 5 per decision type | handler |
| NOMOS and Polymarket (`agents/nomos/main.py`, `adapters/real/polymarket.py`) | the order book, NOMOS' orders | read the book, `compute_quote`, `submit_quote` (bid, then ask) | venue, handler |
| Fill ledger (`state.py` `record_fill`, `/state/inventory`) | fills, inventory snapshots | insert or skip, read latest, append | Postgres; read by SPATHA |
| Hedge book (`hyperliquid.py`, `_execute_hedge`) | venue positions and stops; `hedge_positions` | `open_position`, `close_position`, `record_hedge` | Hyperliquid, Postgres |
| Treasury (`agros/main.py`, `usyc.py`, `gateway.py`, `_execute_treasury`) | USDC per chain, USYC shares, the Teller's allowance, Gateway deposits; `treasury_actions` | read balances and decide; `subscribe` (approve, deposit), `redeem`, `transfer` (burn, mint) | Circle, Teller, Gateway, Postgres |
| Trace audit (`routers/traces.py`, `scripts/live/verify_trace.py`) | none | fetch a trace, compare with IPFS and chain | Postgres, IPFS, Arc |
| Live fan-out (`state.py`, `routers/live.py`, `frontend/static/app.js`) | subscriber queues, sockets, the feed shown | subscribe, broadcast, send, reconnect, hydrate | handler, browsers |

`orchestrator/app/main.py` imports routers `users`, `builder` and
`leaderboard` that are not in the repository; they are not modelled.

**What is hard.** All requests run in one event loop and interleave at every
`await`.  An agent's HTTP client gives up long before a handler that waits for
the chain (10–15 s against 180 s), so handlers of one agent overlap.  A
transaction, an order or a stop may succeed after whoever asked for it has
given up.  Agents number decisions in memory and start again at 1.  Redis is
restored from periodic snapshots.  Tables are written after the outside world
was changed and in separate transactions.  A quote is computed on a book that
has moved when its orders arrive, in floats that are clamped twice and rounded.
Calls of `record_fill` read, add and write back what another call may have
changed.  Queues and sockets of dashboards are bounded and break.  The
bootstrap script is run again after answers of Circle are lost.

**What makes each part correct.** Registry: an append-only log with a
consistent index, also once it is deployed by the scripts.  Lifecycle: anchored
before executed, executed once per decision id, tables that agree with the
chain, every request answered, every commit fit for the audit.  Quotes: orders
within the policy that make a market and take none.  Ledger: no fill counted
twice, none lost but by a race.  Hedge book: rows that stand for positions and
positions that have rows.  Treasury: a move reported as done is complete, no
approval is left over, a sweep leaves what operations need, no dollar is lost.
Fan-out: no stored decision stays hidden, no queue grows without bound.  Setup:
one secret, a trace keeper that is kept while Circle's lists show it, codes
that name their agents.  Each property answers a hazard in `PROJECT.json`; a
hazard no property covers has a note that says why.

## 2. Modules

| Module | What it is |
|---|---|
| `TraceRegistry`, `BuilderRegistry` | the contracts; a transaction is one step, a revert no step |
| `Bootstrap` | runs of `create_circle_wallets.py` against an account others use too |
| `Deployment` | composes the three above: bootstrap, `Deploy.s.sol` transaction by transaction, then anybody's calls |
| `AnchoredExecution` | abstract: a decision is anchored to one body, for good, before it is acted upon, once |
| `DecisionLifecycle` | agents, request handlers, Circle, venues, tables; instantiates `TraceRegistry` for the chain and refines `AnchoredExecution` |
| `TraceAudit` | what endpoints and audit script may answer in a state of the lifecycle |
| `RiskGate` | the gate's checks on quotes and hedges, as operators |
| `Quotes` | NOMOS' quotes from the book to the two orders at Polymarket, over `RiskGate` |
| `Exposure` | `record_fill` and the hedges SPATHA derives from its snapshots, over `RiskGate` |
| `HedgeBook` | Hyperliquid's netted positions and the rows kept of them |
| `Treasury` | AGROS' sweeps, USYC subscriptions and redemptions, Gateway transfers |
| `LiveFanout` | WebSocket queues, sockets and the dashboard's fetches |
| `*_proofs` | theorems, one module per component; the registry's are in `Deployment_proofs` |
| `SumTheorems` | lemmas about sums over finite sets |
| `MC*` | instances for TLC |

### From code to model

*DecisionLifecycle.*  `pc[r]` says at which `await` of `_process` the handler
of request `r` stands; an action is the code from one await to the next.

| Code | Action |
|---|---|
| agent's `_next_id`, `submit` | `AgentSubmit`; `AgentDropsId` when nothing is sent; `AgentRestart` |
| `state.claim_nonce`, 409 | `RefuseReplay`, `ClaimNonce` |
| `risk_agent.evaluate` | the free choice `approved` of `ClaimNonce` (it does not await) |
| store of a rejected decision | `StoreRejected`, with the unique constraints as `RowConflict` |
| `trace_builder`, assemble, hash, pin | `PinTrace` |
| `execute_contract` | `SubmitCommit` |
| `wait_for_tx` | `PollConfirmed`, `PollGivesUp` (failure or timeout) |
| `state.store_trace` | `StoreTrace` |
| `executor(decision)` | `SendAction`, `SkipNoop`, then `RecordAction` or `ExecutionFails` |
| `state.store_decision`, response | `StoreDecision` |
| an exception at any await | `HandlerRaises` |
| Circle, Arc, venues | `TxLands` (which is `TraceRegistry`'s `CommitTrace`), `TxFails`, `VenueAnswers` |
| process and Redis failures | `OrchestratorCrash`, `RedisLosesNonces` |

A request stands for its trace body, the body's hash and its content id: a body
contains the time and the adapters' readings, so bodies of different requests
differ.  An executor is one order and its answer; orders of several steps are
the business of the venues' own modules (`Quotes`, `HedgeBook`, `Treasury`).
`venue[r]` is the venue's knowledge, not the handler's: an answer may come
after the handler has given up.  The nonce is free because the agents derive it
from the clock modulo 2^31 microseconds.  There is no clock: a timeout is always
possible (`PollGivesUp`), which covers every real timing.

*TraceAudit.*  `GET /traces/...` and `verify_trace.py` change nothing, and what
they read in several calls is never changed once it is there, so each is the
set of answers it may give in a state.  A row's keys are the names of its
columns (`TraceColumns`).

*Quotes.*  Prices count half basis points, because NOMOS halves a spread that
is counted in basis points.

| Code | Action or operator |
|---|---|
| `get_orderbook`, `microprice`, `spread_bps` | `BestBid`, `BestAsk`; `mid` and `bps` of `ComputeQuote`, with `SpreadBps` |
| `compute_quote`: half spread, clamps, minimum spread, rounding | `HalfSpread`, `Targets`, `Rounded` |
| `risk_agent.evaluate` | `Gate` with `PricingVerdicts` |
| trace sections, pin, commit | `CommitQuote` |
| `_get_client`, `_yes_token_id` | `ClientFails` |
| `_place` of the bid, of the ask, the response | `PlaceBid`, `PlaceAsk` |
| Polymarket and the other traders | `Accept`, `MarketMoves` |

A float that lies on the edge of a comparison or of a rounding falls on either
side: `int((ask - bid) * 10000)` may be one less than the exact product, a
target of an odd number of half points rounds either way, and a spread of
exactly the minimum or the maximum may pass or fail the gate.  The microprice is
any value of `Mid` between best bid and best ask, since the sizes at the top of
the book weigh it.  The adapter reads the market's `tick_size` and uses it
nowhere; `PlaceBid` and `PlaceAsk` may be refused for any reason, a price off
the grid among them.

*Exposure.*  A call of `record_fill` is one transaction: `InsertFill` (`ON
CONFLICT DO NOTHING`, waiting for an open transaction with the same key),
`ReadLatest`, `AppendSnapshot` (the clock is read here), `CommitFill`;
`RollBack` at any point.  A snapshot is modelled by how often each fill was
added, and its sums are taken where they matter (`NetExposure`).  SPATHA is
`FetchInventory` (one query), then one `HedgeMarket` per market with
`BuildHedge` and the gate's `HedgePasses`; `IterationFails` is an exception in
between.

*HedgeBook.*  A handler past the gate and the commit, call by call:
`RequireFunded`, `SetLeverage`, `MarketOpen` (fills in part, in full, or not at
all without an error, and the code then goes on with the size that was ordered:
`FilledOrAsked`), `PlaceStop` (whose result the code ignores), `Reread`,
`RecordOpen`; for a close `ReadBefore`, `MarketClose` (which may leave all of
the position), `RecordClose`.  `Upsert` is the SQL upsert with the columns it
updates.  `StopFires` is the venue's own.

*Treasury.*  `seen` is what AGROS read in the current tick, `order[r]`, `pc[r]`
and `tx[r]` the decision of a request, its handler's place and its latest call
at Circle.

| Code | Action |
|---|---|
| `get_balances`, `fetch_balances` | `AgrosReads` with `GetBalances`: each token that is missing or does not parse counts as 0, beside the other or not, and a wallet that cannot be read as empty |
| `build_decision`, `submit` | `AgrosDecides` with `BuildDecision`, `RedeemAmount`; a tick may come at any time, since the client gives up after 15 s |
| a decision posted by someone else | `OperatorPosts` (transfers, noop) |
| the gate's treasury checks | `GateApproves`, in `Post` |
| `subscribe` | `Subscribe` (approve), `PollConfirmed` (deposit, then done) |
| `redeem` | `Redeem`, `PollConfirmed` |
| `transfer` | `CheckDeposit`, `Burn`, `Mint`, `PollConfirmed` |
| `record_treasury`, response | `Record`, `ExecuteNoop` |
| an exception at any await, polling timeout | `Raises` |
| Circle, Teller, Gateway Minter | `TxLands`, `TxFails` |

The trace commit between gate and executor is the lifecycle's and changes
nothing here; that it may fail is covered by `Raises`.  Amounts are whole
dollars and shares; the Teller rounds down.  AGROS' cents and Gateway's fee,
gas and the growth of the share price are left out.  `_execute_treasury` passes
the name "agros-keeper" where the Circle client expects a wallet id; the model
takes it to reach the treasury's wallet, as `_holder_address` does for the
address.  A row of `treasury_actions` keeps the status "pending" for good, as
`mark_settled` has no caller, so a row is only there or not.

*LiveFanout.*  `Put` is `broadcast`, atomic because `Queue.put` on a queue with
room does not yield.  A socket that is closed stays subscribed until `live_ws`
fails to send.  A fetch is the set of decisions the server read for it, under
way to the browser; responses are rendered in any order.  A failure of any of
the four requests of a hydrate drops the whole hydrate.

*Bootstrap and Deployment.*  Each call of Circle is an action, between which
others use the account:

| Code | Action |
|---|---|
| `load_or_create_entity_secret`, `register_entity_secret` | `LoadOrCreateSecret`, `SkipRegistration`, `RegisterSecret` |
| `get_or_create_wallet_set`: `get_wallet_sets`, then `create_wallet_set` | `ListWalletSets`, `CreateWalletSet` |
| `get_or_create_wallets`: `list_wallets`, then `create_wallet` | `ListWallets`, `CreateWallets` |
| `by_name_chain`, `by_name_addr`, `update_env` | `WriteEnv` |
| an exception, an interrupt, a refusal by Circle | `Stop` |
| other users of the account | `OtherSet`, `OtherWallets` |

A call that creates something may have done so when its answer is lost.  A list
is one page (`SetPage`, Circle's default; `WalletPage`, 50) in an order Circle
does not specify, so that the oldest set or the keepers' wallets may be missing
from it.  The account is taken to hold no sets in the custody of end users, which
the script drops from the page, and nobody deletes a set.  A batch is one call's wallets, and one address
per keeper.  `update_env` and the secret file are each written in one step.

`Deploy.s.sol` reads the environment before it broadcasts, so `deployKeeper` is
fixed with the first transaction; it may stop after any of the six.  An account
is a number: 0 deploys, and `b` is the trace keeper's address of batch `b`.  In
`BuilderRegistry` the number of a registration stands for its block's time, of
which the order alone is told apart, and agent ids include 0.

## 3. Runs

| Run | Instance | Shows |
|---|---|---|
| `deployment` | 3 runs of the script, 2 keepers, 2 chains, 2 sets, 2 or 4 foreign wallets in each, pages of 2 sets and 6 wallets; 2 agents with 1 decision each and 2 bodies; builders 0 to 3, 2 codes | `IndexIsInverse`, `VerifiedForever`, `CodesNameTheirAgent`, `RegisteredSecretIsOnFile`, `TraceKeeperIsKept` |
| `lifecycle_safety` | 3 requests, 1 agent, 2 ids, 2 nonces, exceptions everywhere, 1 agent restart, 1 Redis loss | `AnchorBeforeExecution`, `ExecutedOncePerDecision`, `RefusedLeavesNothing`, `TraceRowsMatchChain`, `NonceAdmitsOnce`, `ApprovedRowIsEvidence` |
| `lifecycle_refinement` | 2 requests, 2 agents, 1 id each, exceptions everywhere, 1 crash, 1 agent restart | `AnchoringSpec` (refinement), `TraceRowsWriteOnce`, `EveryRequestEnds`, `CommitsPassTheAudit` |
| `quotes` | 2 quotes, 7 books, 1 move, ages below and at the limit | `PlacedQuotesHoldTheirSpread`, `RejectedQuotesAreExtreme`, `OneSidedQuotesShow`, `QuotesTakeNothing` |
| `exposure` | 4 fills in 2 markets, 3 calls, 3 milliseconds | `FillAndSnapshotTogether`, `NeverOvercounted`, `ExactUnlessRaced`, `HedgesWereFilled` |
| `hedge_safety` | 3 decisions, 1 coin, sizes 1–2 | `ListedPositionsWereFilled`, `OpenPositionsAreListed` |
| `treasury_safety` | 3 requests, AGROS and 5 posted orders, USDC 0, 200 or 550, the code's thresholds | `ReportedMovesAreComplete`, `SuccessfulSweepsLeaveNoAllowance`, `SoleMoveMeetsTarget`, `FundsAreConserved` |
| `fanout` | 1 dashboard, 2 sockets, 2 decisions, queue of 1, 1 restart | `EventsFindTheirRow`, `ListenersAreSubscribed`, `StoredIsShown`, `DeadSocketsAreReaped` |
| `lifecycle_stored`, `trace_verify`, `hedge_closed`, `treasury_buffer` | 2 requests each | violated statements, see Findings |

Each passing run but `lifecycle_refinement` also checks the `TypeOK` of its
specification.

*Bounds.*  Three requests are one more than any conflict of the lifecycle
needs: every constraint (nonce, decision id, trace key, order) relates two of
them, and the third may land, fail or reuse the id in between.  Two ids and one
restart make reuse happen; two nonces make both a replay and a fresh request
with the same id happen.  The bounds `MaxDecisionId`, `MaxRestarts`,
`MaxCrashes`, `MaxFlushes` (lifecycle), `MaxSize` (hedges), `MaxMoves`
(quotes), `MaxTime` (ledger), `MaxConnects` and `MaxRestarts` (fan-out),
`MaxRuns`, `MaxSets`, `OtherSizes`, `SetPage`, `WalletPage` and
`MaxAdministration` (deployment) are named in the modules; `QueueMax` is 200 in
the code and 1 in the run, so that two decisions overflow it.  Three runs of
the bootstrap script allow a lost answer in each of two calls and one run that
succeeds, or one that succeeds twice; two sets are a set of the script's and
one that others created before it or between its calls. Two foreign wallets
fill a page of six beside a batch of four; four are as many as the script
needs, the number at which it takes a set for complete, and overflow the page
beside a batch.  That the sets overflow their page no run reaches: the theorem
covers it, as `KeeperIsListed` is about any page. The seven books are one
without a bid, one tighter than the minimum spread, one near it, one at the
maximum spread, and three across and beyond the bounds 0.02 and 0.98; two
quotes are the fewest that overlap, and one move makes the first of them
stale.  Two calls make a race of `record_fill` and the third a redelivery;
three milliseconds let timestamps agree, and differ in either order. The
purchase of 2500 shares is one the gate does not let SPATHA hedge.

The treasury runs with the code's own amounts (target 300, AGROS' minimum 50,
the gate's 10 and 10 000, buffer 100) and a share price of 1.10.  The price
matters: AGROS takes a deficit in dollars for a number of shares, and
`SoleMoveMeetsTarget` bounds what a redemption returns in excess by the premium
of its shares.  Whether AGROS sweeps the excess back at its next tick depends
on the amounts; with a deficit of 300 and a minimum of 50 it does from a price
of 7/6 on.  Without USDC, or with 200 dollars, a redemption is due, of all that
is missing or of a part; with 550 a sweep is, or a redemption of the whole
target if the USDC is not read.  Three requests are two moves of AGROS' that
overlap and a third on what they left; Polygon has no Circle wallet, so a
transfer there raises after its burn; `FundsAreConserved` says that the dollars
it burned are still counted as owed, and that none is minted without a burn; it
does not say that they return, and no step of the code makes them.

Most safety results do not depend on the bounds: they are proved (section 5).

*Deadlock* is checked for the fan-out.  In the others requests, calls or runs
are finitely many, and when all have ended nothing is left to do.

*Symmetry* is used in safety runs only, over requests, quotes, calls or trace
bodies; no action and no property tells them apart.

*Fairness.*  `DecisionLifecycle`: weak fairness of each handler (the event loop
resumes a coroutine whose await is over; `wait_for_tx` has a timeout, so its
await always ends) and of each venue's answer (the SDKs answer or fail).
Nothing is assumed of Circle or the chain.  `LiveFanout`: weak fairness of each
subscriber's loop and of the browser's timer; strong fairness of rendering a
response, that is, the services behind a hydrate do not fail every time.  No
other module states fairness: what they promise is safety, and neither the
agents' retries nor the operator's runs are bound to succeed.

## 4. Findings

Statements of the repository that the code does not keep, each a run that TLC
ends with a counterexample:

1. `lifecycle_stored` — `db/models.py:33` "Every approved or rejected decision
   an agent submits": after an agent restart a reused id, whose first use was
   rejected, is committed, executed and recorded at the venue's table, and then
   the insert into `decisions` fails.
2. `trace_verify` — `routers/traces.py:38` "Fetch the IPFS body, recompute
   sha256, confirm it matches the on-chain hash": the endpoint reads the key
   `ipfs_cid` of a row whose column is `cid`, and answers 500 for every stored
   trace; the `/body` endpoint does too.
3. `hedge_closed` — `db/models.py:132` "Open / closed hedge positions,
   identified by their venue-native id": a close is recorded under an empty
   venue, and the position's row stays open.
4. `treasury_buffer` — `risk_agent.py:44` "never sweep below this": no check
   reads the constant, and two sweeps decided on the same balances leave 50 of
   550 dollars where the buffer is 100.  A sweep on its own keeps AGROS' target
   (`SoleMoveMeetsTarget`).

Facts of the code the models contain, where a comment suggests otherwise or
which a reader should know:

- A commit that lands after polling timed out has no row in `traces`, although
  `db/models.py:58` says "One row per approved decision"; the audit script still
  verifies it (`CommitsPassTheAudit`), because it reads the chain.
- Two requests in flight are committed in either order, so decision ids are not
  "monotonic per agent" (`TraceRegistry.sol:13`) in the log; nothing asks for it.
- The upsert of a hedge row updates status, profit and size only: a position
  that turned from long to short keeps its old side and margin.
- A trace is looked up by decision id alone, which every agent counts from 1:
  `GetTrace` may return another agent's.
- The bootstrap script's docstring says that it "skips the whole flow if all
  four wallet IDs already exist"; no such test is in `main`.  What keeps the ids
  stable is that the oldest set and its wallets are taken again, as far as the
  lists show them (`TraceKeeperIsKept` under `KeeperIsListed`).  A set that others
  create between the script's list and its own creation is older than the
  script's, and full pages hide the oldest set or the keeper's wallets: the
  next run then replaces the keeper that a deployment
  has authorised.
- SPATHA and AGROS are registered with the same builder code, `bytes32(0)`: it
  names AGROS, the last of the two.  Any agent is hidden behind a later
  registration of its code (`CodesNameTheirAgent`).
- `registerAgent` takes agent 0 like any other, and `byBuilderCode` then answers
  0, which also means that no agent has the code.
- An order the venue answers "ok" without a fill is no error to `_check_filled`:
  the stop is placed for the size that was ordered, and if there is no position
  to read, a row of that size is recorded (the exception in `Backed`).  A close
  that filled nothing is reported as closed, and an open that raises after its
  fill leaves no row.
- A USDC balance that was not read, beside shares that were, makes AGROS redeem
  the whole target: 550 dollars and 300 redeemed shares make 880 (the exception
  `UsdcUnread` in `SoleMoveMeetsTarget`).
- Near the bounds and on books of at most 52 basis points NOMOS computes quotes
  that the gate refuses, some of them by the last bit of a float
  (`RejectedQuotesAreExtreme` says where).  Above 2236 shares SPATHA's hedge is
  refused at every tick, and below it the whole exposure is hedged again at
  every tick.

## 5. Proofs

Assumptions are named `ASSUME`s on the constants: bounds and amounts are
naturals, "nothing yet" values are no requests, orders or rows, books have their
bid below their ask and prices on whole basis points; where sums are taken, fills,
requests and chains are finitely many.  No theorem assumes anything of the
bounds' values, of amounts and prices, or of how many requests, agents, fills,
books or dashboards there are.

| Module | Proved as invariants or action properties of the specification |
|---|---|
| `Deployment_proofs` | of the registry on its own, `TypeOK`, `IndexIsInverse`, `AppendOnly`, `VerifiedForever`; that the whole deployment uses the registry as `TraceRegistry!Spec` says (`SystemImplementsRegistry`), hence `TypeOK`, `IndexIsInverse` and `VerifiedForever` in the composed system; `CodesNameTheirAgent`, `RegisteredSecretIsOnFile`, `TraceKeeperIsKept` |
| `DecisionLifecycle_proofs` | all safety properties of the lifecycle runs, `CommitsPassTheAudit` of `TraceAudit` among them, the refinement of `AnchoredExecution`, and that it alone gives `ExecutedOncePerDecision` |
| `Quotes_proofs` | all five properties of its run |
| `SumTheorems` | no component: what sums over finite sets do when a term or the set changes |
| `Exposure_proofs` | all five properties of its run |
| `HedgeBook_proofs` | all three properties of its run |
| `LiveFanout_proofs` | `TypeOK`, `EventsFindTheirRow`, `ListenersAreSubscribed` |
| `Treasury_proofs` | all five properties of its run; by `TypeOK` no balance, deposit or allowance is ever negative |

*Lifecycle.*  None of the properties is inductive.  That two executed requests
with one id are the same request, for example, depends on each of them having
its own transaction landed, on a landed transaction having put its own body
into the log, and on the log holding one body per decision.  The invariant
`IInv` says so: `ControlInv` ties a handler's place to its transaction, its
order and its rows; `LandedIsAnchored` ties a landed transaction to the log;
`RowsAreLanded` and `RowIsWritten` tie trace rows to transactions and handlers;
`NoncesHeld` says that a request past the nonce check holds its nonce alone.
`Landing` is the only lemma about the contract; every other step leaves the
chain as it is (`ChainFrame`).  The refinement maps a landing transaction to
`Anchor`, a fill to `Act`, everything else to a stutter; and that abstract
specification is enough by itself for at-most-once execution
(`AnchoringSuffices`): any other implementation with these anchors and fills
executes no decision id of an agent twice, either.  For the audit,
`LogIsPinned` says that every commit is indexed under its own key and names the
body it hashes, which is pinned.

*Deployment.*  The keeper is kept, while the lists show it, because the oldest
set then holds the wallets of one batch for good: `WalletsInv` says that its
keepers' wallets are none or one batch, `ScriptInv` and `FoundInv` what the
script has found when it stands where, and `EnvInv` that the wallet ids in
`.env` are of the address it names if the lists show that batch (`Listed`).  A
batch the lists show after a step they showed before it (`KnownStep`), for the
oldest set never gets a second one; a run that writes `.env` has found it
(`ListedIsFound`) and names it (`WhatIsWritten`).  The counting argument (a
batch has as many wallets as the script expects, and a page that holds the set
shows all of it) uses the library's cardinality facts.  Nothing is assumed of
how many sets, foreign wallets or places on a page there are, but that a page
holds a batch.  A code names the agent of its latest registration, and
registrations are numbered (`RegisterKeepsCodes`).

*Quotes.*  `QuotesAreComputed` says of a quote that its prices are what
`Targets` and `Rounded` make of the book it has seen, that it passed the gate
if it is accepted, and that its book is extreme if it was rejected;
`OrdersAreOfQuotes` and `IdsAreOfOrders` tie orders and ids to quotes.  What
the two clamps and the rounding do to a price is in lemmas of their own, by
linear arithmetic.

*Exposure.*  `CallInv` follows a call: it works on a fill that is not recorded
and no other open call works on, and what it has read is a snapshot of its
market.  `SnapshotsFollow` derives every snapshot from another one, and
`Chained` says that snapshots of a market that no calls raced for form a chain
whose last one counts every fill.  SPATHA's hedge is bounded by a chain of
comparisons: a snapshot counts a fill at most once and only if it is recorded,
so each side of its exposure is at most what was traded on that side when it
was read (`SnapshotWithin`); what was traded only grows (`OffsetGrows`); the
exposure a hedge is built on was such a snapshot's (`SpathaInv`), however old
it is.

*Sums.*  The provers cannot instantiate an induction theorem, so the inductions
`SumTheorems` needs are made by a least counterexample: a family of subsets of
a finite set that is not empty has a minimal member (`LeastSubset`, from the
well-foundedness of inclusion).  From there a sum unfolds (`SumUnfolds`), any
term can be taken out of it (`SumTakesOut`), and two sums compare when their
terms do (`SumCompares`).

*HedgeBook, LiveFanout, Treasury.*  In the hedge book, a handler that is past
the venue's call has a reading to record, of a size that fills of the coin
account for or that the venue answered "ok" without one (`Recorded`, `Backed`);
the account holds no more of a coin than was filled of it
(`PositionsAreBacked`, with `SumTheorems`), and what it holds goes back to a
filled order (`PositionsWereTraded`).  A handler that goes on to broadcast has
stored its decision (`BroadcastsAreStored`).  A posted request has an order
and, before its first call, no transaction (`Posted`), its latest call is one
its order makes (`CallFits`), a transfer past the deposit check has known
chains (`TransferChecked`) and has burned before it mints, and a handler that
reaches its row has seen its last call land (`Finished`).  A positive allowance
belongs to a sweep that approved at least as much and whose deposit has not
landed (`AllowanceIsOwed`); which sweep that is changes with every approval.

*Single moves and conservation (Treasury).*  AGROS decides on balances that are
old, or that it takes for zero, and its moves land late or after they were
given up.  What makes a single one safe is that the wallet only loses USDC to
sweeps: until one lands it holds at least what any sweep was decided on
(`SweepsAreCovered`), and until any move lands exactly what any redemption was
(`RedemptionsAreMissing`).  Balances that could not be read show less than
there is: a sweep is the safer for it, and a redemption is not decided on them
unless the USDC alone is missing beside shares, the exception of the property;
until a move lands the shares are the initial ones, so `UsdcUnread` is all that
exception can be (`FirstSight`).  Conservation needs that a request burns once
and only for a transfer (`BurnedOnce`); then each step changes one balance and
the part of one request outside by the same amount (`WalletMoves`), or nothing
(`FundsStay`).

*Model-checked only:* liveness (`EveryRequestEnds`, `StoredIsShown`,
`DeadSocketsAreReaped`), which the prover cannot do under fairness, and the
four counterexamples of section 4.

## 6. Not modelled

- The contents of traces, canonical JSON and hashing: one value per request.
- Prices, profit and leverage of hedges; sizes of Polymarket orders; fees and gas.
- `cancel_order`, `update_inventory`, `mark_settled`, the Redis decision and
  wallet-nonce counters, and the order and adapter-event tables, which nothing
  calls or reads.
- The dashboard's lists other than the decisions, their paging, and the cut of
  the shown decisions to the latest few (`app.js:158`): the decisions of a run are
  fewer.
- A clock that steps back: a snapshot of the fill ledger is never dated before
  an earlier reading of the clock, which `ExactUnlessRaced` rests on.
- That SPATHA hedges the same exposure again at every tick: `HedgesWereFilled`
  bounds each hedge, and nothing the sum of them.
- ERC-20 transfers and signing of the Circle client; controller wallets, block
  times and events of the contracts.
- `usyc_subscribe.py` and the smoke tests, run by hand over adapters that are
  modelled; configuration, sessions, migrations and application start-up, which
  have no protocol of their own; the protocol classes and data types of
  `adapters/base.py` beyond the order book.
- A torn write of `.env` or of the secret file, which the script does not guard
  against, and a second orchestrator process, which the in-process fan-out rules
  out.

## 7. Plan

1. The lifecycle's executor replaced by the venues' modules, so that a Gateway
   transfer or a quote is cut by the crash of the orchestrator in the middle.
2. A writer of `record_fill`, when one appears, with the venue's fills as its
   source.
