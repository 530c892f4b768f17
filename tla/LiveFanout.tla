----------------------------- MODULE LiveFanout -----------------------------
(***************************************************************************)
(* How dashboards learn of decisions: the WebSocket fan-out of the         *)
(* orchestrator (StateStore in state.py, live_ws in routers/live.py) and   *)
(* the dashboard's script (frontend/static/app.js), which fetches the      *)
(* decisions over REST when an event arrives and, as a safety net, on a    *)
(* timer.  Queues are bounded and events are dropped when they are full;   *)
(* sockets break, and the orchestrator notices only when it next sends.    *)
(*                                                                         *)
(* Decisions are as many as a fetch returns (50), so none is paged out.    *)
(***************************************************************************)
EXTENDS Naturals, Sequences

CONSTANTS
  Decisions,
  NoEvent,
  Browsers,
  QueueMax,      \* maxsize of a subscriber's queue; 200 in the code
  MaxConnects,   \* bound: sockets a browser opens
  MaxRestarts    \* bound: restarts of the orchestrator

\* A browser's successive sockets, and the subscriber each one is served by.
Sockets == Browsers \X (1 .. MaxConnects)

ASSUME BoundsAssumption ==
  QueueMax \in Nat \ {0} /\ MaxConnects \in Nat /\ MaxRestarts \in Nat
ASSUME NoEventAssumption == NoEvent \notin Decisions

VARIABLES
  handler,      \* the end of each decision's request handler
  stored,       \* Postgres: decisions with a row
  restarts,
  subscribers,  \* _ws_subscribers, by the socket each queue belongs to
  queue,        \* the asyncio.Queue of each socket
  sending,      \* the event live_ws is sending on each socket
  connects,     \* sockets each browser has opened
  connected,    \* browsers whose latest socket is up, as they see it
  responses,    \* responses on their way to each browser
  shown         \* decisions each dashboard shows

vars == <<handler, stored, restarts, subscribers, queue, sending,
          connects, connected, responses, shown>>
socketVars == <<subscribers, queue, sending>>
browserVars == <<connects, connected, responses, shown>>

\* The socket a browser is listening on.
Listening(s) == s[1] \in connected /\ s[2] = connects[s[1]]

Init ==
  /\ handler = [d \in Decisions |-> "running"]
  /\ stored = {}
  /\ restarts = 0
  /\ subscribers = {}
  /\ queue = [s \in Sockets |-> <<>>]
  /\ sending = [s \in Sockets |-> NoEvent]
  /\ connects = [b \in Browsers |-> 0]
  /\ connected = {}
  /\ responses = [b \in Browsers |-> {}]
  /\ shown = [b \in Browsers |-> {}]

-----------------------------------------------------------------------------
(* The orchestrator.                                                        *)

\* _process: store_decision, which commits, ...
StoreDecision(d) ==
  /\ handler[d] = "running"
  /\ stored' = stored \cup {d}
  /\ handler' = [handler EXCEPT ![d] = "stored"]
  /\ UNCHANGED <<restarts, socketVars, browserVars>>

\* Offer an event to every queue that has room for it.  put() on a queue that
\* is not full does not yield, so a broadcast is one step.
Put(d) ==
  queue' = [s \in Sockets |-> IF s \in subscribers /\ Len(queue[s]) < QueueMax
                              THEN Append(queue[s], d) ELSE queue[s]]

\* Mutants: the event goes out first and the row is written after it; put()
\* is awaited on full queues too.
BroadcastBeforeStore(d) ==
  /\ handler[d] \in {"running", "stored"}
  /\ Put(d)
  /\ handler' = [handler EXCEPT ![d] = "ended"]
  /\ UNCHANGED <<stored, restarts, subscribers, sending, browserVars>>
BroadcastUnbounded(d) ==
  /\ handler[d] = "stored"
  /\ queue' = [s \in Sockets |-> IF s \in subscribers THEN Append(queue[s], d) ELSE queue[s]]
  /\ handler' = [handler EXCEPT ![d] = "ended"]
  /\ UNCHANGED <<stored, restarts, subscribers, sending, browserVars>>

\* ... then broadcast.
Broadcast(d) ==
  /\ handler[d] = "stored"
  /\ Put(d)
  /\ handler' = [handler EXCEPT ![d] = "ended"]
  /\ UNCHANGED <<stored, restarts, subscribers, sending, browserVars>>

\* live_ws: the next event of the queue, to be sent.
TakeEvent(s) ==
  /\ s \in subscribers /\ sending[s] = NoEvent /\ queue[s] # <<>>
  /\ sending' = [sending EXCEPT ![s] = Head(queue[s])]
  /\ queue' = [queue EXCEPT ![s] = Tail(queue[s])]
  /\ UNCHANGED <<handler, stored, restarts, subscribers, browserVars>>

\* hydrate: the browser asks for the decisions and the server reads them;
\* the response is on its way.  Nothing orders one browser's responses.
Fetch(b) == responses' = [responses EXCEPT ![b] = responses[b] \cup {stored}]

\* send_text reaches the browser, whose handleEvent fetches.
Deliver(s) ==
  /\ sending[s] # NoEvent /\ Listening(s)
  /\ sending' = [sending EXCEPT ![s] = NoEvent]
  /\ Fetch(s[1])
  /\ UNCHANGED <<handler, stored, restarts, subscribers, queue, connects, connected, shown>>

\* Mutants: live_ws ends without unsubscribe_ws; it unsubscribes the browser,
\* not the socket.
SendFailsSubscribed(s) ==
  /\ sending[s] # NoEvent /\ ~Listening(s)
  /\ sending' = [sending EXCEPT ![s] = NoEvent]
  /\ UNCHANGED <<handler, stored, restarts, subscribers, queue, browserVars>>

SendFailsWholeBrowser(s) ==
  /\ sending[s] # NoEvent /\ ~Listening(s)
  /\ sending' = [sending EXCEPT ![s] = NoEvent]
  /\ subscribers' = {t \in subscribers : t[1] # s[1]}
  /\ queue' = [queue EXCEPT ![s] = <<>>]
  /\ UNCHANGED <<handler, stored, restarts, browserVars>>

\* send_text finds the socket broken: live_ws ends and unsubscribes.
SendFails(s) ==
  /\ sending[s] # NoEvent /\ ~Listening(s)
  /\ sending' = [sending EXCEPT ![s] = NoEvent]
  /\ subscribers' = subscribers \ {s}
  /\ queue' = [queue EXCEPT ![s] = <<>>]
  /\ UNCHANGED <<handler, stored, restarts, browserVars>>

\* The process restarts: subscriptions and running handlers are gone, sockets
\* and fetches break.
Restart ==
  /\ restarts < MaxRestarts
  /\ restarts' = restarts + 1
  /\ handler' = [d \in Decisions |-> "ended"]
  /\ subscribers' = {}
  /\ queue' = [s \in Sockets |-> <<>>]
  /\ sending' = [s \in Sockets |-> NoEvent]
  /\ connected' = {}
  /\ responses' = [b \in Browsers |-> {}]
  /\ UNCHANGED <<stored, connects, shown>>

-----------------------------------------------------------------------------
(* The dashboard.                                                           *)

\* connectWS, at boot and two seconds after a close: subscribe_ws gives the
\* new socket a queue.
Connect(b) ==
  /\ b \notin connected /\ connects[b] < MaxConnects
  /\ connects' = [connects EXCEPT ![b] = connects[b] + 1]
  /\ connected' = connected \cup {b}
  /\ subscribers' = subscribers \cup {<<b, connects[b] + 1>>}
  /\ UNCHANGED <<handler, stored, restarts, queue, sending, responses, shown>>

\* The socket is closed, to both ends; live_ws waits on its queue and does not
\* notice.  An event sent into a connection that is lost but not closed yet is
\* a Deliver whose fetch fails.
Disconnect(b) ==
  /\ b \in connected
  /\ connected' = connected \ {b}
  /\ UNCHANGED <<handler, stored, restarts, socketVars, connects, responses, shown>>

\* Mutant: the timer stops when a socket is up ("the feed is live anyway").
PollUnlessLive(b) ==
  /\ b \notin connected
  /\ Fetch(b)
  /\ UNCHANGED <<handler, stored, restarts, socketVars, connects, connected, shown>>

\* setInterval(hydrate, 8000).
Poll(b) ==
  /\ Fetch(b)
  /\ UNCHANGED <<handler, stored, restarts, socketVars, connects, connected, shown>>

\* A response arrives and replaces the feed, whatever came before it.
Render(b) ==
  \E seen \in responses[b] :
    /\ shown' = [shown EXCEPT ![b] = seen]
    /\ responses' = [responses EXCEPT ![b] = responses[b] \ {seen}]
    /\ UNCHANGED <<handler, stored, restarts, socketVars, connects, connected>>

\* One of the four requests of a hydrate fails, and nothing is rendered.
FetchFails(b) ==
  \E seen \in responses[b] :
    /\ responses' = [responses EXCEPT ![b] = responses[b] \ {seen}]
    /\ UNCHANGED <<handler, stored, restarts, socketVars, connects, connected, shown>>

OrchestratorStep ==
  \/ \E d \in Decisions : StoreDecision(d) \/ Broadcast(d)
  \/ \E s \in Sockets : TakeEvent(s) \/ Deliver(s) \/ SendFails(s)
  \/ Restart

BrowserStep(b) == Connect(b) \/ Disconnect(b) \/ Poll(b) \/ Render(b) \/ FetchFails(b)

Next == OrchestratorStep \/ \E b \in Browsers : BrowserStep(b)

Spec == Init /\ [][Next]_vars

\* The event loop serves every subscriber.  A browser's timer goes on firing,
\* and a response that could be rendered time and again is one day rendered:
\* the services behind the four requests are not down for ever.
Fairness ==
  /\ \A s \in Sockets : WF_vars(TakeEvent(s)) /\ WF_vars(Deliver(s) \/ SendFails(s))
  /\ \A b \in Browsers :
       /\ WF_vars(Poll(b))
       /\ \A seen \in SUBSET Decisions :
            SF_vars(Render(b) /\ seen \in responses[b] /\ seen \notin responses'[b])

FairSpec == Spec /\ Fairness

-----------------------------------------------------------------------------
\* Types.  A queue never holds more than its maximum, so that a broadcast
\* never waits for a slow dashboard in the middle of a request.
TypeOK ==
  /\ handler \in [Decisions -> {"running", "stored", "ended"}]
  /\ stored \subseteq Decisions
  /\ restarts \in 0 .. MaxRestarts
  /\ subscribers \subseteq Sockets
  /\ queue \in [Sockets -> Seq(Decisions)]
  /\ \A s \in Sockets : Len(queue[s]) <= QueueMax
  /\ sending \in [Sockets -> Decisions \cup {NoEvent}]
  /\ connects \in [Browsers -> 0 .. MaxConnects]
  /\ connected \subseteq Browsers
  /\ responses \in [Browsers -> SUBSET SUBSET Decisions]
  /\ shown \in [Browsers -> SUBSET Decisions]

\* An event never runs ahead of its row: the fetch it sets off finds the
\* decision, or the event would be spent on an old feed.
EventsFindTheirRow ==
  \A s \in Sockets :
    /\ sending[s] # NoEvent => sending[s] \in stored
    /\ \A i \in 1 .. Len(queue[s]) : queue[s][i] \in stored

\* A socket a browser listens on is subscribed: reconnecting, failed sends
\* and late clean-ups of earlier sockets never leave a live one without events.
ListenersAreSubscribed == \A s \in Sockets : Listening(s) => s \in subscribers

\* Dropped events, broken sockets, restarts and responses overtaking one
\* another notwithstanding, a stored decision is one day shown for good.
StoredIsShown ==
  \A d \in Decisions, b \in Browsers : d \in stored ~> [](d \in shown[b])

\* A broken socket's subscription does not outlive the next event: each event
\* queued for it leads to its removal, so reconnects do not pile up queues.
DeadSocketsAreReaped ==
  \A s \in Sockets :
    s \in subscribers /\ ~Listening(s) /\ queue[s] # <<>> ~> s \notin subscribers
=============================================================================
