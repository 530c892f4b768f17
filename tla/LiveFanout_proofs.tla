------------------------- MODULE LiveFanout_proofs -------------------------
(***************************************************************************)
(* The safety of the live feed, for any number of dashboards, decisions,   *)
(* reconnects and restarts, and for queues of any size: queues stay within *)
(* their bound, events never run ahead of their rows, and a socket a       *)
(* browser listens on has a queue.                                         *)
(***************************************************************************)
EXTENDS LiveFanout, TLAPS

\* A handler that goes on to broadcast has committed its row.
BroadcastsAreStored == \A d \in Decisions : handler[d] = "stored" => d \in stored

IInv == TypeOK /\ BroadcastsAreStored /\ EventsFindTheirRow /\ ListenersAreSubscribed

-----------------------------------------------------------------------------
\* What Append and Tail do to the length and the elements of a queue.
LEMMA QueueAppend ==
  ASSUME NEW D, NEW q \in Seq(D), NEW d \in D
  PROVE  /\ Append(q, d) \in Seq(D) /\ Len(Append(q, d)) = Len(q) + 1
         /\ \A i \in 1 .. Len(Append(q, d)) :
              Append(q, d)[i] = d \/ (i \in 1 .. Len(q) /\ Append(q, d)[i] = q[i])
OBVIOUS

LEMMA QueueTail ==
  ASSUME NEW D, NEW q \in Seq(D), q # <<>>
  PROVE  /\ Tail(q) \in Seq(D) /\ Len(Tail(q)) = Len(q) - 1 /\ Head(q) = q[1] /\ Head(q) \in D
         /\ 1 \in 1 .. Len(q)
         /\ \A i \in 1 .. Len(Tail(q)) : Tail(q)[i] = q[i + 1] /\ i + 1 \in 1 .. Len(q)
OBVIOUS

LEMMA EmptyQueue == \A D : <<>> \in Seq(D) /\ Len(<<>>) = 0
OBVIOUS

LEMMA InitInv == Init => IInv
<1> SUFFICES ASSUME Init PROVE IInv
  OBVIOUS
<1>1. TypeOK
  BY BoundsAssumption, EmptyQueue DEF Init, TypeOK
<1>2. BroadcastsAreStored /\ EventsFindTheirRow /\ ListenersAreSubscribed
  BY EmptyQueue DEF Init, BroadcastsAreStored, EventsFindTheirRow, ListenersAreSubscribed, Listening
<1> QED BY <1>1, <1>2 DEF IInv

-----------------------------------------------------------------------------
(* The orchestrator.                                                        *)

LEMMA StoreKeeps ==
  ASSUME IInv, NEW d \in Decisions, StoreDecision(d)
  PROVE  IInv'
<1> USE DEF StoreDecision, socketVars, browserVars
<1>1. TypeOK'
  BY DEF IInv, TypeOK
<1>2. BroadcastsAreStored'
  BY DEF IInv, TypeOK, BroadcastsAreStored
<1>3. EventsFindTheirRow' /\ ListenersAreSubscribed'
  BY DEF IInv, EventsFindTheirRow, ListenersAreSubscribed, Listening
<1> QED BY <1>1, <1>2, <1>3 DEF IInv

LEMMA BroadcastKeeps ==
  ASSUME IInv, NEW d \in Decisions, Broadcast(d)
  PROVE  IInv'
<1>1. /\ handler[d] = "stored" /\ handler' = [handler EXCEPT ![d] = "ended"]
      /\ UNCHANGED <<stored, restarts, subscribers, sending, browserVars>>
  BY DEF Broadcast
<1>2. d \in stored
  BY <1>1 DEF IInv, BroadcastsAreStored
<1>3. /\ queue' \in [Sockets -> Seq(Decisions)]
      /\ \A s \in Sockets :
           /\ Len(queue'[s]) <= QueueMax
           /\ \A i \in 1 .. Len(queue'[s]) : queue'[s][i] \in stored
  <2>1. ASSUME NEW s \in Sockets
        PROVE  /\ queue'[s] \in Seq(Decisions) /\ Len(queue'[s]) <= QueueMax
               /\ \A i \in 1 .. Len(queue'[s]) : queue'[s][i] \in stored
    <3>1. /\ queue[s] \in Seq(Decisions) /\ Len(queue[s]) <= QueueMax
          /\ \A i \in 1 .. Len(queue[s]) : queue[s][i] \in stored
      BY DEF IInv, TypeOK, EventsFindTheirRow
    <3>2. CASE s \in subscribers /\ Len(queue[s]) < QueueMax
      <4>1. queue'[s] = Append(queue[s], d)
        BY <3>2 DEF Broadcast, Put
      <4>2. Len(queue[s]) + 1 <= QueueMax
        BY <3>1, <3>2, BoundsAssumption
      <4> QED BY <1>2, <3>1, <4>1, <4>2, QueueAppend
    <3>3. CASE ~(s \in subscribers /\ Len(queue[s]) < QueueMax)
      BY <3>1, <3>3 DEF Broadcast, Put
    <3> QED BY <3>2, <3>3
  <2> QED BY <2>1 DEF Broadcast, Put
<1>4. TypeOK'
  BY <1>1, <1>3 DEF IInv, TypeOK, browserVars
<1>5. BroadcastsAreStored' /\ EventsFindTheirRow' /\ ListenersAreSubscribed'
  BY <1>1, <1>3 DEF IInv, TypeOK, BroadcastsAreStored, EventsFindTheirRow,
                    ListenersAreSubscribed, Listening, browserVars
<1> QED BY <1>4, <1>5 DEF IInv

LEMMA TakeKeeps ==
  ASSUME IInv, NEW s \in Sockets, TakeEvent(s)
  PROVE  IInv'
<1>1. /\ queue[s] \in Seq(Decisions) /\ queue[s] # <<>> /\ Len(queue[s]) <= QueueMax
      /\ \A i \in 1 .. Len(queue[s]) : queue[s][i] \in stored
  BY DEF TakeEvent, IInv, TypeOK, EventsFindTheirRow
<1>2. /\ sending' = [sending EXCEPT ![s] = Head(queue[s])]
      /\ queue' = [queue EXCEPT ![s] = Tail(queue[s])]
      /\ UNCHANGED <<handler, stored, restarts, subscribers, browserVars>>
  BY DEF TakeEvent
<1>3. Head(queue[s]) \in Decisions /\ Head(queue[s]) \in stored
  BY <1>1, QueueTail
<1>4. /\ Tail(queue[s]) \in Seq(Decisions) /\ Len(Tail(queue[s])) <= QueueMax
      /\ \A i \in 1 .. Len(Tail(queue[s])) : Tail(queue[s])[i] \in stored
  BY <1>1, QueueTail, BoundsAssumption
<1>5. \A t \in Sockets :
        /\ queue'[t] = IF t = s THEN Tail(queue[s]) ELSE queue[t]
        /\ sending'[t] = IF t = s THEN Head(queue[s]) ELSE sending[t]
  BY <1>2 DEF IInv, TypeOK
<1>6. TypeOK'
  BY <1>2, <1>3, <1>4, <1>5 DEF IInv, TypeOK, browserVars
<1>7. BroadcastsAreStored' /\ EventsFindTheirRow' /\ ListenersAreSubscribed'
  BY <1>2, <1>3, <1>4, <1>5 DEF IInv, BroadcastsAreStored, EventsFindTheirRow,
                                ListenersAreSubscribed, Listening, browserVars
<1> QED BY <1>6, <1>7 DEF IInv

LEMMA FetchTypes ==
  ASSUME TypeOK, NEW b \in Browsers, Fetch(b)
  PROVE  responses' \in [Browsers -> SUBSET SUBSET Decisions]
BY DEF TypeOK, Fetch

LEMMA DeliverKeeps ==
  ASSUME IInv, NEW s \in Sockets, Deliver(s)
  PROVE  IInv'
<1>1. /\ sending' = [sending EXCEPT ![s] = NoEvent] /\ Fetch(s[1])
      /\ UNCHANGED <<handler, stored, restarts, subscribers, queue, connects, connected, shown>>
  BY DEF Deliver
<1>2. s[1] \in Browsers
  BY DEF Sockets
<1>3. TypeOK'
  BY <1>1, <1>2, FetchTypes DEF IInv, TypeOK
<1>4. BroadcastsAreStored' /\ EventsFindTheirRow' /\ ListenersAreSubscribed'
  BY <1>1 DEF IInv, TypeOK, BroadcastsAreStored, EventsFindTheirRow,
              ListenersAreSubscribed, Listening
<1> QED BY <1>3, <1>4 DEF IInv

LEMMA SendFailsKeeps ==
  ASSUME IInv, NEW s \in Sockets, SendFails(s)
  PROVE  IInv'
<1>1. /\ ~Listening(s) /\ sending' = [sending EXCEPT ![s] = NoEvent]
      /\ subscribers' = subscribers \ {s} /\ queue' = [queue EXCEPT ![s] = <<>>]
      /\ UNCHANGED <<handler, stored, restarts, browserVars>>
  BY DEF SendFails
<1>2. \A t \in Sockets :
        /\ queue'[t] = IF t = s THEN <<>> ELSE queue[t]
        /\ sending'[t] = IF t = s THEN NoEvent ELSE sending[t]
  BY <1>1 DEF IInv, TypeOK
<1>3. TypeOK'
  BY <1>1, <1>2, EmptyQueue, BoundsAssumption DEF IInv, TypeOK, browserVars
<1>4. BroadcastsAreStored' /\ EventsFindTheirRow'
  BY <1>1, <1>2, EmptyQueue DEF IInv, BroadcastsAreStored, EventsFindTheirRow
<1>5. ListenersAreSubscribed'
  BY <1>1 DEF IInv, ListenersAreSubscribed, Listening, browserVars
<1> QED BY <1>3, <1>4, <1>5 DEF IInv

LEMMA RestartKeeps ==
  ASSUME IInv, Restart
  PROVE  IInv'
<1>1. TypeOK'
  BY EmptyQueue, BoundsAssumption DEF Restart, IInv, TypeOK
<1>2. BroadcastsAreStored' /\ EventsFindTheirRow' /\ ListenersAreSubscribed'
  BY EmptyQueue DEF Restart, BroadcastsAreStored, EventsFindTheirRow, ListenersAreSubscribed,
                    Listening
<1> QED BY <1>1, <1>2 DEF IInv

-----------------------------------------------------------------------------
(* The dashboard.                                                           *)

LEMMA ConnectKeeps ==
  ASSUME IInv, NEW b \in Browsers, Connect(b)
  PROVE  IInv'
<1>1. /\ connects[b] < MaxConnects
      /\ connects' = [connects EXCEPT ![b] = connects[b] + 1]
      /\ connected' = connected \cup {b}
      /\ subscribers' = subscribers \cup {<<b, connects[b] + 1>>}
      /\ UNCHANGED <<handler, stored, restarts, queue, sending, responses, shown>>
  BY DEF Connect
<1>2. connects[b] + 1 \in 1 .. MaxConnects
  BY <1>1, BoundsAssumption DEF IInv, TypeOK
<1>3. <<b, connects[b] + 1>> \in Sockets
  BY <1>2 DEF Sockets
<1>4. connects' \in [Browsers -> 0 .. MaxConnects]
  BY <1>1, <1>2 DEF IInv, TypeOK
<1>5. TypeOK'
  BY <1>1, <1>3, <1>4 DEF IInv, TypeOK
<1>6. BroadcastsAreStored' /\ EventsFindTheirRow'
  BY <1>1 DEF IInv, BroadcastsAreStored, EventsFindTheirRow
<1>7. ListenersAreSubscribed'
  <2> SUFFICES ASSUME NEW s \in Sockets, Listening(s)' PROVE s \in subscribers'
    BY DEF ListenersAreSubscribed
  <2>1. CASE s[1] = b
    <3>1. s[2] = connects[b] + 1
      BY <1>1, <2>1 DEF Listening, IInv, TypeOK
    <3>2. s = <<s[1], s[2]>>
      BY DEF Sockets
    <3> QED BY <1>1, <2>1, <3>1, <3>2
  <2>2. CASE s[1] # b
    BY <1>1, <2>2 DEF Listening, Sockets, IInv, TypeOK, ListenersAreSubscribed
  <2> QED BY <2>1, <2>2
<1> QED BY <1>5, <1>6, <1>7 DEF IInv

\* The other steps of a browser leave the sockets alone, or lose one.
LEMMA BrowserKeeps ==
  ASSUME IInv, NEW b \in Browsers, Disconnect(b) \/ Poll(b) \/ Render(b) \/ FetchFails(b)
  PROVE  IInv'
<1>1. /\ UNCHANGED <<handler, stored, restarts, socketVars, connects>>
      /\ connected' \subseteq connected
  BY DEF Disconnect, Poll, Render, FetchFails
<1>2. /\ responses' \in [Browsers -> SUBSET SUBSET Decisions]
      /\ shown' \in [Browsers -> SUBSET Decisions]
  <2>1. CASE Disconnect(b)
    BY <2>1 DEF Disconnect, IInv, TypeOK
  <2>2. CASE Poll(b)
    BY <2>2, FetchTypes DEF Poll, IInv, TypeOK
  <2>3. CASE Render(b)
    <3>1. PICK seen \in responses[b] :
            /\ shown' = [shown EXCEPT ![b] = seen]
            /\ responses' = [responses EXCEPT ![b] = responses[b] \ {seen}]
      BY <2>3 DEF Render
    <3> QED BY <3>1 DEF IInv, TypeOK
  <2>4. CASE FetchFails(b)
    <3>1. PICK seen \in responses[b] :
            responses' = [responses EXCEPT ![b] = responses[b] \ {seen}] /\ shown' = shown
      BY <2>4 DEF FetchFails
    <3> QED BY <3>1 DEF IInv, TypeOK
  <2> QED BY <2>1, <2>2, <2>3, <2>4
<1>3. TypeOK'
  BY <1>1, <1>2 DEF IInv, TypeOK, socketVars
<1>4. BroadcastsAreStored' /\ EventsFindTheirRow' /\ ListenersAreSubscribed'
  BY <1>1 DEF IInv, BroadcastsAreStored, EventsFindTheirRow, ListenersAreSubscribed,
              Listening, socketVars
<1> QED BY <1>3, <1>4 DEF IInv

\* Every step keeps the invariant.
LEMMA StepInv == IInv /\ [Next]_vars => IInv'
<1> SUFFICES ASSUME IInv, [Next]_vars PROVE IInv'
  OBVIOUS
<1>1. CASE OrchestratorStep
  BY <1>1, StoreKeeps, BroadcastKeeps, TakeKeeps, DeliverKeeps, SendFailsKeeps, RestartKeeps
     DEF OrchestratorStep
<1>2. CASE \E b \in Browsers : BrowserStep(b)
  BY <1>2, ConnectKeeps, BrowserKeeps DEF BrowserStep
<1>3. CASE UNCHANGED vars
  BY <1>3 DEF vars, IInv, TypeOK, BroadcastsAreStored, EventsFindTheirRow,
              ListenersAreSubscribed, Listening
<1> QED BY <1>1, <1>2, <1>3 DEF Next

-----------------------------------------------------------------------------
\* The invariant holds whichever sockets break and whenever the orchestrator
\* restarts.
THEOREM InvariantHolds == Spec => []IInv
BY InitInv, StepInv, PTL DEF Spec

\* No queue of a slow or dead dashboard grows past its bound, which is what
\* keeps broadcast from waiting in the middle of a request.
THEOREM TypeCorrect == Spec => []TypeOK
<1>1. IInv => TypeOK
  BY DEF IInv
<1> QED BY <1>1, InvariantHolds, PTL

\* The fetch an event sets off finds the decision it is about.
THEOREM EventsAreStored == Spec => []EventsFindTheirRow
<1>1. IInv => EventsFindTheirRow
  BY DEF IInv
<1> QED BY <1>1, InvariantHolds, PTL

\* Reconnecting, failed sends and late clean-ups never leave a socket that a
\* browser listens on without a queue.
THEOREM ListenersHaveQueues == Spec => []ListenersAreSubscribed
<1>1. IInv => ListenersAreSubscribed
  BY DEF IInv
<1> QED BY <1>1, InvariantHolds, PTL
=============================================================================
