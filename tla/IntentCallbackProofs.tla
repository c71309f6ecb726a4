------------------------ MODULE IntentCallbackProofs ------------------------
(***************************************************************************)
(* Proofs about IntentCallback for any number of listeners, dispatchers,   *)
(* peers and endpoints and any backlog. First the type invariant, the      *)
(* ownership of a bound path, and that a `forwarded` result implies a      *)
(* handoff; then the path of an intent from connect to the consumer and    *)
(* back: what a consumer reads, why a listener stops serving, and that the *)
(* transport implements CallbackPromise.                                   *)
(***************************************************************************)
EXTENDS IntentCallback, TLAPS, FiniteSetTheorems

(* The states in which a listener holds an accepted connection. *)
Busy == {"reading", "forwarding", "respondForwarded", "respondRejected"}

(* A busy listener has a connection: the line it prints names a client. *)
BusyHasConn == \A l \in Listeners : lpc[l] \in Busy => conn[l] # None

(* Hangup writes only end-of-file marks. *)
LEMMA HangupType ==
    ASSUME TypeOK, NEW closed, Hangup(closed)
    PROVE  /\ reply' \in [Clients -> {"none", "forwarded", "rejected", "eof"}]
           /\ \A c \in Clients : reply'[c] \in {"eof", reply[c]}
  BY DEF TypeOK, Hangup

(* Appending to one queue of a family of queues. *)
LEMMA AppendType ==
    ASSUME NEW S, NEW I, NEW q \in [I -> Seq(S)], NEW i \in I, NEW x \in S
    PROVE  [q EXCEPT ![i] = Append(@, x)] \in [I -> Seq(S)]
<1>1. Append(q[i], x) \in Seq(S)
  OBVIOUS
<1>2. QED
  BY <1>1

(* Taking the first element of one queue of a family of queues. *)
LEMMA TailType ==
    ASSUME NEW S, NEW I, NEW q \in [I -> Seq(S)], NEW i \in I, q[i] # <<>>
    PROVE  /\ Head(q[i]) \in S
           /\ [q EXCEPT ![i] = Tail(@)] \in [I -> Seq(S)]
<1>1. Head(q[i]) \in S /\ Tail(q[i]) \in Seq(S)
  OBVIOUS
<1>2. QED
  BY <1>1

(* The initial state of listeners, streams and clients is well typed. *)
LEMMA TypeInit == Init => TypeOK
  BY ProcessAssumption, EndpointAssumption
  DEF Init, TypeOK, ListenerStates

(* The program counter after a step of listen_for_intents. *)
LEMMA GotoType ==
    ASSUME TypeOK, NEW l \in Listeners, \E s \in ListenerStates : Goto(l, s)
    PROVE  lpc' \in [Listeners -> ListenerStates]
  BY DEF TypeOK, Goto

(* The program counters the listener's steps go to. *)
LEMMA ListenerGoto ==
    ASSUME NEW l \in Listeners, BindCheck(l) \/ ListenerStep(l) \/ Kill(l)
    PROVE  \E s \in ListenerStates : Goto(l, s)
<1> USE DEF ListenerStates, Listening, Serving, Stopped
<1>1. ASSUME BindCheck(l) \/ BindSocket(l) \/ SetPermissions(l) \/ Announce(l)
      PROVE  \E s \in ListenerStates : Goto(l, s)
  BY <1>1 DEF BindCheck, BindSocket, SetPermissions, Announce
<1>2. ASSUME Accept(l) \/ ReadRequest(l) \/ Forward(l)
      PROVE  \E s \in ListenerStates : Goto(l, s)
  BY <1>2 DEF Accept, ReadRequest, Forward
<1>3. ASSUME Respond(l) \/ Unlink(l) \/ Close(l) \/ Kill(l)
      PROVE  \E s \in ListenerStates : Goto(l, s)
  BY <1>3 DEF Respond, Unlink, Close, Kill
<1>4. QED
  BY <1>1, <1>2, <1>3 DEF ListenerStep

(* Every step of a listener keeps the types. *)
LEMMA ListenerTypeStep ==
    ASSUME TypeOK, BusyHasConn, NEW l \in Listeners,
           BindCheck(l) \/ ListenerStep(l) \/ Kill(l) \/ ConsumerLeaves(l)
    PROVE  TypeOK'
<1> USE ProcessAssumption, EndpointAssumption
<1>0. ASSUME BindCheck(l) \/ ListenerStep(l) \/ Kill(l)
      PROVE  lpc' \in [Listeners -> ListenerStates]
  BY <1>0, ListenerGoto, GotoType
<1>1. CASE BindCheck(l)
  BY <1>0, <1>1 DEF TypeOK, BindCheck, cvars
<1>2. CASE BindSocket(l)
  <2>1. node' \in [Endpoints -> Listeners \cup {None}]
    BY <1>2 DEF TypeOK, BindSocket
  <2>2. QED
    BY <1>0, <1>2, <2>1 DEF TypeOK, BindSocket, cvars, ListenerStep
<1>3. CASE SetPermissions(l)
  <2>1. queue' \in [Listeners -> Seq(Clients)]
    <3>1. queue \in [Listeners -> Seq(Clients)] /\ <<>> \in Seq(Clients)
      BY DEF TypeOK
    <3>2. QED
      BY <1>3, <3>1 DEF SetPermissions
  <2>2. reply' \in [Clients -> {"none", "forwarded", "rejected", "eof"}]
    BY <1>3, HangupType DEF TypeOK, SetPermissions
  <2>3. QED
    BY <1>0, <1>3, <2>1, <2>2 DEF TypeOK, SetPermissions, ListenerStep
<1>4. CASE Announce(l)
  <2>1. stdout \in [Listeners -> Seq(Clients \cup {Ready})]
    BY DEF TypeOK
  <2>2. [stdout EXCEPT ![l] = Append(@, Ready)] \in [Listeners -> Seq(Clients \cup {Ready})]
    BY <2>1, AppendType
  <2>3. stdout' \in [Listeners -> Seq(Clients \cup {Ready})]
    BY <1>4, <2>1, <2>2 DEF Announce
  <2>4. QED
    BY <1>0, <1>4, <2>3 DEF TypeOK, Announce, cvars, ListenerStep
<1>5. CASE Accept(l)
  <2>1. queue' \in [Listeners -> Seq(Clients)] /\ Head(queue[l]) \in Clients
    BY <1>5, TailType DEF TypeOK, Accept
  <2>2. conn' \in [Listeners -> Clients \cup {None}]
    BY <1>5, <2>1 DEF TypeOK, Accept
  <2>3. QED
    BY <1>0, <1>5, <2>1, <2>2 DEF TypeOK, Accept, cvars, ListenerStep
<1>6. CASE ReadRequest(l)
  <2>1. conn' \in [Listeners -> Clients \cup {None}]
    BY ZenonT(40), <1>6 DEF TypeOK, ReadRequest
  <2>2. reply' \in [Clients -> {"none", "forwarded", "rejected", "eof"}]
    BY <1>6, HangupType DEF TypeOK, ReadRequest
  <2>3. QED
    BY <1>0, <1>6, <2>1, <2>2 DEF TypeOK, ReadRequest, ListenerStep
<1>7. CASE Forward(l)
  <2>1. stdout \in [Listeners -> Seq(Clients \cup {Ready})]
    BY DEF TypeOK
  <2>2. conn[l] \in Clients \cup {Ready}
    BY <1>7 DEF TypeOK, BusyHasConn, Busy, Forward
  <2>3. [stdout EXCEPT ![l] = Append(@, conn[l])] \in [Listeners -> Seq(Clients \cup {Ready})]
    BY <2>1, <2>2, AppendType
  <2>4. stdout' \in [Listeners -> Seq(Clients \cup {Ready})]
    BY <1>7, <2>1, <2>3 DEF Forward
  <2>5. QED
    BY <1>0, <1>7, <2>4 DEF TypeOK, Forward, cvars, ListenerStep
<1>8. CASE Respond(l)
  <2>1. conn' \in [Listeners -> Clients \cup {None}]
    BY <1>8 DEF TypeOK, Respond
  <2>2. reply' \in [Clients -> {"none", "forwarded", "rejected", "eof"}]
    BY <1>8, HangupType DEF TypeOK, Respond
  <2>3. QED
    BY <1>0, <1>8, <2>1, <2>2 DEF TypeOK, Respond, ListenerStep
<1>9. CASE Unlink(l)
  BY <1>0, <1>9 DEF TypeOK, Unlink, cvars, ListenerStep
<1>10. CASE Close(l)
  BY <1>0, <1>10, HangupType DEF TypeOK, Close, ListenerStep
<1>11. CASE Kill(l)
  BY <1>0, <1>11, HangupType DEF TypeOK, Kill
<1>12. CASE ConsumerLeaves(l)
  BY <1>12 DEF TypeOK, ConsumerLeaves, cvars
<1>13. QED
  BY <1>1, <1>2, <1>3, <1>4, <1>5, <1>6, <1>7, <1>8, <1>9, <1>10, <1>11, <1>12
  DEF ListenerStep

(* Every step of a client keeps the types. *)
LEMMA ClientTypeStep ==
    ASSUME TypeOK, NEW c \in Clients,
           Click(c) \/ DispatcherStep(c) \/ Abandon(c) \/ PeerStart(c) \/ PeerSend(c)
    PROVE  TypeOK'
<1> USE ProcessAssumption, EndpointAssumption
<1>1. CASE Click(c) \/ ReadReceipt(c) \/ Timeout(c) \/ Abandon(c) \/ PeerStart(c)
  <2>1. UNCHANGED <<lvars, server, frame, reply>>
    BY <1>1 DEF Click, ReadReceipt, Timeout, Abandon, PeerStart
  <2>2. /\ cpc' \in [Clients -> {"idle", "connecting", "connected", "sent", "done"}]
        /\ result' \in [Clients -> {"pending", "forwarded", "rejected", "failed"}]
    BY ZenonT(40), <1>1 DEF TypeOK, Click, ReadReceipt, Timeout, Abandon, PeerStart, Finish
  <2>3. QED
    BY <2>1, <2>2 DEF TypeOK, lvars
<1>2. CASE WriteRequest(c) \/ PeerSend(c)
  <2>1. Intent(c) \in Requests
    BY DEF Intent, Requests
  <2>2. frame' \in [Clients -> Requests \cup {Garbage, NoFrame}]
    <3>1. CASE WriteRequest(c)
      BY ZenonT(40), <2>1, <3>1 DEF TypeOK, WriteRequest
    <3>2. CASE PeerSend(c)
      <4>1. PICK f \in Requests \cup {Garbage} : frame' = [frame EXCEPT ![c] = f]
        BY <3>2 DEF PeerSend
      <4>2. QED
        BY <4>1 DEF TypeOK
    <3>3. QED
      BY <1>2, <3>1, <3>2
  <2>3. /\ cpc' \in [Clients -> {"idle", "connecting", "connected", "sent", "done"}]
        /\ result' \in [Clients -> {"pending", "forwarded", "rejected", "failed"}]
    <3>1. CASE WriteRequest(c)
      BY ZenonT(40), <3>1 DEF TypeOK, WriteRequest, Finish
    <3>2. CASE PeerSend(c)
      BY <3>2 DEF TypeOK, PeerSend
    <3>3. QED
      BY <1>2, <3>1, <3>2
  <2>4. QED
    BY <1>2, <2>2, <2>3 DEF TypeOK, WriteRequest, PeerSend, lvars
<1>3. CASE Connect(c)
  <2>0. UNCHANGED <<lpc, node, conn, stdout, consumer, frame, reply>>
    BY <1>3 DEF Connect
  <2>1. CASE cpc'[c] = "done"
    <3>1. Finish(c, "failed") /\ UNCHANGED <<queue, server>>
      BY <1>3, <2>1 DEF TypeOK, Connect
    <3>2. /\ cpc' \in [Clients -> {"idle", "connecting", "connected", "sent", "done"}]
          /\ result' \in [Clients -> {"pending", "forwarded", "rejected", "failed"}]
      BY <3>1 DEF TypeOK, Finish
    <3>3. QED
      BY <2>0, <3>1, <3>2 DEF TypeOK
  <2>2. CASE cpc'[c] # "done"
    <3>1. PICK l \in Listeners : /\ queue' = [queue EXCEPT ![l] = Append(@, c)]
                                 /\ server' = [server EXCEPT ![c] = l]
                                 /\ cpc' = [cpc EXCEPT ![c] = "connected"]
                                 /\ UNCHANGED result
      BY <1>3, <2>2 DEF TypeOK, Connect, Finish
    <3>2. queue' \in [Listeners -> Seq(Clients)]
      BY <3>1, AppendType DEF TypeOK
    <3>3. QED
      BY <2>0, <3>1, <3>2 DEF TypeOK
  <2>3. QED
    BY <2>1, <2>2
<1>4. QED
  BY <1>1, <1>2, <1>3 DEF DispatcherStep

(* Every step keeps the types. *)
LEMMA TypeStep ==
    ASSUME TypeOK, BusyHasConn, [Next]_vars PROVE TypeOK'
<1>1. CASE UNCHANGED vars
  BY <1>1 DEF TypeOK, vars
<1>2. QED
  BY <1>1, ListenerTypeStep, ClientTypeStep DEF Next, DispatcherStep, Clients

(* accept sets the connection when a listener becomes busy, and it is      *)
(* given up only by a step that leaves the busy states.                    *)
LEMMA BusyStep ==
    ASSUME TypeOK, BusyHasConn, [Next]_vars PROVE BusyHasConn'
<1> USE ProcessAssumption, EndpointAssumption
<1>1. ASSUME NEW l \in Listeners, Accept(l) PROVE BusyHasConn'
  <2>1. Head(queue[l]) \in Clients
    BY <1>1, TailType DEF TypeOK, Accept
  <2>2. QED
    BY <1>1, <2>1 DEF TypeOK, Accept, Goto, BusyHasConn
<1>2. ASSUME NEW l \in Listeners, ReadRequest(l) \/ Respond(l) \/ Kill(l) PROVE BusyHasConn'
  BY <1>2 DEF TypeOK, ReadRequest, Respond, Kill, Goto, BusyHasConn, Busy
<1>3. ASSUME NEW l \in Listeners,
             BindCheck(l) \/ BindSocket(l) \/ SetPermissions(l) \/ Announce(l)
             \/ Forward(l) \/ Unlink(l) \/ Close(l) \/ ConsumerLeaves(l)
      PROVE BusyHasConn'
  BY <1>3 DEF TypeOK, BindCheck, BindSocket, SetPermissions, Announce, Forward, Unlink,
     Close, ConsumerLeaves, Goto, BusyHasConn, Busy
<1>4. ASSUME UNCHANGED <<lpc, conn>> PROVE BusyHasConn'
  BY <1>4 DEF BusyHasConn
<1>5. ASSUME NEW c \in Clients,
             Click(c) \/ DispatcherStep(c) \/ Abandon(c) \/ PeerStart(c) \/ PeerSend(c)
      PROVE UNCHANGED <<lpc, conn>>
  BY <1>5 DEF Click, DispatcherStep, Connect, WriteRequest, ReadReceipt, Timeout, Abandon,
     PeerStart, PeerSend, lvars
<1>6. CASE UNCHANGED vars
  BY <1>6, <1>4 DEF vars
<1>7. QED
  BY <1>1, <1>2, <1>3, <1>4, <1>5, <1>6 DEF Next, ListenerStep, DispatcherStep, Clients

(* Every reachable state of the transport has its type, and no listener    *)
(* works on a connection it does not have.                                 *)
THEOREM TypeCorrect == Spec => [](TypeOK /\ BusyHasConn)
<1>1. Init => BusyHasConn
  BY DEF Init, BusyHasConn, Busy
<1>2. TypeOK /\ BusyHasConn /\ [Next]_vars => (TypeOK /\ BusyHasConn)'
  BY TypeStep, BusyStep
<1>3. QED
  BY <1>1, <1>2, TypeInit, PTL DEF Spec

-----------------------------------------------------------------------------
(* Ownership: the only step that creates a path entry finds none, and the  *)
(* only step that removes one is taken by its owner.                       *)
LEMMA OwnershipStep ==
    ASSUME TypeOK, OwnsItsPath, [Next]_vars PROVE OwnsItsPath'
<1> USE ProcessAssumption, EndpointAssumption
<1>1. ASSUME NEW l \in Listeners, BindSocket(l) PROVE OwnsItsPath'
  <2> SUFFICES ASSUME NEW m \in Listeners, lpc'[m] \in Serving
               PROVE  node'[ListenEndpoint[m]] = m
    BY DEF OwnsItsPath
  <2>1. CASE m = l
    BY <1>1, <2>1 DEF TypeOK, BindSocket, Goto, Serving
  <2>2. CASE m # l
    <3>1. lpc[m] \in Serving /\ node[ListenEndpoint[m]] = m
      BY <1>1, <2>2 DEF TypeOK, BindSocket, Goto, OwnsItsPath
    <3>2. QED
      BY <1>1, <2>2, <3>1 DEF TypeOK, BindSocket
  <2>3. QED
    BY <2>1, <2>2
<1>2. ASSUME NEW l \in Listeners, Unlink(l) PROVE OwnsItsPath'
  BY <1>2 DEF OwnsItsPath, TypeOK, Unlink, Goto, Serving
<1>3. ASSUME NEW l \in Listeners, UNCHANGED node,
             \/ UNCHANGED lpc
             \/ \E s : Goto(l, s) /\ (s \in Serving => lpc[l] \in Serving)
      PROVE OwnsItsPath'
  BY <1>3 DEF OwnsItsPath, TypeOK, Goto
<1>4. ASSUME NEW l \in Listeners,
             BindCheck(l) \/ SetPermissions(l) \/ Announce(l) \/ Accept(l)
             \/ ReadRequest(l) \/ Forward(l) \/ Respond(l) \/ Close(l) \/ Kill(l)
             \/ ConsumerLeaves(l)
      PROVE OwnsItsPath'
  <2>1. UNCHANGED node
    BY <1>4 DEF BindCheck, SetPermissions, Announce, Accept, ReadRequest, Forward, Respond,
       Close, Kill, ConsumerLeaves
  <2>2. \/ UNCHANGED lpc
        \/ \E s : Goto(l, s) /\ (s \in Serving => lpc[l] \in Serving)
    BY <1>4 DEF BindCheck, SetPermissions, Announce, Accept, ReadRequest, Forward, Respond,
       Close, Kill, ConsumerLeaves, Serving
  <2>3. QED
    BY <1>3, <2>1, <2>2
<1>5. ASSUME UNCHANGED <<lpc, node>> PROVE OwnsItsPath'
  BY <1>5 DEF OwnsItsPath
<1>6. ASSUME NEW c \in Clients,
             Click(c) \/ DispatcherStep(c) \/ Abandon(c) \/ PeerStart(c) \/ PeerSend(c)
      PROVE UNCHANGED <<lpc, node>>
  BY <1>6 DEF Click, DispatcherStep, Connect, WriteRequest, ReadReceipt, Timeout, Abandon,
     PeerStart, PeerSend, lvars
<1>7. CASE UNCHANGED vars
  BY <1>7, <1>5 DEF vars
<1>8. QED
  BY <1>1, <1>2, <1>4, <1>5, <1>6, <1>7 DEF Next, ListenerStep, DispatcherStep, Clients

(* For any number of processes contending for an endpoint, a serving       *)
(* listener is the one its path names.                                     *)
THEOREM OwnershipHolds == Spec => []OwnsItsPath
<1>1. Init => OwnsItsPath
  BY DEF Init, OwnsItsPath, Serving
<1>2. TypeOK /\ OwnsItsPath /\ [Next]_vars => OwnsItsPath'
  BY OwnershipStep
<1>3. QED
  BY <1>1, <1>2, TypeCorrect, PTL DEF Spec

(* A path names a listener started for its endpoint. *)
PathOfItsEndpoint ==
    \A e \in Endpoints : node[e] # None => ListenEndpoint[node[e]] = e

(* A listener leaves the states in which a path may name it only by        *)
(* removing that path.                                                     *)
LEMMA FreesPathStep ==
    ASSUME TypeOK, PathOfItsEndpoint, OrderlyExitFreesPath, [Next]_vars
    PROVE  PathOfItsEndpoint' /\ OrderlyExitFreesPath'
<1> USE ProcessAssumption, EndpointAssumption
<1> DEFINE Named == Serving \cup {"killed", "leaked"}
<1>1. ASSUME NEW l \in Listeners, BindSocket(l)
      PROVE  PathOfItsEndpoint' /\ OrderlyExitFreesPath'
  <2> SUFFICES ASSUME NEW e \in Endpoints, node'[e] # None
               PROVE  ListenEndpoint[node'[e]] = e /\ lpc'[node'[e]] \in Named
    BY DEF PathOfItsEndpoint, OrderlyExitFreesPath
  <2>1. CASE node'[e] = node[e]
    <3>1. node[e] \in Listeners /\ lpc[node[e]] \in Named /\ node[e] # l
      BY <1>1, <2>1 DEF OrderlyExitFreesPath, TypeOK, BindSocket, Serving
    <3>2. lpc'[node[e]] = lpc[node[e]]
      BY <1>1, <3>1 DEF TypeOK, BindSocket, Goto
    <3>3. QED
      BY <2>1, <3>1, <3>2 DEF PathOfItsEndpoint
  <2>2. CASE node'[e] # node[e]
    <3>1. e = ListenEndpoint[l] /\ node'[e] = l /\ Goto(l, "bound")
      BY <1>1, <2>2 DEF TypeOK, BindSocket
    <3>2. QED
      BY <3>1 DEF TypeOK, Goto, Serving
  <2>3. QED
    BY <2>1, <2>2
<1>2. ASSUME NEW l \in Listeners, Unlink(l)
      PROVE  PathOfItsEndpoint' /\ OrderlyExitFreesPath'
  BY <1>2 DEF PathOfItsEndpoint, OrderlyExitFreesPath, TypeOK, Unlink, Goto, Serving
<1>3. ASSUME NEW l \in Listeners, UNCHANGED node,
             \/ UNCHANGED lpc
             \/ \E s : Goto(l, s) /\ (lpc[l] \in Named => s \in Named)
      PROVE  PathOfItsEndpoint' /\ OrderlyExitFreesPath'
  <2>1. \A m \in Listeners : lpc[m] \in Named => lpc'[m] \in Named
    <3> HIDE DEF Named
    <3>1. QED
      BY <1>3 DEF TypeOK, Goto
  <2>2. \A e \in Endpoints : node[e] # None => node[e] \in Listeners
    BY DEF TypeOK
  <2>3. QED
    BY <1>3, <2>1, <2>2 DEF PathOfItsEndpoint, OrderlyExitFreesPath
<1>4. ASSUME NEW l \in Listeners,
             BindCheck(l) \/ SetPermissions(l) \/ Announce(l) \/ Accept(l)
             \/ ReadRequest(l) \/ Forward(l) \/ Respond(l) \/ Close(l) \/ Kill(l)
             \/ ConsumerLeaves(l)
      PROVE  PathOfItsEndpoint' /\ OrderlyExitFreesPath'
  <2>1. UNCHANGED node
    BY <1>4 DEF BindCheck, SetPermissions, Announce, Accept, ReadRequest, Forward, Respond,
       Close, Kill, ConsumerLeaves
  <2>2. \/ UNCHANGED lpc
        \/ \E s : Goto(l, s) /\ (lpc[l] \in Named => s \in Named)
    BY <1>4 DEF BindCheck, SetPermissions, Announce, Accept, ReadRequest, Forward, Respond,
       Close, Kill, ConsumerLeaves, Serving
  <2>3. QED
    BY <1>3, <2>1, <2>2
<1>5. ASSUME UNCHANGED <<lpc, node>>
      PROVE  PathOfItsEndpoint' /\ OrderlyExitFreesPath'
  BY <1>5 DEF PathOfItsEndpoint, OrderlyExitFreesPath
<1>6. ASSUME NEW c \in Clients,
             Click(c) \/ DispatcherStep(c) \/ Abandon(c) \/ PeerStart(c) \/ PeerSend(c)
      PROVE UNCHANGED <<lpc, node>>
  BY <1>6 DEF Click, DispatcherStep, Connect, WriteRequest, ReadReceipt, Timeout, Abandon,
     PeerStart, PeerSend, lvars
<1>7. CASE UNCHANGED vars
  BY <1>7, <1>5 DEF vars
<1>8. QED
  BY <1>1, <1>2, <1>4, <1>5, <1>6, <1>7 DEF Next, ListenerStep, DispatcherStep, Clients

(* For any number of processes, only a signal or a failed set_permissions  *)
(* leaves a socket path behind that nobody serves.                         *)
THEOREM StalePathsExplained == Spec => []OrderlyExitFreesPath
<1>1. Init => PathOfItsEndpoint /\ OrderlyExitFreesPath
  BY DEF Init, PathOfItsEndpoint, OrderlyExitFreesPath
<1>2. TypeOK /\ PathOfItsEndpoint /\ OrderlyExitFreesPath /\ [Next]_vars
        => PathOfItsEndpoint' /\ OrderlyExitFreesPath'
  BY FreesPathStep
<1>3. QED
  BY <1>1, <1>2, TypeCorrect, PTL DEF Spec

-----------------------------------------------------------------------------
(* Each connection is known to one listener only, the one it was queued at. *)
Streams ==
    /\ \A l \in Listeners : conn[l] # None => server[conn[l]] = l
    /\ \A l \in Listeners : \A i \in DOMAIN queue[l] : server[queue[l][i]] = l
    /\ \A c \in Clients : cpc[c] \in {"idle", "connecting"} => server[c] = None

Printed(l, c) == \E i \in DOMAIN stdout[l] : stdout[l][i] = c

(* The receipt is decided after the line is printed, and sent on the       *)
(* stream of the client that the line names.                               *)
Receipts ==
    /\ \A l \in Listeners : lpc[l] = "respondForwarded" => Printed(l, conn[l])
    /\ \A c \in Clients : reply[c] = "forwarded" =>
           server[c] \in Listeners /\ Printed(server[c], c)

(* What a queue holds after an append and after a tail. *)
LEMMA AppendElements ==
    ASSUME NEW S, NEW q \in Seq(S), NEW x \in S, NEW i \in DOMAIN Append(q, x)
    PROVE  \/ i \in DOMAIN q /\ Append(q, x)[i] = q[i]
           \/ Append(q, x)[i] = x
  OBVIOUS

LEMMA TailElements ==
    ASSUME NEW S, NEW q \in Seq(S), q # <<>>
    PROVE  /\ \E k \in DOMAIN q : Head(q) = q[k]
           /\ \A i \in DOMAIN Tail(q) : \E k \in DOMAIN q : Tail(q)[i] = q[k]
<1>1. 1 \in DOMAIN q /\ Head(q) = q[1]
  OBVIOUS
<1>2. ASSUME NEW i \in DOMAIN Tail(q) PROVE i + 1 \in DOMAIN q /\ Tail(q)[i] = q[i + 1]
  OBVIOUS
<1>3. QED
  BY <1>1, <1>2

(* Connections are queued, accepted and dropped without changing hands. *)
LEMMA StreamsStep ==
    ASSUME TypeOK, Streams, [Next]_vars PROVE Streams'
<1> USE ProcessAssumption, EndpointAssumption
<1>1. ASSUME NEW l \in Listeners, Accept(l) PROVE Streams'
  <2>1. queue[l] \in Seq(Clients) /\ queue[l] # <<>>
    BY <1>1 DEF TypeOK, Accept
  <2>2. server[Head(queue[l])] = l
    BY <2>1, TailElements DEF Streams
  <2>3. \A i \in DOMAIN Tail(queue[l]) : server[Tail(queue[l])[i]] = l
    BY <2>1, TailElements DEF Streams
  <2>4. QED
    BY <1>1, <2>2, <2>3 DEF Streams, TypeOK, Accept, cvars
<1>2. ASSUME NEW l \in Listeners, SetPermissions(l) \/ Close(l) \/ ReadRequest(l)
                                  \/ Respond(l) \/ Kill(l)
      PROVE Streams'
  <2>1. UNCHANGED <<cpc, server>>
    BY <1>2 DEF SetPermissions, Close, ReadRequest, Respond, Kill
  <2>2. conn' = conn \/ conn' = [conn EXCEPT ![l] = None]
    BY <1>2 DEF SetPermissions, Close, ReadRequest, Respond, Kill
  <2>3. queue' = queue \/ queue' = [queue EXCEPT ![l] = <<>>]
    BY <1>2 DEF SetPermissions, Close, ReadRequest, Respond, Kill
  <2>4. \A m \in Listeners : conn'[m] # None => server'[conn'[m]] = m
    BY <2>1, <2>2 DEF Streams, TypeOK
  <2>5. \A m \in Listeners : \A i \in DOMAIN queue'[m] : server'[queue'[m][i]] = m
    <3>1. CASE queue' = queue
      BY <2>1, <3>1 DEF Streams
    <3>2. CASE queue' = [queue EXCEPT ![l] = <<>>]
      BY <2>1, <3>2 DEF Streams, TypeOK
    <3>3. QED
      BY <2>3, <3>1, <3>2
  <2>6. QED
    BY <2>1, <2>4, <2>5 DEF Streams
<1>3. ASSUME NEW c \in Clients, Connect(c) PROVE Streams'
  <2>1. CASE cpc'[c] = "done"
    BY <1>3, <2>1 DEF TypeOK, Connect, Finish, Streams
  <2>2. CASE cpc'[c] # "done"
    <3>1. PICK l \in Listeners : /\ queue' = [queue EXCEPT ![l] = Append(@, c)]
                                 /\ server' = [server EXCEPT ![c] = l]
                                 /\ cpc' = [cpc EXCEPT ![c] = "connected"]
                                 /\ UNCHANGED conn
      BY <1>3, <2>2 DEF TypeOK, Connect, Finish
    <3>2. server[c] = None
      BY <1>3 DEF Connect, Streams
    <3>3. \A m \in Listeners : conn'[m] # None => server'[conn'[m]] = m
      BY <3>1, <3>2 DEF Streams, TypeOK
    <3>4. ASSUME NEW m \in Listeners, NEW i \in DOMAIN queue'[m]
          PROVE  server'[queue'[m][i]] = m
      <4>1. CASE m # l
        <5>1. queue'[m] = queue[m] /\ queue[m][i] \in Clients
          BY <3>1, <4>1 DEF TypeOK
        <5>2. server[queue[m][i]] = m
          BY <5>1 DEF Streams
        <5>3. QED
          BY <3>1, <3>2, <5>1, <5>2 DEF TypeOK
      <4>2. CASE m = l
        <5>1. queue[l] \in Seq(Clients) /\ queue'[m] = Append(queue[l], c)
          BY <3>1, <4>2 DEF TypeOK
        <5>2. CASE queue'[m][i] = c
          BY <3>1, <4>2, <5>2 DEF TypeOK
        <5>3. CASE queue'[m][i] # c
          <6>1. i \in DOMAIN queue[l] /\ queue'[m][i] = queue[l][i]
            BY <5>1, <5>3, AppendElements
          <6>2. server[queue[l][i]] = l
            BY <6>1 DEF Streams
          <6>3. QED
            BY <3>1, <3>2, <4>2, <6>1, <6>2 DEF TypeOK
        <5>4. QED
          BY <5>2, <5>3
      <4>3. QED
        BY <4>1, <4>2
    <3>5. \A k \in Clients : cpc'[k] \in {"idle", "connecting"} => server'[k] = None
      BY <3>1 DEF Streams, TypeOK
    <3>6. QED
      BY <3>3, <3>4, <3>5 DEF Streams
  <2>3. QED
    BY <2>1, <2>2
<1>4. ASSUME NEW c \in Clients, Click(c) \/ WriteRequest(c) \/ ReadReceipt(c) \/ Timeout(c)
                                \/ Abandon(c) \/ PeerStart(c) \/ PeerSend(c)
      PROVE Streams'
  <2>1. UNCHANGED <<queue, conn, server>>
    BY <1>4 DEF Click, WriteRequest, ReadReceipt, Timeout, Abandon, PeerStart, PeerSend, lvars
  <2>2. \A k \in Clients : cpc'[k] \in {"idle", "connecting"} => cpc[k] \in {"idle", "connecting"}
    BY <1>4 DEF TypeOK, Click, WriteRequest, ReadReceipt, Timeout, Abandon, PeerStart, PeerSend,
       Finish
  <2>3. QED
    BY <2>1, <2>2 DEF Streams
<1>5. ASSUME UNCHANGED <<queue, conn, server, cpc>> PROVE Streams'
  BY <1>5 DEF Streams
<1>6. ASSUME NEW l \in Listeners, BindCheck(l) \/ BindSocket(l) \/ Announce(l) \/ Forward(l)
                                  \/ Unlink(l) \/ ConsumerLeaves(l)
      PROVE Streams'
  BY <1>5, <1>6 DEF BindCheck, BindSocket, Announce, Forward, Unlink, ConsumerLeaves, cvars
<1>7. CASE UNCHANGED vars
  BY <1>5, <1>7 DEF vars
<1>8. QED
  BY <1>1, <1>2, <1>3, <1>4, <1>6, <1>7 DEF Next, ListenerStep, DispatcherStep, Clients

(* Lines that a listener has printed stay printed. *)
LEMMA PrintedStays ==
    ASSUME TypeOK, [Next]_vars, NEW l \in Listeners, NEW c, Printed(l, c)
    PROVE  Printed(l, c)'
<1>1. CASE UNCHANGED stdout
  BY <1>1 DEF Printed
<1>2. ASSUME NEW m \in Listeners, NEW x, stdout' = [stdout EXCEPT ![m] = Append(@, x)]
      PROVE  Printed(l, c)'
  <2>1. PICK i \in DOMAIN stdout[l] : stdout[l][i] = c
    BY DEF Printed
  <2>2. stdout[l] \in Seq(Clients \cup {Ready})
    BY DEF TypeOK
  <2>3. i \in DOMAIN Append(stdout[l], x) /\ Append(stdout[l], x)[i] = c
    BY <2>1, <2>2
  <2>4. stdout'[l] \in {stdout[l], Append(stdout[l], x)}
    BY <1>2 DEF TypeOK
  <2>5. QED
    BY <2>1, <2>3, <2>4 DEF Printed
<1>3. \/ UNCHANGED stdout
      \/ \E m \in Listeners : \E x : stdout' = [stdout EXCEPT ![m] = Append(@, x)]
  BY DEF Next, vars, lvars, ListenerStep, DispatcherStep, BindCheck, BindSocket, SetPermissions,
     Announce, Accept, ReadRequest, Forward, Respond, Unlink, Close, Kill, ConsumerLeaves,
     Click, Connect, WriteRequest, ReadReceipt, Timeout, Abandon, PeerStart, PeerSend
<1>4. QED
  BY <1>1, <1>2, <1>3

(* respond is the only step that puts `forwarded` on a stream. *)
LEMMA ReceiptsStep ==
    ASSUME TypeOK, BusyHasConn, Streams, Receipts, [Next]_vars PROVE Receipts'
<1> USE ProcessAssumption, EndpointAssumption
<1>1. ASSUME NEW m \in Listeners, lpc'[m] = "respondForwarded" PROVE Printed(m, conn[m])'
  <2>1. CASE Forward(m)
    <3>1. stdout' = [stdout EXCEPT ![m] = Append(@, conn[m])] /\ UNCHANGED conn
      BY <1>1, <2>1 DEF TypeOK, Forward, Goto
    <3>2. stdout[m] \in Seq(Clients \cup {Ready})
      BY DEF TypeOK
    <3>3. /\ Len(stdout[m]) + 1 \in DOMAIN Append(stdout[m], conn[m])
          /\ Append(stdout[m], conn[m])[Len(stdout[m]) + 1] = conn[m]
      BY <3>2
    <3>4. stdout'[m] = Append(stdout[m], conn[m])
      BY <3>1 DEF TypeOK
    <3>5. QED
      BY <3>1, <3>3, <3>4 DEF Printed
  <2>2. CASE ~Forward(m)
    <3>1. lpc[m] = "respondForwarded" /\ conn'[m] = conn[m]
      <4>1. ASSUME NEW l \in Listeners,
                   BindCheck(l) \/ BindSocket(l) \/ SetPermissions(l) \/ Announce(l)
                   \/ Accept(l) \/ ReadRequest(l) \/ Respond(l) \/ Unlink(l) \/ Close(l)
                   \/ Kill(l) \/ ConsumerLeaves(l)
            PROVE  lpc[m] = "respondForwarded" /\ conn'[m] = conn[m]
        BY <1>1, <4>1 DEF TypeOK, BindCheck, BindSocket, SetPermissions, Announce, Accept,
           ReadRequest, Respond, Unlink, Close, Kill, ConsumerLeaves, Goto
      <4>2. ASSUME NEW l \in Listeners, Forward(l)
            PROVE  lpc[m] = "respondForwarded" /\ conn'[m] = conn[m]
        BY <1>1, <2>2, <4>2 DEF TypeOK, Forward, Goto
      <4>3. ASSUME NEW c \in Clients,
                   Click(c) \/ DispatcherStep(c) \/ Abandon(c) \/ PeerStart(c) \/ PeerSend(c)
            PROVE  UNCHANGED <<lpc, conn>>
        BY <4>3 DEF Click, DispatcherStep, Connect, WriteRequest, ReadReceipt, Timeout, Abandon,
           PeerStart, PeerSend, lvars
      <4>4. QED
        BY <1>1, <4>1, <4>2, <4>3 DEF Next, ListenerStep, DispatcherStep, Clients, vars
    <3>2. PICK x \in Clients : x = conn[m] /\ x = conn'[m]
      BY <3>1 DEF TypeOK, BusyHasConn, Busy
    <3>3. Printed(m, x)
      BY <3>1, <3>2 DEF Receipts
    <3>4. Printed(m, x)'
      BY <3>3, PrintedStays
    <3>5. QED
      BY <3>2, <3>4 DEF Printed
  <2>3. QED
    BY <2>1, <2>2
<1>2. ASSUME NEW c \in Clients, reply'[c] = "forwarded"
      PROVE  server'[c] \in Listeners /\ Printed(server[c], c)'
  <2>1. CASE reply[c] = "forwarded"
    <3>1. server[c] \in Listeners /\ Printed(server[c], c)
      BY <2>1 DEF Receipts
    <3>2. server'[c] = server[c]
      <4>1. cpc[c] \notin {"idle", "connecting"}
        BY <3>1 DEF Streams
      <4>2. ASSUME NEW l \in Listeners,
                   BindCheck(l) \/ ListenerStep(l) \/ Kill(l) \/ ConsumerLeaves(l)
            PROVE  UNCHANGED server
        BY <4>2 DEF ListenerStep, BindCheck, BindSocket, SetPermissions, Announce, Accept,
           ReadRequest, Forward, Respond, Unlink, Close, Kill, ConsumerLeaves, cvars
      <4>3. ASSUME NEW d \in Clients,
                   Click(d) \/ WriteRequest(d) \/ ReadReceipt(d) \/ Timeout(d) \/ Abandon(d)
                   \/ PeerStart(d) \/ PeerSend(d)
            PROVE  UNCHANGED server
        BY <4>3 DEF Click, WriteRequest, ReadReceipt, Timeout, Abandon, PeerStart, PeerSend
      <4>4. ASSUME NEW d \in Clients, Connect(d) PROVE server'[c] = server[c]
        BY <4>1, <4>4 DEF TypeOK, Connect
      <4>5. QED
        BY <4>2, <4>3, <4>4 DEF Next, DispatcherStep, Clients, vars
    <3>3. QED
      BY <3>1, <3>2, PrintedStays DEF Printed
  <2>2. CASE reply[c] # "forwarded"
    <3>1. PICK l \in Listeners : Respond(l) /\ conn[l] = c /\ lpc[l] = "respondForwarded"
      <4>1. ASSUME NEW l \in Listeners, Respond(l)
            PROVE  conn[l] = c /\ lpc[l] = "respondForwarded"
        BY <1>2, <2>2, <4>1, HangupType DEF TypeOK, Respond
      <4>2. ASSUME NEW l \in Listeners, BindCheck(l) \/ BindSocket(l) \/ SetPermissions(l)
                   \/ Announce(l) \/ Accept(l) \/ ReadRequest(l) \/ Forward(l) \/ Unlink(l)
                   \/ Close(l) \/ Kill(l) \/ ConsumerLeaves(l)
            PROVE  FALSE
        BY <1>2, <2>2, <4>2, HangupType DEF TypeOK, BindCheck, BindSocket, SetPermissions,
           Announce, Accept, ReadRequest, Forward, Unlink, Close, Kill, ConsumerLeaves, cvars
      <4>3. ASSUME NEW d \in Clients,
                   Click(d) \/ DispatcherStep(d) \/ Abandon(d) \/ PeerStart(d) \/ PeerSend(d)
            PROVE  UNCHANGED reply
        BY <4>3 DEF Click, DispatcherStep, Connect, WriteRequest, ReadReceipt, Timeout, Abandon,
           PeerStart, PeerSend
      <4>4. QED
        BY <1>2, <2>2, <4>1, <4>2, <4>3 DEF Next, ListenerStep, DispatcherStep, Clients, vars
    <3>2. server[c] = l /\ Printed(l, c)
      BY <3>1 DEF Streams, Receipts
    <3>3. UNCHANGED <<server, stdout>>
      BY <3>1 DEF Respond
    <3>4. QED
      BY <3>2, <3>3 DEF Printed
  <2>3. QED
    BY <2>1, <2>2
<1>3. QED
  BY <1>1, <1>2 DEF Receipts

(* A dispatch reports `forwarded` only on a receipt from a listener of its *)
(* link's endpoint.                                                        *)
LEMMA ForwardedStep ==
    ASSUME TypeOK, Receipts, ForwardedWasHandedOff, [Next]_vars
    PROVE  ForwardedWasHandedOff'
<1> SUFFICES ASSUME NEW d \in Dispatchers, result'[d] = "forwarded"
             PROVE  \E l \in Listeners : ListenEndpoint[l] = LinkEndpoint[d] /\ Printed(l, d)'
  BY DEF ForwardedWasHandedOff, Printed
<1>1. CASE result[d] = "forwarded"
  <2>1. PICK l \in Listeners : ListenEndpoint[l] = LinkEndpoint[d] /\ Printed(l, d)
    BY <1>1 DEF ForwardedWasHandedOff, Printed
  <2>2. QED
    BY <2>1, PrintedStays
<1>2. CASE result[d] # "forwarded"
  <2>1. ReadReceipt(d)
    <3>1. ASSUME NEW l \in Listeners,
                 BindCheck(l) \/ ListenerStep(l) \/ Kill(l) \/ ConsumerLeaves(l)
          PROVE  UNCHANGED result
      BY <3>1 DEF ListenerStep, BindCheck, BindSocket, SetPermissions, Announce, Accept,
         ReadRequest, Forward, Respond, Unlink, Close, Kill, ConsumerLeaves, cvars
    <3>2. ASSUME NEW c \in Clients,
                 Click(c) \/ Connect(c) \/ WriteRequest(c) \/ Timeout(c) \/ Abandon(c)
                 \/ PeerStart(c) \/ PeerSend(c)
          PROVE  result'[d] # "forwarded"
      BY <1>2, <3>2 DEF TypeOK, Clients, Click, Connect, WriteRequest, Timeout, Abandon,
         PeerStart, PeerSend, Finish
    <3>3. ASSUME NEW c \in Dispatchers, ReadReceipt(c) PROVE c = d
      BY <1>2, <3>3 DEF TypeOK, Clients, ReadReceipt, Finish
    <3>4. QED
      BY <1>2, <3>1, <3>2, <3>3 DEF Next, DispatcherStep, Clients, vars
  <2>2. reply[d] = "forwarded" /\ ListenEndpoint[server[d]] = LinkEndpoint[d] /\ UNCHANGED stdout
    BY <1>2, <2>1 DEF TypeOK, Clients, ReadReceipt, Finish, lvars
  <2>3. server[d] \in Listeners /\ Printed(server[d], d)
    BY <2>2 DEF Receipts, Clients
  <2>4. QED
    BY <2>2, <2>3 DEF Printed
<1>3. QED
  BY <1>1, <1>2

(* "A dispatcher receives `forwarded` only after the listener has written  *)
(* the validated intent to its consumer handoff", for any set of           *)
(* processes, crashes and timeouts included.                               *)
THEOREM ForwardedCorrect == Spec => []ForwardedWasHandedOff
<1>1. Init => Streams /\ Receipts /\ ForwardedWasHandedOff
  BY DEF Init, Streams, Receipts, ForwardedWasHandedOff, Clients
<1>2. /\ TypeOK /\ BusyHasConn
      /\ Streams /\ Receipts /\ ForwardedWasHandedOff
      /\ [Next]_vars
      => (Streams /\ Receipts /\ ForwardedWasHandedOff)'
  BY StreamsStep, ReceiptsStep, ForwardedStep
<1>3. QED
  BY <1>1, <1>2, TypeCorrect, PTL DEF Spec

-----------------------------------------------------------------------------
(* Delivery.                                                               *)

(* A connection is in flight from connect until its listener drops it. *)
InFlight(l, c) == conn[l] = c \/ \E i \in DOMAIN queue[l] : queue[l][i] = c

(* A connection is in flight once. *)
QueuedOnce ==
    \A l \in Listeners :
        /\ \A i, j \in DOMAIN queue[l] : queue[l][i] = queue[l][j] => i = j
        /\ \A i \in DOMAIN queue[l] : queue[l][i] # conn[l]

(* Nothing has been written to a stream that is in flight or not open yet. *)
Unanswered ==
    /\ \A l \in Listeners : \A c \in Clients : InFlight(l, c) => reply[c] = "none"
    /\ \A c \in Clients : server[c] = None => reply[c] = "none"

(* The only connection in flight whose line is out is the one that is      *)
(* being answered.                                                         *)
PrintedLeaves ==
    \A l \in Listeners : \A c \in Clients :
        InFlight(l, c) /\ Printed(l, c) => conn[l] = c /\ lpc[l] = "respondForwarded"

(* A frame is sent once; the listener that prints a line has checked the   *)
(* frame of that client.                                                   *)
Checked ==
    /\ \A c \in Clients : frame[c] # NoFrame => cpc[c] \in {"sent", "done"}
    /\ \A l \in Listeners : lpc[l] = "forwarding" => Acceptable(l, frame[conn[l]])
    /\ \A l \in Listeners : \A c \in Clients :
           Printed(l, c) => server[c] = l /\ Acceptable(l, frame[c])

(* The lines of a listener against its program counter. *)
Lines ==
    \A l \in Listeners :
        /\ \A i \in DOMAIN stdout[l] : stdout[l][i] = Ready <=> i = 1
        /\ \A i, j \in DOMAIN stdout[l] : stdout[l][i] = stdout[l][j] => i = j
        /\ lpc[l] \in {"idle", "checked", "bound", "announcing"} => stdout[l] = <<>>
        /\ lpc[l] \in {"accepting"} \cup Busy => stdout[l] # <<>>
        /\ l \in Once =>
             /\ Len(stdout[l]) <= 2
             /\ lpc[l] \in {"accepting", "reading", "forwarding"} => Len(stdout[l]) <= 1

(* The steps of the transport, one process at a time. *)
LEMMA StepCases ==
    ASSUME [Next]_vars
    PROVE  \/ \E l \in Listeners :
                \/ BindCheck(l) \/ BindSocket(l) \/ SetPermissions(l) \/ Announce(l) \/ Accept(l)
                \/ ReadRequest(l) \/ Forward(l) \/ Respond(l) \/ Unlink(l) \/ Close(l)
                \/ Kill(l) \/ ConsumerLeaves(l)
           \/ \E c \in Clients :
                \/ Click(c) \/ Connect(c) \/ WriteRequest(c) \/ ReadReceipt(c) \/ Timeout(c)
                \/ Abandon(c) \/ PeerStart(c) \/ PeerSend(c)
           \/ UNCHANGED vars
  BY DEF Next, ListenerStep, DispatcherStep, Clients

(* What a step does to the connections of one listener. *)
LEMMA FlowEffect ==
    ASSUME TypeOK, [Next]_vars, NEW l \in Listeners
    PROVE  \/ conn'[l] \in {conn[l], None} /\ queue'[l] \in {queue[l], <<>>}
           \/ Accept(l) /\ conn'[l] = Head(queue[l]) /\ queue'[l] = Tail(queue[l])
           \/ \E c \in Clients : /\ Connect(c) /\ cpc[c] = "connecting" /\ cpc'[c] = "connected"
                                 /\ queue'[l] = Append(queue[l], c)
                                 /\ UNCHANGED <<conn, stdout, lpc, reply>>
<1> USE ProcessAssumption, EndpointAssumption
<1> DEFINE Goal == 
           \/ conn'[l] \in {conn[l], None} /\ queue'[l] \in {queue[l], <<>>}
           \/ Accept(l) /\ conn'[l] = Head(queue[l]) /\ queue'[l] = Tail(queue[l])
           \/ \E c \in Clients : /\ Connect(c) /\ cpc[c] = "connecting" /\ cpc'[c] = "connected"
                                 /\ queue'[l] = Append(queue[l], c)
                                 /\ UNCHANGED <<conn, stdout, lpc, reply>>
<1>1. ASSUME NEW m \in Listeners, Accept(m) PROVE Goal
  BY <1>1 DEF TypeOK, Accept
<1>2. ASSUME NEW m \in Listeners,
             SetPermissions(m) \/ ReadRequest(m) \/ Respond(m) \/ Close(m) \/ Kill(m)
      PROVE  conn'[l] \in {conn[l], None} /\ queue'[l] \in {queue[l], <<>>}
  BY <1>2 DEF TypeOK, SetPermissions, ReadRequest, Respond, Close, Kill
<1>3. ASSUME NEW m \in Listeners, BindCheck(m) \/ BindSocket(m) \/ Announce(m) \/ Forward(m)
                                  \/ Unlink(m) \/ ConsumerLeaves(m)
      PROVE  UNCHANGED <<conn, queue>>
  BY <1>3 DEF BindCheck, BindSocket, Announce, Forward, Unlink, ConsumerLeaves
<1>4. ASSUME NEW c \in Clients, Click(c) \/ WriteRequest(c) \/ ReadReceipt(c) \/ Timeout(c)
                                \/ Abandon(c) \/ PeerStart(c) \/ PeerSend(c)
      PROVE  UNCHANGED <<conn, queue>>
  BY <1>4 DEF Click, WriteRequest, ReadReceipt, Timeout, Abandon, PeerStart, PeerSend, lvars
<1>5. ASSUME NEW c \in Clients, Connect(c) PROVE Goal
  <2>1. UNCHANGED <<conn, stdout, lpc, reply>> /\ cpc[c] = "connecting"
    BY <1>5 DEF Connect
  <2>2. CASE UNCHANGED queue
    BY <2>1, <2>2
  <2>3. CASE ~UNCHANGED queue
    <3>1. PICK m \in Listeners : /\ queue' = [queue EXCEPT ![m] = Append(@, c)]
                                 /\ cpc' = [cpc EXCEPT ![c] = "connected"]
      BY <1>5, <2>3 DEF TypeOK, Connect
    <3>2. cpc'[c] = "connected" /\ queue'[l] \in {queue[l], Append(queue[l], c)}
      BY <3>1 DEF TypeOK
    <3>3. QED
      BY <1>5, <2>1, <3>2
  <2>4. QED
    BY <2>2, <2>3
<1>6. CASE UNCHANGED vars
  BY <1>6 DEF vars
<1>7. QED
  BY <1>1, <1>2, <1>3, <1>4, <1>5, <1>6, StepCases

(* What a step does to a client's end of its stream. *)
LEMMA ClientEffect ==
    ASSUME TypeOK, [Next]_vars, NEW c \in Clients
    PROVE  /\ frame'[c] = frame[c] \/ cpc[c] = "connected"
           /\ server'[c] = server[c] \/ cpc[c] = "connecting"
           /\ cpc[c] = "done" => cpc'[c] = "done"
           /\ cpc[c] = "sent" => cpc'[c] \in {"sent", "done"}
           /\ frame'[c] # frame[c] => cpc'[c] = "sent"
<1>1. ASSUME NEW m \in Listeners,
               BindCheck(m) \/ BindSocket(m) \/ SetPermissions(m) \/ Announce(m) \/ Accept(m)
               \/ ReadRequest(m) \/ Forward(m) \/ Respond(m) \/ Unlink(m) \/ Close(m)
               \/ Kill(m) \/ ConsumerLeaves(m)
      PROVE  UNCHANGED <<cpc, server, frame>>
  BY <1>1 DEF BindCheck, BindSocket, SetPermissions, Announce, Accept, ReadRequest, Forward,
     Respond, Unlink, Close, Kill, ConsumerLeaves, cvars
<1>2. ASSUME NEW k \in Clients, Click(k) \/ ReadReceipt(k) \/ Timeout(k) \/ Abandon(k)
                                \/ PeerStart(k)
      PROVE  /\ UNCHANGED <<server, frame>> /\ cpc[k] # "done"
             /\ cpc' = [cpc EXCEPT ![k] = "done"]
                \/ (cpc' = [cpc EXCEPT ![k] = "connecting"] /\ cpc[k] = "idle")
  BY <1>2 DEF Click, ReadReceipt, Timeout, Abandon, PeerStart, Finish
<1>3. ASSUME NEW k \in Clients, WriteRequest(k) \/ PeerSend(k)
      PROVE  /\ UNCHANGED server /\ cpc[k] = "connected"
             /\ \/ UNCHANGED frame /\ cpc' = [cpc EXCEPT ![k] = "done"]
                \/ cpc' = [cpc EXCEPT ![k] = "sent"] /\ \E f : frame' = [frame EXCEPT ![k] = f]
  BY <1>3 DEF WriteRequest, PeerSend, Finish
<1>4. ASSUME NEW k \in Clients, Connect(k)
      PROVE  /\ UNCHANGED frame /\ cpc[k] = "connecting"
             /\ \E s \in {"connected", "done"} : cpc' = [cpc EXCEPT ![k] = s]
             /\ UNCHANGED server \/ \E s : server' = [server EXCEPT ![k] = s]
  BY <1>4 DEF Connect, Finish
<1>5. CASE UNCHANGED vars
  BY <1>5 DEF vars
<1>6. QED
  BY <1>1, <1>2, <1>3, <1>4, <1>5, StepCases DEF TypeOK

(* No connection appears in flight but by connect. *)
LEMMA FlightEffect ==
    ASSUME TypeOK, [Next]_vars, NEW l \in Listeners, NEW c \in Clients, InFlight(l, c)'
    PROVE  InFlight(l, c) \/ cpc[c] = "connecting"
<1>0. queue[l] \in Seq(Clients) /\ None # c
  BY ProcessAssumption DEF TypeOK
<1>1. CASE conn'[l] \in {conn[l], None} /\ queue'[l] \in {queue[l], <<>>}
  BY <1>0, <1>1 DEF InFlight
<1>2. CASE Accept(l) /\ conn'[l] = Head(queue[l]) /\ queue'[l] = Tail(queue[l])
  <2>1. queue[l] # <<>>
    BY <1>2 DEF Accept
  <2>2. QED
    BY <1>0, <1>2, <2>1, TailElements DEF InFlight
<1>3. ASSUME NEW k \in Clients, cpc[k] = "connecting", queue'[l] = Append(queue[l], k),
             UNCHANGED conn
      PROVE  InFlight(l, c) \/ cpc[c] = "connecting"
  BY <1>0, <1>3, AppendElements DEF InFlight
<1>4. QED
  BY <1>1, <1>2, <1>3, FlowEffect

(* connect queues a connection that is not in flight; accept moves it. *)
LEMMA QueuedOnceStep ==
    ASSUME TypeOK, Streams, QueuedOnce, [Next]_vars PROVE QueuedOnce'
<1> SUFFICES ASSUME NEW l \in Listeners
             PROVE  /\ \A i, j \in DOMAIN queue'[l] : queue'[l][i] = queue'[l][j] => i = j
                    /\ \A i \in DOMAIN queue'[l] : queue'[l][i] # conn'[l]
  BY DEF QueuedOnce
<1>0. queue[l] \in Seq(Clients) /\ None \notin Clients /\ None \notin Listeners
  BY ProcessAssumption DEF TypeOK
<1>1. CASE conn'[l] \in {conn[l], None} /\ queue'[l] \in {queue[l], <<>>}
  <2>1. CASE queue'[l] = <<>>
    BY <2>1
  <2>2. CASE queue'[l] = queue[l]
    <3>1. \A i \in DOMAIN queue[l] : queue[l][i] \in Clients
      BY <1>0
    <3>2. QED
      BY <1>0, <1>1, <2>2, <3>1 DEF QueuedOnce
  <2>3. QED
    BY <1>1, <2>1, <2>2
<1>2. CASE Accept(l) /\ conn'[l] = Head(queue[l]) /\ queue'[l] = Tail(queue[l])
  <2>1. queue[l] # <<>>
    BY <1>2 DEF Accept
  <2>2. /\ Head(queue[l]) = queue[l][1] /\ 1 \in DOMAIN queue[l]
        /\ \A i \in DOMAIN Tail(queue[l]) :
             i \in Nat \ {0} /\ i + 1 \in DOMAIN queue[l] /\ Tail(queue[l])[i] = queue[l][i + 1]
    BY <1>0, <2>1
  <2>3. ASSUME NEW i \in DOMAIN queue'[l], NEW j \in DOMAIN queue'[l],
               queue'[l][i] = queue'[l][j]
        PROVE  i = j
    <3>1. i + 1 = j + 1
      BY <1>2, <2>2, <2>3 DEF QueuedOnce
    <3>2. QED
      BY <1>2, <2>2, <3>1
  <2>4. ASSUME NEW i \in DOMAIN queue'[l] PROVE queue'[l][i] # conn'[l]
    <3>1. i + 1 # 1 /\ i + 1 \in DOMAIN queue[l] /\ queue'[l][i] = queue[l][i + 1]
      BY <1>2, <2>2
    <3>2. QED
      BY <1>2, <2>2, <3>1 DEF QueuedOnce
  <2>5. QED
    BY <2>3, <2>4
<1>3. ASSUME NEW c \in Clients, cpc[c] = "connecting", queue'[l] = Append(queue[l], c),
             UNCHANGED conn
      PROVE  /\ \A i, j \in DOMAIN queue'[l] : queue'[l][i] = queue'[l][j] => i = j
             /\ \A i \in DOMAIN queue'[l] : queue'[l][i] # conn'[l]
  <2>1. /\ conn[l] # c
        /\ \A i \in DOMAIN queue[l] : queue[l][i] # c
    BY <1>0, <1>3 DEF Streams
  <2>2. /\ DOMAIN queue'[l] = 1 .. Len(queue[l]) + 1
        /\ DOMAIN queue[l] = 1 .. Len(queue[l]) /\ Len(queue[l]) \in Nat
        /\ \A i \in DOMAIN queue[l] : queue'[l][i] = queue[l][i]
        /\ queue'[l][Len(queue[l]) + 1] = c
    BY <1>0, <1>3
  <2>3. QED
    BY <1>3, <2>1, <2>2 DEF QueuedOnce
<1>4. QED
  BY <1>1, <1>2, <1>3, FlowEffect

(* A receipt or an end of file is put on a stream by the step that takes   *)
(* it out of flight.                                                       *)
LEMMA ReplyEffect ==
    ASSUME TypeOK, BusyHasConn, QueuedOnce, [Next]_vars,
           NEW c \in Clients, reply'[c] # reply[c]
    PROVE  \E l \in Listeners : InFlight(l, c) /\ ~InFlight(l, c)'
<1> USE ProcessAssumption, EndpointAssumption
<1>1. ASSUME NEW l \in Listeners, SetPermissions(l) \/ Close(l)
      PROVE  InFlight(l, c) /\ ~InFlight(l, c)'
  <2>1. Hangup(Waiting(l)) /\ queue' = [queue EXCEPT ![l] = <<>>] /\ UNCHANGED conn
    BY <1>1 DEF SetPermissions, Close
  <2>2. c \in Waiting(l)
    BY <2>1 DEF Hangup
  <2>3. PICK i \in DOMAIN queue[l] : queue[l][i] = c
    BY <2>2 DEF Waiting
  <2>4. conn'[l] # c /\ DOMAIN queue'[l] = {}
    BY <2>1, <2>3 DEF QueuedOnce, TypeOK
  <2>5. QED
    BY <2>3, <2>4 DEF InFlight
<1>2. ASSUME NEW l \in Listeners, ReadRequest(l) \/ Respond(l)
      PROVE  InFlight(l, c) /\ ~InFlight(l, c)'
  <2>1. conn[l] \in Clients
    BY <1>2 DEF TypeOK, BusyHasConn, Busy, ReadRequest, Respond
  <2>2. /\ UNCHANGED queue
        /\ reply' = reply \/ conn' = [conn EXCEPT ![l] = None]
        /\ reply' = reply \/ Hangup({conn[l]}) \/ \E r : reply' = [reply EXCEPT ![conn[l]] = r]
    BY <1>2 DEF ReadRequest, Respond
  <2>3. conn[l] = c
    BY <2>1, <2>2 DEF TypeOK, Hangup
  <2>4. conn'[l] = None
    BY <2>2 DEF TypeOK
  <2>5. \A i \in DOMAIN queue'[l] : queue'[l][i] # c
    BY <2>2, <2>3 DEF QueuedOnce
  <2>6. QED
    BY <2>3, <2>4, <2>5 DEF InFlight
<1>3. ASSUME NEW l \in Listeners, Kill(l)
      PROVE  InFlight(l, c) /\ ~InFlight(l, c)'
  <2>1. c \in Waiting(l) \cup {conn[l]}
    BY <1>3 DEF Kill, Hangup
  <2>2. conn'[l] = None /\ queue'[l] = <<>>
    BY <1>3 DEF Kill, TypeOK
  <2>3. QED
    BY <2>1, <2>2 DEF InFlight, Waiting
<1>4. ASSUME NEW l \in Listeners, BindCheck(l) \/ BindSocket(l) \/ Announce(l) \/ Accept(l)
                                  \/ Forward(l) \/ Unlink(l) \/ ConsumerLeaves(l)
      PROVE  FALSE
  BY <1>4 DEF BindCheck, BindSocket, Announce, Accept, Forward, Unlink, ConsumerLeaves, cvars
<1>5. ASSUME NEW k \in Clients, Click(k) \/ Connect(k) \/ WriteRequest(k) \/ ReadReceipt(k)
                                \/ Timeout(k) \/ Abandon(k) \/ PeerStart(k) \/ PeerSend(k)
      PROVE  FALSE
  BY <1>5 DEF Click, Connect, WriteRequest, ReadReceipt, Timeout, Abandon, PeerStart, PeerSend
<1>6. CASE UNCHANGED vars
  BY <1>6 DEF vars
<1>7. QED
  BY <1>1, <1>2, <1>3, <1>4, <1>5, <1>6, StepCases

(* A connection in flight is one of its server's. *)
LEMMA FlightServer ==
    ASSUME TypeOK, Streams, NEW l \in Listeners, NEW c \in Clients, InFlight(l, c)
    PROVE  server[c] = l
  BY ProcessAssumption DEF InFlight, Streams, TypeOK

(* A client that has a listener keeps it. *)
LEMMA ServerStays ==
    ASSUME TypeOK, Streams, [Next]_vars, NEW c \in Clients, server[c] # None
    PROVE  server'[c] = server[c]
  BY ClientEffect DEF Streams

(* Only a step that takes a stream out of flight writes to it. *)
LEMMA UnansweredStep ==
    ASSUME TypeOK, BusyHasConn, Streams, QueuedOnce, Unanswered, [Next]_vars
    PROVE  Unanswered'
<1> USE ProcessAssumption
<1>1. ASSUME NEW l \in Listeners, NEW c \in Clients, InFlight(l, c)' PROVE reply'[c] = "none"
  <2>1. CASE InFlight(l, c)
    <3>1. reply[c] = "none" /\ server[c] = l
      BY <2>1, FlightServer DEF Unanswered
    <3>2. \A m \in Listeners : InFlight(m, c) => m = l
      BY <3>1, FlightServer
    <3>3. QED
      BY <1>1, <3>1, <3>2, ReplyEffect
  <2>2. CASE cpc[c] = "connecting"
    <3>1. server[c] = None /\ reply[c] = "none"
      BY <2>2 DEF Streams, Unanswered
    <3>2. \A m \in Listeners : ~InFlight(m, c)
      BY <3>1, FlightServer
    <3>3. QED
      BY <3>1, <3>2, ReplyEffect
  <2>3. QED
    BY <1>1, <2>1, <2>2, FlightEffect
<1>2. ASSUME NEW c \in Clients, server'[c] = None PROVE reply'[c] = "none"
  <2>1. server[c] = None /\ reply[c] = "none"
    BY <1>2, ServerStays DEF Unanswered
  <2>2. \A m \in Listeners : ~InFlight(m, c)
    BY <2>1, FlightServer
  <2>3. QED
    BY <2>1, <2>2, ReplyEffect
<1>3. QED
  BY <1>1, <1>2 DEF Unanswered

-----------------------------------------------------------------------------
(* Lines are written by two steps only. *)
LEMMA OutputEffect ==
    ASSUME TypeOK, BusyHasConn, [Next]_vars
    PROVE  \/ UNCHANGED stdout
           \/ \E l \in Listeners : /\ Announce(l) /\ lpc[l] = "announcing"
                                   /\ stdout' = [stdout EXCEPT ![l] = Append(@, Ready)]
                                   /\ lpc' = [lpc EXCEPT ![l] = "accepting"]
           \/ \E l \in Listeners : /\ Forward(l) /\ lpc[l] = "forwarding" /\ conn[l] \in Clients
                                   /\ stdout' = [stdout EXCEPT ![l] = Append(@, conn[l])]
                                   /\ lpc' = [lpc EXCEPT ![l] = "respondForwarded"]
<1>1. ASSUME NEW l \in Listeners, Announce(l)
      PROVE  \/ UNCHANGED stdout
             \/ /\ lpc[l] = "announcing"
                /\ stdout' = [stdout EXCEPT ![l] = Append(@, Ready)]
                /\ lpc' = [lpc EXCEPT ![l] = "accepting"]
  BY <1>1 DEF Announce, Goto
<1>2. ASSUME NEW l \in Listeners, Forward(l)
      PROVE  \/ UNCHANGED stdout
             \/ /\ lpc[l] = "forwarding" /\ conn[l] \in Clients
                /\ stdout' = [stdout EXCEPT ![l] = Append(@, conn[l])]
                /\ lpc' = [lpc EXCEPT ![l] = "respondForwarded"]
  BY <1>2 DEF Forward, Goto, BusyHasConn, Busy, TypeOK
<1>3. ASSUME NEW m \in Listeners,
               BindCheck(m) \/ BindSocket(m) \/ SetPermissions(m) \/ Accept(m)
               \/ ReadRequest(m) \/ Respond(m) \/ Unlink(m) \/ Close(m)
               \/ Kill(m) \/ ConsumerLeaves(m)
      PROVE  UNCHANGED stdout
  BY <1>3 DEF BindCheck, BindSocket, SetPermissions, Accept, ReadRequest,
     Respond, Unlink, Close, Kill, ConsumerLeaves
<1>4. ASSUME NEW k \in Clients, Click(k) \/ Connect(k) \/ WriteRequest(k) \/ ReadReceipt(k)
                                \/ Timeout(k) \/ Abandon(k) \/ PeerStart(k) \/ PeerSend(k)
      PROVE  UNCHANGED stdout
  BY <1>4 DEF Click, Connect, WriteRequest, ReadReceipt, Timeout, Abandon, PeerStart, PeerSend,
     lvars
<1>5. CASE UNCHANGED vars
  BY <1>5 DEF vars
<1>6. QED
  BY <1>1, <1>2, <1>3, <1>4, <1>5, StepCases

(* A client's line appears by the step that forwards its connection. *)
LEMMA PrintedEffect ==
    ASSUME TypeOK, BusyHasConn, [Next]_vars, NEW l \in Listeners, NEW c \in Clients,
           Printed(l, c)', ~Printed(l, c)
    PROVE  /\ Forward(l) /\ lpc[l] = "forwarding" /\ conn[l] = c
           /\ lpc'[l] = "respondForwarded" /\ UNCHANGED <<conn, frame, server>>
<1>0. stdout[l] \in Seq(Clients \cup {Ready}) /\ c # Ready
  BY ProcessAssumption DEF TypeOK
<1>1. PICK i \in DOMAIN stdout'[l] : stdout'[l][i] = c
  BY DEF Printed
<1>2. stdout'[l] # stdout[l]
  BY DEF Printed
<1>3. ASSUME NEW x \in Clients \cup {Ready}, stdout'[l] = Append(stdout[l], x) PROVE x = c
  BY <1>0, <1>1, <1>3, AppendElements DEF Printed
<1>4. ASSUME NEW m \in Listeners, NEW x \in Clients \cup {Ready},
             stdout' = [stdout EXCEPT ![m] = Append(@, x)]
      PROVE  m = l /\ x = c
  BY <1>2, <1>3, <1>4 DEF TypeOK
<1>5. /\ Forward(l) /\ lpc[l] = "forwarding" /\ conn[l] = c
      /\ lpc' = [lpc EXCEPT ![l] = "respondForwarded"]
  BY <1>0, <1>2, <1>4, OutputEffect
<1>6. QED
  BY <1>5 DEF Forward, cvars, TypeOK

(* The answer to a forwarded intent keeps its listener busy until it is    *)
(* sent or the listener is killed.                                         *)
LEMMA AnsweringStep ==
    ASSUME TypeOK, QueuedOnce, [Next]_vars, NEW l \in Listeners, NEW c \in Clients,
           conn[l] = c, lpc[l] = "respondForwarded"
    PROVE  (conn'[l] = c /\ lpc'[l] = "respondForwarded") \/ ~InFlight(l, c)'
<1> USE ProcessAssumption, EndpointAssumption
<1>1. ASSUME Respond(l) \/ Kill(l) PROVE ~InFlight(l, c)'
  <2>1. conn'[l] = None /\ queue'[l] \in {queue[l], <<>>}
    BY <1>1 DEF Respond, Kill, TypeOK
  <2>2. QED
    BY <2>1 DEF InFlight, QueuedOnce
<1>2. ASSUME NEW m \in Listeners, m # l,
                \/ BindCheck(m) \/ BindSocket(m) \/ SetPermissions(m) \/ Announce(m) \/ Accept(m)
                \/ ReadRequest(m) \/ Forward(m) \/ Respond(m) \/ Unlink(m) \/ Close(m)
                \/ Kill(m) \/ ConsumerLeaves(m)
      PROVE  conn'[l] = conn[l] /\ lpc'[l] = lpc[l]
  BY <1>2 DEF TypeOK, BindCheck, BindSocket, SetPermissions, Announce, Accept, ReadRequest,
     Forward, Respond, Unlink, Close, Kill, ConsumerLeaves, Goto
<1>6. ASSUME \/ BindCheck(l) \/ BindSocket(l) \/ SetPermissions(l) \/ Announce(l) \/ Accept(l)
             \/ ReadRequest(l) \/ Forward(l) \/ Unlink(l) \/ Close(l) \/ ConsumerLeaves(l)
      PROVE  UNCHANGED <<lpc, conn>>
  BY <1>6 DEF BindCheck, BindSocket, SetPermissions, Announce, Accept, ReadRequest,
     Forward, Unlink, Close, ConsumerLeaves
<1>3. ASSUME NEW k \in Clients, Click(k) \/ Connect(k) \/ WriteRequest(k) \/ ReadReceipt(k)
                                \/ Timeout(k) \/ Abandon(k) \/ PeerStart(k) \/ PeerSend(k)
      PROVE  UNCHANGED <<lpc, conn>>
  BY <1>3 DEF Click, Connect, WriteRequest, ReadReceipt, Timeout, Abandon, PeerStart, PeerSend,
     lvars
<1>4. CASE UNCHANGED vars
  BY <1>4 DEF vars
<1>5. QED
  BY <1>1, <1>2, <1>3, <1>4, <1>6, StepCases

(* A printed connection is answered, then it is out of flight for good. *)
LEMMA PrintedLeavesStep ==
    ASSUME TypeOK, BusyHasConn, Streams, QueuedOnce, Checked, PrintedLeaves, [Next]_vars
    PROVE  PrintedLeaves'
<1> SUFFICES ASSUME NEW l \in Listeners, NEW c \in Clients, InFlight(l, c)', Printed(l, c)'
             PROVE  conn'[l] = c /\ lpc'[l] = "respondForwarded"
  BY DEF PrintedLeaves, InFlight, Printed
<1>1. CASE ~Printed(l, c)
  BY <1>1, PrintedEffect
<1>2. CASE Printed(l, c)
  <2>1. server[c] = l /\ l # None
    BY <1>2, ProcessAssumption DEF Checked
  <2>2. InFlight(l, c)
    BY <2>1, FlightEffect DEF Streams
  <2>3. conn[l] = c /\ lpc[l] = "respondForwarded"
    BY <1>2, <2>2 DEF PrintedLeaves
  <2>4. QED
    BY <2>3, AnsweringStep
<1>3. QED
  BY <1>1, <1>2

(* accept decides to forward after the checks, and only its own            *)
(* connection.                                                             *)
LEMMA ForwardingEffect ==
    ASSUME TypeOK, [Next]_vars, NEW l \in Listeners, lpc'[l] = "forwarding"
    PROVE  /\ conn'[l] = conn[l]
           /\ \/ lpc[l] = "forwarding"
              \/ lpc[l] = "reading" /\ Acceptable(l, frame[conn[l]]) /\ UNCHANGED frame
<1> USE ProcessAssumption, EndpointAssumption
<1>1. ASSUME ReadRequest(l)
      PROVE  UNCHANGED <<conn, frame>> /\ lpc[l] = "reading" /\ Acceptable(l, frame[conn[l]])
  <2>1. CASE Acceptable(l, frame[conn[l]])
    BY <1>1, <2>1 DEF ReadRequest
  <2>2. CASE ~Acceptable(l, frame[conn[l]])
    BY <1>1, <2>2 DEF TypeOK, ReadRequest, Goto
  <2>3. QED
    BY <2>1, <2>2
<1>2. ASSUME \/ BindCheck(l) \/ BindSocket(l) \/ SetPermissions(l) \/ Announce(l) \/ Accept(l)
             \/ Forward(l) \/ Respond(l) \/ Unlink(l) \/ Close(l) \/ Kill(l)
      PROVE  FALSE
  BY <1>2 DEF TypeOK, BindCheck, BindSocket, SetPermissions, Announce, Accept, Forward, Respond,
     Unlink, Close, Kill, Goto
<1>3. ASSUME NEW m \in Listeners, m # l,
                \/ BindCheck(m) \/ BindSocket(m) \/ SetPermissions(m) \/ Announce(m) \/ Accept(m)
                \/ ReadRequest(m) \/ Forward(m) \/ Respond(m) \/ Unlink(m) \/ Close(m)
                \/ Kill(m)
      PROVE  conn'[l] = conn[l] /\ lpc'[l] = lpc[l]
  BY <1>3 DEF TypeOK, BindCheck, BindSocket, SetPermissions, Announce, Accept, ReadRequest,
     Forward, Respond, Unlink, Close, Kill, Goto
<1>4. ASSUME NEW m \in Listeners, ConsumerLeaves(m) PROVE UNCHANGED <<lpc, conn>>
  BY <1>4 DEF ConsumerLeaves
<1>5. ASSUME NEW k \in Clients, Click(k) \/ Connect(k) \/ WriteRequest(k) \/ ReadReceipt(k)
                                \/ Timeout(k) \/ Abandon(k) \/ PeerStart(k) \/ PeerSend(k)
      PROVE  UNCHANGED <<lpc, conn>>
  BY <1>5 DEF Click, Connect, WriteRequest, ReadReceipt, Timeout, Abandon, PeerStart, PeerSend,
     lvars
<1>6. CASE UNCHANGED vars
  BY <1>6 DEF vars
<1>7. QED
  BY <1>1, <1>2, <1>3, <1>4, <1>5, <1>6, StepCases

(* A frame that was accepted does not change any more. *)
LEMMA AcceptedStays ==
    ASSUME TypeOK, Checked, [Next]_vars, NEW l \in Listeners, NEW c \in Clients,
           Acceptable(l, frame[c])
    PROVE  frame'[c] = frame[c]
<1>1. frame[c] # NoFrame
  BY FrameAssumption DEF Acceptable
<1>2. cpc[c] \in {"sent", "done"}
  BY <1>1 DEF Checked
<1>3. QED
  BY <1>2, ClientEffect

(* Checked frames stay what they were. *)
LEMMA CheckedStep ==
    ASSUME TypeOK, BusyHasConn, Streams, Checked, [Next]_vars
    PROVE  Checked'
<1> USE ProcessAssumption
<1>1. ASSUME NEW c \in Clients, frame'[c] # NoFrame PROVE cpc'[c] \in {"sent", "done"}
  BY <1>1, ClientEffect DEF Checked
<1>2. ASSUME NEW l \in Listeners, lpc'[l] = "forwarding" PROVE Acceptable(l, frame'[conn'[l]])
  <2>1. conn[l] \in Clients
    BY <1>2, ForwardingEffect DEF TypeOK, BusyHasConn, Busy
  <2>2. Acceptable(l, frame[conn[l]])
    BY <1>2, ForwardingEffect DEF Checked
  <2>3. frame'[conn[l]] = frame[conn[l]]
    BY <2>1, <2>2, AcceptedStays
  <2>4. QED
    BY <1>2, <2>2, <2>3, ForwardingEffect
<1>3. ASSUME NEW l \in Listeners, NEW c \in Clients, Printed(l, c)'
      PROVE  server'[c] = l /\ Acceptable(l, frame'[c])
  <2>1. CASE Printed(l, c)
    <3>1. server[c] = l /\ l # None /\ Acceptable(l, frame[c])
      BY <2>1 DEF Checked
    <3>2. QED
      BY <3>1, ServerStays, AcceptedStays
  <2>2. CASE ~Printed(l, c)
    <3>1. lpc[l] = "forwarding" /\ conn[l] = c /\ UNCHANGED <<frame, server>>
      BY <1>3, <2>2, PrintedEffect
    <3>2. server[c] = l /\ Acceptable(l, frame[c])
      BY <3>1 DEF Checked, Streams
    <3>3. QED
      BY <3>1, <3>2
  <2>3. QED
    BY <2>1, <2>2
<1>4. QED
  BY <1>1, <1>2, <1>3 DEF Checked, Acceptable, Printed

Starting == {"idle", "checked", "bound", "announcing"}

(* How a listener's program counter and its lines move together. *)
LEMMA ProgressEffect ==
    ASSUME TypeOK, BusyHasConn, [Next]_vars, NEW l \in Listeners
    PROVE  \/ /\ lpc[l] = "announcing" /\ lpc'[l] = "accepting"
              /\ stdout'[l] = Append(stdout[l], Ready)
           \/ /\ lpc[l] = "forwarding" /\ lpc'[l] = "respondForwarded" /\ conn[l] \in Clients
              /\ stdout'[l] = Append(stdout[l], conn[l])
           \/ /\ stdout'[l] = stdout[l]
              /\ lpc'[l] \in Starting => lpc[l] \in Starting
              /\ lpc'[l] \in {"accepting"} \cup Busy => lpc[l] \in {"accepting"} \cup Busy
              /\ l \in Once /\ lpc'[l] \in {"accepting", "reading", "forwarding"}
                   => lpc[l] \in {"accepting", "reading", "forwarding"}
<1> USE ProcessAssumption, EndpointAssumption
<1>1. ASSUME Announce(l)
      PROVE  \/ /\ lpc[l] = "announcing" /\ lpc'[l] = "accepting"
                /\ stdout'[l] = Append(stdout[l], Ready)
             \/ stdout'[l] = stdout[l] /\ lpc'[l] = "dropping"
  BY <1>1 DEF TypeOK, Announce, Goto
<1>2. ASSUME Forward(l)
      PROVE  /\ lpc[l] = "forwarding" /\ conn[l] \in Clients
             /\ \/ lpc'[l] = "respondForwarded" /\ stdout'[l] = Append(stdout[l], conn[l])
                \/ lpc'[l] = "respondRejected" /\ stdout'[l] = stdout[l]
  BY <1>2 DEF TypeOK, Forward, Goto, BusyHasConn, Busy
<1>3. ASSUME BindCheck(l) \/ BindSocket(l) \/ SetPermissions(l) \/ Unlink(l) \/ Close(l) \/ Kill(l)
      PROVE  /\ stdout'[l] = stdout[l]
             /\ lpc'[l] \in Starting => lpc[l] \in Starting
             /\ lpc'[l] \notin {"accepting"} \cup Busy
  BY <1>3 DEF TypeOK, BindCheck, BindSocket, SetPermissions, Unlink, Close, Kill, Goto, Starting,
     Busy
<1>4. ASSUME Accept(l) \/ ReadRequest(l)
      PROVE  /\ stdout'[l] = stdout[l] /\ lpc[l] \in {"accepting", "reading"}
             /\ lpc'[l] \in {"accepting", "reading", "forwarding"}
  BY <1>4 DEF TypeOK, Accept, ReadRequest, Goto
<1>5. ASSUME Respond(l)
      PROVE  /\ stdout'[l] = stdout[l] /\ lpc[l] \in Busy
             /\ lpc'[l] \in {"accepting", "dropping"} /\ (l \in Once => lpc'[l] = "dropping")
  BY <1>5 DEF TypeOK, Respond, Goto, Busy
<1>6. ASSUME NEW m \in Listeners, m # l,
                \/ BindCheck(m) \/ BindSocket(m) \/ SetPermissions(m) \/ Announce(m) \/ Accept(m)
                \/ ReadRequest(m) \/ Forward(m) \/ Respond(m) \/ Unlink(m) \/ Close(m)
                \/ Kill(m)
      PROVE  stdout'[l] = stdout[l] /\ lpc'[l] = lpc[l]
  BY <1>6 DEF TypeOK, BindCheck, BindSocket, SetPermissions, Announce, Accept, ReadRequest,
     Forward, Respond, Unlink, Close, Kill, Goto
<1>7. ASSUME NEW m \in Listeners, ConsumerLeaves(m) PROVE UNCHANGED <<lpc, stdout>>
  BY <1>7 DEF ConsumerLeaves
<1>8. ASSUME NEW k \in Clients, Click(k) \/ Connect(k) \/ WriteRequest(k) \/ ReadReceipt(k)
                                \/ Timeout(k) \/ Abandon(k) \/ PeerStart(k) \/ PeerSend(k)
      PROVE  UNCHANGED <<lpc, stdout>>
  BY <1>8 DEF Click, Connect, WriteRequest, ReadReceipt, Timeout, Abandon, PeerStart, PeerSend,
     lvars
<1>9. CASE UNCHANGED vars
  BY <1>9 DEF vars
<1>10. QED
  BY <1>1, <1>2, <1>3, <1>4, <1>5, <1>6, <1>7, <1>8, <1>9, StepCases DEF Starting, Busy

(* The first line is the ready line, a new line is a client that has none. *)
LEMMA LinesStep ==
    ASSUME TypeOK, BusyHasConn, PrintedLeaves, Lines, [Next]_vars
    PROVE  Lines'
<1> USE ProcessAssumption
<1> SUFFICES ASSUME NEW l \in Listeners
             PROVE  /\ \A i \in DOMAIN stdout'[l] : stdout'[l][i] = Ready <=> i = 1
                    /\ \A i, j \in DOMAIN stdout'[l] : stdout'[l][i] = stdout'[l][j] => i = j
                    /\ lpc'[l] \in Starting => stdout'[l] = <<>>
                    /\ lpc'[l] \in {"accepting"} \cup Busy => stdout'[l] # <<>>
                    /\ l \in Once =>
                         /\ Len(stdout'[l]) <= 2
                         /\ lpc'[l] \in {"accepting", "reading", "forwarding"}
                              => Len(stdout'[l]) <= 1
  BY DEF Lines, Starting
<1>0. stdout[l] \in Seq(Clients \cup {Ready})
  BY DEF TypeOK
<1>1. CASE /\ lpc[l] = "announcing" /\ lpc'[l] = "accepting"
           /\ stdout'[l] = Append(stdout[l], Ready)
  <2>1. stdout[l] = <<>>
    BY <1>1 DEF Lines
  <2>2. stdout'[l] = <<Ready>>
    BY <1>1, <2>1
  <2>3. QED
    BY <1>1, <2>2 DEF Starting
<1>2. CASE /\ lpc[l] = "forwarding" /\ lpc'[l] = "respondForwarded" /\ conn[l] \in Clients
           /\ stdout'[l] = Append(stdout[l], conn[l])
  <2>1. ~Printed(l, conn[l])
    BY <1>2 DEF PrintedLeaves, InFlight
  <2>2. \A i \in DOMAIN stdout[l] : stdout[l][i] # conn[l]
    BY <2>1 DEF Printed
  <2>3. stdout[l] # <<>> /\ conn[l] # Ready
    BY <1>2 DEF Lines, Busy
  <2>4. /\ Len(stdout[l]) \in Nat \ {0} /\ DOMAIN stdout[l] = 1 .. Len(stdout[l])
        /\ DOMAIN stdout'[l] = 1 .. Len(stdout[l]) + 1 /\ Len(stdout'[l]) = Len(stdout[l]) + 1
        /\ \A i \in DOMAIN stdout[l] : stdout'[l][i] = stdout[l][i]
        /\ stdout'[l][Len(stdout[l]) + 1] = conn[l]
    BY <1>0, <1>2, <2>3
  <2>5. ASSUME NEW i \in DOMAIN stdout'[l]
        PROVE  stdout'[l][i] = Ready <=> i = 1
    BY <2>3, <2>4 DEF Lines
  <2>6. ASSUME NEW i \in DOMAIN stdout'[l], NEW j \in DOMAIN stdout'[l],
               stdout'[l][i] = stdout'[l][j]
        PROVE  i = j
    BY <2>2, <2>4, <2>6 DEF Lines
  <2>7. l \in Once => Len(stdout[l]) <= 1
    BY <1>2 DEF Lines
  <2>8. stdout'[l] # <<>>
    BY <2>4
  <2>9. QED
    BY <1>2, <2>4, <2>5, <2>6, <2>7, <2>8 DEF Starting
<1>3. CASE /\ stdout'[l] = stdout[l]
           /\ lpc'[l] \in Starting => lpc[l] \in Starting
           /\ lpc'[l] \in {"accepting"} \cup Busy => lpc[l] \in {"accepting"} \cup Busy
           /\ l \in Once /\ lpc'[l] \in {"accepting", "reading", "forwarding"}
                => lpc[l] \in {"accepting", "reading", "forwarding"}
  BY <1>3 DEF Lines, Starting
<1>4. QED
  BY <1>1, <1>2, <1>3, ProgressEffect

(* Every consumer reads the ready line and then each intent once: the      *)
(* invariant of the whole path from connect to stdout.                     *)
THEOREM ConsumerStreamCorrect == Spec => []ConsumerStream
<1> DEFINE Inv == Streams /\ QueuedOnce /\ PrintedLeaves /\ Checked /\ Lines
<1>1. Init => Inv
  <2> SUFFICES ASSUME Init PROVE Inv
    OBVIOUS
  <2>1. Streams /\ QueuedOnce /\ PrintedLeaves /\ Checked
    BY ProcessAssumption
    DEF Init, Streams, QueuedOnce, PrintedLeaves, Checked, Printed, InFlight
  <2>2. Lines
    BY DEF Init, Lines, Busy
  <2>3. QED
    BY <2>1, <2>2
<1>2. TypeOK /\ BusyHasConn /\ Inv /\ [Next]_vars => Inv'
  BY StreamsStep, QueuedOnceStep, PrintedLeavesStep, CheckedStep, LinesStep
<1>3. TypeOK /\ Inv => ConsumerStream
  <2> SUFFICES ASSUME TypeOK, Inv, NEW l \in Listeners, NEW i \in DOMAIN stdout[l]
               PROVE  /\ (stdout[l][i] = Ready) <=> (i = 1)
                      /\ l \in Once => i <= 2
                      /\ i > 1 =>
                          /\ frame[stdout[l][i]] =
                                 [endpoint |-> ListenEndpoint[l], path |-> "decodes"]
                          /\ \A m \in Listeners : \A j \in DOMAIN stdout[m] :
                                 stdout[m][j] = stdout[l][i] => <<m, j>> = <<l, i>>
    BY DEF ConsumerStream
  <2>0. stdout[l] \in Seq(Clients \cup {Ready}) /\ DOMAIN stdout[l] = 1 .. Len(stdout[l])
        /\ Len(stdout[l]) \in Nat /\ stdout[l][i] \in Clients \cup {Ready}
    BY DEF TypeOK
  <2>1. (stdout[l][i] = Ready) <=> (i = 1)
    BY DEF Lines
  <2>2. l \in Once => i <= 2
    BY <2>0 DEF Lines
  <2>3. ASSUME i > 1
        PROVE  /\ frame[stdout[l][i]] = [endpoint |-> ListenEndpoint[l], path |-> "decodes"]
               /\ \A m \in Listeners : \A j \in DOMAIN stdout[m] :
                      stdout[m][j] = stdout[l][i] => <<m, j>> = <<l, i>>
    <3>1. stdout[l][i] \in Clients /\ Printed(l, stdout[l][i])
      BY <2>0, <2>1, <2>3 DEF Printed
    <3>2. server[stdout[l][i]] = l /\ Acceptable(l, frame[stdout[l][i]])
      BY <3>1 DEF Checked
    <3>3. frame[stdout[l][i]] = [endpoint |-> ListenEndpoint[l], path |-> "decodes"]
      BY <3>2 DEF Acceptable, Requests
    <3>4. ASSUME NEW m \in Listeners, NEW j \in DOMAIN stdout[m], stdout[m][j] = stdout[l][i]
          PROVE  m = l /\ j = i
      <4>1. Printed(m, stdout[l][i])
        BY <3>4 DEF Printed
      <4>2. m = l
        BY <3>1, <3>2, <4>1 DEF Checked
      <4>3. QED
        BY <3>4, <4>2 DEF Lines
    <3>5. QED
      BY <3>3, <3>4
  <2>4. QED
    BY <2>1, <2>2, <2>3
<1>4. QED
  BY <1>1, <1>2, <1>3, TypeCorrect, PTL DEF Spec

-----------------------------------------------------------------------------
(* Why a listener stops.                                                   *)

(* A handoff fails only because the consumer is gone. *)
RejectedByConsumer == \A l \in Listeners : lpc[l] = "respondRejected" => ~consumer[l]

Leaving == {"dropping", "unlinked", "exited"}

(* A consumer that has gone does not come back, and the loop is left by    *)
(* these steps only.                                                       *)
LEMMA LeavingEffect ==
    ASSUME TypeOK, [Next]_vars, NEW l \in Listeners
    PROVE  /\ ~consumer[l] => ~consumer'[l]
           /\ lpc'[l] = "respondRejected" => lpc[l] = "respondRejected" \/ ~consumer[l]
           /\ lpc'[l] \in Leaving =>
                lpc[l] \in Leaving \/ ~consumer[l] \/ (Respond(l) /\ lpc'[l] = "dropping")
<1> USE ProcessAssumption, EndpointAssumption
<1>1. ASSUME NEW m \in Listeners, ConsumerLeaves(m)
      PROVE  UNCHANGED lpc /\ (~consumer[l] => ~consumer'[l])
  BY <1>1 DEF TypeOK, ConsumerLeaves
<1>2. ASSUME NEW m \in Listeners, m # l,
                \/ BindCheck(m) \/ BindSocket(m) \/ SetPermissions(m) \/ Announce(m) \/ Accept(m)
                \/ ReadRequest(m) \/ Forward(m) \/ Respond(m) \/ Unlink(m) \/ Close(m)
                \/ Kill(m)
      PROVE  UNCHANGED consumer /\ lpc'[l] = lpc[l]
  BY <1>2 DEF TypeOK, BindCheck, BindSocket, SetPermissions, Announce, Accept, ReadRequest,
     Forward, Respond, Unlink, Close, Kill, Goto
<1>3. ASSUME \/ BindCheck(l) \/ BindSocket(l) \/ SetPermissions(l) \/ Accept(l)
             \/ ReadRequest(l) \/ Kill(l)
      PROVE  UNCHANGED consumer /\ lpc'[l] \notin Leaving \cup {"respondRejected"}
  BY <1>3 DEF TypeOK, BindCheck, BindSocket, SetPermissions, Accept, ReadRequest, Kill, Goto,
     Leaving
<1>4. ASSUME Unlink(l) \/ Close(l)
      PROVE  UNCHANGED consumer /\ lpc[l] \in Leaving /\ lpc'[l] # "respondRejected"
  BY <1>4 DEF TypeOK, Unlink, Close, Goto, Leaving
<1>5. ASSUME Announce(l)
      PROVE  UNCHANGED consumer /\ lpc'[l] # "respondRejected"
             /\ (lpc'[l] \in Leaving => ~consumer[l])
  BY <1>5 DEF TypeOK, Announce, Goto, Leaving
<1>6. ASSUME Forward(l)
      PROVE  UNCHANGED consumer /\ lpc'[l] \notin Leaving
             /\ (lpc'[l] = "respondRejected" => ~consumer[l])
  BY <1>6 DEF TypeOK, Forward, Goto, Leaving
<1>7. ASSUME Respond(l)
      PROVE  UNCHANGED consumer /\ lpc'[l] \in {"accepting", "dropping"}
  BY <1>7 DEF TypeOK, Respond, Goto
<1>8. ASSUME NEW k \in Clients, Click(k) \/ Connect(k) \/ WriteRequest(k) \/ ReadReceipt(k)
                                \/ Timeout(k) \/ Abandon(k) \/ PeerStart(k) \/ PeerSend(k)
      PROVE  UNCHANGED <<lpc, consumer>>
  BY <1>8 DEF Click, Connect, WriteRequest, ReadReceipt, Timeout, Abandon, PeerStart, PeerSend,
     lvars
<1>9. CASE UNCHANGED vars
  BY <1>9 DEF vars
<1>10. QED
  BY <1>1, <1>2, <1>3, <1>4, <1>5, <1>6, <1>7, <1>8, <1>9, StepCases DEF Leaving

(* An end of file is never followed by a receipt. *)
LEMMA EofStays ==
    ASSUME TypeOK, BusyHasConn, QueuedOnce, Unanswered, [Next]_vars,
           NEW c \in Clients, reply[c] # "none"
    PROVE  reply'[c] = reply[c]
  BY ReplyEffect DEF Unanswered

(* The reason for leaving the loop does not go away. *)
LEMMA ServesStep ==
    ASSUME TypeOK, BusyHasConn, Streams, Receipts, QueuedOnce, Unanswered,
           RejectedByConsumer, ServesUntilSomeoneLeaves, [Next]_vars
    PROVE  ServesUntilSomeoneLeaves'
<1> USE ProcessAssumption
<1> DEFINE Cause(l, c) == server[c] = l /\ cpc[c] = "done" /\ reply[c] = "eof" /\ Printed(l, c)
<1> SUFFICES ASSUME NEW l \in Listeners \ Once, lpc'[l] \in Leaving, consumer'[l]
             PROVE  \E c \in Clients : Cause(l, c)'
  BY DEF ServesUntilSomeoneLeaves, Leaving, Printed
<1>0. consumer[l]
  BY LeavingEffect
<1>1. CASE lpc[l] \in Leaving
  <2>1. PICK c \in Clients : Cause(l, c)
    BY <1>0, <1>1 DEF ServesUntilSomeoneLeaves, Leaving, Printed
  <2>2. server'[c] = l /\ cpc'[c] = "done" /\ reply'[c] = "eof"
    BY <2>1, ServerStays, ClientEffect, EofStays
  <2>3. Printed(l, c)'
    BY <2>1, PrintedStays
  <2>4. QED
    BY <2>2, <2>3
<1>2. CASE Respond(l) /\ lpc'[l] = "dropping"
  <2>1. lpc[l] = "respondForwarded" /\ conn[l] \in Clients
    BY <1>0, <1>2 DEF Respond, RejectedByConsumer, BusyHasConn, Busy, TypeOK
  <2>2. cpc[conn[l]] = "done"
    BY <1>2, <2>1 DEF Respond, Goto, TypeOK
  <2>3. Hangup({conn[l]}) /\ UNCHANGED <<cpc, server, stdout>>
    BY <1>2, <2>2 DEF Respond
  <2>4. reply[conn[l]] = "none" /\ server[conn[l]] = l /\ Printed(l, conn[l])
    BY <2>1 DEF Unanswered, InFlight, Streams, Receipts
  <2>5. reply'[conn[l]] = "eof"
    BY <2>1, <2>3, <2>4 DEF Hangup
  <2>7. PICK c \in Clients : c = conn[l]
    BY <2>1
  <2>8. Printed(l, c)'
    BY <2>3, <2>4, <2>7 DEF Printed
  <2>9. QED
    BY <2>2, <2>3, <2>4, <2>5, <2>7, <2>8
<1>3. QED
  BY <1>0, <1>1, <1>2, LeavingEffect

(* No client can stop a listener for the others: without --once it leaves  *)
(* its loop only when its consumer, or the client it was answering, left.  *)
THEOREM ListenerKeepsServing == Spec => []ServesUntilSomeoneLeaves
<1> DEFINE Inv == /\ Streams /\ Receipts /\ QueuedOnce /\ Unanswered /\ RejectedByConsumer
                  /\ ServesUntilSomeoneLeaves
<1>1. Init => Inv
  BY ProcessAssumption
  DEF Init, Streams, Receipts, QueuedOnce, Unanswered, RejectedByConsumer,
      ServesUntilSomeoneLeaves, InFlight
<1>2. TypeOK /\ BusyHasConn /\ Inv /\ [Next]_vars => Inv'
  <2>1. TypeOK /\ RejectedByConsumer /\ [Next]_vars => RejectedByConsumer'
    BY LeavingEffect DEF RejectedByConsumer
  <2>2. QED
    BY <2>1, StreamsStep, ReceiptsStep, QueuedOnceStep, UnansweredStep, ServesStep
<1>3. QED
  BY <1>1, <1>2, TypeCorrect, PTL DEF Spec

-----------------------------------------------------------------------------
(* The transport implements CallbackPromise.                               *)

(* A dispatch is told once, and `rejected` means that no line was printed. *)
ToldOnce ==
    /\ \A c \in Clients : cpc[c] # "done" => result[c] = "pending"
    /\ \A c \in Clients : result[c] = "rejected" => reply[c] = "rejected"
    /\ \A c \in Clients : reply[c] = "rejected" => \A l \in Listeners : ~Printed(l, c)

(* A result is written by the step that ends its process. *)
LEMMA ResultEffect ==
    ASSUME TypeOK, [Next]_vars
    PROVE  \/ UNCHANGED result
           \/ \E c \in Clients : /\ cpc[c] # "done" /\ UNCHANGED <<stdout, reply>>
                                 /\ \E r \in {"failed", reply[c]} \ {"none", "eof"} :
                                        /\ result' = [result EXCEPT ![c] = r]
                                        /\ cpc' = [cpc EXCEPT ![c] = "done"]
<1>1. ASSUME NEW m \in Listeners,
               BindCheck(m) \/ BindSocket(m) \/ SetPermissions(m) \/ Announce(m) \/ Accept(m)
               \/ ReadRequest(m) \/ Forward(m) \/ Respond(m) \/ Unlink(m) \/ Close(m)
               \/ Kill(m) \/ ConsumerLeaves(m)
      PROVE  UNCHANGED result
  BY <1>1 DEF BindCheck, BindSocket, SetPermissions, Announce, Accept, ReadRequest, Forward,
     Respond, Unlink, Close, Kill, ConsumerLeaves, cvars
<1>2. ASSUME NEW k \in Clients, Click(k) \/ Connect(k) \/ WriteRequest(k) \/ Timeout(k)
                                \/ Abandon(k) \/ PeerStart(k) \/ PeerSend(k)
      PROVE  \/ UNCHANGED result
             \/ cpc[k] # "done" /\ Finish(k, "failed") /\ UNCHANGED <<stdout, reply>>
  BY <1>2 DEF Click, Connect, WriteRequest, Timeout, Abandon, PeerStart, PeerSend, lvars
<1>3. ASSUME NEW k \in Clients, ReadReceipt(k)
      PROVE  /\ cpc[k] # "done" /\ UNCHANGED <<stdout, reply>>
             /\ \E r \in {"failed", reply[k]} \ {"none", "eof"} : Finish(k, r)
  BY <1>3 DEF ReadReceipt, lvars
<1>4. CASE UNCHANGED vars
  BY <1>4 DEF vars
<1>5. QED
  BY <1>1, <1>2, <1>3, <1>4, StepCases DEF Finish

(* A client is rejected while its connection is in flight, unprinted. *)
LEMMA RejectedEffect ==
    ASSUME TypeOK, BusyHasConn, PrintedLeaves, [Next]_vars, NEW c \in Clients,
           reply'[c] = "rejected", reply[c] # "rejected"
    PROVE  /\ UNCHANGED stdout
           /\ \E l \in Listeners : conn[l] = c /\ ~Printed(l, c)
<1> USE ProcessAssumption, EndpointAssumption
<1>1. ASSUME NEW l \in Listeners, ReadRequest(l)
      PROVE  UNCHANGED stdout /\ conn[l] = c /\ ~Printed(l, c)
  <2>1. conn[l] = c /\ lpc[l] = "reading"
    BY <1>1, HangupType DEF TypeOK, ReadRequest
  <2>2. QED
    BY <1>1, <2>1 DEF PrintedLeaves, InFlight, ReadRequest
<1>2. ASSUME NEW l \in Listeners, Respond(l)
      PROVE  UNCHANGED stdout /\ conn[l] = c /\ ~Printed(l, c)
  <2>1. conn[l] = c /\ lpc[l] = "respondRejected"
    BY <1>2, HangupType DEF TypeOK, Respond
  <2>2. QED
    BY <1>2, <2>1 DEF PrintedLeaves, InFlight, Respond
<1>3. ASSUME NEW l \in Listeners, BindCheck(l) \/ BindSocket(l) \/ SetPermissions(l)
                   \/ Announce(l) \/ Accept(l) \/ Forward(l) \/ Unlink(l)
                   \/ Close(l) \/ Kill(l) \/ ConsumerLeaves(l)
      PROVE  FALSE
  BY <1>3, HangupType DEF TypeOK, BindCheck, BindSocket, SetPermissions,
     Announce, Accept, Forward, Unlink, Close, Kill, ConsumerLeaves, cvars
<1>4. ASSUME NEW k \in Clients, Click(k) \/ Connect(k) \/ WriteRequest(k) \/ ReadReceipt(k)
                                \/ Timeout(k) \/ Abandon(k) \/ PeerStart(k) \/ PeerSend(k)
      PROVE  FALSE
  BY <1>4 DEF Click, Connect, WriteRequest, ReadReceipt, Timeout, Abandon, PeerStart, PeerSend
<1>5. CASE UNCHANGED vars
  BY <1>5 DEF vars
<1>6. QED
  BY <1>1, <1>2, <1>3, <1>4, <1>5, StepCases

(* A rejected client has no line and gets none. *)
LEMMA ToldOnceStep ==
    ASSUME TypeOK, BusyHasConn, Streams, QueuedOnce, Unanswered, PrintedLeaves, Checked, ToldOnce,
           [Next]_vars
    PROVE  ToldOnce'
<1> USE ProcessAssumption
<1>1. ASSUME NEW c \in Clients, cpc'[c] # "done" PROVE result'[c] = "pending"
  <2>1. cpc[c] # "done" /\ result[c] = "pending"
    BY <1>1, ClientEffect DEF ToldOnce
  <2>2. QED
    BY <1>1, <2>1, ResultEffect DEF TypeOK
<1>2. ASSUME NEW c \in Clients, result'[c] = "rejected" PROVE reply'[c] = "rejected"
  <2>1. CASE result[c] = "rejected"
    BY <2>1, EofStays DEF ToldOnce
  <2>2. CASE result[c] # "rejected"
    BY <1>2, <2>2, ResultEffect DEF TypeOK
  <2>3. QED
    BY <2>1, <2>2
<1>3. ASSUME NEW c \in Clients, reply'[c] = "rejected", NEW l \in Listeners
      PROVE  ~Printed(l, c)'
  <2>1. CASE reply[c] = "rejected"
    <3>1. ~Printed(l, c) /\ ~InFlight(l, c)
      BY <2>1 DEF ToldOnce, Unanswered
    <3>2. QED
      BY <3>1, PrintedEffect DEF InFlight
  <2>2. CASE reply[c] # "rejected"
    <3>1. PICK m \in Listeners : conn[m] = c /\ ~Printed(m, c)
      BY <1>3, <2>2, RejectedEffect
    <3>2. server[c] = m
      BY <3>1 DEF Streams
    <3>3. ~Printed(l, c)
      BY <3>1, <3>2 DEF Checked
    <3>4. UNCHANGED stdout
      BY <1>3, <2>2, RejectedEffect
    <3>5. QED
      BY <3>3, <3>4 DEF Printed
  <2>3. QED
    BY <2>1, <2>2
<1>4. QED
  BY <1>1, <1>2, <1>3 DEF ToldOnce, Printed

(* The number of copies is one or none. *)
CopiesCount ==
    \A d \in Dispatchers :
        /\ HandedOff(d) => Copies(d) = 1
        /\ ~HandedOff(d) => Copies(d) = 0

(* Lines of one client are in one place. *)
LEMMA CountCopies == TypeOK /\ Checked /\ Lines => CopiesCount
<1> SUFFICES ASSUME TypeOK, Checked, Lines, NEW d \in Dispatchers
             PROVE  (HandedOff(d) => Copies(d) = 1) /\ (~HandedOff(d) => Copies(d) = 0)
  BY DEF CopiesCount
<1> DEFINE All == UNION {{l} \X DOMAIN stdout[l] : l \in Listeners}
           S == {at \in All : stdout[at[1]][at[2]] = d}
<1>1. Copies(d) = Cardinality(S)
  BY DEF Copies
<1>2. \A at \in All : at[1] \in Listeners /\ at[2] \in DOMAIN stdout[at[1]] /\ at = <<at[1], at[2]>>
  OBVIOUS
<1>3. CASE ~HandedOff(d)
  <2>1. S = {}
    BY <1>2, <1>3 DEF HandedOff
  <2>2. QED
    BY <1>1, <1>3, <2>1, FS_EmptySet
<1>4. CASE HandedOff(d)
  <2>0. PICK l \in Listeners : \E i \in DOMAIN stdout[l] : stdout[l][i] = d
    BY <1>4 DEF HandedOff
  <2>1. PICK i \in DOMAIN stdout[l] : stdout[l][i] = d
    BY <2>0
  <2>2. <<l, i>> \in S
    BY <2>1
  <2>3. ASSUME NEW at \in S PROVE at = <<l, i>>
    <3>1. at[1] \in Listeners /\ at[2] \in DOMAIN stdout[at[1]] /\ stdout[at[1]][at[2]] = d
      BY <1>2
    <3>2. at[1] = l
      BY <2>1, <3>1 DEF Checked, Printed, Clients
    <3>3. at[2] = i
      BY <2>1, <3>1, <3>2 DEF Lines
    <3>4. QED
      BY <1>2, <3>2, <3>3
  <2>4. S = {<<l, i>>}
    BY <2>2, <2>3
  <2>5. QED
    BY <1>1, <1>4, <2>4, FS_Singleton
<1>5. QED
  BY <1>3, <1>4

(* A step that prints a line hands one intent over and tells nobody. *)
LEMMA HandOverStep ==
    ASSUME TypeOK, BusyHasConn, [Next]_vars, NEW d \in Dispatchers,
           HandedOff(d)', ~HandedOff(d)
    PROVE  /\ \E l \in Listeners : conn[l] = d /\ lpc[l] = "forwarding"
           /\ \A e \in Dispatchers \ {d} : HandedOff(e)' <=> HandedOff(e)
           /\ UNCHANGED result
<1>0. /\ Dispatchers \subseteq Clients
      /\ \A e : HandedOff(e) <=> \E l \in Listeners : Printed(l, e)
      /\ \A e : HandedOff(e)' <=> \E l \in Listeners : Printed(l, e)'
  BY DEF Clients, HandedOff, Printed
<1>1. PICK l \in Listeners : Printed(l, d)' /\ ~Printed(l, d)
  BY <1>0
<1>2. Forward(l) /\ lpc[l] = "forwarding" /\ conn[l] = d
  BY <1>0, <1>1, PrintedEffect
<1>3. ASSUME NEW e \in Dispatchers \ {d} PROVE HandedOff(e)' <=> HandedOff(e)
  <2>1. ASSUME NEW m \in Listeners, Printed(m, e)' PROVE Printed(m, e)
    <3>1. CASE m = l
      BY <1>0, <1>2, <2>1, <3>1, PrintedEffect
    <3>2. CASE m # l
      <4>1. stdout'[m] = stdout[m]
        BY <1>2, <3>2 DEF Forward, TypeOK
      <4>2. QED
        BY <2>1, <4>1 DEF Printed
    <3>3. QED
      BY <3>1, <3>2
  <2>2. \A m \in Listeners : Printed(m, e) => Printed(m, e)'
    BY PrintedStays
  <2>3. QED
    BY <1>0, <2>1, <2>2
<1>4. UNCHANGED result
  BY <1>2 DEF Forward, cvars
<1>5. QED
  BY <1>2, <1>3, <1>4

(* The state the refinement is read from. *)
PromiseInv ==
    /\ TypeOK /\ BusyHasConn /\ Receipts /\ Unanswered /\ ToldOnce /\ ForwardedWasHandedOff
    /\ CopiesCount

(* Every step of the transport is a step of the promise or a stutter. *)
LEMMA PromiseStep ==
    ASSUME PromiseInv, PromiseInv', [Next]_vars
    PROVE  [Promise!Next]_<<[d \in Dispatchers |-> Copies(d)], [d \in Dispatchers |-> result[d]]>>
<1> DEFINE copies == [d \in Dispatchers |-> Copies(d)]
           told == [d \in Dispatchers |-> result[d]]
<1>0. Dispatchers \subseteq Clients
  BY DEF Clients
<1>1. \A d \in Dispatchers : /\ Copies(d) = IF HandedOff(d) THEN 1 ELSE 0
                             /\ Copies(d)' = IF HandedOff(d)' THEN 1 ELSE 0
  BY DEF PromiseInv, CopiesCount
<1>2. \A d \in Dispatchers : HandedOff(d) => HandedOff(d)'
  <2>1. \A d : HandedOff(d) <=> \E l \in Listeners : Printed(l, d)
    BY DEF HandedOff, Printed
  <2>2. \A d : HandedOff(d)' <=> \E l \in Listeners : Printed(l, d)'
    BY DEF HandedOff, Printed
  <2>3. \A l \in Listeners : \A d \in Dispatchers : Printed(l, d) => Printed(l, d)'
    BY PrintedStays DEF PromiseInv
  <2>4. QED
    BY <2>1, <2>2, <2>3
<1>3. ASSUME NEW d \in Dispatchers, HandedOff(d)', ~HandedOff(d)
      PROVE  Promise!HandOver(d)
  <2>1. PICK l \in Listeners : conn[l] = d
    BY <1>3, HandOverStep DEF PromiseInv
  <2>2. reply[d] = "none"
    BY <1>0, <2>1 DEF PromiseInv, Unanswered, InFlight
  <2>3. result[d] \in {"pending", "failed"}
    <3>1. ~HandedOff(d)
      BY <1>3
    <3>2. result[d] # "forwarded"
      BY <3>1 DEF PromiseInv, ForwardedWasHandedOff, HandedOff
    <3>3. result[d] # "rejected"
      BY <1>0, <2>2 DEF PromiseInv, ToldOnce
    <3>4. QED
      BY <1>0, <3>2, <3>3 DEF PromiseInv, TypeOK
  <2>4. told' = told
    BY <1>3, HandOverStep DEF PromiseInv
  <2>5. copies[d] = 0 /\ copies' = [copies EXCEPT ![d] = 1]
    <3>1. \A e \in Dispatchers \ {d} : Copies(e)' = Copies(e)
      BY <1>1, <1>3, HandOverStep DEF PromiseInv
    <3>2. Copies(d) = 0 /\ Copies(d)' = 1
      BY <1>1, <1>3
    <3>3. QED
      BY <3>1, <3>2
  <2>6. QED
    BY <2>3, <2>4, <2>5 DEF Promise!HandOver
<1>4. CASE \A d \in Dispatchers : HandedOff(d)' => HandedOff(d)
  <2>1. copies' = copies
    BY <1>1, <1>2, <1>4
  <2>2. CASE UNCHANGED result
    BY <2>1, <2>2
  <2>3. ASSUME NEW c \in Clients, cpc[c] # "done",
               NEW r \in {"failed", reply[c]} \ {"none", "eof"},
               result' = [result EXCEPT ![c] = r]
        PROVE  \/ told' = told
               \/ /\ c \in Dispatchers
                  /\ \E o \in {"forwarded", "rejected", "failed"} : Promise!Tell(c, o)
    <3>1. CASE c \notin Dispatchers
      BY <1>0, <2>3, <3>1 DEF PromiseInv, TypeOK
    <3>2. CASE c \in Dispatchers
      <4>1. r \in {"forwarded", "rejected", "failed"} /\ result[c] = "pending"
        BY <2>3 DEF PromiseInv, TypeOK, ToldOnce
      <4>2. r = "forwarded" => HandedOff(c)
        BY <2>3 DEF PromiseInv, Receipts, Printed, HandedOff
      <4>3. r = "rejected" => ~HandedOff(c)
        BY <2>3 DEF PromiseInv, ToldOnce, Printed, HandedOff
      <4>4. told' = [told EXCEPT ![c] = r]
        BY <1>0, <2>3, <3>2 DEF PromiseInv, TypeOK
      <4>5. (r = "forwarded" => copies[c] = 1) /\ (r = "rejected" => copies[c] = 0)
        BY <1>1, <3>2, <4>2, <4>3
      <4>6. Promise!Tell(c, r)
        BY <2>1, <3>2, <4>1, <4>4, <4>5 DEF Promise!Tell
      <4>7. QED
        BY <3>2, <4>1, <4>6
    <3>3. QED
      BY <3>1, <3>2
  <2>4. QED
    BY <2>1, <2>2, <2>3, ResultEffect DEF PromiseInv, Promise!Next
<1>5. QED
  BY <1>3, <1>4 DEF Promise!Next

(* The local transport implements the promise made for a clicked link,     *)
(* for any processes, crashes, timeouts and foreign peers.                 *)
THEOREM TransportKeepsPromise == Spec => KeepsPromise
<1> DEFINE Inv == /\ Streams /\ Receipts /\ ForwardedWasHandedOff
                  /\ QueuedOnce /\ Unanswered /\ PrintedLeaves /\ Checked /\ Lines /\ ToldOnce
<1>1. Init => Inv
  <2> SUFFICES ASSUME Init PROVE Inv
    OBVIOUS
  <2>1. Streams /\ Receipts /\ ForwardedWasHandedOff /\ QueuedOnce /\ Unanswered
    BY ProcessAssumption
    DEF Init, Streams, Receipts, ForwardedWasHandedOff, QueuedOnce, Unanswered, InFlight, Clients
  <2>2. PrintedLeaves /\ Checked /\ ToldOnce
    BY DEF Init, PrintedLeaves, Checked, ToldOnce, Printed
  <2>3. Lines
    BY DEF Init, Lines, Busy
  <2>4. QED
    BY <2>1, <2>2, <2>3
<1>2. TypeOK /\ BusyHasConn /\ Inv /\ [Next]_vars => Inv'
  BY StreamsStep, ReceiptsStep, ForwardedStep, QueuedOnceStep, UnansweredStep, PrintedLeavesStep,
     CheckedStep, LinesStep, ToldOnceStep
<1>3. TypeOK /\ BusyHasConn /\ Inv => PromiseInv
  BY CountCopies DEF PromiseInv
<1>4. Init => Promise!Init
  <2> SUFFICES ASSUME Init PROVE Promise!Init
    OBVIOUS
  <2>1. \A d \in Dispatchers : ~HandedOff(d) /\ result[d] = "pending"
    BY DEF Init, HandedOff, Clients
  <2>2. CopiesCount
    <3>1. BusyHasConn
      BY DEF Init, BusyHasConn, Busy
    <3>2. TypeOK /\ Inv
      BY <1>1, TypeInit
    <3>3. QED
      BY <1>3, <3>1, <3>2 DEF PromiseInv
  <2>3. \A d \in Dispatchers : Copies(d) = 0
    BY <2>1, <2>2 DEF CopiesCount
  <2>4. QED
    BY <2>1, <2>3 DEF Promise!Init
<1>5. PromiseInv /\ PromiseInv' /\ [Next]_vars
      => [Promise!Next]_<<[d \in Dispatchers |-> Copies(d)], [d \in Dispatchers |-> result[d]]>>
  BY PromiseStep
<1>6. QED
  BY <1>1, <1>2, <1>3, <1>4, <1>5, TypeCorrect, PTL DEF Spec, KeepsPromise, Promise!Spec
=============================================================================
