--------------------------- MODULE IntentCallback ---------------------------
(***************************************************************************)
(* The local callback transport of Intent callback v1: `intent listen`     *)
(* processes that bind ENDPOINT.sock in the private runtime directory,     *)
(* `intent dispatch` processes that deliver one clicked link each, and     *)
(* other local peers that connect to a socket and send what they like.     *)
(* Listeners and clients are processes; each runs its program once, so a   *)
(* restart is another element of the set.                                  *)
(***************************************************************************)
EXTENDS Naturals, Sequences, FiniteSets

CONSTANTS Listeners,        \* `intent listen` processes
          Dispatchers,      \* `intent dispatch` processes, one link each
          Peers,            \* other local processes that reach the socket
          Endpoints,        \* endpoint identities
          ListenEndpoint,   \* the endpoint a listener is started for
          LinkEndpoint,     \* the endpoint a client connects to
          Once,             \* the listeners started with --once
          Backlog,          \* connections the kernel queues before connect waits
          None,             \* no process
          Garbage,          \* bytes read_frame refuses
          NoFrame           \* nothing on the stream yet

Clients == Dispatchers \cup Peers

(* A request is an intent naming an endpoint, with a path this build can   *)
(* decode or not.                                                          *)
Requests == [endpoint : Endpoints, path : {"decodes", "refused"}]

(* The IntentReadyV1 line, the first thing a listener prints. *)
Ready == "ready"

ASSUME ProcessAssumption ==
    /\ Listeners \cap Clients = {}
    /\ Dispatchers \cap Peers = {}
    /\ None \notin Listeners \cup Clients
    /\ Ready \notin Clients
ASSUME EndpointAssumption ==
    /\ ListenEndpoint \in [Listeners -> Endpoints]
    /\ LinkEndpoint \in [Clients -> Endpoints]
    /\ Once \subseteq Listeners
ASSUME FrameAssumption ==
    Garbage \notin Requests /\ NoFrame \notin Requests /\ Garbage # NoFrame
ASSUME BacklogAssumption == Backlog \in Nat \ {0}

VARIABLES
    lpc,        \* where each listener is in listen_for_intents
    node,       \* endpoint -> the listener that created ENDPOINT.sock, or None
    queue,      \* connections waiting for accept, per listener
    conn,       \* the connection a listener is serving, or None
    stdout,     \* the lines a listener has written to its consumer
    consumer,   \* whether the consumer still reads that stdout
    cpc,        \* where each client is
    server,     \* the listener a client is connected to, or None
    frame,      \* the request a client has put on its stream
    reply,      \* what a client will read from its stream
    result      \* how a dispatch ended

lvars == <<lpc, node, queue, conn, stdout, consumer>>
cvars == <<cpc, server, frame, reply, result>>
vars == <<lpc, node, queue, conn, stdout, consumer, cpc, server, frame, reply, result>>

-----------------------------------------------------------------------------
Intent(c) == [endpoint |-> LinkEndpoint[c], path |-> "decodes"]

(* The listener has created its socket and has not yet removed or lost it. *)
Serving == {"bound", "announcing", "accepting", "reading", "forwarding",
            "respondForwarded", "respondRejected", "dropping"}
(* Its listening descriptor is open: a connect is queued. *)
Listening == Serving \cup {"unlinked"}
Stopped == {"failed", "leaked", "exited", "killed"}
ListenerStates == {"idle", "checked"} \cup Listening \cup Stopped

TypeOK ==
    /\ lpc \in [Listeners -> ListenerStates]
    /\ node \in [Endpoints -> Listeners \cup {None}]
    /\ queue \in [Listeners -> Seq(Clients)]
    /\ conn \in [Listeners -> Clients \cup {None}]
    /\ stdout \in [Listeners -> Seq(Clients \cup {Ready})]
    /\ consumer \in [Listeners -> BOOLEAN]
    /\ cpc \in [Clients -> {"idle", "connecting", "connected", "sent", "done"}]
    /\ server \in [Clients -> Listeners \cup {None}]
    /\ frame \in [Clients -> Requests \cup {Garbage, NoFrame}]
    /\ reply \in [Clients -> {"none", "forwarded", "rejected", "eof"}]
    /\ result \in [Clients -> {"pending", "forwarded", "rejected", "failed"}]

Init ==
    /\ lpc = [l \in Listeners |-> "idle"]
    /\ node = [e \in Endpoints |-> None]
    /\ queue = [l \in Listeners |-> <<>>]
    /\ conn = [l \in Listeners |-> None]
    /\ stdout = [l \in Listeners |-> <<>>]
    /\ consumer = [l \in Listeners |-> TRUE]
    /\ cpc = [c \in Clients |-> "idle"]
    /\ server = [c \in Clients |-> None]
    /\ frame = [c \in Clients |-> NoFrame]
    /\ reply = [c \in Clients |-> "none"]
    /\ result = [c \in Clients |-> "pending"]

-----------------------------------------------------------------------------
(* The listener.                                                           *)

Goto(l, s) == lpc' = [lpc EXCEPT ![l] = s]

Waiting(l) == {queue[l][i] : i \in DOMAIN queue[l]}

(* Streams whose listener end is closed: a client that has no receipt yet  *)
(* reads end of file.                                                      *)
Hangup(closed) ==
    reply' = [c \in Clients |->
                IF c \in closed /\ reply[c] = "none" THEN "eof" ELSE reply[c]]

(* prepare_runtime_root or socket_path fails, or the path already exists;  *)
(* otherwise bind will be tried.                                           *)
BindCheck(l) ==
    /\ lpc[l] = "idle"
    /\ \/ Goto(l, "failed")
       \/ node[ListenEndpoint[l]] = None /\ Goto(l, "checked")
    /\ UNCHANGED <<node, queue, conn, stdout, consumer, cvars>>

(* Fault: a socket left at the path is replaced. *)
BindSocketReplacing(l) ==
    /\ lpc[l] = "checked"
    /\ node' = [node EXCEPT ![ListenEndpoint[l]] = l]
    /\ Goto(l, "bound")
    /\ UNCHANGED <<queue, conn, stdout, consumer, cvars>>

(* UnixListener::bind creates the socket or fails with EADDRINUSE. *)
BindSocket(l) ==
    /\ lpc[l] = "checked"
    /\ IF node[ListenEndpoint[l]] = None
       THEN /\ node' = [node EXCEPT ![ListenEndpoint[l]] = l]
            /\ Goto(l, "bound")
       ELSE /\ Goto(l, "failed")
            /\ UNCHANGED node
    /\ UNCHANGED <<queue, conn, stdout, consumer, cvars>>

(* set_permissions: on failure bind returns before an IntentListener       *)
(* exists, so the descriptor is closed and nothing removes the file.       *)
SetPermissions(l) ==
    /\ lpc[l] = "bound"
    /\ \/ /\ Goto(l, "announcing")
          /\ UNCHANGED <<queue, reply>>
       \/ /\ Goto(l, "leaked")
          /\ queue' = [queue EXCEPT ![l] = <<>>]
          /\ Hangup(Waiting(l))
    /\ UNCHANGED <<node, conn, stdout, consumer, cpc, server, frame, result>>

(* The ready line; a consumer that is gone makes the program return. *)
Announce(l) ==
    /\ lpc[l] = "announcing"
    /\ IF consumer[l]
       THEN /\ stdout' = [stdout EXCEPT ![l] = Append(@, Ready)]
            /\ Goto(l, "accepting")
       ELSE /\ Goto(l, "dropping")
            /\ UNCHANGED stdout
    /\ UNCHANGED <<node, queue, conn, consumer, cvars>>

Accept(l) ==
    /\ lpc[l] = "accepting"
    /\ queue[l] # <<>>
    /\ conn' = [conn EXCEPT ![l] = Head(queue[l])]
    /\ queue' = [queue EXCEPT ![l] = Tail(@)]
    /\ Goto(l, "reading")
    /\ UNCHANGED <<node, stdout, consumer, cvars>>

(* Fault: the endpoint of the request is not compared. *)
AcceptableAnyEndpoint(l, f) == f \in Requests /\ f.path = "decodes"

(* The frame is in the stream and names this endpoint with a usable path. *)
Acceptable(l, f) ==
    f \in Requests /\ f.endpoint = ListenEndpoint[l] /\ f.path = "decodes"

(* Fault: end of file does not end the read. *)
ReadRequestNoEof(l) ==
    LET c == conn[l] IN
    /\ lpc[l] = "reading"
    /\ frame[c] # NoFrame
    /\ IF Acceptable(l, frame[c])
       THEN Goto(l, "forwarding") /\ UNCHANGED <<conn, reply>>
       ELSE /\ conn' = [conn EXCEPT ![l] = None]
            /\ Goto(l, "accepting")
            /\ Hangup({c})
    /\ UNCHANGED <<node, queue, stdout, consumer, cpc, server, frame, result>>

(* Fault: an error of accept leaves the loop. *)
ReadRequestFatal(l) ==
    LET c == conn[l] IN
    /\ lpc[l] = "reading"
    /\ frame[c] # NoFrame \/ cpc[c] = "done"
    /\ IF Acceptable(l, frame[c])
       THEN Goto(l, "forwarding") /\ UNCHANGED <<conn, reply>>
       ELSE /\ conn' = [conn EXCEPT ![l] = None]
            /\ Goto(l, "dropping")
            /\ Hangup({c})
    /\ UNCHANGED <<node, queue, stdout, consumer, cpc, server, frame, result>>

(* read_frame and the checks of accept. The read has no timeout: it waits  *)
(* until the client has sent its frame or closed its end. A refused        *)
(* connection is dropped and the loop continues; only a wrong endpoint is  *)
(* answered first.                                                         *)
ReadRequest(l) ==
    LET c == conn[l] IN
    /\ lpc[l] = "reading"
    /\ frame[c] # NoFrame \/ cpc[c] = "done"
    /\ IF Acceptable(l, frame[c])
       THEN Goto(l, "forwarding") /\ UNCHANGED <<conn, reply>>
       ELSE /\ conn' = [conn EXCEPT ![l] = None]
            /\ Goto(l, "accepting")
            /\ IF frame[c] \in Requests /\ frame[c].endpoint # ListenEndpoint[l]
               THEN reply' = [reply EXCEPT ![c] = "rejected"]
               ELSE Hangup({c})
    /\ UNCHANGED <<node, queue, stdout, consumer, cpc, server, frame, result>>

(* Fault: the outcome of the write to the consumer is ignored. *)
ForwardUnchecked(l) ==
    /\ lpc[l] = "forwarding"
    /\ stdout' = IF consumer[l] THEN [stdout EXCEPT ![l] = Append(@, conn[l])] ELSE stdout
    /\ Goto(l, "respondForwarded")
    /\ UNCHANGED <<node, queue, conn, consumer, cvars>>

(* write_output of the intent line. *)
Forward(l) ==
    /\ lpc[l] = "forwarding"
    /\ IF consumer[l]
       THEN /\ stdout' = [stdout EXCEPT ![l] = Append(@, conn[l])]
            /\ Goto(l, "respondForwarded")
       ELSE /\ Goto(l, "respondRejected")
            /\ UNCHANGED stdout
    /\ UNCHANGED <<node, queue, conn, consumer, cvars>>

(* Fault: a receipt that cannot be written makes the listener hand the     *)
(* intent over again.                                                      *)
RespondAgain(l) ==
    /\ lpc[l] \in {"respondForwarded", "respondRejected"}
    /\ IF cpc[conn[l]] # "done"
       THEN /\ reply' = [reply EXCEPT ![conn[l]] =
                            IF lpc[l] = "respondForwarded" THEN "forwarded" ELSE "rejected"]
            /\ conn' = [conn EXCEPT ![l] = None]
            /\ Goto(l, "accepting")
       ELSE Goto(l, "forwarding") /\ UNCHANGED <<reply, conn>>
    /\ UNCHANGED <<node, queue, stdout, consumer, cpc, server, frame, result>>

(* respond(..)?: a client that has closed its end makes the write fail and *)
(* the program return; so do a failed handoff and --once.                  *)
Respond(l) ==
    LET c == conn[l]
        forwarded == lpc[l] = "respondForwarded"
        peerOpen == cpc[c] # "done"
    IN
    /\ lpc[l] \in {"respondForwarded", "respondRejected"}
    /\ conn' = [conn EXCEPT ![l] = None]
    /\ IF peerOpen
       THEN reply' = [reply EXCEPT ![c] = IF forwarded THEN "forwarded" ELSE "rejected"]
       ELSE Hangup({c})
    /\ Goto(l, IF peerOpen /\ forwarded /\ l \notin Once
               THEN "accepting" ELSE "dropping")
    /\ UNCHANGED <<node, queue, stdout, consumer, cpc, server, frame, result>>

(* Fault: the listener has no Drop. *)
UnlinkNothing(l) ==
    /\ lpc[l] = "dropping"
    /\ Goto(l, "unlinked")
    /\ UNCHANGED <<node, queue, conn, stdout, consumer, cvars>>

(* IntentListener::drop removes whatever the path names now. *)
Unlink(l) ==
    /\ lpc[l] = "dropping"
    /\ node' = [node EXCEPT ![ListenEndpoint[l]] = None]
    /\ Goto(l, "unlinked")
    /\ UNCHANGED <<queue, conn, stdout, consumer, cvars>>

(* Then the descriptor is closed, with every connection still queued. *)
Close(l) ==
    /\ lpc[l] = "unlinked"
    /\ Hangup(Waiting(l))
    /\ queue' = [queue EXCEPT ![l] = <<>>]
    /\ Goto(l, "exited")
    /\ UNCHANGED <<node, conn, stdout, consumer, cpc, server, frame, result>>

(* A signal ends the process: descriptors close, drop does not run. *)
Kill(l) ==
    /\ lpc[l] \in {"checked"} \cup Listening
    /\ Hangup(Waiting(l) \cup {conn[l]})
    /\ queue' = [queue EXCEPT ![l] = <<>>]
    /\ conn' = [conn EXCEPT ![l] = None]
    /\ Goto(l, "killed")
    /\ UNCHANGED <<node, stdout, consumer, cpc, server, frame, result>>

(* The consumer stops reading the listener's stdout. *)
ConsumerLeaves(l) ==
    /\ consumer[l]
    /\ consumer' = [consumer EXCEPT ![l] = FALSE]
    /\ UNCHANGED <<lpc, node, queue, conn, stdout, cvars>>

-----------------------------------------------------------------------------
(* The clients.                                                            *)

(* The client's process ends, and with it its end of the stream. *)
Finish(c, r) ==
    /\ cpc' = [cpc EXCEPT ![c] = "done"]
    /\ result' = [result EXCEPT ![c] = r]

(* The desktop handler runs dispatch_callback: a zero timeout or a bad URI *)
(* ends it before any connection.                                          *)
Click(d) ==
    /\ cpc[d] = "idle"
    /\ \/ /\ cpc' = [cpc EXCEPT ![d] = "connecting"]
          /\ UNCHANGED result
       \/ Finish(d, "failed")
    /\ UNCHANGED <<lvars, server, frame, reply>>

(* Fault: a refused connection is tried until a listener appears. *)
ConnectRetrying(c) ==
    LET l == node[LinkEndpoint[c]] IN
    /\ cpc[c] = "connecting"
    /\ l # None /\ lpc[l] \in Listening
    /\ Len(queue[l]) < Backlog
    /\ queue' = [queue EXCEPT ![l] = Append(@, c)]
    /\ server' = [server EXCEPT ![c] = l]
    /\ cpc' = [cpc EXCEPT ![c] = "connected"]
    /\ UNCHANGED <<lpc, node, conn, stdout, consumer, frame, reply, result>>

(* connect: refused when there is no socket or nobody listens on it, and   *)
(* waiting while the backlog is full. No timeout is set yet.               *)
Connect(c) ==
    LET l == node[LinkEndpoint[c]] IN
    /\ cpc[c] = "connecting"
    /\ IF l # None /\ lpc[l] \in Listening
       THEN /\ Len(queue[l]) < Backlog
            /\ queue' = [queue EXCEPT ![l] = Append(@, c)]
            /\ server' = [server EXCEPT ![c] = l]
            /\ cpc' = [cpc EXCEPT ![c] = "connected"]
            /\ UNCHANGED result
       ELSE Finish(c, "failed") /\ UNCHANGED <<queue, server>>
    /\ UNCHANGED <<lpc, node, conn, stdout, consumer, frame, reply>>

(* write_frame of the intent, into a stream whose other end may be gone. *)
WriteRequest(d) ==
    /\ cpc[d] = "connected"
    /\ IF reply[d] = "eof"
       THEN Finish(d, "failed") /\ UNCHANGED frame
       ELSE /\ frame' = [frame EXCEPT ![d] = Intent(d)]
            /\ cpc' = [cpc EXCEPT ![d] = "sent"]
            /\ UNCHANGED result
    /\ UNCHANGED <<lvars, server, reply>>

(* read_frame of the receipt: an error at end of file or when the receipt  *)
(* carries another endpoint than the link.                                 *)
ReadReceipt(d) ==
    /\ cpc[d] = "sent"
    /\ reply[d] # "none"
    /\ Finish(d, IF reply[d] = "eof" \/ ListenEndpoint[server[d]] # LinkEndpoint[d]
                 THEN "failed" ELSE reply[d])
    /\ UNCHANGED <<lvars, server, frame, reply>>

(* The read timeout passes with nothing to read. *)
Timeout(d) ==
    /\ cpc[d] = "sent"
    /\ reply[d] = "none"
    /\ Finish(d, "failed")
    /\ UNCHANGED <<lvars, server, frame, reply>>

(* A client is killed; bytes it has already sent stay in the stream. *)
Abandon(c) ==
    /\ cpc[c] \in {"connecting", "connected", "sent"}
    /\ Finish(c, "failed")
    /\ UNCHANGED <<lvars, server, frame, reply>>

(* Another local process opens the socket and may send any frame. *)
PeerStart(p) ==
    /\ cpc[p] = "idle"
    /\ cpc' = [cpc EXCEPT ![p] = "connecting"]
    /\ UNCHANGED <<lvars, server, frame, reply, result>>

PeerSend(p) ==
    /\ cpc[p] = "connected"
    /\ \E f \in Requests \cup {Garbage} : frame' = [frame EXCEPT ![p] = f]
    /\ cpc' = [cpc EXCEPT ![p] = "sent"]
    /\ UNCHANGED <<lvars, server, reply, result>>

-----------------------------------------------------------------------------
ListenerStep(l) ==
    \/ BindSocket(l) \/ SetPermissions(l) \/ Announce(l) \/ Accept(l)
    \/ ReadRequest(l) \/ Forward(l) \/ Respond(l) \/ Unlink(l) \/ Close(l)

DispatcherStep(d) ==
    Connect(d) \/ WriteRequest(d) \/ ReadReceipt(d) \/ Timeout(d)

Next ==
    \/ \E l \in Listeners : BindCheck(l) \/ ListenerStep(l) \/ Kill(l) \/ ConsumerLeaves(l)
    \/ \E d \in Dispatchers : Click(d) \/ DispatcherStep(d) \/ Abandon(d)
    \/ \E p \in Peers : PeerStart(p) \/ Connect(p) \/ PeerSend(p) \/ Abandon(p)

(* The scheduler runs a process that can take its next step, and a read    *)
(* timeout that has been set does pass. Nothing is assumed of peers, of    *)
(* signals, of the consumer or of when processes are started.              *)
Fairness ==
    /\ \A l \in Listeners : WF_vars(ListenerStep(l))
    /\ \A d \in Dispatchers : WF_vars(DispatcherStep(d))

Spec == Init /\ [][Next]_vars
FairSpec == Spec /\ Fairness

-----------------------------------------------------------------------------
(* Properties.                                                             *)

HandedOff(c) == \E l \in Listeners : \E i \in DOMAIN stdout[l] : stdout[l][i] = c

(* A listener that has bound its endpoint stays the one its path names     *)
(* until it removes the path itself: bind never replaces a socket, and the *)
(* removal in IntentListener::drop never takes a socket from another       *)
(* listener of the same endpoint, whatever the two processes interleave.   *)
OwnsItsPath == \A l \in Listeners : lpc[l] \in Serving => node[ListenEndpoint[l]] = l

(* Every exit but a signal, or a failed set_permissions inside bind, frees *)
(* the endpoint: a path that is left behind names a listener that still    *)
(* serves it, was killed, or never got as far as an IntentListener.        *)
OrderlyExitFreesPath ==
    \A e \in Endpoints : node[e] # None => lpc[node[e]] \in Serving \cup {"killed", "leaked"}

(* A dispatch that ends with `forwarded` has its intent in the output of a *)
(* listener bound to the link's endpoint: the receipt follows the handoff  *)
(* through timeouts, kills and a consumer that leaves.                     *)
ForwardedWasHandedOff ==
    \A d \in Dispatchers : result[d] = "forwarded" =>
        \E l \in Listeners : /\ ListenEndpoint[l] = LinkEndpoint[d]
                             /\ \E i \in DOMAIN stdout[l] : stdout[l][i] = d

(* What a consumer reads is the ready line, then each accepted callback    *)
(* once, all of them intents for its own endpoint with a usable path,      *)
(* whatever peers send, and with --once only one of them; over all         *)
(* listeners no click is delivered twice.                                  *)
ConsumerStream ==
    \A l \in Listeners : \A i \in DOMAIN stdout[l] :
        /\ (stdout[l][i] = Ready) <=> (i = 1)
        /\ l \in Once => i <= 2
        /\ i > 1 =>
            /\ frame[stdout[l][i]] =
                   [endpoint |-> ListenEndpoint[l], path |-> "decodes"]
            /\ \A m \in Listeners : \A j \in DOMAIN stdout[m] :
                   stdout[m][j] = stdout[l][i] => <<m, j>> = <<l, i>>

(* The transport keeps the promise made for each link: at most one         *)
(* delivery over all listeners, `forwarded` only after it, none after      *)
(* `rejected`.                                                             *)
Copies(d) ==
    Cardinality({at \in UNION {{l} \X DOMAIN stdout[l] : l \in Listeners} :
                    stdout[at[1]][at[2]] = d})
Promise == INSTANCE CallbackPromise WITH
    Dispatches <- Dispatchers,
    copies <- [d \in Dispatchers |-> Copies(d)],
    told <- [d \in Dispatchers |-> result[d]]
KeepsPromise == Promise!Spec

(* A listener without --once stops serving only because its consumer has   *)
(* gone, or because the client it was answering had: what any other client *)
(* sends, or leaves unsent, ends a connection and never the loop.          *)
ServesUntilSomeoneLeaves ==
    \A l \in Listeners \ Once : lpc[l] \in {"dropping", "unlinked", "exited"} =>
        \/ ~consumer[l]
        \/ \E c \in Clients : /\ server[c] = l /\ cpc[c] = "done" /\ reply[c] = "eof"
                            /\ \E i \in DOMAIN stdout[l] : stdout[l][i] = c

(* Every dispatch that has started ends, whatever becomes of its listener. *)
DispatchEnds == \A d \in Dispatchers : cpc[d] = "connecting" ~> cpc[d] = "done"

(* An intent that reached a listener is handed to the consumer, also when  *)
(* the dispatcher has given up meanwhile, unless that listener stops or    *)
(* loses its consumer.                                                     *)
RequestsAreServed ==
    \A d \in Dispatchers, l \in Listeners :
        (cpc[d] = "sent" /\ server[d] = l) ~>
            (HandedOff(d) \/ lpc[l] \notin Serving \/ ~consumer[l])

=============================================================================
