---------------------------- MODULE SeccHandler ----------------------------
(***************************************************************************)
(* The SECC's CommunicationSessionHandler (secc/comm_session_handler.py)   *)
(* with its UDP and TCP servers: discovery, connections, and the sessions  *)
(* it creates and ends.  The sessions are as SeccV2 describes them from    *)
(* outside: they run, they need five seconds to stop, and only then do     *)
(* they notify the handler, which meanwhile goes on.                       *)
(*                                                                         *)
(* One coroutine takes the notifications from the queue.  While it awaits  *)
(* something the others can only append to the queue or advance a session, *)
(* so that one notification is one step.                                   *)
(***************************************************************************)
EXTENDS Naturals, Sequences

CONSTANTS
    Peers,         \* IP addresses of EVs
    NoPeer,        \* _current_peer_ip is None
    EnforceTls,    \* config.enforce_tls
    MaxSessions,   \* bound: TCP connections of one behaviour
    MaxPackets     \* bound: SDP requests that arrive

ASSUME SeccHandlerAssumption ==
    /\ EnforceTls \in BOOLEAN
    /\ MaxSessions \in Nat
    /\ MaxPackets \in Nat
    \* An address with a port is not an address.
    /\ \A p \in Peers, s \in 1 .. MaxSessions : <<p, s>> \notin Peers

Sessions == 1 .. MaxSessions
None == 0  \* no session, no context

VARIABLES
    alive,     \* the task of get_from_rcv_queue runs
    queue,     \* _rcv_queue
    packets,   \* SDP requests so far
    paused,    \* udp_server.pause_server
    server,    \* the task of tcp_server_handler: "none" when that is None
    addressed, \* tcp_server.ipv6_address_host is set
    tls,       \* tcp_server.is_tls_enabled
    invited,   \* peers that got an SDP response
    registry,  \* comm_sessions: the session stored for a peer, or None
    current,   \* _current_peer_ip: IP address and port of the latest connection
    made,      \* sessions so far
    state,     \* of each session, from the accepted connection to its end
    peer,      \* peer_name[0] of each session
    ctx,       \* the ev_session_context object of each session
    action,    \* stop_action of each session
    eof,       \* sessions whose reader close_session() fed EOF
    overlapped \* history: two sessions existed at once, or a reset hit

udp     == <<packets, paused>>
tcp     == <<server, addressed, tls>>
objects == <<peer, ctx>>
vars    == <<alive, queue, udp, tcp, invited, registry, current, made,
             state, objects, action, eof, overlapped>>

Init ==
    /\ alive = TRUE
    /\ queue = <<>>
    /\ packets = 0 /\ paused = FALSE
    /\ server = "none" /\ addressed = FALSE /\ tls = FALSE /\ invited = {}
    /\ registry = [p \in Peers |-> None] /\ current = NoPeer
    /\ made = 0
    /\ state = [s \in Sessions |-> "unborn"]
    /\ peer = [s \in Sessions |-> NoPeer]
    /\ ctx = [s \in Sessions |-> None]
    /\ action = [s \in Sessions |-> "none"]
    /\ eof = {}
    /\ overlapped = FALSE

-----------------------------------------------------------------------------
(* The servers.                                                            *)

\* A paused UDP server drops what it receives.  Datagrams that do not decode
\* to an SDP request have no effect and are left out; so are requests for
\* wireless communication, whose payload type the header check refuses.
DatagramReceived(p, request) ==
    /\ alive /\ ~paused
    /\ packets < MaxPackets
    /\ packets' = packets + 1
    /\ queue' = Append(queue, [kind |-> request, of |-> p])
    /\ UNCHANGED <<alive, paused, tcp, invited, registry, current, made,
                   state, objects, action, eof, overlapped>>

\* From the accepted connection until the handler has dealt with its end.
Exists(s) == state[s] \notin {"unborn", "ended"}

\* A connection to the listening server is accepted at once, and its
\* notification waits for the handler.
Connect(p) ==
    /\ alive
    /\ server = "listening" /\ p \in invited
    /\ made < MaxSessions
    /\ made' = made + 1
    /\ state' = [state EXCEPT ![made + 1] = "connecting"]
    /\ peer' = [peer EXCEPT ![made + 1] = p]
    /\ queue' = Append(queue, [kind |-> "client", of |-> made + 1])
    /\ overlapped' = (overlapped \/ \E s \in Sessions : Exists(s))
    /\ UNCHANGED <<alive, udp, tcp, invited, registry, current, ctx,
                   action, eof>>

-----------------------------------------------------------------------------
(* The sessions.                                                           *)

\* stop() begins.  A SessionStopReq that terminates drops the context first; a
\* failure keeps it.
BeginStop(s, how) ==
    /\ alive /\ state[s] = "active"
    /\ state' = [state EXCEPT ![s] = "stopping"]
    /\ action' = [action EXCEPT ![s] = IF how = "pause" THEN "pause"
                                                       ELSE "terminate"]
    /\ ctx' = [ctx EXCEPT ![s] = IF how = "terminate" THEN None ELSE @]
    /\ UNCHANGED <<alive, queue, udp, tcp, invited, registry, current,
                   made, peer, eof, overlapped>>

\* Five seconds later the writer is closed and the StopNotification queued.
Notify(s) ==
    /\ alive /\ state[s] = "stopping"
    /\ state' = [state EXCEPT ![s] = "notified"]
    /\ queue' = Append(queue, [kind |-> "stop", of |-> s])
    /\ UNCHANGED <<alive, udp, tcp, invited, registry, current, made,
                   objects, action, eof, overlapped>>

\* wait_closed() raises an error that stop() does not expect: the task of the
\* session dies without a StopNotification.
CloseFails(s) ==
    /\ alive /\ state[s] = "stopping"
    /\ state' = [state EXCEPT ![s] = "lost"]
    /\ UNCHANGED <<alive, queue, udp, tcp, invited, registry, current,
                   made, objects, action, eof, overlapped>>

-----------------------------------------------------------------------------
(* The handler: one action per kind of notification.                       *)

Takes(kind) ==
    /\ alive /\ queue # <<>>
    /\ Head(queue).kind = kind
    /\ queue' = Tail(queue)

\* start_tcp_server replaces the server and waits until it listens, or for ten
\* seconds when its task fails: the port is "busy" three times, or the interface
\* has "no address".  The response is sent either way, unless no address was
\* ever found: then the AttributeError ends the task, wait_for_tasks cancels the
\* others and logs it, and the process ends.
\* context: an SSL context could be created.
HandleSdp(request, outcome, context) ==
    /\ Takes(request)
    /\ server' = IF outcome = "bound" THEN "listening" ELSE "failed"
    /\ addressed' = (addressed \/ outcome # "no address")
    /\ tls' = ((EnforceTls \/ request = "tls") /\ context)
    /\ alive' = addressed'
    /\ invited' = IF addressed' THEN invited \cup {Head(queue).of} ELSE invited
    /\ UNCHANGED <<udp, registry, current, made, state, objects, action,
                   eof, overlapped>>

\* Mutant: the UDP server is resumed only when the session is deleted.
EndCurrentSessionPaused(p, how) ==
    /\ server' = "none"
    /\ current' = NoPeer
    /\ registry' = [registry EXCEPT ![p] = IF how = "terminate" THEN None ELSE @]
    /\ paused' = (paused /\ how = "pause")

\* Mutant: the entry is always preserved.
EndCurrentSessionKept(p, how) ==
    /\ server' = "none"
    /\ current' = NoPeer
    /\ paused' = FALSE
    /\ UNCHANGED registry

\* end_current_session for a peer that has an entry.
EndCurrentSession(p, how) ==
    /\ server' = "none"
    /\ current' = NoPeer
    /\ registry' = [registry EXCEPT ![p] = IF how = "terminate" THEN None ELSE @]
    /\ paused' = FALSE

\* Mutant: UDP discovery goes on during the session.
HandleClientUnpaused(reset) ==
    LET s == Head(queue).of
        p == peer[s]
        known == registry[p] # None
        inherited == IF known /\ ~reset THEN ctx[registry[p]] ELSE None
    IN
    /\ Takes("client")
    /\ reset => known
    /\ server' = IF reset THEN "none" ELSE server
    /\ state' = [state EXCEPT ![s] = "active"]
    /\ ctx' = [ctx EXCEPT ![s] = IF inherited = None THEN s ELSE inherited]
    /\ registry' = [registry EXCEPT ![p] = s]
    /\ current' = <<p, s>>
    /\ overlapped' = (overlapped \/ reset)
    /\ UNCHANGED <<alive, udp, tls, addressed, invited, made, peer,
                   action, eof>>

\* A second session of a peer gets the context of the one that is stored,
\* whatever became of that one, and takes its place.  reset: get_evse_id()
\* raises ConnectionResetError, which first ends the stored session.
HandleClient(reset) ==
    LET s == Head(queue).of
        p == peer[s]
        known == registry[p] # None
        inherited == IF known /\ ~reset THEN ctx[registry[p]] ELSE None
    IN
    /\ Takes("client")
    /\ reset => known
    /\ server' = IF reset THEN "none" ELSE server
    /\ paused' = ~reset
    /\ state' = [state EXCEPT ![s] = "active"]
    /\ ctx' = [ctx EXCEPT ![s] = IF inherited = None THEN s ELSE inherited]
    /\ registry' = [registry EXCEPT ![p] = s]
    /\ current' = <<p, s>>
    /\ overlapped' = (overlapped \/ reset)
    /\ UNCHANGED <<alive, packets, tls, addressed, invited, made, peer,
                   action, eof>>

\* The server is cancelled before the entry is looked up; without an entry the
\* KeyError leaves everything else as it is.  Cancelling the task of a session
\* does not reach its receive loop, which asyncio.wait runs as a task of its own.
HandleStop ==
    LET s == Head(queue).of
        p == peer[s]
    IN
    /\ Takes("stop")
    /\ state' = [state EXCEPT ![s] = "ended"]
    /\ IF registry[p] # None
       THEN EndCurrentSession(p, action[s])
       ELSE /\ server' = IF server = "listening" THEN "closed" ELSE server
            /\ UNCHANGED <<registry, current, paused>>
    /\ UNCHANGED <<alive, packets, tls, addressed, invited, made, objects,
                   action, eof, overlapped>>

\* close_session(), from outside: the peer has unplugged.  The entry is looked
\* up under the address with its port, and a KeyError is logged.
Closable == current \in DOMAIN registry
CloseSession ==
    /\ alive /\ current # NoPeer
    /\ eof' = IF Closable THEN eof \cup {registry[current]} ELSE eof
    /\ UNCHANGED <<alive, queue, udp, tcp, invited, registry, current, made,
                   state, objects, action, overlapped>>

Serve ==
    \/ \E request \in {"tls", "plain"}, context \in BOOLEAN,
          outcome \in {"bound", "busy", "no address"} :
         HandleSdp(request, outcome, context)
    \/ \E reset \in BOOLEAN : HandleClient(reset)
    \/ HandleStop

Finish(s) == Notify(s) \/ CloseFails(s)

Next ==
    \/ \E p \in Peers, request \in {"tls", "plain"} :
         DatagramReceived(p, request)
    \/ \E p \in Peers : Connect(p)
    \/ \E s \in Sessions :
         \/ \E how \in {"pause", "terminate", "failure"} : BeginStop(s, how)
         \/ Finish(s)
    \/ Serve
    \/ CloseSession

\* The event loop runs what is ready: the handler's task, and a stop() that
\* has begun.  Peers and the sessions before their end owe nothing.
Fairness == WF_vars(Serve) /\ \A s \in Sessions : WF_vars(Finish(s))

Spec == Init /\ [][Next]_vars /\ Fairness

-----------------------------------------------------------------------------
(* Properties.                                                             *)

Notifications ==
    [kind : {"tls", "plain"}, of : Peers]
        \cup [kind : {"client", "stop"}, of : Sessions]

\* Every variable keeps its type.
TypeOK ==
    /\ alive \in BOOLEAN
    /\ queue \in Seq(Notifications)
    /\ packets \in 0 .. MaxPackets /\ paused \in BOOLEAN
    /\ server \in {"none", "listening", "failed", "closed"}
    /\ addressed \in BOOLEAN /\ tls \in BOOLEAN
    /\ invited \subseteq Peers
    /\ registry \in [Peers -> Sessions \cup {None}]
    /\ current \in (Peers \X Sessions) \cup {NoPeer}
    /\ made \in Sessions \cup {0}
    /\ state \in [Sessions -> {"unborn", "connecting", "active", "stopping",
                               "notified", "lost", "ended"}]
    /\ peer \in [Sessions -> Peers \cup {NoPeer}]
    /\ ctx \in [Sessions -> Sessions \cup {None}]
    /\ action \in [Sessions -> {"none", "pause", "terminate"}]
    /\ eof \subseteq Sessions
    /\ overlapped \in BOOLEAN

\* While discovery is paused there is a session whose end will find its entry
\* and resume it (or whose task has died): overlapping sessions, stale
\* notifications and KeyErrors never leave the SECC deaf for good.
SomeoneResumes ==
    paused => \E s \in Sessions :
                /\ state[s] \in {"active", "stopping", "notified", "lost"}
                /\ registry[peer[s]] # None

\* As long as sessions do not overlap, a session is the stored and the current
\* one, and discovery is paused, from its first step until the handler has
\* dealt with its end, whatever was queued before or meanwhile.
SessionOwnsHandler ==
    ~overlapped => \A s \in Sessions :
        state[s] \in {"active", "stopping", "notified", "lost"} =>
            paused /\ registry[peer[s]] = s /\ current = <<peer[s], s>>

\* As long as sessions do not overlap, only a session that its EV paused hands
\* its context to the next.
ResumesPausedOnly ==
    ~overlapped => \A s \in Sessions :
        state[s] = "active" /\ ctx[s] # s =>
            \E r \in Sessions : /\ state[r] = "ended" /\ action[r] = "pause"
                                /\ peer[r] = peer[s] /\ ctx[r] = ctx[s]

\* While there is a current session, close_session() can feed EOF to it (its
\* docstring).
CloseSessionHeard == current # NoPeer => Closable

\* When TLS is enforced the server has an SSL context (comment in Config).
EnforcedTls == EnforceTls /\ server = "listening" => tls

\* Discovery comes back once the last session has begun to stop, unless an
\* error took its notification or the handler itself.
DiscoveryReturns ==
    paused /\ (\A s \in Sessions : state[s] # "active") ~>
        \/ ~paused \/ ~alive
        \/ \E s \in Sessions : state[s] \in {"active", "lost"}
=============================================================================
