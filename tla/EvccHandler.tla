---------------------------- MODULE EvccHandler ----------------------------
(***************************************************************************)
(* The EVCC's CommunicationSessionHandler (evcc/comm_session_handler.py)   *)
(* with its UDP client: SECC discovery with retries within a cycle and     *)
(* retry cycles, the decision on the security the SECC offers, and the     *)
(* start and the end of the session.                                       *)
(*                                                                         *)
(* send_and_receive() awaits the response in the coroutine that sent the   *)
(* request, which puts exactly one notification into the queue and counts  *)
(* the request before anything else can run.                               *)
(***************************************************************************)
EXTENDS Naturals, Sequences

CONSTANTS
    UseTls,       \* config.use_tls
    EnforceTls,   \* config.enforce_tls
    Cycles,       \* config.sdp_retry_cycles
    MaxRequests,  \* SDP_MAX_REQUEST_COUNTER
    MaxPackets    \* bound: datagrams that reach the UDP client

ASSUME EvccHandlerAssumption ==
    /\ UseTls \in BOOLEAN /\ EnforceTls \in BOOLEAN
    /\ Cycles \in Nat /\ MaxRequests \in Nat \ {0} /\ MaxPackets \in Nat

VARIABLES
    udp,       \* "starting", "started", or "failed": started is False for good
    sdp,       \* of the coroutine in restart_sdp: "idle", "sending", "waiting"
    cycles,    \* _sdp_retry_cycles
    retries,   \* sdp_retries_number
    inbox,     \* _rcv_queue of the UDP client
    queue,     \* _rcv_queue of the handler
    session,   \* comm_session: "none", running on a connection that is "tls" or
               \* "plain", "notified" at its end, or "lost" when its task died
    fate,      \* of the process: "alive", "finished", or "dead" of an exception
    dropped,   \* history: why a handler returned without a sequel, or "none"
    requests,  \* history: SDP requests sent
    packets    \* history: datagrams received

progress == <<cycles, retries>>
counts   == <<requests, packets>>
vars     == <<udp, sdp, progress, inbox, queue, session, fate, dropped, counts>>

\* What a datagram decodes to: an SDP response for TLS or without it; a response
\* of the wrong length or another message; no V2GTP message at all; or a
\* response whose security byte or port is out of range.
Datagrams == {"tls", "plain", "bad", "garbage", "malformed"}
Notifications == Datagrams \cup {"timeout", "stopped", "failed"}

Init ==
    /\ udp = "starting" /\ sdp = "idle"
    /\ cycles = Cycles /\ retries = MaxRequests
    /\ inbox = <<>> /\ queue = <<>>
    /\ session = "none" /\ fate = "alive" /\ dropped = "none"
    /\ requests = 0 /\ packets = 0

-----------------------------------------------------------------------------
(* The UDP client.                                                         *)

\* connection_made() sets started; error_received() and connection_lost()
\* clear it, and nothing sets it again.
ConnectionMade ==
    /\ fate = "alive" /\ udp = "starting"
    /\ udp' = "started"
    /\ UNCHANGED <<sdp, progress, inbox, queue, session, fate, dropped, counts>>

ErrorReceived ==
    /\ fate = "alive" /\ udp = "started"
    /\ udp' = "failed"
    /\ UNCHANGED <<sdp, progress, inbox, queue, session, fate, dropped, counts>>

\* Once a request has given the socket an address, datagrams arrive at any time:
\* late, duplicated, or never.
DatagramReceived(d) ==
    /\ fate = "alive" /\ requests > 0 /\ packets < MaxPackets
    /\ inbox' = Append(inbox, d)
    /\ packets' = packets + 1
    /\ UNCHANGED <<udp, sdp, progress, queue, session, fate, dropped, requests>>

\* send_sdp waits until the client has started.
Send ==
    /\ fate = "alive" /\ sdp = "sending" /\ udp = "started"
    /\ sdp' = "waiting"
    /\ requests' = requests + 1
    /\ UNCHANGED <<udp, progress, inbox, queue, session, fate, dropped, packets>>

\* Mutant: the client goes on waiting after it has reported the timeout.
ReceiveOn ==
    /\ fate = "alive" /\ sdp = "waiting"
    /\ IF inbox = <<>>
       THEN queue' = Append(queue, "timeout") /\ UNCHANGED <<inbox, sdp>>
       ELSE /\ queue' = Append(queue, Head(inbox)) /\ inbox' = Tail(inbox)
            /\ sdp' = "idle"
    /\ retries' = retries - 1
    /\ UNCHANGED <<udp, cycles, session, fate, dropped, counts>>

\* Mutant: the timeout is not reported.
ReceiveSilent ==
    /\ fate = "alive" /\ sdp = "waiting"
    /\ IF inbox = <<>>
       THEN UNCHANGED <<queue, inbox>>
       ELSE queue' = Append(queue, Head(inbox)) /\ inbox' = Tail(inbox)
    /\ sdp' = "idle"
    /\ retries' = retries - 1
    /\ UNCHANGED <<udp, cycles, session, fate, dropped, counts>>

\* The oldest datagram, whatever request it answers, or after 250 ms a timeout.
Receive ==
    /\ fate = "alive" /\ sdp = "waiting"
    /\ IF inbox = <<>>
       THEN queue' = Append(queue, "timeout") /\ UNCHANGED inbox
       ELSE queue' = Append(queue, Head(inbox)) /\ inbox' = Tail(inbox)
    /\ sdp' = "idle"
    /\ retries' = retries - 1
    /\ UNCHANGED <<udp, cycles, session, fate, dropped, counts>>

-----------------------------------------------------------------------------
(* restart_sdp.                                                            *)

Drop(why) == dropped' = why /\ UNCHANGED <<sdp, fate>>

\* A new cycle starts over with all its requests; otherwise the requests that
\* are left in this one go on.  SDPFailedError is only logged by its callers.
RestartSdp(new) ==
    IF new /\ cycles = 0
    THEN Drop("sdp failed") /\ UNCHANGED progress
    ELSE /\ cycles' = IF new THEN cycles - 1 ELSE cycles
         /\ retries' = IF new \/ retries = 0 THEN MaxRequests ELSE retries
         /\ IF new \/ retries > 0
            THEN sdp' = "sending" /\ UNCHANGED <<fate, dropped>>
            ELSE Drop("sdp failed")

\* The first task of the process: here SDPFailedError ends it.
Start ==
    /\ fate = "alive" /\ sdp = "idle" /\ cycles = Cycles
    /\ IF Cycles = 0
       THEN fate' = "dead" /\ UNCHANGED <<sdp, progress, dropped>>
       ELSE RestartSdp(TRUE)
    /\ UNCHANGED <<udp, inbox, queue, session, counts>>

-----------------------------------------------------------------------------
(* The handler's queue.                                                    *)

Takes(kind) ==
    /\ fate = "alive" /\ sdp = "idle"
    /\ queue # <<>> /\ Head(queue) = kind
    /\ queue' = Tail(queue)

Mismatch(tls) == (~tls /\ EnforceTls) \/ (tls /\ ~UseTls)

\* connected: the TCP or TLS connection was made; protocols: create_sap finds
\* one to offer (DIN SPEC 70121 is not offered over TLS); sent: the request got
\* out, or the error of the stream ends the process; context: get_ssl_context()
\* could load the OEM's certificate chain, which TLS 1.3 asks for.  Without a
\* context the TCP client connects in plain, whatever the response has said.
HandleResponse(security, connected, protocols, sent, context) ==
    /\ Takes(security)
    /\ IF Mismatch(security = "tls")
       THEN Drop("security mismatch") /\ UNCHANGED session
       ELSE IF ~connected THEN Drop("not connected") /\ UNCHANGED session
       ELSE IF ~protocols THEN Drop("no protocol") /\ UNCHANGED session
       ELSE /\ session' = IF ~sent THEN session
                          ELSE IF context THEN security ELSE "plain"
            /\ fate' = IF sent THEN "alive" ELSE "dead"
            /\ UNCHANGED <<sdp, dropped>>
    /\ UNCHANGED <<udp, progress, inbox, counts>>

\* Mutant: the new cycle is not counted.
HandleBadResponseUncounted ==
    /\ Takes("bad")
    /\ sdp' = "sending" /\ retries' = MaxRequests
    /\ UNCHANGED <<udp, cycles, inbox, session, fate, dropped, counts>>

HandleBadResponse ==
    /\ Takes("bad")
    /\ RestartSdp(TRUE)
    /\ UNCHANGED <<udp, inbox, session, counts>>

\* InvalidV2GTPMessageError is logged.
HandleGarbage ==
    /\ Takes("garbage")
    /\ Drop("garbage")
    /\ UNCHANGED <<udp, progress, inbox, session, counts>>

\* A ValueError or AttributeError ends the task, and with it the process.
HandleMalformed ==
    /\ Takes("malformed")
    /\ fate' = "dead"
    /\ UNCHANGED <<udp, sdp, progress, inbox, session, dropped, counts>>

HandleTimeout ==
    /\ Takes("timeout")
    /\ RestartSdp(FALSE)
    /\ UNCHANGED <<udp, inbox, session, counts>>

\* The session is deleted; without one, that would end the process.
HandleStop(kind) ==
    /\ Takes(kind)
    /\ IF session = "none"
       THEN fate' = "dead" /\ UNCHANGED <<sdp, progress, session, dropped>>
       ELSE /\ session' = "none"
            /\ IF kind = "stopped"
               THEN fate' = "finished" /\ UNCHANGED <<sdp, progress, dropped>>
               ELSE RestartSdp(TRUE)
    /\ UNCHANGED <<udp, inbox, counts>>

\* The session ends, after the seconds stop() takes, or its task dies there.
SessionEnds(kind) ==
    /\ fate = "alive" /\ session \in {"tls", "plain"}
    /\ session' = "notified"
    /\ queue' = Append(queue, kind)
    /\ UNCHANGED <<udp, sdp, progress, inbox, fate, dropped, counts>>

SessionLost ==
    /\ fate = "alive" /\ session \in {"tls", "plain"}
    /\ session' = "lost"
    /\ UNCHANGED <<udp, sdp, progress, inbox, queue, fate, dropped, counts>>

Serve ==
    \/ \E security \in {"tls", "plain"},
          connected, protocols, sent, context \in BOOLEAN :
            HandleResponse(security, connected, protocols, sent, context)
    \/ HandleBadResponse \/ HandleGarbage \/ HandleMalformed
    \/ HandleTimeout
    \/ \E kind \in {"stopped", "failed"} : HandleStop(kind)

Next ==
    \/ ConnectionMade \/ ErrorReceived \/ Start \/ Send \/ Receive \/ Serve
    \/ \E d \in Datagrams : DatagramReceived(d)
    \/ \E kind \in {"stopped", "failed"} : SessionEnds(kind)
    \/ SessionLost

\* The event loop runs the coroutines that are ready and the 250 ms timer; the
\* network and the session owe nothing.
Fairness ==
    /\ WF_vars(ConnectionMade) /\ WF_vars(Start)
    /\ WF_vars(Send) /\ WF_vars(Receive) /\ WF_vars(Serve)

Spec == Init /\ [][Next]_vars /\ Fairness

-----------------------------------------------------------------------------
(* Properties.                                                             *)

\* Every variable keeps its type.
TypeOK ==
    /\ udp \in {"starting", "started", "failed"}
    /\ sdp \in {"idle", "sending", "waiting"}
    /\ cycles \in 0 .. Cycles /\ retries \in 0 .. MaxRequests
    /\ inbox \in Seq(Datagrams) /\ queue \in Seq(Notifications)
    /\ session \in {"none", "tls", "plain", "notified", "lost"}
    /\ fate \in {"alive", "finished", "dead"}
    /\ dropped \in {"none", "sdp failed", "security mismatch", "not connected",
                    "no protocol", "garbage"}
    /\ requests \in Nat /\ packets \in 0 .. MaxPackets

Running == session \in {"tls", "plain"}

\* The handler never has two things to wait for: a request under way, a
\* notification of discovery, or a session.  So no second session is started,
\* no request is sent during one, and a StopNotification finds its session.
OneThingPending ==
    /\ Len(queue) <= 1
    /\ sdp # "idle" => queue = <<>> /\ session = "none"
    /\ queue # <<>> =>
         session = IF Head(queue) \in {"stopped", "failed"} THEN "notified"
                                                           ELSE "none"
    /\ dropped # "none" => sdp = "idle" /\ queue = <<>> /\ session = "none"

\* A cycle sends MaxRequests requests at most ("50 SDP requests in total"), and
\* there are as many cycles as the configuration allows, whatever arrives.
RequestsBounded == requests <= Cycles * MaxRequests

\* With enforce_tls the EV "only accepts TLS-secured communication sessions"
\* (comment in process_incoming_udp_packet).
OnlySecured == EnforceTls => session # "plain"

\* Discovery comes to an end: a session starts, the process ends, or the
\* handler has dropped the attempt - unless the UDP client has failed.
DiscoveryEnds ==
    sdp # "idle" ~> \/ Running \/ dropped # "none" \/ fate # "alive"
                    \/ udp = "failed"
=============================================================================
