------------------------------ MODULE DinLink ------------------------------
(***************************************************************************)
(* A DIN SPEC 70121 session over a TCP connection: an SECC and an EVCC of  *)
(* this repository (SeccDin serves the requests that EvccDin sends), or    *)
(* one of them with a peer of another make, which sends anything.          *)
(*                                                                         *)
(* As in V2Link the parameters of a handler that the two modules leave     *)
(* open are what the peer has sent.  The two controllers answer anything,  *)
(* except that the EV does not continue charging once stop_charging() has  *)
(* been called, as in evcc/controller/simulator.py.                        *)
(***************************************************************************)
EXTENDS SeccDin, EvccDin

ASSUME DinLinkAssumption == Ids = SessionIds /\ ZeroId = NoId

VARIABLES
    pair,  \* which sides are of this repository: "SECC", "EVCC" or "both"
    wire,  \* a request of the EVCC is in the stream and not yet served
    reply  \* the response the EVCC is to process, when one has arrived

linkVars == <<vars, varsEV, pair, wire, reply>>

NoReply == [type |-> "none", ok |-> FALSE, sid |-> NoId, moved |-> FALSE]

\* send_sap() precedes the receive loop of the EVCC.
InitLink ==
    /\ Init /\ InitEV
    /\ pair \in {"SECC", "EVCC", "both"}
    /\ wire = (pair = "both") /\ reply = NoReply

-----------------------------------------------------------------------------
(* The SECC serves the request in the stream.                              *)

Serves ==
    \/ /\ current = "SupportedAppProtocol"
       /\ \E supported \in BOOLEAN : SupportedAppProtocol(supported)
    \/ current = "SessionSetup" /\ \E new \in SessionIds : SessionSetup(evId, new)
    \/ current = "ServiceDiscovery" /\ ServiceDiscovery(evId)
    \/ /\ current = "ServicePaymentSelection"
       /\ ServicePaymentSelection(evId, TRUE, TRUE)
    \/ /\ current = "ContractAuthentication"
       /\ \E answer \in Answers : ContractAuthentication(evId, answer)
    \/ /\ current = "ChargeParameterDiscovery"
       /\ \E supported, scheduled \in BOOLEAN :
            ChargeParameterDiscovery(evId, supported, scheduled)
    \/ /\ current = "CableCheck"
       /\ \E evError \in BOOLEAN, contactor \in {"closed", "open", "unknown"},
             isolation \in {"valid", "fault", "pending"} :
            CableCheck(evId, evError, contactor, isolation)
    \/ current = "PreCharge" /\ \E fault \in BOOLEAN : PreCharge(evId, fault)
    \/ /\ current = "PowerDelivery"
       /\ \E opened \in BOOLEAN : PowerDelivery(evId, ready, opened)
    \/ /\ current = "CurrentDemand"
       /\ \E commandOk \in BOOLEAN : CurrentDemand(evId, commandOk)
    \/ current = "WeldingDetection" /\ WeldingDetection(evId)
    \/ current = "SessionStop" /\ SessionStop(evId)

\* Codes without "FAILED" in them pass the EVCC's check_msg.
Passes == {"OK", "Failed_NoNegotiation"}

\* The response; it finds no reader when the EVCC has given up meanwhile.
\* moved is EVSEProcessing FINISHED, or in the first response the agreement on
\* a protocol.
Serve ==
    /\ pair = "both" /\ wire /\ wire' = FALSE
    /\ Serves \/ Refuse(current, evId)
    /\ IF life = "open"
       THEN /\ Arrive
            /\ reply' = [type |-> current, ok |-> res' \in Passes,
                         sid |-> sessionId', moved |-> st' # current]
       ELSE UNCHANGED <<varsEV, reply>>
    /\ UNCHANGED pair

\* An EVCC of another make sends anything, or nothing more.
ForeignRequest ==
    /\ pair = "SECC"
    /\ (\E sid \in SessionIds \cup {NoId} : Handle(sid)) \/ EvFallsSilent
    /\ UNCHANGED <<varsEV, pair, wire, reply>>

\* A timeout, an exception, or the end of the stream.
SeccGivesUp ==
    /\ \/ pair = "SECC" /\ (BreakOff \/ SequenceTimeout)
       \/ pair = "both" /\ Abort
    /\ UNCHANGED <<varsEV, pair, wire, reply>>

SeccStops ==
    /\ EndSession \/ CloseConnection
    /\ UNCHANGED <<varsEV, pair, wire, reply>>

-----------------------------------------------------------------------------
(* The EVCC processes the response.                                        *)

Processes(r) ==
    \/ SupportedAppProtocolRes(r.moved)
    \/ SessionSetupRes(r.sid)
    \/ \E usable \in BOOLEAN : ServiceDiscoveryRes(r.sid, usable)
    \/ ServicePaymentSelectionRes(r.sid)
    \/ ContractAuthenticationRes(r.sid, r.moved)
    \/ ChargeParameterDiscoveryRes(r.sid, r.moved)
    \/ \E safe \in BOOLEAN : CableCheckRes(r.sid, r.moved, safe)
    \/ \E precharged \in BOOLEAN : PreChargeRes(r.sid, precharged)
    \/ \E evseReady, going \in BOOLEAN :
         /\ halted => ~going
         /\ PowerDeliveryRes(r.sid, going) \/ CurrentDemandRes(r.sid, evseReady, going)
    \/ \E finished \in BOOLEAN : WeldingDetectionRes(r.sid, finished)
    \/ SessionStopRes(r.sid)

\* An instance that has asked before repeats its last request when it fails,
\* unless it fails by an exception.
EvTurn ==
    /\ pair = "both" /\ reply' = NoReply
    /\ \/ /\ \/ reply.ok /\ Processes(reply)
             \/ RefuseEV(reply.type, reply.ok, reply.sid)
          /\ wire' = (life' = "open" \/ again)
       \/ AbortEV /\ wire' = FALSE
    /\ UNCHANGED <<vars, pair>>

\* The response of an SECC of another make arrives, or is processed.
ForeignResponse ==
    /\ pair = "EVCC" /\ (Arrive \/ Turn)
    /\ UNCHANGED <<vars, pair, wire, reply>>

\* The response is late, or the stream has ended.
EvGivesUp == pair # "SECC" /\ TimeoutEV /\ UNCHANGED <<vars, pair, wire, reply>>

EvTime ==
    /\ TimerExpires \/ Disable \/ Close
    /\ UNCHANGED <<vars, pair, wire, reply>>

NextLink == Serve \/ ForeignRequest \/ SeccGivesUp \/ SeccStops
            \/ EvTurn \/ ForeignResponse \/ EvGivesUp \/ EvTime

\* Each receive loop of this repository gets a message or its timer fires; what
\* has arrived is processed, the ongoing timer runs out, and stop() runs to its
\* end.
FairnessLink ==
    /\ WF_linkVars(Serve \/ (SeccGivesUp /\ (silent \/ pair = "both")))
    /\ WF_linkVars(SeccStops)
    /\ WF_linkVars(Serve \/ ForeignResponse \/ EvGivesUp)
    /\ WF_linkVars(EvTurn)
    /\ WF_linkVars(ForeignResponse)
    /\ WF_linkVars(TimerExpires /\ UNCHANGED <<vars, pair, wire, reply>>)
    /\ WF_linkVars((Disable \/ Close) /\ UNCHANGED <<vars, pair, wire, reply>>)

SpecLink == InitLink /\ [][NextLink]_linkVars /\ FairnessLink

-----------------------------------------------------------------------------
(* Properties of the pair.                                                 *)

\* This EVCC stays in its session with this SECC and, as long as it takes part
\* in it, keeps the sequence (what it repeats when it gives up may come too
\* late), with one exception: an EV that no longer wants to continue when its
\* PowerDeliveryReq(ready) is answered tests for welded contactors, while the
\* SECC waits for a CurrentDemandReq.
RequestsFit ==
    pair = "both" =>
        /\ res # "FAILED_UnknownSession"
        /\ res = "FAILED_SequenceError" /\ life = "open" =>
             st = "CurrentDemand" /\ current = "WeldingDetection" /\ ready

\* As long as the vehicle takes part in the session, the SECC applies voltage
\* and announces HLC charging only while charging is enabled in the vehicle,
\* with the same exception; and both sides have switched off when the vehicle
\* tests for welded contactors, having asked for the stop, and at the end.  What
\* the EVCC reports as a success the SECC has ended as one.
PowerIntoVehicle ==
    pair = "both" =>
        /\ life = "open" =>
             \/ current = "WeldingDetection" /\ ready
             \/ /\ charger # "off" \/ (hlc /\ phase = "open") => enabled
                /\ current \in {"WeldingDetection", "SessionStop"} =>
                     charger = "off" /\ ~enabled
        /\ success => phase # "open" /\ reason = "terminated"

\* The states in which the EV may stay as long as it charges.
PatientEV == {"CurrentDemand", "PowerDelivery"}

\* Nobody waits for ever.  Whatever the SECC answers, the EV leaves the states
\* outside the charging loop; an EV that falls silent cannot keep the SECC in
\* the session; and neither side stays in one that the other has left.
EveryWaitEnds ==
    /\ life = "open" /\ current \notin PatientEV /\ pair # "SECC"
         ~> life # "open" \/ current \in PatientEV
    /\ silent ~> phase = "ended"
    /\ pair = "both" /\ life = "ended" ~> phase = "ended"
    /\ pair = "both" /\ phase = "ended" ~> life = "ended"
=============================================================================
