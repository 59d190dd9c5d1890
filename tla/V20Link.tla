------------------------------ MODULE V20Link ------------------------------
(***************************************************************************)
(* An EVCC of this repository in an ISO 15118-20 session over a TCP        *)
(* connection, with an SECC of this repository (SeccV20 serves what        *)
(* EvccV20 asks for) or with one of another make, which answers anything.  *)
(*                                                                         *)
(* As in V2Link the parameters of a handler that the two modules leave     *)
(* open are what the peer has sent.  The two controllers answer anything,  *)
(* with two exceptions: the EV can use every energy service, each of which *)
(* has a control mode, and as this SECC never sets GoToPause, the EV starts*)
(* with the profile it has made.                                           *)
(***************************************************************************)
EXTENDS SeccV20, EvccV20

ASSUME V20LinkAssumption ==
    /\ Ids = SessionIds /\ ZeroId = NoId
    /\ ACEnergy = ACServices /\ DCEnergy = DCServices
    /\ OtherEnergy \subseteq OtherServices \ ValueAdded /\ NoEnergy = NoService
    /\ Schedules = Tuples /\ NoSchedule = NoTuple

VARIABLES
    ours,  \* the SECC is one of this repository
    wire,  \* a request of the EVCC is in the stream and not yet served
    reply  \* the response the EVCC is to process, when one has arrived

linkVars == <<vars, varsEV, ours, wire, reply>>

NoReply == [type |-> "none", ok |-> FALSE, sid |-> NoId, finished |-> FALSE,
            offer |-> {}, tuples |-> {}]

\* send_sap() precedes the receive loop of the EVCC.
InitLink ==
    /\ Init /\ InitEV
    /\ ours \in BOOLEAN /\ wire = ours /\ reply = NoReply

-----------------------------------------------------------------------------
(* The SECC serves the request in the stream; f: what its response says of *)
(* EVSEProcessing, or of the protocols offered.                            *)

ServesSetup(f) ==
    \/ current = "SupportedAppProtocol" /\ SupportedAppProtocol(f)
    \/ /\ current = "SessionSetup" /\ f
       /\ \E new \in SessionIds : SessionSetup(evId, new)
    \/ current = "AuthorizationSetup" /\ f /\ AuthorizationSetup(evId)
    \/ current = "CertificateInstallation" /\ f /\ CertificateInstallation(evId)
    \/ /\ current = "Authorization"
       /\ \E sigOk, challengeOk \in BOOLEAN, answer \in Answers,
             code \in {"none", "OK", "FAILED"} :
            /\ f = (answer # "ongoing")
            /\ Authorization(evId, said = "PNC", sigOk, challengeOk, answer, code)
    \/ /\ current = "ServiceDiscovery" /\ f
       /\ \E offer, sets \in SUBSET Services : ServiceDiscovery(evId, offer, sets)
    \/ current = "ServiceDetail" /\ f /\ ServiceDetail(evId, asked)
    \/ /\ current = "ServiceSelection" /\ f
       /\ \E vasOk \in BOOLEAN : ServiceSelection(evId, energy, control, vasOk)

ServesCharging(f) ==
    \/ /\ current \in {"ACChargeParameterDiscovery", "DCChargeParameterDiscovery"}
       /\ f /\ \E known \in BOOLEAN : ChargeParameters(current, evId, known)
    \/ /\ current = "ScheduleExchange"
       /\ \E fits \in BOOLEAN, tuples \in (SUBSET Tuples) \ {{}} :
            ScheduleExchange(evId, fits, f, tuples)
    \/ /\ current = "DCCableCheck"
       /\ \E contactor \in {"closed", "open", "unknown"},
             isolation \in {"valid", "fault", "pending"} :
            DCCableCheck(evId, contactor, isolation)
       /\ f = (st' = "DCPreCharge")
    \/ /\ current = "DCPreCharge" /\ f
       /\ \E commandOk \in BOOLEAN : DCPreCharge(evId, said = "finished", commandOk)
    \/ /\ current = "PowerDelivery" /\ f
       /\ \E contactorOk \in BOOLEAN :
            PowerDelivery(evId, said = "ongoing", said, profile, contactorOk)
    \/ current = "ACChargeLoop" /\ f /\ ACChargeLoop(evId)
    \/ /\ current = "DCChargeLoop" /\ f
       /\ \E commandOk \in BOOLEAN : DCChargeLoop(evId, commandOk)
    \/ current = "DCWeldingDetection" /\ f /\ DCWeldingDetection(evId)
    \/ current = "SessionStop" /\ f /\ SessionStop(evId, said)

\* Codes without "FAILED" in them pass the EVCC's check_msg.
Passes == {"OK", "OK_SuccessfulNegotiation", "OK_NewSessionEstablished",
           "WARNING_ChallengeInvalid", "WARNING_StandbyNotAllowed",
           "Failed_NoNegotiation"}

\* The response, if there is one; it finds no reader when the EVCC has given up
\* meanwhile.  This EVCC discovers once, so matched is what was offered.
Serve ==
    /\ ours /\ wire /\ wire' = FALSE
    /\ \E f \in BOOLEAN :
         /\ ServesSetup(f) \/ ServesCharging(f) \/ (f /\ Refuse(current, evId))
         /\ IF life = "open" /\ res' # "none"
            THEN /\ Arrive
                 /\ reply' = [type |-> current, ok |-> res' \in Passes,
                              sid |-> sessionId', finished |-> f,
                              offer |-> matched', tuples |-> offered']
            ELSE UNCHANGED <<varsEV, reply>>
    /\ UNCHANGED ours

\* A timeout, an exception, or the end of the stream.
SeccGivesUp == ours /\ Abort /\ UNCHANGED <<varsEV, ours, wire, reply>>

SeccStops ==
    /\ EndSession \/ CloseConnection
    /\ UNCHANGED <<varsEV, ours, wire, reply>>

-----------------------------------------------------------------------------
(* The EVCC processes the response.                                        *)

Processes(r) ==
    \/ SupportedAppProtocolRes(r.finished)
    \/ SessionSetupRes(r.sid)
    \/ \E install, pnc \in BOOLEAN : AuthorizationSetupRes(r.sid, install, pnc)
    \/ AuthorizationRes(r.sid, r.finished)
    \/ ServiceDiscoveryRes(r.sid, r.offer \cap Energy, Renegotiable)
    \/ \E chosen \in Energy, m \in {"SCHEDULED", "DYNAMIC"} :
         ServiceDetailRes(r.sid, asked, chosen, m)
    \/ ServiceSelectionRes(r.sid)
    \/ ACChargeParameterDiscoveryRes(r.sid) \/ DCChargeParameterDiscoveryRes(r.sid)
    \/ \E verdict \in Verdicts \ {"Stop"}, tuple \in Schedules \cup {NoSchedule} :
         \/ ScheduleExchangeRes(r.sid, r.finished, r.tuples, verdict, tuple)
         \/ \E before, now \in BOOLEAN :
              DCPreChargeRes(r.sid, before, now, verdict, tuple)
         \/ PowerDeliveryRes(r.sid, verdict, tuple)
    \/ DCCableCheckRes(r.sid, r.finished)
    \/ \E n \in Notifications, going \in BOOLEAN :
         ACChargeLoopRes(r.sid, n, going) \/ DCChargeLoopRes(r.sid, n, going)
    \/ SessionStopRes(r.sid)

\* An instance that has asked before repeats its last request when it fails,
\* unless it fails by an exception.
Repeats == again \/ (current = "DCWeldingDetection" /\ timer # "off")

EvTurn ==
    /\ ours /\ arrived
    /\ reply' = NoReply
    /\ \/ /\ \/ reply.ok /\ Processes(reply)
             \/ \E finished \in BOOLEAN : DCWeldingDetectionRes(finished)
             \/ RefuseEV(reply.type, reply.ok, reply.sid)
          /\ wire' = (life' = "open" \/ Repeats)
       \/ AbortEV /\ wire' = FALSE
    /\ UNCHANGED <<vars, ours>>

\* The response of another SECC arrives, or is processed.
ForeignTurn == ~ours /\ (Arrive \/ Turn) /\ UNCHANGED <<vars, ours, wire, reply>>

\* The response is late, or the stream has ended.
EvGivesUp == TimeoutEV /\ UNCHANGED <<vars, ours, wire, reply>>

EvTime ==
    /\ TimerExpires \/ Disable \/ Close
    /\ UNCHANGED <<vars, ours, wire, reply>>

NextLink == Serve \/ SeccGivesUp \/ SeccStops \/ EvTurn \/ ForeignTurn
            \/ EvGivesUp \/ EvTime

\* Each receive loop gets a message or its timer fires; what has arrived is
\* processed, the ongoing timer runs out, and stop() runs to its end.
FairnessLink ==
    /\ WF_linkVars(Serve \/ SeccGivesUp) /\ WF_linkVars(SeccStops)
    /\ WF_linkVars(Serve \/ ForeignTurn \/ EvGivesUp)
    /\ WF_linkVars(EvTurn) /\ WF_linkVars(ForeignTurn)
    /\ WF_linkVars(TimerExpires /\ UNCHANGED <<vars, ours, wire, reply>>)
    /\ WF_linkVars((Disable \/ Close) /\ UNCHANGED <<vars, ours, wire, reply>>)

SpecLink == InitLink /\ [][NextLink]_linkVars /\ FairnessLink

-----------------------------------------------------------------------------
(* Properties of the pair.                                                 *)

\* Whatever the controllers answer, this EVCC asks this SECC for no service it
\* does not know, names no schedule it has not been offered, stays in its
\* session, and keeps the sequence, with one exception: a DCPreChargeReq after
\* one that said the EV had finished.
RequestsFit ==
    ours =>
        /\ res \notin {"FAILED_UnknownSession", "FAILED_ServiceIDInvalid",
                       "FAILED_NoEnergyTransferServiceSelected",
                       "FAILED_ScheduleSelectionInvalid"}
        /\ res = "FAILED_SequenceError" =>
             st = "PowerDelivery" /\ current = "DCPreCharge"

\* While both sides are in the charging loop they have the same session, energy
\* service, control mode and schedule.
AgreedInLoop ==
    ours /\ phase = "open" /\ life = "open" /\ current \in LoopEV
         /\ reply = NoReply =>
        /\ evId = sessionId /\ st = current
        /\ energy = service /\ control = mode
        /\ control = "SCHEDULED" => profile = accepted /\ profile \in list

\* The SECC delivers power only to a vehicle in which charging is enabled, as
\* long as the vehicle takes part in the session; and when the vehicle tests
\* for welded contactors, or asks for the end, both sides have switched off.
PowerIntoVehicle ==
    ours /\ life = "open" =>
        /\ charger # "off" \/ (hlc /\ phase = "open") => enabled
        /\ current \in {"DCWeldingDetection", "SessionStop"} =>
             charger = "off" /\ ~enabled

\* What the EVCC reports as a success the SECC has ended as one too, by the
\* SessionStopReq of this session.
SuccessAgreed ==
    ours /\ success => phase # "open" /\ st = "SessionStop"
                       /\ reason \in {"terminated", "paused"}

\* Neither side stays in a session that the other one has left.
EndTogether ==
    /\ ours /\ life = "ended" ~> phase = "ended"
    /\ phase = "ended" ~> life = "ended"
=============================================================================
