------------------------------- MODULE V2Link -------------------------------
(***************************************************************************)
(* An EVCC of this repository in one ISO 15118-2 session over a TCP        *)
(* connection, with an SECC of this repository (SeccV2 serves the requests *)
(* that EvccV2 sends) or with one of another make, which answers anything. *)
(* With this SECC the parameters of a handler that the two modules leave open are what the    *)
(* peer has sent: the identifier, the mode, the schedule and the progress  *)
(* of a request, the code, identifier, processing status, options and      *)
(* schedules of a response.  The EV controller takes a schedule of the     *)
(* list, in the mode it has selected, to start charging or to delay it.    *)
(***************************************************************************)
EXTENDS SeccV2, EvccV2

ASSUME V2LinkAssumption ==
    /\ Ids = SessionIds /\ ZeroId = NoId
    /\ Schedules = Tuples /\ NoSchedule = NoTuple

VARIABLES
    ours,  \* the SECC is one of this repository
    wire,  \* a request of the EVCC is in the stream and not yet served
    reply  \* the response the EVCC is to process, when one has arrived

linkVars == <<vars, varsEV, ours, wire, reply>>

NoReply == [type |-> "none", ok |-> FALSE, sid |-> NoId, moved |-> FALSE,
            options |-> {}, list |-> {}]

\* send_sap() precedes the receive loop of the EVCC.
InitLink ==
    /\ Init /\ InitEV /\ secure = tls
    /\ ours \in BOOLEAN /\ wire = ours /\ reply = NoReply

-----------------------------------------------------------------------------
(* The SECC serves the request in the stream.                              *)

\* The SECC's handler for the request of the EVCC's state.
ServesSetup ==
    \/ /\ current = "SupportedAppProtocol"
       /\ \E supported \in BOOLEAN : SupportedAppProtocol(supported)
    \/ current = "SessionSetup" /\ \E new \in SessionIds : SessionSetup(evId, new)
    \/ /\ current = "ServiceDiscovery"
       /\ \E eim \in BOOLEAN : ServiceDiscovery(evId, TRUE, eim)
    \/ current = "ServiceDetail" /\ ServiceDetail(evId, "Certificate")
    \/ /\ current = "PaymentServiceSelection"
       /\ \E chosen \in SUBSET services :
            PaymentServiceSelection(evId, chosen \cup {"Charging"}, option)
    \/ /\ current = "CertificateInstallation"
       /\ \E sigOk, built \in BOOLEAN : CertificateInstallation(evId, sigOk, built)
    \/ /\ current = "PaymentDetails"
       /\ \E certsOk \in BOOLEAN, answer \in Answers, code \in AnswerCodes :
            PaymentDetails(evId, certsOk, answer, code)
    \/ /\ current = "Authorization"
       /\ \E sigOk, ready \in BOOLEAN, answer \in Answers, code \in AnswerCodes :
            Authorization(evId, TRUE, sigOk, answer, code, ready)

ServesCharging ==
    \/ /\ current = "ChargeParameterDiscovery"
       /\ \E list \in SUBSET Tuples :
            ChargeParameterDiscovery(evId, IF ac THEN "AC" ELSE "DC", list)
    \/ /\ current = "CableCheck"
       /\ \E evError \in BOOLEAN, contactor \in {"closed", "open", "unknown"},
             isolation \in {"valid", "fault", "pending"} :
               CableCheck(evId, evError, contactor, isolation)
    \/ current = "PreCharge" /\ \E fault \in BOOLEAN : PreCharge(evId, fault)
    \/ /\ current = "PowerDelivery"
       /\ \E profileOk, contactorOk \in BOOLEAN :
            PowerDelivery(evId, progress, schedule, profileOk, contactorOk)
    \/ current = "ChargingStatus" /\ ChargingStatus(evId)
    \/ /\ current = "CurrentDemand"
       /\ \E commandOk \in BOOLEAN : CurrentDemand(evId, commandOk)
    \/ current = "WeldingDetection" /\ WeldingDetection(evId)
    \/ current = "SessionStop" /\ SessionStop(evId, FALSE)

Passes == {"OK", "OK_SuccessfulNegotiation", "OK_OldSessionJoined",
           "OK_NewSessionEstablished", "Failed_NoNegotiation"}

\* The response; it finds no reader when the EVCC has given up meanwhile.
\* Codes without "FAILED" in them pass the EVCC's check_msg.
Serve ==
    /\ ours /\ wire /\ wire' = FALSE /\ UNCHANGED ours
    /\ ServesSetup \/ ServesCharging \/ Refuse(current, evId)
    /\ IF life = "open"
       THEN /\ Arrive
            /\ reply' = [type |-> current, ok |-> res' \in Passes,
                         sid |-> sessionId', moved |-> st' # current,
                         options |-> offeredAuth', list |-> offered']
       ELSE UNCHANGED <<varsEV, reply>>

\* A timeout, an exception, or the end of the stream.
SeccGivesUp == ours /\ Abort /\ UNCHANGED <<varsEV, ours, wire, reply>>

SeccStops ==
    /\ EndSession \/ CloseConnection
    /\ UNCHANGED <<varsEV, ours, wire, reply>>

-----------------------------------------------------------------------------
(* The EVCC processes the response.                                        *)

\* r.moved is EVSEProcessing FINISHED, or in the first response the agreement on
\* a protocol.  This SECC never asks for a metering receipt.
Processes(r) ==
    \/ SupportedAppProtocolRes(r.moved)
    \/ SessionSetupRes(r.sid)
    \/ \E mode \in {"AC", "DC"}, n \in 0 .. MaxServices :
         /\ n <= Cardinality(services)
         /\ ServiceDiscoveryRes(r.sid, TRUE, "PNC" \in r.options, mode = "AC",
                                mode \in Modes, n)
    \/ ServiceDetailRes(r.sid)
    \/ \E needed, keys \in BOOLEAN : PaymentServiceSelectionRes(r.sid, needed, keys)
    \/ \E installed \in BOOLEAN : CertificateInstallationRes(r.sid, installed)
    \/ \E keys \in BOOLEAN : PaymentDetailsRes(r.sid, keys)
    \/ AuthorizationRes(r.sid, r.moved)
    \/ \E tuple \in Tuples, choice \in {"Start", "Stop"} :
         /\ r.moved => tuple \in r.list
         /\ ChargeParameterDiscoveryRes(r.sid, r.moved, choice, tuple)
    \/ \E safe \in BOOLEAN : CableCheckRes(r.sid, r.moved, safe)
    \/ \E precharged \in BOOLEAN : PreChargeRes(r.sid, precharged)
    \/ PowerDeliveryRes(r.sid)
    \/ \E n \in Notifications, going \in BOOLEAN :
         \/ ChargingStatusRes(r.sid, FALSE, TRUE, n, going)
         \/ CurrentDemandRes(r.sid, n, going)
    \/ \E finished \in BOOLEAN : WeldingDetectionRes(r.sid, finished)
    \/ SessionStopRes(r.sid)

\* A WeldingDetection instance that has sent its message before sends it again
\* when it fails.
Resends == current = "WeldingDetection" /\ timer # "off"

EvTurn ==
    /\ ours /\ reply' = NoReply
    /\ \/ /\ \/ reply.ok /\ Processes(reply)
             \/ RefuseEV(reply.type, reply.ok, reply.sid)
          /\ wire' = (life' = "open" \/ Resends)
       \/ AbortEV /\ wire' = FALSE
    /\ UNCHANGED <<vars, ours>>

\* The response of another SECC arrives, or is processed.
ForeignTurn == ~ours /\ (Arrive \/ Turn) /\ UNCHANGED <<vars, ours, wire, reply>>

\* The response is late, or the stream has ended.
EvGivesUp == TimeoutEV /\ UNCHANGED <<vars, ours, wire, reply>>

EvTime ==
    /\ TimerExpires \/ Disable \/ Close
    /\ UNCHANGED <<vars, ours, wire, reply>>

NextLink == Serve \/ SeccGivesUp \/ SeccStops \/ EvTurn \/ ForeignTurn
            \/ EvGivesUp \/ EvTime

\* Each receive loop gets a message or its timer fires; what has arrived is
\* processed, the ongoing timer runs out, and stop() runs to its end.
FairnessLink ==
    /\ WF_linkVars(Serve \/ SeccGivesUp) /\ WF_linkVars(SeccStops)
    /\ WF_linkVars(Serve \/ ForeignTurn \/ EvGivesUp)
    /\ WF_linkVars(EvTurn) /\ WF_linkVars(ForeignTurn)
    /\ WF_linkVars(TimerExpires /\ UNCHANGED <<vars, ours, wire, reply>>)
    /\ WF_linkVars(Disable /\ UNCHANGED <<vars, ours, wire, reply>>)
    /\ WF_linkVars(Close /\ UNCHANGED <<vars, ours, wire, reply>>)

SpecLink == InitLink /\ [][NextLink]_linkVars /\ FairnessLink

-----------------------------------------------------------------------------
(* Properties.                                                             *)

\* An EV controller that delays the start of an AC session (ChargeProgress=Stop)
\* leaves the EVCC without a note of it: it goes on to ask for the charging
\* status of an SECC that waits for the end of the session.
Delayed == current = "ChargingStatus" /\ progress = "Stop"

\* This EVCC never sends this SECC a request of another session, and none out of
\* sequence except after a delayed start, whatever the controllers answer.
NoSequenceError ==
    ours =>
        /\ res # "FAILED_UnknownSession"
        /\ res = "FAILED_SequenceError" => Delayed /\ st = "SessionStop"

\* While the EVCC is in the charging loop so is the SECC, unless the start was
\* delayed, and they have the same session, payment option, charging type and
\* schedule.
AgreedInLoop ==
    ours /\ phase = "open" /\ life = "open" /\ current \in LoopEV
         /\ reply = NoReply =>
        /\ evId = sessionId /\ option = selectedAuth
        /\ ac = isAC /\ granted
        /\ IF Delayed THEN st = "SessionStop"
                      ELSE st = current /\ schedule = selected

\* The SECC delivers power only to a vehicle in which charging is enabled, as
\* long as the vehicle takes part in the session; and when the vehicle tests
\* for welded contactors both sides have switched off.
PowerIntoVehicle ==
    ours /\ life = "open" =>
        /\ charger # "off" => enabled
        /\ current = "WeldingDetection" => charger = "off" /\ ~enabled
        /\ current = "SessionStop" => charger = "off"

\* What the EVCC reports as a success the SECC has ended as well, by the
\* SessionStopReq of this session.
SuccessAgreed ==
    ours /\ success =>
        phase # "open" /\ st = "SessionStop" /\ outcome = "terminate"

\* Neither side stays in a session that the other one has left.
EndTogether ==
    /\ ours /\ life = "ended" ~> phase = "ended"
    /\ phase = "ended" ~> life = "ended"
=============================================================================
