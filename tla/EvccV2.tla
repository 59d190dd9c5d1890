------------------------------- MODULE EvccV2 -------------------------------
(***************************************************************************)
(* The EVCC side of an ISO 15118-2 charging session: the receive loop of   *)
(* shared/comm_session.py driving the states of                            *)
(* evcc/states/iso15118_2_states.py, on one TCP connection.                *)
(*                                                                         *)
(* A state is named after the request it has sent, and processes the       *)
(* response.  The SECC answers anything its encoder admits, or nothing;    *)
(* the EV controller (EVControllerInterface) answers anything its          *)
(* interface allows.  The only controller command is enable_charging().    *)
(***************************************************************************)
EXTENDS Naturals

CONSTANTS
    Ids,         \* session identifiers an SECC may assign
    ZeroId,      \* "00", in a header before an identifier is assigned
    Schedules,   \* SAScheduleTuple identifiers
    NoSchedule,  \* no schedule selected (None)
    MaxServices  \* bound: certificate services in a ServiceDiscoveryRes

ASSUME EvccV2Assumption ==
    /\ ZeroId \notin Ids
    /\ NoSchedule \notin Schedules
    /\ MaxServices \in Nat

VARIABLES
    current,       \* class of comm_session.current_state
    arrived,       \* a response is in the stream reader
    life,          \* "open", "stopping" and "closing" (inside stop()), "ended"
    success,       \* stop_reason.successful
    evId,          \* comm_session.session_id
    secure,        \* is_tls
    option,        \* selected_auth_option, "none" before the selection
    details,       \* length of service_details_to_request
    ac,            \* selected_charging_type_is_ac
    schedule,      \* selected_schedule
    progress,      \* charge progress of the last PowerDeliveryReq
    finishing,     \* charging_session_stop_v2 is set (always to TERMINATE)
    renegotiating, \* renegotiation_requested
    timer,         \* ongoing_timer: "off" (-1), "running" or "expired"
    enabled,       \* last enable_charging() of the controller
    accepted,      \* history: the SECC has finished the authorization
    owner          \* history: the state that started the ongoing timer

identity == <<evId, secure, option, details>>
energyEV == <<ac, schedule, progress>>
wishes   == <<finishing, renegotiating>>
clock    == <<timer, owner>>
varsEV   == <<current, arrived, life, success, identity, energyEV, wishes, clock,
              enabled, accepted>>

SetupEV == {"SupportedAppProtocol", "SessionSetup", "ServiceDiscovery",
            "ServiceDetail", "PaymentServiceSelection",
            "CertificateInstallation", "PaymentDetails", "Authorization"}
LoopEV == {"ChargingStatus", "CurrentDemand"}
StatesEV == SetupEV \cup LoopEV \cup
            {"ChargeParameterDiscovery", "CableCheck", "PreCharge",
             "PowerDelivery", "MeteringReceipt", "WeldingDetection",
             "SessionStop"}

\* The response is to be processed next.
Reads == life = "open" /\ arrived /\ arrived' = FALSE

\* check_msg: the response to the request of this state, without a failure
\* code, in this session.
Matches(type, ok, sid) ==
    /\ type = current /\ ok
    /\ type \notin {"SupportedAppProtocol", "SessionSetup"} => sid = evId
Answered(type, sid) == Reads /\ Matches(type, TRUE, sid)

\* The next request is sent by the handler, and its state takes over.
Request(s) == current' = s /\ UNCHANGED <<life, success>>

\* Mutant: a failure is reported as a success.
GiveUpQuietly == life' = "stopping" /\ success' = TRUE /\ UNCHANGED current

\* stop_state_machine.
GiveUp == life' = "stopping" /\ success' = FALSE /\ UNCHANGED current

InitEV ==
    /\ current = "SupportedAppProtocol" /\ arrived = FALSE
    /\ life = "open" /\ success = FALSE
    /\ evId = ZeroId /\ secure \in BOOLEAN /\ option = "none" /\ details = 0
    /\ ac = TRUE /\ schedule = NoSchedule /\ progress = "none"
    /\ finishing = FALSE /\ renegotiating = FALSE
    /\ timer = "off" /\ owner = "none"
    /\ enabled = FALSE /\ accepted = FALSE

\* Mutant: every answer starts the time anew.
OngoingRestarted ==
    /\ Request(current)
    /\ timer' = "running" /\ owner' = current

\* The SECC is still processing: ask again until the ongoing timer, which the
\* first such answer starts, has run out.
Ongoing ==
    IF timer = "expired"
    THEN GiveUp /\ UNCHANGED clock
    ELSE /\ Request(current)
         /\ IF timer = "off"
            THEN timer' = "running" /\ owner' = current
            ELSE UNCHANGED clock

-----------------------------------------------------------------------------
(* Communication setup and identification.                                 *)

\* The response names a protocol that was offered (ISO 15118-2), or none.
SupportedAppProtocolRes(known) ==
    /\ Answered("SupportedAppProtocol", ZeroId)
    /\ IF known THEN Request("SessionSetup") ELSE GiveUp
    /\ UNCHANGED <<identity, energyEV, wishes, clock, enabled, accepted>>

SessionSetupRes(sid) ==
    /\ Answered("SessionSetup", sid)
    /\ Request("ServiceDiscovery")
    /\ evId' = sid
    /\ UNCHANGED <<secure, option, details, energyEV, wishes, clock, enabled,
                   accepted>>

\* pnc: the SECC offers Plug & Charge; acMode: the controller's energy transfer
\* mode, offered or not; certificates: services whose details are wanted.
ServiceDiscoveryRes(sid, charge, pnc, acMode, modeOffered, certificates) ==
    LET choice == IF pnc /\ secure THEN "PNC" ELSE "EIM" IN
    /\ Answered("ServiceDiscovery", sid)
    /\ certificates > 0 => choice = "PNC"
    /\ IF ~charge
       THEN GiveUp /\ UNCHANGED <<option, ac, details>>
       ELSE /\ option' = choice
            /\ ac' = acMode
            /\ IF ~modeOffered
               THEN GiveUp /\ details' = certificates
               ELSE IF certificates = 0
               THEN Request("PaymentServiceSelection") /\ UNCHANGED details
               ELSE Request("ServiceDetail") /\ details' = certificates - 1
    /\ UNCHANGED <<evId, secure, schedule, progress, wishes, clock, enabled,
                   accepted>>

ServiceDetailRes(sid) ==
    /\ Answered("ServiceDetail", sid)
    /\ IF details = 0
       THEN Request("PaymentServiceSelection") /\ UNCHANGED details
       ELSE Request("ServiceDetail") /\ details' = details - 1
    /\ UNCHANGED <<evId, secure, option, energyEV, wishes, clock, enabled,
                   accepted>>

\* needed: the controller wants a new contract certificate; keys: the files the
\* next request is built from can be read.
PaymentServiceSelectionRes(sid, needed, keys) ==
    /\ Answered("PaymentServiceSelection", sid)
    /\ IF option = "EIM" THEN Request("Authorization")
       ELSE IF ~keys THEN GiveUp
       ELSE Request(IF needed THEN "CertificateInstallation"
                              ELSE "PaymentDetails")
    /\ UNCHANGED <<identity, energyEV, wishes, clock, enabled, accepted>>

\* The signature verifies and the contract's key can be decrypted and stored.
CertificateInstallationRes(sid, installed) ==
    /\ Answered("CertificateInstallation", sid)
    /\ IF installed THEN Request("PaymentDetails") ELSE GiveUp
    /\ UNCHANGED <<identity, energyEV, wishes, clock, enabled, accepted>>

PaymentDetailsRes(sid, keys) ==
    /\ Answered("PaymentDetails", sid)
    /\ IF keys THEN Request("Authorization") ELSE GiveUp
    /\ UNCHANGED <<identity, energyEV, wishes, clock, enabled, accepted>>

\* Mutant: the ongoing timer is not reset.
AuthorizationResTimed(sid, finished) ==
    /\ Answered("Authorization", sid)
    /\ IF finished
       THEN Request("ChargeParameterDiscovery") /\ UNCHANGED clock
       ELSE Ongoing
    /\ accepted' = (accepted \/ finished)
    /\ UNCHANGED <<identity, energyEV, wishes, enabled>>

AuthorizationRes(sid, finished) ==
    /\ Answered("Authorization", sid)
    /\ IF finished
       THEN /\ Request("ChargeParameterDiscovery")
            /\ timer' = "off" /\ UNCHANGED owner
       ELSE Ongoing
    /\ accepted' = (accepted \/ finished)
    /\ UNCHANGED <<identity, energyEV, wishes, enabled>>

-----------------------------------------------------------------------------
(* Charge parameters, isolation, power delivery and the charging loop.     *)

PowerDeliveryReq(p) == Request("PowerDelivery") /\ progress' = p

\* choice and tuple: what process_sa_schedules_v2 makes of the offered list, to
\* start or "to delay the charging process (ChargeProgress=Stop)".
ChargeParameterDiscoveryRes(sid, finished, choice, tuple) ==
    /\ Answered("ChargeParameterDiscovery", sid)
    /\ IF finished
       THEN /\ timer' = "off" /\ UNCHANGED owner
            /\ enabled' = TRUE
            /\ schedule' = tuple
            /\ IF ac THEN PowerDeliveryReq(choice)
                     ELSE Request("CableCheck") /\ UNCHANGED progress
       ELSE Ongoing /\ UNCHANGED <<enabled, schedule, progress>>
    /\ UNCHANGED <<identity, ac, wishes, accepted>>

\* safe: the EVSE is ready and its isolation status valid.
CableCheckRes(sid, finished, safe) ==
    /\ Answered("CableCheck", sid)
    /\ IF finished
       THEN /\ timer' = "off" /\ UNCHANGED owner
            /\ IF safe THEN Request("PreCharge") ELSE GiveUp
       ELSE Ongoing
    /\ UNCHANGED <<identity, energyEV, wishes, enabled, accepted>>

\* The EV judges by the voltage the EVSE reports.
PreChargeRes(sid, precharged) ==
    /\ Answered("PreCharge", sid)
    /\ IF precharged
       THEN timer' = "off" /\ UNCHANGED owner /\ PowerDeliveryReq("Start")
       ELSE Ongoing /\ UNCHANGED progress
    /\ UNCHANGED <<identity, ac, schedule, wishes, enabled, accepted>>

ChargingLoopReq == Request(IF ac THEN "ChargingStatus" ELSE "CurrentDemand")

\* Mutant: only an AC session remembers that it is to be stopped.
PowerDeliveryResForgetful(sid) ==
    /\ Answered("PowerDelivery", sid)
    /\ IF finishing /\ ac THEN Request("SessionStop") /\ UNCHANGED wishes
       ELSE IF renegotiating
       THEN /\ Request("ChargeParameterDiscovery")
            /\ renegotiating' = FALSE /\ UNCHANGED finishing
       ELSE ChargingLoopReq /\ UNCHANGED wishes
    /\ UNCHANGED <<identity, energyEV, clock, enabled, accepted>>

\* Mutant: the contactors stay closed for welding detection.
PowerDeliveryResClosed(sid) ==
    /\ Answered("PowerDelivery", sid)
    /\ IF finishing
       THEN /\ Request(IF ac THEN "SessionStop" ELSE "WeldingDetection")
            /\ UNCHANGED wishes
       ELSE IF renegotiating
       THEN /\ Request("ChargeParameterDiscovery")
            /\ renegotiating' = FALSE /\ UNCHANGED finishing
       ELSE ChargingLoopReq /\ UNCHANGED wishes
    /\ UNCHANGED <<identity, energyEV, clock, enabled, accepted>>

\* Before welding detection the contactors open.  Whatever progress was asked
\* for, only the two wishes lead out of the charging loop.
PowerDeliveryRes(sid) ==
    /\ Answered("PowerDelivery", sid)
    /\ IF finishing
       THEN /\ Request(IF ac THEN "SessionStop" ELSE "WeldingDetection")
            /\ enabled' = (enabled /\ ac)
            /\ UNCHANGED wishes
       ELSE /\ IF renegotiating
               THEN /\ Request("ChargeParameterDiscovery")
                    /\ renegotiating' = FALSE /\ UNCHANGED finishing
               ELSE ChargingLoopReq /\ UNCHANGED wishes
            /\ UNCHANGED enabled
    /\ UNCHANGED <<identity, energyEV, clock, accepted>>

StopCharging == PowerDeliveryReq("Stop") /\ finishing' = TRUE
                /\ UNCHANGED renegotiating

RenegotiateEV == PowerDeliveryReq("Renegotiate") /\ renegotiating' = TRUE
                 /\ UNCHANGED finishing

\* notification: EVSENotification of the SECC; going: the answer of the
\* controller's continue_charging(); keys: the receipt can be signed.
ChargingStatusRes(sid, receipt, keys, notification, going) ==
    /\ Answered("ChargingStatus", sid)
    /\ IF receipt /\ secure
       THEN /\ IF keys THEN Request("MeteringReceipt") ELSE GiveUp
            /\ UNCHANGED <<progress, wishes>>
       ELSE IF notification = "ReNegotiation" THEN RenegotiateEV
       ELSE IF notification = "StopCharging" \/ ~going THEN StopCharging
       ELSE Request("ChargingStatus") /\ UNCHANGED <<progress, wishes>>
    /\ UNCHANGED <<identity, ac, schedule, clock, enabled, accepted>>

\* A stop asked for here is not noted as a wish to finish.
MeteringReceiptRes(sid, notification) ==
    /\ Answered("MeteringReceipt", sid)
    /\ CASE notification = "StopCharging" ->
              PowerDeliveryReq("Stop") /\ UNCHANGED wishes
         [] notification = "ReNegotiation" -> RenegotiateEV
         [] OTHER -> ChargingLoopReq /\ UNCHANGED <<progress, wishes>>
    /\ UNCHANGED <<identity, ac, schedule, clock, enabled, accepted>>

\* A renegotiation or a receipt the SECC asks for is not looked at in DC.
CurrentDemandRes(sid, notification, going) ==
    /\ Answered("CurrentDemand", sid)
    /\ IF notification = "StopCharging" \/ ~going
       THEN StopCharging
       ELSE Request("CurrentDemand") /\ UNCHANGED <<progress, wishes>>
    /\ UNCHANGED <<identity, ac, schedule, clock, enabled, accepted>>

\* This instance stays for the next response, and the timer starts at the first.
WeldingDetectionRes(sid, finished) ==
    /\ Answered("WeldingDetection", sid)
    /\ IF finished /\ timer # "expired"
       THEN /\ Request("SessionStop")
            /\ IF timer = "off" THEN timer' = "running" /\ owner' = current
                                ELSE UNCHANGED clock
       ELSE Ongoing
    /\ UNCHANGED <<identity, energyEV, wishes, enabled, accepted>>

\* The only end that is reported as a success.
SessionStopRes(sid) ==
    /\ Answered("SessionStop", sid)
    /\ life' = "stopping" /\ success' = TRUE
    /\ UNCHANGED <<current, identity, energyEV, wishes, clock, enabled, accepted>>

-----------------------------------------------------------------------------
(* The receive loop.                                                       *)

\* check_msg refuses the response.
RefuseEV(type, ok, sid) ==
    /\ Reads /\ ~Matches(type, ok, sid)
    /\ GiveUp
    /\ UNCHANGED <<identity, energyEV, wishes, clock, enabled, accepted>>

\* A message that cannot be decoded, or a handler that raises, perhaps after its
\* command to the controller.
AbortEV ==
    /\ Reads /\ GiveUp
    /\ \/ UNCHANGED enabled
       \/ current = "ChargeParameterDiscovery" /\ enabled' = TRUE
       \/ current = "PowerDelivery" /\ finishing /\ ~ac /\ enabled' = FALSE
    /\ UNCHANGED <<identity, energyEV, wishes, clock, accepted>>

\* Mutant: no timer runs before the protocol is agreed.
TimeoutEVLate ==
    /\ life = "open" /\ ~arrived /\ current # "SupportedAppProtocol" /\ GiveUp
    /\ UNCHANGED <<arrived, identity, energyEV, wishes, clock, enabled, accepted>>

\* The time for the response is over, or the stream has ended.
TimeoutEV ==
    /\ life = "open" /\ ~arrived /\ GiveUp
    /\ UNCHANGED <<arrived, identity, energyEV, wishes, clock, enabled, accepted>>

Arrive ==
    /\ life = "open" /\ ~arrived /\ arrived' = TRUE
    /\ UNCHANGED <<current, life, success, identity, energyEV, wishes, clock,
                   enabled, accepted>>

TimerExpires ==
    /\ life = "open" /\ timer = "running" /\ timer' = "expired"
    /\ UNCHANGED <<current, arrived, life, success, identity, energyEV, wishes,
                   owner, enabled, accepted>>

\* Two seconds into stop().
Disable ==
    /\ life = "stopping" /\ life' = "closing"
    /\ enabled' = FALSE
    /\ UNCHANGED <<current, arrived, success, identity, energyEV, wishes, clock,
                   accepted>>

\* Three seconds later the writer is closed and the handler notified.
Close ==
    /\ life = "closing" /\ life' = "ended"
    /\ UNCHANGED <<current, arrived, success, identity, energyEV, wishes, clock,
                   enabled, accepted>>

Notifications == {"None", "StopCharging", "ReNegotiation"}

Process(sid) ==
    \/ \E known \in BOOLEAN : SupportedAppProtocolRes(known)
    \/ SessionSetupRes(sid)
    \/ \E charge, pnc, acMode, modeOffered \in BOOLEAN, n \in 0 .. MaxServices :
         ServiceDiscoveryRes(sid, charge, pnc, acMode, modeOffered, n)
    \/ ServiceDetailRes(sid)
    \/ \E needed, keys \in BOOLEAN : PaymentServiceSelectionRes(sid, needed, keys)
    \/ \E installed \in BOOLEAN : CertificateInstallationRes(sid, installed)
    \/ \E keys \in BOOLEAN : PaymentDetailsRes(sid, keys)
    \/ \E finished \in BOOLEAN : AuthorizationRes(sid, finished)
    \/ \E finished \in BOOLEAN, choice \in {"Start", "Stop"}, tuple \in Schedules :
         ChargeParameterDiscoveryRes(sid, finished, choice, tuple)
    \/ \E finished, safe \in BOOLEAN : CableCheckRes(sid, finished, safe)
    \/ \E precharged \in BOOLEAN : PreChargeRes(sid, precharged)
    \/ PowerDeliveryRes(sid)
    \/ \E receipt, keys, going \in BOOLEAN, n \in Notifications :
         ChargingStatusRes(sid, receipt, keys, n, going)
    \/ \E n \in Notifications : MeteringReceiptRes(sid, n)
    \/ \E n \in Notifications, going \in BOOLEAN : CurrentDemandRes(sid, n, going)
    \/ \E finished \in BOOLEAN : WeldingDetectionRes(sid, finished)
    \/ SessionStopRes(sid)
    \/ \E type \in StatesEV, ok \in BOOLEAN : RefuseEV(type, ok, sid)

Turn == (\E sid \in Ids \cup {ZeroId} : Process(sid)) \/ AbortEV

NextEV == Turn \/ TimeoutEV \/ Arrive \/ TimerExpires \/ Disable \/ Close

\* The loop processes what arrives, its timers run out, and stop() runs to its
\* end.  The SECC owes nothing: either a response arrives or the timer fires.
FairnessEV ==
    /\ WF_varsEV(Turn) /\ WF_varsEV(Arrive \/ TimeoutEV)
    /\ WF_varsEV(TimerExpires) /\ WF_varsEV(Disable) /\ WF_varsEV(Close)

SpecEV == InitEV /\ [][NextEV]_varsEV /\ FairnessEV

-----------------------------------------------------------------------------
(* Properties.                                                             *)

\* Every variable keeps its type.
TypeOKEV ==
    /\ current \in StatesEV /\ arrived \in BOOLEAN
    /\ life \in {"open", "stopping", "closing", "ended"} /\ success \in BOOLEAN
    /\ evId \in Ids \cup {ZeroId} /\ secure \in BOOLEAN
    /\ option \in {"none", "EIM", "PNC"} /\ details \in 0 .. MaxServices
    /\ ac \in BOOLEAN /\ schedule \in Schedules \cup {NoSchedule}
    /\ progress \in {"none", "Start", "Stop", "Renegotiate"}
    /\ finishing \in BOOLEAN /\ renegotiating \in BOOLEAN
    /\ timer \in {"off", "running", "expired"} /\ owner \in StatesEV \cup {"none"}
    /\ enabled \in BOOLEAN /\ accepted \in BOOLEAN

\* Charging is enabled in the vehicle only after the SECC has finished the
\* authorization of this session; it is disabled before welding is detected
\* and, whichever way the session ends, before its connection closes.
EnabledInSession ==
    /\ enabled => accepted /\ current \notin SetupEV
    /\ enabled /\ ~ac => current \notin {"WeldingDetection", "SessionStop"}
    /\ life \in {"closing", "ended"} => ~enabled

\* No state inherits the time another one has waited: a slow authorization
\* does not shorten the cable check.
TimerOwn ==
    timer # "off" => \/ owner = current
                     \/ owner = "WeldingDetection" /\ current = "SessionStop"

\* Once the EV has decided to stop charging, by itself or as notified in the
\* charging loop, nothing the SECC answers makes it charge or renegotiate.
StopIsFinal ==
    finishing => /\ current \in {"PowerDelivery", "WeldingDetection", "SessionStop"}
                 /\ progress = "Stop"

\* Whatever the SECC answers, and however often it answers that it is still
\* processing, the EV does not stay in a state outside the charging loop.
WaitingEnds ==
    \A s \in StatesEV \ LoopEV :
        life = "open" /\ current = s ~> life # "open" \/ current # s
=============================================================================
