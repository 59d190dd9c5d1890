------------------------------ MODULE EvccV20 ------------------------------
(***************************************************************************)
(* The EVCC side of an ISO 15118-20 charging session: the receive loop of  *)
(* shared/comm_session.py driving the states of                            *)
(* evcc/states/iso15118_20_states.py, on one TCP connection.               *)
(*                                                                         *)
(* As in EvccV2 a state is named after the request it has sent, the SECC   *)
(* answers anything or nothing, and the EV controller answers anything its *)
(* interface allows.  Some states keep their instance for the next         *)
(* response (create_next_message(None, ...)) and remember in it that they  *)
(* have asked before.                                                      *)
(***************************************************************************)
EXTENDS Naturals

CONSTANTS
    Ids,         \* session identifiers an SECC may assign
    ZeroId,      \* eight zero bytes, in a header before one is assigned
    ACEnergy, DCEnergy,  \* energy services by the kind of current
    OtherEnergy,         \* wireless and other energy services
    NoEnergy,    \* no energy service (None)
    Schedules,   \* schedule tuple identifiers
    NoSchedule   \* a power profile that names none, or no profile

Energy == ACEnergy \cup DCEnergy \cup OtherEnergy

ASSUME EvccV20Assumption ==
    /\ ZeroId \notin Ids
    /\ NoEnergy \notin Energy
    /\ NoSchedule \notin Schedules
    /\ ACEnergy \cap DCEnergy = {}
    /\ (ACEnergy \cup DCEnergy) \cap OtherEnergy = {}

VARIABLES
    current,       \* class of comm_session.current_state
    said,          \* what its request says, where it can say several things
    again,         \* the instance has asked before; in DCWeldingDetection
                   \*   welding_detection_complete
    arrived,       \* a response is in the stream reader
    life,          \* "open", "stopping" and "closing" (inside stop()), "ended"
    success,       \* stop_reason.successful
    evId,          \* comm_session.session_id
    found,         \* energy services in matched_services_v20
    toDetail,      \* service_details_to_request
    asked,         \* service of the last ServiceDetailReq
    described,     \* services of found with their parameter sets
    energy,        \* selected_energy_service.service
    control,       \* comm_session.control_mode
    ac,            \* selected_charging_type_is_ac
    list,          \* tuples of schedule_exchange_res
    profile,       \* tuple named by the last PowerDeliveryReq
    working,       \* comm_session.ev_processing is ONGOING
    stop,          \* charging_session_stop_v20
    renegotiable,  \* service_renegotiation_supported
    renegotiating, \* renegotiation_requested
    timer,         \* ongoing_timer: "off" (-1), "running" or "expired"
    enabled,       \* last enable_charging() of the controller
    authorized     \* history: the SECC has finished the authorization

asking    == <<current, said, again>>
discovery == <<found, toDetail, asked, described>>
selection == <<energy, control, ac>>
plan      == <<list, profile, working>>
wishes    == <<stop, renegotiable, renegotiating>>
varsEV    == <<asking, arrived, life, success, evId, discovery, selection, plan,
               wishes, timer, enabled, authorized>>

SetupEV == {"SupportedAppProtocol", "SessionSetup", "AuthorizationSetup",
            "CertificateInstallation", "Authorization", "ServiceDiscovery",
            "ServiceDetail", "ServiceSelection", "ACChargeParameterDiscovery",
            "DCChargeParameterDiscovery", "ScheduleExchange"}
LoopEV == {"ACChargeLoop", "DCChargeLoop"}
StatesEV == SetupEV \cup LoopEV \cup
            {"DCCableCheck", "DCPreCharge", "PowerDelivery",
             "DCWeldingDetection", "SessionStop"}

\* The response is to be processed next.
Reads == life = "open" /\ arrived /\ arrived' = FALSE

\* check_msg: the response to the request of this state, without a failure
\* code, in this session.
Matches(type, ok, sid) ==
    /\ type = current /\ ok
    /\ type \notin {"SupportedAppProtocol", "SessionSetup"} => sid = evId
Answered(type, sid) == Reads /\ Matches(type, TRUE, sid)

\* The next request is sent, and a new instance of its state takes over.
Request(s, words) ==
    /\ current' = s /\ said' = words /\ again' = FALSE
    /\ UNCHANGED <<life, success>>

\* The next request is sent, and this instance stays.
AskAgain(words, flag) ==
    /\ said' = words /\ again' = flag
    /\ UNCHANGED <<current, life, success>>

\* Mutant: a failure is reported as a success.
GiveUpQuietly == life' = "stopping" /\ success' = TRUE /\ UNCHANGED asking

\* stop_state_machine, or an exception: the end is reported as a failure.
GiveUp == life' = "stopping" /\ success' = FALSE /\ UNCHANGED asking

\* Mutant: every answer starts the time anew.
OngoingRestarted(flag) == AskAgain(said, flag) /\ timer' = "running"

\* The SECC is still processing: ask again until the ongoing timer, which the
\* first such answer starts, has run out.
Ongoing(flag) ==
    IF timer = "expired"
    THEN GiveUp /\ UNCHANGED timer
    ELSE AskAgain(said, flag) /\ timer' = IF timer = "off" THEN "running" ELSE timer

InitEV ==
    /\ current = "SupportedAppProtocol" /\ said = "none" /\ again = FALSE
    /\ arrived = FALSE /\ life = "open" /\ success = FALSE
    /\ evId = ZeroId
    /\ found = {} /\ toDetail = {} /\ asked = NoEnergy /\ described = {}
    /\ energy = NoEnergy /\ control = "none" /\ ac = TRUE
    /\ list = {} /\ profile = NoSchedule /\ working = FALSE
    /\ stop = "none" /\ renegotiable = FALSE /\ renegotiating = FALSE
    /\ timer = "off" /\ enabled = FALSE /\ authorized = FALSE

-----------------------------------------------------------------------------
(* Identification and authorization.                                       *)

SupportedAppProtocolRes(known) ==
    /\ Answered("SupportedAppProtocol", ZeroId)
    /\ IF known THEN Request("SessionSetup", "none") ELSE GiveUp
    /\ UNCHANGED <<evId, discovery, selection, plan, wishes, timer, enabled,
                   authorized>>

SessionSetupRes(sid) ==
    /\ Answered("SessionSetup", sid)
    /\ Request("AuthorizationSetup", "none")
    /\ evId' = sid
    /\ UNCHANGED <<discovery, selection, plan, wishes, timer, enabled, authorized>>

\* install: a certificate is offered and needed, and the request can be signed.
\* pnc: Plug & Charge is offered, and its request can be signed.
AuthorizationSetupRes(sid, install, pnc) ==
    /\ Answered("AuthorizationSetup", sid)
    /\ IF install THEN Request("CertificateInstallation", "none")
       ELSE Request("Authorization", IF pnc THEN "PNC" ELSE "EIM")
    /\ UNCHANGED <<evId, discovery, selection, plan, wishes, timer, enabled,
                   authorized>>

\* Asking again repeats the first request.
AuthorizationRes(sid, finished) ==
    /\ Answered("Authorization", sid)
    /\ IF finished THEN Request("ServiceDiscovery", "none") /\ timer' = "off"
                   ELSE Ongoing(FALSE)
    /\ authorized' = (authorized \/ finished)
    /\ UNCHANGED <<evId, discovery, selection, plan, wishes, enabled>>

-----------------------------------------------------------------------------
(* The choice of the energy service.                                       *)

\* One of the services is popped.
ServiceDetailReq(services) ==
    \E s \in services :
        /\ Request("ServiceDetail", "none")
        /\ asked' = s /\ toDetail' = services \ {s}

\* offer: the services the EV can use; r: renegotiation is supported.
ServiceDiscoveryRes(sid, offer, r) ==
    /\ Answered("ServiceDiscovery", sid)
    /\ renegotiable' = r
    /\ found' = found \cup offer
    /\ IF offer = {}
       THEN /\ Request("SessionStop", "terminate")
            /\ stop' = "terminate"
            /\ UNCHANGED <<toDetail, asked>>
       ELSE ServiceDetailReq(toDetail \cup offer) /\ UNCHANGED stop
    /\ UNCHANGED <<evId, described, selection, plan, renegotiating, timer,
                   enabled, authorized>>

\* s: the service of the response, whatever was asked for; chosen: the
\* controller's choice of service and control mode ("none" if it has none).
ServiceDetailRes(sid, s, chosen, mode) ==
    /\ Answered("ServiceDetail", sid)
    /\ described' = described \cup ({s} \cap found)
    /\ IF toDetail # {}
       THEN ServiceDetailReq(toDetail) /\ UNCHANGED <<energy, control>>
       ELSE /\ chosen \in described'
            /\ energy' = chosen
            /\ IF mode = "none"
               THEN Request("SessionStop", "terminate") /\ UNCHANGED control
               ELSE Request("ServiceSelection", "none") /\ control' = mode
            /\ UNCHANGED <<toDetail, asked>>
    /\ UNCHANGED <<evId, found, ac, plan, wishes, timer, enabled, authorized>>

\* No request is made for other services, which ends the session.
ServiceSelectionRes(sid) ==
    /\ Answered("ServiceSelection", sid)
    /\ IF energy \in OtherEnergy
       THEN GiveUp /\ UNCHANGED ac
       ELSE /\ ac' = (energy \in ACEnergy)
            /\ Request(IF ac' THEN "ACChargeParameterDiscovery"
                              ELSE "DCChargeParameterDiscovery", "none")
    /\ UNCHANGED <<evId, discovery, energy, control, plan, wishes, timer, enabled,
                   authorized>>

ACChargeParameterDiscoveryRes(sid) ==
    /\ Answered("ACChargeParameterDiscovery", sid)
    /\ Request("ScheduleExchange", "none")
    /\ UNCHANGED <<evId, discovery, selection, plan, wishes, timer, enabled,
                   authorized>>

DCChargeParameterDiscoveryRes(sid) ==
    /\ Answered("DCChargeParameterDiscovery", sid)
    /\ Request("ScheduleExchange", "none")
    /\ UNCHANGED <<evId, discovery, selection, plan, wishes, timer, enabled,
                   authorized>>

-----------------------------------------------------------------------------
(* Schedules, isolation and power delivery.                                *)

\* What process_..._se_params makes of the schedules: no profile yet
\* ("ongoing"), or one to start with or, for a pause, to stop with.
Verdicts == {"ongoing", "Start", "Stop"}

\* Mutant: a schedule that was not offered may be named.
NamedAny(tuples) == IF control = "SCHEDULED" THEN Schedules ELSE {NoSchedule}

\* The schedules a profile may name.
Named(tuples) == IF control = "SCHEDULED" THEN tuples ELSE {NoSchedule}

\* The PowerDeliveryReq made of a verdict.
PowerDeliveryReq(verdict, tuple) ==
    /\ Request("PowerDelivery", verdict)
    /\ profile' = IF verdict = "ongoing" THEN NoSchedule ELSE tuple

\* create_new_power_delivery_req, and build_power_delivery_req of DCPreCharge.
RenewPowerDelivery(verdict, tuple) ==
    /\ tuple \in Named(list)
    /\ PowerDeliveryReq(verdict, tuple)
    /\ working' = (verdict = "ongoing")
    /\ UNCHANGED list

\* Mutant: charging is enabled in AC only.
ScheduleExchangeResDisabled(sid, finished, tuples, verdict, tuple) ==
    /\ Answered("ScheduleExchange", sid)
    /\ finished
    /\ list' = tuples
    /\ tuple \in Named(tuples)
    /\ working' = (working \/ verdict = "ongoing")
    /\ enabled' = ac
    /\ IF ac THEN PowerDeliveryReq(verdict, tuple)
             ELSE Request("DCCableCheck", "none") /\ UNCHANGED profile
    /\ UNCHANGED <<evId, discovery, selection, wishes, timer, authorized>>

\* The EV waits for the schedules as long as the SECC wants; no timer runs.
ScheduleExchangeRes(sid, finished, tuples, verdict, tuple) ==
    /\ Answered("ScheduleExchange", sid)
    /\ IF ~finished
       THEN Request("ScheduleExchange", "none") /\ UNCHANGED <<plan, enabled>>
       ELSE /\ list' = tuples
            /\ tuple \in Named(tuples)
            /\ working' = (working \/ verdict = "ongoing")
            /\ enabled' = TRUE
            /\ IF ac THEN PowerDeliveryReq(verdict, tuple)
                     ELSE Request("DCCableCheck", "none") /\ UNCHANGED profile
    /\ UNCHANGED <<evId, discovery, selection, wishes, timer, authorized>>

\* The status of the EVSE in the response is not looked at.
DCCableCheckRes(sid, finished) ==
    /\ Answered("DCCableCheck", sid)
    /\ IF finished THEN Request("DCPreCharge", "ongoing") /\ timer' = "off"
                   ELSE Ongoing(TRUE)
    /\ UNCHANGED <<evId, discovery, selection, plan, wishes, enabled, authorized>>

\* before, now: two calls of is_precharged().  A request that says the EV has
\* finished may be followed by one that says it has not.
DCPreChargeRes(sid, before, now, verdict, tuple) ==
    /\ Answered("DCPreCharge", sid)
    /\ IF before /\ again
       THEN RenewPowerDelivery(verdict, tuple)
       ELSE /\ AskAgain(IF now THEN "finished" ELSE "ongoing", TRUE)
            /\ UNCHANGED plan
    /\ UNCHANGED <<evId, discovery, selection, wishes, timer, enabled, authorized>>

\* The session has been given its end in the charging loop.
LeavePowerDelivery ==
    /\ enabled' = FALSE
    /\ IF energy \in DCEnergy THEN Request("DCWeldingDetection", "ongoing")
                              ELSE Request("SessionStop", stop)

\* Mutant: only one of the two ends is recognised.
PowerDeliveryResTerminating(sid, verdict, tuple) ==
    /\ Answered("PowerDelivery", sid)
    /\ IF working
       THEN RenewPowerDelivery(verdict, tuple) /\ UNCHANGED enabled
       ELSE /\ IF stop = "terminate" THEN LeavePowerDelivery
               ELSE /\ Request(IF energy \in ACEnergy THEN "ACChargeLoop"
                                                      ELSE "DCChargeLoop", "none")
                    /\ UNCHANGED enabled
            /\ UNCHANGED plan
    /\ UNCHANGED <<evId, discovery, selection, wishes, timer, authorized>>

\* Whatever progress was asked for, only a decision to stop leads out.
PowerDeliveryRes(sid, verdict, tuple) ==
    /\ Answered("PowerDelivery", sid)
    /\ IF working
       THEN RenewPowerDelivery(verdict, tuple) /\ UNCHANGED enabled
       ELSE /\ IF stop # "none" THEN LeavePowerDelivery
               ELSE /\ Request(IF energy \in ACEnergy THEN "ACChargeLoop"
                                                      ELSE "DCChargeLoop", "none")
                    /\ UNCHANGED enabled
            /\ UNCHANGED plan
    /\ UNCHANGED <<evId, discovery, selection, wishes, timer, authorized>>

-----------------------------------------------------------------------------
(* The charging loop and the end of the session.                           *)

\* A notification of any other kind raises an exception.
Notifications == {"None", "Terminate", "ServiceRenegotiation"}

\* stop_v20_charging; the parameter is the notification that asked for it.
StopCharging(notification) ==
    /\ Request("PowerDelivery", "Stop")
    /\ profile' = NoSchedule
    /\ IF notification = "ServiceRenegotiation"
       THEN stop' = "renegotiate" /\ renegotiating' = TRUE
       ELSE stop' = "terminate" /\ UNCHANGED renegotiating
    /\ UNCHANGED <<list, working, renegotiable>>

\* going: the answer of the controller's continue_charging().
ACChargeLoopRes(sid, notification, going) ==
    /\ Answered("ACChargeLoop", sid)
    /\ IF notification # "None" \/ ~going
       THEN StopCharging(notification)
       ELSE Request("ACChargeLoop", "none") /\ UNCHANGED <<plan, wishes>>
    /\ UNCHANGED <<evId, discovery, selection, timer, enabled, authorized>>

DCChargeLoopRes(sid, notification, going) ==
    /\ Answered("DCChargeLoop", sid)
    /\ IF notification # "None" \/ ~going
       THEN StopCharging(notification)
       ELSE AskAgain("none", TRUE) /\ UNCHANGED <<plan, wishes>>
    /\ UNCHANGED <<evId, discovery, selection, timer, enabled, authorized>>

\* Whatever the response is, check_msg is not called; and whatever stop says,
\* the end that is asked for is TERMINATE.  finished: the answer of
\* welding_detection_has_finished().
DCWeldingDetectionRes(finished) ==
    /\ Reads /\ current = "DCWeldingDetection"
    /\ IF timer = "expired" THEN GiveUp
       ELSE IF again THEN Request("SessionStop", "terminate")
       ELSE AskAgain(IF finished THEN "finished" ELSE "ongoing", finished)
    /\ timer' = IF timer = "off" THEN "running" ELSE timer
    /\ UNCHANGED <<evId, discovery, selection, plan, wishes, enabled, authorized>>

\* Without a value in charging_session_stop_v20 the handler raises.  To go on
\* with a renegotiation it names ServiceDiscovery as the next state but makes no
\* request for it, and process_message of the session raises.
SessionStopRes(sid) ==
    /\ Answered("SessionStop", sid)
    /\ IF stop = "none" THEN GiveUp /\ UNCHANGED renegotiating
       ELSE IF renegotiable /\ renegotiating
       THEN GiveUp /\ renegotiating' = FALSE
       ELSE /\ life' = "stopping" /\ success' = TRUE
            /\ UNCHANGED <<asking, renegotiating>>
    /\ UNCHANGED <<evId, discovery, selection, plan, stop, renegotiable, timer,
                   enabled, authorized>>

-----------------------------------------------------------------------------
(* The receive loop.                                                       *)

\* check_msg refuses the response.
RefuseEV(type, ok, sid) ==
    /\ Reads /\ current # "DCWeldingDetection" /\ ~Matches(type, ok, sid)
    /\ GiveUp
    /\ UNCHANGED <<evId, discovery, selection, plan, wishes, timer, enabled,
                   authorized>>

\* A message that cannot be decoded, or a handler that raises (that of
\* CertificateInstallation always does), perhaps after its command to the
\* controller.
AbortEV ==
    /\ Reads /\ GiveUp
    /\ \/ UNCHANGED enabled
       \/ current = "ScheduleExchange" /\ enabled' = TRUE
       \/ current = "PowerDelivery" /\ stop # "none" /\ enabled' = FALSE
    /\ UNCHANGED <<evId, discovery, selection, plan, wishes, timer, authorized>>

\* Mutant: no timer runs before the protocol is agreed.
TimeoutEVLate ==
    /\ life = "open" /\ ~arrived /\ current # "SupportedAppProtocol" /\ GiveUp
    /\ UNCHANGED <<arrived, evId, discovery, selection, plan, wishes, timer,
                   enabled, authorized>>

\* The time for the response is over, or the stream has ended.
TimeoutEV ==
    /\ life = "open" /\ ~arrived /\ GiveUp
    /\ UNCHANGED <<arrived, evId, discovery, selection, plan, wishes, timer,
                   enabled, authorized>>

Arrive ==
    /\ life = "open" /\ ~arrived /\ arrived' = TRUE
    /\ UNCHANGED <<asking, life, success, evId, discovery, selection, plan, wishes,
                   timer, enabled, authorized>>

TimerExpires ==
    /\ life = "open" /\ timer = "running" /\ timer' = "expired"
    /\ UNCHANGED <<asking, arrived, life, success, evId, discovery, selection,
                   plan, wishes, enabled, authorized>>

\* Mutant: the controller is not told.
DisableForgotten ==
    /\ life = "stopping" /\ life' = "closing"
    /\ UNCHANGED <<asking, arrived, success, evId, discovery, selection, plan,
                   wishes, timer, enabled, authorized>>

\* Two seconds into stop().
Disable ==
    /\ life = "stopping" /\ life' = "closing"
    /\ enabled' = FALSE
    /\ UNCHANGED <<asking, arrived, success, evId, discovery, selection, plan,
                   wishes, timer, authorized>>

\* Three seconds later the writer is closed and the handler notified.
Close ==
    /\ life = "closing" /\ life' = "ended"
    /\ UNCHANGED <<asking, arrived, success, evId, discovery, selection, plan,
                   wishes, timer, enabled, authorized>>

Process(sid) ==
    \/ \E known \in BOOLEAN : SupportedAppProtocolRes(known)
    \/ SessionSetupRes(sid)
    \/ \E install, pnc \in BOOLEAN : AuthorizationSetupRes(sid, install, pnc)
    \/ \E finished \in BOOLEAN : AuthorizationRes(sid, finished)
    \/ \E offer \in SUBSET Energy, r \in BOOLEAN : ServiceDiscoveryRes(sid, offer, r)
    \/ \E s, chosen \in Energy, mode \in {"none", "SCHEDULED", "DYNAMIC"} :
         ServiceDetailRes(sid, s, chosen, mode)
    \/ ServiceSelectionRes(sid)
    \/ ACChargeParameterDiscoveryRes(sid) \/ DCChargeParameterDiscoveryRes(sid)
    \/ \E finished \in BOOLEAN, tuples \in SUBSET Schedules, verdict \in Verdicts,
          tuple \in Schedules \cup {NoSchedule} :
         ScheduleExchangeRes(sid, finished, tuples, verdict, tuple)
    \/ \E finished \in BOOLEAN : DCCableCheckRes(sid, finished)
    \/ \E before, now \in BOOLEAN, verdict \in Verdicts,
          tuple \in Schedules \cup {NoSchedule} :
         DCPreChargeRes(sid, before, now, verdict, tuple)
    \/ \E verdict \in Verdicts, tuple \in Schedules \cup {NoSchedule} :
         PowerDeliveryRes(sid, verdict, tuple)
    \/ \E n \in Notifications, going \in BOOLEAN :
         ACChargeLoopRes(sid, n, going) \/ DCChargeLoopRes(sid, n, going)
    \/ \E finished \in BOOLEAN : DCWeldingDetectionRes(finished)
    \/ SessionStopRes(sid)
    \/ \E type \in StatesEV, ok \in BOOLEAN : RefuseEV(type, ok, sid)

Turn ==
    /\ arrived /\ arrived' = FALSE
    /\ (\E sid \in Ids \cup {ZeroId} : Process(sid)) \/ AbortEV

NextEV == Turn \/ TimeoutEV \/ Arrive \/ TimerExpires \/ Disable \/ Close

\* As in EvccV2: the SECC owes nothing.
FairnessEV ==
    /\ WF_varsEV(Turn) /\ WF_varsEV(Arrive \/ TimeoutEV)
    /\ WF_varsEV(TimerExpires) /\ WF_varsEV(Disable) /\ WF_varsEV(Close)

SpecEV == InitEV /\ [][NextEV]_varsEV /\ FairnessEV

-----------------------------------------------------------------------------
(* Properties.                                                             *)

\* Every variable keeps its type.
TypeOKEV ==
    /\ current \in StatesEV /\ again \in BOOLEAN
    /\ said \in Verdicts \cup {"none", "finished", "EIM", "PNC", "terminate",
                               "renegotiate"}
    /\ arrived \in BOOLEAN /\ success \in BOOLEAN
    /\ life \in {"open", "stopping", "closing", "ended"}
    /\ evId \in Ids \cup {ZeroId}
    /\ found \subseteq Energy /\ toDetail \subseteq found
    /\ described \subseteq found /\ asked \in Energy \cup {NoEnergy}
    /\ energy \in Energy \cup {NoEnergy} /\ ac \in BOOLEAN
    /\ control \in {"none", "SCHEDULED", "DYNAMIC"}
    /\ list \subseteq Schedules /\ profile \in Schedules \cup {NoSchedule}
    /\ working \in BOOLEAN /\ stop \in {"none", "terminate", "renegotiate"}
    /\ renegotiable \in BOOLEAN /\ renegotiating \in BOOLEAN
    /\ timer \in {"off", "running", "expired"}
    /\ enabled \in BOOLEAN /\ authorized \in BOOLEAN

\* Charging is enabled in the vehicle only after the SECC has finished the
\* authorization of this session and a service has been selected; it is
\* disabled before welding is detected, and before the connection closes
\* whichever way the session ends.
EnabledInSession ==
    /\ enabled /\ life = "open" =>
         /\ authorized /\ energy \in described \ OtherEnergy
         /\ current \notin SetupEV \cup {"DCWeldingDetection", "SessionStop"}
    /\ life \in {"closing", "ended"} => ~enabled

\* Once the EV has decided to end the charging, nothing the SECC answers makes
\* it charge again: in particular no profile that was late before the charging
\* loop (ev_processing ONGOING) takes the place of the stop.
StopIsFinal ==
    stop # "none" =>
        /\ current \in {"PowerDelivery", "DCWeldingDetection", "SessionStop"}
        /\ current = "PowerDelivery" => said = "Stop" /\ ~working

\* The states in which the SECC or the EV may take its time without a limit.
PatientEV == LoopEV \cup {"ScheduleExchange", "DCPreCharge", "PowerDelivery"}

\* Whatever the SECC answers, and however long either side is processing, the EV
\* does not stay in the other states: it comes to one of these, or to an end.
WaitingEnds ==
    life = "open" /\ current \notin PatientEV
        ~> life # "open" \/ current \in PatientEV

\* A renegotiation that both sides support is gone on with ("Field
\* 'next_v2gtp_msg' is None but must be set because next state is not
\* Terminate", shared/comm_session.py).
RenegotiationGoesOn ==
    [][renegotiating /\ ~renegotiating' => life' = "open"]_varsEV
=============================================================================
