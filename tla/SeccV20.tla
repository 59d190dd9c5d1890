------------------------------ MODULE SeccV20 ------------------------------
(***************************************************************************)
(* The SECC side of an ISO 15118-20 charging session: the receive loop of  *)
(* shared/comm_session.py driving the states of                            *)
(* secc/states/iso15118_20_states.py on one TCP connection.  (What a       *)
(* paused session leaves behind is not read in this protocol, so a second  *)
(* connection is like the first.)                                          *)
(*                                                                         *)
(* As in SeccV2 one step is one turn of rcv_loop, the EV sends any request *)
(* at any time, and the EVSE controller answers anything its interface     *)
(* allows.  New are the two control modes, the choice of an energy service *)
(* among those discovered and detailed, and service renegotiation, which   *)
(* returns to ServiceDiscovery in the middle of a session.                 *)
(***************************************************************************)
EXTENDS Naturals

CONSTANTS
    SessionIds, \* values get_random_bytes(8) may return
    NoId,       \* no session: "00" in a header, "" in a session
    ACServices, DCServices,  \* energy services by the kind of current
    OtherServices,           \* value-added services, and energy by other means
    ValueAdded,              \* the value-added ones among them
    NoService,  \* selected_energy_service is None
    BPT,        \* the bidirectional ones among the energy services
    Tuples,     \* schedule tuple identifiers
    NoTuple,    \* no schedule accepted
    Renegotiable, \* service_renegotiation_supported()
    Standby       \* config.standby_allowed

Services == ACServices \cup DCServices \cup OtherServices

ASSUME SeccV20Assumption ==
    /\ NoId \notin SessionIds
    /\ NoTuple \notin Tuples
    /\ NoService \notin Services
    /\ ACServices \cap DCServices = {}
    /\ (ACServices \cup DCServices) \cap OtherServices = {}
    /\ BPT \subseteq ACServices \cup DCServices
    /\ ValueAdded \subseteq OtherServices
    /\ Renegotiable \in BOOLEAN /\ Standby \in BOOLEAN

VARIABLES
    st,        \* class of comm_session.current_state
    inst,      \* progress of that instance, fresh when it is constructed
    phase,     \* "open", "stopping" and "closing" (inside stop()), "ended"
    reason,    \* comm_session.stop_reason, what the handler is notified of
    res,       \* code of the response to the last request, "none" if none
    silent,    \* the EV sends nothing more on this connection
    sessionId, \* comm_session.session_id
    matched,   \* services of comm_session.matched_services_v20
    detailed,  \* those of them with their parameter sets
    service,   \* service of comm_session.selected_energy_service
    mode,      \* comm_session.control_mode
    offered,   \* ids of comm_session.offered_schedules_V20
    hlc,       \* last set_hlc_charging() of the controller
    charger,   \* last command to the charger: "off", "cablecheck", ...
    decision,  \* history: last answer of is_authorized()
    isolated,  \* history: cable check passed since the charge parameters
    accepted   \* history: schedule named when the charging loop was entered

choice  == <<matched, detailed, service, mode>>
power   == <<hlc, charger>>
history == <<decision, isolated, accepted>>
vars    == <<st, inst, phase, reason, res, silent, sessionId, choice, offered,
             power, history>>

-----------------------------------------------------------------------------
(* What each state accepts.                                                *)

AuthStates == {"SupportedAppProtocol", "SessionSetup", "AuthorizationSetup",
               "CertificateInstallation", "Authorization"}
ServiceStates == {"ServiceDiscovery", "ServiceDetail", "ServiceSelection"}
ParameterStates == {"ACChargeParameterDiscovery", "DCChargeParameterDiscovery",
                    "ScheduleExchange"}
DeliveryStates == {"DCCableCheck", "DCPreCharge", "PowerDelivery",
                   "ACChargeLoop", "DCChargeLoop", "DCWeldingDetection"}
States == AuthStates \cup ServiceStates \cup ParameterStates
          \cup DeliveryStates \cup {"SessionStop"}

\* What the states' lists for check_msg_v20 name after their own request.
Lists ==
    {<<"AuthorizationSetup", "Authorization">>,
     <<"AuthorizationSetup", "CertificateInstallation">>,
     <<"Authorization", "CertificateInstallation">>,
     <<"Authorization", "ServiceDiscovery">>,
     <<"ServiceDiscovery", "ServiceDetail">>,
     <<"ServiceDetail", "ServiceSelection">>,
     <<"ScheduleExchange", "DCCableCheck">>,
     <<"ScheduleExchange", "PowerDelivery">>,
     <<"PowerDelivery", "DCWeldingDetection">>,
     <<"ACChargeLoop", "PowerDelivery">>,
     <<"DCPreCharge", "PowerDelivery">>,
     <<"DCChargeLoop", "PowerDelivery">>}

\* The states that take no SessionStopReq on behalf of SessionStop.
NoStop == {"SupportedAppProtocol", "SessionSetup", "CertificateInstallation",
           "DCPreCharge", "DCChargeLoop"}

\* The states with an expecting_..._req flag: at first only their own request.
Flagged == {"AuthorizationSetup", "Authorization", "ServiceDiscovery",
            "ServiceDetail", "DCPreCharge", "DCChargeLoop",
            "DCWeldingDetection"}

Accepted ==
    IF st \in Flagged /\ inst = "fresh" THEN {st}
    ELSE {st} \cup {t \in States : <<st, t>> \in Lists}
              \cup (IF st \in NoStop THEN {} ELSE {"SessionStop"})

\* check_msg: the request is one the state accepts, of this session.
Accepts(type, sid) ==
    /\ phase = "open" /\ ~silent
    /\ type \in Accepted
    /\ type \notin {"SupportedAppProtocol", "SessionSetup"} => sid = sessionId

\* Progress of the instance that handles a request of this type.
Own(type) == IF st = type THEN inst ELSE "fresh"

-----------------------------------------------------------------------------
(* The ways a handler ends, after create_next_message.                     *)

Stay(s, progress, code) ==
    /\ st' = s /\ inst' = progress /\ res' = code
    /\ UNCHANGED <<phase, reason>>

Goto(s, code) ==
    /\ st' = s /\ inst' = "fresh" /\ res' = code
    /\ UNCHANGED <<phase, reason>>

\* rcv_loop enters stop(), whose first call stops the charger.
Stopping(s, why, code) ==
    /\ st' = s /\ inst' = Own(s) /\ res' = code
    /\ phase' = "stopping" /\ reason' = why
    /\ charger' = "off"

\* stop_state_machine: a failure response, then Terminate.
Halt(s, code) == Stopping(s, "failure", code)

-----------------------------------------------------------------------------
(* Identification and authorization.                                       *)

Init ==
    /\ st = "SupportedAppProtocol" /\ inst = "fresh"
    /\ phase = "open" /\ reason = "none" /\ res = "none" /\ silent = FALSE
    /\ sessionId = NoId
    /\ matched = {} /\ detailed = {} /\ service = NoService /\ mode = "none"
    /\ offered = {} /\ hlc = FALSE /\ charger = "off"
    /\ decision = "none" /\ isolated = FALSE
    /\ accepted = NoTuple

\* The EV offers ISO 15118-20 in a version the SECC supports, or nothing.
SupportedAppProtocol(offersV20) ==
    /\ Accepts("SupportedAppProtocol", NoId)
    /\ IF offersV20
       THEN Goto("SessionSetup", "OK_SuccessfulNegotiation") /\ UNCHANGED charger
       ELSE Halt("SupportedAppProtocol", "Failed_NoNegotiation")
    /\ UNCHANGED <<silent, sessionId, choice, offered, hlc, history>>

\* The session has no identifier yet, so no header can name an old one.
SessionSetup(sid, new) ==
    /\ Accepts("SessionSetup", sid)
    /\ Goto("AuthorizationSetup", "OK_NewSessionEstablished")
    /\ sessionId' = new
    /\ UNCHANGED <<silent, choice, offered, power, history>>

\* The options it offers are not compared with the one the EV takes.
AuthorizationSetup(sid) ==
    /\ Accepts("AuthorizationSetup", sid)
    /\ Stay("AuthorizationSetup", "seen", "OK")
    /\ UNCHANGED <<silent, sessionId, choice, offered, power, history>>

\* Not implemented: the handler raises, and nothing is answered.
CertificateInstallation(sid) ==
    /\ Accepts("CertificateInstallation", sid)
    /\ Stopping("CertificateInstallation", "failure", "none")
    /\ UNCHANGED <<silent, sessionId, choice, offered, hlc, history>>

Answers == {"accepted", "ongoing", "rejected"}

\* Mutant: the flag is not raised again by an answer that is still ongoing.
AuthorizationOnce(sid, pnc, sigOk, challengeOk, answer, code) ==
    /\ Accepts("Authorization", sid)
    /\ IF pnc /\ ~sigOk
       THEN /\ Halt("Authorization", "FAILED_SignatureError")
            /\ UNCHANGED decision
       ELSE /\ Stay("Authorization", IF answer = "ongoing"
                                     THEN Own("Authorization") ELSE "seen", code)
            /\ decision' = answer
            /\ UNCHANGED charger
    /\ UNCHANGED <<silent, sessionId, choice, offered, hlc, isolated, accepted>>

\* pnc: the request carries a contract.  A wrong challenge is only a warning,
\* which a code of the controller replaces; a rejection finishes the processing
\* like an acceptance does.
Authorization(sid, pnc, sigOk, challengeOk, answer, code) ==
    /\ Accepts("Authorization", sid)
    /\ IF pnc /\ ~sigOk
       THEN /\ Halt("Authorization", "FAILED_SignatureError")
            /\ UNCHANGED decision
       ELSE /\ Stay("Authorization",
                    IF answer = "ongoing" THEN "fresh" ELSE "seen",
                    IF code # "none" THEN code
                    ELSE IF pnc /\ ~challengeOk THEN "WARNING_ChallengeInvalid"
                    ELSE "OK")
            /\ decision' = answer
            /\ UNCHANGED charger
    /\ UNCHANGED <<silent, sessionId, choice, offered, hlc, isolated, accepted>>

-----------------------------------------------------------------------------
(* The choice of the energy service.                                       *)

\* What is offered now is added to what was offered before a renegotiation.  sets:
\* the value-added services for which the registry has parameter sets, which are
\* stored at once; the energy services have none before their ServiceDetailReq.
ServiceDiscovery(sid, offer, sets) ==
    /\ Accepts("ServiceDiscovery", sid)
    /\ sets \subseteq offer \cap ValueAdded
    /\ Stay("ServiceDiscovery", "seen", "OK")
    /\ matched' = matched \cup offer
    /\ detailed' = detailed \cup sets
    /\ UNCHANGED <<silent, sessionId, service, mode, offered, power, history>>

\* An unknown service gets a failure response, but the state goes on as after a
\* known one.
ServiceDetail(sid, s) ==
    /\ Accepts("ServiceDetail", sid)
    /\ IF s \in matched
       THEN Stay("ServiceDetail", "seen", "OK") /\ detailed' = detailed \cup {s}
       ELSE /\ Stay("ServiceDetail", "seen", "FAILED_ServiceIDInvalid")
            /\ UNCHANGED detailed
    /\ UNCHANGED <<silent, sessionId, matched, service, mode, offered, power,
                   history>>

\* Mutant: a selection made before the renegotiation is kept.
ServiceSelectionKept(sid, s, m, vasOk) ==
    /\ Accepts("ServiceSelection", sid)
    /\ s \in detailed \ OtherServices /\ vasOk
    /\ Goto(IF s \in ACServices THEN "ACChargeParameterDiscovery"
                                ELSE "DCChargeParameterDiscovery", "OK")
    /\ service' = (IF service = NoService THEN s ELSE service)
    /\ mode' = m
    /\ UNCHANGED <<silent, sessionId, matched, detailed, offered, power, history>>

\* Mutant: the control mode is not taken over.
ServiceSelectionModeless(sid, s, m, vasOk) ==
    /\ Accepts("ServiceSelection", sid)
    /\ s \in detailed \ OtherServices /\ vasOk
    /\ Goto(IF s \in ACServices THEN "ACChargeParameterDiscovery"
                                ELSE "DCChargeParameterDiscovery", "OK")
    /\ service' = s
    /\ UNCHANGED <<silent, charger, sessionId, matched, detailed, mode, offered,
                   hlc, history>>

\* m: the control mode of the parameter set, which is one the list detailed.
\* vasOk: every value-added service of the request was offered.
ServiceSelection(sid, s, m, vasOk) ==
    LET known == s \in detailed
        energy == s \notin OtherServices
    IN
    /\ Accepts("ServiceSelection", sid)
    /\ IF known /\ vasOk /\ energy
       THEN /\ Goto(IF s \in ACServices THEN "ACChargeParameterDiscovery"
                                        ELSE "DCChargeParameterDiscovery", "OK")
            /\ mode' = m
            /\ UNCHANGED charger
       ELSE /\ Halt("ServiceSelection",
                    IF known THEN "FAILED_ServiceSelectionInvalid"
                    ELSE "FAILED_NoEnergyTransferServiceSelected")
            /\ UNCHANGED mode
    /\ service' = IF known /\ vasOk THEN s ELSE service
    /\ UNCHANGED <<silent, sessionId, matched, detailed, offered, hlc, history>>

-----------------------------------------------------------------------------
(* Charge parameters and schedules.                                        *)

\* known: the controller has limits for the service (no UnknownEnergyService).
ChargeParameters(type, sid, known) ==
    /\ Accepts(type, sid)
    /\ IF known
       THEN /\ Goto("ScheduleExchange", "OK")
            /\ isolated' = FALSE
            /\ UNCHANGED charger
       ELSE /\ Halt(type, "FAILED_WrongChargeParameter")
            /\ UNCHANGED isolated
    /\ UNCHANGED <<silent, sessionId, choice, offered, hlc, decision, accepted>>

ACChargeParameterDiscovery(sid, known) ==
    ChargeParameters("ACChargeParameterDiscovery", sid, known)

DCChargeParameterDiscovery(sid, known) ==
    ChargeParameters("DCChargeParameterDiscovery", sid, known)

\* fits: the controller's parameters are those of the control mode.  The
\* schedules count once the controller is ready to charge.
ScheduleExchange(sid, fits, ready, schedules) ==
    /\ Accepts("ScheduleExchange", sid)
    /\ IF ~fits
       THEN Halt("ScheduleExchange", "FAILED") /\ UNCHANGED offered
       ELSE /\ IF ready /\ service \in ACServices
               THEN Goto("PowerDelivery", "OK")
               ELSE Stay("ScheduleExchange", "fresh", "OK")
            /\ offered' = IF ready /\ mode = "SCHEDULED" THEN schedules
                          ELSE offered
            /\ UNCHANGED charger
    /\ UNCHANGED <<silent, sessionId, choice, hlc, decision, isolated, accepted>>

-----------------------------------------------------------------------------
(* Energy transfer.                                                        *)

\* contactor: the answer of is_contactor_closed(), "unknown" for None;
\* isolation: "valid" (or a warning), "fault" (or invalid), or "pending".
DCCableCheck(sid, contactor, isolation) ==
    LET own == Own("DCCableCheck")
        closed == own = "closed"
        passed == closed /\ isolation = "valid"
        failed == IF closed THEN isolation = "fault" ELSE contactor = "open"
    IN
    /\ Accepts("DCCableCheck", sid)
    /\ IF failed
       THEN Halt("DCCableCheck", "FAILED")
       ELSE /\ charger' = IF own = "fresh" THEN "cablecheck" ELSE charger
            /\ IF passed THEN Goto("DCPreCharge", "OK")
               ELSE Stay("DCCableCheck",
                         IF closed \/ contactor = "closed" THEN "closed"
                         ELSE "checking", "OK")
    /\ isolated' = (isolated \/ passed)
    /\ UNCHANGED <<silent, sessionId, choice, offered, hlc, decision, accepted>>

\* done: the EV has finished; otherwise the precharge command may time out.
DCPreCharge(sid, done, commandOk) ==
    /\ Accepts("DCPreCharge", sid)
    /\ IF done THEN Goto("PowerDelivery", "OK") /\ UNCHANGED charger
       ELSE IF commandOk
       THEN Stay("DCPreCharge", "seen", "OK") /\ charger' = "precharge"
       ELSE Halt("DCPreCharge", "FAILED")
    /\ UNCHANGED <<silent, sessionId, choice, offered, hlc, history>>

\* Mutant: the schedule is not looked up in the list offered.
BeginUnscheduled(tuple, contactorOk) ==
    /\ contactorOk
    /\ Goto(IF service \in ACServices THEN "ACChargeLoop" ELSE "DCChargeLoop",
            "OK")
    /\ hlc' = TRUE
    /\ accepted' = IF mode = "SCHEDULED" THEN tuple ELSE NoTuple
    /\ UNCHANGED charger

\* Start, Renegotiate, and Standby where it is allowed, all begin to charge.
BeginCharging(tuple, contactorOk) ==
    IF mode = "SCHEDULED" /\ tuple \notin offered
    THEN /\ Halt("PowerDelivery", "FAILED_ScheduleSelectionInvalid")
         /\ UNCHANGED <<hlc, accepted>>
    ELSE IF ~contactorOk
    THEN /\ Halt("PowerDelivery", "FAILED_ContactorError")
         /\ hlc' = FALSE
         /\ UNCHANGED accepted
    ELSE /\ Goto(IF service \in ACServices THEN "ACChargeLoop"
                                           ELSE "DCChargeLoop", "OK")
         /\ hlc' = TRUE
         /\ accepted' = IF mode = "SCHEDULED" THEN tuple ELSE NoTuple
         /\ UNCHANGED charger

\* processing: the EV still works on its power profile.
PowerDelivery(sid, processing, progress, tuple, contactorOk) ==
    LET Wait ==
          /\ processing
          /\ Stay("PowerDelivery", "fresh", "OK")
          /\ UNCHANGED <<power, accepted>>
        Refuse ==
          /\ ~processing /\ progress = "Standby" /\ ~Standby
          /\ Halt("PowerDelivery", "WARNING_StandbyNotAllowed")
          /\ UNCHANGED <<hlc, accepted>>
        Stop ==
          /\ ~processing /\ progress = "Stop"
          /\ hlc' = FALSE /\ charger' = "off"
          /\ IF contactorOk THEN Stay("PowerDelivery", "fresh", "OK")
             ELSE Halt("PowerDelivery", "FAILED_ContactorError")
          /\ UNCHANGED accepted
        Begin ==
          /\ ~processing /\ progress # "Stop"
          /\ progress = "Standby" => Standby
          /\ BeginCharging(tuple, contactorOk)
    IN
    /\ Accepts("PowerDelivery", sid)
    /\ Wait \/ Refuse \/ Stop \/ Begin
    /\ UNCHANGED <<silent, sessionId, choice, offered, decision, isolated>>

ACChargeLoop(sid) ==
    /\ Accepts("ACChargeLoop", sid)
    /\ Stay("ACChargeLoop", "fresh", "OK")
    /\ UNCHANGED <<silent, sessionId, choice, offered, power, history>>

\* The third argument of send_charging_command is is_precharge, and the loop
\* passes is_session_bpt there.
LoopCommand == IF service \in BPT THEN "precharge" ELSE "charging"

DCChargeLoop(sid, commandOk) ==
    /\ Accepts("DCChargeLoop", sid)
    /\ IF commandOk
       THEN Stay("DCChargeLoop", "seen", "OK") /\ charger' = LoopCommand
       ELSE Halt("DCChargeLoop", "FAILED")
    /\ UNCHANGED <<silent, sessionId, choice, offered, hlc, history>>

DCWeldingDetection(sid) ==
    /\ Accepts("DCWeldingDetection", sid)
    /\ Stay("DCWeldingDetection", "seen", "OK")
    /\ UNCHANGED <<silent, sessionId, choice, offered, power, history>>

-----------------------------------------------------------------------------
(* The end of a session.                                                   *)

\* A renegotiation notes a pause as the stop reason, and goes on.
SessionStop(sid, request) ==
    /\ Accepts("SessionStop", sid)
    /\ IF request = "renegotiate" /\ Renegotiable
       THEN /\ st' = "ServiceDiscovery" /\ inst' = "fresh" /\ res' = "OK"
            /\ reason' = "paused"
            /\ UNCHANGED <<phase, charger>>
       ELSE Stopping("SessionStop", IF request = "terminate" THEN "terminated"
                                    ELSE "paused", "OK")
    /\ UNCHANGED <<silent, sessionId, choice, offered, hlc, history>>

\* check_msg refuses a request the state does not accept, or of another
\* session.  Before the protocol is agreed only its request decodes, and after
\* that none does.
Refuse(type, sid) ==
    /\ phase = "open" /\ ~silent
    /\ (type = "SupportedAppProtocol") = (st = "SupportedAppProtocol")
    /\ ~Accepts(type, sid)
    /\ Halt(st, IF type \in Accepted THEN "FAILED_UnknownSession"
                                     ELSE "FAILED_SequenceError")
    /\ UNCHANGED <<silent, sessionId, choice, offered, hlc, history>>

\* Mutant: the end of the stream is reported with the reason noted last.
AbortAsNoted ==
    /\ phase = "open"
    /\ Stopping(st, IF reason = "none" THEN "failure" ELSE reason, "none")
    /\ UNCHANGED <<silent, sessionId, choice, offered, hlc, history>>

\* stop() without a response.
Abort ==
    /\ phase = "open"
    /\ Stopping(st, "failure", "none")
    /\ UNCHANGED <<silent, sessionId, choice, offered, hlc, history>>

\* A message that cannot be decoded, a handler that raises, the end of the
\* stream, or a reset.
BreakOff == ~silent /\ Abort

\* wait_for(reader.read(), timeout) expires.
SequenceTimeout == silent /\ Abort

EvFallsSilent ==
    /\ phase = "open" /\ ~silent
    /\ silent' = TRUE
    /\ UNCHANGED <<st, inst, phase, reason, res, sessionId, choice, offered,
                   power, history>>

\* Two seconds into stop() the data link and the controller are told, three
\* later the writer is closed and the handler notified.
EndSession ==
    /\ phase = "stopping" /\ phase' = "closing"
    /\ UNCHANGED <<st, inst, reason, res, silent, sessionId, choice, offered,
                   power, history>>

CloseConnection ==
    /\ phase = "closing" /\ phase' = "ended"
    /\ UNCHANGED <<st, inst, reason, res, silent, sessionId, choice, offered,
                   power, history>>

Handle(sid) ==
    \/ \E b \in BOOLEAN : SupportedAppProtocol(b)
    \/ \E new \in SessionIds : SessionSetup(sid, new)
    \/ AuthorizationSetup(sid)
    \/ CertificateInstallation(sid)
    \/ \E pnc, sigOk, challengeOk \in BOOLEAN, answer \in Answers,
          code \in {"none", "OK", "FAILED"} :
            Authorization(sid, pnc, sigOk, challengeOk, answer, code)
    \/ \E offer, sets \in SUBSET Services : ServiceDiscovery(sid, offer, sets)
    \/ \E s \in Services : ServiceDetail(sid, s)
    \/ \E s \in Services, m \in {"SCHEDULED", "DYNAMIC"}, vasOk \in BOOLEAN :
            ServiceSelection(sid, s, m, vasOk)
    \/ \E known \in BOOLEAN : ACChargeParameterDiscovery(sid, known)
    \/ \E known \in BOOLEAN : DCChargeParameterDiscovery(sid, known)
    \/ \E fits, ready \in BOOLEAN, schedules \in (SUBSET Tuples) \ {{}} :
            ScheduleExchange(sid, fits, ready, schedules)
    \/ \E contactor \in {"closed", "open", "unknown"},
          isolation \in {"valid", "fault", "pending"} :
            DCCableCheck(sid, contactor, isolation)
    \/ \E done, commandOk \in BOOLEAN : DCPreCharge(sid, done, commandOk)
    \/ \E processing, contactorOk \in BOOLEAN, tuple \in Tuples,
          progress \in {"Start", "Stop", "Renegotiate", "Standby"} :
            PowerDelivery(sid, processing, progress, tuple, contactorOk)
    \/ ACChargeLoop(sid)
    \/ \E commandOk \in BOOLEAN : DCChargeLoop(sid, commandOk)
    \/ DCWeldingDetection(sid)
    \/ \E request \in {"terminate", "pause", "renegotiate"} :
            SessionStop(sid, request)
    \/ \E type \in States : Refuse(type, sid)

Next ==
    \/ \E sid \in SessionIds \cup {NoId} : Handle(sid)
    \/ BreakOff \/ SequenceTimeout \/ EvFallsSilent
    \/ EndSession \/ CloseConnection

\* The timer of the receive loop fires when nothing arrives, and stop() runs to
\* its end; the EV owes nothing.
Fairness == WF_vars(SequenceTimeout) /\ WF_vars(EndSession)
            /\ WF_vars(CloseConnection)

Spec == Init /\ [][Next]_vars /\ Fairness

-----------------------------------------------------------------------------
(* Properties.                                                             *)

\* Every variable keeps its type, and only what was discovered is detailed.
TypeOK ==
    /\ st \in States
    /\ inst \in {"fresh", "seen", "checking", "closed"}
    /\ phase \in {"open", "stopping", "closing", "ended"}
    /\ reason \in {"none", "failure", "terminated", "paused"}
    /\ silent \in BOOLEAN
    /\ sessionId \in SessionIds \cup {NoId}
    /\ detailed \subseteq matched /\ matched \subseteq Services
    /\ service \in Services \cup {NoService}
    /\ mode \in {"none", "SCHEDULED", "DYNAMIC"}
    /\ offered \subseteq Tuples
    /\ hlc \in BOOLEAN
    /\ charger \in {"off", "cablecheck", "precharge", "charging"}
    /\ decision \in Answers \cup {"none"}
    /\ isolated \in BOOLEAN
    /\ accepted \in Tuples \cup {NoTuple}

\* No service is negotiated, nor the charger or HLC switched on, while the
\* authorization is undecided: an answer that is ongoing again, after a decided
\* one, closes the way that the first answer opened.  Only a renegotiation
\* leads past Authorization, and then leaves the note of a pause.
DecidedBeforePower ==
    /\ phase = "open"
    /\ st \notin AuthStates \/ charger # "off" \/ hlc
    => decision \in {"accepted", "rejected"} \/ reason = "paused"

\* Parameters are exchanged, and energy is transferred, for the very service
\* selected last among those detailed, however often the EV renegotiates.
SelectionServed ==
    phase = "open" =>
        /\ st \in {"ACChargeParameterDiscovery", "ACChargeLoop"}
             => service \in ACServices \cap detailed
        /\ st \in {"DCChargeParameterDiscovery", "DCChargeLoop"}
             => service \in DCServices \cap detailed

\* In the charging loop HLC charging is on, and in scheduled mode the EV's
\* schedule is of the list offered last.  The charger delivers only under HLC.
LoopAsAgreed ==
    /\ phase = "open" /\ st \in {"ACChargeLoop", "DCChargeLoop"} =>
         hlc /\ (mode = "SCHEDULED" => accepted \in offered)
    /\ charger = "charging" => hlc

\* Precharge follows a cable check made with the present charge parameters.
IsolatedBeforePreCharge == phase = "open" /\ st = "DCPreCharge" => isolated

\* However the session ends, the charger is off before the connection closes;
\* and the handler hears of a success exactly when the EV asked for the end,
\* although a renegotiation has left a note of success.
CleanEnd ==
    phase # "open" =>
        /\ charger = "off"
        /\ reason \in {"terminated", "paused"} <=> st = "SessionStop"

\* In the charging loop the charger delivers what the EV asks for, in either
\* direction (docstring of send_charging_command); precharge is another state's.
LoopDelivers ==
    phase = "open" /\ st = "DCChargeLoop" /\ inst = "seen" =>
        charger = "charging"
=============================================================================
