------------------------------- MODULE SeccV2 -------------------------------
(***************************************************************************)
(* The SECC side of an ISO 15118-2 charging session: the receive loop of   *)
(* shared/comm_session.py driving the states of                            *)
(* secc/states/iso15118_2_states.py, one TCP connection after another with *)
(* the session context that a paused session leaves to the next one.       *)
(*                                                                         *)
(* The EV sends any request at any time, with any content its decoder      *)
(* admits; the EVSE controller (EVSEControllerInterface) answers anything  *)
(* its interface allows.  A request is processed by one coroutine, so one  *)
(* step is one turn of rcv_loop: decode, check_msg, the handler (of the    *)
(* current state or of the state it delegates to), the response, and the   *)
(* move to the next state or the beginning of stop().                      *)
(***************************************************************************)
EXTENDS Naturals, FiniteSets

CONSTANTS
    SessionIds,     \* values get_random_bytes(8) may return
    NoId,           \* "00" in a header, "" or None in a session: no session
    Tuples,         \* SAScheduleTuple identifiers
    NoTuple,        \* no schedule selected (None)
    SupportedAuth,  \* config.supported_auth_options, of {"EIM", "PNC"}
    Modes,          \* supported energy transfer modes, of {"AC", "DC"}
    CertInstall,    \* config.allow_cert_install_service
    MaxSessions     \* bound: TCP connections of one behaviour

ASSUME SeccV2Assumption ==
    /\ NoId \notin SessionIds
    /\ NoTuple \notin Tuples
    /\ SupportedAuth \subseteq {"EIM", "PNC"}
    /\ Modes \subseteq {"AC", "DC"}
    /\ CertInstall \in BOOLEAN
    /\ MaxSessions \in Nat \ {0}

VARIABLES
    st,          \* class of comm_session.current_state
    inst,        \* progress of that instance, fresh when it is constructed
    phase,       \* "open", "stopping" and "closing" (inside stop()), "ended"
    outcome,     \* action stop() carries out: "none", "terminate" or "pause"
    res,         \* code of the response to the last request, "none" if none
    tls,         \* is_tls of the connection
    silent,      \* the EV sends nothing more on this connection
    sessionId,   \* comm_session.session_id
    ctx,         \* comm_session.ev_session_context
    offeredAuth, selectedAuth,  \* auth options, "none" before the selection
    services,    \* ids of comm_session.offered_services
    chain,       \* contract_cert_chain (and emaid, gen_challenge) stored
    offered,     \* ids of comm_session.offered_schedules
    selected,    \* comm_session.selected_schedule
    isAC,        \* comm_session.selected_charging_type_is_ac
    started,     \* comm_session.charge_progress_started
    hlc,         \* last set_hlc_charging() of the controller
    charger,     \* last command to the charger: "off", "cablecheck", ...
    connections, \* TCP connections so far
    granted,     \* history: the controller accepted the authorization
    verified,    \* history: an AuthorizationReq signature was verified
    isolated     \* history: cable check passed since the parameters were set

auth    == <<offeredAuth, selectedAuth, services>>
energy  == <<offered, selected, isAC, started>>
history == <<granted, verified, isolated>>
link    == <<tls, silent, connections>>
vars    == <<st, inst, phase, outcome, res, link, sessionId, ctx, auth, chain,
             energy, hlc, charger, history>>

-----------------------------------------------------------------------------
(* What each state accepts.                                                *)

Contexts == [id : SessionIds \cup {NoId}, auth : SUBSET {"EIM", "PNC"},
             tuple : Tuples \cup {NoTuple}]
NoCtx == [id |-> NoId, auth |-> {}, tuple |-> NoTuple]

SetupStates == {"SupportedAppProtocol", "SessionSetup", "ServiceDiscovery",
                "ServiceDetail", "PaymentServiceSelection",
                "CertificateInstallation", "PaymentDetails", "Authorization"}
ParameterStates == {"ChargeParameterDiscovery", "CableCheck", "PreCharge",
                    "PowerDelivery"}
ChargingStates == {"ChargingStatus", "CurrentDemand", "MeteringReceipt"}
EndStates == {"WeldingDetection", "SessionStop"}
States == SetupStates \cup ParameterStates \cup ChargingStates \cup EndStates

\* The state that processes a request is the one named after it.
RequestTypes == States \cup {"CertificateUpdate"}

\* What the states' lists for check_msg_v2 name after their own request.
Lists ==
    {<<"ServiceDiscovery", "ServiceDetail">>,
     <<"ServiceDiscovery", "PaymentServiceSelection">>,
     <<"ServiceDetail", "PaymentServiceSelection">>,
     <<"PaymentServiceSelection", "CertificateInstallation">>,
     <<"PaymentServiceSelection", "PaymentDetails">>,
     <<"PaymentServiceSelection", "Authorization">>,
     <<"ChargeParameterDiscovery", "PowerDelivery">>,
     <<"ChargeParameterDiscovery", "CableCheck">>,
     <<"PowerDelivery", "SessionStop">>,
     <<"PowerDelivery", "WeldingDetection">>,
     <<"ChargingStatus", "PowerDelivery">>,
     <<"ChargingStatus", "MeteringReceipt">>,
     <<"MeteringReceipt", "ChargingStatus">>,
     <<"MeteringReceipt", "CurrentDemand">>,
     <<"MeteringReceipt", "PowerDelivery">>,
     <<"PreCharge", "PowerDelivery">>,
     <<"CurrentDemand", "PowerDelivery">>,
     <<"WeldingDetection", "SessionStop">>}

Expects(lists, s) == {s} \cup {t \in States : <<s, t>> \in lists}

\* Mutants: one more request in the list of one state.
StatusAfterStop(s) ==
    Expects(Lists \cup {<<"PowerDelivery", "ChargingStatus">>}, s)
SelectionReopened(s) ==
    Expects(Lists \cup {<<"Authorization", "PaymentServiceSelection">>}, s)

Expected(s) == Expects(Lists, s)

\* Mutant: expect_first is ignored.
AnyExpected == Expected(st)

\* expect_first: a fresh instance takes only its own request.
Accepted == IF inst = "fresh" THEN {st} ELSE Expected(st)

\* check_msg: the request is one the state accepts, of this session.
InSession(type, sid) ==
    type \notin {"SupportedAppProtocol", "SessionSetup"} => sid = sessionId
Accepts(type, sid) ==
    /\ phase = "open" /\ ~silent
    /\ type \in Accepted
    /\ InSession(type, sid)

\* Progress of the instance that handles a request of this type: the current
\* one, or the fresh one the current state delegates to.
Own(type) == IF st = type THEN inst ELSE "fresh"

-----------------------------------------------------------------------------
(* The three ways a handler ends, after create_next_message.               *)

Stay(s, progress, code) ==
    /\ st' = s /\ inst' = progress /\ res' = code
    /\ UNCHANGED <<phase, outcome>>

Goto(s, code) ==
    /\ st' = s /\ inst' = "fresh" /\ res' = code
    /\ UNCHANGED <<phase, outcome>>

\* Mutant: stop() without stop_charger().
StoppingPowered(s, action, code) ==
    /\ st' = s /\ inst' = Own(s) /\ res' = code
    /\ phase' = "stopping" /\ outcome' = action
    /\ UNCHANGED charger

\* rcv_loop enters stop(), whose first call stops the charger.
Stopping(s, action, code) ==
    /\ st' = s /\ inst' = Own(s) /\ res' = code
    /\ phase' = "stopping" /\ outcome' = action
    /\ charger' = "off"

\* stop_state_machine: a failure response, then Terminate.
Halt(s, code) == Stopping(s, "terminate", code)

-----------------------------------------------------------------------------
(* Communication setup and identification.                                 *)

Init ==
    /\ st = "SupportedAppProtocol" /\ inst = "fresh"
    /\ phase = "open" /\ outcome = "none" /\ res = "none"
    /\ tls \in BOOLEAN /\ silent = FALSE /\ connections = 1
    /\ sessionId = NoId /\ ctx = NoCtx
    /\ offeredAuth = {} /\ selectedAuth = "none" /\ services = {}
    /\ chain = FALSE
    /\ offered = {} /\ selected = NoTuple /\ isAC = TRUE /\ started = FALSE
    /\ hlc = FALSE /\ charger = "off"
    /\ granted = FALSE /\ verified = FALSE /\ isolated = FALSE

\* The EV offers ISO 15118-2 in a version the SECC supports, or nothing it
\* supports (the states of the other protocols are not of this module).
SupportedAppProtocol(offersV2) ==
    /\ Accepts("SupportedAppProtocol", NoId)
    /\ IF offersV2
       THEN /\ Goto("SessionSetup", "OK_SuccessfulNegotiation")
            /\ UNCHANGED charger
       ELSE Halt("SupportedAppProtocol", "Failed_NoNegotiation")
    /\ UNCHANGED <<link, sessionId, ctx, auth, chain, energy, hlc, history>>

\* Mutant: the new identifier is not written to the context.
SessionSetupKeepingContext(sid, new) ==
    /\ Accepts("SessionSetup", sid)
    /\ new # ctx.id
    /\ Goto("ServiceDiscovery", "OK_NewSessionEstablished")
    /\ sessionId' = IF sid # NoId /\ sid = ctx.id THEN sid ELSE new
    /\ UNCHANGED <<link, ctx, auth, chain, energy, hlc, charger, history>>

\* A known identifier joins the session of the context; any other starts one
\* with a fresh identifier and an empty context.
SessionSetup(sid, new) ==
    /\ Accepts("SessionSetup", sid)
    /\ new # ctx.id
    /\ IF sid # NoId /\ sid = ctx.id
       THEN /\ Goto("ServiceDiscovery", "OK_OldSessionJoined")
            /\ sessionId' = ctx.id
            /\ UNCHANGED ctx
       ELSE /\ Goto("ServiceDiscovery", "OK_NewSessionEstablished")
            /\ sessionId' = new
            /\ ctx' = [id |-> new, auth |-> {}, tuple |-> NoTuple]
    /\ UNCHANGED <<link, auth, chain, energy, hlc, charger, history>>

\* get_services: the options of a resumed session are those of its context.
OfferedAuth(eimAuthorized) ==
    IF ctx.auth # {} THEN ctx.auth
    ELSE IF selectedAuth # "none" THEN {selectedAuth}
    ELSE IF eimAuthorized THEN {"EIM"}
    ELSE {a \in SupportedAuth : a = "PNC" => tls}

ServiceDiscovery(sid, anyCategory, eimAuthorized) ==
    /\ Accepts("ServiceDiscovery", sid)
    /\ IF inst = "fresh"
       THEN /\ Stay("ServiceDiscovery", "seen", "OK")
            /\ offeredAuth' = OfferedAuth(eimAuthorized)
            /\ services' = IF tls /\ CertInstall /\ anyCategory
                           THEN {"Certificate"} ELSE {}
            /\ UNCHANGED <<selectedAuth, charger>>
       ELSE /\ Halt("ServiceDiscovery", "FAILED_SequenceError")
            /\ UNCHANGED auth
    /\ UNCHANGED <<link, sessionId, ctx, chain, energy, hlc, history>>

\* An unknown service gets a failure response but does not end the session,
\* and the instance still insists on a ServiceDetailReq.
ServiceDetail(sid, service) ==
    /\ Accepts("ServiceDetail", sid)
    /\ IF service \in services
       THEN Stay("ServiceDetail", "seen", "OK")
       ELSE Stay("ServiceDetail", Own("ServiceDetail"),
                 "FAILED_ServiceIDInvalid")
    /\ UNCHANGED <<link, sessionId, ctx, auth, chain, energy, hlc, charger,
                   history>>

PaymentServiceSelection(sid, chosen, option) ==
    LET failure ==
          IF ~(chosen \ {"Charging"} \subseteq services)
          THEN "FAILED_ServiceSelectionInvalid"
          ELSE IF "Charging" \notin chosen
          THEN "FAILED_NoChargeServiceSelected"
          ELSE IF option \notin offeredAuth
          THEN "FAILED_PaymentSelectionInvalid"
          ELSE "none"
    IN
    /\ Accepts("PaymentServiceSelection", sid)
    /\ IF failure # "none"
       THEN /\ Halt("PaymentServiceSelection", failure)
            /\ UNCHANGED <<auth, ctx>>
       ELSE /\ Stay("PaymentServiceSelection", "seen", "OK")
            /\ selectedAuth' = option
            /\ ctx' = [ctx EXCEPT !.auth = {option}]
            /\ UNCHANGED <<offeredAuth, services, charger>>
    /\ UNCHANGED <<link, sessionId, chain, energy, hlc, history>>

\* sigOk: the OEM signature verifies; built: a response could be built, by
\* the backend or from the local certificates.
CertificateInstallation(sid, sigOk, built) ==
    /\ Accepts("CertificateInstallation", sid)
    /\ IF sigOk /\ built
       THEN /\ Goto("PaymentDetails", "OK")
            /\ UNCHANGED charger
       ELSE Halt("CertificateInstallation",
                 IF sigOk THEN "FAILED_NoCertificateAvailable"
                          ELSE "FAILED_SignatureError")
    /\ UNCHANGED <<link, sessionId, ctx, auth, chain, energy, hlc, history>>

\* certificate_response_status of the controller's answer, or OK without one.
Answers == {"Accepted", "Ongoing", "Rejected"}
AnswerCodes == {"OK", "FAILED"}

\* certsOk: no expiry, length or attribute error (a failing chain signature is
\* left to the backend's answer).
PaymentDetails(sid, certsOk, answer, code) ==
    /\ Accepts("PaymentDetails", sid)
    /\ chain' = (chain \/ certsOk)
    /\ IF certsOk /\ answer # "Rejected"
       THEN /\ Goto("Authorization", code)
            /\ UNCHANGED charger
       ELSE Halt("PaymentDetails",
                 IF certsOk THEN code ELSE "FAILED_CertificateExpired")
    /\ UNCHANGED <<link, sessionId, ctx, auth, energy, hlc, history>>

\* challengeOk and sigOk: the challenge is the one of PaymentDetailsRes and
\* the signature verifies with the stored chain; both are only looked at in
\* the first request.  The controller is asked until it has accepted.
Authorization(sid, challengeOk, sigOk, answer, code, ready) ==
    LET own == Own("Authorization")
        pnc == selectedAuth = "PNC"
        first == pnc /\ own = "fresh"
        failure ==
          IF pnc /\ ~chain THEN "FAILED_SignatureError"
          ELSE IF first /\ ~challengeOk THEN "FAILED_ChallengeInvalid"
          ELSE IF first /\ ~sigOk THEN "FAILED_SignatureError"
          ELSE "none"
        complete == own = "complete" \/ answer = "Accepted"
        rejected == own # "complete" /\ answer = "Rejected"
        reply == IF own = "complete" THEN "OK" ELSE code
    IN
    /\ Accepts("Authorization", sid)
    /\ IF failure # "none"
       THEN Halt("Authorization", failure) /\ UNCHANGED <<granted, verified>>
       ELSE /\ IF rejected THEN Halt("Authorization", reply)
               ELSE /\ IF complete /\ ready
                       THEN Goto("ChargeParameterDiscovery", reply)
                       ELSE Stay("Authorization",
                                 IF complete THEN "complete"
                                 ELSE IF pnc THEN "signed" ELSE own, reply)
                    /\ UNCHANGED charger
            /\ granted' = (granted \/ complete)
            /\ verified' = (verified \/ first)
    /\ UNCHANGED <<link, sessionId, ctx, auth, chain, energy, hlc, isolated>>

-----------------------------------------------------------------------------
(* Charge parameters, isolation, power delivery and the charging loop.     *)

\* Mutant: the charging type is not taken over from the request.
ChargeParameterDiscoveryDefault(sid, mode, schedules) ==
    /\ Accepts("ChargeParameterDiscovery", sid)
    /\ IF mode \notin Modes
       THEN /\ Halt("ChargeParameterDiscovery", "FAILED_WrongEnergyTransferMode")
            /\ UNCHANGED <<offered, isAC, isolated>>
       ELSE /\ isAC' = isAC
            /\ isolated' = FALSE
            /\ UNCHANGED charger
            /\ IF schedules = {}
               THEN /\ Stay("ChargeParameterDiscovery", "fresh", "OK")
                    /\ UNCHANGED offered
               ELSE /\ Goto(IF mode = "AC" THEN "PowerDelivery" ELSE "CableCheck",
                            "OK")
                    /\ offered' = schedules
    /\ UNCHANGED <<link, sessionId, ctx, auth, chain, selected, started, hlc,
                   granted, verified>>

\* The parameters match the mode (the decoder refuses others).  Without
\* schedules the answer is Ongoing and the state waits for another request.
ChargeParameterDiscovery(sid, mode, schedules) ==
    /\ Accepts("ChargeParameterDiscovery", sid)
    /\ IF mode \notin Modes
       THEN /\ Halt("ChargeParameterDiscovery", "FAILED_WrongEnergyTransferMode")
            /\ UNCHANGED <<offered, isAC, isolated>>
       ELSE /\ isAC' = (mode = "AC")
            /\ isolated' = FALSE
            /\ UNCHANGED charger
            /\ IF schedules = {}
               THEN /\ Stay("ChargeParameterDiscovery", "fresh", "OK")
                    /\ UNCHANGED offered
               ELSE /\ Goto(IF mode = "AC" THEN "PowerDelivery" ELSE "CableCheck",
                            "OK")
                    /\ offered' = schedules
    /\ UNCHANGED <<link, sessionId, ctx, auth, chain, selected, started, hlc,
                   granted, verified>>

\* contactor: the answer of is_contactor_closed(), "unknown" for None;
\* isolation: "valid" (or a warning), "fault", or "pending".
CableCheck(sid, evError, contactor, isolation) ==
    LET own == Own("CableCheck")
        closed == own = "closed"
        passed == closed /\ isolation = "valid"
        failed == \/ evError
                  \/ closed /\ isolation = "fault"
                  \/ ~closed /\ contactor = "open"
    IN
    /\ Accepts("CableCheck", sid)
    /\ IF failed
       THEN Halt("CableCheck", "FAILED") /\ UNCHANGED isolated
       ELSE /\ charger' = IF own = "fresh" THEN "cablecheck" ELSE charger
            /\ IF passed
               THEN /\ Goto("PreCharge", "OK")
                    /\ isolated' = TRUE
               ELSE /\ Stay("CableCheck",
                            IF closed \/ contactor = "closed" THEN "closed"
                            ELSE "checking", "OK")
                    /\ UNCHANGED isolated
    /\ UNCHANGED <<link, sessionId, ctx, auth, chain, energy, hlc, granted,
                   verified>>

\* fault: an EV error, a current above 2 A or a failing charging command.
PreCharge(sid, fault) ==
    /\ Accepts("PreCharge", sid)
    /\ IF fault THEN Halt("PreCharge", "FAILED")
       ELSE Stay("PreCharge", "seen", "OK") /\ charger' = "precharge"
    /\ UNCHANGED <<link, sessionId, ctx, auth, chain, energy, hlc, history>>

\* The controller learns that HLC charging is on before the contactor is known
\* to be closed.  After the Stop of a DC session the instance stays.
PowerDelivery(sid, progress, tuple, profileOk, contactorOk) ==
    LET refused ==
          IF tuple \notin offered THEN "FAILED_TariffSelectionInvalid"
          ELSE IF ~profileOk THEN "FAILED_ChargingProfileInvalid"
          ELSE "none"
        Start ==
          /\ progress = "Start"
          /\ hlc' = TRUE
          /\ IF contactorOk
             THEN /\ Goto(IF isAC THEN "ChargingStatus" ELSE "CurrentDemand", "OK")
                  /\ selected' = tuple /\ started' = TRUE
                  /\ UNCHANGED charger
             ELSE /\ Halt("PowerDelivery", "FAILED_ContactorError")
                  /\ UNCHANGED <<selected, started>>
        Stop ==
          /\ progress = "Stop"
          /\ hlc' = FALSE
          /\ charger' = "off"
          /\ IF ~contactorOk THEN Halt("PowerDelivery", "FAILED_ContactorError")
             ELSE IF isAC THEN Goto("SessionStop", "OK")
             ELSE Stay("PowerDelivery", "seen", "OK")
          /\ UNCHANGED <<selected, started>>
        Renegotiate ==
          /\ progress = "Renegotiate"
          /\ IF started
             THEN Goto("ChargeParameterDiscovery", "OK") /\ UNCHANGED charger
             ELSE Halt("PowerDelivery", "FAILED")
          /\ UNCHANGED <<selected, started, hlc>>
    IN
    /\ Accepts("PowerDelivery", sid)
    /\ IF refused # "none"
       THEN /\ Halt("PowerDelivery", refused)
            /\ UNCHANGED <<selected, started, hlc>>
       ELSE Start \/ Stop \/ Renegotiate
    /\ UNCHANGED <<link, sessionId, ctx, auth, chain, offered, isAC, granted,
                   verified, isolated>>

ChargingStatus(sid) ==
    /\ Accepts("ChargingStatus", sid)
    /\ Stay("ChargingStatus", "seen", "OK")
    /\ UNCHANGED <<link, sessionId, ctx, auth, chain, energy, hlc, charger,
                   history>>

\* commandOk: send_charging_command did not time out.
CurrentDemand(sid, commandOk) ==
    /\ Accepts("CurrentDemand", sid)
    /\ IF commandOk
       THEN Stay("CurrentDemand", "seen", "OK") /\ charger' = "charging"
       ELSE Halt("CurrentDemand", "FAILED")
    /\ UNCHANGED <<link, sessionId, ctx, auth, chain, energy, hlc, history>>

\* receiptOk: the signature verifies and the reading is the one sent.
MeteringReceipt(sid, receiptOk) ==
    /\ Accepts("MeteringReceipt", sid)
    /\ IF chain /\ receiptOk
       THEN Stay("MeteringReceipt", "seen", "OK") /\ UNCHANGED charger
       ELSE Halt("MeteringReceipt", "FAILED_MeteringSignatureNotValid")
    /\ UNCHANGED <<link, sessionId, ctx, auth, chain, energy, hlc, history>>

WeldingDetection(sid) ==
    /\ Accepts("WeldingDetection", sid)
    /\ Stay("WeldingDetection", "seen", "OK")
    /\ UNCHANGED <<link, sessionId, ctx, auth, chain, energy, hlc, charger,
                   history>>

SessionStop(sid, pause) ==
    /\ Accepts("SessionStop", sid)
    /\ Stopping("SessionStop", IF pause THEN "pause" ELSE "terminate", "OK")
    /\ ctx' = IF pause THEN ctx ELSE NoCtx
    /\ UNCHANGED <<link, sessionId, auth, chain, energy, hlc, history>>

-----------------------------------------------------------------------------
(* The receive loop: refusals, failures, the end of the connection.        *)

\* check_msg refuses a request the state does not accept, or of another session.
\* Before the protocol is agreed only a SupportedAppProtocolReq decodes, and after
\* that none does.
Refuse(type, sid) ==
    /\ phase = "open" /\ ~silent
    /\ (type = "SupportedAppProtocol") = (st = "SupportedAppProtocol")
    /\ ~Accepts(type, sid)
    /\ Halt(st, IF type \in Accepted THEN "FAILED_UnknownSession"
                                     ELSE "FAILED_SequenceError")
    /\ UNCHANGED <<link, sessionId, ctx, auth, chain, energy, hlc, history>>

\* A message that cannot be decoded, a handler that raises, the end of the
\* stream, or a reset: stop() without a response.
Abort ==
    /\ phase = "open"
    /\ Stopping(st, "terminate", "none")
    /\ UNCHANGED <<link, sessionId, ctx, auth, chain, energy, hlc, history>>

BreakOff == ~silent /\ Abort

\* Mutant: no timer runs before the protocol is agreed.
LateTimeout == silent /\ st # "SupportedAppProtocol" /\ Abort

\* wait_for(reader.read(), timeout) expires.
SequenceTimeout == silent /\ Abort

EvFallsSilent ==
    /\ phase = "open" /\ ~silent
    /\ silent' = TRUE
    /\ UNCHANGED <<st, inst, phase, outcome, res, tls, connections, sessionId,
                   ctx, auth, chain, energy, hlc, charger, history>>

\* Two seconds into stop(): update_data_link() and session_ended().
EndSession ==
    /\ phase = "stopping"
    /\ phase' = "closing"
    /\ UNCHANGED <<st, inst, outcome, res, link, sessionId, ctx, auth, chain,
                   energy, hlc, charger, history>>

\* Three seconds later the writer is closed and the handler notified.
CloseConnection ==
    /\ phase = "closing"
    /\ phase' = "ended"
    /\ UNCHANGED <<st, inst, outcome, res, link, sessionId, ctx, auth, chain,
                   energy, hlc, charger, history>>

\* The same EV connects again: a new session object, which gets the context of
\* its predecessor only when that one was paused.
Reconnect ==
    /\ phase = "ended"
    /\ connections < MaxSessions
    /\ connections' = connections + 1
    /\ st' = "SupportedAppProtocol" /\ inst' = "fresh"
    /\ phase' = "open" /\ outcome' = "none" /\ res' = "none"
    /\ tls' \in BOOLEAN /\ silent' = FALSE
    /\ sessionId' = NoId
    /\ ctx' = IF outcome = "pause" THEN ctx ELSE NoCtx
    /\ offeredAuth' = {} /\ selectedAuth' = "none" /\ services' = {}
    /\ chain' = FALSE
    /\ offered' = {} /\ selected' = NoTuple /\ isAC' = TRUE /\ started' = FALSE
    /\ granted' = FALSE /\ verified' = FALSE /\ isolated' = FALSE
    /\ UNCHANGED <<hlc, charger>>

Handle(sid) ==
    \/ \E b \in BOOLEAN : SupportedAppProtocol(b)
    \/ \E new \in SessionIds : SessionSetup(sid, new)
    \/ \E b, e \in BOOLEAN : ServiceDiscovery(sid, b, e)
    \/ \E service \in {"Certificate", "Internet"} : ServiceDetail(sid, service)
    \/ \E chosen \in SUBSET {"Charging", "Certificate", "Internet"},
          option \in {"EIM", "PNC"} :
            PaymentServiceSelection(sid, chosen, option)
    \/ \E sigOk, built \in BOOLEAN : CertificateInstallation(sid, sigOk, built)
    \/ \E certsOk \in BOOLEAN, answer \in Answers, code \in AnswerCodes :
            PaymentDetails(sid, certsOk, answer, code)
    \/ \E challengeOk, sigOk, ready \in BOOLEAN, answer \in Answers,
          code \in AnswerCodes :
            Authorization(sid, challengeOk, sigOk, answer, code, ready)
    \/ \E mode \in {"AC", "DC"}, schedules \in SUBSET Tuples :
            ChargeParameterDiscovery(sid, mode, schedules)
    \/ \E evError \in BOOLEAN, contactor \in {"closed", "open", "unknown"},
          isolation \in {"valid", "fault", "pending"} :
            CableCheck(sid, evError, contactor, isolation)
    \/ \E fault \in BOOLEAN : PreCharge(sid, fault)
    \/ \E progress \in {"Start", "Stop", "Renegotiate"}, tuple \in Tuples,
          profileOk, contactorOk \in BOOLEAN :
            PowerDelivery(sid, progress, tuple, profileOk, contactorOk)
    \/ ChargingStatus(sid)
    \/ \E commandOk \in BOOLEAN : CurrentDemand(sid, commandOk)
    \/ \E receiptOk \in BOOLEAN : MeteringReceipt(sid, receiptOk)
    \/ WeldingDetection(sid)
    \/ \E pause \in BOOLEAN : SessionStop(sid, pause)
    \/ \E type \in RequestTypes : Refuse(type, sid)

Next ==
    \/ \E sid \in SessionIds \cup {NoId} : Handle(sid)
    \/ BreakOff \/ SequenceTimeout \/ EvFallsSilent
    \/ EndSession \/ CloseConnection \/ Reconnect

\* The timer of the receive loop fires when nothing arrives, and stop() runs to
\* its end; the EV owes nothing.
Fairness == WF_vars(SequenceTimeout) /\ WF_vars(EndSession)
            /\ WF_vars(CloseConnection)

Spec == Init /\ [][Next]_vars /\ Fairness

-----------------------------------------------------------------------------
(* Properties.                                                             *)

Codes == {"none", "OK", "OK_SuccessfulNegotiation", "OK_OldSessionJoined",
          "OK_NewSessionEstablished", "FAILED", "Failed_NoNegotiation",
          "FAILED_SequenceError", "FAILED_UnknownSession",
          "FAILED_ServiceIDInvalid", "FAILED_ServiceSelectionInvalid",
          "FAILED_NoChargeServiceSelected", "FAILED_PaymentSelectionInvalid",
          "FAILED_NoCertificateAvailable", "FAILED_SignatureError",
          "FAILED_CertificateExpired", "FAILED_ChallengeInvalid",
          "FAILED_WrongEnergyTransferMode", "FAILED_TariffSelectionInvalid",
          "FAILED_ChargingProfileInvalid", "FAILED_ContactorError",
          "FAILED_MeteringSignatureNotValid"}

\* Every variable keeps its type.
TypeOK ==
    /\ st \in States
    /\ inst \in {"fresh", "seen", "signed", "complete", "checking", "closed"}
    /\ phase \in {"open", "stopping", "closing", "ended"}
    /\ outcome \in {"none", "terminate", "pause"}
    /\ res \in Codes
    /\ tls \in BOOLEAN /\ silent \in BOOLEAN /\ connections \in Nat
    /\ sessionId \in SessionIds \cup {NoId}
    /\ ctx \in Contexts
    /\ offeredAuth \subseteq {"EIM", "PNC"}
    /\ selectedAuth \in {"none", "EIM", "PNC"}
    /\ services \subseteq {"Certificate"}
    /\ chain \in BOOLEAN
    /\ offered \subseteq Tuples /\ selected \in Tuples \cup {NoTuple}
    /\ isAC \in BOOLEAN /\ started \in BOOLEAN
    /\ hlc \in BOOLEAN
    /\ charger \in {"off", "cablecheck", "precharge", "charging"}
    /\ granted \in BOOLEAN /\ verified \in BOOLEAN
    /\ isolated \in BOOLEAN

\* No command reaches the charger, and no state after Authorization is entered,
\* before the controller has accepted the authorization on this very
\* connection - for Plug & Charge also the signature of an AuthorizationReq made
\* with a stored contract certificate - however often the EV pauses, resumes,
\* reselects or is delegated from state to state.
AuthorizedBeforePower ==
    st \notin SetupStates \/ charger # "off" =>
        /\ granted
        /\ selectedAuth = "PNC" => verified /\ chain

\* DC current is demanded only after the isolation check that follows the last
\* exchange of charge parameters: a renegotiation may change from AC to DC.
IsolatedBeforeCurrentDemand ==
    st = "CurrentDemand" /\ ~isAC => isolated

\* In the charging loop the controller is told that HLC charging is on, and
\* the schedule being reported is one of the last list offered, across
\* renegotiations, restarts and metering receipts.
ChargingAsAgreed ==
    phase = "open" /\ st \in ChargingStates =>
        hlc /\ started /\ selected \in offered

\* The session a request is checked against is the one a pause would preserve.
ContextNamesSession ==
    phase = "open" /\ st \notin {"SupportedAppProtocol", "SessionSetup"} =>
        sessionId # NoId /\ ctx.id = sessionId

\* Whichever way a session ends the charger is off before the connection
\* closes, and stays off until a later session is authorized.
ChargerOffAtEnd == phase # "open" => charger = "off"

\* The payment option is settled once the contract is presented or accepted:
\* nothing the EV sends afterwards changes it on this connection.
PaymentOptionSettled ==
    [][(chain \/ granted) /\ phase' = "open" /\ connections' = connections
         => selectedAuth' = selectedAuth]_vars

\* An EV that falls silent cannot keep the SECC in the session.
SilentSessionEnds == silent ~> phase = "ended"

\* The phases of a session as the EV driver sees them.
Stage ==
    IF phase # "open" THEN "closed"
    ELSE IF st \in SetupStates THEN "setup"
    ELSE IF st \in ChargingStates THEN "delivering"
    ELSE IF st \in EndStates \/ (st = "PowerDelivery" /\ inst = "seen")
    THEN "finished"
    ELSE "agreeing"

Session == INSTANCE ChargingSession
             WITH stage <- Stage, power <- (charger = "charging")

\* The state machine implements the charging session.
ImplementsSession == Session!Spec
=============================================================================
