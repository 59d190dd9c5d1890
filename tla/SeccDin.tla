------------------------------ MODULE SeccDin ------------------------------
(***************************************************************************)
(* The SECC side of a DIN SPEC 70121 charging session: the receive loop of *)
(* shared/comm_session.py driving the states of                            *)
(* secc/states/din_spec_states.py on one TCP connection.                   *)
(*                                                                         *)
(* As in SeccV2 one step is one turn of rcv_loop, the EV sends any request *)
(* at any time, and the EVSE controller answers anything its interface     *)
(* allows.  The protocol knows direct current and external payment only,   *)
(* no pause, no renegotiation and no schedule the EV could choose.         *)
(***************************************************************************)
EXTENDS Naturals

CONSTANTS
    SessionIds, \* values get_random_bytes(8) may return
    NoId        \* no session: "00" in a header, "" in a session

ASSUME SeccDinAssumption == NoId \notin SessionIds

VARIABLES
    st,        \* class of comm_session.current_state
    inst,      \* progress of that instance, fresh when it is constructed
    phase,     \* "open", "stopping" and "closing" (inside stop()), "ended"
    reason,    \* comm_session.stop_reason, what the handler is notified of
    res,       \* code of the response to the last request, "none" if none
    silent,    \* the EV sends nothing more on this connection
    sessionId, \* comm_session.session_id
    hlc,       \* last set_hlc_charging() of the controller
    charger,   \* last command to the charger: "off", "cablecheck", ...
    decision,  \* history: last answer of is_authorized()
    isolated   \* history: the cable check has passed

power   == <<hlc, charger>>
history == <<decision, isolated>>
vars    == <<st, inst, phase, reason, res, silent, sessionId, power, history>>

SetupStates == {"SupportedAppProtocol", "SessionSetup", "ServiceDiscovery",
                "ServicePaymentSelection", "ContractAuthentication"}
States == SetupStates \cup
          {"ChargeParameterDiscovery", "CableCheck", "PreCharge", "PowerDelivery",
           "CurrentDemand", "WeldingDetection", "SessionStop"}

\* What the states' lists for check_msg_dinspec name after their own request.
Lists ==
    {<<"PreCharge", "PowerDelivery">>, <<"CurrentDemand", "PowerDelivery">>,
     <<"PowerDelivery", "WeldingDetection">>, <<"PowerDelivery", "SessionStop">>,
     <<"WeldingDetection", "SessionStop">>}

\* The states with an expecting_..._req flag: at first only their own request.
Flagged == {"PreCharge", "PowerDelivery", "CurrentDemand", "WeldingDetection"}

Accepted ==
    IF st \in Flagged /\ inst = "fresh" THEN {st}
    ELSE {st} \cup {t \in States : <<st, t>> \in Lists}

\* check_msg: the request is one the state accepts, of this session.
Accepts(type, sid) ==
    /\ phase = "open" /\ ~silent
    /\ type \in Accepted
    /\ type \notin {"SupportedAppProtocol", "SessionSetup"} => sid = sessionId

\* Progress of the instance that handles a request of this type.
Own(type) == IF st = type THEN inst ELSE "fresh"

-----------------------------------------------------------------------------
(* The ways a handler ends, after create_next_message.                     *)

Stay(s, progress) ==
    /\ st' = s /\ inst' = progress /\ res' = "OK"
    /\ UNCHANGED <<phase, reason>>

Goto(s) == Stay(s, "fresh")

\* rcv_loop enters stop(), whose first call stops the charger.
Stopping(s, why, code) ==
    /\ st' = s /\ inst' = Own(s) /\ res' = code
    /\ phase' = "stopping" /\ reason' = why
    /\ charger' = "off"

\* stop_state_machine: a failure response, then Terminate.
Halt(s, code) == Stopping(s, "failure", code)

-----------------------------------------------------------------------------
(* Identification and authorization.                                       *)

Init ==
    /\ st = "SupportedAppProtocol" /\ inst = "fresh"
    /\ phase = "open" /\ reason = "none" /\ res = "none" /\ silent = FALSE
    /\ sessionId = NoId /\ hlc = FALSE /\ charger = "off"
    /\ decision = "none" /\ isolated = FALSE

\* The EV offers DIN SPEC 70121, or nothing the SECC supports.
SupportedAppProtocol(offersDin) ==
    /\ Accepts("SupportedAppProtocol", NoId)
    /\ IF offersDin THEN Goto("SessionSetup") /\ UNCHANGED charger
                    ELSE Halt("SupportedAppProtocol", "Failed_NoNegotiation")
    /\ UNCHANGED <<silent, sessionId, hlc, history>>

\* The session has no identifier yet, so no header can name an old one.
SessionSetup(sid, new) ==
    /\ Accepts("SessionSetup", sid)
    /\ Goto("ServiceDiscovery")
    /\ sessionId' = new
    /\ UNCHANGED <<silent, power, history>>

\* It offers external payment and the first energy transfer mode.
ServiceDiscovery(sid) ==
    /\ Accepts("ServiceDiscovery", sid)
    /\ Goto("ServicePaymentSelection")
    /\ UNCHANGED <<silent, sessionId, power, history>>

\* eim: external payment is selected; services: some service is.
ServicePaymentSelection(sid, eim, services) ==
    /\ Accepts("ServicePaymentSelection", sid)
    /\ IF eim /\ services
       THEN Goto("ContractAuthentication") /\ UNCHANGED charger
       ELSE Halt("ServicePaymentSelection",
                 IF eim THEN "FAILED_ServiceSelectionInvalid"
                 ELSE "FAILED_PaymentSelectionInvalid")
    /\ UNCHANGED <<silent, sessionId, hlc, history>>

Answers == {"accepted", "ongoing", "rejected"}

\* Mutant: a rejection finishes the processing.
ContractAuthenticationDecided(sid, answer) ==
    /\ Accepts("ContractAuthentication", sid)
    /\ Goto(IF answer # "ongoing" THEN "ChargeParameterDiscovery"
            ELSE "ContractAuthentication")
    /\ decision' = answer
    /\ UNCHANGED <<silent, sessionId, power, isolated>>

\* A rejection is answered like a decision that is still to come.
ContractAuthentication(sid, answer) ==
    /\ Accepts("ContractAuthentication", sid)
    /\ Goto(IF answer = "accepted" THEN "ChargeParameterDiscovery"
            ELSE "ContractAuthentication")
    /\ decision' = answer
    /\ UNCHANGED <<silent, sessionId, power, isolated>>

-----------------------------------------------------------------------------
(* Parameters, isolation and energy transfer.                              *)

\* supported: the energy transfer mode the EV asks for; scheduled: the
\* controller has a schedule, without which the processing is ongoing.
ChargeParameterDiscovery(sid, supported, scheduled) ==
    /\ Accepts("ChargeParameterDiscovery", sid)
    /\ IF supported
       THEN /\ Goto(IF scheduled THEN "CableCheck" ELSE "ChargeParameterDiscovery")
            /\ UNCHANGED charger
       ELSE Halt("ChargeParameterDiscovery", "FAILED_WrongEnergyTransferMode")
    /\ UNCHANGED <<silent, sessionId, hlc, history>>

\* contactor: the answer of is_contactor_closed(), "unknown" for None;
\* isolation: "valid" (or a warning), "fault" (or invalid), or "pending".
CableCheck(sid, evError, contactor, isolation) ==
    LET own == Own("CableCheck")
        closed == own = "closed"
        passed == closed /\ isolation = "valid" /\ ~evError
        failed == evError \/ IF closed THEN isolation = "fault"
                             ELSE contactor = "open"
    IN
    /\ Accepts("CableCheck", sid)
    /\ IF failed
       THEN Halt("CableCheck", "FAILED")
       ELSE /\ charger' = IF own = "fresh" THEN "cablecheck" ELSE charger
            /\ IF passed THEN Goto("PreCharge")
               ELSE Stay("CableCheck", IF closed \/ contactor = "closed"
                                       THEN "closed" ELSE "checking")
    /\ isolated' = (isolated \/ passed)
    /\ UNCHANGED <<silent, sessionId, hlc, decision>>

\* fault: an error of the EV, a current above 2 A, or one that cannot be read,
\* or a charging command that times out.
PreCharge(sid, fault) ==
    /\ Accepts("PreCharge", sid)
    /\ IF fault THEN Halt("PreCharge", "FAILED")
                ELSE Stay("PreCharge", "seen") /\ charger' = "precharge"
    /\ UNCHANGED <<silent, sessionId, hlc, history>>

\* Mutant: HLC charging and the charger are left on.
PowerDeliveryRunning(sid, ready, opened) ==
    /\ Accepts("PowerDelivery", sid)
    /\ IF ready THEN Goto("CurrentDemand") ELSE Stay("PowerDelivery", "seen")
    /\ hlc' = TRUE
    /\ UNCHANGED <<silent, sessionId, charger, history>>

\* ready: ready_to_charge; opened: the answer of is_contactor_opened(), which
\* is asked for only after the charger has been stopped.
PowerDelivery(sid, ready, opened) ==
    /\ Accepts("PowerDelivery", sid)
    /\ hlc' = ready
    /\ IF ready THEN Goto("CurrentDemand") /\ UNCHANGED charger
       ELSE IF opened
       THEN Stay("PowerDelivery", "seen") /\ charger' = "off"
       ELSE Halt("PowerDelivery", "FAILED")
    /\ UNCHANGED <<silent, sessionId, history>>

CurrentDemand(sid, commandOk) ==
    /\ Accepts("CurrentDemand", sid)
    /\ IF commandOk
       THEN Stay("CurrentDemand", "seen") /\ charger' = "charging"
       ELSE Halt("CurrentDemand", "FAILED")
    /\ UNCHANGED <<silent, sessionId, hlc, history>>

WeldingDetection(sid) ==
    /\ Accepts("WeldingDetection", sid)
    /\ Stay("WeldingDetection", "seen")
    /\ UNCHANGED <<silent, sessionId, power, history>>

SessionStop(sid) ==
    /\ Accepts("SessionStop", sid)
    /\ Stopping("SessionStop", "terminated", "OK")
    /\ UNCHANGED <<silent, sessionId, hlc, history>>

-----------------------------------------------------------------------------
(* The receive loop.                                                       *)

\* check_msg refuses a request the state does not accept, or of another
\* session.  Before the protocol is agreed only its request decodes, and after
\* that none does.
Refuse(type, sid) ==
    /\ phase = "open" /\ ~silent
    /\ (type = "SupportedAppProtocol") = (st = "SupportedAppProtocol")
    /\ ~Accepts(type, sid)
    /\ Halt(st, IF type \in Accepted THEN "FAILED_UnknownSession"
                                     ELSE "FAILED_SequenceError")
    /\ UNCHANGED <<silent, sessionId, hlc, history>>

\* stop() without a response.
Abort ==
    /\ phase = "open"
    /\ Stopping(st, "failure", "none")
    /\ UNCHANGED <<silent, sessionId, hlc, history>>

\* A message that cannot be decoded, a handler that raises, the end of the
\* stream, or a reset.
BreakOff == ~silent /\ Abort

\* wait_for(reader.read(), timeout) expires.
SequenceTimeout == silent /\ Abort

EvFallsSilent ==
    /\ phase = "open" /\ ~silent
    /\ silent' = TRUE
    /\ UNCHANGED <<st, inst, phase, reason, res, sessionId, power, history>>

\* Two seconds into stop() the data link and the controller are told, three
\* later the writer is closed and the handler notified.
EndSession ==
    /\ phase = "stopping" /\ phase' = "closing"
    /\ UNCHANGED <<st, inst, reason, res, silent, sessionId, power, history>>

CloseConnection ==
    /\ phase = "closing" /\ phase' = "ended"
    /\ UNCHANGED <<st, inst, reason, res, silent, sessionId, power, history>>

Handle(sid) ==
    \/ \E b \in BOOLEAN : SupportedAppProtocol(b)
    \/ \E new \in SessionIds : SessionSetup(sid, new)
    \/ ServiceDiscovery(sid)
    \/ \E eim, services \in BOOLEAN : ServicePaymentSelection(sid, eim, services)
    \/ \E answer \in Answers : ContractAuthentication(sid, answer)
    \/ \E supported, scheduled \in BOOLEAN :
            ChargeParameterDiscovery(sid, supported, scheduled)
    \/ \E evError \in BOOLEAN, contactor \in {"closed", "open", "unknown"},
          isolation \in {"valid", "fault", "pending"} :
            CableCheck(sid, evError, contactor, isolation)
    \/ \E fault \in BOOLEAN : PreCharge(sid, fault)
    \/ \E ready, opened \in BOOLEAN : PowerDelivery(sid, ready, opened)
    \/ \E commandOk \in BOOLEAN : CurrentDemand(sid, commandOk)
    \/ WeldingDetection(sid)
    \/ SessionStop(sid)
    \/ \E type \in States : Refuse(type, sid)

Next ==
    \/ \E sid \in SessionIds \cup {NoId} : Handle(sid)
    \/ BreakOff \/ SequenceTimeout \/ EvFallsSilent
    \/ EndSession \/ CloseConnection

\* The timer of the receive loop fires when nothing arrives, and stop() runs to
\* its end; the EV owes nothing.
Fairness == WF_vars(SequenceTimeout) /\ WF_vars(EndSession)
            /\ WF_vars(CloseConnection)

Spec == Init /\ [][Next]_vars /\ Fairness

-----------------------------------------------------------------------------
(* Properties.                                                             *)

\* Every variable keeps its type.
TypeOK ==
    /\ st \in States /\ inst \in {"fresh", "seen", "checking", "closed"}
    /\ phase \in {"open", "stopping", "closing", "ended"}
    /\ reason \in {"none", "failure", "terminated"}
    /\ silent \in BOOLEAN
    /\ sessionId \in SessionIds \cup {NoId}
    /\ hlc \in BOOLEAN
    /\ charger \in {"off", "cablecheck", "precharge", "charging"}
    /\ decision \in Answers \cup {"none"}
    /\ isolated \in BOOLEAN

\* Whatever the EV sends, also when it goes from a stop back to the charging
\* loop, the charger is started and HLC charging announced only after the user
\* has been authorized, voltage is put on the line only after the isolation test
\* of this session, and current flows only under HLC.  However the session ends,
\* the charger is off before the connection closes, and the handler hears of a
\* success exactly when the EV asked for the end.
PowerAfterTests ==
    /\ charger # "off" \/ hlc => decision = "accepted"
    /\ charger \in {"precharge", "charging"} \/ hlc => isolated
    /\ charger = "charging" => hlc
    /\ phase # "open" => /\ charger = "off"
                         /\ reason = "terminated" <=> st = "SessionStop"

\* The phases of a session as the EV driver sees them.
Stage ==
    IF phase # "open" THEN "closed"
    ELSE IF st \in SetupStates THEN "setup"
    ELSE IF st = "CurrentDemand" THEN "delivering"
    ELSE IF st \in {"PowerDelivery", "WeldingDetection"} THEN "finished"
    ELSE "agreeing"

Session == INSTANCE ChargingSession
             WITH stage <- Stage, power <- (charger = "charging")

\* The SECC takes a session through the stages of ChargingSession, in order, and
\* delivers power only where it may, although PowerDelivery can be left for the
\* charging loop again after a stop.
ImplementsSession == Session!Spec
=============================================================================
