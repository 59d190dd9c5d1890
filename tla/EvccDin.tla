------------------------------ MODULE EvccDin ------------------------------
(***************************************************************************)
(* The EVCC side of a DIN SPEC 70121 charging session: the receive loop of *)
(* shared/comm_session.py driving the states of                            *)
(* evcc/states/din_spec_states.py, on one TCP connection.                  *)
(*                                                                         *)
(* As in EvccV20 a state is named after the request it has sent, the SECC  *)
(* answers anything or nothing, the EV controller answers anything its     *)
(* interface allows, and most states keep their instance for the next      *)
(* response.  Power delivery does not remember what it has asked for: it   *)
(* asks the controller once more whether to continue charging.             *)
(***************************************************************************)
EXTENDS Naturals

CONSTANTS
    Ids,     \* session identifiers an SECC may assign
    ZeroId   \* "00", in a header before one is assigned

ASSUME EvccDinAssumption == ZeroId \notin Ids

VARIABLES
    current,    \* class of comm_session.current_state
    again,      \* the instance has asked before
    arrived,    \* a response is in the stream reader
    life,       \* "open", "stopping" and "closing" (inside stop()), "ended"
    success,    \* stop_reason.successful
    evId,       \* comm_session.session_id
    ready,      \* ready_to_charge of the last PowerDeliveryReq
    timer,      \* ongoing_timer: "off" (-1), "running" or "expired"
    enabled,    \* last enable_charging() of the controller
    halted,     \* stop_charging() of the controller has been called
    authorized  \* history: the SECC has finished the authorization

asking   == <<current, again>>
commands == <<enabled, halted>>
varsEV   == <<asking, arrived, life, success, evId, ready, timer, commands,
              authorized>>

SetupEV == {"SupportedAppProtocol", "SessionSetup", "ServiceDiscovery",
            "ServicePaymentSelection", "ContractAuthentication",
            "ChargeParameterDiscovery"}
StatesEV == SetupEV \cup {"CableCheck", "PreCharge", "PowerDelivery",
                          "CurrentDemand", "WeldingDetection", "SessionStop"}

\* The response is to be processed next.
Reads == life = "open" /\ arrived /\ arrived' = FALSE

\* check_msg: the response to the request of this state, without a failure
\* code, in this session.
Matches(type, ok, sid) ==
    /\ type = current /\ ok
    /\ type \notin {"SupportedAppProtocol", "SessionSetup"} => sid = evId
Answered(type, sid) == Reads /\ Matches(type, TRUE, sid)

\* The next request is sent, and a new instance of its state takes over.
Request(s) == current' = s /\ again' = FALSE /\ UNCHANGED <<life, success>>

\* The next request is sent, and this instance stays.
AskAgain == again' = TRUE /\ UNCHANGED <<current, life, success>>

\* stop_state_machine, or an exception: the end is reported as a failure.
GiveUp == life' = "stopping" /\ success' = FALSE /\ UNCHANGED asking

\* The SECC is still processing: ask again until the ongoing timer, which the
\* first such answer starts, has run out.
Ongoing ==
    IF timer = "expired"
    THEN GiveUp /\ UNCHANGED timer
    ELSE AskAgain /\ timer' = IF timer = "off" THEN "running" ELSE timer

InitEV ==
    /\ current = "SupportedAppProtocol" /\ again = FALSE
    /\ arrived = FALSE /\ life = "open" /\ success = FALSE
    /\ evId = ZeroId /\ ready = FALSE /\ timer = "off"
    /\ enabled = FALSE /\ halted = FALSE /\ authorized = FALSE

-----------------------------------------------------------------------------
(* Identification, authorization and parameters.                           *)

SupportedAppProtocolRes(known) ==
    /\ Answered("SupportedAppProtocol", ZeroId)
    /\ IF known THEN Request("SessionSetup") ELSE GiveUp
    /\ UNCHANGED <<evId, ready, timer, commands, authorized>>

SessionSetupRes(sid) ==
    /\ Answered("SessionSetup", sid)
    /\ Request("ServiceDiscovery")
    /\ evId' = sid
    /\ UNCHANGED <<ready, timer, commands, authorized>>

\* usable: the charge service is offered with external payment and with the
\* controller's energy transfer mode.
ServiceDiscoveryRes(sid, usable) ==
    /\ Answered("ServiceDiscovery", sid)
    /\ IF usable THEN Request("ServicePaymentSelection") ELSE GiveUp
    /\ UNCHANGED <<evId, ready, timer, commands, authorized>>

ServicePaymentSelectionRes(sid) ==
    /\ Answered("ServicePaymentSelection", sid)
    /\ Request("ContractAuthentication")
    /\ UNCHANGED <<evId, ready, timer, commands, authorized>>

\* The timer is looked at, and started, whatever the answer is, and an answer
\* that is finished does not reset it.
ContractAuthenticationRes(sid, finished) ==
    /\ Answered("ContractAuthentication", sid)
    /\ IF finished /\ timer # "expired"
       THEN /\ Request("ChargeParameterDiscovery")
            /\ timer' = "running"
            /\ authorized' = TRUE
       ELSE Ongoing /\ UNCHANGED authorized
    /\ UNCHANGED <<evId, ready, commands>>

ChargeParameterDiscoveryRes(sid, finished) ==
    /\ Answered("ChargeParameterDiscovery", sid)
    /\ IF finished
       THEN Request("CableCheck") /\ timer' = "off" /\ enabled' = TRUE
       ELSE Ongoing /\ UNCHANGED enabled
    /\ UNCHANGED <<evId, ready, halted, authorized>>

-----------------------------------------------------------------------------
(* Isolation, power delivery and the charging loop.                        *)

\* safe: the EVSE is ready and its isolation status valid.
CableCheckRes(sid, finished, safe) ==
    /\ Answered("CableCheck", sid)
    /\ IF finished
       THEN (IF safe THEN Request("PreCharge") ELSE GiveUp) /\ timer' = "off"
       ELSE Ongoing
    /\ UNCHANGED <<evId, ready, commands, authorized>>

PowerDeliveryReq(ready_to_charge) ==
    Request("PowerDelivery") /\ ready' = ready_to_charge

\* The EV judges by the voltage the EVSE reports.
PreChargeRes(sid, precharged) ==
    /\ Answered("PreCharge", sid)
    /\ IF precharged
       THEN PowerDeliveryReq(TRUE) /\ timer' = "off"
       ELSE Ongoing /\ UNCHANGED ready
    /\ UNCHANGED <<evId, commands, authorized>>

\* Mutant: the contactors stay closed for welding detection.
PowerDeliveryResClosed(sid, going) ==
    /\ Answered("PowerDelivery", sid)
    /\ Request(IF going THEN "CurrentDemand" ELSE "WeldingDetection")
    /\ UNCHANGED <<evId, ready, timer, commands, authorized>>

\* going: the answer of the controller's continue_charging().
PowerDeliveryRes(sid, going) ==
    /\ Answered("PowerDelivery", sid)
    /\ Request(IF going THEN "CurrentDemand" ELSE "WeldingDetection")
    /\ enabled' = (enabled /\ going)
    /\ UNCHANGED <<evId, ready, timer, halted, authorized>>

\* Mutant: a stop the SECC asks for is not told to the controller.
CurrentDemandResUntold(sid, evseReady, going) ==
    /\ Answered("CurrentDemand", sid)
    /\ IF evseReady /\ going
       THEN AskAgain /\ UNCHANGED <<ready, halted>>
       ELSE PowerDeliveryReq(FALSE) /\ halted' = evseReady
    /\ UNCHANGED <<evId, timer, enabled, authorized>>

\* A stop is asked for by the SECC, whose status is no longer "ready", or by the
\* controller; either way the controller is told.
CurrentDemandRes(sid, evseReady, going) ==
    /\ Answered("CurrentDemand", sid)
    /\ IF evseReady /\ going
       THEN AskAgain /\ UNCHANGED <<ready, halted>>
       ELSE PowerDeliveryReq(FALSE) /\ halted' = TRUE
    /\ UNCHANGED <<evId, timer, enabled, authorized>>

\* The timer is looked at, and started, whatever the answer is; finished: the
\* answer of welding_detection_has_finished().
WeldingDetectionRes(sid, finished) ==
    /\ Answered("WeldingDetection", sid)
    /\ IF finished /\ timer # "expired"
       THEN Request("SessionStop") /\ timer' = "running"
       ELSE Ongoing
    /\ UNCHANGED <<evId, ready, commands, authorized>>

\* The only end that is reported as a success.
SessionStopRes(sid) ==
    /\ Answered("SessionStop", sid)
    /\ life' = "stopping" /\ success' = TRUE
    /\ UNCHANGED <<asking, evId, ready, timer, commands, authorized>>

-----------------------------------------------------------------------------
(* The receive loop.                                                       *)

\* check_msg refuses the response.
RefuseEV(type, ok, sid) ==
    /\ Reads /\ ~Matches(type, ok, sid)
    /\ GiveUp
    /\ UNCHANGED <<evId, ready, timer, commands, authorized>>

\* A message that cannot be decoded, or a handler that raises, perhaps after a
\* command to the controller.
AbortEV ==
    /\ Reads /\ GiveUp
    /\ \/ UNCHANGED commands
       \/ current = "ChargeParameterDiscovery" /\ enabled' = TRUE
          /\ UNCHANGED halted
       \/ current = "PowerDelivery" /\ enabled' = FALSE /\ UNCHANGED halted
       \/ current = "CurrentDemand" /\ halted' = TRUE /\ UNCHANGED enabled
    /\ UNCHANGED <<evId, ready, timer, authorized>>

\* Mutant: only an instance that stays has a timer.
TimeoutEVStaying ==
    /\ life = "open" /\ ~arrived /\ again /\ GiveUp
    /\ UNCHANGED <<arrived, evId, ready, timer, commands, authorized>>

\* The time for the response is over, or the stream has ended.
TimeoutEV ==
    /\ life = "open" /\ ~arrived /\ GiveUp
    /\ UNCHANGED <<arrived, evId, ready, timer, commands, authorized>>

Arrive ==
    /\ life = "open" /\ ~arrived /\ arrived' = TRUE
    /\ UNCHANGED <<asking, life, success, evId, ready, timer, commands, authorized>>

TimerExpires ==
    /\ life = "open" /\ timer = "running" /\ timer' = "expired"
    /\ UNCHANGED <<asking, arrived, life, success, evId, ready, commands,
                   authorized>>

\* Two seconds into stop().
Disable ==
    /\ life = "stopping" /\ life' = "closing"
    /\ enabled' = FALSE
    /\ UNCHANGED <<asking, arrived, success, evId, ready, timer, halted, authorized>>

\* Three seconds later the writer is closed and the handler notified.
Close ==
    /\ life = "closing" /\ life' = "ended"
    /\ UNCHANGED <<asking, arrived, success, evId, ready, timer, commands,
                   authorized>>

Process(sid) ==
    \/ \E known \in BOOLEAN : SupportedAppProtocolRes(known)
    \/ SessionSetupRes(sid)
    \/ \E usable \in BOOLEAN : ServiceDiscoveryRes(sid, usable)
    \/ ServicePaymentSelectionRes(sid)
    \/ \E finished \in BOOLEAN :
         \/ ContractAuthenticationRes(sid, finished)
         \/ ChargeParameterDiscoveryRes(sid, finished)
         \/ WeldingDetectionRes(sid, finished)
    \/ \E finished, safe \in BOOLEAN : CableCheckRes(sid, finished, safe)
    \/ \E precharged \in BOOLEAN : PreChargeRes(sid, precharged)
    \/ \E going \in BOOLEAN : PowerDeliveryRes(sid, going)
    \/ \E evseReady, going \in BOOLEAN : CurrentDemandRes(sid, evseReady, going)
    \/ SessionStopRes(sid)
    \/ \E type \in StatesEV, ok \in BOOLEAN : RefuseEV(type, ok, sid)

Turn == (\E sid \in Ids \cup {ZeroId} : Process(sid)) \/ AbortEV

NextEV == Turn \/ TimeoutEV \/ Arrive \/ TimerExpires \/ Disable \/ Close

\* As in EvccV2: the SECC owes nothing.
FairnessEV ==
    /\ WF_varsEV(Turn) /\ WF_varsEV(Arrive \/ TimeoutEV)
    /\ WF_varsEV(TimerExpires) /\ WF_varsEV(Disable) /\ WF_varsEV(Close)

SpecEV == InitEV /\ [][NextEV]_varsEV /\ FairnessEV

-----------------------------------------------------------------------------
(* Properties.                                                             *)

\* Every variable keeps its type.
TypeOKEV ==
    /\ current \in StatesEV /\ again \in BOOLEAN /\ arrived \in BOOLEAN
    /\ life \in {"open", "stopping", "closing", "ended"} /\ success \in BOOLEAN
    /\ evId \in Ids \cup {ZeroId} /\ ready \in BOOLEAN
    /\ timer \in {"off", "running", "expired"}
    /\ enabled \in BOOLEAN /\ halted \in BOOLEAN /\ authorized \in BOOLEAN

\* Charging is enabled in the vehicle only after the SECC has finished the
\* authorization of this session, throughout the charging loop, never while
\* welding is detected, and not at the close of the connection, whichever way
\* the session ends.
EnabledInSession ==
    /\ enabled => authorized
    /\ life = "open" =>
         enabled = (current \notin SetupEV \cup {"WeldingDetection", "SessionStop"})
    /\ life \in {"closing", "ended"} => ~enabled
=============================================================================
