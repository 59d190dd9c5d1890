----------------------------- MODULE V20Proofs ------------------------------
(***************************************************************************)
(* Proofs that the safety properties of either side of an ISO 15118-20     *)
(* session, SeccV20 first and then EvccV20, hold for any identifiers,      *)
(* services, schedules and configuration, whatever the peer sends.         *)
(***************************************************************************)
EXTENDS SeccV20, EvccV20, TLAPS

-----------------------------------------------------------------------------
(* What an accepted request tells about the state it arrives in.           *)

\* A request arrives in the state named after it or in one that lists it; a
\* flagged state must have seen its own request before.
LEMMA AcceptedFrom ==
    ASSUME NEW type \in States, NEW sid, Accepts(type, sid)
    PROVE  /\ phase = "open"
           /\ st = type \/ <<st, type>> \in Lists \/ type = "SessionStop"
           /\ st # type /\ st \in Flagged => inst # "fresh"
           /\ type = "SessionStop" /\ st # type =>
                st \notin NoStop \/ <<st, type>> \in Lists
  BY DEF Accepts, Accepted

\* The same, spelled out for the requests whose states the invariants name.
LEMMA Arrivals ==
    ASSUME NEW sid
    PROVE  /\ Accepts("SupportedAppProtocol", sid) => st = "SupportedAppProtocol"
           /\ Accepts("SessionSetup", sid) => st = "SessionSetup"
           /\ Accepts("AuthorizationSetup", sid) => st = "AuthorizationSetup"
           /\ Accepts("Authorization", sid) =>
                st \in {"AuthorizationSetup", "Authorization"}
           /\ Accepts("ServiceDiscovery", sid) =>
                \/ st = "ServiceDiscovery"
                \/ st = "Authorization" /\ inst # "fresh"
           /\ Accepts("ServiceDetail", sid) =>
                st \in {"ServiceDiscovery", "ServiceDetail"}
           /\ Accepts("ServiceSelection", sid) =>
                st \in {"ServiceDetail", "ServiceSelection"}
           /\ Accepts("ACChargeParameterDiscovery", sid) =>
                st = "ACChargeParameterDiscovery"
           /\ Accepts("DCChargeParameterDiscovery", sid) =>
                st = "DCChargeParameterDiscovery"
           /\ Accepts("ScheduleExchange", sid) => st = "ScheduleExchange"
           /\ Accepts("DCCableCheck", sid) =>
                st \in {"ScheduleExchange", "DCCableCheck"}
           /\ Accepts("DCPreCharge", sid) => st = "DCPreCharge"
           /\ Accepts("PowerDelivery", sid) =>
                st \in {"ScheduleExchange", "PowerDelivery", "ACChargeLoop",
                        "DCPreCharge", "DCChargeLoop"}
           /\ Accepts("ACChargeLoop", sid) => st = "ACChargeLoop"
           /\ Accepts("DCChargeLoop", sid) => st = "DCChargeLoop"
           /\ Accepts("DCWeldingDetection", sid) =>
                st \in {"PowerDelivery", "DCWeldingDetection"}
           /\ Accepts("SessionStop", sid) =>
                st \notin {"SupportedAppProtocol", "SessionSetup"}
           /\ \A type : Accepts(type, sid) => phase = "open"
  BY AcceptedFrom DEF Accepts, Lists, NoStop, Flagged, States, AuthStates,
     ServiceStates, ParameterStates, DeliveryStates

-----------------------------------------------------------------------------
(* Type correctness.                                                       *)

\* The initial state is typed.
LEMMA InitTyped == Init => TypeOK
  BY DEF Init, TypeOK, States, AuthStates

\* The variables that say where the session stands.
ControlOK ==
    /\ st \in States
    /\ inst \in {"fresh", "seen", "checking", "closed"}
    /\ phase \in {"open", "stopping", "closing", "ended"}
    /\ reason \in {"none", "failure", "terminated", "paused"}

\* The endings of a handler keep the types of those variables.
LEMMA EndingsTyped ==
    ASSUME TypeOK, NEW s \in States, NEW code
    PROVE  /\ Halt(s, code) => ControlOK' /\ charger' = "off"
           /\ Goto(s, code) => ControlOK'
           /\ \A i \in {"fresh", "seen", "checking", "closed"} :
                Stay(s, i, code) => ControlOK'
  BY DEF TypeOK, ControlOK, Halt, Stopping, Goto, Stay, Own

\* Every step keeps the types.
LEMMA TypeStep == TypeOK /\ [Next]_vars => TypeOK'
<1> SUFFICES ASSUME TypeOK, [Next]_vars PROVE TypeOK'
  OBVIOUS
<1> USE DEF Goto, Stay, Halt, Stopping, Own, choice, power, history, TypeOK,
      Answers, States, AuthStates, ServiceStates, ParameterStates,
      DeliveryStates
<1>1. ASSUME NEW b \in BOOLEAN,
              SupportedAppProtocol(b)
       PROVE  TypeOK'
  BY <1>1 DEF SupportedAppProtocol
<1>2. ASSUME NEW sid \in SessionIds \cup {NoId}, NEW new \in SessionIds,
              SessionSetup(sid, new)
       PROVE  TypeOK'
  BY <1>2 DEF SessionSetup
<1>3. ASSUME NEW sid \in SessionIds \cup {NoId},
              AuthorizationSetup(sid)
       PROVE  TypeOK'
  BY <1>3 DEF AuthorizationSetup
<1>4. ASSUME NEW sid \in SessionIds \cup {NoId},
              CertificateInstallation(sid)
       PROVE  TypeOK'
  BY <1>4 DEF CertificateInstallation
<1>5. ASSUME NEW sid \in SessionIds \cup {NoId}, NEW pnc \in BOOLEAN,
              NEW sigOk \in BOOLEAN, NEW challengeOk \in BOOLEAN,
              NEW answer \in Answers, NEW code \in {"none", "OK", "FAILED"},
              Authorization(sid, pnc, sigOk, challengeOk, answer, code)
       PROVE  TypeOK'
  BY <1>5 DEF Authorization
<1>6. ASSUME NEW sid \in SessionIds \cup {NoId},
              \E offer, sets \in SUBSET Services : ServiceDiscovery(sid, offer, sets)
       PROVE  TypeOK'
  BY <1>6 DEF ServiceDiscovery
<1>7. ASSUME NEW sid \in SessionIds \cup {NoId}, NEW s \in Services,
              ServiceDetail(sid, s)
       PROVE  TypeOK'
  BY <1>7 DEF ServiceDetail
<1>8. ASSUME NEW sid \in SessionIds \cup {NoId}, NEW s \in Services,
              NEW m \in {"SCHEDULED", "DYNAMIC"}, NEW vasOk \in BOOLEAN,
              ServiceSelection(sid, s, m, vasOk)
       PROVE  TypeOK'
  BY <1>8 DEF ServiceSelection
<1>9. ASSUME NEW sid \in SessionIds \cup {NoId}, NEW known \in BOOLEAN,
              ACChargeParameterDiscovery(sid, known)
       PROVE  TypeOK'
  <2>1. ControlOK'
    BY <1>9, EndingsTyped DEF ACChargeParameterDiscovery, ChargeParameters,
       States, ParameterStates
  <2>2. charger' \in {"off", charger} /\ isolated' \in BOOLEAN
    BY <1>9 DEF ACChargeParameterDiscovery, ChargeParameters
  <2> QED
    BY <1>9, <2>1, <2>2
    DEF ACChargeParameterDiscovery, ChargeParameters, ControlOK
<1>10. ASSUME NEW sid \in SessionIds \cup {NoId}, NEW known \in BOOLEAN,
              DCChargeParameterDiscovery(sid, known)
       PROVE  TypeOK'
  <2>1. ControlOK'
    BY <1>10, EndingsTyped DEF DCChargeParameterDiscovery, ChargeParameters,
       States, ParameterStates
  <2>2. charger' \in {"off", charger} /\ isolated' \in BOOLEAN
    BY <1>10 DEF DCChargeParameterDiscovery, ChargeParameters
  <2> QED
    BY <1>10, <2>1, <2>2
    DEF DCChargeParameterDiscovery, ChargeParameters, ControlOK
<1>11. ASSUME NEW sid \in SessionIds \cup {NoId}, NEW fits \in BOOLEAN,
              NEW ready \in BOOLEAN, NEW schedules \in SUBSET Tuples,
              ScheduleExchange(sid, fits, ready, schedules)
       PROVE  TypeOK'
  BY <1>11 DEF ScheduleExchange
<1>12. ASSUME NEW sid \in SessionIds \cup {NoId}, NEW contactor, NEW isolation,
              DCCableCheck(sid, contactor, isolation)
       PROVE  TypeOK'
  BY <1>12 DEF DCCableCheck
<1>13. ASSUME NEW sid \in SessionIds \cup {NoId}, NEW done \in BOOLEAN,
              NEW commandOk \in BOOLEAN,
              DCPreCharge(sid, done, commandOk)
       PROVE  TypeOK'
  BY <1>13 DEF DCPreCharge
<1>14. ASSUME NEW sid \in SessionIds \cup {NoId}, NEW processing \in BOOLEAN,
              NEW contactorOk \in BOOLEAN, NEW tuple \in Tuples,
              NEW progress \in {"Start", "Stop", "Renegotiate", "Standby"},
              PowerDelivery(sid, processing, progress, tuple, contactorOk)
       PROVE  TypeOK'
  <2>1. ControlOK'
    BY <1>14, EndingsTyped
    DEF PowerDelivery, BeginCharging, States, DeliveryStates
  <2>2. /\ charger' \in {"off", charger} /\ hlc' \in BOOLEAN
        /\ accepted' \in Tuples \cup {NoTuple}
    BY <1>14 DEF PowerDelivery, BeginCharging
  <2> QED
    BY <1>14, <2>1, <2>2 DEF PowerDelivery, ControlOK
<1>15. ASSUME NEW sid \in SessionIds \cup {NoId},
              ACChargeLoop(sid)
       PROVE  TypeOK'
  BY <1>15 DEF ACChargeLoop
<1>16. ASSUME NEW sid \in SessionIds \cup {NoId}, NEW commandOk \in BOOLEAN,
              DCChargeLoop(sid, commandOk)
       PROVE  TypeOK'
  BY <1>16 DEF DCChargeLoop, LoopCommand
<1>17. ASSUME NEW sid \in SessionIds \cup {NoId},
              DCWeldingDetection(sid)
       PROVE  TypeOK'
  BY <1>17 DEF DCWeldingDetection
<1>18. ASSUME NEW sid \in SessionIds \cup {NoId}, NEW request,
              SessionStop(sid, request)
       PROVE  TypeOK'
  BY <1>18 DEF SessionStop
<1>19. ASSUME NEW sid \in SessionIds \cup {NoId}, NEW type \in States,
              Refuse(type, sid)
       PROVE  TypeOK'
  BY <1>19 DEF Refuse
<1>20. CASE BreakOff
  BY <1>20 DEF BreakOff, Abort
<1>21. CASE SequenceTimeout
  BY <1>21 DEF SequenceTimeout, Abort
<1>22. CASE EvFallsSilent
  BY <1>22 DEF EvFallsSilent
<1>23. CASE EndSession
  BY <1>23 DEF EndSession
<1>24. CASE CloseConnection
  BY <1>24 DEF CloseConnection
<1>25. CASE UNCHANGED vars
  BY <1>25 DEF vars
<1> HIDE DEF TypeOK
<1>26. ASSUME NEW sid \in SessionIds \cup {NoId}, Handle(sid)
       PROVE  TypeOK'
  BY <1>1, <1>2, <1>3, <1>4, <1>5, <1>6, <1>7, <1>8, <1>9, <1>10, <1>11,
     <1>12, <1>13, <1>14, <1>15, <1>16, <1>17, <1>18, <1>19, <1>26 DEF Handle
<1> QED
  BY <1>20, <1>21, <1>22, <1>23, <1>24, <1>25, <1>26 DEF Next

\* Every variable keeps its type, and only what was discovered is detailed, for
\* any services, schedules and configuration.
THEOREM TypeCorrect == Spec => []TypeOK
  BY InitTyped, TypeStep, PTL DEF Spec

-----------------------------------------------------------------------------
(* The inductive invariant.                                                *)

\* Authorization is left once its answer is a decision; before that nothing is
\* switched on, and an open session has no reason to end but a noted pause.
Unpowered ==
    phase = "open" =>
        /\ st \in AuthStates => charger = "off" /\ ~hlc
        /\ st = "Authorization" /\ inst # "fresh" =>
             decision \in {"accepted", "rejected"}
        /\ st # "SessionStop"
        /\ reason \in {"none", "paused"}

\* From the selection on, the service is for energy and has been detailed.
EnergySelected ==
    phase = "open" /\ st \in ParameterStates \cup DeliveryStates =>
        service \in (ACServices \cup DCServices) \cap detailed

Inv == /\ TypeOK
       /\ Unpowered
       /\ EnergySelected
       /\ DecidedBeforePower
       /\ SelectionServed
       /\ LoopAsAgreed
       /\ IsolatedBeforePreCharge
       /\ CleanEnd

\* The initial state satisfies the invariant.
LEMMA InvInit == Init => Inv
  BY InitTyped DEF Init, Inv, Unpowered, EnergySelected, DecidedBeforePower,
     SelectionServed, LoopAsAgreed, IsolatedBeforePreCharge, CleanEnd,
     AuthStates, ParameterStates, DeliveryStates

\* Every step keeps the invariant.
LEMMA InvStep == Inv /\ [Next]_vars => Inv'
<1> SUFFICES ASSUME Inv, [Next]_vars PROVE Inv'
  OBVIOUS
<1> USE DEF Goto, Stay, Halt, Stopping, Own, choice, power, history, Inv,
      Unpowered, EnergySelected, DecidedBeforePower, SelectionServed,
      LoopAsAgreed, IsolatedBeforePreCharge, CleanEnd, AuthStates,
      ParameterStates, DeliveryStates
<1>0. TypeOK'
  BY TypeStep
<1>1. ASSUME NEW b \in BOOLEAN,
              SupportedAppProtocol(b)
       PROVE  Inv'
  BY <1>1, <1>0, Arrivals, AcceptedFrom DEF SupportedAppProtocol
<1>2. ASSUME NEW sid \in SessionIds \cup {NoId}, NEW new \in SessionIds,
              SessionSetup(sid, new)
       PROVE  Inv'
  BY <1>2, <1>0, Arrivals, AcceptedFrom DEF SessionSetup
<1>3. ASSUME NEW sid \in SessionIds \cup {NoId},
              AuthorizationSetup(sid)
       PROVE  Inv'
  BY <1>3, <1>0, Arrivals, AcceptedFrom DEF AuthorizationSetup
<1>4. ASSUME NEW sid \in SessionIds \cup {NoId},
              CertificateInstallation(sid)
       PROVE  Inv'
  BY <1>4, <1>0, Arrivals, AcceptedFrom DEF CertificateInstallation
<1>5. ASSUME NEW sid \in SessionIds \cup {NoId}, NEW pnc \in BOOLEAN,
              NEW sigOk \in BOOLEAN, NEW challengeOk \in BOOLEAN,
              NEW answer \in Answers, NEW code \in {"none", "OK", "FAILED"},
              Authorization(sid, pnc, sigOk, challengeOk, answer, code)
       PROVE  Inv'
  <2>1. phase = "open" /\ st \in {"AuthorizationSetup", "Authorization"}
    BY <1>5, Arrivals DEF Authorization
  <2> QED
    BY <1>5, <1>0, <2>1
    DEF Authorization, Answers
<1>6. ASSUME NEW sid \in SessionIds \cup {NoId},
              \E offer, sets \in SUBSET Services : ServiceDiscovery(sid, offer, sets)
       PROVE  Inv'
  BY <1>6, <1>0, Arrivals, AcceptedFrom DEF ServiceDiscovery
<1>7. ASSUME NEW sid \in SessionIds \cup {NoId}, NEW s \in Services,
              ServiceDetail(sid, s)
       PROVE  Inv'
  BY <1>7, <1>0, Arrivals, AcceptedFrom DEF ServiceDetail
<1>8. ASSUME NEW sid \in SessionIds \cup {NoId}, NEW s \in Services,
              NEW m \in {"SCHEDULED", "DYNAMIC"}, NEW vasOk \in BOOLEAN,
              ServiceSelection(sid, s, m, vasOk)
       PROVE  Inv'
  <2>1. phase = "open" /\ st \in {"ServiceDetail", "ServiceSelection"}
    BY <1>8, Arrivals DEF ServiceSelection
  <2>2. s \in detailed \ OtherServices => s \in ACServices \cup DCServices
    BY DEF Services
  <2> QED
    BY <1>8, <1>0, <2>1, <2>2, SeccV20Assumption
    DEF ServiceSelection
<1>9. ASSUME NEW sid \in SessionIds \cup {NoId}, NEW known \in BOOLEAN,
              ACChargeParameterDiscovery(sid, known)
       PROVE  Inv'
  <2>1. phase = "open" /\ st \in {"ACChargeParameterDiscovery"}
    BY <1>9, Arrivals DEF ACChargeParameterDiscovery, ChargeParameters
  <2> QED
    BY <1>9, <1>0, <2>1
    DEF ACChargeParameterDiscovery, ChargeParameters
<1>10. ASSUME NEW sid \in SessionIds \cup {NoId}, NEW known \in BOOLEAN,
              DCChargeParameterDiscovery(sid, known)
       PROVE  Inv'
  <2>1. phase = "open" /\ st \in {"DCChargeParameterDiscovery"}
    BY <1>10, Arrivals DEF DCChargeParameterDiscovery, ChargeParameters
  <2> QED
    BY <1>10, <1>0, <2>1
    DEF DCChargeParameterDiscovery, ChargeParameters
<1>11. ASSUME NEW sid \in SessionIds \cup {NoId}, NEW fits \in BOOLEAN,
              NEW ready \in BOOLEAN, NEW schedules \in SUBSET Tuples,
              ScheduleExchange(sid, fits, ready, schedules)
       PROVE  Inv'
  BY <1>11, <1>0, Arrivals, AcceptedFrom DEF ScheduleExchange
<1>12. ASSUME NEW sid \in SessionIds \cup {NoId}, NEW contactor, NEW isolation,
              DCCableCheck(sid, contactor, isolation)
       PROVE  Inv'
  <2>1. phase = "open" /\ st \in {"ScheduleExchange", "DCCableCheck"}
    BY <1>12, Arrivals DEF DCCableCheck
  <2> QED
    BY <1>12, <1>0, <2>1
    DEF DCCableCheck
<1>13. ASSUME NEW sid \in SessionIds \cup {NoId}, NEW done \in BOOLEAN,
              NEW commandOk \in BOOLEAN,
              DCPreCharge(sid, done, commandOk)
       PROVE  Inv'
  <2>1. phase = "open" /\ st \in {"DCPreCharge"}
    BY <1>13, Arrivals DEF DCPreCharge
  <2> QED
    BY <1>13, <1>0, <2>1
    DEF DCPreCharge
<1>14. ASSUME NEW sid \in SessionIds \cup {NoId}, NEW processing \in BOOLEAN,
              NEW contactorOk \in BOOLEAN, NEW tuple \in Tuples,
              NEW progress \in {"Start", "Stop", "Renegotiate", "Standby"},
              PowerDelivery(sid, processing, progress, tuple, contactorOk)
       PROVE  Inv'
  BY <1>14, <1>0, Arrivals, AcceptedFrom DEF PowerDelivery, BeginCharging
<1>15. ASSUME NEW sid \in SessionIds \cup {NoId},
              ACChargeLoop(sid)
       PROVE  Inv'
  BY <1>15, <1>0, Arrivals, AcceptedFrom DEF ACChargeLoop
<1>16. ASSUME NEW sid \in SessionIds \cup {NoId}, NEW commandOk \in BOOLEAN,
              DCChargeLoop(sid, commandOk)
       PROVE  Inv'
  <2>1. phase = "open" /\ st \in {"DCChargeLoop"}
    BY <1>16, Arrivals DEF DCChargeLoop
  <2> QED
    BY <1>16, <1>0, <2>1
    DEF DCChargeLoop, LoopCommand
<1>17. ASSUME NEW sid \in SessionIds \cup {NoId},
              DCWeldingDetection(sid)
       PROVE  Inv'
  BY <1>17, <1>0, Arrivals, AcceptedFrom DEF DCWeldingDetection
<1>18. ASSUME NEW sid \in SessionIds \cup {NoId}, NEW request,
              SessionStop(sid, request)
       PROVE  Inv'
  <2>1. phase = "open" /\ st # "SessionStop"
    BY <1>18, Arrivals DEF SessionStop
  <2> QED
    BY <1>18, <1>0, <2>1
    DEF SessionStop
<1>19. ASSUME NEW sid \in SessionIds \cup {NoId}, NEW type \in States,
              Refuse(type, sid)
       PROVE  Inv'
  BY <1>19, <1>0, Arrivals, AcceptedFrom DEF Refuse
<1>20. CASE BreakOff
  BY <1>20, <1>0, Arrivals, AcceptedFrom DEF BreakOff, Abort
<1>21. CASE SequenceTimeout
  BY <1>21, <1>0, Arrivals, AcceptedFrom DEF SequenceTimeout, Abort
<1>22. CASE EvFallsSilent
  BY <1>22, <1>0, Arrivals, AcceptedFrom DEF EvFallsSilent
<1>23. CASE EndSession
  BY <1>23, <1>0, Arrivals, AcceptedFrom DEF EndSession
<1>24. CASE CloseConnection
  BY <1>24, <1>0, Arrivals, AcceptedFrom DEF CloseConnection
<1>25. CASE UNCHANGED vars
  BY <1>25, <1>0, Arrivals, AcceptedFrom DEF vars
<1> HIDE DEF Inv
<1>26. ASSUME NEW sid \in SessionIds \cup {NoId}, Handle(sid)
       PROVE  Inv'
  BY <1>1, <1>2, <1>3, <1>4, <1>5, <1>6, <1>7, <1>8, <1>9, <1>10, <1>11,
     <1>12, <1>13, <1>14, <1>15, <1>16, <1>17, <1>18, <1>19, <1>26 DEF Handle
<1> QED
  BY <1>20, <1>21, <1>22, <1>23, <1>24, <1>25, <1>26 DEF Next

\* The inductive invariant holds in every reachable state.
THEOREM InvCorrect == Spec => []Inv
  BY InvInit, InvStep, PTL DEF Spec

\* No power and no service while the authorization is undecided, except after a
\* renegotiation.
THEOREM DecidedFirst == Spec => []DecidedBeforePower
<1>1. Inv => DecidedBeforePower
  BY DEF Inv
<1> QED
  BY <1>1, InvCorrect, PTL

\* Parameters and energy are those of the service selected last.
THEOREM SelectionKept == Spec => []SelectionServed
<1>1. Inv => SelectionServed
  BY DEF Inv
<1> QED
  BY <1>1, InvCorrect, PTL

\* The charging loop runs under HLC, on a schedule of the list offered last.
THEOREM ChargingAsAgreed == Spec => []LoopAsAgreed
<1>1. Inv => LoopAsAgreed
  BY DEF Inv
<1> QED
  BY <1>1, InvCorrect, PTL

\* No precharge without a cable check made with the present charge parameters.
THEOREM LineTested == Spec => []IsolatedBeforePreCharge
<1>1. Inv => IsolatedBeforePreCharge
  BY DEF Inv
<1> QED
  BY <1>1, InvCorrect, PTL

\* Every way to end a session turns the charger off and names the right reason.
THEOREM EndsClean == Spec => []CleanEnd
<1>1. Inv => CleanEnd
  BY DEF Inv
<1> QED
  BY <1>1, InvCorrect, PTL

\* In the DC loop the charger has the command that the service calls for.
Commanded ==
    phase = "open" /\ st = "DCChargeLoop" /\ inst = "seen" =>
        charger = LoopCommand

\* Only DCChargeLoop leaves its own instance used, and it commands the charger.
LEMMA CommandedStep == Commanded /\ [Next]_vars => Commanded'
<1> SUFFICES ASSUME Commanded, [Next]_vars,
                    phase' = "open", st' = "DCChargeLoop", inst' = "seen"
             PROVE  charger' = LoopCommand'
  BY DEF Commanded
<1> USE DEF Goto, Stay, Halt, Stopping
<1>1. ASSUME NEW sid \in SessionIds \cup {NoId}, Handle(sid)
      PROVE  \E commandOk \in BOOLEAN : DCChargeLoop(sid, commandOk)
  <2>1. ~\E b \in BOOLEAN : SupportedAppProtocol(b)
    BY DEF SupportedAppProtocol
  <2>2. ~\E new \in SessionIds : SessionSetup(sid, new)
    BY DEF SessionSetup
  <2>3. ~AuthorizationSetup(sid) /\ ~CertificateInstallation(sid)
    BY DEF AuthorizationSetup, CertificateInstallation
  <2>4. ~\E pnc, sigOk, challengeOk \in BOOLEAN, answer \in Answers,
            code \in {"none", "OK", "FAILED"} :
              Authorization(sid, pnc, sigOk, challengeOk, answer, code)
    BY DEF Authorization
  <2>5. /\ ~\E offer, sets \in SUBSET Services : ServiceDiscovery(sid, offer, sets)
        /\ ~\E s \in Services : ServiceDetail(sid, s)
    BY DEF ServiceDiscovery, ServiceDetail
  <2>6. ~\E s \in Services, m \in {"SCHEDULED", "DYNAMIC"}, vasOk \in BOOLEAN :
              ServiceSelection(sid, s, m, vasOk)
    BY DEF ServiceSelection
  <2>7. /\ ~\E known \in BOOLEAN : ACChargeParameterDiscovery(sid, known)
        /\ ~\E known \in BOOLEAN : DCChargeParameterDiscovery(sid, known)
    BY DEF ACChargeParameterDiscovery, DCChargeParameterDiscovery,
           ChargeParameters
  <2>8. ~\E fits, ready \in BOOLEAN, schedules \in (SUBSET Tuples) \ {{}} :
              ScheduleExchange(sid, fits, ready, schedules)
    BY DEF ScheduleExchange
  <2>9. /\ ~\E contactor \in {"closed", "open", "unknown"},
               isolation \in {"valid", "fault", "pending"} :
              DCCableCheck(sid, contactor, isolation)
        /\ ~\E done, commandOk \in BOOLEAN : DCPreCharge(sid, done, commandOk)
    BY DEF DCCableCheck, DCPreCharge
  <2>10. ~\E processing, contactorOk \in BOOLEAN, tuple \in Tuples,
             progress \in {"Start", "Stop", "Renegotiate", "Standby"} :
              PowerDelivery(sid, processing, progress, tuple, contactorOk)
    BY DEF PowerDelivery, BeginCharging
  <2>11. ~ACChargeLoop(sid) /\ ~DCWeldingDetection(sid)
    BY DEF ACChargeLoop, DCWeldingDetection
  <2>12. ~\E request \in {"terminate", "pause", "renegotiate"} :
              SessionStop(sid, request)
    BY DEF SessionStop
  <2>13. ~\E type \in States : Refuse(type, sid)
    BY DEF Refuse
  <2> QED
    BY <1>1, <2>1, <2>2, <2>3, <2>4, <2>5, <2>6, <2>7, <2>8, <2>9, <2>10,
       <2>11, <2>12, <2>13, Zenon DEF Handle
<1>2. ASSUME NEW sid, NEW commandOk \in BOOLEAN, DCChargeLoop(sid, commandOk)
      PROVE  charger' = LoopCommand'
  BY <1>2 DEF DCChargeLoop, LoopCommand, choice
<1>3. ~BreakOff /\ ~SequenceTimeout /\ ~EndSession /\ ~CloseConnection
  BY DEF BreakOff, SequenceTimeout, Abort, EndSession, CloseConnection
<1>4. CASE EvFallsSilent \/ UNCHANGED vars
  BY <1>4 DEF EvFallsSilent, vars, choice, power, Commanded, LoopCommand
<1> QED
  BY <1>1, <1>2, <1>3, <1>4 DEF Next

\* The charging loop delivers, except for a bidirectional service: what the loop
\* passes for is_precharge is wrong for that one only.
THEOREM OneWayDelivers == Spec => [](service \notin BPT => LoopDelivers)
<1>1. Init => Commanded
  BY DEF Init, Commanded
<1>2. Commanded => (service \notin BPT => LoopDelivers)
  BY DEF Commanded, LoopCommand, LoopDelivers
<1> QED
  BY <1>1, <1>2, CommandedStep, PTL DEF Spec

-----------------------------------------------------------------------------
(* The EVCC: type correctness.                                             *)

\* The initial state is typed.
LEMMA InitTypedEV == InitEV => TypeOKEV
  BY DEF InitEV, TypeOKEV, StatesEV, SetupEV

\* The parts of TypeOKEV: where the session stands, its flags, the services and
\* the plan.
StandTyped ==
    /\ current \in StatesEV
    /\ said \in Verdicts \cup {"none", "finished", "EIM", "PNC", "terminate",
                               "renegotiate"}
    /\ life \in {"open", "stopping", "closing", "ended"}
    /\ evId \in Ids \cup {ZeroId} /\ timer \in {"off", "running", "expired"}
FlagsTyped ==
    /\ again \in BOOLEAN /\ arrived \in BOOLEAN /\ success \in BOOLEAN
    /\ ac \in BOOLEAN /\ working \in BOOLEAN
    /\ renegotiable \in BOOLEAN /\ renegotiating \in BOOLEAN
    /\ enabled \in BOOLEAN /\ authorized \in BOOLEAN
ServicesTyped ==
    /\ found \subseteq Energy /\ toDetail \subseteq found
    /\ described \subseteq found /\ asked \in Energy \cup {NoEnergy}
    /\ energy \in Energy \cup {NoEnergy}
    /\ control \in {"none", "SCHEDULED", "DYNAMIC"}
PlanTyped ==
    /\ list \subseteq Schedules /\ profile \in Schedules \cup {NoSchedule}
    /\ stop \in {"none", "terminate", "renegotiate"}

PartsTyped == StandTyped /\ FlagsTyped /\ ServicesTyped /\ PlanTyped

\* Every step keeps the types.
LEMMA TypeStepEV == TypeOKEV /\ [NextEV]_varsEV => TypeOKEV'
<1> SUFFICES ASSUME TypeOKEV, [NextEV]_varsEV PROVE TypeOKEV'
  OBVIOUS
<1>0. StandTyped /\ FlagsTyped /\ ServicesTyped /\ PlanTyped
  BY DEF TypeOKEV, StandTyped, FlagsTyped, ServicesTyped, PlanTyped
<1> SUFFICES PartsTyped'
  BY DEF PartsTyped, TypeOKEV, StandTyped, FlagsTyped, ServicesTyped, PlanTyped
<1> USE <1>0 DEF Answered, Matches, Reads, Request, GiveUp, asking, discovery,
      selection, plan, wishes
<1>1. ASSUME NEW known \in BOOLEAN, SupportedAppProtocolRes(known)
      PROVE  PartsTyped'
  <2>1. StandTyped'
    BY <1>1 DEF SupportedAppProtocolRes, StandTyped, StatesEV, SetupEV,
         LoopEV, Verdicts
  <2>2. FlagsTyped'
    BY <1>1 DEF SupportedAppProtocolRes, FlagsTyped
  <2>3. ServicesTyped'
    BY <1>1 DEF SupportedAppProtocolRes, ServicesTyped
  <2>4. PlanTyped'
    BY <1>1 DEF SupportedAppProtocolRes, PlanTyped
  <2> QED
    BY <2>1, <2>2, <2>3, <2>4 DEF PartsTyped
<1>2. ASSUME NEW sid \in Ids \cup {ZeroId}, SessionSetupRes(sid)
      PROVE  PartsTyped'
  <2>1. StandTyped'
    BY <1>2 DEF SessionSetupRes, StandTyped, StatesEV, SetupEV, LoopEV,
         Verdicts
  <2>2. FlagsTyped'
    BY <1>2 DEF SessionSetupRes, FlagsTyped
  <2>3. ServicesTyped'
    BY <1>2 DEF SessionSetupRes, ServicesTyped
  <2>4. PlanTyped'
    BY <1>2 DEF SessionSetupRes, PlanTyped
  <2> QED
    BY <2>1, <2>2, <2>3, <2>4 DEF PartsTyped
<1>3. ASSUME NEW sid \in Ids \cup {ZeroId}, NEW install \in BOOLEAN,
              NEW pnc \in BOOLEAN, AuthorizationSetupRes(sid, install, pnc)
      PROVE  PartsTyped'
  <2>1. StandTyped'
    BY <1>3 DEF AuthorizationSetupRes, StandTyped, StatesEV, SetupEV, LoopEV,
         Verdicts
  <2>2. FlagsTyped'
    BY <1>3 DEF AuthorizationSetupRes, FlagsTyped
  <2>3. ServicesTyped'
    BY <1>3 DEF AuthorizationSetupRes, ServicesTyped
  <2>4. PlanTyped'
    BY <1>3 DEF AuthorizationSetupRes, PlanTyped
  <2> QED
    BY <2>1, <2>2, <2>3, <2>4 DEF PartsTyped
<1>4. ASSUME NEW sid \in Ids \cup {ZeroId}, NEW finished \in BOOLEAN,
              AuthorizationRes(sid, finished)
      PROVE  PartsTyped'
  <2>1. StandTyped'
    BY <1>4 DEF AuthorizationRes, Ongoing, AskAgain, StandTyped, StatesEV,
         SetupEV, LoopEV, Verdicts
  <2>2. FlagsTyped'
    BY <1>4 DEF AuthorizationRes, Ongoing, AskAgain, FlagsTyped
  <2>3. ServicesTyped'
    BY <1>4 DEF AuthorizationRes, Ongoing, AskAgain, ServicesTyped
  <2>4. PlanTyped'
    BY <1>4 DEF AuthorizationRes, Ongoing, AskAgain, PlanTyped
  <2> QED
    BY <2>1, <2>2, <2>3, <2>4 DEF PartsTyped
<1>5. ASSUME NEW sid \in Ids \cup {ZeroId}, NEW offer \in SUBSET Energy,
              NEW r \in BOOLEAN, ServiceDiscoveryRes(sid, offer, r)
      PROVE  PartsTyped'
  <2>1. StandTyped'
    BY <1>5 DEF ServiceDiscoveryRes, ServiceDetailReq, StandTyped, StatesEV,
         SetupEV, LoopEV, Verdicts
  <2>2. FlagsTyped'
    BY <1>5 DEF ServiceDiscoveryRes, ServiceDetailReq, FlagsTyped
  <2>3. ServicesTyped'
    BY <1>5 DEF ServiceDiscoveryRes, ServiceDetailReq, ServicesTyped
  <2>4. PlanTyped'
    BY <1>5 DEF ServiceDiscoveryRes, ServiceDetailReq, PlanTyped
  <2> QED
    BY <2>1, <2>2, <2>3, <2>4 DEF PartsTyped
<1>6. ASSUME NEW sid \in Ids \cup {ZeroId}, NEW s \in Energy,
              NEW chosen \in Energy,
              NEW m \in {"none", "SCHEDULED", "DYNAMIC"},
              ServiceDetailRes(sid, s, chosen, m)
      PROVE  PartsTyped'
  <2>1. StandTyped'
    BY <1>6 DEF ServiceDetailRes, ServiceDetailReq, StandTyped, StatesEV,
         SetupEV, LoopEV, Verdicts
  <2>2. FlagsTyped'
    BY <1>6 DEF ServiceDetailRes, ServiceDetailReq, FlagsTyped
  <2>3. ServicesTyped'
    BY <1>6 DEF ServiceDetailRes, ServiceDetailReq, ServicesTyped
  <2>4. PlanTyped'
    BY <1>6 DEF ServiceDetailRes, ServiceDetailReq, PlanTyped
  <2> QED
    BY <2>1, <2>2, <2>3, <2>4 DEF PartsTyped
<1>7. ASSUME NEW sid \in Ids \cup {ZeroId}, ServiceSelectionRes(sid)
      PROVE  PartsTyped'
  <2>1. StandTyped'
    BY <1>7 DEF ServiceSelectionRes, StandTyped, StatesEV, SetupEV, LoopEV,
         Verdicts
  <2>2. FlagsTyped'
    <3>1. ac' \in BOOLEAN
      <4>1. CASE energy \in OtherEnergy
        BY <1>7, <4>1 DEF ServiceSelectionRes, FlagsTyped
      <4>2. CASE energy \notin OtherEnergy
        <5>1. ac' = (energy \in ACEnergy)
          BY <1>7, <4>2, Zenon DEF ServiceSelectionRes
        <5>2. (energy \in ACEnergy) \in BOOLEAN
          OBVIOUS
        <5> QED
          BY <5>1, <5>2, Zenon
      <4> QED
        BY <4>1, <4>2
    <3>2. success' \in BOOLEAN /\ again' \in BOOLEAN
      <4>1. CASE energy \in OtherEnergy
        BY <1>7, <4>1 DEF ServiceSelectionRes, FlagsTyped
      <4>2. CASE energy \notin OtherEnergy
        BY <1>7, <4>2 DEF ServiceSelectionRes, FlagsTyped
      <4> QED
        BY <4>1, <4>2
    <3> QED
      BY <1>7, <3>1, <3>2 DEF ServiceSelectionRes, FlagsTyped
  <2>3. ServicesTyped'
    BY <1>7 DEF ServiceSelectionRes, ServicesTyped
  <2>4. PlanTyped'
    BY <1>7 DEF ServiceSelectionRes, PlanTyped
  <2> QED
    BY <2>1, <2>2, <2>3, <2>4 DEF PartsTyped
<1>8. ASSUME NEW sid \in Ids \cup {ZeroId},
              ACChargeParameterDiscoveryRes(sid)
      PROVE  PartsTyped'
  <2>1. StandTyped'
    BY <1>8 DEF ACChargeParameterDiscoveryRes, StandTyped, StatesEV, SetupEV,
         LoopEV, Verdicts
  <2>2. FlagsTyped'
    BY <1>8 DEF ACChargeParameterDiscoveryRes, FlagsTyped
  <2>3. ServicesTyped'
    BY <1>8 DEF ACChargeParameterDiscoveryRes, ServicesTyped
  <2>4. PlanTyped'
    BY <1>8 DEF ACChargeParameterDiscoveryRes, PlanTyped
  <2> QED
    BY <2>1, <2>2, <2>3, <2>4 DEF PartsTyped
<1>9. ASSUME NEW sid \in Ids \cup {ZeroId},
              DCChargeParameterDiscoveryRes(sid)
      PROVE  PartsTyped'
  <2>1. StandTyped'
    BY <1>9 DEF DCChargeParameterDiscoveryRes, StandTyped, StatesEV, SetupEV,
         LoopEV, Verdicts
  <2>2. FlagsTyped'
    BY <1>9 DEF DCChargeParameterDiscoveryRes, FlagsTyped
  <2>3. ServicesTyped'
    BY <1>9 DEF DCChargeParameterDiscoveryRes, ServicesTyped
  <2>4. PlanTyped'
    BY <1>9 DEF DCChargeParameterDiscoveryRes, PlanTyped
  <2> QED
    BY <2>1, <2>2, <2>3, <2>4 DEF PartsTyped
<1>10. ASSUME NEW sid \in Ids \cup {ZeroId}, NEW finished \in BOOLEAN,
              NEW tuples \in SUBSET Schedules, NEW verdict \in Verdicts,
              NEW tuple \in Schedules \cup {NoSchedule},
              ScheduleExchangeRes(sid, finished, tuples, verdict, tuple)
      PROVE  PartsTyped'
  <2>1. StandTyped'
    BY <1>10 DEF ScheduleExchangeRes, PowerDeliveryReq, StandTyped, StatesEV,
         SetupEV, LoopEV, Verdicts
  <2>2. FlagsTyped'
    BY <1>10 DEF ScheduleExchangeRes, PowerDeliveryReq, FlagsTyped
  <2>3. ServicesTyped'
    BY <1>10 DEF ScheduleExchangeRes, PowerDeliveryReq, ServicesTyped
  <2>4. PlanTyped'
    BY <1>10 DEF ScheduleExchangeRes, PowerDeliveryReq, PlanTyped
  <2> QED
    BY <2>1, <2>2, <2>3, <2>4 DEF PartsTyped
<1>11. ASSUME NEW sid \in Ids \cup {ZeroId}, NEW finished \in BOOLEAN,
              DCCableCheckRes(sid, finished)
      PROVE  PartsTyped'
  <2>1. StandTyped'
    BY <1>11 DEF DCCableCheckRes, Ongoing, AskAgain, StandTyped, StatesEV,
         SetupEV, LoopEV, Verdicts
  <2>2. FlagsTyped'
    BY <1>11 DEF DCCableCheckRes, Ongoing, AskAgain, FlagsTyped
  <2>3. ServicesTyped'
    BY <1>11 DEF DCCableCheckRes, Ongoing, AskAgain, ServicesTyped
  <2>4. PlanTyped'
    BY <1>11 DEF DCCableCheckRes, Ongoing, AskAgain, PlanTyped
  <2> QED
    BY <2>1, <2>2, <2>3, <2>4 DEF PartsTyped
<1>12. ASSUME NEW sid \in Ids \cup {ZeroId}, NEW before \in BOOLEAN,
              NEW now \in BOOLEAN, NEW verdict \in Verdicts,
              NEW tuple \in Schedules \cup {NoSchedule},
              DCPreChargeRes(sid, before, now, verdict, tuple)
      PROVE  PartsTyped'
  <2>1. StandTyped'
    BY <1>12 DEF DCPreChargeRes, RenewPowerDelivery, PowerDeliveryReq,
         AskAgain, StandTyped, StatesEV, SetupEV, LoopEV, Verdicts
  <2>2. FlagsTyped'
    BY <1>12 DEF DCPreChargeRes, RenewPowerDelivery, PowerDeliveryReq,
         AskAgain, FlagsTyped
  <2>3. ServicesTyped'
    BY <1>12 DEF DCPreChargeRes, RenewPowerDelivery, PowerDeliveryReq,
         AskAgain, ServicesTyped
  <2>4. PlanTyped'
    BY <1>12 DEF DCPreChargeRes, RenewPowerDelivery, PowerDeliveryReq,
         AskAgain, PlanTyped
  <2> QED
    BY <2>1, <2>2, <2>3, <2>4 DEF PartsTyped
<1>13. ASSUME NEW sid \in Ids \cup {ZeroId}, NEW verdict \in Verdicts,
              NEW tuple \in Schedules \cup {NoSchedule},
              PowerDeliveryRes(sid, verdict, tuple)
      PROVE  PartsTyped'
  <2>1. StandTyped'
    BY <1>13 DEF PowerDeliveryRes, RenewPowerDelivery, PowerDeliveryReq,
         LeavePowerDelivery, PlanTyped, StandTyped, StatesEV, SetupEV, LoopEV,
         Verdicts
  <2>2. FlagsTyped'
    BY <1>13 DEF PowerDeliveryRes, RenewPowerDelivery, PowerDeliveryReq,
         LeavePowerDelivery, FlagsTyped
  <2>3. ServicesTyped'
    BY <1>13 DEF PowerDeliveryRes, RenewPowerDelivery, PowerDeliveryReq,
         LeavePowerDelivery, ServicesTyped
  <2>4. PlanTyped'
    BY <1>13 DEF PowerDeliveryRes, RenewPowerDelivery, PowerDeliveryReq,
         LeavePowerDelivery, PlanTyped
  <2> QED
    BY <2>1, <2>2, <2>3, <2>4 DEF PartsTyped
<1>14. ASSUME NEW sid \in Ids \cup {ZeroId}, NEW n \in Notifications,
              NEW going \in BOOLEAN, ACChargeLoopRes(sid, n, going)
      PROVE  PartsTyped'
  <2>1. StandTyped'
    BY <1>14 DEF ACChargeLoopRes, StopCharging, StandTyped, StatesEV, SetupEV,
         LoopEV, Verdicts
  <2>2. FlagsTyped'
    BY <1>14 DEF ACChargeLoopRes, StopCharging, FlagsTyped
  <2>3. ServicesTyped'
    BY <1>14 DEF ACChargeLoopRes, StopCharging, ServicesTyped
  <2>4. PlanTyped'
    BY <1>14 DEF ACChargeLoopRes, StopCharging, PlanTyped
  <2> QED
    BY <2>1, <2>2, <2>3, <2>4 DEF PartsTyped
<1>15. ASSUME NEW sid \in Ids \cup {ZeroId}, NEW n \in Notifications,
              NEW going \in BOOLEAN, DCChargeLoopRes(sid, n, going)
      PROVE  PartsTyped'
  <2>1. StandTyped'
    BY <1>15 DEF DCChargeLoopRes, StopCharging, AskAgain, StandTyped,
         StatesEV, SetupEV, LoopEV, Verdicts
  <2>2. FlagsTyped'
    BY <1>15 DEF DCChargeLoopRes, StopCharging, AskAgain, FlagsTyped
  <2>3. ServicesTyped'
    BY <1>15 DEF DCChargeLoopRes, StopCharging, AskAgain, ServicesTyped
  <2>4. PlanTyped'
    BY <1>15 DEF DCChargeLoopRes, StopCharging, AskAgain, PlanTyped
  <2> QED
    BY <2>1, <2>2, <2>3, <2>4 DEF PartsTyped
<1>16. ASSUME NEW finished \in BOOLEAN, DCWeldingDetectionRes(finished)
      PROVE  PartsTyped'
  <2>1. StandTyped'
    BY <1>16 DEF DCWeldingDetectionRes, AskAgain, StandTyped, StatesEV,
         SetupEV, LoopEV, Verdicts
  <2>2. FlagsTyped'
    BY <1>16 DEF DCWeldingDetectionRes, AskAgain, FlagsTyped
  <2>3. ServicesTyped'
    BY <1>16 DEF DCWeldingDetectionRes, AskAgain, ServicesTyped
  <2>4. PlanTyped'
    BY <1>16 DEF DCWeldingDetectionRes, AskAgain, PlanTyped
  <2> QED
    BY <2>1, <2>2, <2>3, <2>4 DEF PartsTyped
<1>17. ASSUME NEW sid \in Ids \cup {ZeroId}, SessionStopRes(sid)
      PROVE  PartsTyped'
  <2>1. StandTyped'
    BY <1>17 DEF SessionStopRes, StandTyped, StatesEV, SetupEV, LoopEV,
         Verdicts
  <2>2. FlagsTyped'
    BY <1>17 DEF SessionStopRes, FlagsTyped
  <2>3. ServicesTyped'
    BY <1>17 DEF SessionStopRes, ServicesTyped
  <2>4. PlanTyped'
    BY <1>17 DEF SessionStopRes, PlanTyped
  <2> QED
    BY <2>1, <2>2, <2>3, <2>4 DEF PartsTyped
<1>18. ASSUME NEW sid \in Ids \cup {ZeroId}, NEW type \in StatesEV,
              NEW ok \in BOOLEAN, RefuseEV(type, ok, sid)
      PROVE  PartsTyped'
  <2>1. StandTyped'
    BY <1>18 DEF RefuseEV, StandTyped, StatesEV, SetupEV, LoopEV, Verdicts
  <2>2. FlagsTyped'
    BY <1>18 DEF RefuseEV, FlagsTyped
  <2>3. ServicesTyped'
    BY <1>18 DEF RefuseEV, ServicesTyped
  <2>4. PlanTyped'
    BY <1>18 DEF RefuseEV, PlanTyped
  <2> QED
    BY <2>1, <2>2, <2>3, <2>4 DEF PartsTyped
<1>19. CASE AbortEV
  <2>1. StandTyped'
    BY <1>19 DEF AbortEV, StandTyped, StatesEV, SetupEV, LoopEV, Verdicts
  <2>2. FlagsTyped'
    BY <1>19 DEF AbortEV, FlagsTyped
  <2>3. ServicesTyped'
    BY <1>19 DEF AbortEV, ServicesTyped
  <2>4. PlanTyped'
    BY <1>19 DEF AbortEV, PlanTyped
  <2> QED
    BY <2>1, <2>2, <2>3, <2>4 DEF PartsTyped
<1>20. CASE TimeoutEV
  <2>1. StandTyped'
    BY <1>20 DEF TimeoutEV, StandTyped, StatesEV, SetupEV, LoopEV, Verdicts
  <2>2. FlagsTyped'
    BY <1>20 DEF TimeoutEV, FlagsTyped
  <2>3. ServicesTyped'
    BY <1>20 DEF TimeoutEV, ServicesTyped
  <2>4. PlanTyped'
    BY <1>20 DEF TimeoutEV, PlanTyped
  <2> QED
    BY <2>1, <2>2, <2>3, <2>4 DEF PartsTyped
<1>21. CASE Arrive
  <2>1. StandTyped'
    BY <1>21 DEF Arrive, StandTyped, StatesEV, SetupEV, LoopEV, Verdicts
  <2>2. FlagsTyped'
    BY <1>21 DEF Arrive, FlagsTyped
  <2>3. ServicesTyped'
    BY <1>21 DEF Arrive, ServicesTyped
  <2>4. PlanTyped'
    BY <1>21 DEF Arrive, PlanTyped
  <2> QED
    BY <2>1, <2>2, <2>3, <2>4 DEF PartsTyped
<1>22. CASE TimerExpires
  <2>1. StandTyped'
    BY <1>22 DEF TimerExpires, StandTyped, StatesEV, SetupEV, LoopEV, Verdicts
  <2>2. FlagsTyped'
    BY <1>22 DEF TimerExpires, FlagsTyped
  <2>3. ServicesTyped'
    BY <1>22 DEF TimerExpires, ServicesTyped
  <2>4. PlanTyped'
    BY <1>22 DEF TimerExpires, PlanTyped
  <2> QED
    BY <2>1, <2>2, <2>3, <2>4 DEF PartsTyped
<1>23. CASE Disable
  <2>1. StandTyped'
    BY <1>23 DEF Disable, StandTyped, StatesEV, SetupEV, LoopEV, Verdicts
  <2>2. FlagsTyped'
    BY <1>23 DEF Disable, FlagsTyped
  <2>3. ServicesTyped'
    BY <1>23 DEF Disable, ServicesTyped
  <2>4. PlanTyped'
    BY <1>23 DEF Disable, PlanTyped
  <2> QED
    BY <2>1, <2>2, <2>3, <2>4 DEF PartsTyped
<1>24. CASE Close
  <2>1. StandTyped'
    BY <1>24 DEF Close, StandTyped, StatesEV, SetupEV, LoopEV, Verdicts
  <2>2. FlagsTyped'
    BY <1>24 DEF Close, FlagsTyped
  <2>3. ServicesTyped'
    BY <1>24 DEF Close, ServicesTyped
  <2>4. PlanTyped'
    BY <1>24 DEF Close, PlanTyped
  <2> QED
    BY <2>1, <2>2, <2>3, <2>4 DEF PartsTyped
<1>25. CASE UNCHANGED varsEV
  <2>1. StandTyped'
    BY <1>25 DEF varsEV, StandTyped, StatesEV, SetupEV, LoopEV, Verdicts
  <2>2. FlagsTyped'
    BY <1>25 DEF varsEV, FlagsTyped
  <2>3. ServicesTyped'
    BY <1>25 DEF varsEV, ServicesTyped
  <2>4. PlanTyped'
    BY <1>25 DEF varsEV, PlanTyped
  <2> QED
    BY <2>1, <2>2, <2>3, <2>4 DEF PartsTyped
<1> HIDE DEF Answered, Reads, Request, GiveUp
<1> QED
  BY <1>1, <1>2, <1>3, <1>4, <1>5, <1>6, <1>7, <1>8, <1>9, <1>10,
      <1>11, <1>12, <1>13, <1>14, <1>15, <1>16, <1>17, <1>18, <1>19, <1>20,
      <1>21, <1>22, <1>23, <1>24, <1>25 DEF NextEV, Turn, Process

\* Every variable keeps its type, and only what was found is detailed, for any
\* identifiers, services and schedules.
THEOREM TypeCorrectEV == SpecEV => []TypeOKEV
  BY InitTypedEV, TypeStepEV, PTL DEF SpecEV

-----------------------------------------------------------------------------
(* The inductive invariant.                                                *)

\* The states before the authorization is finished, and before a service is
\* selected, and before it is known that the EV can use it.
BeforeAuthorized == {"SupportedAppProtocol", "SessionSetup", "AuthorizationSetup",
                     "CertificateInstallation", "Authorization"}
BeforeSelection == BeforeAuthorized \cup
                   {"ServiceDiscovery", "ServiceDetail", "SessionStop"}
BeforeParameters == BeforeSelection \cup {"ServiceSelection"}

\* What the state of an open session tells about the agreement so far.
Agreed ==
    life = "open" =>
        /\ current \notin BeforeAuthorized => authorized
        /\ current \notin BeforeSelection => energy \in described
        /\ current \notin BeforeParameters => energy \notin OtherEnergy

\* The charging loop is entered only when the profile is settled.
Settled == life = "open" /\ current \in LoopEV => ~working

InvEV == TypeOKEV /\ Agreed /\ Settled /\ EnabledInSession /\ StopIsFinal

\* The parts of the invariant besides the types.
Conduct == Agreed /\ Settled /\ EnabledInSession /\ StopIsFinal

\* The initial state satisfies the invariant.
LEMMA InvInitEV == InitEV => InvEV
  BY InitTypedEV DEF InitEV, InvEV, Agreed, Settled, EnabledInSession,
     StopIsFinal, BeforeAuthorized, BeforeSelection, BeforeParameters, LoopEV

\* Every step keeps them.
LEMMA ConductStep == InvEV /\ [NextEV]_varsEV => Conduct'
<1> SUFFICES ASSUME InvEV, [NextEV]_varsEV PROVE Conduct'
  OBVIOUS
<1> USE DEF Answered, Matches, Reads, Request, GiveUp, asking, discovery, selection,
      plan, wishes, InvEV, Conduct, Agreed, Settled, EnabledInSession,
      StopIsFinal, BeforeAuthorized, BeforeSelection, BeforeParameters, SetupEV,
      LoopEV
<1>1. ASSUME NEW known \in BOOLEAN, SupportedAppProtocolRes(known)
      PROVE  Conduct'
  BY <1>1 DEF SupportedAppProtocolRes
<1>2. ASSUME NEW sid \in Ids \cup {ZeroId}, SessionSetupRes(sid)
      PROVE  Conduct'
  BY <1>2 DEF SessionSetupRes
<1>3. ASSUME NEW sid \in Ids \cup {ZeroId}, NEW install \in BOOLEAN,
              NEW pnc \in BOOLEAN, AuthorizationSetupRes(sid, install, pnc)
      PROVE  Conduct'
  BY <1>3 DEF AuthorizationSetupRes
<1>4. ASSUME NEW sid \in Ids \cup {ZeroId}, NEW finished \in BOOLEAN,
              AuthorizationRes(sid, finished)
      PROVE  Conduct'
  BY <1>4 DEF AuthorizationRes, Ongoing, AskAgain
<1>5. ASSUME NEW sid \in Ids \cup {ZeroId}, NEW offer \in SUBSET Energy,
              NEW r \in BOOLEAN, ServiceDiscoveryRes(sid, offer, r)
      PROVE  Conduct'
  BY <1>5 DEF ServiceDiscoveryRes, ServiceDetailReq
<1>6. ASSUME NEW sid \in Ids \cup {ZeroId}, NEW s \in Energy,
              NEW chosen \in Energy,
              NEW m \in {"none", "SCHEDULED", "DYNAMIC"},
              ServiceDetailRes(sid, s, chosen, m)
      PROVE  Conduct'
  BY <1>6 DEF ServiceDetailRes, ServiceDetailReq
<1>7. ASSUME NEW sid \in Ids \cup {ZeroId}, ServiceSelectionRes(sid)
      PROVE  Conduct'
  BY <1>7 DEF ServiceSelectionRes
<1>8. ASSUME NEW sid \in Ids \cup {ZeroId},
              ACChargeParameterDiscoveryRes(sid)
      PROVE  Conduct'
  BY <1>8 DEF ACChargeParameterDiscoveryRes
<1>9. ASSUME NEW sid \in Ids \cup {ZeroId},
              DCChargeParameterDiscoveryRes(sid)
      PROVE  Conduct'
  BY <1>9 DEF DCChargeParameterDiscoveryRes
<1>10. ASSUME NEW sid \in Ids \cup {ZeroId}, NEW finished \in BOOLEAN,
              NEW tuples \in SUBSET Schedules, NEW verdict \in Verdicts,
              NEW tuple \in Schedules \cup {NoSchedule},
              ScheduleExchangeRes(sid, finished, tuples, verdict, tuple)
      PROVE  Conduct'
  BY <1>10 DEF ScheduleExchangeRes, PowerDeliveryReq
<1>11. ASSUME NEW sid \in Ids \cup {ZeroId}, NEW finished \in BOOLEAN,
              DCCableCheckRes(sid, finished)
      PROVE  Conduct'
  BY <1>11 DEF DCCableCheckRes, Ongoing, AskAgain
<1>12. ASSUME NEW sid \in Ids \cup {ZeroId}, NEW before \in BOOLEAN,
              NEW now \in BOOLEAN, NEW verdict \in Verdicts,
              NEW tuple \in Schedules \cup {NoSchedule},
              DCPreChargeRes(sid, before, now, verdict, tuple)
      PROVE  Conduct'
  BY <1>12 DEF DCPreChargeRes, RenewPowerDelivery, PowerDeliveryReq,
      AskAgain
<1>13. ASSUME NEW sid \in Ids \cup {ZeroId}, NEW verdict \in Verdicts,
              NEW tuple \in Schedules \cup {NoSchedule},
              PowerDeliveryRes(sid, verdict, tuple)
      PROVE  Conduct'
  BY <1>13 DEF PowerDeliveryRes, RenewPowerDelivery, PowerDeliveryReq,
      LeavePowerDelivery
<1>14. ASSUME NEW sid \in Ids \cup {ZeroId}, NEW n \in Notifications,
              NEW going \in BOOLEAN, ACChargeLoopRes(sid, n, going)
      PROVE  Conduct'
  BY <1>14 DEF ACChargeLoopRes, StopCharging
<1>15. ASSUME NEW sid \in Ids \cup {ZeroId}, NEW n \in Notifications,
              NEW going \in BOOLEAN, DCChargeLoopRes(sid, n, going)
      PROVE  Conduct'
  BY <1>15 DEF DCChargeLoopRes, StopCharging, AskAgain
<1>16. ASSUME NEW finished \in BOOLEAN, DCWeldingDetectionRes(finished)
      PROVE  Conduct'
  BY <1>16 DEF DCWeldingDetectionRes, AskAgain
<1>17. ASSUME NEW sid \in Ids \cup {ZeroId}, SessionStopRes(sid)
      PROVE  Conduct'
  BY <1>17 DEF SessionStopRes
<1>18. ASSUME NEW sid \in Ids \cup {ZeroId}, NEW type \in StatesEV,
              NEW ok \in BOOLEAN, RefuseEV(type, ok, sid)
      PROVE  Conduct'
  BY <1>18 DEF RefuseEV
<1>19. CASE AbortEV
  BY <1>19 DEF AbortEV
<1>20. CASE TimeoutEV
  BY <1>20 DEF TimeoutEV
<1>21. CASE Arrive
  BY <1>21 DEF Arrive
<1>22. CASE TimerExpires
  BY <1>22 DEF TimerExpires
<1>23. CASE Disable
  BY <1>23 DEF Disable
<1>24. CASE Close
  BY <1>24 DEF Close
<1>25. CASE UNCHANGED varsEV
  BY <1>25 DEF varsEV
<1> HIDE DEF InvEV, Conduct
<1> QED
  BY <1>1, <1>2, <1>3, <1>4, <1>5, <1>6, <1>7, <1>8, <1>9, <1>10,
      <1>11, <1>12, <1>13, <1>14, <1>15, <1>16, <1>17, <1>18, <1>19, <1>20,
      <1>21, <1>22, <1>23, <1>24, <1>25 DEF NextEV, Turn, Process

\* Every step keeps the invariant.
LEMMA InvStepEV == InvEV /\ [NextEV]_varsEV => InvEV'
  BY TypeStepEV, ConductStep DEF InvEV, Conduct

\* The inductive invariant holds in every reachable state.
THEOREM InvCorrectEV == SpecEV => []InvEV
  BY InvInitEV, InvStepEV, PTL DEF SpecEV

\* Charging is enabled only after the authorization and for a described service,
\* and not when the connection closes.
THEOREM EnabledOnlyInSession == SpecEV => []EnabledInSession
<1>1. InvEV => EnabledInSession
  BY DEF InvEV
<1> QED
  BY <1>1, InvCorrectEV, PTL

\* A decision to end the charging is final.
THEOREM StopStands == SpecEV => []StopIsFinal
<1>1. InvEV => StopIsFinal
  BY DEF InvEV
<1> QED
  BY <1>1, InvCorrectEV, PTL
=============================================================================
