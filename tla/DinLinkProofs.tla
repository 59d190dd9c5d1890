---------------------------- MODULE DinLinkProofs ---------------------------
(***************************************************************************)
(* Proofs of the safety properties of DIN SPEC 70121, for any identifiers: *)
(* of its two sides, SeccDin and EvccDin, each against a peer that sends   *)
(* anything, and of the pair of DinLink, every step of which is a step, or *)
(* a stutter, of either side.                                              *)
(***************************************************************************)
EXTENDS DinLink, TLAPS

-----------------------------------------------------------------------------
(* What an accepted request tells about the state it arrives in.           *)

\* check_msg lets a request through only in an open session, in its own state
\* or in one that lists it and has seen its own request.
LEMMA Arrivals ==
    ASSUME NEW type \in States, NEW sid, Accepts(type, sid)
    PROVE  /\ phase = "open"
           /\ st = type \/ (<<st, type>> \in Lists /\ inst # "fresh")
  BY DEF Accepts, Accepted, Lists, Flagged

\* The states that are entered by their own request only.
LEMMA OwnArrivals ==
    ASSUME NEW type \in SetupStates \cup {"ChargeParameterDiscovery",
                            "CableCheck", "PreCharge", "CurrentDemand"},
           NEW sid, Accepts(type, sid)
    PROVE  phase = "open" /\ st = type
  BY DEF Accepts, Accepted, Lists, SetupStates

\* A PowerDeliveryReq comes from precharge, from itself or from the loop.
LEMMA PowerArrivals ==
    ASSUME NEW sid, Accepts("PowerDelivery", sid)
    PROVE  /\ phase = "open"
           /\ st \in {"PreCharge", "PowerDelivery", "CurrentDemand"}
  BY DEF Accepts, Accepted, Lists

\* Welding is tested, and the session stopped, after power delivery.
LEMMA EndArrivals ==
    ASSUME NEW sid,
           Accepts("WeldingDetection", sid) \/ Accepts("SessionStop", sid)
    PROVE  /\ phase = "open"
           /\ st \in {"PowerDelivery", "WeldingDetection", "SessionStop"}
           /\ st = "PowerDelivery" => inst # "fresh"
  BY DEF Accepts, Accepted, Lists, Flagged

-----------------------------------------------------------------------------
(* Type correctness.                                                       *)

\* The initial state is typed.
LEMMA InitTyped == Init => TypeOK
  BY DEF Init, TypeOK, States, SetupStates

\* Every step keeps the types.
LEMMA TypeStep == TypeOK /\ [Next]_vars => TypeOK'
<1> SUFFICES ASSUME TypeOK, [Next]_vars PROVE TypeOK'
  OBVIOUS
<1> USE DEF Stay, Goto, Stopping, Halt, Own, power, history, TypeOK, States,
      SetupStates, Answers
<1>1. ASSUME NEW b \in BOOLEAN, SupportedAppProtocol(b)
      PROVE  TypeOK'
  BY <1>1
  DEF SupportedAppProtocol
<1>2. ASSUME NEW sid \in SessionIds \cup {NoId}, NEW new \in SessionIds,
              SessionSetup(sid, new)
      PROVE  TypeOK'
  BY <1>2
  DEF SessionSetup
<1>3. ASSUME NEW sid \in SessionIds \cup {NoId}, ServiceDiscovery(sid)
      PROVE  TypeOK'
  BY <1>3
  DEF ServiceDiscovery
<1>4. ASSUME NEW sid \in SessionIds \cup {NoId}, NEW eim \in BOOLEAN,
              NEW services \in BOOLEAN,
              ServicePaymentSelection(sid, eim, services)
      PROVE  TypeOK'
  BY <1>4
  DEF ServicePaymentSelection
<1>5. ASSUME NEW sid \in SessionIds \cup {NoId}, NEW answer \in Answers,
              ContractAuthentication(sid, answer)
      PROVE  TypeOK'
  BY <1>5
  DEF ContractAuthentication
<1>6. ASSUME NEW sid \in SessionIds \cup {NoId}, NEW supported \in BOOLEAN,
              NEW scheduled \in BOOLEAN,
              ChargeParameterDiscovery(sid, supported, scheduled)
      PROVE  TypeOK'
  BY <1>6
  DEF ChargeParameterDiscovery
<1>7. ASSUME NEW sid \in SessionIds \cup {NoId}, NEW evError \in BOOLEAN,
              NEW contactor \in {"closed", "open", "unknown"},
              NEW isolation \in {"valid", "fault", "pending"},
              CableCheck(sid, evError, contactor, isolation)
      PROVE  TypeOK'
  BY <1>7
  DEF CableCheck
<1>8. ASSUME NEW sid \in SessionIds \cup {NoId}, NEW fault \in BOOLEAN,
              PreCharge(sid, fault)
      PROVE  TypeOK'
  BY <1>8
  DEF PreCharge
<1>9. ASSUME NEW sid \in SessionIds \cup {NoId},
              NEW ready_to_charge \in BOOLEAN, NEW opened \in BOOLEAN,
              PowerDelivery(sid, ready_to_charge, opened)
      PROVE  TypeOK'
  BY <1>9
  DEF PowerDelivery
<1>10. ASSUME NEW sid \in SessionIds \cup {NoId}, NEW commandOk \in BOOLEAN,
              CurrentDemand(sid, commandOk)
      PROVE  TypeOK'
  BY <1>10
  DEF CurrentDemand
<1>11. ASSUME NEW sid \in SessionIds \cup {NoId}, WeldingDetection(sid)
      PROVE  TypeOK'
  BY <1>11
  DEF WeldingDetection
<1>12. ASSUME NEW sid \in SessionIds \cup {NoId}, SessionStop(sid)
      PROVE  TypeOK'
  BY <1>12
  DEF SessionStop
<1>13. ASSUME NEW sid \in SessionIds \cup {NoId}, NEW type \in States,
              Refuse(type, sid)
      PROVE  TypeOK'
  BY <1>13
  DEF Refuse
<1>14. CASE BreakOff
  BY <1>14
  DEF BreakOff, Abort
<1>15. CASE SequenceTimeout
  BY <1>15
  DEF SequenceTimeout, Abort
<1>16. CASE EvFallsSilent
  BY <1>16
  DEF EvFallsSilent
<1>17. CASE EndSession
  BY <1>17
  DEF EndSession
<1>18. CASE CloseConnection
  BY <1>18
  DEF CloseConnection
<1>19. CASE UNCHANGED vars
  BY <1>19
  DEF vars
<1> HIDE DEF TypeOK
<1> QED
  BY <1>1, <1>2, <1>3, <1>4, <1>5, <1>6, <1>7, <1>8, <1>9, <1>10,
      <1>11, <1>12, <1>13, <1>14, <1>15, <1>16, <1>17, <1>18, <1>19
  DEF Next, Handle

\* Every variable keeps its type, for any identifiers.
THEOREM TypeCorrect == Spec => []TypeOK
  BY InitTyped, TypeStep, PTL DEF Spec

-----------------------------------------------------------------------------
(* The inductive invariant.                                                *)

\* Nothing is switched on before the user is authorized, and the states after
\* that are reached only by an accepted decision.
Decided ==
    phase = "open" =>
        IF st \in SetupStates THEN charger = "off" /\ ~hlc
        ELSE decision = "accepted"

\* The states after the cable check are reached only when it has passed; before
\* them no more than its own voltage is on the line, and none before its request.
Tested ==
    phase = "open" =>
        IF st \in Flagged THEN isolated
        ELSE /\ ~hlc /\ charger \in {"off", "cablecheck"}
             /\ st # "CableCheck" \/ inst = "fresh" => charger = "off"

\* The loop is entered under HLC charging; power delivery and welding detection
\* are left running only before the stop.
Announced ==
    phase = "open" => /\ st = "CurrentDemand" => hlc
                      /\ st = "PreCharge" => charger # "charging"
                      /\ st \in {"PowerDelivery", "WeldingDetection"} =>
                           charger = "off" /\ ~hlc

\* An open session has no reason to end, and no state for it.
Unended == phase = "open" => reason = "none" /\ st # "SessionStop"

Inv == /\ TypeOK
       /\ Decided
       /\ Tested
       /\ Announced
       /\ Unended
       /\ PowerAfterTests

\* The initial state satisfies the invariant.
LEMMA InvInit == Init => Inv
  BY InitTyped DEF Init, Inv, Decided, Tested, Announced, Unended, PowerAfterTests,
     SetupStates, Flagged

\* Every step keeps the invariant.
LEMMA InvStep == Inv /\ [Next]_vars => Inv'
<1> SUFFICES ASSUME Inv, [Next]_vars PROVE Inv'
  OBVIOUS
<1> USE DEF Stay, Goto, Stopping, Halt, Own, power, history, Inv, Decided,
      Tested, Announced, Unended, PowerAfterTests, SetupStates, Flagged
<1>0. TypeOK'
  BY TypeStep
<1>1. ASSUME NEW b \in BOOLEAN, SupportedAppProtocol(b)
      PROVE  Inv'
  <2>1. phase = "open" /\ st = "SupportedAppProtocol"
    BY <1>1, OwnArrivals DEF SupportedAppProtocol
  <2> QED
    BY <1>1, <1>0, <2>1 DEF SupportedAppProtocol, TypeOK, Answers
<1>2. ASSUME NEW sid \in SessionIds \cup {NoId}, NEW new \in SessionIds,
              SessionSetup(sid, new)
      PROVE  Inv'
  <2>1. phase = "open" /\ st = "SessionSetup"
    BY <1>2, OwnArrivals DEF SessionSetup
  <2> QED
    BY <1>2, <1>0, <2>1 DEF SessionSetup, TypeOK, Answers
<1>3. ASSUME NEW sid \in SessionIds \cup {NoId}, ServiceDiscovery(sid)
      PROVE  Inv'
  <2>1. phase = "open" /\ st = "ServiceDiscovery"
    BY <1>3, OwnArrivals DEF ServiceDiscovery
  <2> QED
    BY <1>3, <1>0, <2>1 DEF ServiceDiscovery, TypeOK, Answers
<1>4. ASSUME NEW sid \in SessionIds \cup {NoId}, NEW eim \in BOOLEAN,
              NEW services \in BOOLEAN,
              ServicePaymentSelection(sid, eim, services)
      PROVE  Inv'
  <2>1. phase = "open" /\ st = "ServicePaymentSelection"
    BY <1>4, OwnArrivals DEF ServicePaymentSelection
  <2> QED
    BY <1>4, <1>0, <2>1 DEF ServicePaymentSelection, TypeOK, Answers
<1>5. ASSUME NEW sid \in SessionIds \cup {NoId}, NEW answer \in Answers,
              ContractAuthentication(sid, answer)
      PROVE  Inv'
  <2>1. phase = "open" /\ st = "ContractAuthentication"
    BY <1>5, OwnArrivals DEF ContractAuthentication
  <2> QED
    BY <1>5, <1>0, <2>1 DEF ContractAuthentication, TypeOK, Answers
<1>6. ASSUME NEW sid \in SessionIds \cup {NoId}, NEW supported \in BOOLEAN,
              NEW scheduled \in BOOLEAN,
              ChargeParameterDiscovery(sid, supported, scheduled)
      PROVE  Inv'
  <2>1. phase = "open" /\ st = "ChargeParameterDiscovery"
    BY <1>6, OwnArrivals DEF ChargeParameterDiscovery
  <2> QED
    BY <1>6, <1>0, <2>1 DEF ChargeParameterDiscovery, TypeOK, Answers
<1>7. ASSUME NEW sid \in SessionIds \cup {NoId}, NEW evError \in BOOLEAN,
              NEW contactor \in {"closed", "open", "unknown"},
              NEW isolation \in {"valid", "fault", "pending"},
              CableCheck(sid, evError, contactor, isolation)
      PROVE  Inv'
  <2>1. phase = "open" /\ st = "CableCheck"
    BY <1>7, OwnArrivals DEF CableCheck
  <2> QED
    BY <1>7, <1>0, <2>1 DEF CableCheck, TypeOK, Answers
<1>8. ASSUME NEW sid \in SessionIds \cup {NoId}, NEW fault \in BOOLEAN,
              PreCharge(sid, fault)
      PROVE  Inv'
  <2>1. phase = "open" /\ st = "PreCharge"
    BY <1>8, OwnArrivals DEF PreCharge
  <2> QED
    BY <1>8, <1>0, <2>1 DEF PreCharge, TypeOK, Answers
<1>9. ASSUME NEW sid \in SessionIds \cup {NoId},
              NEW ready_to_charge \in BOOLEAN, NEW opened \in BOOLEAN,
              PowerDelivery(sid, ready_to_charge, opened)
      PROVE  Inv'
  <2>1. phase = "open" /\ st \in {"PreCharge", "PowerDelivery", "CurrentDemand"}
    BY <1>9, PowerArrivals DEF PowerDelivery
  <2> QED
    BY <1>9, <1>0, <2>1 DEF PowerDelivery, TypeOK
<1>10. ASSUME NEW sid \in SessionIds \cup {NoId}, NEW commandOk \in BOOLEAN,
              CurrentDemand(sid, commandOk)
      PROVE  Inv'
  <2>1. phase = "open" /\ st = "CurrentDemand"
    BY <1>10, OwnArrivals DEF CurrentDemand
  <2> QED
    BY <1>10, <1>0, <2>1 DEF CurrentDemand, TypeOK, Answers
<1>11. ASSUME NEW sid \in SessionIds \cup {NoId}, WeldingDetection(sid)
      PROVE  Inv'
  <2>1. /\ phase = "open"
        /\ st \in {"PowerDelivery", "WeldingDetection", "SessionStop"}
    BY <1>11, EndArrivals DEF WeldingDetection
  <2> QED
    BY <1>11, <1>0, <2>1 DEF WeldingDetection, TypeOK
<1>12. ASSUME NEW sid \in SessionIds \cup {NoId}, SessionStop(sid)
      PROVE  Inv'
  <2>1. /\ phase = "open"
        /\ st \in {"PowerDelivery", "WeldingDetection", "SessionStop"}
    BY <1>12, EndArrivals DEF SessionStop
  <2> QED
    BY <1>12, <1>0, <2>1 DEF SessionStop, TypeOK
<1>13. ASSUME NEW sid \in SessionIds \cup {NoId}, NEW type \in States,
              Refuse(type, sid)
      PROVE  Inv'
  BY <1>13, <1>0 DEF Refuse
<1>14. CASE BreakOff
  BY <1>14, <1>0 DEF BreakOff, Abort
<1>15. CASE SequenceTimeout
  BY <1>15, <1>0 DEF SequenceTimeout, Abort
<1>16. CASE EvFallsSilent
  BY <1>16, <1>0 DEF EvFallsSilent
<1>17. CASE EndSession
  BY <1>17, <1>0 DEF EndSession
<1>18. CASE CloseConnection
  BY <1>18, <1>0 DEF CloseConnection
<1>19. CASE UNCHANGED vars
  BY <1>19, <1>0 DEF vars
<1> HIDE DEF Inv
<1> QED
  BY <1>1, <1>2, <1>3, <1>4, <1>5, <1>6, <1>7, <1>8, <1>9, <1>10,
      <1>11, <1>12, <1>13, <1>14, <1>15, <1>16, <1>17, <1>18, <1>19
  DEF Next, Handle

\* The inductive invariant holds in every reachable state.
THEOREM InvCorrect == Spec => []Inv
  BY InvInit, InvStep, PTL DEF Spec

\* Authorization, isolation test and HLC charging precede power, and every way to
\* end a session turns the charger off and names the right reason.
THEOREM PowerTested == Spec => []PowerAfterTests
<1>1. Inv => PowerAfterTests
  BY DEF Inv
<1> QED
  BY <1>1, InvCorrect, PTL

-----------------------------------------------------------------------------
(* The SECC: the refinement of ChargingSession.                            *)

\* Every step is one of the charging session, or leaves it alone.
LEMMA SessionStep == Inv /\ [Next]_vars => [Session!Next]_(Session!vars)
<1> SUFFICES ASSUME Inv, [Next]_vars PROVE [Session!Next]_(Session!vars)
  OBVIOUS
<1> USE DEF Stage, Stay, Goto, Stopping, Halt, Own, power, history, SetupStates,
            Session!vars, Session!Next, Session!Authorize, Session!Deliver,
            Session!Energise, Session!Renegotiate, Session!Test,
            Session!Finish, Session!Close, Session!Reopen
<1>0. /\ phase # "open" => charger = "off"
      /\ phase = "open" /\ charger = "charging" => st = "CurrentDemand"
  BY DEF Inv, TypeOK, States, Decided, Tested, Announced, Unended,
         PowerAfterTests, SetupStates, Flagged
<1>1. ASSUME NEW b \in BOOLEAN, SupportedAppProtocol(b)
      PROVE  [Session!Next]_(Session!vars)
  <2>1. phase = "open" /\ st = "SupportedAppProtocol"
    BY <1>1, OwnArrivals DEF SupportedAppProtocol
  <2> QED
    BY <1>1, <1>0, <2>1 DEF SupportedAppProtocol
<1>2. ASSUME NEW sid \in SessionIds \cup {NoId}, NEW new \in SessionIds,
              SessionSetup(sid, new)
      PROVE  [Session!Next]_(Session!vars)
  <2>1. phase = "open" /\ st = "SessionSetup"
    BY <1>2, OwnArrivals DEF SessionSetup
  <2> QED
    BY <1>2, <1>0, <2>1 DEF SessionSetup
<1>3. ASSUME NEW sid \in SessionIds \cup {NoId}, ServiceDiscovery(sid)
      PROVE  [Session!Next]_(Session!vars)
  <2>1. phase = "open" /\ st = "ServiceDiscovery"
    BY <1>3, OwnArrivals DEF ServiceDiscovery
  <2> QED
    BY <1>3, <1>0, <2>1 DEF ServiceDiscovery
<1>4. ASSUME NEW sid \in SessionIds \cup {NoId}, NEW eim \in BOOLEAN,
              NEW services \in BOOLEAN,
              ServicePaymentSelection(sid, eim, services)
      PROVE  [Session!Next]_(Session!vars)
  <2>1. phase = "open" /\ st = "ServicePaymentSelection"
    BY <1>4, OwnArrivals DEF ServicePaymentSelection
  <2> QED
    BY <1>4, <1>0, <2>1 DEF ServicePaymentSelection
<1>5. ASSUME NEW sid \in SessionIds \cup {NoId}, NEW answer \in Answers,
              ContractAuthentication(sid, answer)
      PROVE  [Session!Next]_(Session!vars)
  <2>1. phase = "open" /\ st = "ContractAuthentication"
    BY <1>5, OwnArrivals DEF ContractAuthentication
  <2> QED
    BY <1>5, <1>0, <2>1 DEF ContractAuthentication
<1>6. ASSUME NEW sid \in SessionIds \cup {NoId}, NEW supported \in BOOLEAN,
              NEW scheduled \in BOOLEAN,
              ChargeParameterDiscovery(sid, supported, scheduled)
      PROVE  [Session!Next]_(Session!vars)
  <2>1. phase = "open" /\ st = "ChargeParameterDiscovery"
    BY <1>6, OwnArrivals DEF ChargeParameterDiscovery
  <2> QED
    BY <1>6, <1>0, <2>1 DEF ChargeParameterDiscovery
<1>7. ASSUME NEW sid \in SessionIds \cup {NoId}, NEW evError \in BOOLEAN,
              NEW contactor \in {"closed", "open", "unknown"},
              NEW isolation \in {"valid", "fault", "pending"},
              CableCheck(sid, evError, contactor, isolation)
      PROVE  [Session!Next]_(Session!vars)
  <2>1. phase = "open" /\ st = "CableCheck"
    BY <1>7, OwnArrivals DEF CableCheck
  <2> QED
    BY <1>7, <1>0, <2>1 DEF CableCheck
<1>8. ASSUME NEW sid \in SessionIds \cup {NoId}, NEW fault \in BOOLEAN,
              PreCharge(sid, fault)
      PROVE  [Session!Next]_(Session!vars)
  <2>1. phase = "open" /\ st = "PreCharge"
    BY <1>8, OwnArrivals DEF PreCharge
  <2> QED
    BY <1>8, <1>0, <2>1 DEF PreCharge
<1>9. ASSUME NEW sid \in SessionIds \cup {NoId},
              NEW ready_to_charge \in BOOLEAN, NEW opened \in BOOLEAN,
              PowerDelivery(sid, ready_to_charge, opened)
      PROVE  [Session!Next]_(Session!vars)
  <2>1. phase = "open" /\ st \in {"PreCharge", "PowerDelivery", "CurrentDemand"}
    BY <1>9, PowerArrivals DEF PowerDelivery
  <2> QED
    BY <1>9, <1>0, <2>1 DEF PowerDelivery
<1>10. ASSUME NEW sid \in SessionIds \cup {NoId}, NEW commandOk \in BOOLEAN,
              CurrentDemand(sid, commandOk)
      PROVE  [Session!Next]_(Session!vars)
  <2>1. phase = "open" /\ st = "CurrentDemand"
    BY <1>10, OwnArrivals DEF CurrentDemand
  <2> QED
    BY <1>10, <1>0, <2>1 DEF CurrentDemand
<1>11. ASSUME NEW sid \in SessionIds \cup {NoId}, WeldingDetection(sid)
      PROVE  [Session!Next]_(Session!vars)
  <2>1. /\ phase = "open"
        /\ st \in {"PowerDelivery", "WeldingDetection", "SessionStop"}
    BY <1>11, EndArrivals DEF WeldingDetection
  <2> QED
    BY <1>11, <1>0, <2>1 DEF WeldingDetection
<1>12. ASSUME NEW sid \in SessionIds \cup {NoId}, SessionStop(sid)
      PROVE  [Session!Next]_(Session!vars)
  <2>1. /\ phase = "open"
        /\ st \in {"PowerDelivery", "WeldingDetection", "SessionStop"}
    BY <1>12, EndArrivals DEF SessionStop
  <2> QED
    BY <1>12, <1>0, <2>1 DEF SessionStop
<1>13. ASSUME NEW sid \in SessionIds \cup {NoId}, NEW type \in States,
              Refuse(type, sid)
      PROVE  [Session!Next]_(Session!vars)
  BY <1>13, <1>0 DEF Refuse
<1>14. CASE BreakOff
  BY <1>14, <1>0 DEF BreakOff, Abort
<1>15. CASE SequenceTimeout
  BY <1>15, <1>0 DEF SequenceTimeout, Abort
<1>16. CASE EvFallsSilent
  BY <1>16, <1>0 DEF EvFallsSilent
<1>17. CASE EndSession
  BY <1>17, <1>0 DEF EndSession
<1>18. CASE CloseConnection
  BY <1>18, <1>0 DEF CloseConnection
<1>19. CASE UNCHANGED vars
  BY <1>19, <1>0 DEF vars
<1> HIDE DEF Stage, Session!vars, Session!Next
<1> QED
  BY <1>1, <1>2, <1>3, <1>4, <1>5, <1>6, <1>7, <1>8, <1>9, <1>10,
      <1>11, <1>12, <1>13, <1>14, <1>15, <1>16, <1>17, <1>18, <1>19
  DEF Next, Handle

\* The state machine of the SECC implements the charging session.
THEOREM SessionImplemented == Spec => ImplementsSession
<1>1. Init => Session!Init
  BY DEF Init, Session!Init, Stage, SetupStates
<1> QED
  BY <1>1, SessionStep, InvCorrect, PTL DEF Spec, ImplementsSession, Session!Spec

-----------------------------------------------------------------------------
(* The EVCC: the inductive invariant and its proof.                        *)

\* The states between the authorization and the commands to the vehicle.
BeforeParameters == SetupEV \ {"ChargeParameterDiscovery"}

\* An open session is past the authorization exactly when it was finished.
AuthorizedStates ==
    life = "open" => authorized = (current \notin BeforeParameters)

\* A session that still runs has not been reported as a success.
Unreported == life = "open" => ~success

\* A request to stop charging follows a command to the controller.
HaltedStop == life = "open" /\ current = "PowerDelivery" /\ ~ready => halted

InvEV == /\ TypeOKEV
         /\ EnabledInSession /\ AuthorizedStates
         /\ Unreported /\ HaltedStop

\* The initial state satisfies the invariant.
LEMMA InvInitEV == InitEV => InvEV
  BY DEF InitEV, InvEV, TypeOKEV, EnabledInSession, AuthorizedStates, Unreported,
     HaltedStop, BeforeParameters, StatesEV, SetupEV

\* Every step keeps the types.
LEMMA TypeStepEV == TypeOKEV /\ [NextEV]_varsEV => TypeOKEV'
<1> SUFFICES ASSUME TypeOKEV, [NextEV]_varsEV PROVE TypeOKEV'
  OBVIOUS
<1> USE DEF Answered, Matches, Reads, Request, GiveUp, asking, commands, TypeOKEV,
      StatesEV, SetupEV
<1>1. ASSUME NEW known \in BOOLEAN, SupportedAppProtocolRes(known)
      PROVE  TypeOKEV'
  BY <1>1 DEF SupportedAppProtocolRes
<1>2. ASSUME NEW sid \in Ids \cup {ZeroId}, SessionSetupRes(sid)
      PROVE  TypeOKEV'
  BY <1>2 DEF SessionSetupRes
<1>3. ASSUME NEW sid \in Ids \cup {ZeroId}, NEW usable \in BOOLEAN,
              ServiceDiscoveryRes(sid, usable)
      PROVE  TypeOKEV'
  BY <1>3 DEF ServiceDiscoveryRes
<1>4. ASSUME NEW sid \in Ids \cup {ZeroId}, ServicePaymentSelectionRes(sid)
      PROVE  TypeOKEV'
  BY <1>4 DEF ServicePaymentSelectionRes
<1>5. ASSUME NEW sid \in Ids \cup {ZeroId}, NEW finished \in BOOLEAN,
              ContractAuthenticationRes(sid, finished)
      PROVE  TypeOKEV'
  BY <1>5 DEF ContractAuthenticationRes, Ongoing, AskAgain
<1>6. ASSUME NEW sid \in Ids \cup {ZeroId}, NEW finished \in BOOLEAN,
              ChargeParameterDiscoveryRes(sid, finished)
      PROVE  TypeOKEV'
  BY <1>6 DEF ChargeParameterDiscoveryRes, Ongoing, AskAgain
<1>7. ASSUME NEW sid \in Ids \cup {ZeroId}, NEW finished \in BOOLEAN,
              NEW safe \in BOOLEAN, CableCheckRes(sid, finished, safe)
      PROVE  TypeOKEV'
  BY <1>7 DEF CableCheckRes, Ongoing, AskAgain
<1>8. ASSUME NEW sid \in Ids \cup {ZeroId}, NEW precharged \in BOOLEAN,
              PreChargeRes(sid, precharged)
      PROVE  TypeOKEV'
  BY <1>8 DEF PreChargeRes, PowerDeliveryReq, Ongoing, AskAgain
<1>9. ASSUME NEW sid \in Ids \cup {ZeroId}, NEW going \in BOOLEAN,
              PowerDeliveryRes(sid, going)
      PROVE  TypeOKEV'
  BY <1>9 DEF PowerDeliveryRes
<1>10. ASSUME NEW sid \in Ids \cup {ZeroId}, NEW evseReady \in BOOLEAN,
              NEW going \in BOOLEAN, CurrentDemandRes(sid, evseReady, going)
      PROVE  TypeOKEV'
  BY <1>10 DEF CurrentDemandRes, PowerDeliveryReq, AskAgain
<1>11. ASSUME NEW sid \in Ids \cup {ZeroId}, NEW finished \in BOOLEAN,
              WeldingDetectionRes(sid, finished)
      PROVE  TypeOKEV'
  BY <1>11 DEF WeldingDetectionRes, Ongoing, AskAgain
<1>12. ASSUME NEW sid \in Ids \cup {ZeroId}, SessionStopRes(sid)
      PROVE  TypeOKEV'
  BY <1>12 DEF SessionStopRes
<1>13. ASSUME NEW sid \in Ids \cup {ZeroId}, NEW type \in StatesEV,
              NEW ok \in BOOLEAN, RefuseEV(type, ok, sid)
      PROVE  TypeOKEV'
  BY <1>13 DEF RefuseEV
<1>14. CASE AbortEV
  BY <1>14 DEF AbortEV
<1>15. CASE TimeoutEV
  BY <1>15 DEF TimeoutEV
<1>16. CASE Arrive
  BY <1>16 DEF Arrive
<1>17. CASE TimerExpires
  BY <1>17 DEF TimerExpires
<1>18. CASE Disable
  BY <1>18 DEF Disable
<1>19. CASE Close
  BY <1>19 DEF Close
<1>20. CASE UNCHANGED varsEV
  BY <1>20 DEF varsEV
<1> HIDE DEF TypeOKEV
<1> QED
  BY <1>1, <1>2, <1>3, <1>4, <1>5, <1>6, <1>7, <1>8, <1>9, <1>10,
      <1>11, <1>12, <1>13, <1>14, <1>15, <1>16, <1>17, <1>18, <1>19, <1>20
  DEF NextEV, Turn, Process

\* Every variable keeps its type, for any identifiers.
THEOREM TypeCorrectEV == SpecEV => []TypeOKEV
<1>1. InitEV => TypeOKEV
  BY InvInitEV DEF InvEV
<1> QED
  BY <1>1, TypeStepEV, PTL DEF SpecEV

\* The parts of the invariant besides the types.
Enabling == EnabledInSession /\ AuthorizedStates /\ Unreported /\ HaltedStop

\* Every step keeps them.
LEMMA EnablingStep == InvEV /\ [NextEV]_varsEV => Enabling'
<1> SUFFICES ASSUME InvEV, [NextEV]_varsEV PROVE Enabling'
  OBVIOUS
<1>0. TypeOKEV
  BY DEF InvEV
<1> USE <1>0 DEF Answered, Matches, Reads, Request, GiveUp, asking, commands,
      InvEV, TypeOKEV, Enabling, EnabledInSession, AuthorizedStates, Unreported,
      HaltedStop, BeforeParameters, SetupEV
<1>1. ASSUME NEW known \in BOOLEAN, SupportedAppProtocolRes(known)
      PROVE  Enabling'
  BY <1>1 DEF SupportedAppProtocolRes
<1>2. ASSUME NEW sid \in Ids \cup {ZeroId}, SessionSetupRes(sid)
      PROVE  Enabling'
  BY <1>2 DEF SessionSetupRes
<1>3. ASSUME NEW sid \in Ids \cup {ZeroId}, NEW usable \in BOOLEAN,
              ServiceDiscoveryRes(sid, usable)
      PROVE  Enabling'
  BY <1>3 DEF ServiceDiscoveryRes
<1>4. ASSUME NEW sid \in Ids \cup {ZeroId}, ServicePaymentSelectionRes(sid)
      PROVE  Enabling'
  BY <1>4 DEF ServicePaymentSelectionRes
<1>5. ASSUME NEW sid \in Ids \cup {ZeroId}, NEW finished \in BOOLEAN,
              ContractAuthenticationRes(sid, finished)
      PROVE  Enabling'
  BY <1>5 DEF ContractAuthenticationRes, Ongoing, AskAgain
<1>6. ASSUME NEW sid \in Ids \cup {ZeroId}, NEW finished \in BOOLEAN,
              ChargeParameterDiscoveryRes(sid, finished)
      PROVE  Enabling'
  BY <1>6 DEF ChargeParameterDiscoveryRes, Ongoing, AskAgain
<1>7. ASSUME NEW sid \in Ids \cup {ZeroId}, NEW finished \in BOOLEAN,
              NEW safe \in BOOLEAN, CableCheckRes(sid, finished, safe)
      PROVE  Enabling'
  BY <1>7 DEF CableCheckRes, Ongoing, AskAgain
<1>8. ASSUME NEW sid \in Ids \cup {ZeroId}, NEW precharged \in BOOLEAN,
              PreChargeRes(sid, precharged)
      PROVE  Enabling'
  BY <1>8 DEF PreChargeRes, PowerDeliveryReq, Ongoing, AskAgain
<1>9. ASSUME NEW sid \in Ids \cup {ZeroId}, NEW going \in BOOLEAN,
              PowerDeliveryRes(sid, going)
      PROVE  Enabling'
  BY <1>9 DEF PowerDeliveryRes
<1>10. ASSUME NEW sid \in Ids \cup {ZeroId}, NEW evseReady \in BOOLEAN,
              NEW going \in BOOLEAN, CurrentDemandRes(sid, evseReady, going)
      PROVE  Enabling'
  BY <1>10 DEF CurrentDemandRes, PowerDeliveryReq, AskAgain
<1>11. ASSUME NEW sid \in Ids \cup {ZeroId}, NEW finished \in BOOLEAN,
              WeldingDetectionRes(sid, finished)
      PROVE  Enabling'
  BY <1>11 DEF WeldingDetectionRes, Ongoing, AskAgain
<1>12. ASSUME NEW sid \in Ids \cup {ZeroId}, SessionStopRes(sid)
      PROVE  Enabling'
  BY <1>12 DEF SessionStopRes
<1>13. ASSUME NEW sid \in Ids \cup {ZeroId}, NEW type \in StatesEV,
              NEW ok \in BOOLEAN, RefuseEV(type, ok, sid)
      PROVE  Enabling'
  BY <1>13 DEF RefuseEV
<1>14. CASE AbortEV
  <2>1. life' = "stopping" /\ authorized' = authorized /\ success' = FALSE
    BY <1>14 DEF AbortEV
  <2>2. life = "open" /\ (current = "ChargeParameterDiscovery" => authorized)
    BY <1>14 DEF AbortEV
  <2>3. CASE enabled' = enabled
    BY <2>1, <2>3
  <2>4. CASE current = "ChargeParameterDiscovery"
    BY <2>1, <2>2, <2>4
  <2>5. CASE enabled' = FALSE
    BY <2>1, <2>5
  <2> QED
    BY <1>14, <2>3, <2>4, <2>5 DEF AbortEV
<1>15. CASE TimeoutEV
  BY <1>15 DEF TimeoutEV
<1>16. CASE Arrive
  BY <1>16 DEF Arrive
<1>17. CASE TimerExpires
  BY <1>17 DEF TimerExpires
<1>18. CASE Disable
  BY <1>18 DEF Disable
<1>19. CASE Close
  BY <1>19 DEF Close
<1>20. CASE UNCHANGED varsEV
  BY <1>20 DEF varsEV
<1> HIDE DEF InvEV, Enabling
<1> QED
  BY <1>1, <1>2, <1>3, <1>4, <1>5, <1>6, <1>7, <1>8, <1>9, <1>10,
      <1>11, <1>12, <1>13, <1>14, <1>15, <1>16, <1>17, <1>18, <1>19, <1>20
  DEF NextEV, Turn, Process

\* The inductive invariant holds in every reachable state.
THEOREM InvCorrectEV == SpecEV => []InvEV
<1>1. InvEV /\ [NextEV]_varsEV => InvEV'
  BY TypeStepEV, EnablingStep DEF InvEV, Enabling
<1> QED
  BY <1>1, InvInitEV, PTL DEF SpecEV

\* Charging is enabled exactly from the parameters to the tests of the end, only
\* after the authorization, and not when the connection closes.
THEOREM EnabledOnlyInSession == SpecEV => []EnabledInSession
<1>1. InvEV => EnabledInSession
  BY DEF InvEV
<1> QED
  BY <1>1, InvCorrectEV, PTL

-----------------------------------------------------------------------------
(* The inductive invariant.                                                *)

\* The reply of this SECC is well formed, and only its EVCC has a request on the
\* wire.
LinkTyped ==
    /\ pair \in {"SECC", "EVCC", "both"} /\ wire \in BOOLEAN
    /\ reply \in [type : StatesEV \cup {"none"}, ok : BOOLEAN,
                  sid : Ids \cup {ZeroId}, moved : BOOLEAN]
    /\ wire => pair = "both"

\* The state of the SECC in which the request of the EVCC finds it.
Expected ==
    IF current = "PowerDelivery"
    THEN st = (IF ready THEN "PreCharge" ELSE "CurrentDemand") /\ inst # "fresh"
    ELSE IF current = "WeldingDetection"
    THEN IF ready THEN st = "CurrentDemand"
         ELSE st \in {"PowerDelivery", "WeldingDetection"} /\ inst # "fresh"
    ELSE IF current = "SessionStop"
    THEN st = "WeldingDetection" /\ inst # "fresh" /\ ~ready
    ELSE st = current

\* The state of the SECC to which a request without a fault has taken it.
Taken ==
    CASE current = "SupportedAppProtocol" -> st \in {current, "SessionSetup"}
      [] current = "SessionSetup" -> st = "ServiceDiscovery"
      [] current = "ServiceDiscovery" -> st = "ServicePaymentSelection"
      [] current = "ServicePaymentSelection" -> st = "ContractAuthentication"
      [] current = "ContractAuthentication" ->
            st \in {current, "ChargeParameterDiscovery"}
      [] current = "ChargeParameterDiscovery" ->
            st = current \/ (st = "CableCheck" /\ inst = "fresh")
      [] current = "CableCheck" -> st \in {current, "PreCharge"}
      [] current = "PowerDelivery" ->
            IF ready THEN st = "CurrentDemand"
            ELSE st = "PowerDelivery" /\ inst # "fresh"
      [] current = "SessionStop" -> st = current /\ phase # "open" /\ ~ready
      [] current = "WeldingDetection" -> st = current /\ inst # "fresh" /\ ~ready
      [] OTHER -> st = current /\ inst # "fresh"

\* Request and response alternate as long as the EVCC takes part.
InStep ==
    pair = "both" /\ life = "open" =>
        IF wire THEN ~arrived /\ (phase = "open" => Expected)
        ELSE /\ arrived /\ reply.type = current /\ reply.sid = sessionId
             /\ reply.moved = (st # current)
             /\ IF reply.ok THEN Taken ELSE phase # "open"

\* Once a session has been set up, both sides name the same one.
SameSession ==
    pair = "both" /\ current \notin {"SupportedAppProtocol", "SessionSetup"} =>
        evId = sessionId /\ st \notin {"SupportedAppProtocol", "SessionSetup"}

\* What the SECC has refused was no request of another session, and ends it.
Refused ==
    pair = "both" =>
        /\ res # "FAILED_UnknownSession"
        /\ res = "FAILED_SequenceError" =>
             /\ phase # "open"
             /\ life = "open" => /\ ~wire /\ ~reply.ok
                                 /\ st = "CurrentDemand" /\ ready
                                 /\ current = "WeldingDetection"
        /\ success => phase # "open" /\ st = "SessionStop"

Fit == LinkTyped /\ InStep /\ SameSession /\ Refused

LinkInv == Inv /\ InvEV /\ Fit

\* The identifiers of the two sides are the same.
LEMMA SameIds == SessionIds \cup {NoId} = Ids \cup {ZeroId}
  BY DinLinkAssumption

\* The initial state satisfies the invariant.
LEMMA LinkInit == InitLink => LinkInv
<1> SUFFICES ASSUME InitLink PROVE LinkInv
  OBVIOUS
<1>1. Inv /\ InvEV
  BY InvInit, InvInitEV DEF InitLink
<1>2. LinkTyped
  BY DinLinkAssumption DEF InitLink, LinkTyped, NoReply
<1>3. InStep
  BY DEF InitLink, InStep, Init, InitEV, Expected
<1>4. SameSession /\ Refused
  BY DEF InitLink, Init, InitEV, SameSession, Refused
<1> QED
  BY <1>1, <1>2, <1>3, <1>4 DEF LinkInv, Fit

-----------------------------------------------------------------------------
(* Every step of the pair is a step of either side, or leaves it alone.    *)

\* What the SECC serves is a request of any EVCC.
LEMMA ServesHandles == InvEV /\ (Serves \/ Refuse(current, evId)) => [Next]_vars
<1> SUFFICES ASSUME InvEV, Serves \/ Refuse(current, evId) PROVE Handle(evId)
  BY SameIds DEF Next, InvEV, TypeOKEV
<1>1. current \in States
  BY DEF InvEV, TypeOKEV, StatesEV, SetupEV, States, SetupStates
<1>2. CASE current = "ServicePaymentSelection"
           /\ ServicePaymentSelection(evId, TRUE, TRUE)
  BY <1>2 DEF Handle
<1>3. ASSUME NEW opened \in BOOLEAN, PowerDelivery(evId, ready, opened)
      PROVE  Handle(evId)
  <2>1. ready \in BOOLEAN
    BY DEF InvEV, TypeOKEV
  <2> QED
    BY <1>3, <2>1 DEF Handle
<1>4. CASE /\ current \in {"SupportedAppProtocol", "SessionSetup",
                         "ServiceDiscovery", "ContractAuthentication"}
           /\ Serves
  BY <1>4 DEF Serves, Handle
<1>5. CASE current \in {"ChargeParameterDiscovery", "CableCheck", "PreCharge"}
           /\ Serves
  BY <1>5 DEF Serves, Handle
<1>6. CASE current \in {"CurrentDemand", "WeldingDetection", "SessionStop"}
           /\ Serves
  BY <1>6 DEF Serves, Handle
<1>7. CASE Refuse(current, evId)
  BY <1>1, <1>7 DEF Handle
<1> QED
  BY <1>2, <1>3, <1>4, <1>5, <1>6, <1>7 DEF Serves

\* What the EVCC processes is a response of any SECC.
LEMMA ProcessesTurns ==
    ASSUME InvEV, LinkTyped, InStep, pair = "both",
           \/ Processes(reply)
           \/ RefuseEV(reply.type, reply.ok, reply.sid)
    PROVE  Turn
<1>1. /\ reply.sid \in Ids \cup {ZeroId}
      /\ reply.ok \in BOOLEAN /\ reply.moved \in BOOLEAN
  BY DEF LinkTyped
<1>2. CASE Processes(reply)
  BY <1>1, <1>2 DEF Processes, Turn, Process
<1>3. CASE RefuseEV(reply.type, reply.ok, reply.sid)
  <2>1. reply.type \in StatesEV
    BY <1>3 DEF RefuseEV, Reads, InStep, InvEV, TypeOKEV
  <2> QED
    BY <1>1, <1>3, <2>1 DEF Turn, Process
<1> QED
  BY <1>2, <1>3

\* The step as the SECC sees it.
LEMMA SeccStep == InvEV /\ [NextLink]_linkVars => [Next]_vars
<1> SUFFICES ASSUME InvEV, [NextLink]_linkVars PROVE [Next]_vars
  OBVIOUS
<1>1. CASE Serve
  BY <1>1, ServesHandles DEF Serve
<1>2. CASE ForeignRequest
  BY <1>2 DEF ForeignRequest, Next
<1>3. CASE SeccGivesUp
  <2>1. CASE BreakOff \/ SequenceTimeout
    BY <2>1 DEF Next
  <2>2. CASE Abort
    BY <2>2 DEF Next, BreakOff, SequenceTimeout
  <2> QED
    BY <1>3, <2>1, <2>2 DEF SeccGivesUp
<1>4. CASE SeccStops
  BY <1>4 DEF SeccStops, Next
<1>5. CASE EvTurn \/ ForeignResponse \/ EvGivesUp \/ EvTime
  BY <1>5 DEF EvTurn, ForeignResponse, EvGivesUp, EvTime
<1>6. CASE UNCHANGED linkVars
  BY <1>6 DEF linkVars
<1> QED
  BY <1>1, <1>2, <1>3, <1>4, <1>5, <1>6 DEF NextLink

\* The step as the EVCC sees it.
LEMMA EvStep == LinkInv /\ [NextLink]_linkVars => [NextEV]_varsEV
<1> SUFFICES ASSUME LinkInv, [NextLink]_linkVars PROVE [NextEV]_varsEV
  OBVIOUS
<1>1. CASE Serve
  BY <1>1 DEF Serve, NextEV
<1>2. CASE ForeignRequest \/ SeccGivesUp \/ SeccStops
  BY <1>2 DEF ForeignRequest, SeccGivesUp, SeccStops
<1>3. CASE EvTurn
  BY <1>3, ProcessesTurns DEF EvTurn, NextEV, Turn, LinkInv, Fit
<1>4. CASE ForeignResponse \/ EvGivesUp \/ EvTime
  BY <1>4 DEF ForeignResponse, EvGivesUp, EvTime, NextEV
<1>5. CASE UNCHANGED linkVars
  BY <1>5 DEF linkVars
<1> QED
  BY <1>1, <1>2, <1>3, <1>4, <1>5 DEF NextLink

-----------------------------------------------------------------------------
(* Requests and responses fit.                                             *)

\* A served request of any EVCC leaves the session its identifier once it has
\* one, and is refused only for the sequence, which ends the session.
KeepsSession ==
    /\ phase = "open"
    /\ current \notin {"SupportedAppProtocol", "SessionSetup"} =>
         /\ sessionId' = sessionId
         /\ st' \notin {"SupportedAppProtocol", "SessionSetup"}
    /\ res' # "FAILED_UnknownSession"
    /\ res' = "FAILED_SequenceError" => phase' # "open"

\* The SECC serves the request it expects, or ends the session.
ServesExpected ==
    Expected =>
        /\ IF res' \in Passes THEN Taken' ELSE phase' # "open"
        /\ res' = "FAILED_SequenceError" =>
             st' = "CurrentDemand" /\ current = "WeldingDetection" /\ ready

\* What the SECC does with the request of the EVCC.
LEMMA Serving ==
    ASSUME Inv, InvEV, SameSession, pair = "both",
           Serves \/ Refuse(current, evId), UNCHANGED <<current, ready>>
    PROVE  KeepsSession /\ ServesExpected
<1> DEFINE Goal == KeepsSession /\ ServesExpected
<1> SUFFICES Goal
  OBVIOUS
<1> USE DEF Stay, Goto, Stopping, Halt, Own, power, history, KeepsSession,
      ServesExpected, Expected, Taken, Passes
<1>0. ready \in BOOLEAN /\ current \in StatesEV
  BY DEF InvEV, TypeOKEV
<1>1. CASE current = "SupportedAppProtocol"
           /\ \E supported \in BOOLEAN : SupportedAppProtocol(supported)
  <2>1. phase = "open" /\ st = current
    BY <1>1, OwnArrivals DEF SupportedAppProtocol, SetupStates
  <2> QED
    BY <1>0, <1>1, <2>1 DEF SupportedAppProtocol
<1>2. CASE current = "SessionSetup"
           /\ \E new \in SessionIds : SessionSetup(evId, new)
  <2>1. phase = "open" /\ st = current
    BY <1>2, OwnArrivals DEF SessionSetup, SetupStates
  <2> QED
    BY <1>0, <1>2, <2>1 DEF SessionSetup
<1>3. CASE current = "ServiceDiscovery"
           /\ ServiceDiscovery(evId)
  <2>1. phase = "open" /\ st = current
    BY <1>3, OwnArrivals DEF ServiceDiscovery, SetupStates
  <2> QED
    BY <1>0, <1>3, <2>1 DEF ServiceDiscovery
<1>4. CASE current = "ServicePaymentSelection"
           /\ ServicePaymentSelection(evId, TRUE, TRUE)
  <2>1. phase = "open" /\ st = current
    BY <1>4, OwnArrivals DEF ServicePaymentSelection, SetupStates
  <2> QED
    BY <1>0, <1>4, <2>1 DEF ServicePaymentSelection
<1>5. CASE current = "ContractAuthentication"
           /\ \E answer \in Answers : ContractAuthentication(evId, answer)
  <2>1. phase = "open" /\ st = current
    BY <1>5, OwnArrivals DEF ContractAuthentication, SetupStates
  <2> QED
    BY <1>0, <1>5, <2>1 DEF ContractAuthentication
<1>6. CASE current = "ChargeParameterDiscovery"
           /\ \E supported, scheduled \in BOOLEAN :
               ChargeParameterDiscovery(evId, supported, scheduled)
  <2>1. phase = "open" /\ st = current
    BY <1>6, OwnArrivals DEF ChargeParameterDiscovery, SetupStates
  <2> QED
    BY <1>0, <1>6, <2>1 DEF ChargeParameterDiscovery
<1>7. CASE current = "CableCheck"
           /\ \E evError \in BOOLEAN, contactor \in {"closed", "open", "unknown"},
                isolation \in {"valid", "fault", "pending"} :
               CableCheck(evId, evError, contactor, isolation)
  <2>1. phase = "open" /\ st = current
    BY <1>7, OwnArrivals DEF CableCheck, SetupStates
  <2> QED
    BY <1>0, <1>7, <2>1 DEF CableCheck
<1>8. CASE current = "PreCharge"
           /\ \E fault \in BOOLEAN : PreCharge(evId, fault)
  <2>1. phase = "open" /\ st = current
    BY <1>8, OwnArrivals DEF PreCharge, SetupStates
  <2> QED
    BY <1>0, <1>8, <2>1 DEF PreCharge
<1>9. CASE current = "PowerDelivery"
           /\ \E opened \in BOOLEAN : PowerDelivery(evId, ready, opened)
  <2>1. phase = "open" /\ st \in {"PreCharge", "PowerDelivery", "CurrentDemand"}
    BY <1>9, PowerArrivals DEF PowerDelivery
  <2> QED
    BY <1>0, <1>9, <2>1 DEF PowerDelivery, Inv, Unended, TypeOK
<1>10. CASE current = "CurrentDemand"
           /\ \E commandOk \in BOOLEAN : CurrentDemand(evId, commandOk)
  <2>1. phase = "open" /\ st = current
    BY <1>10, OwnArrivals DEF CurrentDemand, SetupStates
  <2> QED
    BY <1>0, <1>10, <2>1 DEF CurrentDemand
<1>11. CASE current = "WeldingDetection"
           /\ WeldingDetection(evId)
  <2>1. /\ phase = "open"
        /\ st \in {"PowerDelivery", "WeldingDetection", "SessionStop"}
    BY <1>11, EndArrivals DEF WeldingDetection
  <2> QED
    BY <1>0, <1>11, <2>1 DEF WeldingDetection, Inv, Unended, TypeOK
<1>12. CASE current = "SessionStop"
           /\ SessionStop(evId)
  <2>1. /\ phase = "open"
        /\ st \in {"PowerDelivery", "WeldingDetection", "SessionStop"}
    BY <1>12, EndArrivals DEF SessionStop
  <2> QED
    BY <1>0, <1>12, <2>1 DEF SessionStop, Inv, Unended, TypeOK
<1>13. CASE Refuse(current, evId)
  <2>1. phase = "open" /\ ~Accepts(current, evId) /\ ~silent /\ st' = st
    BY <1>13 DEF Refuse
  <2>2. current \notin Accepted \/ evId # sessionId
    BY <2>1 DEF Accepts
  <2>3. current \notin {"SupportedAppProtocol", "SessionSetup"} =>
          evId = sessionId
    BY DEF SameSession
  <2>4. current \in {"SupportedAppProtocol", "SessionSetup"} =>
          current \notin Accepted
    BY <2>1 DEF Accepts
  <2>5. current \notin Accepted
    BY <2>2, <2>3, <2>4
  <2>6. Expected =>
          st = "CurrentDemand" /\ current = "WeldingDetection" /\ ready
    <3>1. current \in States
      BY <1>0 DEF StatesEV, SetupEV, States, SetupStates
    <3> QED
      BY <2>5, <3>1, <1>0 DEF Accepted, Flagged, Lists
  <2> QED
    BY <1>13, <2>1, <2>3, <2>5, <2>6 DEF Refuse, SameSession
<1> HIDE DEF Goal
<1> QED
  BY <1>1, <1>2, <1>3, <1>4, <1>5, <1>6, <1>7, <1>8, <1>9, <1>10, <1>11, <1>12,
     <1>13 DEF Serves

\* The EVCC asks for what the SECC has got to, or gives up; and it reports as a
\* success what the SECC has ended by its SessionStopReq.
AsksExpected ==
    /\ ~arrived'
    /\ life' = "open" /\ phase = "open" => Expected'
    /\ current' \notin {"SupportedAppProtocol", "SessionSetup"} =>
         evId' = sessionId /\ st \notin {"SupportedAppProtocol", "SessionSetup"}
    /\ success' => phase # "open" /\ st = "SessionStop"

\* What the EVCC does with a response that is without a fault.
LEMMA Processing ==
    ASSUME Inv, InvEV, SameSession, pair = "both",
           life = "open", reply.ok, reply.type = current, reply.sid = sessionId,
           reply.moved = (st # current), Taken,
           Processes(reply), UNCHANGED <<st, inst, phase>>
    PROVE  AsksExpected
<1> DEFINE Goal == AsksExpected
<1> SUFFICES Goal
  OBVIOUS
<1> USE DEF Answered, Matches, Reads, Request, GiveUp, asking, commands,
      AsksExpected, Expected, Taken, SameSession
<1>0. ~success /\ ready \in BOOLEAN
  BY DEF InvEV, TypeOKEV, Unreported
<1>1. CASE SupportedAppProtocolRes(reply.moved)
  BY <1>0, <1>1 DEF SupportedAppProtocolRes
<1>2. CASE SessionSetupRes(reply.sid)
  BY <1>0, <1>2 DEF SessionSetupRes
<1>3. ASSUME NEW usable \in BOOLEAN, ServiceDiscoveryRes(reply.sid, usable)
      PROVE  Goal
  BY <1>0, <1>3 DEF ServiceDiscoveryRes
<1>4. CASE ServicePaymentSelectionRes(reply.sid)
  BY <1>0, <1>4 DEF ServicePaymentSelectionRes
<1>5. CASE ContractAuthenticationRes(reply.sid, reply.moved)
  BY <1>0, <1>5 DEF ContractAuthenticationRes, Ongoing, AskAgain
<1>6. CASE ChargeParameterDiscoveryRes(reply.sid, reply.moved)
  BY <1>0, <1>6 DEF ChargeParameterDiscoveryRes, Ongoing, AskAgain
<1>7. ASSUME NEW safe \in BOOLEAN,
              CableCheckRes(reply.sid, reply.moved, safe)
      PROVE  Goal
  BY <1>0, <1>7 DEF CableCheckRes, Ongoing, AskAgain
<1>8. ASSUME NEW precharged \in BOOLEAN, PreChargeRes(reply.sid, precharged)
      PROVE  Goal
  BY <1>0, <1>8 DEF PreChargeRes, Ongoing, AskAgain, PowerDeliveryReq
<1>9. ASSUME NEW going \in BOOLEAN, halted => ~going,
              PowerDeliveryRes(reply.sid, going)
      PROVE  Goal
  BY <1>0, <1>9 DEF PowerDeliveryRes, HaltedStop, InvEV
<1>10. ASSUME NEW evseReady \in BOOLEAN, NEW going \in BOOLEAN,
              CurrentDemandRes(reply.sid, evseReady, going)
      PROVE  Goal
  BY <1>0, <1>10 DEF CurrentDemandRes, AskAgain, PowerDeliveryReq
<1>11. ASSUME NEW finished \in BOOLEAN,
              WeldingDetectionRes(reply.sid, finished)
      PROVE  Goal
  BY <1>0, <1>11 DEF WeldingDetectionRes, Ongoing, AskAgain
<1>12. CASE SessionStopRes(reply.sid)
  BY <1>0, <1>12 DEF SessionStopRes
<1> HIDE DEF Goal
<1> QED
  BY <1>1, <1>2, <1>3, <1>4, <1>5, <1>6, <1>7, <1>8, <1>9, <1>10, <1>11, <1>12
  DEF Processes

-----------------------------------------------------------------------------
(* Every step of the pair keeps what the two sides know of each other.     *)

\* The EVCC gives up; what it has sent may still be served.
LEMMA GivingUp ==
    ASSUME Inv, InvEV, Fit,
           life' # "open", ~success', reply' \in {reply, NoReply},
           wire' \in BOOLEAN, wire' => pair = "both",
           UNCHANGED <<vars, current, evId, pair>>
    PROVE  Fit'
<1>1. LinkTyped'
  <2>1. NoReply \in [type : StatesEV \cup {"none"}, ok : BOOLEAN,
                     sid : Ids \cup {ZeroId}, moved : BOOLEAN]
    BY DinLinkAssumption DEF NoReply
  <2>2. reply' \in [type : StatesEV \cup {"none"}, ok : BOOLEAN,
                    sid : Ids \cup {ZeroId}, moved : BOOLEAN]
    BY <2>1 DEF Fit, LinkTyped
  <2> QED
    BY <2>2 DEF Fit, LinkTyped
<1>2. InStep' /\ SameSession' /\ Refused'
  BY DEF Fit, InStep, SameSession, Refused, vars
<1> QED
  BY <1>1, <1>2 DEF Fit

\* A step of the SECC without a request leaves the EVCC waiting.
LEMMA SeccAlone ==
    ASSUME Fit, phase' # "open", st' = st, inst' = inst, sessionId' = sessionId,
           res' \in {res, "none"}, UNCHANGED <<varsEV, pair, wire, reply>>
    PROVE  Fit'
<1>1. LinkTyped'
  BY DEF Fit, LinkTyped
<1>2. InStep'
  BY DEF Fit, InStep, Taken, varsEV, asking
<1>3. SameSession' /\ Refused'
  BY DEF Fit, SameSession, Refused, varsEV, asking
<1> QED
  BY <1>1, <1>2, <1>3 DEF Fit

\* Every step keeps the relation between the two sides.
LEMMA FitStep == LinkInv /\ [NextLink]_linkVars => Fit'
<1> SUFFICES ASSUME LinkInv, [NextLink]_linkVars PROVE Fit'
  OBVIOUS
<1>0. Inv /\ InvEV /\ Fit /\ LinkTyped /\ InStep /\ SameSession /\ Refused
  BY DEF LinkInv, Fit
<1> USE <1>0
<1>1. CASE Serve
  <2>1. /\ pair = "both" /\ wire /\ wire' = FALSE /\ pair' = pair
        /\ UNCHANGED <<asking, life, success, evId, ready>>
    BY <1>1 DEF Serve, Arrive, varsEV
  <2>2. KeepsSession /\ ServesExpected
    BY <1>1, <2>1, Serving DEF Serve, asking
  <2>3. SameSession' /\ (success' => phase' # "open" /\ st' = "SessionStop")
    BY <2>1, <2>2 DEF SameSession, KeepsSession, Refused, asking
  <2>4. CASE life = "open"
    <3>1. reply' = [type |-> current, ok |-> res' \in Passes,
                    sid |-> sessionId', moved |-> st' # current]
          /\ arrived'
      BY <1>1, <2>4 DEF Serve, Arrive
    <3>2. Expected
      BY <2>1, <2>2, <2>4 DEF InStep, KeepsSession
    <3>3. InStep'
      BY <2>1, <2>2, <3>1, <3>2 DEF InStep, ServesExpected, asking
    <3>4. LinkTyped'
      <4>1. sessionId' \in Ids \cup {ZeroId} /\ current \in StatesEV
        <5>1. TypeOK'
          BY <1>1, ServesHandles, TypeStep DEF Serve, Inv
        <5> QED
          BY <5>1, SameIds DEF TypeOK, InvEV, TypeOKEV
      <4>2. (res' \in Passes) \in BOOLEAN /\ (st' # current) \in BOOLEAN
        OBVIOUS
      <4>3. reply' \in [type : StatesEV \cup {"none"}, ok : BOOLEAN,
                        sid : Ids \cup {ZeroId}, moved : BOOLEAN]
        BY <3>1, <4>1, <4>2
      <4> QED
        BY <2>1, <4>3 DEF LinkTyped
    <3>5. Refused'
      BY <2>1, <2>2, <2>3, <3>1, <3>2
      DEF Refused, KeepsSession, ServesExpected, Passes, asking
    <3> QED
      BY <2>3, <3>3, <3>4, <3>5 DEF Fit
  <2>5. CASE life # "open"
    <3>1. reply' = reply
      BY <1>1, <2>5 DEF Serve
    <3>2. LinkTyped' /\ InStep'
      BY <2>1, <2>5, <3>1 DEF LinkTyped, InStep
    <3>3. Refused'
      BY <2>1, <2>2, <2>3, <2>5 DEF Refused, KeepsSession
    <3> QED
      BY <2>3, <3>2, <3>3 DEF Fit
  <2> QED
    BY <2>4, <2>5
<1>2. CASE ForeignRequest
  <2>1. pair = "SECC" /\ UNCHANGED <<pair, wire, reply>>
    BY <1>2 DEF ForeignRequest
  <2> QED
    BY <2>1 DEF Fit, LinkTyped, InStep, SameSession, Refused
<1>3. CASE SeccGivesUp
  <2>1. Abort /\ UNCHANGED <<varsEV, pair, wire, reply>>
    BY <1>3 DEF SeccGivesUp, BreakOff, SequenceTimeout
  <2> QED
    BY <2>1, SeccAlone DEF Abort, Stopping, Own
<1>4. CASE SeccStops
  BY <1>4, SeccAlone DEF SeccStops, EndSession, CloseConnection
<1>5. CASE EvTurn
  <2>1. /\ pair = "both" /\ reply' = NoReply /\ UNCHANGED <<vars, pair>>
        /\ life = "open" /\ arrived
    <3>1. \/ Processes(reply)
          \/ RefuseEV(reply.type, reply.ok, reply.sid)
          \/ AbortEV
      BY <1>5 DEF EvTurn
    <3>2. Processes(reply) => life = "open" /\ arrived
      BY DEF Processes, SupportedAppProtocolRes, SessionSetupRes,
         ServiceDiscoveryRes, ServicePaymentSelectionRes,
         ContractAuthenticationRes, ChargeParameterDiscoveryRes, CableCheckRes,
         PreChargeRes, PowerDeliveryRes, CurrentDemandRes, WeldingDetectionRes,
         SessionStopRes, Answered, Reads
    <3> QED
      BY <1>5, <3>1, <3>2 DEF EvTurn, RefuseEV, AbortEV, Reads
  <2>2. /\ reply.type = current /\ reply.sid = sessionId
        /\ reply.moved = (st # current)
        /\ reply.ok => Taken
    BY <2>1 DEF InStep
  <2>3. CASE reply.ok /\ Processes(reply)
                      /\ wire' = (life' = "open" \/ again)
    <3>1. AsksExpected
      BY <2>1, <2>2, <2>3, Processing DEF vars
    <3>2. res # "FAILED_SequenceError"
      BY <2>1, <2>3 DEF Refused
    <3>3. LinkTyped'
      <4>1. (life' = "open" \/ again) \in BOOLEAN
        OBVIOUS
      <4> QED
        BY <2>1, <2>3, <4>1, DinLinkAssumption DEF LinkTyped, NoReply
    <3>4. InStep'
      BY <2>1, <2>3, <3>1 DEF InStep, AsksExpected, vars
    <3>5. SameSession' /\ Refused'
      BY <2>1, <3>1, <3>2 DEF SameSession, Refused, AsksExpected, vars
    <3> QED
      BY <3>3, <3>4, <3>5 DEF Fit
  <2>4. CASE /\ RefuseEV(reply.type, reply.ok, reply.sid)
             /\ wire' = (life' = "open" \/ again)
    <3>1. life' # "open" /\ ~success' /\ UNCHANGED <<current, evId>>
      BY <2>4 DEF RefuseEV, GiveUp, asking
    <3>2. wire' \in BOOLEAN
      BY <2>4
    <3> QED
      BY <2>1, <3>1, <3>2, GivingUp
  <2>5. CASE AbortEV /\ wire' = FALSE
    <3>1. life' # "open" /\ ~success' /\ UNCHANGED <<current, evId>>
      BY <2>5 DEF AbortEV, GiveUp, asking
    <3> QED
      BY <2>1, <2>5, <3>1, GivingUp
  <2> QED
    BY <1>5, <2>3, <2>4, <2>5 DEF EvTurn
<1>6. CASE ForeignResponse
  <2>1. pair = "EVCC" /\ UNCHANGED <<pair, wire, reply>>
    BY <1>6 DEF ForeignResponse
  <2> QED
    BY <2>1 DEF Fit, LinkTyped, InStep, SameSession, Refused
<1>7. CASE EvGivesUp
  BY <1>7, GivingUp DEF EvGivesUp, TimeoutEV, GiveUp, asking, LinkTyped
<1>8. CASE EvTime
  <2>1. /\ UNCHANGED <<vars, pair, wire, reply>>
        /\ UNCHANGED <<current, arrived, success, evId, ready>>
        /\ life' = "open" => life = "open"
    BY <1>8 DEF EvTime, TimerExpires, Disable, Close, asking
  <2> QED
    BY <2>1
    DEF Fit, LinkTyped, InStep, SameSession, Refused, Expected, Taken, vars
<1>9. CASE UNCHANGED linkVars
  BY <1>9 DEF Fit, LinkTyped, InStep, SameSession, Refused, Expected, Taken,
     linkVars, vars, varsEV, asking
<1> QED
  BY <1>1, <1>2, <1>3, <1>4, <1>5, <1>6, <1>7, <1>8, <1>9 DEF NextLink

\* The inductive invariant of the pair holds in every reachable state.
THEOREM LinkInvCorrect == SpecLink => []LinkInv
<1>1. LinkInv /\ [NextLink]_linkVars => LinkInv'
  <2> SUFFICES ASSUME LinkInv, [NextLink]_linkVars PROVE LinkInv'
    OBVIOUS
  <2>1. Inv'
    BY SeccStep, InvStep DEF LinkInv
  <2>2. InvEV'
    BY EvStep, TypeStepEV, EnablingStep DEF LinkInv, InvEV, Enabling
  <2> QED
    BY <2>1, <2>2, FitStep DEF LinkInv
<1> QED
  BY <1>1, LinkInit, PTL DEF SpecLink

-----------------------------------------------------------------------------
(* The properties of the pair.                                             *)

\* The pair takes only steps that either side may take, so that what is proved
\* of each side with an arbitrary peer holds with the other side as its peer.
THEOREM SidesRefined == SpecLink => [][Next]_vars /\ [][NextEV]_varsEV
<1>1. LinkInv /\ [NextLink]_linkVars => [Next]_vars /\ [NextEV]_varsEV
  BY SeccStep, EvStep DEF LinkInv
<1> QED
  BY <1>1, LinkInvCorrect, PTL DEF SpecLink

\* Authorization, isolation test and HLC charging precede power in the pair too.
THEOREM PowerTestedInLink == SpecLink => []PowerAfterTests
<1>1. LinkInv => PowerAfterTests
  BY DEF LinkInv, Inv
<1> QED
  BY <1>1, LinkInvCorrect, PTL

\* The SECC of the pair takes its session through the stages in order.
THEOREM SessionInLink == SpecLink => ImplementsSession
<1>1. InitLink => Session!Init
  BY DEF InitLink, Init, Session!Init, Stage, SetupStates
<1>2. LinkInv /\ [NextLink]_linkVars => [Session!Next]_(Session!vars)
  BY SeccStep, SessionStep DEF LinkInv
<1> QED
  BY <1>1, <1>2, LinkInvCorrect, PTL DEF SpecLink, ImplementsSession, Session!Spec

\* Charging is enabled in the vehicle only within the session, in the pair too.
THEOREM EnabledInLink == SpecLink => []EnabledInSession
<1>1. LinkInv => EnabledInSession
  BY DEF LinkInv, InvEV
<1> QED
  BY <1>1, LinkInvCorrect, PTL

\* The EVCC keeps the session and the sequence of the SECC, with the exception
\* that the property names.
THEOREM RequestsFitAlways == SpecLink => []RequestsFit
<1>1. LinkInv => RequestsFit
  BY DEF LinkInv, Fit, Refused, RequestsFit
<1> QED
  BY <1>1, LinkInvCorrect, PTL

\* Power flows only into a vehicle in which charging is enabled.
THEOREM PowerFlowsIntoVehicle == SpecLink => []PowerIntoVehicle
<1>1. LinkInv => PowerIntoVehicle
  <2> SUFFICES ASSUME LinkInv, pair = "both"
               PROVE  PowerIntoVehicle
    BY DEF PowerIntoVehicle
  <2>0. Inv /\ InvEV /\ InStep /\ Refused
    BY DEF LinkInv, Fit
  <2>1. success => phase # "open" /\ reason = "terminated"
    BY <2>0 DEF Refused, Inv, PowerAfterTests
  <2>2. CASE life = "open" /\ phase # "open"
    <3>1. charger = "off"
      BY <2>0, <2>2 DEF Inv, PowerAfterTests
    <3>2. current \in {"WeldingDetection", "SessionStop"} => ~enabled
      BY <2>0, <2>2 DEF InvEV, TypeOKEV, EnabledInSession
    <3> QED
      BY <2>1, <2>2, <3>1, <3>2 DEF PowerIntoVehicle
  <2>3. CASE life = "open" /\ phase = "open"
    <3>1. Expected \/ Taken
      BY <2>0, <2>3 DEF InStep
    <3>2. enabled =
            (current \notin SetupEV \cup {"WeldingDetection", "SessionStop"})
      BY <2>0, <2>3 DEF InvEV, EnabledInSession
    <3>3. current \in StatesEV /\ ready \in BOOLEAN
      BY <2>0 DEF InvEV, TypeOKEV
    <3>4. CASE current \in SetupEV
      <4>1. st \in SetupStates \cup {"ChargeParameterDiscovery"}
            \/ (st = "CableCheck" /\ inst = "fresh")
        BY <3>1, <3>4 DEF Expected, Taken, SetupEV, SetupStates
      <4>2. charger = "off" /\ ~hlc
        BY <2>0, <2>3, <4>1 DEF Inv, Tested, Flagged, Decided, SetupStates
      <4> QED
        BY <2>1, <2>3, <3>4, <4>2 DEF PowerIntoVehicle, SetupEV
    <3>5. CASE current \in {"WeldingDetection", "SessionStop"}
      <4>1. (current = "WeldingDetection" /\ ready)
            \/ st \in {"PowerDelivery", "WeldingDetection"}
        BY <3>1, <3>5, <2>3 DEF Expected, Taken
      <4>2. st \in {"PowerDelivery", "WeldingDetection"} =>
              charger = "off" /\ ~hlc
        BY <2>0, <2>3 DEF Inv, Announced
      <4>3. ~enabled
        BY <3>2, <3>5
      <4> QED
        BY <2>1, <2>3, <4>1, <4>2, <4>3 DEF PowerIntoVehicle
    <3>6. CASE current \notin SetupEV \cup {"WeldingDetection", "SessionStop"}
      <4>1. enabled
        BY <3>2, <3>6
      <4> QED
        BY <2>1, <3>6, <4>1 DEF PowerIntoVehicle
    <3> QED
      BY <3>4, <3>5, <3>6
  <2>4. CASE life # "open"
    BY <2>1, <2>4 DEF PowerIntoVehicle
  <2> QED
    BY <2>2, <2>3, <2>4
<1> QED
  BY <1>1, LinkInvCorrect, PTL
=============================================================================
