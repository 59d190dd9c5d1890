---------------------------- MODULE SeccV2Proofs ----------------------------
(***************************************************************************)
(* Proofs that the safety properties of SeccV2 hold for every set of       *)
(* session identifiers and schedules, every configuration and every number *)
(* of connections.                                                         *)
(***************************************************************************)
EXTENDS SeccV2, TLAPS

-----------------------------------------------------------------------------
(* The session context.                                                    *)

\* A context keeps its type and its identifier when an option is selected.
LEMMA ContextTyped ==
    /\ NoCtx \in Contexts
    /\ \A id \in SessionIds :
         [id |-> id, auth |-> {}, tuple |-> NoTuple] \in Contexts
    /\ \A c \in Contexts, option \in {"EIM", "PNC"} :
         /\ [c EXCEPT !.auth = {option}] \in Contexts
         /\ [c EXCEPT !.auth = {option}].id = c.id
    /\ \A c \in Contexts : /\ c.id \in SessionIds \cup {NoId}
                           /\ c.auth \subseteq {"EIM", "PNC"}
  BY DEF NoCtx, Contexts

-----------------------------------------------------------------------------
(* Type correctness.                                                       *)

\* The initial state is typed.
LEMMA InitTyped == Init => TypeOK
<1> SUFFICES ASSUME Init PROVE TypeOK
  OBVIOUS
<1>1. st \in States /\ res \in Codes /\ ctx \in Contexts
  BY ContextTyped DEF Init, States, SetupStates, Codes
<1>2. tls \in BOOLEAN /\ silent \in BOOLEAN
  BY DEF Init
<1>3. connections \in Nat
  BY DEF Init
<1> QED
  BY <1>1, <1>2, <1>3 DEF Init, TypeOK

\* The variables that say where the session stands.
ControlOK ==
    /\ st \in States
    /\ inst \in {"fresh", "seen", "signed", "complete", "checking", "closed"}
    /\ phase \in {"open", "stopping", "closing", "ended"}
    /\ outcome \in {"none", "terminate", "pause"}
    /\ res \in Codes

\* The three endings of a handler keep the types of those variables.
LEMMA EndingsTyped ==
    ASSUME TypeOK, NEW s \in States, NEW code \in Codes
    PROVE  /\ Halt(s, code) => ControlOK' /\ charger' = "off"
           /\ Goto(s, code) => ControlOK'
           /\ \A i \in {"fresh", "seen", "signed", "complete", "checking",
                        "closed"} : Stay(s, i, code) => ControlOK'
  BY DEF TypeOK, ControlOK, Halt, Stopping, Goto, Stay, Own

\* Every step keeps the types.
LEMMA TypeStep == TypeOK /\ [Next]_vars => TypeOK'
<1> SUFFICES ASSUME TypeOK, [Next]_vars PROVE TypeOK'
  OBVIOUS
<1> USE DEF Goto, Stay, Halt, Stopping, Own, link, auth, energy, history,
            States, SetupStates, ParameterStates, ChargingStates, EndStates, Codes
<1>1. ASSUME NEW b \in BOOLEAN,
                   SupportedAppProtocol(b)
       PROVE  TypeOK'
  BY <1>1 DEF SupportedAppProtocol, TypeOK
<1>2. ASSUME NEW sid \in SessionIds \cup {NoId},
                   NEW new \in SessionIds,
                   SessionSetup(sid, new)
       PROVE  TypeOK'
  BY <1>2, ContextTyped DEF SessionSetup, TypeOK
<1>3. ASSUME NEW sid \in SessionIds \cup {NoId},
                   NEW b \in BOOLEAN, NEW e \in BOOLEAN,
                   ServiceDiscovery(sid, b, e)
       PROVE  TypeOK'
  BY <1>3, ContextTyped, SeccV2Assumption DEF ServiceDiscovery, OfferedAuth, TypeOK
<1>4. ASSUME NEW sid \in SessionIds \cup {NoId},
                   NEW service \in {"Certificate", "Internet"},
                   ServiceDetail(sid, service)
       PROVE  TypeOK'
  BY <1>4 DEF ServiceDetail, TypeOK
<1>5. ASSUME NEW sid \in SessionIds \cup {NoId},
                   NEW chosen \in SUBSET {"Charging", "Certificate", "Internet"},
                   NEW option \in {"EIM", "PNC"},
                   PaymentServiceSelection(sid, chosen, option)
       PROVE  TypeOK'
  <2>1. ControlOK'
    BY EndingsTyped, <1>5 DEF PaymentServiceSelection
  <2>2. ctx' = ctx \/ ctx' = [ctx EXCEPT !.auth = {option}]
    BY <1>5 DEF PaymentServiceSelection
  <2>3. ctx \in Contexts /\ [ctx EXCEPT !.auth = {option}] \in Contexts
    BY ContextTyped DEF TypeOK
  <2>4. ctx' \in Contexts
    BY <2>2, <2>3
  <2> QED
    BY <1>5, <2>1, <2>4
    DEF PaymentServiceSelection, ControlOK, TypeOK
<1>6. ASSUME NEW sid \in SessionIds \cup {NoId},
                   NEW sigOk \in BOOLEAN, NEW built \in BOOLEAN,
                   CertificateInstallation(sid, sigOk, built)
       PROVE  TypeOK'
  BY <1>6 DEF CertificateInstallation, TypeOK
<1>7. ASSUME NEW sid \in SessionIds \cup {NoId},
                   NEW certsOk \in BOOLEAN, NEW answer \in Answers,
                   NEW code \in AnswerCodes,
                   PaymentDetails(sid, certsOk, answer, code)
       PROVE  TypeOK'
  BY <1>7 DEF PaymentDetails, Answers, AnswerCodes, TypeOK
<1>8. ASSUME NEW sid \in SessionIds \cup {NoId},
                   NEW challengeOk \in BOOLEAN, NEW sigOk \in BOOLEAN,
                   NEW answer \in Answers, NEW code \in AnswerCodes,
                   NEW ready \in BOOLEAN,
                   Authorization(sid, challengeOk, sigOk, answer, code, ready)
       PROVE  TypeOK'
  <2>1. \/ \E c \in Codes : Halt("Authorization", c)
        \/ \E c \in Codes : Goto("ChargeParameterDiscovery", c)
        \/ \E c \in Codes, i \in {"complete", "signed", Own("Authorization")} :
             Stay("Authorization", i, c)
    BY <1>8 DEF Authorization, AnswerCodes, Codes
  <2>2. Own("Authorization") \in {"fresh", "seen", "signed", "complete",
                                 "checking", "closed"}
    BY DEF TypeOK
  <2>3. ControlOK'
    BY EndingsTyped, <2>1, <2>2
  <2>4. charger' \in {"off", charger}
    BY <1>8 DEF Authorization
  <2>5. granted' \in BOOLEAN /\ verified' \in BOOLEAN
    BY <1>8 DEF Authorization, TypeOK
  <2> QED
    BY <1>8, <2>3, <2>4, <2>5 DEF Authorization, ControlOK, TypeOK
<1>9. ASSUME NEW sid \in SessionIds \cup {NoId},
                   NEW mode \in {"AC", "DC"}, NEW schedules \in SUBSET Tuples,
                   ChargeParameterDiscovery(sid, mode, schedules)
       PROVE  TypeOK'
  <2>1. ControlOK'
    BY EndingsTyped, <1>9 DEF ChargeParameterDiscovery
  <2>2. /\ charger' \in {"off", charger} /\ offered' \subseteq Tuples
        /\ isAC' \in BOOLEAN /\ isolated' \in BOOLEAN
    BY <1>9 DEF ChargeParameterDiscovery, TypeOK
  <2> QED
    BY <1>9, <2>1, <2>2
    DEF ChargeParameterDiscovery, ControlOK, TypeOK
<1>10. ASSUME NEW sid \in SessionIds \cup {NoId},
                   NEW evError \in BOOLEAN,
                   NEW contactor \in {"closed", "open", "unknown"},
                   NEW isolation \in {"valid", "fault", "pending"},
                   CableCheck(sid, evError, contactor, isolation)
       PROVE  TypeOK'
  <2>1. ControlOK'
    BY EndingsTyped, <1>10 DEF CableCheck
  <2>2. /\ charger' \in {"off", "cablecheck", charger}
        /\ isolated' \in BOOLEAN
    BY <1>10 DEF CableCheck, TypeOK
  <2> QED
    BY <1>10, <2>1, <2>2 DEF CableCheck, ControlOK, TypeOK
<1>11. ASSUME NEW sid \in SessionIds \cup {NoId},
                   NEW fault \in BOOLEAN,
                   PreCharge(sid, fault)
       PROVE  TypeOK'
  BY <1>11 DEF PreCharge, TypeOK
<1>12. ASSUME NEW sid \in SessionIds \cup {NoId},
                   NEW progress \in {"Start", "Stop", "Renegotiate"},
                   NEW tuple \in Tuples, NEW profileOk \in BOOLEAN,
                   NEW contactorOk \in BOOLEAN,
                   PowerDelivery(sid, progress, tuple, profileOk, contactorOk)
       PROVE  TypeOK'
  <2>1. ControlOK'
    BY EndingsTyped, <1>12 DEF PowerDelivery
  <2>2. /\ charger' \in {"off", charger}
        /\ selected' \in Tuples \cup {NoTuple}
        /\ started' \in BOOLEAN /\ hlc' \in BOOLEAN
    BY <1>12 DEF PowerDelivery, TypeOK
  <2> QED
    BY <1>12, <2>1, <2>2 DEF PowerDelivery, ControlOK, TypeOK
<1>13. ASSUME NEW sid \in SessionIds \cup {NoId},
                   ChargingStatus(sid)
       PROVE  TypeOK'
  BY <1>13 DEF ChargingStatus, TypeOK
<1>14. ASSUME NEW sid \in SessionIds \cup {NoId},
                   NEW commandOk \in BOOLEAN,
                   CurrentDemand(sid, commandOk)
       PROVE  TypeOK'
  BY <1>14 DEF CurrentDemand, TypeOK
<1>15. ASSUME NEW sid \in SessionIds \cup {NoId},
                   NEW receiptOk \in BOOLEAN,
                   MeteringReceipt(sid, receiptOk)
       PROVE  TypeOK'
  BY <1>15 DEF MeteringReceipt, TypeOK
<1>16. ASSUME NEW sid \in SessionIds \cup {NoId},
                   WeldingDetection(sid)
       PROVE  TypeOK'
  BY <1>16 DEF WeldingDetection, TypeOK
<1>17. ASSUME NEW sid \in SessionIds \cup {NoId},
                   NEW pause \in BOOLEAN,
                   SessionStop(sid, pause)
       PROVE  TypeOK'
  BY <1>17, ContextTyped DEF SessionStop, TypeOK
<1>18. ASSUME NEW sid \in SessionIds \cup {NoId},
                   NEW type \in RequestTypes,
                   Refuse(type, sid)
       PROVE  TypeOK'
  BY <1>18 DEF Refuse, TypeOK
<1>19. CASE BreakOff
  BY <1>19 DEF BreakOff, Abort, TypeOK
<1>20. CASE SequenceTimeout
  BY <1>20 DEF SequenceTimeout, Abort, TypeOK
<1>21. CASE EvFallsSilent
  BY <1>21 DEF EvFallsSilent, TypeOK
<1>22. CASE EndSession
  BY <1>22 DEF EndSession, TypeOK
<1>23. CASE CloseConnection
  BY <1>23 DEF CloseConnection, TypeOK
<1>24. CASE Reconnect
  <2>1. ctx' \in Contexts /\ ControlOK'
    BY ContextTyped, <1>24
    DEF Reconnect, ControlOK, TypeOK
  <2>2. tls' \in BOOLEAN /\ silent' \in BOOLEAN
    BY <1>24 DEF Reconnect
  <2>3. connections' \in Nat
    BY <1>24 DEF Reconnect, TypeOK
  <2> QED
    BY <1>24, <2>1, <2>2, <2>3 DEF Reconnect, ControlOK, TypeOK
<1>25. CASE UNCHANGED vars
  BY <1>25 DEF vars, TypeOK
<1> QED
  BY <1>1, <1>2, <1>3, <1>4, <1>5, <1>6, <1>7, <1>8, <1>9, <1>10,
     <1>11, <1>12, <1>13, <1>14, <1>15, <1>16, <1>17, <1>18, <1>19, <1>20,
     <1>21, <1>22, <1>23, <1>24, <1>25
  DEF Next, Handle

\* Every variable of the SECC keeps its type.
THEOREM TypeCorrect == Spec => []TypeOK
  BY InitTyped, TypeStep, PTL DEF Spec

-----------------------------------------------------------------------------
(* The inductive invariant behind the safety properties.                   *)

EarlyStates == {"SupportedAppProtocol", "SessionSetup", "ServiceDiscovery",
                "ServiceDetail", "PaymentServiceSelection"}

\* The contract and the authorization come after the payment option is chosen.
ChoiceSettled == chain \/ granted => st \notin EarlyStates

\* The authorization of this connection, as far as the session has come.
Authorized ==
    /\ st \notin SetupStates => granted
    /\ st \notin SetupStates \/ (st = "Authorization" /\ inst # "fresh") =>
         (selectedAuth = "PNC" => verified /\ chain)
    /\ st = "Authorization" /\ inst = "complete" => granted
    /\ st \in SetupStates => charger = "off"

\* A line is tested before it can be powered; the state that sets the
\* parameters accepts nothing else.
TestedLine ==
    /\ st \in {"PreCharge", "PowerDelivery"} \cup ChargingStates =>
         isAC \/ isolated
    /\ st = "ChargeParameterDiscovery" => inst = "fresh"

\* PowerDelivery keeps its instance only after a Stop, and the charger is off
\* when the session is finished.
FinishedOff ==
    /\ st = "PowerDelivery" => inst \in {"fresh", "seen"}
    /\ st \in EndStates \/ (st = "PowerDelivery" /\ inst = "seen") =>
         charger = "off"

Inv == /\ TypeOK
       /\ ChoiceSettled
       /\ Authorized
       /\ TestedLine
       /\ FinishedOff
       /\ ChargingAsAgreed
       /\ ContextNamesSession
       /\ ChargerOffAtEnd

\* What a request that is accepted says of the state it arrives in.
LEMMA AcceptedFrom ==
    ASSUME TypeOK, NEW type, NEW sid, Accepts(type, sid)
    PROVE  /\ phase = "open" /\ ~silent
           /\ type \in States
           /\ inst = "fresh" => st = type
           /\ type \in SetupStates <=> st \in SetupStates
           /\ type \in EarlyStates => st \in EarlyStates
           /\ type \in ChargingStates => st \in ChargingStates
           /\ type = "PowerDelivery" => st \in {"ChargeParameterDiscovery",
                "PreCharge", "PowerDelivery"} \cup ChargingStates
           /\ type \in {"SupportedAppProtocol", "SessionSetup",
                        "ChargeParameterDiscovery", "PreCharge"} => st = type
           /\ type = "CableCheck" =>
                st \in {"ChargeParameterDiscovery", "CableCheck"}
           /\ st \in {"SupportedAppProtocol", "SessionSetup"} => type = st
           /\ type \in EndStates => \/ st \in EndStates
                                    \/ st = "PowerDelivery" /\ inst # "fresh"
  BY DEF Accepts, TypeOK, Accepted, Expected, Expects, Lists, States, SetupStates,
         EarlyStates, ParameterStates, ChargingStates, EndStates

\* The initial state satisfies the invariant.
LEMMA InvInit == Init => Inv
  BY InitTyped DEF Init, Inv, ChoiceSettled, Authorized, TestedLine, FinishedOff,
     ChargingAsAgreed, ContextNamesSession, ChargerOffAtEnd, EarlyStates,
     SetupStates, ParameterStates, ChargingStates, EndStates

\* Every step keeps the invariant.
LEMMA InvStep == Inv /\ [Next]_vars => Inv'
<1> SUFFICES ASSUME Inv, [Next]_vars PROVE Inv'
  OBVIOUS
<1> USE DEF Goto, Stay, Halt, Stopping, Own, link, auth, energy, history,
            Inv, ChoiceSettled, Authorized, TestedLine, FinishedOff,
            ChargingAsAgreed, ContextNamesSession, ChargerOffAtEnd,
            EarlyStates, SetupStates, ParameterStates, ChargingStates, EndStates
<1>0. TypeOK'
  BY TypeStep
<1>1. ASSUME NEW b \in BOOLEAN,
                   SupportedAppProtocol(b)
       PROVE  Inv'
  BY <1>1, <1>0, AcceptedFrom DEF SupportedAppProtocol
<1>2. ASSUME NEW sid \in SessionIds \cup {NoId},
                   NEW new \in SessionIds,
                   SessionSetup(sid, new)
       PROVE  Inv'
  <2>1. phase = "open" /\ st = "SessionSetup"
    BY <1>2, AcceptedFrom DEF SessionSetup
  <2>2. phase' = "open" => ctx'.id = sessionId' /\ sessionId' # NoId
    BY <1>2, SeccV2Assumption, ContextTyped DEF SessionSetup, TypeOK
  <2> QED
    BY <1>2, <1>0, <2>1, <2>2 DEF SessionSetup
<1>3. ASSUME NEW sid \in SessionIds \cup {NoId},
                   NEW b \in BOOLEAN, NEW e \in BOOLEAN,
                   ServiceDiscovery(sid, b, e)
       PROVE  Inv'
  BY <1>3, <1>0, AcceptedFrom DEF ServiceDiscovery
<1>4. ASSUME NEW sid \in SessionIds \cup {NoId},
                   NEW service \in {"Certificate", "Internet"},
                   ServiceDetail(sid, service)
       PROVE  Inv'
  BY <1>4, <1>0, AcceptedFrom DEF ServiceDetail
<1>5. ASSUME NEW sid \in SessionIds \cup {NoId},
                   NEW chosen \in SUBSET {"Charging", "Certificate", "Internet"},
                   NEW option \in {"EIM", "PNC"},
                   PaymentServiceSelection(sid, chosen, option)
       PROVE  Inv'
  <2>1. phase = "open" /\ st \in EarlyStates
              /\ st \notin {"SupportedAppProtocol", "SessionSetup"}
    BY <1>5, AcceptedFrom DEF PaymentServiceSelection
  <2>2. ctx \in Contexts
    BY DEF TypeOK
  <2>3. ctx'.id = ctx.id
    BY <1>5, <2>2, ContextTyped DEF PaymentServiceSelection
  <2> QED
    BY <1>5, <1>0, <2>1, <2>3 DEF PaymentServiceSelection
<1>6. ASSUME NEW sid \in SessionIds \cup {NoId},
                   NEW sigOk \in BOOLEAN, NEW built \in BOOLEAN,
                   CertificateInstallation(sid, sigOk, built)
       PROVE  Inv'
  BY <1>6, <1>0, AcceptedFrom DEF CertificateInstallation
<1>7. ASSUME NEW sid \in SessionIds \cup {NoId},
                   NEW certsOk \in BOOLEAN, NEW answer \in Answers,
                   NEW code \in AnswerCodes,
                   PaymentDetails(sid, certsOk, answer, code)
       PROVE  Inv'
  BY <1>7, <1>0, AcceptedFrom DEF PaymentDetails
<1>8. ASSUME NEW sid \in SessionIds \cup {NoId},
                   NEW challengeOk \in BOOLEAN, NEW sigOk \in BOOLEAN,
                   NEW answer \in Answers, NEW code \in AnswerCodes,
                   NEW ready \in BOOLEAN,
                   Authorization(sid, challengeOk, sigOk, answer, code, ready)
       PROVE  Inv'
  BY <1>8, <1>0, AcceptedFrom DEF Authorization
<1>9. ASSUME NEW sid \in SessionIds \cup {NoId},
                   NEW mode \in {"AC", "DC"}, NEW schedules \in SUBSET Tuples,
                   ChargeParameterDiscovery(sid, mode, schedules)
       PROVE  Inv'
  <2>1. phase = "open" /\ st = "ChargeParameterDiscovery" /\ inst = "fresh"
    BY <1>9, AcceptedFrom DEF ChargeParameterDiscovery
  <2> QED
    BY <1>9, <1>0, <2>1 DEF ChargeParameterDiscovery
<1>10. ASSUME NEW sid \in SessionIds \cup {NoId},
                   NEW evError \in BOOLEAN,
                   NEW contactor \in {"closed", "open", "unknown"},
                   NEW isolation \in {"valid", "fault", "pending"},
                   CableCheck(sid, evError, contactor, isolation)
       PROVE  Inv'
  BY <1>10, <1>0, AcceptedFrom DEF CableCheck
<1>11. ASSUME NEW sid \in SessionIds \cup {NoId},
                   NEW fault \in BOOLEAN,
                   PreCharge(sid, fault)
       PROVE  Inv'
  BY <1>11, <1>0, AcceptedFrom DEF PreCharge
<1>12. ASSUME NEW sid \in SessionIds \cup {NoId},
                   NEW progress \in {"Start", "Stop", "Renegotiate"},
                   NEW tuple \in Tuples, NEW profileOk \in BOOLEAN,
                   NEW contactorOk \in BOOLEAN,
                   PowerDelivery(sid, progress, tuple, profileOk, contactorOk)
       PROVE  Inv'
  BY <1>12, <1>0, AcceptedFrom DEF PowerDelivery
<1>13. ASSUME NEW sid \in SessionIds \cup {NoId},
                   ChargingStatus(sid)
       PROVE  Inv'
  BY <1>13, <1>0, AcceptedFrom DEF ChargingStatus
<1>14. ASSUME NEW sid \in SessionIds \cup {NoId},
                   NEW commandOk \in BOOLEAN,
                   CurrentDemand(sid, commandOk)
       PROVE  Inv'
  BY <1>14, <1>0, AcceptedFrom DEF CurrentDemand
<1>15. ASSUME NEW sid \in SessionIds \cup {NoId},
                   NEW receiptOk \in BOOLEAN,
                   MeteringReceipt(sid, receiptOk)
       PROVE  Inv'
  BY <1>15, <1>0, AcceptedFrom DEF MeteringReceipt
<1>16. ASSUME NEW sid \in SessionIds \cup {NoId},
                   WeldingDetection(sid)
       PROVE  Inv'
  BY <1>16, <1>0, AcceptedFrom DEF WeldingDetection
<1>17. ASSUME NEW sid \in SessionIds \cup {NoId},
                   NEW pause \in BOOLEAN,
                   SessionStop(sid, pause)
       PROVE  Inv'
  BY <1>17, <1>0, AcceptedFrom DEF SessionStop
<1>18. ASSUME NEW sid \in SessionIds \cup {NoId},
                   NEW type \in RequestTypes,
                   Refuse(type, sid)
       PROVE  Inv'
  BY <1>18, <1>0, AcceptedFrom DEF Refuse
<1>19. CASE BreakOff
  BY <1>19, <1>0 DEF BreakOff, Abort
<1>20. CASE SequenceTimeout
  BY <1>20, <1>0 DEF SequenceTimeout, Abort
<1>21. CASE EvFallsSilent
  BY <1>21, <1>0 DEF EvFallsSilent
<1>22. CASE EndSession
  BY <1>22, <1>0 DEF EndSession
<1>23. CASE CloseConnection
  BY <1>23, <1>0 DEF CloseConnection
<1>24. CASE Reconnect
  BY <1>24, <1>0 DEF Reconnect
<1>25. CASE UNCHANGED vars
  BY <1>25, <1>0 DEF vars
<1> HIDE DEF Inv
<1> QED
  BY <1>1, <1>2, <1>3, <1>4, <1>5, <1>6, <1>7, <1>8, <1>9, <1>10,
     <1>11, <1>12, <1>13, <1>14, <1>15, <1>16, <1>17, <1>18, <1>19, <1>20,
     <1>21, <1>22, <1>23, <1>24, <1>25
  DEF Next, Handle

\* The inductive invariant holds in every reachable state.
THEOREM InvCorrect == Spec => []Inv
  BY InvInit, InvStep, PTL DEF Spec

\* No power and no state after Authorization without an authorization.
THEOREM PowerAuthorized == Spec => []AuthorizedBeforePower
<1>1. Inv => AuthorizedBeforePower
  BY DEF Inv, Authorized, AuthorizedBeforePower
<1> QED
  BY <1>1, InvCorrect, PTL

\* No current demand on an untested line.
THEOREM LineTested == Spec => []IsolatedBeforeCurrentDemand
<1>1. Inv => IsolatedBeforeCurrentDemand
  BY DEF Inv, TestedLine, ChargingStates, IsolatedBeforeCurrentDemand
<1> QED
  BY <1>1, InvCorrect, PTL

\* The charging loop follows a schedule of the last list offered.
THEOREM LoopAsAgreed == Spec => []ChargingAsAgreed
<1>1. Inv => ChargingAsAgreed
  BY DEF Inv
<1> QED
  BY <1>1, InvCorrect, PTL

\* The session a pause preserves is the one requests are checked against.
THEOREM ContextInStep == Spec => []ContextNamesSession
<1>1. Inv => ContextNamesSession
  BY DEF Inv
<1> QED
  BY <1>1, InvCorrect, PTL

\* Every way to end a session turns the charger off.
THEOREM PowerOffAtEnd == Spec => []ChargerOffAtEnd
<1>1. Inv => ChargerOffAtEnd
  BY DEF Inv
<1> QED
  BY <1>1, InvCorrect, PTL

-----------------------------------------------------------------------------
(* The payment option.                                                     *)

OptionKept == (chain \/ granted) /\ phase' = "open" /\ connections' = connections
                => selectedAuth' = selectedAuth

\* Only a selection and a reconnection change the payment option.
LEMMA OptionChanges ==
    ASSUME Next, selectedAuth' # selectedAuth
    PROVE  \/ Reconnect
           \/ \E sid, chosen, option :
                 PaymentServiceSelection(sid, chosen, option)
  BY DEF Next, Handle, auth, history, SupportedAppProtocol, SessionSetup,
     ServiceDiscovery, ServiceDetail, CertificateInstallation, PaymentDetails,
     Authorization, ChargeParameterDiscovery, CableCheck, PreCharge,
     PowerDelivery, ChargingStatus, CurrentDemand, MeteringReceipt,
     WeldingDetection, SessionStop, Refuse, BreakOff, SequenceTimeout, Abort,
     EvFallsSilent, EndSession, CloseConnection

\* A selection is early, and the contract and the authorization come later.
LEMMA OptionStep == Inv /\ [Next]_vars => [OptionKept]_vars
<1> SUFFICES ASSUME Inv, Next, selectedAuth' # selectedAuth PROVE OptionKept
  BY DEF OptionKept
<1>1. CASE Reconnect
  BY <1>1 DEF Inv, TypeOK, Reconnect, OptionKept
<1>2. ASSUME NEW sid, NEW chosen, NEW option,
             PaymentServiceSelection(sid, chosen, option)
      PROVE  OptionKept
  <2>1. st \in EarlyStates
    BY <1>2, AcceptedFrom DEF PaymentServiceSelection, Inv, EarlyStates
  <2> QED
    BY <2>1 DEF Inv, ChoiceSettled, OptionKept
<1> QED
  BY <1>1, <1>2, OptionChanges

\* Nothing changes the payment option once the contract is presented or accepted.
THEOREM OptionSettled == Spec => PaymentOptionSettled
<1>1. Inv /\ [Next]_vars => [OptionKept]_vars
  BY OptionStep
<1>2. PaymentOptionSettled <=> [][OptionKept]_vars
  BY DEF PaymentOptionSettled, OptionKept
<1> QED
  BY <1>1, <1>2, InvCorrect, PTL DEF Spec

-----------------------------------------------------------------------------
(* The refinement of ChargingSession.                                      *)

\* Every step is one of the charging session, or leaves it alone.
LEMMA SessionStep == Inv /\ [Next]_vars => [Session!Next]_(Session!vars)
<1> SUFFICES ASSUME Inv, [Next]_vars PROVE [Session!Next]_(Session!vars)
  OBVIOUS
<1> USE DEF Stage, Goto, Stay, Halt, Stopping, Own, link, auth, energy, history,
            SetupStates, ParameterStates, ChargingStates, EndStates,
            Session!vars, Session!Next, Session!Authorize, Session!Deliver,
            Session!Energise, Session!Renegotiate, Session!Test,
            Session!Finish, Session!Close, Session!Reopen
<1>0. /\ TypeOK
      /\ phase # "open" => charger = "off"
      /\ st \in SetupStates => charger = "off"
      /\ st = "PowerDelivery" => inst \in {"fresh", "seen"}
      /\ st \in EndStates \/ (st = "PowerDelivery" /\ inst = "seen") =>
           charger = "off"
  BY DEF Inv, Authorized, FinishedOff, ChargerOffAtEnd
<1>1. ASSUME NEW b \in BOOLEAN,
                   SupportedAppProtocol(b)
       PROVE  [Session!Next]_(Session!vars)
  BY <1>1, <1>0, AcceptedFrom DEF SupportedAppProtocol
<1>2. ASSUME NEW sid \in SessionIds \cup {NoId},
                   NEW new \in SessionIds,
                   SessionSetup(sid, new)
       PROVE  [Session!Next]_(Session!vars)
  BY <1>2, <1>0, AcceptedFrom DEF SessionSetup
<1>3. ASSUME NEW sid \in SessionIds \cup {NoId},
                   NEW b \in BOOLEAN, NEW e \in BOOLEAN,
                   ServiceDiscovery(sid, b, e)
       PROVE  [Session!Next]_(Session!vars)
  BY <1>3, <1>0, AcceptedFrom DEF ServiceDiscovery
<1>4. ASSUME NEW sid \in SessionIds \cup {NoId},
                   NEW service \in {"Certificate", "Internet"},
                   ServiceDetail(sid, service)
       PROVE  [Session!Next]_(Session!vars)
  BY <1>4, <1>0, AcceptedFrom DEF ServiceDetail
<1>5. ASSUME NEW sid \in SessionIds \cup {NoId},
                   NEW chosen \in SUBSET {"Charging", "Certificate", "Internet"},
                   NEW option \in {"EIM", "PNC"},
                   PaymentServiceSelection(sid, chosen, option)
       PROVE  [Session!Next]_(Session!vars)
  BY <1>5, <1>0, AcceptedFrom DEF PaymentServiceSelection
<1>6. ASSUME NEW sid \in SessionIds \cup {NoId},
                   NEW sigOk \in BOOLEAN, NEW built \in BOOLEAN,
                   CertificateInstallation(sid, sigOk, built)
       PROVE  [Session!Next]_(Session!vars)
  BY <1>6, <1>0, AcceptedFrom DEF CertificateInstallation
<1>7. ASSUME NEW sid \in SessionIds \cup {NoId},
                   NEW certsOk \in BOOLEAN, NEW answer \in Answers,
                   NEW code \in AnswerCodes,
                   PaymentDetails(sid, certsOk, answer, code)
       PROVE  [Session!Next]_(Session!vars)
  BY <1>7, <1>0, AcceptedFrom DEF PaymentDetails
<1>8. ASSUME NEW sid \in SessionIds \cup {NoId},
                   NEW challengeOk \in BOOLEAN, NEW sigOk \in BOOLEAN,
                   NEW answer \in Answers, NEW code \in AnswerCodes,
                   NEW ready \in BOOLEAN,
                   Authorization(sid, challengeOk, sigOk, answer, code, ready)
       PROVE  [Session!Next]_(Session!vars)
  BY <1>8, <1>0, AcceptedFrom DEF Authorization
<1>9. ASSUME NEW sid \in SessionIds \cup {NoId},
                   NEW mode \in {"AC", "DC"}, NEW schedules \in SUBSET Tuples,
                   ChargeParameterDiscovery(sid, mode, schedules)
       PROVE  [Session!Next]_(Session!vars)
  BY <1>9, <1>0, AcceptedFrom DEF ChargeParameterDiscovery
<1>10. ASSUME NEW sid \in SessionIds \cup {NoId},
                   NEW evError \in BOOLEAN,
                   NEW contactor \in {"closed", "open", "unknown"},
                   NEW isolation \in {"valid", "fault", "pending"},
                   CableCheck(sid, evError, contactor, isolation)
       PROVE  [Session!Next]_(Session!vars)
  BY <1>10, <1>0, AcceptedFrom DEF CableCheck
<1>11. ASSUME NEW sid \in SessionIds \cup {NoId},
                   NEW fault \in BOOLEAN,
                   PreCharge(sid, fault)
       PROVE  [Session!Next]_(Session!vars)
  BY <1>11, <1>0, AcceptedFrom DEF PreCharge
<1>12. ASSUME NEW sid \in SessionIds \cup {NoId},
                   NEW progress \in {"Start", "Stop", "Renegotiate"},
                   NEW tuple \in Tuples, NEW profileOk \in BOOLEAN,
                   NEW contactorOk \in BOOLEAN,
                   PowerDelivery(sid, progress, tuple, profileOk, contactorOk)
       PROVE  [Session!Next]_(Session!vars)
  BY <1>12, <1>0, AcceptedFrom DEF PowerDelivery
<1>13. ASSUME NEW sid \in SessionIds \cup {NoId},
                   ChargingStatus(sid)
       PROVE  [Session!Next]_(Session!vars)
  BY <1>13, <1>0, AcceptedFrom DEF ChargingStatus
<1>14. ASSUME NEW sid \in SessionIds \cup {NoId},
                   NEW commandOk \in BOOLEAN,
                   CurrentDemand(sid, commandOk)
       PROVE  [Session!Next]_(Session!vars)
  BY <1>14, <1>0, AcceptedFrom DEF CurrentDemand
<1>15. ASSUME NEW sid \in SessionIds \cup {NoId},
                   NEW receiptOk \in BOOLEAN,
                   MeteringReceipt(sid, receiptOk)
       PROVE  [Session!Next]_(Session!vars)
  BY <1>15, <1>0, AcceptedFrom DEF MeteringReceipt
<1>16. ASSUME NEW sid \in SessionIds \cup {NoId},
                   WeldingDetection(sid)
       PROVE  [Session!Next]_(Session!vars)
  BY <1>16, <1>0, AcceptedFrom DEF WeldingDetection
<1>17. ASSUME NEW sid \in SessionIds \cup {NoId},
                   NEW pause \in BOOLEAN,
                   SessionStop(sid, pause)
       PROVE  [Session!Next]_(Session!vars)
  BY <1>17, <1>0, AcceptedFrom DEF SessionStop
<1>18. ASSUME NEW sid \in SessionIds \cup {NoId},
                   NEW type \in RequestTypes,
                   Refuse(type, sid)
       PROVE  [Session!Next]_(Session!vars)
  BY <1>18, <1>0, AcceptedFrom DEF Refuse
<1>19. CASE BreakOff
  BY <1>19, <1>0 DEF BreakOff, Abort
<1>20. CASE SequenceTimeout
  BY <1>20, <1>0 DEF SequenceTimeout, Abort
<1>21. CASE EvFallsSilent
  BY <1>21, <1>0 DEF EvFallsSilent
<1>22. CASE EndSession
  BY <1>22, <1>0 DEF EndSession
<1>23. CASE CloseConnection
  BY <1>23, <1>0 DEF CloseConnection
<1>24. CASE Reconnect
  BY <1>24, <1>0 DEF Reconnect
<1>25. CASE UNCHANGED vars
  BY <1>25 DEF vars
<1> HIDE DEF Stage, Session!vars, Session!Next
<1> QED
  BY <1>1, <1>2, <1>3, <1>4, <1>5, <1>6, <1>7, <1>8, <1>9, <1>10,
     <1>11, <1>12, <1>13, <1>14, <1>15, <1>16, <1>17, <1>18, <1>19, <1>20,
     <1>21, <1>22, <1>23, <1>24, <1>25
  DEF Next, Handle

\* The state machine of the SECC implements the charging session.
THEOREM SessionImplemented == Spec => ImplementsSession
<1>1. Init => Session!Init
  BY DEF Init, Session!Init, Stage, SetupStates
<1>2. Inv /\ [Next]_vars => [Session!Next]_(Session!vars)
  BY SessionStep
<1> QED
  BY <1>1, <1>2, InvCorrect, PTL DEF Spec, ImplementsSession, Session!Spec

\* What ChargingSession promises its users holds of the SECC: power flows only
\* in a session that has been authorized and is neither finished nor closed.
THEOREM PowerPromised == Spec => []Session!PowerInSession
<1>1. Session!Init => Session!PowerInSession
  BY DEF Session!Init, Session!PowerInSession
<1>2. Session!PowerInSession /\ [Session!Next]_(Session!vars)
        => Session!PowerInSession'
  <2> SUFFICES ASSUME Session!PowerInSession, [Session!Next]_(Session!vars)
               PROVE  Session!PowerInSession'
    OBVIOUS
  <2> DEFINE power == charger = "charging"
             inSession == Stage \in {"agreeing", "delivering"}
  <2>1. power => inSession
    BY DEF Session!PowerInSession
  <2>2. \/ power' = FALSE
        \/ inSession'
        \/ power' = power /\ (Stage \notin {"agreeing", "delivering"} \/ Stage' = Stage)
    BY DEF Session!Next, Session!vars, Session!Authorize, Session!Deliver,
           Session!Energise, Session!Renegotiate, Session!Test, Session!Finish,
           Session!Close, Session!Reopen
  <2>3. power' => inSession'
    BY <2>1, <2>2
  <2> QED
    BY <2>3 DEF Session!PowerInSession
<1>3. Session!Spec => []Session!PowerInSession
  BY <1>1, <1>2, PTL DEF Session!Spec
<1> QED
  BY <1>3, SessionImplemented, PTL DEF ImplementsSession
=============================================================================
