---------------------------- MODULE V2LinkProofs ----------------------------
(***************************************************************************)
(* Proofs about the pair of V2Link, for any identifiers, schedules and     *)
(* configuration: every step of the pair is a step, or a stutter, of       *)
(* either side, which carries the invariants of SeccV2 and EvccV2 over;    *)
(* and what the two sides know of each other fits when the SECC is one of  *)
(* this repository.                                                        *)
(***************************************************************************)
EXTENDS V2Link, SeccV2Proofs, EvccV2Proofs, FiniteSetTheorems

-----------------------------------------------------------------------------
(* The inductive invariant.                                                *)

\* The reply of this SECC is well formed.
LinkTyped ==
    /\ wire \in BOOLEAN
    /\ reply.type \in StatesEV \cup {"none"}
    /\ reply.ok \in BOOLEAN /\ reply.moved \in BOOLEAN
    /\ reply.sid \in Ids \cup {ZeroId}

\* Where the EVCC's handlers leave its wishes, its choices and its contactors,
\* when charging begins with a schedule and no receipt is asked for.  A Stop that
\* is not noted is the delayed start of an AC session.
Bearing ==
    /\ current \notin {"SupportedAppProtocol", "SessionSetup", "ServiceDiscovery"}
         => option \in {"EIM", "PNC"}
    /\ current \in {"CertificateInstallation", "PaymentDetails"} => option = "PNC"
    /\ current # "MeteringReceipt"
    /\ current \notin SetupEV \cup {"ChargeParameterDiscovery"}
         => schedule \in Schedules
    /\ current = "PowerDelivery" =>
         /\ progress \in {"Start", "Stop", "Renegotiate"}
         /\ finishing => progress = "Stop"
         /\ progress = "Stop" => finishing \/ ac
         /\ renegotiating = (progress = "Renegotiate")
    /\ renegotiating => current = "PowerDelivery" /\ ac
    /\ current \in {"CableCheck", "PreCharge", "CurrentDemand", "WeldingDetection"}
         => ~ac
    /\ current = "ChargingStatus" => ac
    /\ current = "CurrentDemand" => progress = "Start"
    /\ life = "open" /\ current \in LoopEV \cup {"CableCheck", "PreCharge",
                                                 "PowerDelivery"}
         => enabled

\* The state of the SECC in which the request of the EVCC finds it.
Awaited ==
    /\ current \in {"SupportedAppProtocol", "SessionSetup",
                    "ChargeParameterDiscovery", "CableCheck", "PreCharge"}
         => st = current
    /\ current = "ServiceDiscovery" => st = current /\ inst = "fresh"
    /\ current \in {"ServiceDetail", "PaymentServiceSelection"} =>
         st \in {"ServiceDiscovery", "ServiceDetail"} /\ inst # "fresh"
    /\ current = "CertificateInstallation" =>
         st = "PaymentServiceSelection" /\ inst # "fresh"
    /\ current \in {"PaymentDetails", "Authorization"} =>
         st = current \/ (st = "PaymentServiceSelection" /\ inst # "fresh")
    /\ current = "PowerDelivery" =>
         IF ac /\ ~finishing /\ ~renegotiating THEN st = current
         ELSE /\ inst # "fresh"
              /\ st = IF progress = "Start" THEN "PreCharge"
                     ELSE IF ac THEN "ChargingStatus" ELSE "CurrentDemand"
    /\ current \in LoopEV =>
         IF Delayed THEN st = "SessionStop"
                    ELSE st = current /\ selected = schedule
    /\ current = "WeldingDetection" =>
         st \in {"PowerDelivery", "WeldingDetection"} /\ inst # "fresh"
    /\ current = "SessionStop" =>
         IF ac THEN st = current ELSE st = "WeldingDetection" /\ inst # "fresh"

\* The state of the SECC to which a request without a fault has taken it.
Taken ==
    /\ ~Delayed
    /\ current = "SupportedAppProtocol" => st \in {current, "SessionSetup"}
    /\ current = "SessionSetup" => st = "ServiceDiscovery" /\ inst = "fresh"
    /\ current \in {"ServiceDiscovery", "ServiceDetail", "PaymentServiceSelection",
                    "PreCharge", "WeldingDetection"} \cup LoopEV
         => st = current /\ inst # "fresh"
    /\ current = "CertificateInstallation" => st = "PaymentDetails"
    /\ current = "PaymentDetails" => st = "Authorization" \/ phase # "open"
    /\ current = "Authorization" => st \in {current, "ChargeParameterDiscovery"}
    /\ current = "ChargeParameterDiscovery" =>
         \/ st = current
         \/ st = (IF ac THEN "PowerDelivery" ELSE "CableCheck") /\ inst = "fresh"
    /\ current = "CableCheck" => st \in {current, "PreCharge"}
    /\ current = "PowerDelivery" =>
         /\ progress = "Start" =>
              st = IF ac THEN "ChargingStatus" ELSE "CurrentDemand"
         /\ progress = "Renegotiate" => st = "ChargeParameterDiscovery"
         /\ progress = "Stop" =>
              IF ac THEN st = "SessionStop" ELSE st = current /\ inst # "fresh"
    /\ current \in LoopEV \/ (current = "PowerDelivery" /\ progress = "Start")
         => selected = schedule
    /\ current = "SessionStop" =>
         st = current /\ phase # "open" /\ outcome = "terminate"

\* Request and response alternate as long as the EVCC takes part, and a request
\* in the stream is awaited even when it no longer does.
InStep ==
    /\ wire /\ phase = "open" => Awaited
    /\ life = "open" =>
         IF wire THEN ~arrived
         ELSE /\ arrived /\ reply.type = current /\ reply.sid = sessionId
              /\ reply.moved = (st # current)
              /\ reply.ok \/ phase = "open" => Taken
              /\ phase = "open" /\ ~reply.ok => current # "WeldingDetection"

\* Once a session has been set up, both sides name the same one; once the
\* payment option has been chosen the same option, and after the parameters the
\* same charging type.  The EVCC asks for details of a service on offer.
SameSession ==
    /\ current \notin {"SupportedAppProtocol", "SessionSetup"} =>
         evId = sessionId /\ st \notin {"SupportedAppProtocol", "SessionSetup"}
    /\ phase = "open" /\ st \notin {"SupportedAppProtocol", "SessionSetup",
                                    "ServiceDiscovery", "ServiceDetail"}
         => option = selectedAuth
    /\ st \notin SetupStates \cup {"ChargeParameterDiscovery"} => ac = isAC
    /\ current = "ServiceDetail" => "Certificate" \in services

\* The charger works only where a DC session has use for it.
Powered ==
    charger # "off" => \/ st = "CableCheck" /\ inst # "fresh"
                       \/ st \in {"PreCharge", "CurrentDemand"}

\* The SECC has refused nothing for its order or its session.
Unrefused == NoSequenceError /\ SuccessAgreed

Fit == LinkTyped /\ Bearing /\ InStep /\ SameSession /\ Powered /\ Unrefused
\* Of an SECC of another make only what the EVCC ensures by itself is known.
LinkInv == Inv /\ InvEV /\ ours \in BOOLEAN /\ (ours => Fit)

\* The identifiers of the two sides are the same.
LEMMA SameIds == SessionIds \cup {NoId} = Ids \cup {ZeroId}
  BY V2LinkAssumption

\* The initial state satisfies the invariant.
LEMMA LinkInit == InitLink => LinkInv
<1> SUFFICES ASSUME InitLink PROVE LinkInv
  OBVIOUS
<1>1. Inv /\ InvEV
  BY InvInit, InvInitEV DEF InitLink
<1>2. ours \in BOOLEAN /\ (ours => LinkTyped)
  BY V2LinkAssumption DEF InitLink, LinkTyped, NoReply
<1>3. ours => Bearing /\ InStep
  BY DEF InitLink, Bearing, InStep, Init, InitEV, Awaited, LoopEV, SetupEV, Delayed
<1>4. SameSession /\ Powered /\ Unrefused
  BY DEF InitLink, Init, InitEV, SameSession, SetupStates, Powered, Unrefused,
     NoSequenceError, Delayed, SuccessAgreed
<1> QED
  BY <1>1, <1>2, <1>3, <1>4 DEF LinkInv, Fit

-----------------------------------------------------------------------------
(* Every step of the pair is a step of either side, or leaves it alone.    *)

\* What the SECC serves is a request of any EVCC.
LEMMA ServesHandles ==
    ASSUME Inv, InvEV, Bearing,
           ServesSetup \/ ServesCharging \/ Refuse(current, evId)
    PROVE  [Next]_vars
<1> SUFFICES Handle(evId)
  BY SameIds DEF Next, InvEV, StandTyped
<1>1. CASE ServesSetup /\ current \in {"SupportedAppProtocol", "SessionSetup",
                                       "ServiceDiscovery", "ServiceDetail"}
  BY <1>1 DEF ServesSetup, Handle
<1>2. ASSUME current = "PaymentServiceSelection", NEW chosen \in SUBSET services,
             PaymentServiceSelection(evId, chosen \cup {"Charging"}, option)
      PROVE  Handle(evId)
  <2>1. /\ chosen \cup {"Charging"} \in SUBSET {"Charging", "Certificate", "Internet"}
        /\ option \in {"EIM", "PNC"}
    BY <1>2 DEF Inv, TypeOK, Bearing
  <2> QED
    BY <1>2, <2>1 DEF Handle
<1>3. CASE ServesSetup /\ current \in {"CertificateInstallation", "PaymentDetails",
                                       "Authorization"}
  BY <1>3 DEF ServesSetup, Handle
<1>4. CASE ServesCharging /\ current \in {"ChargeParameterDiscovery", "CableCheck",
                                          "PreCharge"}
  BY <1>4 DEF ServesCharging, Handle
<1>5. ASSUME current = "PowerDelivery",
             NEW profileOk \in BOOLEAN, NEW contactorOk \in BOOLEAN,
             PowerDelivery(evId, progress, schedule, profileOk, contactorOk)
      PROVE  Handle(evId)
  <2>1. progress \in {"Start", "Stop", "Renegotiate"} /\ schedule \in Tuples
    BY <1>5, V2LinkAssumption DEF Bearing, SetupEV
  <2> QED
    BY <1>5, <2>1 DEF Handle
<1>6. CASE ServesCharging /\ current \in LoopEV \cup {"WeldingDetection", "SessionStop"}
  BY <1>6 DEF ServesCharging, Handle, LoopEV
<1>7. CASE Refuse(current, evId)
  <2>1. current \in RequestTypes
    BY DEF InvEV, StandTyped, StatesEV, SetupEV, LoopEV, RequestTypes, States,
       SetupStates, ParameterStates, ChargingStates, EndStates
  <2> QED
    BY <1>7, <2>1 DEF Handle
<1>8. ServesSetup \/ ServesCharging =>
        \/ current \in SetupEV \cup LoopEV
        \/ current \in {"ChargeParameterDiscovery", "CableCheck", "PreCharge",
                        "PowerDelivery", "WeldingDetection", "SessionStop"}
  BY DEF ServesSetup, ServesCharging, SetupEV, LoopEV
<1> QED
  BY <1>1, <1>2, <1>3, <1>4, <1>5, <1>6, <1>7, <1>8
  DEF ServesSetup, ServesCharging, SetupEV, LoopEV

\* What the EVCC processes is a response of any SECC.
LEMMA ProcessesTurns ==
    ASSUME InvEV, LinkTyped, InStep,
           Processes(reply) \/ RefuseEV(reply.type, reply.ok, reply.sid)
    PROVE  Turn
<1>1. /\ reply.sid \in Ids \cup {ZeroId}
      /\ reply.ok \in BOOLEAN /\ reply.moved \in BOOLEAN
      /\ Schedules = Tuples
  BY V2LinkAssumption DEF LinkTyped
<1>2. CASE Processes(reply)
  <2>1. ASSUME NEW mode \in {"AC", "DC"}, NEW n \in 0 .. MaxServices,
               ServiceDiscoveryRes(reply.sid, TRUE, "PNC" \in reply.options,
                                   mode = "AC", mode \in Modes, n)
        PROVE  Process(reply.sid)
    <3>1. /\ ("PNC" \in reply.options) \in BOOLEAN
          /\ (mode = "AC") \in BOOLEAN /\ (mode \in Modes) \in BOOLEAN
      OBVIOUS
    <3> QED
      BY <2>1, <3>1 DEF Process
  <2>2. ASSUME NEW tuple \in Tuples, NEW choice \in {"Start", "Stop"},
               ChargeParameterDiscoveryRes(reply.sid, reply.moved, choice, tuple)
        PROVE  Process(reply.sid)
    BY <1>1, <2>2 DEF Process
  <2>3. ASSUME NEW safe \in BOOLEAN, CableCheckRes(reply.sid, reply.moved, safe)
        PROVE  Process(reply.sid)
    BY <1>1, <2>3 DEF Process
  <2>4. ASSUME NEW n \in Notifications, NEW going \in BOOLEAN,
               \/ ChargingStatusRes(reply.sid, FALSE, TRUE, n, going)
               \/ CurrentDemandRes(reply.sid, n, going)
        PROVE  Process(reply.sid)
    BY <2>4 DEF Process
  <2>5. Process(reply.sid)
    BY <1>1, <1>2, <2>1, <2>2, <2>3, <2>4 DEF Processes, Process
  <2> QED
    BY <1>1, <2>5 DEF Turn
<1>3. CASE RefuseEV(reply.type, reply.ok, reply.sid)
  <2>1. reply.type \in StatesEV
    BY <1>3 DEF RefuseEV, Reads, InStep, InvEV, StandTyped, LinkTyped
  <2> QED
    BY <1>1, <1>3, <2>1 DEF Turn, Process
<1> QED
  BY <1>2, <1>3

\* The step as the SECC sees it.
LEMMA SeccStep == LinkInv /\ [NextLink]_linkVars => [Next]_vars
<1> SUFFICES ASSUME LinkInv, [NextLink]_linkVars PROVE [Next]_vars
  OBVIOUS
<1>1. CASE Serve
  BY <1>1, ServesHandles DEF Serve, LinkInv, Fit
<1>2. CASE SeccGivesUp
  <2>1. Abort
    BY <1>2 DEF SeccGivesUp
  <2> QED
    BY <2>1 DEF Next, BreakOff, SequenceTimeout
<1>3. CASE SeccStops
  BY <1>3 DEF SeccStops, Next
<1>4. CASE EvTurn \/ ForeignTurn \/ EvGivesUp \/ EvTime
  BY <1>4 DEF EvTurn, ForeignTurn, EvGivesUp, EvTime
<1>5. CASE UNCHANGED linkVars
  BY <1>5 DEF linkVars
<1> QED
  BY <1>1, <1>2, <1>3, <1>4, <1>5 DEF NextLink

\* The step as the EVCC sees it.
LEMMA EvStep == LinkInv /\ [NextLink]_linkVars => [NextEV]_varsEV
<1> SUFFICES ASSUME LinkInv, [NextLink]_linkVars PROVE [NextEV]_varsEV
  OBVIOUS
<1>1. CASE Serve
  BY <1>1 DEF Serve, NextEV
<1>2. CASE SeccGivesUp \/ SeccStops
  BY <1>2 DEF SeccGivesUp, SeccStops
<1>3. CASE EvTurn
  BY <1>3, ProcessesTurns DEF EvTurn, NextEV, Turn, LinkInv, Fit
<1>4. CASE ForeignTurn \/ EvGivesUp \/ EvTime
  BY <1>4 DEF ForeignTurn, EvGivesUp, EvTime, NextEV
<1>5. CASE UNCHANGED linkVars
  BY <1>5 DEF linkVars
<1> QED
  BY <1>1, <1>2, <1>3, <1>4, <1>5 DEF NextLink

-----------------------------------------------------------------------------
(* Requests and responses fit.                                             *)

\* What the state of the SECC awaits it accepts.
LEMMA AwaitedAccepted ==
    ASSUME Inv, InvEV, Bearing, SameSession, Awaited, phase = "open", ~Delayed
    PROVE  current \in Accepted /\ InSession(current, evId)
<1>1. InSession(current, evId)
  BY DEF InSession, SameSession
<1>2. current \in States /\ current \in StatesEV /\ current # "MeteringReceipt"
  BY DEF InvEV, StandTyped, Bearing, StatesEV, SetupEV, LoopEV, States,
     SetupStates, ParameterStates, ChargingStates, EndStates
<1>3. /\ st = current => current \in Accepted
      /\ inst # "fresh" /\ <<st, current>> \in Lists => current \in Accepted
  BY <1>2 DEF Accepted, Expected, Expects
<1>4. CASE current \in {"SupportedAppProtocol", "SessionSetup", "ServiceDiscovery",
                        "ChargeParameterDiscovery", "CableCheck", "PreCharge"}
                       \cup LoopEV
  <2>1. st = current
    BY <1>4 DEF Awaited, LoopEV
  <2> QED
    BY <1>1, <1>3, <2>1
<1>5. CASE current \in {"ServiceDetail", "PaymentServiceSelection",
                        "CertificateInstallation", "PaymentDetails",
                        "Authorization"}
  <2>1. st = current \/ (inst # "fresh" /\ <<st, current>> \in Lists)
    BY <1>5 DEF Awaited, Lists
  <2> QED
    BY <1>1, <1>3, <2>1
<1>6. CASE current = "PowerDelivery"
  <2>1. progress \in {"Start", "Stop", "Renegotiate"} /\ ac \in BOOLEAN
    BY <1>6 DEF Bearing, InvEV, FlagsTyped
  <2>2. st = current \/ (inst # "fresh" /\ <<st, current>> \in Lists)
    BY <1>6, <2>1 DEF Awaited, Lists
  <2> QED
    BY <1>1, <1>3, <2>2
<1>7. CASE current \in {"WeldingDetection", "SessionStop"}
  <2>1. st = current \/ (inst # "fresh" /\ <<st, current>> \in Lists)
    BY <1>7 DEF Awaited, Lists
  <2> QED
    BY <1>1, <1>3, <2>1
<1> QED
  BY <1>2, <1>4, <1>5, <1>6, <1>7 DEF StatesEV, SetupEV, LoopEV

\* What the SECC makes of a request that it awaits.
Served ==
    /\ phase = "open" /\ (res' \in Passes \/ phase' = "open" => Taken')
    /\ phase' = "open" /\ res' \notin Passes => current # "WeldingDetection"
    /\ SameSession' /\ Powered' /\ NoSequenceError'

\* After a delayed start the SECC refuses the request for the charging status.
LEMMA ServingDelayed ==
    ASSUME Inv, InvEV, Bearing, SameSession, Powered, Delayed, ours,
           phase = "open" => Awaited,
           ServesSetup \/ ServesCharging \/ Refuse(current, evId),
           UNCHANGED <<current, evId, option, ac, schedule, progress>>
    PROVE  Served
<1>1. current = "ChargingStatus" /\ progress = "Stop" /\ ac
  BY DEF Delayed, Bearing
<1>2. /\ phase = "open"
      /\ ChargingStatus(evId) \/ Refuse(current, evId)
  BY <1>1 DEF ServesSetup, ServesCharging, ChargingStatus, Refuse, Accepts
<1>3. st = "SessionStop"
  BY <1>1, <1>2 DEF Awaited, LoopEV
<1>4. current \notin Accepted
  BY <1>1, <1>3 DEF Accepted, Expected, Expects, Lists
<1>5. Refuse(current, evId)
  BY <1>1, <1>2, <1>4 DEF ChargingStatus, Accepts
<1>6. /\ phase' # "open" /\ st' = st /\ charger' = "off"
      /\ res' = "FAILED_SequenceError"
      /\ UNCHANGED <<sessionId, selectedAuth, services, isAC>>
  BY <1>4, <1>5 DEF Refuse, Halt, Stopping, Own, auth, energy
<1>7. SameSession' /\ Powered' /\ NoSequenceError'
  BY <1>1, <1>3, <1>6 DEF SameSession, Powered, NoSequenceError, Delayed
<1> QED
  BY <1>1, <1>2, <1>6, <1>7 DEF Served, Passes

\* The SECC serves what it awaits, and the two sides still agree.
LEMMA Serving ==
    ASSUME Inv, InvEV, Bearing, SameSession, Powered, ~Delayed, ours,
           phase = "open" => Awaited,
           ServesSetup \/ ServesCharging \/ Refuse(current, evId),
           UNCHANGED <<current, evId, option, ac, schedule, progress>>
    PROVE  Served
<1> DEFINE Goal == Served
<1> SUFFICES Goal
  OBVIOUS
<1>0. phase = "open" /\ Awaited /\ current \in Accepted /\ InSession(current, evId)
  <2>1. phase = "open"
    BY DEF ServesSetup, ServesCharging, Refuse, Accepts, SupportedAppProtocol,
       SessionSetup, ServiceDiscovery, ServiceDetail, PaymentServiceSelection,
       CertificateInstallation, PaymentDetails, Authorization,
       ChargeParameterDiscovery, CableCheck, PreCharge, PowerDelivery,
       ChargingStatus, CurrentDemand, WeldingDetection, SessionStop
  <2> QED
    BY <2>1, AwaitedAccepted
<1> USE DEF Served, Inv, SameSession, Powered, NoSequenceError, Delayed,
      Awaited, Taken, Bearing, Passes, Stay, Goto, Stopping, Halt, Own, auth, energy, history,
      SetupStates, LoopEV
<1>1. ASSUME current = "SupportedAppProtocol", NEW supported \in BOOLEAN,
             SupportedAppProtocol(supported)
      PROVE  Goal
  BY <1>0, <1>1 DEF SupportedAppProtocol
<1>2. ASSUME current = "SessionSetup", NEW new \in SessionIds,
             SessionSetup(evId, new)
      PROVE  Goal
  BY <1>0, <1>2 DEF SessionSetup
<1>3. ASSUME current = "ServiceDiscovery", NEW eim \in BOOLEAN,
             ServiceDiscovery(evId, TRUE, eim)
      PROVE  Goal
  BY <1>0, <1>3 DEF ServiceDiscovery
<1>4. ASSUME current = "ServiceDetail", ServiceDetail(evId, "Certificate")
      PROVE  Goal
  BY <1>0, <1>4 DEF ServiceDetail
<1>5. ASSUME current = "PaymentServiceSelection", NEW chosen \in SUBSET
             services, PaymentServiceSelection(evId, chosen \cup
             {"Charging"}, option)
      PROVE  Goal
  BY <1>0, <1>5 DEF PaymentServiceSelection
<1>6. ASSUME current = "CertificateInstallation", NEW sigOk \in BOOLEAN,
             NEW built \in BOOLEAN, CertificateInstallation(evId, sigOk,
             built)
      PROVE  Goal
  BY <1>0, <1>6 DEF CertificateInstallation
<1>7. ASSUME current = "PaymentDetails", NEW certsOk \in BOOLEAN, NEW
             answer \in Answers, NEW code \in AnswerCodes,
             PaymentDetails(evId, certsOk, answer, code)
      PROVE  Goal
  BY <1>0, <1>7 DEF PaymentDetails, Answers, AnswerCodes
<1>8. ASSUME current = "Authorization", NEW sigOk \in BOOLEAN, NEW ready
             \in BOOLEAN, NEW answer \in Answers, NEW code \in AnswerCodes,
             Authorization(evId, TRUE, sigOk, answer, code, ready)
      PROVE  Goal
  BY <1>0, <1>8 DEF Authorization, Answers, AnswerCodes
<1>9. ASSUME current = "ChargeParameterDiscovery", NEW list \in SUBSET
             Tuples, ChargeParameterDiscovery(evId, IF ac THEN "AC" ELSE
             "DC", list)
      PROVE  Goal
  <2>1. ac \in BOOLEAN /\ st = current /\ charger = "off"
    BY <1>0, <1>9 DEF InvEV, FlagsTyped
  <2> QED
    BY <1>0, <1>9, <2>1 DEF ChargeParameterDiscovery
<1>10. ASSUME current = "CableCheck", NEW evError \in BOOLEAN, NEW contactor
             \in {"closed", "open", "unknown"}, NEW isolation \in {"valid",
             "fault", "pending"}, CableCheck(evId, evError, contactor,
             isolation)
      PROVE  Goal
  BY <1>0, <1>10 DEF CableCheck
<1>11. ASSUME current = "PreCharge", NEW fault \in BOOLEAN, PreCharge(evId,
             fault)
      PROVE  Goal
  BY <1>0, <1>11 DEF PreCharge
<1>12. ASSUME current = "PowerDelivery", NEW profileOk \in BOOLEAN, NEW
             contactorOk \in BOOLEAN, PowerDelivery(evId, progress,
             schedule, profileOk, contactorOk)
      PROVE  Goal
  <2>1. /\ ac \in BOOLEAN /\ ac = isAC /\ current = "PowerDelivery"
        /\ progress \in {"Start", "Stop", "Renegotiate"}
        /\ option = selectedAuth
        /\ progress = "Renegotiate" => ac
    BY <1>0, <1>12 DEF InvEV, FlagsTyped
  <2>2. /\ progress = "Start" => st = IF ac THEN "PowerDelivery" ELSE "PreCharge"
        /\ progress # "Start" =>
             st \in IF ac THEN {"PowerDelivery", "ChargingStatus"}
                          ELSE {"CurrentDemand"}
    BY <1>0, <1>12, <2>1
  <2>3. /\ UNCHANGED <<sessionId, selectedAuth, services, isAC>>
        /\ evId = sessionId
    BY <1>0, <1>12, <2>1 DEF PowerDelivery
  <2>4. CASE phase' # "open" /\ res' \notin Passes /\ charger' = "off"
             /\ st' = current /\ res' # "FAILED_SequenceError"
             /\ res' # "FAILED_UnknownSession"
    BY <1>0, <2>1, <2>3, <2>4
  <2>5. CASE progress = "Start" /\ phase' = "open" /\ res' = "OK"
             /\ st' = (IF isAC THEN "ChargingStatus" ELSE "CurrentDemand")
             /\ selected' = schedule /\ charger' = charger
    BY <1>0, <2>1, <2>2, <2>3, <2>5
  <2>6. CASE progress = "Stop" /\ phase' = "open" /\ res' = "OK"
             /\ charger' = "off"
             /\ IF isAC THEN st' = "SessionStop"
                ELSE st' = current /\ inst' = "seen"
    BY <1>0, <2>1, <2>2, <2>3, <2>6
  <2>7. CASE progress = "Renegotiate" /\ phase' = "open" /\ res' = "OK"
             /\ st' = "ChargeParameterDiscovery" /\ charger' = charger
    BY <1>0, <2>1, <2>2, <2>3, <2>7
  <2> HIDE DEF Served
  <2> QED
    BY <1>0, <1>12, <2>1, <2>4, <2>5, <2>6, <2>7 DEF PowerDelivery
<1>13. ASSUME current = "ChargingStatus", ChargingStatus(evId)
      PROVE  Goal
  BY <1>0, <1>13 DEF ChargingStatus
<1>14. ASSUME current = "CurrentDemand", NEW commandOk \in BOOLEAN,
             CurrentDemand(evId, commandOk)
      PROVE  Goal
  BY <1>0, <1>14 DEF CurrentDemand
<1>15. ASSUME current = "WeldingDetection", WeldingDetection(evId)
      PROVE  Goal
  BY <1>0, <1>15 DEF WeldingDetection
<1>16. ASSUME current = "SessionStop", SessionStop(evId, FALSE)
      PROVE  Goal
  BY <1>0, <1>16 DEF SessionStop
<1>17. ~Refuse(current, evId)
  BY <1>0 DEF Refuse, Accepts
<1> HIDE DEF Goal
<1> QED
  BY <1>1, <1>2, <1>3, <1>4, <1>5, <1>6, <1>7, <1>8, <1>9, <1>10, <1>11, <1>12,
     <1>13, <1>14, <1>15, <1>16, <1>17 DEF ServesSetup, ServesCharging

\* The EVCC asks for what the SECC has got to, or gives up; and it reports as a
\* success what the SECC has ended by its SessionStopReq.
Asked ==
    /\ ~arrived' /\ (wire' /\ phase = "open" => Awaited')
    /\ SameSession' /\ Bearing' /\ SuccessAgreed'

\* What the EVCC makes of a response that is without a fault.
LEMMA Processing ==
    ASSUME Inv, InvEV, Bearing, SameSession, SuccessAgreed, Taken, ours,
           life = "open", arrived, reply.ok,
           reply.type = current, reply.sid = sessionId,
           reply.moved = (st # current),
           Processes(reply), wire' = (life' = "open" \/ Resends),
           UNCHANGED <<st, inst, phase, outcome, sessionId, selectedAuth, services,
                       selected, isAC>>
    PROVE  Asked
<1> DEFINE Goal == Asked
<1> SUFFICES Goal
  OBVIOUS
<1>0. /\ finishing => current \in {"PowerDelivery", "WeldingDetection",
                                   "SessionStop"}
      /\ ac \in BOOLEAN /\ finishing \in BOOLEAN /\ renegotiating \in BOOLEAN
  BY DEF InvEV, FlagsTyped, StopIsFinal
<1> USE DEF Asked, SameSession, SuccessAgreed, Taken, Awaited, Bearing,
            Answered, Matches, Reads, Delayed,
      Request, GiveUp, Ongoing, PowerDeliveryReq, ChargingLoopReq, StopCharging,
      RenegotiateEV, identity, energyEV, wishes, clock, Resends, SetupStates,
      SetupEV, LoopEV
<1>1. CASE SupportedAppProtocolRes(reply.moved)
  <2>1. ~arrived'
    BY <1>0, <1>1 DEF SupportedAppProtocolRes
  <2>2. wire' /\ phase = "open" => Awaited'
    BY <1>0, <1>1 DEF SupportedAppProtocolRes
  <2>3. SameSession'
    BY <1>0, <1>1 DEF SupportedAppProtocolRes
  <2>4. Bearing'
    BY <1>0, <1>1 DEF SupportedAppProtocolRes
  <2>5. SuccessAgreed'
    BY <1>0, <1>1 DEF SupportedAppProtocolRes
  <2> QED
    BY <2>1, <2>2, <2>3, <2>4, <2>5
<1>2. CASE SessionSetupRes(reply.sid)
  BY <1>0, <1>2 DEF SessionSetupRes
<1>3. ASSUME NEW mode \in {"AC", "DC"}, NEW n \in 0 .. MaxServices,
             n <= Cardinality(services),
             ServiceDiscoveryRes(reply.sid, TRUE, "PNC" \in reply.options,
                                 mode = "AC", mode \in Modes, n)
      PROVE  Goal
  <2>1. n > 0 => "Certificate" \in services
    <3>1. services = {} => Cardinality(services) = 0
      BY FS_EmptySet
    <3>2. services \subseteq {"Certificate"}
      BY DEF Inv, TypeOK
    <3> QED
      BY <1>3, <3>1, <3>2, EvccV2Assumption
  <2>2. ~arrived'
    BY <1>0, <1>3, <2>1, EvccV2Assumption DEF ServiceDiscoveryRes
  <2>3. wire' /\ phase = "open" => Awaited'
    BY <1>0, <1>3, <2>1, EvccV2Assumption DEF ServiceDiscoveryRes
  <2>4. SameSession'
    BY <1>0, <1>3, <2>1, EvccV2Assumption DEF ServiceDiscoveryRes
  <2>5. Bearing'
    BY <1>0, <1>3, <2>1, EvccV2Assumption DEF ServiceDiscoveryRes
  <2>6. SuccessAgreed'
    BY <1>0, <1>3, <2>1, EvccV2Assumption DEF ServiceDiscoveryRes
  <2> QED
    BY <2>2, <2>3, <2>4, <2>5, <2>6
<1>4. CASE ServiceDetailRes(reply.sid)
  BY <1>0, <1>4 DEF ServiceDetailRes
<1>5. ASSUME NEW needed \in BOOLEAN, NEW keys \in BOOLEAN,
             PaymentServiceSelectionRes(reply.sid, needed, keys)
      PROVE  Goal
  BY <1>0, <1>5 DEF PaymentServiceSelectionRes
<1>6. ASSUME NEW installed \in BOOLEAN, CertificateInstallationRes(reply.sid, installed)
      PROVE  Goal
  BY <1>0, <1>6 DEF CertificateInstallationRes
<1>7. ASSUME NEW keys \in BOOLEAN, PaymentDetailsRes(reply.sid, keys)
      PROVE  Goal
  BY <1>0, <1>7 DEF PaymentDetailsRes
<1>8. CASE AuthorizationRes(reply.sid, reply.moved)
  BY <1>0, <1>8 DEF AuthorizationRes
<1>9. ASSUME NEW tuple \in Tuples, NEW choice \in {"Start", "Stop"},
             ChargeParameterDiscoveryRes(reply.sid, reply.moved, choice, tuple)
      PROVE  Goal
  <2>1. ~arrived'
    BY <1>0, <1>9, V2LinkAssumption DEF ChargeParameterDiscoveryRes
  <2>2. wire' /\ phase = "open" => Awaited'
    BY <1>0, <1>9, V2LinkAssumption DEF ChargeParameterDiscoveryRes
  <2>3. SameSession'
    BY <1>0, <1>9, V2LinkAssumption DEF ChargeParameterDiscoveryRes
  <2>4. Bearing'
    BY <1>0, <1>9, V2LinkAssumption DEF ChargeParameterDiscoveryRes
  <2>5. SuccessAgreed'
    BY <1>0, <1>9, V2LinkAssumption DEF ChargeParameterDiscoveryRes
  <2> QED
    BY <2>1, <2>2, <2>3, <2>4, <2>5
<1>10. ASSUME NEW safe \in BOOLEAN, CableCheckRes(reply.sid, reply.moved, safe)
      PROVE  Goal
  BY <1>0, <1>10 DEF CableCheckRes
<1>11. ASSUME NEW precharged \in BOOLEAN, PreChargeRes(reply.sid, precharged)
      PROVE  Goal
  <2>1. ~arrived'
    BY <1>0, <1>11 DEF PreChargeRes
  <2>2. wire' /\ phase = "open" => Awaited'
    BY <1>0, <1>11 DEF PreChargeRes
  <2>3. SameSession'
    BY <1>0, <1>11 DEF PreChargeRes
  <2>4. Bearing'
    BY <1>0, <1>11 DEF PreChargeRes
  <2>5. SuccessAgreed'
    BY <1>0, <1>11 DEF PreChargeRes
  <2> QED
    BY <2>1, <2>2, <2>3, <2>4, <2>5
<1>12. CASE PowerDeliveryRes(reply.sid)
  BY <1>0, <1>12 DEF PowerDeliveryRes
<1>13. ASSUME NEW n \in Notifications, NEW going \in BOOLEAN,
             ChargingStatusRes(reply.sid, FALSE, TRUE, n, going)
      PROVE  Goal
  <2>1. ~arrived'
    BY <1>0, <1>13 DEF ChargingStatusRes
  <2>2. wire' /\ phase = "open" => Awaited'
    BY <1>0, <1>13 DEF ChargingStatusRes
  <2>3. SameSession'
    BY <1>0, <1>13 DEF ChargingStatusRes
  <2>4. Bearing'
    BY <1>0, <1>13 DEF ChargingStatusRes
  <2>5. SuccessAgreed'
    BY <1>0, <1>13 DEF ChargingStatusRes
  <2> QED
    BY <2>1, <2>2, <2>3, <2>4, <2>5
<1>14. ASSUME NEW n \in Notifications, NEW going \in BOOLEAN,
             CurrentDemandRes(reply.sid, n, going)
      PROVE  Goal
  <2>1. ~arrived'
    BY <1>0, <1>14 DEF CurrentDemandRes
  <2>2. wire' /\ phase = "open" => Awaited'
    BY <1>0, <1>14 DEF CurrentDemandRes
  <2>3. SameSession'
    BY <1>0, <1>14 DEF CurrentDemandRes
  <2>4. Bearing'
    BY <1>0, <1>14 DEF CurrentDemandRes
  <2>5. SuccessAgreed'
    BY <1>0, <1>14 DEF CurrentDemandRes
  <2> QED
    BY <2>1, <2>2, <2>3, <2>4, <2>5
<1>15. ASSUME NEW finished \in BOOLEAN, WeldingDetectionRes(reply.sid, finished)
      PROVE  Goal
  BY <1>0, <1>15 DEF WeldingDetectionRes
<1>16. CASE SessionStopRes(reply.sid)
  BY <1>0, <1>16 DEF SessionStopRes
<1> HIDE DEF Goal
<1> QED
  BY <1>1, <1>2, <1>3, <1>4, <1>5, <1>6, <1>7, <1>8,
     <1>9, <1>10, <1>11, <1>12, <1>13, <1>14, <1>15, <1>16 DEF Processes

\* When the EVCC gives up, what the two sides have agreed stays as it is.
LEMMA GivingUp ==
    ASSUME Fit, ours, life' # "open", ~success', UNCHANGED vars,
           UNCHANGED <<current, identity, energyEV, wishes>>,
           wire' \in BOOLEAN, wire' /\ phase = "open" => wire,
           reply' \in {reply, NoReply}
    PROVE  Fit'
<1> USE DEF Fit, vars, identity, energyEV, wishes, auth, energy, link, history
<1>1. LinkTyped'
  <2>1. CASE reply' = reply
    BY <2>1 DEF LinkTyped
  <2>2. CASE reply' = NoReply
    BY <2>2, V2LinkAssumption DEF LinkTyped, NoReply
  <2> QED
    BY <2>1, <2>2
<1>2. InStep'
  BY DEF InStep, Awaited, Delayed
<1>3. Bearing'
  BY DEF Bearing
<1>4. SameSession' /\ Powered' /\ Unrefused'
  BY DEF SameSession, Powered, Unrefused, NoSequenceError, SuccessAgreed, Delayed
<1> QED
  BY <1>1, <1>2, <1>3, <1>4

\* When the SECC ends the session by itself, what the two sides have agreed stays
\* as it is.
LEMMA SeccAlone ==
    ASSUME Fit, ours, UNCHANGED <<varsEV, wire, reply, st, inst, sessionId, auth, energy>>,
           phase' # "open", phase # "open" \/ outcome' = "terminate",
           outcome' \in {outcome, "terminate"}, res' \in {res, "none"},
           charger' \in {charger, "off"}
    PROVE  Fit'
<1> USE DEF Fit, varsEV, identity, energyEV, wishes, clock, auth, energy
<1>1. LinkTyped'
  BY DEF LinkTyped
<1>2. InStep'
  BY DEF InStep, Taken, Delayed
<1>3. Bearing'
  BY DEF Bearing
<1>4. SameSession' /\ Powered' /\ Unrefused'
  BY DEF SameSession, Powered, Unrefused, NoSequenceError, SuccessAgreed, Delayed
<1> QED
  BY <1>1, <1>2, <1>3, <1>4

\* Every step keeps the two sides fitting.
LEMMA FitStep ==
    LinkInv /\ ours /\ Inv' /\ InvEV' /\ [NextLink]_linkVars => Fit'
<1> SUFFICES ASSUME LinkInv, ours, Inv', InvEV', [NextLink]_linkVars PROVE Fit'
  OBVIOUS
<1>0. /\ Inv /\ InvEV /\ Fit /\ ours
      /\ LinkTyped /\ Bearing /\ InStep /\ SameSession /\ Powered
      /\ NoSequenceError /\ SuccessAgreed
  BY DEF LinkInv, Fit, Unrefused
<1>1. CASE Serve
  <2>1. /\ wire /\ wire' = FALSE
        /\ UNCHANGED <<current, life, success, identity, energyEV, wishes, enabled>>
    BY <1>1 DEF Serve, Arrive, varsEV, clock
  <2>2. Served
    <3>1. phase = "open" => Awaited
      BY <1>0, <2>1 DEF InStep
    <3> QED
      BY <1>0, <1>1, <2>1, <3>1, Serving, ServingDelayed
         DEF Serve, identity, energyEV
  <2>3. Bearing'
    BY <1>0, <2>1 DEF Bearing, identity, energyEV, wishes
  <2>4. SameSession' /\ Powered' /\ Unrefused'
    BY <1>0, <2>1, <2>2 DEF Served, Unrefused, SuccessAgreed
  <2>5. LinkTyped' /\ InStep'
    <3>1. CASE life = "open"
      <4>1. /\ reply' = [type |-> current, ok |-> res' \in Passes,
                         sid |-> sessionId', moved |-> st' # current,
                         options |-> offeredAuth', list |-> offered']
            /\ arrived'
        BY <1>1, <3>1 DEF Serve, Arrive
      <4>2. /\ reply'.type = current /\ reply'.ok = (res' \in Passes)
            /\ reply'.sid = sessionId' /\ reply'.moved = (st' # current)
        BY <4>1
      <4>3. sessionId' \in Ids \cup {ZeroId} /\ current \in StatesEV
        BY <1>0, SameIds DEF Inv, TypeOK, InvEV, StandTyped
      <4>4. LinkTyped'
        <5>1. (res' \in Passes) \in BOOLEAN /\ (st' # current) \in BOOLEAN
          OBVIOUS
        <5> QED
          BY <2>1, <4>2, <4>3, <5>1 DEF LinkTyped
      <4>5. InStep'
        BY <2>1, <2>2, <4>1, <4>2 DEF InStep, Served
      <4> QED
        BY <4>4, <4>5
    <3>2. CASE life # "open"
      <4>1. reply' = reply
        BY <1>1, <3>2 DEF Serve
      <4> QED
        BY <1>0, <2>1, <3>2, <4>1 DEF LinkTyped, InStep
    <3> QED
      BY <3>1, <3>2
  <2> QED
    BY <2>3, <2>4, <2>5 DEF Fit
<1>2. CASE SeccGivesUp
  BY <1>0, <1>2, SeccAlone DEF SeccGivesUp, Abort, Stopping, Own
<1>3. CASE SeccStops
  BY <1>0, <1>3, SeccAlone DEF SeccStops, EndSession, CloseConnection
<1>4. CASE EvTurn
  <2>1. reply' = NoReply /\ UNCHANGED vars
    BY <1>4 DEF EvTurn
  <2>2. Processes(reply) \/ RefuseEV(reply.type, reply.ok, reply.sid) \/ AbortEV =>
          life = "open" /\ arrived
    BY DEF Processes, RefuseEV, AbortEV, SupportedAppProtocolRes,
       SessionSetupRes, ServiceDiscoveryRes, ServiceDetailRes,
       PaymentServiceSelectionRes, CertificateInstallationRes, PaymentDetailsRes,
       AuthorizationRes, ChargeParameterDiscoveryRes, CableCheckRes, PreChargeRes,
       PowerDeliveryRes, ChargingStatusRes, CurrentDemandRes, WeldingDetectionRes,
       SessionStopRes, Answered, Reads
  <2>3. life = "open" /\ arrived
    BY <1>4, <2>2 DEF EvTurn
  <2>4. /\ reply.type = current /\ reply.sid = sessionId
        /\ reply.moved = (st # current)
        /\ reply.ok => Taken
        /\ phase = "open" /\ ~reply.ok => current # "WeldingDetection"
    BY <1>0, <2>3 DEF InStep
  <2>5. CASE reply.ok /\ Processes(reply) /\ wire' = (life' = "open" \/ Resends)
    <3>1. Asked
      BY <1>0, <2>1, <2>3, <2>4, <2>5, Processing DEF vars, auth, energy
    <3>2. LinkTyped'
      BY <2>1, <2>5, V2LinkAssumption DEF LinkTyped, NoReply
    <3>3. InStep'
      BY <2>1, <2>5, <3>1 DEF InStep, Asked, vars
    <3>4. res # "FAILED_SequenceError"
      BY <1>0, <2>4, <2>5 DEF NoSequenceError, Taken
    <3>5. Powered' /\ Unrefused'
      BY <1>0, <2>1, <3>1, <3>4
      DEF Powered, Unrefused, NoSequenceError, Asked, vars, auth, energy
    <3> QED
      BY <3>1, <3>2, <3>3, <3>5 DEF Fit, Asked
  <2>6. CASE /\ RefuseEV(reply.type, reply.ok, reply.sid)
             /\ wire' = (life' = "open" \/ Resends)
    <3>1. /\ life' # "open" /\ ~success'
          /\ UNCHANGED <<current, identity, energyEV, wishes>>
      BY <2>6 DEF RefuseEV, GiveUp
    <3>2. ~reply.ok
      BY <1>0, <2>4, <2>6 DEF RefuseEV, Matches, SameSession
    <3>3. wire' \in BOOLEAN /\ (wire' => phase # "open")
      BY <2>4, <2>6, <3>1, <3>2 DEF Resends
    <3> QED
      BY <1>0, <2>1, <3>1, <3>3, GivingUp
  <2>7. CASE AbortEV /\ wire' = FALSE
    BY <1>0, <2>1, <2>7, GivingUp DEF AbortEV, GiveUp
  <2> QED
    BY <1>4, <2>5, <2>6, <2>7 DEF EvTurn
<1>5. CASE EvGivesUp
  BY <1>0, <1>5, GivingUp DEF EvGivesUp, TimeoutEV, GiveUp, LinkTyped
<1>6. CASE EvTime
  <2>1. /\ UNCHANGED <<vars, wire, reply>>
        /\ UNCHANGED <<current, arrived, success, identity, energyEV, wishes>>
        /\ life' = "open" => life = "open" /\ enabled' = enabled
    BY <1>6 DEF EvTime, TimerExpires, Disable, Close
  <2> USE DEF vars, identity, energyEV, wishes, auth, energy
  <2>2. LinkTyped' /\ Bearing'
    BY <1>0, <2>1 DEF LinkTyped, Bearing
  <2>3. InStep'
    BY <1>0, <2>1 DEF InStep, Awaited, Taken, Delayed
  <2>4. SameSession' /\ Powered' /\ Unrefused'
    BY <1>0, <2>1 DEF SameSession, Powered, Unrefused, NoSequenceError,
       Delayed, SuccessAgreed
  <2> QED
    BY <2>2, <2>3, <2>4 DEF Fit
<1>7. CASE UNCHANGED linkVars
  <2> USE <1>0, <1>7 DEF linkVars, vars, varsEV, identity, energyEV, wishes, auth,
        energy
  <2>1. LinkTyped' /\ Bearing'
    BY DEF LinkTyped, Bearing
  <2>2. InStep'
    BY DEF InStep, Awaited, Taken, Delayed
  <2>3. SameSession' /\ Powered' /\ Unrefused'
    BY DEF SameSession, Powered, Unrefused, NoSequenceError, SuccessAgreed, Delayed
  <2> QED
    BY <2>1, <2>2, <2>3 DEF Fit
<1>8. ~ForeignTurn
  BY <1>0 DEF ForeignTurn
<1> QED
  BY <1>1, <1>2, <1>3, <1>4, <1>5, <1>6, <1>7, <1>8 DEF NextLink

\* The inductive invariant of the pair holds in every reachable state.
THEOREM LinkInvCorrect == SpecLink => []LinkInv
<1>1. LinkInv /\ [NextLink]_linkVars => LinkInv'
  <2> SUFFICES ASSUME LinkInv, [NextLink]_linkVars PROVE LinkInv'
    OBVIOUS
  <2>1. Inv'
    BY SeccStep, InvStep DEF LinkInv
  <2>2. InvEV'
    BY EvStep, InvStepEV DEF LinkInv
  <2>3. ours' = ours
    BY DEF NextLink, linkVars, Serve, SeccGivesUp, SeccStops, EvTurn, ForeignTurn,
       EvGivesUp, EvTime
  <2> QED
    BY <2>1, <2>2, <2>3, FitStep DEF LinkInv
<1> QED
  BY <1>1, LinkInit, PTL DEF SpecLink

-----------------------------------------------------------------------------
(* The properties of the pair.                                             *)

\* The pair takes only steps that either side may take, so that what is proved
\* of each side with an arbitrary peer holds with the other side as its peer.
THEOREM SidesRefined == SpecLink => [][Next]_vars /\ [][NextEV]_varsEV
<1>1. LinkInv /\ [NextLink]_linkVars => [Next]_vars /\ [NextEV]_varsEV
  BY SeccStep, EvStep
<1> QED
  BY <1>1, LinkInvCorrect, PTL DEF SpecLink

\* Authorization precedes power in the pair too.
THEOREM PowerAuthorizedInLink == SpecLink => []AuthorizedBeforePower
<1>1. LinkInv => AuthorizedBeforePower
  BY DEF LinkInv, Inv, Authorized, AuthorizedBeforePower
<1> QED
  BY <1>1, LinkInvCorrect, PTL

\* In the link too, with either SECC, charging is enabled in the vehicle only
\* within the session, no wait inherits the time of another, and a stop is final.
THEOREM VehicleInLink ==
    SpecLink => [](EnabledInSession /\ TimerOwn /\ StopIsFinal)
<1>1. LinkInv => EnabledInSession /\ TimerOwn /\ StopIsFinal
  BY DEF LinkInv, InvEV
<1> QED
  BY <1>1, LinkInvCorrect, PTL

\* The SECC of the pair implements the charging session, and settles the payment
\* option of each session once.
THEOREM SessionInLink == SpecLink => ImplementsSession /\ PaymentOptionSettled
<1>1. InitLink => Session!Init
  BY DEF InitLink, Init, Session!Init, Stage, SetupStates
<1>2. LinkInv /\ [NextLink]_linkVars =>
        [Session!Next]_(Session!vars) /\ [OptionKept]_vars
  BY SeccStep, SessionStep, OptionStep DEF LinkInv
<1>3. PaymentOptionSettled <=> [][OptionKept]_vars
  BY DEF PaymentOptionSettled, OptionKept
<1> QED
  BY <1>1, <1>2, <1>3, LinkInvCorrect, PTL
  DEF SpecLink, ImplementsSession, Session!Spec

\* The EVCC keeps the session of the SECC, and the sequence unless its controller
\* has delayed the start of charging.
THEOREM NeverOutOfSequence == SpecLink => []NoSequenceError
<1>1. LinkInv => NoSequenceError
  BY DEF LinkInv, Fit, Unrefused, NoSequenceError
<1> QED
  BY <1>1, LinkInvCorrect, PTL

\* In the charging loop the two sides hold the same session, option and type, and
\* the same schedule unless the start was delayed.
THEOREM AgreedWhileCharging == SpecLink => []AgreedInLoop
<1>1. LinkInv => AgreedInLoop
  <2> SUFFICES ASSUME LinkInv, ours, phase = "open", life = "open",
                      current \in LoopEV, reply = NoReply
               PROVE  /\ evId = sessionId /\ option = selectedAuth
                      /\ ac = isAC /\ granted
                      /\ IF Delayed THEN st = "SessionStop"
                                    ELSE st = current /\ schedule = selected
    BY DEF AgreedInLoop
  <2>1. wire
    BY DEF LinkInv, Fit, InStep, NoReply, LoopEV
  <2>2. IF Delayed THEN st = "SessionStop" ELSE st = current /\ selected = schedule
    BY <2>1 DEF LinkInv, Fit, InStep, Awaited
  <2>3. st \in LoopEV \cup {"SessionStop"}
    BY <2>2
  <2>4. st \notin SetupStates \cup {"ChargeParameterDiscovery"}
    BY <2>3 DEF LoopEV, SetupStates
  <2>5. granted
    BY <2>4 DEF LinkInv, Inv, Authorized
  <2> QED
    BY <2>2, <2>4, <2>5 DEF LinkInv, Fit, SameSession, LoopEV, SetupStates
<1> QED
  BY <1>1, LinkInvCorrect, PTL

\* Power flows only into a vehicle in which charging is enabled, and none flows
\* while it tests for welded contactors or when the session is stopped.
THEOREM PowerFlowsIntoVehicle == SpecLink => []PowerIntoVehicle
<1>1. LinkInv => PowerIntoVehicle
  <2> SUFFICES ASSUME LinkInv, ours, life = "open"
               PROVE  /\ charger # "off" => enabled
                      /\ current = "WeldingDetection" => charger = "off" /\ ~enabled
                      /\ current = "SessionStop" => charger = "off"
    BY DEF PowerIntoVehicle
  <2>1. /\ Bearing /\ InStep /\ Powered
        /\ EnabledInSession /\ ChargerOffAtEnd
        /\ current \in StatesEV \ {"MeteringReceipt"}
    BY DEF LinkInv, Fit, Inv, InvEV, StandTyped, Bearing
  <2>2. phase = "open" => Awaited \/ Taken
    BY <2>1 DEF InStep
  <2>3. ASSUME charger # "off"
        PROVE  current \in LoopEV \cup {"CableCheck", "PreCharge", "PowerDelivery"}
    <3>1. phase = "open"
      BY <2>1, <2>3 DEF ChargerOffAtEnd
    <3>2. CASE Awaited
      BY <2>1, <2>3, <3>1, <3>2 DEF Powered, Awaited, StatesEV, SetupEV, LoopEV
    <3>3. CASE Taken
      BY <2>1, <2>3, <3>1, <3>3 DEF Powered, Taken, StatesEV, SetupEV, LoopEV
    <3> QED
      BY <2>2, <3>1, <3>2, <3>3
  <2>4. charger # "off" => enabled
    BY <2>1, <2>3 DEF Bearing
  <2>5. current = "WeldingDetection" => ~enabled
    BY <2>1 DEF Bearing, EnabledInSession
  <2> QED
    BY <2>3, <2>4, <2>5 DEF LoopEV
<1> QED
  BY <1>1, LinkInvCorrect, PTL

\* What the vehicle reports as a success the SECC has ended as well.
THEOREM SuccessOnBothSides == SpecLink => []SuccessAgreed
<1>1. LinkInv => SuccessAgreed
  BY DEF LinkInv, Fit, Unrefused, SuccessAgreed
<1> QED
  BY <1>1, LinkInvCorrect, PTL
=============================================================================
