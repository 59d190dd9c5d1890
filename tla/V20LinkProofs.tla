--------------------------- MODULE V20LinkProofs ----------------------------
(***************************************************************************)
(* Proofs about the pair of V20Link, for any identifiers, services,        *)
(* schedules and configuration: every step of the pair is a step, or a     *)
(* stutter, of either side, which carries the invariants of SeccV20 and    *)
(* EvccV20 over; and what the two sides know of each other fits.           *)
(***************************************************************************)
EXTENDS V20Link, V20Proofs

-----------------------------------------------------------------------------
(* The inductive invariant.                                                *)

\* Only an SECC of this repository takes part in the alternation of requests
\* and responses, and what it replies is well formed.
LinkTyped ==
    /\ ours \in BOOLEAN /\ wire \in BOOLEAN /\ (wire => ours)
    /\ reply.type \in StatesEV \cup {"none"}
    /\ reply.ok \in BOOLEAN /\ reply.finished \in BOOLEAN
    /\ reply.sid \in Ids \cup {ZeroId} /\ reply.tuples \subseteq Tuples

\* Where the EVCC's handlers leave the service, the profile and the end it has
\* chosen, and its contactors.
Chosen ==
    /\ current = "ServiceDetail" => asked \in found
    /\ current \notin BeforeSelection =>
         energy \in described /\ control \in {"SCHEDULED", "DYNAMIC"}
    /\ current \in {"ACChargeParameterDiscovery", "ACChargeLoop"} =>
         energy \in ACEnergy
    /\ current \in {"DCChargeParameterDiscovery", "DCCableCheck", "DCPreCharge",
                    "DCChargeLoop", "DCWeldingDetection"} => energy \in DCEnergy
    /\ current \in {"ScheduleExchange", "PowerDelivery"} =>
         energy \in ACEnergy \cup DCEnergy
    /\ current \in {"ACChargeParameterDiscovery", "DCChargeParameterDiscovery",
                    "ScheduleExchange"} => ac = (energy \in ACEnergy)
Wishes ==
    /\ current \in SetupEV => ~working
    /\ current = "PowerDelivery" =>
         /\ said \in Verdicts
         /\ working = (said = "ongoing")
         /\ (said = "Stop") = (stop # "none")
         /\ said = "Start" /\ control = "SCHEDULED" => profile \in list
    /\ current \notin SetupEV \cup {"SessionStop"} => Tuples # {}
    /\ current = "DCWeldingDetection" => stop # "none"
    /\ current = "SessionStop" =>
         /\ said \in {"terminate", "renegotiate"} /\ stop # "none"
         /\ said = "renegotiate" => stop = "renegotiate"
    /\ stop = "renegotiate" /\ life = "open" => renegotiating
    /\ current \notin BeforeAuthorized \cup {"ServiceDiscovery"} =>
         renegotiable = Renegotiable
Switched ==
    /\ again => current \in {"DCCableCheck", "DCPreCharge", "DCChargeLoop",
                             "DCWeldingDetection"}
    /\ life = "open" /\ current \in LoopEV \cup {"DCCableCheck", "DCPreCharge",
                                                 "PowerDelivery"} => enabled
Bearing == Chosen /\ Wishes /\ Switched

\* The schedule is the one that the SECC has accepted.
SameSchedule == control = "SCHEDULED" => profile = accepted /\ profile \in list

\* The state of the SECC in which the request of the EVCC finds it.
Awaited ==
    /\ current \in {"SupportedAppProtocol", "SessionSetup",
                    "AuthorizationSetup", "ACChargeParameterDiscovery",
                    "DCChargeParameterDiscovery", "ScheduleExchange"}
                   \cup LoopEV
         => st = current
    /\ current = "CertificateInstallation" =>
         st = "AuthorizationSetup" /\ inst # "fresh"
    /\ current = "Authorization" =>
         st = current \/ (st = "AuthorizationSetup" /\ inst # "fresh")
    /\ current = "ServiceDiscovery" => st = "Authorization" /\ inst # "fresh"
    /\ current = "ServiceDetail" =>
         st \in {"ServiceDiscovery", "ServiceDetail"} /\ inst # "fresh"
    /\ current = "ServiceSelection" => st = "ServiceDetail" /\ inst # "fresh"
    /\ current = "DCCableCheck" => st \in {"ScheduleExchange", "DCCableCheck"}
    /\ current = "DCPreCharge" => st \in {"DCPreCharge", "PowerDelivery"}
    /\ current = "PowerDelivery" =>
         IF said = "Stop"
         THEN IF energy \in ACEnergy THEN st = "ACChargeLoop"
              ELSE st = "DCChargeLoop" /\ inst # "fresh"
         ELSE st = current \/ (st = "DCPreCharge" /\ inst # "fresh")
    /\ current \in LoopEV => SameSchedule
    /\ current = "DCWeldingDetection" =>
         st = "PowerDelivery" \/ (st = current /\ inst # "fresh")
    /\ current = "SessionStop" =>
         \/ st \in {"ServiceDiscovery", "DCWeldingDetection"} /\ inst # "fresh"
         \/ st = "PowerDelivery"

\* The state of the SECC to which a request without a fault has taken it; f:
\* what its response says of EVSEProcessing, or of the protocols offered.
Taken(f) ==
    /\ current = "SupportedAppProtocol" =>
         st = IF f THEN "SessionSetup" ELSE current
    /\ current = "SessionSetup" => st = "AuthorizationSetup"
    /\ current \in {"AuthorizationSetup", "ServiceDiscovery", "ServiceDetail",
                    "DCChargeLoop", "DCWeldingDetection"}
         => st = current /\ inst # "fresh"
    /\ current \in {"CertificateInstallation", "Authorization", "ACChargeLoop"}
         => st = current
    /\ current = "Authorization" /\ f => inst # "fresh"
    /\ current = "ServiceDetail" => asked \in detailed
    /\ current = "ServiceSelection" =>
         st = IF energy \in ACEnergy THEN "ACChargeParameterDiscovery"
                                     ELSE "DCChargeParameterDiscovery"
    /\ current \in {"ACChargeParameterDiscovery", "DCChargeParameterDiscovery"}
         => st = "ScheduleExchange"
    /\ current = "ScheduleExchange" =>
         st = (IF f /\ ac THEN "PowerDelivery" ELSE current) /\ Tuples # {}
    /\ current = "DCCableCheck" =>
         st = IF f THEN "DCPreCharge" ELSE current
    /\ current = "DCPreCharge" =>
         st = "PowerDelivery" \/ (st = current /\ inst # "fresh")
    /\ current = "PowerDelivery" =>
         st = IF said # "Start" THEN current
              ELSE IF energy \in ACEnergy THEN "ACChargeLoop"
                                          ELSE "DCChargeLoop"
    /\ current \in LoopEV \/ (current = "PowerDelivery" /\ said = "Start")
         => SameSchedule
    /\ current = "SessionStop" =>
         \/ /\ st = current /\ phase # "open"
            /\ reason \in {"terminated", "paused"}
         \/ said = "renegotiate" /\ Renegotiable /\ st = "ServiceDiscovery"

\* Request and response alternate as long as the EVCC takes part, but for a
\* CertificateInstallationReq, which is not answered; and a request in the
\* stream is awaited even when the EVCC no longer takes part.
InStep ==
    /\ wire /\ phase = "open" => Awaited
    /\ life = "open" =>
         \/ wire /\ ~arrived
         \/ /\ ~wire /\ arrived
            /\ reply.type = current /\ reply.sid = sessionId
            /\ reply.offer = matched /\ reply.tuples = offered
            /\ reply.ok \/ phase = "open" => Taken(reply.finished)
            /\ phase = "open" /\ ~reply.ok => current = "Authorization"
         \/ /\ ~wire /\ ~arrived
            /\ phase # "open" /\ current = "CertificateInstallation"

\* Both sides name the same session once it has been set up, the same services
\* as they are negotiated, and the same schedules.
Agreement ==
    /\ current \notin {"SupportedAppProtocol", "SessionSetup"} =>
         evId = sessionId /\ st \notin {"SupportedAppProtocol", "SessionSetup"}
    /\ found \subseteq matched /\ described \subseteq detailed
    /\ phase = "open" /\ st \in ParameterStates \cup DeliveryStates =>
         energy = service /\ control = mode
    /\ current \notin SetupEV \cup {"SessionStop"} => list = offered

\* The charger and HLC are on only where energy is transferred or prepared.
Powered ==
    phase = "open" /\ (charger # "off" \/ hlc) =>
        \/ st = "DCCableCheck" /\ inst # "fresh"
        \/ st \in {"DCPreCharge", "ACChargeLoop", "DCChargeLoop"}
        \/ /\ st = "PowerDelivery"
           /\ \/ current = "DCPreCharge"
              \/ current = "PowerDelivery" /\ said # "Stop"

\* The SECC refuses nothing but a precharge that comes after its end, and then
\* the session is over for the EVCC as well.
Unrefused ==
    /\ RequestsFit /\ SuccessAgreed
    /\ res = "FAILED_SequenceError" =>
         /\ phase # "open"
         /\ life = "open" => ~wire /\ arrived /\ ~reply.ok

Fit == LinkTyped
       /\ (ours => Bearing /\ InStep /\ Agreement /\ Powered /\ Unrefused)
LinkInv == Inv /\ InvEV /\ Fit

\* The identifiers of the two sides are the same, and the services of the EVCC
\* are known to the SECC.
LEMMA SameIds == /\ SessionIds \cup {NoId} = Ids \cup {ZeroId}
                 /\ Energy \subseteq Services
  BY V20LinkAssumption DEF Energy, Services

\* The initial state satisfies the invariant.
LEMMA LinkInit == InitLink => LinkInv
<1> SUFFICES ASSUME InitLink PROVE LinkInv
  OBVIOUS
<1>1. Inv /\ InvEV
  BY InvInit, InvInitEV DEF InitLink
<1>2. LinkTyped
  BY V20LinkAssumption DEF InitLink, LinkTyped, NoReply
<1>3. Bearing
  BY DEF InitLink, Bearing, Chosen, Wishes, Switched, Init, InitEV,
     BeforeSelection, BeforeAuthorized, LoopEV, SetupEV
<1>4. ours => InStep
  BY DEF InitLink, InStep, Init, InitEV, Awaited, LoopEV
<1>5. Agreement /\ Powered /\ Unrefused
  BY DEF InitLink, Init, InitEV, Agreement, Powered, Unrefused, RequestsFit,
     SuccessAgreed, ParameterStates, DeliveryStates, SetupEV
<1> QED
  BY <1>1, <1>2, <1>3, <1>4, <1>5 DEF LinkInv, Fit

-----------------------------------------------------------------------------
(* Every step of the pair is a step of either side, or leaves it alone.    *)

\* What the EVCC says of its power profile is a request of any EVCC: a schedule
\* counts only when charging begins in scheduled mode.
LEMMA PowerDeliveryHandles ==
    ASSUME Inv, InvEV, Bearing, Agreement, current = "PowerDelivery",
           NEW contactorOk \in BOOLEAN,
           PowerDelivery(evId, said = "ongoing", said, profile, contactorOk)
    PROVE  Handle(evId)
<1>1. /\ said \in {"ongoing", "Start", "Stop"} /\ Tuples # {}
      /\ said = "Start" /\ control = "SCHEDULED" => profile \in Tuples
  BY V20LinkAssumption DEF Bearing, Wishes, Verdicts, SetupEV, InvEV, TypeOKEV
<1>2. control = mode
  <2>1. phase = "open" /\ "PowerDelivery" \in Accepted
    BY DEF PowerDelivery, Accepts
  <2>2. st \in ParameterStates \cup DeliveryStates
    BY <2>1 DEF Inv, TypeOK, States, AuthStates, ServiceStates, ParameterStates,
       DeliveryStates, Accepted, Lists
  <2> QED
    BY <2>1, <2>2 DEF Agreement
<1>3. PICK t \in Tuples : said = "Start" /\ control = "SCHEDULED" => t = profile
  BY <1>1
<1>4. CASE said = "ongoing"
  <2>1. PowerDelivery(evId, TRUE, "Start", t, contactorOk)
    BY <1>4 DEF PowerDelivery
  <2> QED
    BY <2>1 DEF Handle
<1>5. CASE said = "Start"
  <2>1. PowerDelivery(evId, FALSE, said, t, contactorOk)
    BY <1>2, <1>3, <1>5 DEF PowerDelivery, BeginCharging
  <2> QED
    BY <1>5, <2>1 DEF Handle
<1>6. CASE said = "Stop"
  <2>1. PowerDelivery(evId, FALSE, said, t, contactorOk)
    BY <1>6 DEF PowerDelivery
  <2> QED
    BY <1>6, <2>1 DEF Handle
<1> QED
  BY <1>1, <1>4, <1>5, <1>6

\* What the SECC serves is a request of any EVCC.
LEMMA ServesHandles ==
    ASSUME Inv, InvEV, Bearing, Agreement, NEW f \in BOOLEAN,
           ServesSetup(f) \/ ServesCharging(f) \/ (f /\ Refuse(current, evId))
    PROVE  [Next]_vars
<1> SUFFICES Handle(evId)
  BY SameIds DEF Next, InvEV, TypeOKEV
<1>1. CASE ServesSetup(f) /\ current \notin {"Authorization", "ServiceDetail",
                                             "ServiceSelection"}
  BY <1>1 DEF ServesSetup, Handle
<1>2. ASSUME NEW sigOk \in BOOLEAN, NEW challengeOk \in BOOLEAN,
             NEW answer \in Answers, NEW code \in {"none", "OK", "FAILED"},
             Authorization(evId, said = "PNC", sigOk, challengeOk, answer, code)
      PROVE  Handle(evId)
  <2>1. PICK pnc \in BOOLEAN : pnc = (said = "PNC")
    OBVIOUS
  <2>2. Authorization(evId, pnc, sigOk, challengeOk, answer, code)
    BY <1>2, <2>1 DEF Authorization
  <2> QED
    BY <2>2 DEF Handle
<1>3. CASE current = "ServiceDetail" /\ ServiceDetail(evId, asked)
  <2>1. asked \in Services
    BY <1>3, SameIds DEF Bearing, Chosen, InvEV, TypeOKEV
  <2> QED
    BY <1>3, <2>1 DEF Handle
<1>4. ASSUME current = "ServiceSelection", NEW vasOk \in BOOLEAN,
             ServiceSelection(evId, energy, control, vasOk)
      PROVE  Handle(evId)
  <2>1. energy \in Services /\ control \in {"SCHEDULED", "DYNAMIC"}
    BY <1>4, SameIds DEF Bearing, Chosen, InvEV, TypeOKEV, BeforeSelection,
       BeforeAuthorized
  <2> QED
    BY <1>4, <2>1 DEF Handle
<1>5. CASE ServesCharging(f) /\ current \in {"ACChargeParameterDiscovery",
                                             "DCChargeParameterDiscovery"}
  BY <1>5 DEF ServesCharging, Handle, ACChargeParameterDiscovery,
     DCChargeParameterDiscovery
<1>6. CASE ServesCharging(f) /\ current \in {"ScheduleExchange", "DCCableCheck"}
  BY <1>6 DEF ServesCharging, Handle
<1>7. ASSUME NEW commandOk \in BOOLEAN,
             DCPreCharge(evId, said = "finished", commandOk)
      PROVE  Handle(evId)
  <2>1. (said = "finished") \in BOOLEAN
    OBVIOUS
  <2> QED
    BY <1>7, <2>1 DEF Handle
<1>8. CASE ServesCharging(f) /\ current \in LoopEV \cup {"DCWeldingDetection"}
  BY <1>8 DEF ServesCharging, Handle, LoopEV
<1>9. CASE current = "SessionStop" /\ SessionStop(evId, said)
  <2>1. said \in {"terminate", "renegotiate"}
    BY <1>9 DEF Bearing, Wishes
  <2> QED
    BY <1>9, <2>1 DEF Handle
<1>10. CASE Refuse(current, evId)
  <2>1. current \in States
    BY DEF InvEV, TypeOKEV, StatesEV, SetupEV, LoopEV, States, AuthStates,
       ServiceStates, ParameterStates, DeliveryStates
  <2> QED
    BY <1>10, <2>1 DEF Handle
<1> QED
  BY <1>1, <1>2, <1>3, <1>4, <1>5, <1>6, <1>7, <1>8, <1>9, <1>10,
     PowerDeliveryHandles DEF ServesSetup, ServesCharging, LoopEV

\* What the EVCC processes is a response of any SECC.
LEMMA ProcessesTurns ==
    ASSUME InvEV, LinkTyped, Bearing, InStep, arrived, arrived' = FALSE,
           \/ Processes(reply)
           \/ \E finished \in BOOLEAN : DCWeldingDetectionRes(finished)
           \/ RefuseEV(reply.type, reply.ok, reply.sid)
    PROVE  Turn
<1>1. /\ reply.sid \in Ids \cup {ZeroId} /\ reply.tuples \subseteq Schedules
      /\ reply.ok \in BOOLEAN /\ reply.finished \in BOOLEAN
      /\ (reply.offer \cap Energy) \in SUBSET Energy /\ Renegotiable \in BOOLEAN
  BY V20LinkAssumption, SeccV20Assumption DEF LinkTyped
<1> SUFFICES Process(reply.sid)
  BY <1>1 DEF Turn
<1>2. ASSUME NEW chosen \in Energy, NEW m \in {"SCHEDULED", "DYNAMIC"},
             ServiceDetailRes(reply.sid, asked, chosen, m)
      PROVE  Process(reply.sid)
  <2>1. asked \in Energy
    BY <1>2 DEF ServiceDetailRes, Answered, Matches, Bearing, Chosen, InvEV,
       TypeOKEV
  <2> QED
    BY <1>2, <2>1 DEF Process
<1>3. ASSUME NEW verdict \in Verdicts \ {"Stop"},
             NEW tuple \in Schedules \cup {NoSchedule},
             \/ ScheduleExchangeRes(reply.sid, reply.finished, reply.tuples,
                                    verdict, tuple)
             \/ \E before, now \in BOOLEAN :
                  DCPreChargeRes(reply.sid, before, now, verdict, tuple)
             \/ PowerDeliveryRes(reply.sid, verdict, tuple)
      PROVE  Process(reply.sid)
  BY <1>1, <1>3 DEF Process
<1>4. CASE \/ SupportedAppProtocolRes(reply.finished)
           \/ SessionSetupRes(reply.sid)
           \/ \E install, pnc \in BOOLEAN :
                AuthorizationSetupRes(reply.sid, install, pnc)
           \/ AuthorizationRes(reply.sid, reply.finished)
           \/ ServiceDiscoveryRes(reply.sid, reply.offer \cap Energy,
                                  Renegotiable)
           \/ ServiceSelectionRes(reply.sid)
  BY <1>1, <1>4 DEF Process
<1>5. CASE \/ ACChargeParameterDiscoveryRes(reply.sid)
           \/ DCChargeParameterDiscoveryRes(reply.sid)
           \/ DCCableCheckRes(reply.sid, reply.finished)
           \/ \E n \in Notifications, going \in BOOLEAN :
                \/ ACChargeLoopRes(reply.sid, n, going)
                \/ DCChargeLoopRes(reply.sid, n, going)
           \/ SessionStopRes(reply.sid)
           \/ \E finished \in BOOLEAN : DCWeldingDetectionRes(finished)
  BY <1>1, <1>5 DEF Process
<1>6. CASE RefuseEV(reply.type, reply.ok, reply.sid)
  <2>1. reply.type \in StatesEV
    BY <1>6 DEF RefuseEV, Reads, InStep, InvEV, TypeOKEV
  <2> QED
    BY <1>1, <1>6, <2>1 DEF Process
<1> QED
  BY <1>2, <1>3, <1>4, <1>5, <1>6 DEF Processes

\* The step as the SECC sees it.
LEMMA SeccStep == LinkInv /\ [NextLink]_linkVars => [Next]_vars
<1> SUFFICES ASSUME LinkInv, [NextLink]_linkVars PROVE [Next]_vars
  OBVIOUS
<1>1. CASE Serve
  BY <1>1, ServesHandles DEF Serve, LinkInv, Fit
<1>2. CASE SeccGivesUp
  <2>1. Abort
    BY <1>2 DEF SeccGivesUp
  <2> QED
    BY <2>1 DEF Next, BreakOff, SequenceTimeout
<1>3. CASE SeccStops
  BY <1>3 DEF SeccStops, Next
<1>4. CASE EvTurn \/ ForeignTurn \/ EvGivesUp \/ EvTime
  BY <1>4 DEF EvTurn, ForeignTurn, EvGivesUp, EvTime
<1>5. CASE UNCHANGED linkVars
  BY <1>5 DEF linkVars
<1> QED
  BY <1>1, <1>2, <1>3, <1>4, <1>5 DEF NextLink

\* The step as the EVCC sees it.
LEMMA EvStep == LinkInv /\ [NextLink]_linkVars => [NextEV]_varsEV
<1> SUFFICES ASSUME LinkInv, [NextLink]_linkVars PROVE [NextEV]_varsEV
  OBVIOUS
<1>1. CASE Serve
  BY <1>1 DEF Serve, NextEV
<1>2. CASE SeccGivesUp \/ SeccStops
  BY <1>2 DEF SeccGivesUp, SeccStops
<1>3. CASE EvTurn
  <2>1. \/ Processes(reply)
        \/ \E finished \in BOOLEAN : DCWeldingDetectionRes(finished)
        \/ RefuseEV(reply.type, reply.ok, reply.sid)
        \/ AbortEV
    BY <1>3 DEF EvTurn
  <2>2. ours /\ arrived
    BY <1>3 DEF EvTurn
  <2>3. arrived' = FALSE
    BY <2>1 DEF Processes, RefuseEV, AbortEV, Reads, Answered,
       SupportedAppProtocolRes, SessionSetupRes, AuthorizationSetupRes,
       AuthorizationRes, ServiceDiscoveryRes, ServiceDetailRes,
       ServiceSelectionRes, ACChargeParameterDiscoveryRes,
       DCChargeParameterDiscoveryRes, ScheduleExchangeRes, DCCableCheckRes,
       DCPreChargeRes, PowerDeliveryRes, ACChargeLoopRes, DCChargeLoopRes,
       DCWeldingDetectionRes, SessionStopRes
  <2>4. CASE AbortEV
    BY <2>2, <2>3, <2>4 DEF NextEV, Turn
  <2> QED
    BY <2>1, <2>2, <2>3, <2>4, ProcessesTurns DEF NextEV, LinkInv, Fit
<1>4. CASE ForeignTurn \/ EvGivesUp \/ EvTime
  BY <1>4 DEF ForeignTurn, EvGivesUp, EvTime, NextEV
<1>5. CASE UNCHANGED linkVars
  BY <1>5 DEF linkVars
<1> QED
  BY <1>1, <1>2, <1>3, <1>4, <1>5 DEF NextLink

-----------------------------------------------------------------------------
(* Requests and responses fit.                                             *)

\* What the state of the SECC awaits it accepts, but for a precharge that comes
\* after its end.
LEMMA AwaitedAccepted ==
    ASSUME Inv, InvEV, Bearing, Agreement, Awaited, phase = "open"
    PROVE  /\ \/ current \in Accepted
              \/ current = "DCPreCharge" /\ st = "PowerDelivery"
           /\ current \notin {"SupportedAppProtocol", "SessionSetup"} =>
                evId = sessionId
<1>1. current \in States /\ current \in StatesEV
  BY DEF InvEV, TypeOKEV, StatesEV, SetupEV, LoopEV, States, AuthStates,
     ServiceStates, ParameterStates, DeliveryStates
<1>2. /\ st = current => current \in Accepted
      /\ inst # "fresh" /\ <<st, current>> \in Lists => current \in Accepted
      /\ st \notin Flagged /\ <<st, current>> \in Lists => current \in Accepted
      /\ inst # "fresh" /\ st \notin NoStop /\ current = "SessionStop"
           => current \in Accepted
      /\ st \notin Flagged \cup NoStop /\ current = "SessionStop"
           => current \in Accepted
  BY <1>1 DEF Accepted
<1>3. CASE current \in SetupEV \cup LoopEV
  <2>1. st = current \/ (inst # "fresh" /\ <<st, current>> \in Lists)
    BY <1>3 DEF Awaited, Lists, SetupEV, LoopEV
  <2> QED
    BY <1>2, <2>1 DEF Agreement
<1>4. CASE current \in {"DCCableCheck", "DCPreCharge", "PowerDelivery",
                        "DCWeldingDetection"}
  <2>1. \/ st = current
        \/ inst # "fresh" /\ <<st, current>> \in Lists
        \/ st \notin Flagged /\ <<st, current>> \in Lists
        \/ current = "DCPreCharge" /\ st = "PowerDelivery"
    BY <1>4 DEF Awaited, Lists, Flagged
  <2> QED
    BY <1>2, <1>4, <2>1 DEF Agreement
<1>5. CASE current = "SessionStop"
  <2>1. \/ inst # "fresh" /\ st \notin NoStop
        \/ st \notin Flagged \cup NoStop
    BY <1>5 DEF Awaited, NoStop, Flagged
  <2> QED
    BY <1>2, <1>5, <2>1 DEF Agreement
<1> QED
  BY <1>1, <1>3, <1>4, <1>5 DEF StatesEV

\* What the SECC makes of a request that it awaits.
Served(f) ==
    /\ phase = "open" /\ (res' \in Passes \/ phase' = "open" => Taken(f)')
    /\ phase' = "open" /\ res' \notin Passes => current = "Authorization"
    /\ res' = "none" => phase' # "open" /\ current = "CertificateInstallation"
    /\ res' = "FAILED_SequenceError" => phase' # "open"
    /\ Agreement' /\ Powered' /\ (ours => RequestsFit')

\* The SECC serves what it awaits, and the two sides still agree.
LEMMA Serving ==
    ASSUME Inv, InvEV, Bearing, Agreement, Powered,
           phase = "open" => Awaited, NEW f \in BOOLEAN,
           ServesSetup(f) \/ ServesCharging(f) \/ (f /\ Refuse(current, evId)),
           UNCHANGED <<current, said, evId, found, asked, described, energy,
                       control, ac, list, profile>>
    PROVE  Served(f)
<1> DEFINE Goal == Served(f)
<1> SUFFICES Goal
  OBVIOUS
<1>0. /\ phase = "open" /\ Awaited
      /\ current \notin {"SupportedAppProtocol", "SessionSetup"} =>
           evId = sessionId
      /\ \/ current \in Accepted
         \/ current = "DCPreCharge" /\ st = "PowerDelivery"
  <2>1. phase = "open"
    BY DEF ServesSetup, ServesCharging, Refuse, Accepts, SupportedAppProtocol,
       SessionSetup, AuthorizationSetup, CertificateInstallation, Authorization,
       ServiceDiscovery, ServiceDetail, ServiceSelection, ChargeParameters,
       ScheduleExchange, DCCableCheck, DCPreCharge, PowerDelivery, ACChargeLoop,
       DCChargeLoop, DCWeldingDetection, SessionStop
  <2> QED
    BY <2>1, AwaitedAccepted
<1> USE DEF Served, Agreement, Powered, RequestsFit, Awaited, Taken,
      SameSchedule, Passes, Stay, Goto, Stopping, Halt, Own, choice, power,
      history, ParameterStates, DeliveryStates, SetupEV, LoopEV
<1>1. CASE current = "SupportedAppProtocol" /\ SupportedAppProtocol(f)
  BY <1>0, <1>1 DEF SupportedAppProtocol
<1>2. ASSUME current = "SessionSetup", NEW new \in SessionIds,
             SessionSetup(evId, new)
      PROVE  Goal
  BY <1>0, <1>2 DEF SessionSetup
<1>3. CASE current = "AuthorizationSetup" /\ AuthorizationSetup(evId)
  BY <1>0, <1>3 DEF AuthorizationSetup
<1>4. CASE current = "CertificateInstallation" /\ CertificateInstallation(evId)
  BY <1>0, <1>4 DEF CertificateInstallation
<1>5. ASSUME current = "Authorization", NEW sigOk \in BOOLEAN,
             NEW challengeOk \in BOOLEAN, NEW answer \in Answers,
             NEW code \in {"none", "OK", "FAILED"}, f = (answer # "ongoing"),
             Authorization(evId, said = "PNC", sigOk, challengeOk, answer, code)
      PROVE  Goal
  BY <1>0, <1>5 DEF Authorization, Answers
<1>6. ASSUME current = "ServiceDiscovery", NEW offer \in SUBSET Services,
             NEW sets \in SUBSET Services, ServiceDiscovery(evId, offer, sets)
      PROVE  Goal
  BY <1>0, <1>6 DEF ServiceDiscovery
<1>7. CASE current = "ServiceDetail" /\ ServiceDetail(evId, asked)
  <2>1. asked \in matched
    BY <1>7 DEF Bearing, Chosen
  <2> QED
    BY <1>0, <1>7, <2>1 DEF ServiceDetail
<1>8. ASSUME current = "ServiceSelection", NEW vasOk \in BOOLEAN,
             ServiceSelection(evId, energy, control, vasOk)
      PROVE  Goal
  <2>1. energy \in detailed /\ ACEnergy = ACServices
    BY <1>8, V20LinkAssumption DEF Bearing, Chosen, BeforeSelection,
       BeforeAuthorized
  <2> QED
    BY <1>0, <1>8, <2>1 DEF ServiceSelection
<1>9. ASSUME current \in {"ACChargeParameterDiscovery",
                          "DCChargeParameterDiscovery"},
             NEW known \in BOOLEAN, ChargeParameters(current, evId, known)
      PROVE  Goal
  BY <1>0, <1>9 DEF ChargeParameters
<1>10. ASSUME current = "ScheduleExchange", NEW fits \in BOOLEAN,
              NEW tuples \in (SUBSET Tuples) \ {{}},
              ScheduleExchange(evId, fits, f, tuples)
       PROVE  Goal
  <2>1. /\ Tuples # {} /\ service = energy /\ st = current
        /\ ac = (service \in ACServices)
    BY <1>0, <1>10, V20LinkAssumption DEF Bearing, Chosen
  <2> QED
    BY <1>0, <1>10, <2>1 DEF ScheduleExchange
<1>11. ASSUME current = "DCCableCheck",
              NEW contactor \in {"closed", "open", "unknown"},
              NEW isolation \in {"valid", "fault", "pending"},
              DCCableCheck(evId, contactor, isolation),
              f = (st' = "DCPreCharge")
       PROVE  Goal
  BY <1>0, <1>11 DEF DCCableCheck
<1>12. ASSUME current = "DCPreCharge", NEW commandOk \in BOOLEAN,
              DCPreCharge(evId, said = "finished", commandOk)
       PROVE  Goal
  BY <1>0, <1>12 DEF DCPreCharge, Accepts, Accepted, Lists
<1>13. ASSUME current = "PowerDelivery", NEW contactorOk \in BOOLEAN,
              PowerDelivery(evId, said = "ongoing", said, profile, contactorOk)
       PROVE  Goal
  BY <1>0, <1>13, V20LinkAssumption DEF PowerDelivery, BeginCharging, Bearing,
     Chosen, Wishes, Verdicts
<1>14. CASE current = "ACChargeLoop" /\ ACChargeLoop(evId)
  BY <1>0, <1>14 DEF ACChargeLoop
<1>15. ASSUME current = "DCChargeLoop", NEW commandOk \in BOOLEAN,
              DCChargeLoop(evId, commandOk)
       PROVE  Goal
  BY <1>0, <1>15 DEF DCChargeLoop
<1>16. CASE current = "DCWeldingDetection" /\ DCWeldingDetection(evId)
  BY <1>0, <1>16 DEF DCWeldingDetection
<1>17. CASE current = "SessionStop" /\ SessionStop(evId, said)
  <2>1. said \in {"terminate", "renegotiate"}
    BY <1>17 DEF Bearing, Wishes
  <2> QED
    BY <1>0, <1>17, <2>1 DEF SessionStop
<1>18. CASE Refuse(current, evId)
  <2>1. /\ current = "DCPreCharge" /\ st = "PowerDelivery"
        /\ current \notin Accepted
    BY <1>0, <1>18 DEF Refuse, Accepts, Accepted, Flagged, Lists
  <2> QED
    BY <1>0, <1>18, <2>1 DEF Refuse
<1> HIDE DEF Goal
<1> QED
  BY <1>1, <1>2, <1>3, <1>4, <1>5, <1>6, <1>7, <1>8, <1>9, <1>10, <1>11, <1>12,
     <1>13, <1>14, <1>15, <1>16, <1>17, <1>18 DEF ServesSetup, ServesCharging

\* The EVCC asks for what the SECC has got to, or gives up; and it reports as a
\* success what the SECC has ended by its SessionStopReq.
Asked ==
    /\ ~arrived' /\ (wire' /\ phase = "open" => Awaited')
    /\ Agreement' /\ Bearing' /\ Powered' /\ SuccessAgreed'

\* What the EVCC makes of a response that is without a fault, or that it does
\* not look at.
LEMMA Processing ==
    ASSUME Inv, InvEV, Bearing, Agreement, Powered, SuccessAgreed, ours,
           life = "open", arrived, reply.type = current, reply.sid = sessionId,
           reply.offer = matched, reply.tuples = offered,
           reply.finished \in BOOLEAN,
           reply.ok \/ phase = "open" => Taken(reply.finished),
           \/ reply.ok /\ Processes(reply)
           \/ \E finished \in BOOLEAN : DCWeldingDetectionRes(finished),
           wire' = (life' = "open" \/ Repeats),
           UNCHANGED <<vars, ours>>
    PROVE  Asked
<1> DEFINE Goal == Asked
<1> SUFFICES Goal
  OBVIOUS
<1>0. /\ stop # "none" =>
           /\ current \in {"PowerDelivery", "DCWeldingDetection", "SessionStop"}
           /\ current = "PowerDelivery" => said = "Stop" /\ ~working
      /\ current \in LoopEV => ~working
      /\ stop \in {"none", "terminate", "renegotiate"}
      /\ ac \in BOOLEAN /\ again \in BOOLEAN /\ working \in BOOLEAN
      /\ renegotiable \in BOOLEAN /\ renegotiating \in BOOLEAN
      /\ Renegotiable \in BOOLEAN
      /\ ACEnergy \cap DCEnergy = {} /\ ACEnergy = ACServices
      /\ toDetail \subseteq found
      /\ described \subseteq ACEnergy \cup DCEnergy \cup OtherEnergy
  BY EvccV20Assumption, SeccV20Assumption, V20LinkAssumption
  DEF InvEV, TypeOKEV, StopIsFinal, Settled, Energy
<1> USE DEF Asked, Agreement, Bearing, Chosen, Wishes, Switched, Powered,
      SuccessAgreed, Taken, Awaited, SameSchedule, Answered, Matches, Reads,
      Request, AskAgain, GiveUp, Ongoing, asking, discovery, selection, plan,
      wishes, Repeats, vars, choice, power, history, Verdicts,
      ParameterStates, DeliveryStates, BeforeSelection, BeforeAuthorized,
      SetupEV, LoopEV
<1>1. CASE reply.ok /\ SupportedAppProtocolRes(reply.finished)
  BY <1>0, <1>1 DEF SupportedAppProtocolRes
<1>2. CASE reply.ok /\ SessionSetupRes(reply.sid)
  BY <1>0, <1>2 DEF SessionSetupRes
<1>3. ASSUME reply.ok, NEW install \in BOOLEAN, NEW pnc \in BOOLEAN,
             AuthorizationSetupRes(reply.sid, install, pnc)
      PROVE  Goal
  BY <1>0, <1>3 DEF AuthorizationSetupRes
<1>4. CASE reply.ok /\ AuthorizationRes(reply.sid, reply.finished)
  BY <1>0, <1>4 DEF AuthorizationRes
<1>5. CASE reply.ok /\ ServiceDiscoveryRes(reply.sid, reply.offer \cap Energy,
                                        Renegotiable)
  BY <1>0, <1>5 DEF ServiceDiscoveryRes, ServiceDetailReq
<1>6. ASSUME reply.ok, NEW chosen \in Energy,
             NEW m \in {"SCHEDULED", "DYNAMIC"},
             ServiceDetailRes(reply.sid, asked, chosen, m)
      PROVE  Goal
  BY <1>0, <1>6 DEF ServiceDetailRes, ServiceDetailReq
<1>7. CASE reply.ok /\ ServiceSelectionRes(reply.sid)
  BY <1>0, <1>7 DEF ServiceSelectionRes
<1>8. CASE reply.ok /\ ACChargeParameterDiscoveryRes(reply.sid)
  BY <1>0, <1>8 DEF ACChargeParameterDiscoveryRes
<1>9. CASE reply.ok /\ DCChargeParameterDiscoveryRes(reply.sid)
  BY <1>0, <1>9 DEF DCChargeParameterDiscoveryRes
<1>10. ASSUME reply.ok, NEW verdict \in Verdicts \ {"Stop"},
             NEW tuple \in Schedules \cup {NoSchedule},
             ScheduleExchangeRes(reply.sid, reply.finished, reply.tuples,
                                 verdict, tuple)
      PROVE  Goal
  BY <1>0, <1>10 DEF ScheduleExchangeRes, PowerDeliveryReq, Named
<1>11. CASE reply.ok /\ DCCableCheckRes(reply.sid, reply.finished)
  BY <1>0, <1>11 DEF DCCableCheckRes
<1>12. ASSUME reply.ok, NEW verdict \in Verdicts \ {"Stop"},
             NEW tuple \in Schedules \cup {NoSchedule},
             NEW before \in BOOLEAN, NEW now \in BOOLEAN,
             DCPreChargeRes(reply.sid, before, now, verdict, tuple)
      PROVE  Goal
  BY <1>0, <1>12 DEF DCPreChargeRes, RenewPowerDelivery, PowerDeliveryReq, Named
<1>13. ASSUME reply.ok, NEW verdict \in Verdicts \ {"Stop"},
             NEW tuple \in Schedules \cup {NoSchedule},
             PowerDeliveryRes(reply.sid, verdict, tuple)
      PROVE  Goal
  BY <1>0, <1>13 DEF PowerDeliveryRes, RenewPowerDelivery, PowerDeliveryReq,
     Named, LeavePowerDelivery
<1>14. ASSUME reply.ok, NEW n \in Notifications, NEW going \in BOOLEAN,
             ACChargeLoopRes(reply.sid, n, going)
      PROVE  Goal
  BY <1>0, <1>14 DEF ACChargeLoopRes, StopCharging
<1>15. ASSUME reply.ok, NEW n \in Notifications, NEW going \in BOOLEAN,
             DCChargeLoopRes(reply.sid, n, going)
      PROVE  Goal
  BY <1>0, <1>15 DEF DCChargeLoopRes, StopCharging
<1>16. ASSUME NEW finished \in BOOLEAN, DCWeldingDetectionRes(finished)
      PROVE  Goal
  BY <1>0, <1>16 DEF DCWeldingDetectionRes
<1>17. CASE reply.ok /\ SessionStopRes(reply.sid)
  BY <1>0, <1>17 DEF SessionStopRes
<1> HIDE DEF Goal
<1> QED
  BY <1>1, <1>2, <1>3, <1>4, <1>5, <1>6, <1>7, <1>8, <1>9, <1>10, <1>11, <1>12,
     <1>13, <1>14, <1>15, <1>16, <1>17 DEF Processes

\* What either side leaves as it is when the other one acts alone.
EvIsStill == UNCHANGED <<asking, evId, discovery, selection, plan, wishes>>

\* When the EVCC gives up, what the two sides have agreed stays as it is.
LEMMA GivingUp ==
    ASSUME Fit, life' # "open", ~success', UNCHANGED <<vars, ours>>, EvIsStill,
           wire' \in BOOLEAN, wire' => ours, wire' /\ phase = "open" => wire,
           reply' \in {reply, NoReply}
    PROVE  Fit'
<1> USE DEF Fit, vars, choice, power, history, EvIsStill, asking, discovery,
      selection, plan, wishes
<1>1. LinkTyped'
  <2>1. CASE reply' = reply
    BY <2>1 DEF LinkTyped
  <2>2. CASE reply' = NoReply
    BY <2>2, V20LinkAssumption DEF LinkTyped, NoReply
  <2> QED
    BY <2>1, <2>2
<1>2. ours => InStep'
  BY DEF InStep, Awaited, SameSchedule
<1>3. ours => Bearing'
  BY DEF Bearing, Chosen, Wishes, Switched
<1>4. ours => Agreement' /\ Powered' /\ Unrefused'
  BY DEF Agreement, Powered, Unrefused, RequestsFit, SuccessAgreed
<1> QED
  BY <1>1, <1>2, <1>3, <1>4

\* When the SECC ends the session by itself, what the two sides have agreed
\* stays as it is.
LEMMA SeccAlone ==
    ASSUME Fit, UNCHANGED <<varsEV, ours, wire, reply>>,
           UNCHANGED <<st, inst, sessionId, choice, offered, history>>,
           phase' # "open", phase # "open" => UNCHANGED <<reason, res>>,
           res' \in {res, "none"},
           phase = "open" => st # "SessionStop"
    PROVE  Fit'
<1> USE DEF Fit, varsEV, asking, discovery, selection, plan, wishes, choice,
      history
<1>1. LinkTyped'
  BY DEF LinkTyped
<1>2. ours => InStep'
  BY DEF InStep, Taken, SameSchedule
<1>3. ours => Bearing'
  BY DEF Bearing, Chosen, Wishes, Switched
<1>4. ours => Agreement' /\ Powered' /\ Unrefused'
  BY DEF Agreement, Powered, Unrefused, RequestsFit, SuccessAgreed
<1> QED
  BY <1>1, <1>2, <1>3, <1>4

\* Every step keeps the two sides fitting.
LEMMA FitStep == LinkInv /\ Inv' /\ InvEV' /\ [NextLink]_linkVars => Fit'
<1> SUFFICES ASSUME LinkInv, Inv', InvEV', [NextLink]_linkVars PROVE Fit'
  OBVIOUS
<1>0. /\ Inv /\ InvEV /\ Fit /\ LinkTyped
      /\ ours => /\ Bearing /\ InStep /\ Agreement /\ Powered
                 /\ RequestsFit /\ SuccessAgreed
  BY DEF LinkInv, Fit, Unrefused
<1>1. CASE Serve
  <2>1. /\ ours /\ wire /\ ours' = ours /\ wire' = FALSE
        /\ UNCHANGED <<life, success, enabled>> /\ EvIsStill
    BY <1>1 DEF Serve, Arrive, varsEV, EvIsStill
  <2>2. PICK f \in BOOLEAN :
          /\ ServesSetup(f) \/ ServesCharging(f) \/ (f /\ Refuse(current, evId))
          /\ IF life = "open" /\ res' # "none"
             THEN /\ Arrive
                  /\ reply' = [type |-> current, ok |-> res' \in Passes,
                               sid |-> sessionId', finished |-> f,
                               offer |-> matched', tuples |-> offered']
             ELSE UNCHANGED <<varsEV, reply>>
    BY <1>1 DEF Serve
  <2>3. Served(f)
    <3>1. phase = "open" => Awaited
      BY <1>0, <2>1 DEF InStep
    <3> QED
      BY <1>0, <2>1, <2>2, <3>1, Serving DEF EvIsStill, asking, discovery,
         selection, plan
  <2>4. Bearing'
    BY <1>0, <2>1 DEF Bearing, Chosen, Wishes, Switched, EvIsStill, asking,
       discovery, selection, plan, wishes
  <2>5. Agreement' /\ Powered' /\ RequestsFit' /\ SuccessAgreed'
    BY <1>0, <2>1, <2>3 DEF Served, SuccessAgreed
  <2>6. LinkTyped' /\ InStep' /\ Unrefused'
    <3>1. CASE life = "open" /\ res' # "none"
      <4>1. /\ arrived' /\ reply'.type = current
            /\ reply'.ok = (res' \in Passes)
            /\ reply'.sid = sessionId' /\ reply'.finished = f
            /\ reply'.offer = matched' /\ reply'.tuples = offered'
        BY <2>2, <3>1 DEF Arrive
      <4>2. /\ sessionId' \in Ids \cup {ZeroId} /\ current \in StatesEV
            /\ offered' \subseteq Tuples
        BY <1>0, SameIds DEF Inv, TypeOK, InvEV, TypeOKEV
      <4>3. LinkTyped'
        <5>1. (res' \in Passes) \in BOOLEAN
          OBVIOUS
        <5> QED
          BY <2>1, <4>1, <4>2, <5>1 DEF LinkTyped
      <4>4. InStep'
        <5>1. current' = current
          BY <2>1 DEF EvIsStill, asking
        <5>2. res' \in Passes \/ phase' = "open" => Taken(reply.finished)'
          BY <2>3, <4>1 DEF Served, Taken, SameSchedule
        <5> QED
          BY <2>1, <2>3, <4>1, <5>1, <5>2 DEF InStep, Served
      <4>5. Unrefused'
        BY <2>1, <2>3, <2>5, <4>1 DEF Unrefused, Served, Passes
      <4> QED
        BY <4>3, <4>4, <4>5
    <3>2. CASE ~(life = "open" /\ res' # "none")
      <4>1. reply' = reply /\ arrived' = arrived
        BY <2>2, <3>2 DEF varsEV
      <4>2. LinkTyped'
        BY <1>0, <2>1, <4>1 DEF LinkTyped
      <4>3. InStep'
        BY <1>0, <2>1, <2>3, <3>2, <4>1 DEF InStep, Served, EvIsStill, asking
      <4>4. Unrefused'
        BY <2>1, <2>3, <2>5, <3>2 DEF Unrefused, Served
      <4> QED
        BY <4>2, <4>3, <4>4
    <3> QED
      BY <3>1, <3>2
  <2> QED
    BY <2>1, <2>4, <2>5, <2>6 DEF Fit
<1>2. CASE SeccGivesUp
  BY <1>0, <1>2, SeccAlone DEF SeccGivesUp, Abort, Stopping, Own, Inv, Unpowered
<1>3. CASE SeccStops
  BY <1>0, <1>3, SeccAlone DEF SeccStops, EndSession, CloseConnection
<1>4. CASE EvTurn
  <2>1. ours /\ arrived /\ ours' = ours /\ reply' = NoReply /\ UNCHANGED vars
    BY <1>4 DEF EvTurn
  <2>2. \/ Processes(reply)
        \/ \E finished \in BOOLEAN : DCWeldingDetectionRes(finished)
        \/ RefuseEV(reply.type, reply.ok, reply.sid)
        \/ AbortEV
        => life = "open"
    BY DEF Processes, RefuseEV, AbortEV, Reads, Answered,
       SupportedAppProtocolRes, SessionSetupRes, AuthorizationSetupRes,
       AuthorizationRes, ServiceDiscoveryRes, ServiceDetailRes,
       ServiceSelectionRes, ACChargeParameterDiscoveryRes,
       DCChargeParameterDiscoveryRes, ScheduleExchangeRes, DCCableCheckRes,
       DCPreChargeRes, PowerDeliveryRes, ACChargeLoopRes, DCChargeLoopRes,
       DCWeldingDetectionRes, SessionStopRes
  <2>3. life = "open"
    BY <1>4, <2>2 DEF EvTurn
  <2>4. /\ ~wire /\ reply.type = current /\ reply.sid = sessionId
        /\ reply.offer = matched /\ reply.tuples = offered
        /\ reply.finished \in BOOLEAN
        /\ reply.ok \/ phase = "open" => Taken(reply.finished)
        /\ phase = "open" /\ ~reply.ok => current = "Authorization"
    BY <1>0, <2>1, <2>3 DEF InStep, LinkTyped
  <2>5. LinkTyped'
    <3>1. wire' \in BOOLEAN
      BY <1>4 DEF EvTurn, Repeats, InvEV, TypeOKEV
    <3> QED
      BY <1>0, <2>1, <3>1, V20LinkAssumption DEF LinkTyped, NoReply
  <2>6. CASE /\ \/ reply.ok /\ Processes(reply)
                \/ \E finished \in BOOLEAN : DCWeldingDetectionRes(finished)
             /\ wire' = (life' = "open" \/ Repeats)
    <3>1. Asked
      BY <1>0, <2>1, <2>3, <2>4, <2>6, Processing
    <3>2. InStep'
      BY <2>1, <2>6, <3>1 DEF InStep, Asked, vars
    <3>3. Unrefused'
      <4>1. current = "DCPreCharge" => reply.ok
        BY <2>6 DEF DCWeldingDetectionRes
      <4>2. res # "FAILED_SequenceError"
        BY <1>0, <2>1, <2>3, <4>1 DEF Fit, Unrefused, RequestsFit
      <4> QED
        BY <1>0, <2>1, <3>1, <4>2 DEF Unrefused, RequestsFit, Asked, vars
    <3> QED
      BY <2>5, <3>1, <3>2, <3>3 DEF Fit, Asked
  <2>7. CASE /\ RefuseEV(reply.type, reply.ok, reply.sid)
             /\ wire' = (life' = "open" \/ Repeats)
    <3>1. life' # "open" /\ ~success' /\ EvIsStill
      BY <2>7 DEF RefuseEV, GiveUp, EvIsStill
    <3>2. ~reply.ok
      BY <1>0, <2>1, <2>4, <2>7 DEF RefuseEV, Matches, Agreement
    <3>3. wire' => phase # "open"
      BY <1>0, <2>1, <2>4, <2>7, <3>1, <3>2 DEF Repeats, Bearing, Switched
    <3> QED
      BY <1>0, <2>1, <2>5, <3>1, <3>3, GivingUp DEF LinkTyped
  <2>8. CASE AbortEV /\ wire' = FALSE
    BY <1>0, <2>1, <2>8, GivingUp DEF AbortEV, GiveUp, EvIsStill
  <2> QED
    BY <1>4, <2>6, <2>7, <2>8 DEF EvTurn
<1>5. CASE ForeignTurn
  BY <1>0, <1>5 DEF ForeignTurn, Fit, LinkTyped
<1>6. CASE EvGivesUp
  BY <1>0, <1>6, GivingUp DEF EvGivesUp, TimeoutEV, GiveUp, LinkTyped, EvIsStill
<1>7. CASE EvTime
  <2>1. /\ UNCHANGED <<vars, ours, wire, reply, arrived, success>> /\ EvIsStill
        /\ life' = "open" => life = "open" /\ enabled' = enabled
    BY <1>7 DEF EvTime, TimerExpires, Disable, Close, EvIsStill
  <2> USE DEF vars, choice, power, history, EvIsStill, asking, discovery,
        selection, plan, wishes
  <2>2. LinkTyped' /\ (ours => Bearing')
    BY <1>0, <2>1 DEF LinkTyped, Bearing, Chosen, Wishes, Switched
  <2>3. ours => InStep'
    BY <1>0, <2>1 DEF InStep, Awaited, Taken, SameSchedule
  <2>4. ours => Agreement' /\ Powered' /\ Unrefused'
    BY <1>0, <2>1 DEF Agreement, Powered, Fit, Unrefused, RequestsFit,
       SuccessAgreed
  <2> QED
    BY <2>1, <2>2, <2>3, <2>4 DEF Fit
<1>8. CASE UNCHANGED linkVars
  <2> USE <1>0, <1>8 DEF linkVars, vars, varsEV, choice, power, history, asking,
        discovery, selection, plan, wishes
  <2>1. LinkTyped' /\ (ours => Bearing')
    BY DEF LinkTyped, Bearing, Chosen, Wishes, Switched
  <2>2. ours => InStep'
    BY DEF InStep, Awaited, Taken, SameSchedule
  <2>3. ours => Agreement' /\ Powered' /\ Unrefused'
    BY DEF Agreement, Powered, Fit, Unrefused, RequestsFit, SuccessAgreed
  <2> QED
    BY <2>1, <2>2, <2>3 DEF Fit
<1> QED
  BY <1>1, <1>2, <1>3, <1>4, <1>5, <1>6, <1>7, <1>8 DEF NextLink

\* The inductive invariant of the pair holds in every reachable state.
THEOREM LinkInvCorrect == SpecLink => []LinkInv
<1>1. LinkInv /\ [NextLink]_linkVars => LinkInv'
  <2> SUFFICES ASSUME LinkInv, [NextLink]_linkVars PROVE LinkInv'
    OBVIOUS
  <2>1. Inv'
    BY SeccStep, InvStep DEF LinkInv
  <2>2. InvEV'
    BY EvStep, InvStepEV DEF LinkInv
  <2> QED
    BY <2>1, <2>2, FitStep DEF LinkInv
<1> QED
  BY <1>1, LinkInit, PTL DEF SpecLink

-----------------------------------------------------------------------------
(* The properties of the pair.                                             *)

\* The pair takes only steps that either side may take, so that what is proved
\* of each side with an arbitrary peer holds with the other side as its peer.
THEOREM SidesRefined == SpecLink => [][Next]_vars /\ [][NextEV]_varsEV
<1>1. LinkInv /\ [NextLink]_linkVars => [Next]_vars /\ [NextEV]_varsEV
  BY SeccStep, EvStep
<1> QED
  BY <1>1, LinkInvCorrect, PTL DEF SpecLink

\* In the pair too, no power and no service while the authorization is
\* undecided, except after a renegotiation.
THEOREM DecidedInLink == SpecLink => []DecidedBeforePower
<1>1. LinkInv => DecidedBeforePower
  BY DEF LinkInv, Inv
<1> QED
  BY <1>1, LinkInvCorrect, PTL

\* In the pair too, charging is enabled in the vehicle only within an authorized
\* session, and a decision to stop stands.
THEOREM VehicleInLink == SpecLink => [](EnabledInSession /\ StopIsFinal)
<1>1. LinkInv => EnabledInSession /\ StopIsFinal
  BY DEF LinkInv, InvEV
<1> QED
  BY <1>1, LinkInvCorrect, PTL

\* The EVCC asks for nothing that the SECC cannot place, but for a precharge
\* after its end.
THEOREM RequestsAreFit == SpecLink => []RequestsFit
<1>1. LinkInv => RequestsFit
  BY DEF LinkInv, Fit, Unrefused, RequestsFit
<1> QED
  BY <1>1, LinkInvCorrect, PTL

\* In the charging loop the two sides hold the same session, service, control
\* mode and schedule.
THEOREM AgreedWhileCharging == SpecLink => []AgreedInLoop
<1>1. LinkInv => AgreedInLoop
  <2> SUFFICES ASSUME LinkInv, ours, phase = "open", life = "open",
                      current \in LoopEV, reply = NoReply
               PROVE  /\ evId = sessionId /\ st = current
                      /\ energy = service /\ control = mode
                      /\ control = "SCHEDULED" =>
                           profile = accepted /\ profile \in list
    BY DEF AgreedInLoop
  <2>1. InStep /\ Agreement
    BY DEF LinkInv, Fit
  <2>2. wire
    BY <2>1 DEF InStep, NoReply, LoopEV
  <2>3. st = current /\ SameSchedule
    BY <2>1, <2>2 DEF InStep, Awaited
  <2> QED
    BY <2>1, <2>3 DEF Agreement, SameSchedule, LoopEV, DeliveryStates
<1> QED
  BY <1>1, LinkInvCorrect, PTL

\* Power flows only into a vehicle in which charging is enabled, and both sides
\* have switched off when it tests for welded contactors or asks for the end.
THEOREM PowerFlowsIntoVehicle == SpecLink => []PowerIntoVehicle
<1>1. LinkInv => PowerIntoVehicle
  <2> SUFFICES ASSUME LinkInv, ours, life = "open"
               PROVE  /\ charger # "off" \/ (hlc /\ phase = "open") => enabled
                      /\ current \in {"DCWeldingDetection", "SessionStop"} =>
                           charger = "off" /\ ~enabled
    BY DEF PowerIntoVehicle
  <2>1. /\ InStep /\ Powered /\ Switched /\ EnabledInSession /\ CleanEnd
        /\ current \in StatesEV /\ reply.finished \in BOOLEAN
        /\ enabled \in BOOLEAN /\ hlc \in BOOLEAN
    BY DEF LinkInv, Fit, Bearing, Inv, TypeOK, InvEV, TypeOKEV, LinkTyped
  <2>2. phase = "open" => Awaited \/ Taken(reply.finished)
    BY <2>1 DEF InStep
  <2>3. ASSUME charger # "off" \/ (hlc /\ phase = "open")
        PROVE  current \in LoopEV \cup {"DCCableCheck", "DCPreCharge",
                                        "PowerDelivery"}
    <3>1. phase = "open"
      BY <2>1, <2>3 DEF CleanEnd
    <3>2. CASE Awaited
      BY <2>1, <2>3, <3>1, <3>2 DEF Powered, Awaited, StatesEV, SetupEV, LoopEV
    <3>3. CASE Taken(reply.finished)
      <4>1. \/ st \in LoopEV \cup {"DCCableCheck", "DCPreCharge"}
            \/ /\ st = "PowerDelivery"
               /\ current \in {"DCPreCharge", "PowerDelivery"}
        BY <2>1, <2>3, <3>1 DEF Powered, LoopEV
      <4>2. current \in SetupEV \cup {"DCWeldingDetection", "SessionStop"} =>
              st \notin LoopEV \cup {"DCCableCheck", "DCPreCharge"}
        BY <2>1, <3>1, <3>3 DEF Taken, SetupEV, LoopEV
      <4> QED
        BY <2>1, <4>1, <4>2 DEF StatesEV, LoopEV
    <3> QED
      BY <2>2, <3>1, <3>2, <3>3
  <2>4. charger # "off" \/ (hlc /\ phase = "open") => enabled
    BY <2>1, <2>3 DEF Switched
  <2>5. current \in {"DCWeldingDetection", "SessionStop"} => ~enabled
    BY <2>1 DEF EnabledInSession
  <2> QED
    BY <2>1, <2>4, <2>5
<1> QED
  BY <1>1, LinkInvCorrect, PTL

\* What the vehicle reports as a success the SECC has ended as well.
THEOREM SuccessOnBothSides == SpecLink => []SuccessAgreed
<1>1. LinkInv => SuccessAgreed
  BY DEF LinkInv, Fit, Unrefused, SuccessAgreed
<1> QED
  BY <1>1, LinkInvCorrect, PTL
=============================================================================
