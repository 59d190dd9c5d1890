---------------------------- MODULE EvccV2Proofs ----------------------------
(***************************************************************************)
(* The safety properties of EvccV2, for any identifiers, schedules and     *)
(* number of services.  They are proved together as one inductive          *)
(* invariant: what a handler may leave running, enabled or decided follows *)
(* from the state the session is in.                                       *)
(***************************************************************************)
EXTENDS EvccV2, TLAPS

\* The parts of TypeOKEV: where the session stands, its flags, the counter.
StandTyped ==
    /\ current \in StatesEV
    /\ life \in {"open", "stopping", "closing", "ended"}
    /\ evId \in Ids \cup {ZeroId}
    /\ option \in {"none", "EIM", "PNC"}
    /\ schedule \in Schedules \cup {NoSchedule}
    /\ progress \in {"none", "Start", "Stop", "Renegotiate"}
    /\ timer \in {"off", "running", "expired"} /\ owner \in StatesEV \cup {"none"}
FlagsTyped ==
    /\ arrived \in BOOLEAN /\ success \in BOOLEAN /\ secure \in BOOLEAN
    /\ ac \in BOOLEAN /\ finishing \in BOOLEAN /\ renegotiating \in BOOLEAN
    /\ enabled \in BOOLEAN /\ accepted \in BOOLEAN
DetailsTyped == details \in 0 .. MaxServices

\* The states that repeat their request.
RepeatStates == {"Authorization", "ChargeParameterDiscovery", "CableCheck",
                 "PreCharge", "WeldingDetection"}

\* Authorization lies before every other state after setup.
AuthorizedStates == current \notin SetupEV => accepted

\* Only a state that repeats its request starts the timer.
TimerStates == timer # "off" => owner \in RepeatStates

InvEV ==
    /\ StandTyped /\ FlagsTyped /\ DetailsTyped
    /\ EnabledInSession /\ AuthorizedStates
    /\ TimerOwn /\ TimerStates
    /\ StopIsFinal

\* The parts are the whole.
LEMMA InvTypesEV == InvEV => TypeOKEV
  BY DEF InvEV, StandTyped, FlagsTyped, DetailsTyped, TypeOKEV

\* The initial state satisfies the invariant.
LEMMA InvInitEV == InitEV => InvEV
<1> SUFFICES ASSUME InitEV PROVE InvEV
  OBVIOUS
<1>1. StandTyped
  BY DEF InitEV, StandTyped, StatesEV, SetupEV
<1>2. FlagsTyped
  BY DEF InitEV, FlagsTyped
<1>3. DetailsTyped
  BY EvccV2Assumption DEF InitEV, DetailsTyped
<1>4. EnabledInSession /\ AuthorizedStates
  BY DEF InitEV, EnabledInSession, AuthorizedStates, SetupEV
<1>5. TimerOwn /\ TimerStates /\ StopIsFinal
  BY DEF InitEV, TimerOwn, TimerStates, StopIsFinal
<1> QED
  BY <1>1, <1>2, <1>3, <1>4, <1>5 DEF InvEV

-----------------------------------------------------------------------------
(* Every step preserves the invariant.                                     *)

LEMMA InvStepEV == InvEV /\ [NextEV]_varsEV => InvEV'
<1> SUFFICES ASSUME InvEV, [NextEV]_varsEV PROVE InvEV'
  OBVIOUS
<1> USE DEF InvEV, Reads, Matches, Answered, Request, GiveUp,
            identity, energyEV, wishes, clock
<1>1. ASSUME NEW known \in BOOLEAN,
             SupportedAppProtocolRes(known)
      PROVE  InvEV'
  <2>1. StandTyped'
    BY <1>1 DEF SupportedAppProtocolRes, StandTyped, StatesEV, SetupEV, LoopEV
  <2>2. FlagsTyped'
    BY <1>1 DEF SupportedAppProtocolRes, FlagsTyped
  <2>3. DetailsTyped'
    BY <1>1, EvccV2Assumption DEF SupportedAppProtocolRes, DetailsTyped
  <2>4. EnabledInSession' /\ AuthorizedStates'
    BY <1>1 DEF SupportedAppProtocolRes, EnabledInSession, AuthorizedStates,
         FlagsTyped, SetupEV, LoopEV
  <2>5. TimerOwn' /\ TimerStates'
    BY <1>1 DEF SupportedAppProtocolRes, TimerOwn, TimerStates, StandTyped,
         RepeatStates
  <2>6. StopIsFinal'
    BY <1>1 DEF SupportedAppProtocolRes, StopIsFinal, FlagsTyped
  <2> QED
    BY <2>1, <2>2, <2>3, <2>4, <2>5, <2>6
<1>2. ASSUME NEW sid \in Ids \cup {ZeroId},
             SessionSetupRes(sid)
      PROVE  InvEV'
  <2>1. StandTyped'
    BY <1>2 DEF SessionSetupRes, StandTyped, StatesEV, SetupEV, LoopEV
  <2>2. FlagsTyped'
    BY <1>2 DEF SessionSetupRes, FlagsTyped
  <2>3. DetailsTyped'
    BY <1>2, EvccV2Assumption DEF SessionSetupRes, DetailsTyped
  <2>4. EnabledInSession' /\ AuthorizedStates'
    BY <1>2 DEF SessionSetupRes, EnabledInSession, AuthorizedStates,
         FlagsTyped, SetupEV, LoopEV
  <2>5. TimerOwn' /\ TimerStates'
    BY <1>2 DEF SessionSetupRes, TimerOwn, TimerStates, StandTyped,
         RepeatStates
  <2>6. StopIsFinal'
    BY <1>2 DEF SessionSetupRes, StopIsFinal, FlagsTyped
  <2> QED
    BY <2>1, <2>2, <2>3, <2>4, <2>5, <2>6
<1>3. ASSUME NEW sid \in Ids \cup {ZeroId}, NEW charge \in BOOLEAN,
             NEW pnc \in BOOLEAN, NEW acMode \in BOOLEAN,
             NEW modeOffered \in BOOLEAN, NEW n \in 0 .. MaxServices,
             ServiceDiscoveryRes(sid, charge, pnc, acMode, modeOffered, n)
      PROVE  InvEV'
  <2>1. StandTyped'
    BY <1>3 DEF ServiceDiscoveryRes, StandTyped, StatesEV, SetupEV, LoopEV
  <2>2. FlagsTyped'
    BY <1>3 DEF ServiceDiscoveryRes, FlagsTyped
  <2>3. DetailsTyped'
    BY <1>3, EvccV2Assumption DEF ServiceDiscoveryRes, DetailsTyped
  <2>4. EnabledInSession' /\ AuthorizedStates'
    BY <1>3 DEF ServiceDiscoveryRes, EnabledInSession, AuthorizedStates,
         FlagsTyped, SetupEV, LoopEV
  <2>5. TimerOwn' /\ TimerStates'
    BY <1>3 DEF ServiceDiscoveryRes, TimerOwn, TimerStates, StandTyped,
         RepeatStates
  <2>6. StopIsFinal'
    BY <1>3 DEF ServiceDiscoveryRes, StopIsFinal, FlagsTyped
  <2> QED
    BY <2>1, <2>2, <2>3, <2>4, <2>5, <2>6
<1>4. ASSUME NEW sid \in Ids \cup {ZeroId},
             ServiceDetailRes(sid)
      PROVE  InvEV'
  <2>1. StandTyped'
    BY <1>4 DEF ServiceDetailRes, StandTyped, StatesEV, SetupEV, LoopEV
  <2>2. FlagsTyped'
    BY <1>4 DEF ServiceDetailRes, FlagsTyped
  <2>3. DetailsTyped'
    BY <1>4, EvccV2Assumption DEF ServiceDetailRes, DetailsTyped
  <2>4. EnabledInSession' /\ AuthorizedStates'
    BY <1>4 DEF ServiceDetailRes, EnabledInSession, AuthorizedStates,
         FlagsTyped, SetupEV, LoopEV
  <2>5. TimerOwn' /\ TimerStates'
    BY <1>4 DEF ServiceDetailRes, TimerOwn, TimerStates, StandTyped,
         RepeatStates
  <2>6. StopIsFinal'
    BY <1>4 DEF ServiceDetailRes, StopIsFinal, FlagsTyped
  <2> QED
    BY <2>1, <2>2, <2>3, <2>4, <2>5, <2>6
<1>5. ASSUME NEW sid \in Ids \cup {ZeroId}, NEW needed \in BOOLEAN,
             NEW keys \in BOOLEAN,
             PaymentServiceSelectionRes(sid, needed, keys)
      PROVE  InvEV'
  <2>1. StandTyped'
    BY <1>5 DEF PaymentServiceSelectionRes, StandTyped, StatesEV, SetupEV,
         LoopEV
  <2>2. FlagsTyped'
    BY <1>5 DEF PaymentServiceSelectionRes, FlagsTyped
  <2>3. DetailsTyped'
    BY <1>5, EvccV2Assumption DEF PaymentServiceSelectionRes, DetailsTyped
  <2>4. EnabledInSession' /\ AuthorizedStates'
    BY <1>5 DEF PaymentServiceSelectionRes, EnabledInSession,
         AuthorizedStates, FlagsTyped, SetupEV, LoopEV
  <2>5. TimerOwn' /\ TimerStates'
    BY <1>5 DEF PaymentServiceSelectionRes, TimerOwn, TimerStates,
         StandTyped, RepeatStates
  <2>6. StopIsFinal'
    BY <1>5 DEF PaymentServiceSelectionRes, StopIsFinal, FlagsTyped
  <2> QED
    BY <2>1, <2>2, <2>3, <2>4, <2>5, <2>6
<1>6. ASSUME NEW sid \in Ids \cup {ZeroId},
             NEW installed \in BOOLEAN,
             CertificateInstallationRes(sid, installed)
      PROVE  InvEV'
  <2>1. StandTyped'
    BY <1>6 DEF CertificateInstallationRes, StandTyped, StatesEV, SetupEV,
         LoopEV
  <2>2. FlagsTyped'
    BY <1>6 DEF CertificateInstallationRes, FlagsTyped
  <2>3. DetailsTyped'
    BY <1>6, EvccV2Assumption DEF CertificateInstallationRes, DetailsTyped
  <2>4. EnabledInSession' /\ AuthorizedStates'
    BY <1>6 DEF CertificateInstallationRes, EnabledInSession,
         AuthorizedStates, FlagsTyped, SetupEV, LoopEV
  <2>5. TimerOwn' /\ TimerStates'
    BY <1>6 DEF CertificateInstallationRes, TimerOwn, TimerStates,
         StandTyped, RepeatStates
  <2>6. StopIsFinal'
    BY <1>6 DEF CertificateInstallationRes, StopIsFinal, FlagsTyped
  <2> QED
    BY <2>1, <2>2, <2>3, <2>4, <2>5, <2>6
<1>7. ASSUME NEW sid \in Ids \cup {ZeroId}, NEW keys \in BOOLEAN,
             PaymentDetailsRes(sid, keys)
      PROVE  InvEV'
  <2>1. StandTyped'
    BY <1>7 DEF PaymentDetailsRes, StandTyped, StatesEV, SetupEV, LoopEV
  <2>2. FlagsTyped'
    BY <1>7 DEF PaymentDetailsRes, FlagsTyped
  <2>3. DetailsTyped'
    BY <1>7, EvccV2Assumption DEF PaymentDetailsRes, DetailsTyped
  <2>4. EnabledInSession' /\ AuthorizedStates'
    BY <1>7 DEF PaymentDetailsRes, EnabledInSession, AuthorizedStates,
         FlagsTyped, SetupEV, LoopEV
  <2>5. TimerOwn' /\ TimerStates'
    BY <1>7 DEF PaymentDetailsRes, TimerOwn, TimerStates, StandTyped,
         RepeatStates
  <2>6. StopIsFinal'
    BY <1>7 DEF PaymentDetailsRes, StopIsFinal, FlagsTyped
  <2> QED
    BY <2>1, <2>2, <2>3, <2>4, <2>5, <2>6
<1>8. ASSUME NEW sid \in Ids \cup {ZeroId}, NEW finished \in BOOLEAN,
             AuthorizationRes(sid, finished)
      PROVE  InvEV'
  <2>1. StandTyped'
    BY <1>8 DEF AuthorizationRes, Ongoing, StandTyped, StatesEV, SetupEV,
         LoopEV
  <2>2. FlagsTyped'
    BY <1>8 DEF AuthorizationRes, Ongoing, FlagsTyped
  <2>3. DetailsTyped'
    BY <1>8, EvccV2Assumption DEF AuthorizationRes, Ongoing, DetailsTyped
  <2>4. EnabledInSession' /\ AuthorizedStates'
    BY <1>8 DEF AuthorizationRes, Ongoing, EnabledInSession,
         AuthorizedStates, FlagsTyped, SetupEV, LoopEV
  <2>5. TimerOwn' /\ TimerStates'
    BY <1>8 DEF AuthorizationRes, Ongoing, TimerOwn, TimerStates, StandTyped,
         RepeatStates
  <2>6. StopIsFinal'
    BY <1>8 DEF AuthorizationRes, Ongoing, StopIsFinal, FlagsTyped
  <2> QED
    BY <2>1, <2>2, <2>3, <2>4, <2>5, <2>6
<1>9. ASSUME NEW sid \in Ids \cup {ZeroId}, NEW finished \in BOOLEAN,
             NEW choice \in {"Start", "Stop"},
             NEW tuple \in Schedules,
             ChargeParameterDiscoveryRes(sid, finished, choice, tuple)
      PROVE  InvEV'
  <2>1. StandTyped'
    BY <1>9 DEF ChargeParameterDiscoveryRes, Ongoing, PowerDeliveryReq,
         StandTyped, StatesEV, SetupEV, LoopEV
  <2>2. FlagsTyped'
    BY <1>9 DEF ChargeParameterDiscoveryRes, Ongoing, PowerDeliveryReq,
         FlagsTyped
  <2>3. DetailsTyped'
    BY <1>9, EvccV2Assumption DEF ChargeParameterDiscoveryRes, Ongoing,
         PowerDeliveryReq, DetailsTyped
  <2>4. EnabledInSession' /\ AuthorizedStates'
    BY <1>9 DEF ChargeParameterDiscoveryRes, Ongoing, PowerDeliveryReq,
         EnabledInSession, AuthorizedStates, FlagsTyped, SetupEV, LoopEV
  <2>5. TimerOwn' /\ TimerStates'
    BY <1>9 DEF ChargeParameterDiscoveryRes, Ongoing, PowerDeliveryReq,
         TimerOwn, TimerStates, StandTyped, RepeatStates
  <2>6. StopIsFinal'
    BY <1>9 DEF ChargeParameterDiscoveryRes, Ongoing, PowerDeliveryReq,
         StopIsFinal, FlagsTyped
  <2> QED
    BY <2>1, <2>2, <2>3, <2>4, <2>5, <2>6
<1>10. ASSUME NEW sid \in Ids \cup {ZeroId}, NEW finished \in BOOLEAN,
              NEW safe \in BOOLEAN,
              CableCheckRes(sid, finished, safe)
       PROVE  InvEV'
  <2>1. StandTyped'
    BY <1>10 DEF CableCheckRes, Ongoing, StandTyped, StatesEV, SetupEV, LoopEV
  <2>2. FlagsTyped'
    BY <1>10 DEF CableCheckRes, Ongoing, FlagsTyped
  <2>3. DetailsTyped'
    BY <1>10, EvccV2Assumption DEF CableCheckRes, Ongoing, DetailsTyped
  <2>4. EnabledInSession' /\ AuthorizedStates'
    BY <1>10 DEF CableCheckRes, Ongoing, EnabledInSession, AuthorizedStates,
         FlagsTyped, SetupEV, LoopEV
  <2>5. TimerOwn' /\ TimerStates'
    BY <1>10 DEF CableCheckRes, Ongoing, TimerOwn, TimerStates, StandTyped,
         RepeatStates
  <2>6. StopIsFinal'
    BY <1>10 DEF CableCheckRes, Ongoing, StopIsFinal, FlagsTyped
  <2> QED
    BY <2>1, <2>2, <2>3, <2>4, <2>5, <2>6
<1>11. ASSUME NEW sid \in Ids \cup {ZeroId},
              NEW precharged \in BOOLEAN,
              PreChargeRes(sid, precharged)
       PROVE  InvEV'
  <2>1. StandTyped'
    BY <1>11 DEF PreChargeRes, Ongoing, PowerDeliveryReq, StandTyped,
         StatesEV, SetupEV, LoopEV
  <2>2. FlagsTyped'
    BY <1>11 DEF PreChargeRes, Ongoing, PowerDeliveryReq, FlagsTyped
  <2>3. DetailsTyped'
    BY <1>11, EvccV2Assumption DEF PreChargeRes, Ongoing, PowerDeliveryReq,
         DetailsTyped
  <2>4. EnabledInSession' /\ AuthorizedStates'
    BY <1>11 DEF PreChargeRes, Ongoing, PowerDeliveryReq, EnabledInSession,
         AuthorizedStates, FlagsTyped, SetupEV, LoopEV
  <2>5. TimerOwn' /\ TimerStates'
    BY <1>11 DEF PreChargeRes, Ongoing, PowerDeliveryReq, TimerOwn,
         TimerStates, StandTyped, RepeatStates
  <2>6. StopIsFinal'
    BY <1>11 DEF PreChargeRes, Ongoing, PowerDeliveryReq, StopIsFinal,
         FlagsTyped
  <2> QED
    BY <2>1, <2>2, <2>3, <2>4, <2>5, <2>6
<1>12. ASSUME NEW sid \in Ids \cup {ZeroId},
              PowerDeliveryRes(sid)
       PROVE  InvEV'
  <2>1. StandTyped'
    BY <1>12 DEF PowerDeliveryRes, ChargingLoopReq, StandTyped, StatesEV,
         SetupEV, LoopEV
  <2>2. FlagsTyped'
    BY <1>12 DEF PowerDeliveryRes, ChargingLoopReq, FlagsTyped
  <2>3. DetailsTyped'
    BY <1>12, EvccV2Assumption DEF PowerDeliveryRes, ChargingLoopReq,
         DetailsTyped
  <2>4. EnabledInSession' /\ AuthorizedStates'
    BY <1>12 DEF PowerDeliveryRes, ChargingLoopReq, EnabledInSession,
         AuthorizedStates, FlagsTyped, SetupEV, LoopEV
  <2>5. TimerOwn' /\ TimerStates'
    BY <1>12 DEF PowerDeliveryRes, ChargingLoopReq, TimerOwn, TimerStates,
         StandTyped, RepeatStates
  <2>6. StopIsFinal'
    BY <1>12 DEF PowerDeliveryRes, ChargingLoopReq, StopIsFinal, FlagsTyped
  <2> QED
    BY <2>1, <2>2, <2>3, <2>4, <2>5, <2>6
<1>13. ASSUME NEW sid \in Ids \cup {ZeroId}, NEW receipt \in BOOLEAN,
              NEW keys \in BOOLEAN, NEW n \in Notifications,
              NEW going \in BOOLEAN,
              ChargingStatusRes(sid, receipt, keys, n, going)
       PROVE  InvEV'
  <2>1. StandTyped'
    BY <1>13 DEF ChargingStatusRes, StopCharging, RenegotiateEV,
         PowerDeliveryReq, StandTyped, StatesEV, SetupEV, LoopEV
  <2>2. FlagsTyped'
    BY <1>13 DEF ChargingStatusRes, StopCharging, RenegotiateEV,
         PowerDeliveryReq, FlagsTyped
  <2>3. DetailsTyped'
    BY <1>13, EvccV2Assumption DEF ChargingStatusRes, StopCharging,
         RenegotiateEV, PowerDeliveryReq, DetailsTyped
  <2>4. EnabledInSession' /\ AuthorizedStates'
    BY <1>13 DEF ChargingStatusRes, StopCharging, RenegotiateEV,
         PowerDeliveryReq, EnabledInSession, AuthorizedStates,
         FlagsTyped, SetupEV, LoopEV
  <2>5. TimerOwn' /\ TimerStates'
    BY <1>13 DEF ChargingStatusRes, StopCharging, RenegotiateEV,
         PowerDeliveryReq, TimerOwn, TimerStates, StandTyped, RepeatStates
  <2>6. StopIsFinal'
    BY <1>13 DEF ChargingStatusRes, StopCharging, RenegotiateEV,
         PowerDeliveryReq, StopIsFinal, FlagsTyped
  <2> QED
    BY <2>1, <2>2, <2>3, <2>4, <2>5, <2>6
<1>14. ASSUME NEW sid \in Ids \cup {ZeroId}, NEW n \in Notifications,
              MeteringReceiptRes(sid, n)
       PROVE  InvEV'
  <2>1. StandTyped'
    BY <1>14 DEF MeteringReceiptRes, RenegotiateEV, PowerDeliveryReq,
         ChargingLoopReq, Notifications, StandTyped, StatesEV, SetupEV, LoopEV
  <2>2. FlagsTyped'
    BY <1>14 DEF MeteringReceiptRes, RenegotiateEV, PowerDeliveryReq,
         ChargingLoopReq, Notifications, FlagsTyped
  <2>3. DetailsTyped'
    BY <1>14, EvccV2Assumption DEF MeteringReceiptRes, RenegotiateEV,
         PowerDeliveryReq, ChargingLoopReq, Notifications, DetailsTyped
  <2>4. EnabledInSession' /\ AuthorizedStates'
    BY <1>14 DEF MeteringReceiptRes, RenegotiateEV, PowerDeliveryReq,
         ChargingLoopReq, Notifications, EnabledInSession, AuthorizedStates,
         FlagsTyped, SetupEV, LoopEV
  <2>5. TimerOwn' /\ TimerStates'
    BY <1>14 DEF MeteringReceiptRes, RenegotiateEV, PowerDeliveryReq,
         ChargingLoopReq, Notifications, TimerOwn, TimerStates, StandTyped, RepeatStates
  <2>6. StopIsFinal'
    BY <1>14 DEF MeteringReceiptRes, RenegotiateEV, PowerDeliveryReq,
         ChargingLoopReq, Notifications, StopIsFinal, FlagsTyped
  <2> QED
    BY <2>1, <2>2, <2>3, <2>4, <2>5, <2>6
<1>15. ASSUME NEW sid \in Ids \cup {ZeroId}, NEW n \in Notifications,
              NEW going \in BOOLEAN,
              CurrentDemandRes(sid, n, going)
       PROVE  InvEV'
  <2>1. StandTyped'
    BY <1>15 DEF CurrentDemandRes, StopCharging, PowerDeliveryReq,
         StandTyped, StatesEV, SetupEV, LoopEV
  <2>2. FlagsTyped'
    BY <1>15 DEF CurrentDemandRes, StopCharging, PowerDeliveryReq, FlagsTyped
  <2>3. DetailsTyped'
    BY <1>15, EvccV2Assumption DEF CurrentDemandRes, StopCharging,
         PowerDeliveryReq, DetailsTyped
  <2>4. EnabledInSession' /\ AuthorizedStates'
    BY <1>15 DEF CurrentDemandRes, StopCharging, PowerDeliveryReq,
         EnabledInSession, AuthorizedStates, FlagsTyped, SetupEV, LoopEV
  <2>5. TimerOwn' /\ TimerStates'
    BY <1>15 DEF CurrentDemandRes, StopCharging, PowerDeliveryReq, TimerOwn,
         TimerStates, StandTyped, RepeatStates
  <2>6. StopIsFinal'
    BY <1>15 DEF CurrentDemandRes, StopCharging, PowerDeliveryReq,
         StopIsFinal, FlagsTyped
  <2> QED
    BY <2>1, <2>2, <2>3, <2>4, <2>5, <2>6
<1>16. ASSUME NEW sid \in Ids \cup {ZeroId}, NEW finished \in BOOLEAN,
              WeldingDetectionRes(sid, finished)
       PROVE  InvEV'
  <2>1. StandTyped'
    BY <1>16 DEF WeldingDetectionRes, Ongoing, StandTyped, StatesEV, SetupEV,
         LoopEV
  <2>2. FlagsTyped'
    BY <1>16 DEF WeldingDetectionRes, Ongoing, FlagsTyped
  <2>3. DetailsTyped'
    BY <1>16, EvccV2Assumption DEF WeldingDetectionRes, Ongoing, DetailsTyped
  <2>4. EnabledInSession' /\ AuthorizedStates'
    BY <1>16 DEF WeldingDetectionRes, Ongoing, EnabledInSession,
         AuthorizedStates, FlagsTyped, SetupEV, LoopEV
  <2>5. TimerOwn' /\ TimerStates'
    BY <1>16 DEF WeldingDetectionRes, Ongoing, TimerOwn, TimerStates,
         StandTyped, RepeatStates
  <2>6. StopIsFinal'
    BY <1>16 DEF WeldingDetectionRes, Ongoing, StopIsFinal, FlagsTyped
  <2> QED
    BY <2>1, <2>2, <2>3, <2>4, <2>5, <2>6
<1>17. ASSUME NEW sid \in Ids \cup {ZeroId},
              SessionStopRes(sid)
       PROVE  InvEV'
  <2>1. StandTyped'
    BY <1>17 DEF SessionStopRes, StandTyped, StatesEV, SetupEV, LoopEV
  <2>2. FlagsTyped'
    BY <1>17 DEF SessionStopRes, FlagsTyped
  <2>3. DetailsTyped'
    BY <1>17, EvccV2Assumption DEF SessionStopRes, DetailsTyped
  <2>4. EnabledInSession' /\ AuthorizedStates'
    BY <1>17 DEF SessionStopRes, EnabledInSession, AuthorizedStates,
         FlagsTyped, SetupEV, LoopEV
  <2>5. TimerOwn' /\ TimerStates'
    BY <1>17 DEF SessionStopRes, TimerOwn, TimerStates, StandTyped,
         RepeatStates
  <2>6. StopIsFinal'
    BY <1>17 DEF SessionStopRes, StopIsFinal, FlagsTyped
  <2> QED
    BY <2>1, <2>2, <2>3, <2>4, <2>5, <2>6
<1>18. ASSUME NEW type \in StatesEV, NEW ok \in BOOLEAN,
              NEW sid \in Ids \cup {ZeroId},
              RefuseEV(type, ok, sid)
       PROVE  InvEV'
  <2>1. StandTyped'
    BY <1>18 DEF RefuseEV, StandTyped, StatesEV, SetupEV, LoopEV
  <2>2. FlagsTyped'
    BY <1>18 DEF RefuseEV, FlagsTyped
  <2>3. DetailsTyped'
    BY <1>18, EvccV2Assumption DEF RefuseEV, DetailsTyped
  <2>4. EnabledInSession' /\ AuthorizedStates'
    BY <1>18 DEF RefuseEV, EnabledInSession, AuthorizedStates, FlagsTyped,
         SetupEV, LoopEV
  <2>5. TimerOwn' /\ TimerStates'
    BY <1>18 DEF RefuseEV, TimerOwn, TimerStates, StandTyped, RepeatStates
  <2>6. StopIsFinal'
    BY <1>18 DEF RefuseEV, StopIsFinal, FlagsTyped
  <2> QED
    BY <2>1, <2>2, <2>3, <2>4, <2>5, <2>6
<1>19. ASSUME AbortEV
       PROVE  InvEV'
  <2>1. StandTyped'
    BY <1>19 DEF AbortEV, StandTyped, StatesEV, SetupEV, LoopEV
  <2>2. FlagsTyped'
    BY <1>19 DEF AbortEV, FlagsTyped
  <2>3. DetailsTyped'
    BY <1>19, EvccV2Assumption DEF AbortEV, DetailsTyped
  <2>4. EnabledInSession' /\ AuthorizedStates'
    BY <1>19 DEF AbortEV, EnabledInSession, AuthorizedStates, FlagsTyped,
         SetupEV, LoopEV
  <2>5. TimerOwn' /\ TimerStates'
    BY <1>19 DEF AbortEV, TimerOwn, TimerStates, StandTyped, RepeatStates
  <2>6. StopIsFinal'
    BY <1>19 DEF AbortEV, StopIsFinal, FlagsTyped
  <2> QED
    BY <2>1, <2>2, <2>3, <2>4, <2>5, <2>6
<1>20. ASSUME TimeoutEV
       PROVE  InvEV'
  <2>1. StandTyped'
    BY <1>20 DEF TimeoutEV, StandTyped, StatesEV, SetupEV, LoopEV
  <2>2. FlagsTyped'
    BY <1>20 DEF TimeoutEV, FlagsTyped
  <2>3. DetailsTyped'
    BY <1>20, EvccV2Assumption DEF TimeoutEV, DetailsTyped
  <2>4. EnabledInSession' /\ AuthorizedStates'
    BY <1>20 DEF TimeoutEV, EnabledInSession, AuthorizedStates, FlagsTyped,
         SetupEV, LoopEV
  <2>5. TimerOwn' /\ TimerStates'
    BY <1>20 DEF TimeoutEV, TimerOwn, TimerStates, StandTyped, RepeatStates
  <2>6. StopIsFinal'
    BY <1>20 DEF TimeoutEV, StopIsFinal, FlagsTyped
  <2> QED
    BY <2>1, <2>2, <2>3, <2>4, <2>5, <2>6
<1>21. ASSUME Arrive
       PROVE  InvEV'
  <2>1. StandTyped'
    BY <1>21 DEF Arrive, StandTyped, StatesEV, SetupEV, LoopEV
  <2>2. FlagsTyped'
    BY <1>21 DEF Arrive, FlagsTyped
  <2>3. DetailsTyped'
    BY <1>21, EvccV2Assumption DEF Arrive, DetailsTyped
  <2>4. EnabledInSession' /\ AuthorizedStates'
    BY <1>21 DEF Arrive, EnabledInSession, AuthorizedStates, FlagsTyped,
         SetupEV, LoopEV
  <2>5. TimerOwn' /\ TimerStates'
    BY <1>21 DEF Arrive, TimerOwn, TimerStates, StandTyped, RepeatStates
  <2>6. StopIsFinal'
    BY <1>21 DEF Arrive, StopIsFinal, FlagsTyped
  <2> QED
    BY <2>1, <2>2, <2>3, <2>4, <2>5, <2>6
<1>22. ASSUME TimerExpires
       PROVE  InvEV'
  <2>1. StandTyped'
    BY <1>22 DEF TimerExpires, StandTyped, StatesEV, SetupEV, LoopEV
  <2>2. FlagsTyped'
    BY <1>22 DEF TimerExpires, FlagsTyped
  <2>3. DetailsTyped'
    BY <1>22, EvccV2Assumption DEF TimerExpires, DetailsTyped
  <2>4. EnabledInSession' /\ AuthorizedStates'
    BY <1>22 DEF TimerExpires, EnabledInSession, AuthorizedStates,
         FlagsTyped, SetupEV, LoopEV
  <2>5. TimerOwn' /\ TimerStates'
    BY <1>22 DEF TimerExpires, TimerOwn, TimerStates, StandTyped, RepeatStates
  <2>6. StopIsFinal'
    BY <1>22 DEF TimerExpires, StopIsFinal, FlagsTyped
  <2> QED
    BY <2>1, <2>2, <2>3, <2>4, <2>5, <2>6
<1>23. ASSUME Disable
       PROVE  InvEV'
  <2>1. StandTyped'
    BY <1>23 DEF Disable, StandTyped, StatesEV, SetupEV, LoopEV
  <2>2. FlagsTyped'
    BY <1>23 DEF Disable, FlagsTyped
  <2>3. DetailsTyped'
    BY <1>23, EvccV2Assumption DEF Disable, DetailsTyped
  <2>4. EnabledInSession' /\ AuthorizedStates'
    BY <1>23 DEF Disable, EnabledInSession, AuthorizedStates, FlagsTyped,
         SetupEV, LoopEV
  <2>5. TimerOwn' /\ TimerStates'
    BY <1>23 DEF Disable, TimerOwn, TimerStates, StandTyped, RepeatStates
  <2>6. StopIsFinal'
    BY <1>23 DEF Disable, StopIsFinal, FlagsTyped
  <2> QED
    BY <2>1, <2>2, <2>3, <2>4, <2>5, <2>6
<1>24. ASSUME Close
       PROVE  InvEV'
  <2>1. StandTyped'
    BY <1>24 DEF Close, StandTyped, StatesEV, SetupEV, LoopEV
  <2>2. FlagsTyped'
    BY <1>24 DEF Close, FlagsTyped
  <2>3. DetailsTyped'
    BY <1>24, EvccV2Assumption DEF Close, DetailsTyped
  <2>4. EnabledInSession' /\ AuthorizedStates'
    BY <1>24 DEF Close, EnabledInSession, AuthorizedStates, FlagsTyped,
         SetupEV, LoopEV
  <2>5. TimerOwn' /\ TimerStates'
    BY <1>24 DEF Close, TimerOwn, TimerStates, StandTyped, RepeatStates
  <2>6. StopIsFinal'
    BY <1>24 DEF Close, StopIsFinal, FlagsTyped
  <2> QED
    BY <2>1, <2>2, <2>3, <2>4, <2>5, <2>6
<1>25. CASE UNCHANGED varsEV
  <2>1. StandTyped'
    BY <1>25 DEF varsEV, StandTyped, StatesEV, SetupEV, LoopEV
  <2>2. FlagsTyped'
    BY <1>25 DEF varsEV, FlagsTyped
  <2>3. DetailsTyped'
    BY <1>25, EvccV2Assumption DEF varsEV, DetailsTyped
  <2>4. EnabledInSession' /\ AuthorizedStates'
    BY <1>25 DEF varsEV, EnabledInSession, AuthorizedStates, FlagsTyped,
         SetupEV, LoopEV
  <2>5. TimerOwn' /\ TimerStates'
    BY <1>25 DEF varsEV, TimerOwn, TimerStates, StandTyped, RepeatStates
  <2>6. StopIsFinal'
    BY <1>25 DEF varsEV, StopIsFinal, FlagsTyped
  <2> QED
    BY <2>1, <2>2, <2>3, <2>4, <2>5, <2>6
<1> QED
  BY <1>1, <1>2, <1>3, <1>4, <1>5, <1>6, <1>7, <1>8, <1>9, <1>10,
     <1>11, <1>12, <1>13, <1>14, <1>15, <1>16, <1>17, <1>18, <1>19, <1>20,
     <1>21, <1>22, <1>23, <1>24, <1>25
  DEF NextEV, Turn, Process

-----------------------------------------------------------------------------
(* The theorems.                                                           *)

LEMMA InvCorrectEV == SpecEV => []InvEV
  BY InvInitEV, InvStepEV, PTL DEF SpecEV

\* Every variable of the EVCC keeps its type, whatever the SECC answers.
THEOREM TypeCorrectEV == SpecEV => []TypeOKEV
  BY InvCorrectEV, InvTypesEV, PTL

\* Charging is enabled only in an authorized session, not while welding is
\* detected, and not when the connection closes.
THEOREM ContactorsInSession == SpecEV => []EnabledInSession
<1>1. InvEV => EnabledInSession
  BY DEF InvEV
<1> QED
  BY <1>1, InvCorrectEV, PTL

\* No state inherits the waiting time of another one.
THEOREM TimerOwned == SpecEV => []TimerOwn
<1>1. InvEV => TimerOwn
  BY DEF InvEV
<1> QED
  BY <1>1, InvCorrectEV, PTL

\* A decision to stop charging is final.
THEOREM StopFinal == SpecEV => []StopIsFinal
<1>1. InvEV => StopIsFinal
  BY DEF InvEV
<1> QED
  BY <1>1, InvCorrectEV, PTL
=============================================================================
