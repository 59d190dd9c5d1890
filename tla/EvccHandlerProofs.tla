------------------------- MODULE EvccHandlerProofs -------------------------
(***************************************************************************)
(* What EvccHandler promises for any configuration and whatever arrives:   *)
(* that one thing is pending at a time, and that the number of requests is *)
(* bounded.                                                                *)
(***************************************************************************)
EXTENDS EvccHandler, TLAPS

\* The parts of TypeOK without and with numbers and sequences.
StandTyped ==
    /\ udp \in {"starting", "started", "failed"}
    /\ sdp \in {"idle", "sending", "waiting"}
    /\ session \in {"none", "tls", "plain", "notified", "lost"}
    /\ fate \in {"alive", "finished", "dead"}
    /\ dropped \in {"none", "sdp failed", "security mismatch", "not connected",
                    "no protocol", "garbage"}
CountsTyped ==
    /\ cycles \in 0 .. Cycles /\ retries \in 0 .. MaxRequests
    /\ requests \in Nat /\ packets \in 0 .. MaxPackets
QueuesTyped == inbox \in Seq(Datagrams) /\ queue \in Seq(Notifications)

\* Before the first cycle nothing has happened.
NotStarted ==
    cycles = Cycles =>
        /\ sdp = "idle" /\ queue = <<>> /\ session = "none"
        /\ dropped = "none" /\ requests = 0

\* The requests sent, those left in this cycle, and those of the cycles left are
\* within the total; the request that is being waited for counts twice.
Budget ==
    /\ cycles # Cycles /\ dropped = "none" =>
         requests + retries + cycles * MaxRequests
           <= Cycles * MaxRequests + (IF sdp = "waiting" THEN 1 ELSE 0)
    /\ sdp # "idle" => retries > 0

Inv ==
    /\ StandTyped /\ CountsTyped /\ QueuesTyped
    /\ OneThingPending /\ NotStarted
    /\ Budget /\ RequestsBounded

-----------------------------------------------------------------------------
(* Arithmetic and sequences.                                               *)

\* A cycle costs MaxRequests.
LEMMA CycleCost ==
    ASSUME NEW c \in Nat, c # 0
    PROVE  /\ c * MaxRequests \in Nat
           /\ (c - 1) * MaxRequests = c * MaxRequests - MaxRequests
  BY EvccHandlerAssumption

\* A queue with at most one entry is empty once that is taken.
LEMMA TakenEmpty ==
    ASSUME NEW S, NEW q \in Seq(S), Len(q) <= 1, q # <<>>
    PROVE  Tail(q) = <<>> /\ Head(q) \in S
  OBVIOUS

\* What is put into an empty queue is its only entry.
LEMMA OneEntry ==
    ASSUME NEW S, NEW e \in S
    PROVE  /\ Append(<<>>, e) \in Seq(S) /\ Append(<<>>, e) # <<>>
           /\ Len(Append(<<>>, e)) = 1 /\ Head(Append(<<>>, e)) = e
  OBVIOUS

\* The empty sequence.
LEMMA EmptySeq == Len(<<>>) <= 1
  OBVIOUS

-----------------------------------------------------------------------------
(* The initial state and the steps.                                        *)

\* The initial state satisfies the invariant.
LEMMA InvInit == Init => Inv
<1> SUFFICES ASSUME Init PROVE Inv
  OBVIOUS
<1>1. StandTyped
  BY DEF Init, StandTyped
<1>2. CountsTyped
  BY EvccHandlerAssumption DEF Init, CountsTyped
<1>3. QueuesTyped
  BY DEF Init, QueuesTyped
<1>4. OneThingPending
  BY DEF Init, OneThingPending
<1>5. NotStarted /\ Budget
  BY DEF Init, NotStarted, Budget
<1>6. RequestsBounded
  BY EvccHandlerAssumption DEF Init, RequestsBounded
<1> QED
  BY <1>1, <1>2, <1>3, <1>4, <1>5, <1>6 DEF Inv

\* restart_sdp begins a new cycle, goes on with this one, or gives up.
LEMMA RestartOutcomes ==
    ASSUME NEW new \in BOOLEAN, RestartSdp(new), CountsTyped
    PROVE  /\ fate' = fate
           /\ \/ /\ new /\ cycles # 0 /\ cycles' = cycles - 1
                 /\ retries' = MaxRequests
                 /\ sdp' = "sending" /\ dropped' = dropped
              \/ /\ ~new /\ cycles' = cycles /\ retries > 0 /\ retries' = retries
                 /\ sdp' = "sending" /\ dropped' = dropped
              \/ /\ ~new \/ cycles = 0
                 /\ cycles' = cycles /\ retries' \in 0 .. MaxRequests
                 /\ sdp' = sdp /\ dropped' = "sdp failed"
<1>1. CASE new /\ cycles = 0
  <2>1. Drop("sdp failed") /\ cycles' = cycles /\ retries' = retries
    BY <1>1 DEF RestartSdp, progress
  <2>2. retries' \in 0 .. MaxRequests
    BY <2>1 DEF CountsTyped
  <2> QED
    BY <1>1, <2>1, <2>2 DEF Drop
<1>2. CASE new /\ cycles # 0
  <2>1. new = TRUE
    BY <1>2
  <2>2. RestartSdp(TRUE)
    BY <2>1
  <2>3. /\ cycles' = cycles - 1 /\ retries' = MaxRequests
        /\ sdp' = "sending" /\ UNCHANGED <<fate, dropped>>
    BY <1>2, <2>2 DEF RestartSdp
  <2> QED
    BY <1>2, <2>3
<1>3. CASE ~new /\ retries > 0
  <2>1. RestartSdp(FALSE)
    BY <1>3
  <2>2. /\ cycles' = cycles /\ retries' = retries
        /\ sdp' = "sending" /\ UNCHANGED <<fate, dropped>>
    BY <1>3, <2>1 DEF RestartSdp, CountsTyped
  <2> QED
    BY <1>3, <2>2
<1>4. CASE ~new /\ ~(retries > 0)
  <2>1. retries = 0 /\ MaxRequests \in 0 .. MaxRequests
    BY <1>4, EvccHandlerAssumption DEF CountsTyped
  <2> QED
    BY <1>4, <2>1 DEF RestartSdp, Drop
<1> QED
  BY <1>1, <1>2, <1>3, <1>4

\* restart_sdp, called with nothing pending, keeps the invariant; the first cycle
\* is begun only with a cycle to begin.
LEMMA RestartKeeps ==
    ASSUME Inv, NEW new \in BOOLEAN, RestartSdp(new), sdp = "idle",
           dropped = "none", queue' = <<>>, session' = "none",
           cycles = Cycles => new /\ Cycles # 0,
           udp' = udp, inbox' = inbox, requests' = requests, packets' = packets
    PROVE  Inv'
<1>1. /\ fate' = fate
      /\ \/ /\ new /\ cycles # 0 /\ cycles' = cycles - 1
            /\ retries' = MaxRequests
            /\ sdp' = "sending" /\ dropped' = dropped
         \/ /\ ~new /\ cycles' = cycles /\ retries > 0 /\ retries' = retries
            /\ sdp' = "sending" /\ dropped' = dropped
         \/ /\ ~new \/ cycles = 0
            /\ cycles' = cycles /\ retries' \in 0 .. MaxRequests
            /\ sdp' = sdp /\ dropped' = "sdp failed"
  BY RestartOutcomes DEF Inv
<1>2. StandTyped'
  BY <1>1 DEF Inv, StandTyped
<1>3. /\ cycles' \in 0 .. cycles /\ retries' \in 0 .. MaxRequests
      /\ CountsTyped'
  <2>1. cycles \in 0 .. Cycles /\ retries \in 0 .. MaxRequests
    BY DEF Inv, CountsTyped
  <2>2. (cycles' = cycles - 1 /\ cycles # 0) \/ cycles' = cycles
    BY <1>1
  <2>3. cycles' \in 0 .. cycles /\ cycles' \in 0 .. Cycles
    BY <2>1, <2>2, EvccHandlerAssumption
  <2>4. retries' \in 0 .. MaxRequests
    <3>1. MaxRequests \in 0 .. MaxRequests
      BY EvccHandlerAssumption
    <3> QED
      BY <1>1, <2>1, <3>1
  <2> QED
    BY <2>3, <2>4 DEF Inv, CountsTyped
<1>4. QueuesTyped'
  BY DEF Inv, QueuesTyped
<1>5. OneThingPending'
  <2>1. Len(queue') <= 1
    BY EmptySeq
  <2>2. dropped' # "none" => sdp' = "idle"
    BY <1>1
  <2> QED
    BY <2>1, <2>2 DEF OneThingPending
<1>6. NotStarted'
  <2>1. cycles' # Cycles
    <3>1. CASE cycles = Cycles
      <4>1. cycles' = cycles - 1
        BY <1>1, <3>1
      <4> QED
        BY <4>1, <3>1, EvccHandlerAssumption
    <3>2. CASE cycles # Cycles
      <4>1. cycles' = cycles - 1 \/ cycles' = cycles
        BY <1>1
      <4>2. cycles \in 0 .. Cycles
        BY DEF Inv, CountsTyped
      <4> QED
        BY <4>1, <4>2, <3>2, EvccHandlerAssumption
    <3> QED
      BY <3>1, <3>2
  <2> QED
    BY <2>1 DEF NotStarted
<1>7. RequestsBounded'
  BY DEF Inv, RequestsBounded
<1>8. Budget'
  <2>1. CASE dropped' # "none"
    BY <2>1, <1>5 DEF Budget, OneThingPending
  <2>2. CASE /\ cycles # 0 /\ cycles' = cycles - 1
             /\ retries' = MaxRequests /\ sdp' = "sending"
    <3>1. requests + cycles * MaxRequests <= Cycles * MaxRequests
      <4>1. CASE cycles = Cycles
        <5>1. requests = 0
          BY <4>1 DEF Inv, NotStarted
        <5> QED
          BY <4>1, <5>1, EvccHandlerAssumption, CycleCost DEF Inv, CountsTyped
      <4>2. CASE cycles # Cycles
        <5>1. requests + retries + cycles * MaxRequests <= Cycles * MaxRequests + 0
          BY <4>2 DEF Inv, Budget
        <5>2. cycles \in Nat /\ retries \in Nat /\ requests \in Nat /\ Cycles \in Nat
          BY EvccHandlerAssumption DEF Inv, CountsTyped
        <5>3. cycles * MaxRequests \in Nat /\ Cycles * MaxRequests \in Nat
          BY <5>2, EvccHandlerAssumption
        <5> QED
          BY <5>1, <5>2, <5>3
      <4> QED
        BY <4>1, <4>2
    <3>2. cycles \in Nat /\ requests \in Nat /\ MaxRequests \in Nat \ {0}
      BY EvccHandlerAssumption DEF Inv, CountsTyped
    <3>3. (cycles - 1) * MaxRequests = cycles * MaxRequests - MaxRequests
          /\ cycles * MaxRequests \in Nat
      BY <2>2, <3>2, CycleCost
    <3> DEFINE prod == cycles * MaxRequests
               total == Cycles * MaxRequests
    <3>4. requests + MaxRequests + (prod - MaxRequests) = requests + prod
      <4> HIDE DEF prod
      <4>1. prod \in Nat
        BY <3>3 DEF prod
      <4> QED
        BY <4>1, <3>2
    <3>5. requests' + retries' + cycles' * MaxRequests <= total
      BY <2>2, <3>1, <3>3, <3>4
    <3>6. total + 0 = total
      BY EvccHandlerAssumption
    <3>7. MaxRequests > 0
      BY EvccHandlerAssumption
    <3> QED
      BY <2>2, <3>5, <3>6, <3>7 DEF Budget
  <2>3. CASE /\ cycles' = cycles /\ retries > 0 /\ retries' = retries
             /\ sdp' = "sending" /\ ~new
    <3>1. requests + retries + cycles * MaxRequests <= Cycles * MaxRequests + 0
      BY <2>3 DEF Inv, Budget
    <3> QED
      BY <2>3, <3>1 DEF Budget
  <2> QED
    BY <1>1, <2>1, <2>2, <2>3
<1> QED
  BY <1>2, <1>3, <1>4, <1>5, <1>6, <1>7, <1>8 DEF Inv

\* What is known when the handler takes a notification.
LEMMA Taking ==
    ASSUME Inv, NEW kind \in Notifications, Takes(kind)
    PROVE  /\ sdp = "idle" /\ dropped = "none" /\ cycles # Cycles
           /\ queue' = <<>>
           /\ session = IF kind \in {"stopped", "failed"} THEN "notified" ELSE "none"
<1>1. queue # <<>> /\ Head(queue) = kind /\ queue' = Tail(queue) /\ sdp = "idle"
  BY DEF Takes
<1>2. dropped = "none" /\ cycles # Cycles
      /\ session = IF kind \in {"stopped", "failed"} THEN "notified" ELSE "none"
  BY <1>1 DEF Inv, OneThingPending, NotStarted
<1>3. queue' = <<>>
  BY <1>1, TakenEmpty DEF Inv, OneThingPending, QueuesTyped
<1> QED
  BY <1>1, <1>2, <1>3

\* A step that ends a notification without a restart keeps the invariant.
LEMMA TakenKeeps ==
    ASSUME Inv, NEW kind \in Notifications, Takes(kind),
           UNCHANGED <<udp, sdp, progress, inbox, counts>>,
           StandTyped',
           dropped' # "none" => session' = "none"
    PROVE  Inv'
<1>1. /\ sdp = "idle" /\ dropped = "none" /\ cycles # Cycles /\ queue' = <<>>
  BY Taking
<1>2. /\ udp' = udp /\ sdp' = sdp /\ cycles' = cycles /\ retries' = retries
      /\ inbox' = inbox /\ requests' = requests /\ packets' = packets
  BY DEF progress, counts
<1>3. CountsTyped'
  BY <1>2 DEF Inv, CountsTyped
<1>4. QueuesTyped'
  BY <1>1, <1>2 DEF Inv, QueuesTyped
<1>5. OneThingPending'
  <2>1. Len(queue') <= 1
    BY <1>1, EmptySeq
  <2> QED
    BY <1>1, <1>2, <2>1 DEF OneThingPending
<1>6. NotStarted' /\ RequestsBounded'
  BY <1>1, <1>2 DEF Inv, NotStarted, RequestsBounded
<1>7. Budget'
  BY <1>1, <1>2 DEF Inv, Budget
<1> QED
  BY <1>3, <1>4, <1>5, <1>6, <1>7 DEF Inv

-----------------------------------------------------------------------------
(* The actions.                                                            *)

\* The UDP client's callbacks only change what discovery does not depend on.
LEMMA UdpKeeps == Inv /\ (ConnectionMade \/ ErrorReceived) => Inv'
<1> SUFFICES ASSUME Inv, ConnectionMade \/ ErrorReceived PROVE Inv'
  OBVIOUS
<1>1. /\ udp' \in {"started", "failed"}
      /\ UNCHANGED <<sdp, cycles, retries, inbox, queue, session, fate, dropped,
                     requests, packets>>
  BY DEF ConnectionMade, ErrorReceived, progress, counts
<1>2. StandTyped'
  BY <1>1 DEF Inv, StandTyped
<1>3. CountsTyped'
  BY <1>1 DEF Inv, CountsTyped
<1>4. QueuesTyped'
  BY <1>1 DEF Inv, QueuesTyped
<1>5. OneThingPending' /\ NotStarted' /\ RequestsBounded'
  BY <1>1 DEF Inv, OneThingPending, NotStarted, RequestsBounded
<1>6. Budget'
  BY <1>1 DEF Inv, Budget
<1> QED
  BY <1>2, <1>3, <1>4, <1>5, <1>6 DEF Inv

\* A datagram only fills the client's queue.
LEMMA DatagramKeeps ==
    ASSUME Inv, NEW d \in Datagrams, DatagramReceived(d)
    PROVE  Inv'
<1>1. /\ inbox' = Append(inbox, d) /\ packets' = packets + 1
      /\ packets < MaxPackets
      /\ UNCHANGED <<udp, sdp, cycles, retries, queue, session, fate, dropped,
                     requests>>
  BY DEF DatagramReceived, progress
<1>2. StandTyped'
  BY <1>1 DEF Inv, StandTyped
<1>3. packets' \in 0 .. MaxPackets
  <2>1. packets \in 0 .. MaxPackets
    BY DEF Inv, CountsTyped
  <2>2. packets' = packets + 1 /\ packets < MaxPackets
    BY <1>1
  <2> QED
    BY <2>1, <2>2, EvccHandlerAssumption
<1>4. CountsTyped'
  BY <1>1, <1>3 DEF Inv, CountsTyped
<1>5. QueuesTyped'
  BY <1>1 DEF Inv, QueuesTyped
<1>6. OneThingPending' /\ NotStarted' /\ RequestsBounded'
  BY <1>1 DEF Inv, OneThingPending, NotStarted, RequestsBounded
<1>7. Budget'
  BY <1>1 DEF Inv, Budget
<1> QED
  BY <1>2, <1>4, <1>5, <1>6, <1>7 DEF Inv

\* A session that is running has left the handler with nothing else to wait for.
LEMMA SessionKeeps ==
    ASSUME Inv, SessionLost \/ \E kind \in {"stopped", "failed"} : SessionEnds(kind)
    PROVE  Inv'
<1>1. /\ session \in {"tls", "plain"} /\ session' \in {"lost", "notified"}
      /\ UNCHANGED <<udp, sdp, cycles, retries, inbox, fate, dropped, requests,
                     packets>>
  BY DEF SessionLost, SessionEnds, progress, counts
<1>2. /\ queue = <<>> /\ sdp = "idle" /\ dropped = "none" /\ cycles # Cycles
  BY <1>1 DEF Inv, OneThingPending, NotStarted
<1>3. StandTyped'
  BY <1>1 DEF Inv, StandTyped
<1>4. CountsTyped'
  BY <1>1 DEF Inv, CountsTyped
<1>5. QueuesTyped' /\ OneThingPending'
  <2>1. CASE SessionLost
    <3>1. queue' = <<>> /\ inbox' = inbox
      BY <2>1, <1>1, <1>2 DEF SessionLost
    <3>2. QueuesTyped'
      BY <3>1 DEF Inv, QueuesTyped
    <3> QED
      BY <3>1, <3>2, <1>1, <1>2, EmptySeq DEF OneThingPending
  <2>2. ASSUME NEW kind \in {"stopped", "failed"}, SessionEnds(kind)
        PROVE  QueuesTyped' /\ OneThingPending'
    <3>1. queue' = Append(<<>>, kind) /\ inbox' = inbox /\ session' = "notified"
      BY <2>2, <1>1, <1>2 DEF SessionEnds
    <3>2. kind \in Notifications
      BY DEF Notifications
    <3>3. queue' \in Seq(Notifications) /\ Len(queue') = 1 /\ Head(queue') = kind
      BY <3>1, <3>2, OneEntry
    <3>4. QueuesTyped'
      BY <3>1, <3>3 DEF Inv, QueuesTyped
    <3>5. Len(queue') <= 1
      BY <3>3
    <3> QED
      BY <3>1, <3>3, <3>4, <3>5, <1>1, <1>2 DEF OneThingPending
  <2> QED
    BY <2>1, <2>2
<1>6. NotStarted' /\ RequestsBounded'
  BY <1>1, <1>2 DEF Inv, NotStarted, RequestsBounded
<1>7. Budget'
  BY <1>1 DEF Inv, Budget
<1> QED
  BY <1>3, <1>4, <1>5, <1>6, <1>7 DEF Inv

\* The first cycle begins, or the process ends without one.
LEMMA StartKeeps == Inv /\ Start => Inv'
<1> SUFFICES ASSUME Inv, Start PROVE Inv'
  OBVIOUS
<1>1. /\ sdp = "idle" /\ cycles = Cycles
      /\ queue = <<>> /\ session = "none" /\ dropped = "none"
  BY DEF Start, Inv, NotStarted
<1>2. UNCHANGED <<udp, inbox, queue, session, requests, packets>>
  BY DEF Start, counts
<1>3. CASE Cycles = 0
  <2>1. fate' = "dead" /\ UNCHANGED <<sdp, cycles, retries, dropped>>
    BY <1>3 DEF Start, progress
  <2>2. StandTyped'
    BY <1>2, <2>1 DEF Inv, StandTyped
  <2>3. CountsTyped'
    BY <1>2, <2>1 DEF Inv, CountsTyped
  <2>4. QueuesTyped' /\ OneThingPending' /\ NotStarted' /\ RequestsBounded'
    BY <1>2, <2>1
    DEF Inv, QueuesTyped, OneThingPending, NotStarted, RequestsBounded
  <2>5. Budget'
    BY <1>2, <2>1 DEF Inv, Budget
  <2> QED
    BY <2>2, <2>3, <2>4, <2>5 DEF Inv
<1>4. CASE Cycles # 0
  <2>1. RestartSdp(TRUE)
    BY <1>4 DEF Start
  <2> QED
    BY <1>1, <1>2, <1>4, <2>1, RestartKeeps
<1> QED
  BY <1>3, <1>4

\* What is known while a request is to be sent or waited for.
LEMMA Asking ==
    ASSUME Inv, sdp # "idle"
    PROVE  /\ queue = <<>> /\ session = "none" /\ dropped = "none"
           /\ cycles # Cycles
           /\ retries \in Nat \ {0} /\ requests \in Nat
           /\ cycles * MaxRequests \in Nat /\ Cycles * MaxRequests \in Nat
           /\ requests + retries + cycles * MaxRequests
                <= Cycles * MaxRequests + (IF sdp = "waiting" THEN 1 ELSE 0)
<1>1. queue = <<>> /\ session = "none" /\ dropped = "none" /\ cycles # Cycles
  BY DEF Inv, OneThingPending, NotStarted
<1>2. /\ cycles \in Nat /\ Cycles \in Nat /\ requests \in Nat /\ retries \in Nat
      /\ MaxRequests \in Nat
  BY EvccHandlerAssumption DEF Inv, CountsTyped
<1>3. cycles * MaxRequests \in Nat /\ Cycles * MaxRequests \in Nat
  BY <1>2
<1>4. retries > 0
      /\ requests + retries + cycles * MaxRequests
           <= Cycles * MaxRequests + (IF sdp = "waiting" THEN 1 ELSE 0)
  BY <1>1 DEF Inv, Budget
<1> QED
  BY <1>1, <1>2, <1>3, <1>4

\* A request is sent only out of the requests that are left.
LEMMA SendKeeps == Inv /\ Send => Inv'
<1> SUFFICES ASSUME Inv, Send PROVE Inv'
  OBVIOUS
<1>1. /\ sdp = "sending" /\ sdp' = "waiting" /\ requests' = requests + 1
      /\ UNCHANGED <<udp, cycles, retries, inbox, queue, session, fate, dropped,
                     packets>>
  BY DEF Send, progress
<1>2. /\ queue = <<>> /\ session = "none" /\ dropped = "none" /\ cycles # Cycles
      /\ retries \in Nat \ {0} /\ requests \in Nat
      /\ cycles * MaxRequests \in Nat /\ Cycles * MaxRequests \in Nat
      /\ requests + retries + cycles * MaxRequests <= Cycles * MaxRequests + 0
  BY <1>1, Asking
<1>3. StandTyped'
  BY <1>1 DEF Inv, StandTyped
<1>4. CountsTyped'
  <2>1. requests' \in Nat
    BY <1>1, <1>2
  <2> QED
    BY <1>1, <2>1 DEF Inv, CountsTyped
<1>5. QueuesTyped' /\ NotStarted'
  BY <1>1, <1>2 DEF Inv, QueuesTyped, NotStarted
<1>6. OneThingPending'
  BY <1>1, <1>2, EmptySeq DEF OneThingPending
<1>7. /\ requests + 1 + retries + cycles * MaxRequests <= Cycles * MaxRequests + 1
      /\ requests + 1 <= Cycles * MaxRequests /\ retries > 0
  BY <1>2
<1>8. RequestsBounded'
  BY <1>1, <1>7 DEF RequestsBounded
<1>9. Budget'
  BY <1>1, <1>7 DEF Budget
<1> QED
  BY <1>3, <1>4, <1>5, <1>6, <1>8, <1>9 DEF Inv

\* An answer or a timeout ends the wait with one notification.
LEMMA ReceiveKeeps == Inv /\ Receive => Inv'
<1> SUFFICES ASSUME Inv, Receive PROVE Inv'
  OBVIOUS
<1>1. /\ sdp = "waiting" /\ sdp' = "idle" /\ retries' = retries - 1
      /\ UNCHANGED <<udp, cycles, session, fate, dropped, requests, packets>>
  BY DEF Receive, counts
<1>2. /\ queue = <<>> /\ session = "none" /\ dropped = "none" /\ cycles # Cycles
      /\ retries \in Nat \ {0} /\ requests \in Nat
      /\ cycles * MaxRequests \in Nat /\ Cycles * MaxRequests \in Nat
      /\ requests + retries + cycles * MaxRequests <= Cycles * MaxRequests + 1
  BY <1>1, Asking
<1>3. StandTyped'
  BY <1>1 DEF Inv, StandTyped
<1>4. CountsTyped'
  <2>1. retries \in 0 .. MaxRequests
    BY DEF Inv, CountsTyped
  <2>2. retries' = retries - 1
    BY <1>1
  <2>3. retries' \in 0 .. MaxRequests
    BY <1>2, <2>1, <2>2, EvccHandlerAssumption
  <2> QED
    BY <1>1, <2>3 DEF Inv, CountsTyped
<1>5. PICK note \in Datagrams \cup {"timeout"} :
        queue' = Append(<<>>, note) /\ inbox' \in Seq(Datagrams)
  <2>1. CASE inbox = <<>>
    <3>1. queue' = Append(<<>>, "timeout") /\ inbox' = inbox
      BY <1>2, <2>1 DEF Receive
    <3> QED
      BY <3>1 DEF Inv, QueuesTyped
  <2>2. CASE inbox # <<>>
    <3>1. queue' = Append(<<>>, Head(inbox)) /\ inbox' = Tail(inbox)
      BY <1>2, <2>2 DEF Receive
    <3>2. inbox \in Seq(Datagrams)
      BY DEF Inv, QueuesTyped
    <3>3. Head(inbox) \in Datagrams /\ Tail(inbox) \in Seq(Datagrams)
      BY <2>2, <3>2
    <3> QED
      BY <3>1, <3>3
  <2> QED
    BY <2>1, <2>2
<1>6. /\ note \in Notifications /\ note \notin {"stopped", "failed"}
  BY DEF Notifications, Datagrams
<1>7. /\ queue' \in Seq(Notifications) /\ Len(queue') = 1 /\ Head(queue') = note
  BY <1>5, <1>6, OneEntry
<1>8. QueuesTyped'
  BY <1>5, <1>7 DEF QueuesTyped
<1>9. OneThingPending'
  <2>1. Len(queue') <= 1
    BY <1>7
  <2> QED
    BY <1>1, <1>2, <1>6, <1>7, <2>1 DEF OneThingPending
<1>10. NotStarted' /\ RequestsBounded'
  BY <1>1, <1>2 DEF Inv, NotStarted, RequestsBounded
<1>11. requests + (retries - 1) + cycles * MaxRequests <= Cycles * MaxRequests + 0
  BY <1>2
<1>12. Budget'
  BY <1>1, <1>11 DEF Budget
<1> QED
  BY <1>3, <1>4, <1>8, <1>9, <1>10, <1>12 DEF Inv

\* A response starts a session, over TLS or not, or ends the attempt.
LEMMA ResponseKeeps ==
    ASSUME Inv, NEW security \in {"tls", "plain"}, NEW connected \in BOOLEAN,
           NEW protocols \in BOOLEAN, NEW sent \in BOOLEAN,
           NEW context \in BOOLEAN,
           HandleResponse(security, connected, protocols, sent, context)
    PROVE  Inv'
<1>1. security \in Notifications /\ security \notin {"stopped", "failed"}
  BY DEF Notifications, Datagrams
<1>2. Takes(security) /\ UNCHANGED <<udp, progress, inbox, counts>>
  BY DEF HandleResponse
<1>3. sdp = "idle" /\ dropped = "none" /\ session = "none"
  BY <1>1, <1>2, Taking
<1>4. \/ /\ dropped' \in {"security mismatch", "not connected", "no protocol"}
         /\ session' = session /\ fate' = fate /\ sdp' = sdp
      \/ /\ session' \in {session, security, "plain"} /\ fate' \in {"alive", "dead"}
         /\ dropped' = dropped /\ sdp' = sdp
  BY DEF HandleResponse, Drop
<1>5. udp' = udp
  BY <1>2
<1>6. StandTyped'
  BY <1>3, <1>4, <1>5 DEF Inv, StandTyped
<1> QED
  BY <1>1, <1>2, <1>3, <1>4, <1>6, TakenKeeps

\* A restart, an end of the process, or a dropped attempt.
LEMMA ServeKeeps == Inv /\ Serve => Inv'
<1> SUFFICES ASSUME Inv, Serve PROVE Inv'
  OBVIOUS
<1>1. ASSUME NEW security \in {"tls", "plain"}, NEW connected \in BOOLEAN,
             NEW protocols \in BOOLEAN, NEW sent \in BOOLEAN,
             NEW context \in BOOLEAN,
             HandleResponse(security, connected, protocols, sent, context)
      PROVE  Inv'
  BY <1>1, ResponseKeeps
<1>2. ASSUME NEW kind \in {"bad", "timeout"}, NEW new \in BOOLEAN,
             Takes(kind), RestartSdp(new), UNCHANGED <<udp, inbox, session, counts>>
      PROVE  Inv'
  <2>1. kind \in Notifications /\ kind \notin {"stopped", "failed"}
    BY DEF Notifications, Datagrams
  <2>2. /\ sdp = "idle" /\ dropped = "none" /\ cycles # Cycles
        /\ queue' = <<>> /\ session = "none"
    BY <1>2, <2>1, Taking
  <2>3. UNCHANGED <<udp, inbox, session, requests, packets>>
    BY <1>2 DEF counts
  <2> QED
    BY <1>2, <2>2, <2>3, RestartKeeps
<1>3. CASE HandleBadResponse
  BY <1>2, <1>3 DEF HandleBadResponse
<1>4. CASE HandleTimeout
  BY <1>2, <1>4 DEF HandleTimeout
<1>5. CASE HandleGarbage
  <2>1. "garbage" \in Notifications
    BY DEF Notifications, Datagrams
  <2>2. Takes("garbage") /\ session = "none"
    BY <1>5, <2>1, Taking DEF HandleGarbage
  <2>3. /\ UNCHANGED <<udp, sdp, progress, inbox, session, fate, counts>>
        /\ dropped' = "garbage"
    BY <1>5 DEF HandleGarbage, Drop
  <2>4. StandTyped'
    BY <2>3 DEF Inv, StandTyped
  <2> QED
    BY <2>1, <2>2, <2>3, <2>4, TakenKeeps
<1>6. CASE HandleMalformed
  <2>1. "malformed" \in Notifications
    BY DEF Notifications, Datagrams
  <2>2. Takes("malformed") /\ session = "none"
    BY <1>6, <2>1, Taking DEF HandleMalformed
  <2>3. /\ UNCHANGED <<udp, sdp, progress, inbox, session, dropped, counts>>
        /\ fate' = "dead"
    BY <1>6 DEF HandleMalformed
  <2>4. StandTyped'
    BY <2>3 DEF Inv, StandTyped
  <2> QED
    BY <2>1, <2>2, <2>3, <2>4, TakenKeeps
<1>7. ASSUME NEW kind \in {"stopped", "failed"}, HandleStop(kind)
      PROVE  Inv'
  <2>1. kind \in Notifications
    BY DEF Notifications
  <2>2. Takes(kind) /\ UNCHANGED <<udp, inbox, counts>>
    BY <1>7 DEF HandleStop
  <2>3. /\ sdp = "idle" /\ dropped = "none" /\ cycles # Cycles
        /\ queue' = <<>> /\ session = "notified"
    BY <2>1, <2>2, Taking
  <2>4. session' = "none"
    BY <1>7, <2>3 DEF HandleStop
  <2>5. CASE kind = "stopped"
    <3>1. fate' = "finished" /\ UNCHANGED <<sdp, progress, dropped>>
      BY <1>7, <2>3, <2>5 DEF HandleStop
    <3>2. StandTyped'
      BY <2>2, <2>4, <3>1 DEF Inv, StandTyped
    <3> QED
      BY <2>1, <2>2, <2>4, <3>1, <3>2, TakenKeeps
  <2>6. CASE kind = "failed"
    <3>1. RestartSdp(TRUE)
      BY <1>7, <2>3, <2>6 DEF HandleStop
    <3>2. UNCHANGED <<udp, inbox, requests, packets>>
      BY <2>2 DEF counts
    <3> QED
      BY <2>3, <2>4, <3>1, <3>2, RestartKeeps
  <2> QED
    BY <2>5, <2>6
<1> QED
  BY <1>1, <1>3, <1>4, <1>5, <1>6, <1>7 DEF Serve

-----------------------------------------------------------------------------
(* The theorems.                                                           *)

\* Every step keeps the invariant.
LEMMA InvStep == Inv /\ [Next]_vars => Inv'
<1> SUFFICES ASSUME Inv, [Next]_vars PROVE Inv'
  OBVIOUS
<1>1. CASE Next
  <2>1. ASSUME NEW d \in Datagrams, DatagramReceived(d) PROVE Inv'
    BY <2>1, DatagramKeeps
  <2>2. CASE ConnectionMade \/ ErrorReceived
    BY <2>2, UdpKeeps
  <2>3. CASE Start
    BY <2>3, StartKeeps
  <2>4. CASE Send
    BY <2>4, SendKeeps
  <2>5. CASE Receive
    BY <2>5, ReceiveKeeps
  <2>6. CASE Serve
    BY <2>6, ServeKeeps
  <2>7. CASE SessionLost \/ \E kind \in {"stopped", "failed"} : SessionEnds(kind)
    BY <2>7, SessionKeeps
  <2> QED
    BY <1>1, <2>1, <2>2, <2>3, <2>4, <2>5, <2>6, <2>7 DEF Next
<1>2. CASE UNCHANGED vars
  <2>1. UNCHANGED <<udp, sdp, cycles, retries, inbox, queue, session, fate,
                    dropped, requests, packets>>
    BY <1>2 DEF vars, progress, counts
  <2>2. StandTyped'
    BY <2>1 DEF Inv, StandTyped
  <2>3. CountsTyped'
    BY <2>1 DEF Inv, CountsTyped
  <2>4. QueuesTyped' /\ OneThingPending' /\ NotStarted' /\ RequestsBounded'
    BY <2>1 DEF Inv, QueuesTyped, OneThingPending, NotStarted, RequestsBounded
  <2>5. Budget'
    BY <2>1 DEF Inv, Budget
  <2> QED
    BY <2>2, <2>3, <2>4, <2>5 DEF Inv
<1> QED
  BY <1>1, <1>2

\* The invariant holds in every behaviour, fair or not.
LEMMA InvAlways == Spec => []Inv
  BY InvInit, InvStep, PTL DEF Spec

\* Every variable keeps its type.
THEOREM TypeCorrectEH == Spec => []TypeOK
<1>1. Inv => TypeOK
  BY DEF Inv, StandTyped, CountsTyped, QueuesTyped, TypeOK
<1> QED
  BY <1>1, InvAlways, PTL

\* Discovery and sessions exclude each other: a second session is never started,
\* no request is sent during one, and a StopNotification finds its session.
THEOREM OnePending == Spec => []OneThingPending
<1>1. Inv => OneThingPending
  BY DEF Inv
<1> QED
  BY <1>1, InvAlways, PTL

\* Retries within a cycle and new cycles stay within the configured total,
\* whatever arrives and however often a session fails.
THEOREM DiscoveryBounded == Spec => []RequestsBounded
<1>1. Inv => RequestsBounded
  BY DEF Inv
<1> QED
  BY <1>1, InvAlways, PTL
=============================================================================
