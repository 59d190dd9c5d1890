------------------------- MODULE SeccHandlerProofs -------------------------
(***************************************************************************)
(* What SeccHandler promises for any number of peers, connections and      *)
(* datagrams, in whatever order sessions and notifications meet: discovery *)
(* is never paused with nobody to resume it, and as long as sessions do    *)
(* not overlap a session owns the handler and inherits from a pause only.  *)
(***************************************************************************)
EXTENDS SeccHandler, TLAPS

-----------------------------------------------------------------------------
(* The inductive invariant.                                                *)

\* The sessions between the handler's notice of the connection and of the end.
Handled == {"active", "stopping", "notified", "lost"}

\* Sessions are numbered in the order of their connections, and have a peer.
Numbered ==
    \A s \in Sessions :
        /\ state[s] = "unborn" <=> s > made
        /\ state[s] # "unborn" => peer[s] \in Peers

\* The state of the session that a notification is about.
Awaits(kind) == IF kind = "client" THEN "connecting" ELSE "notified"

\* A notification of a session is in the queue while it waits for it, and once.
OwnPlace ==
    \A i \in 1 .. Len(queue) :
        queue[i].kind \in {"client", "stop"} =>
            /\ state[queue[i].of] = Awaits(queue[i].kind)
            /\ \A j \in 1 .. Len(queue) :
                 /\ queue[j].kind \in {"client", "stop"}
                 /\ queue[j].of = queue[i].of
                 => i = j

\* An entry is of a session of that peer, which the handler has seen.
Stored ==
    \A p \in Peers :
        registry[p] # None =>
            /\ peer[registry[p]] = p
            /\ state[registry[p]] \in Handled \cup {"ended"}

\* A session that has begun to stop has decided how.
Decided ==
    \A s \in Sessions :
        state[s] \in {"stopping", "notified", "lost", "ended"} =>
            action[s] \in {"pause", "terminate"}

\* As long as sessions do not overlap there is one at a time, and an entry that
\* outlives its session is there to be resumed.
Alone ==
    ~overlapped =>
        /\ \A r, s \in Sessions : Exists(r) /\ Exists(s) => r = s
        /\ \A p \in Peers :
             registry[p] # None /\ state[registry[p]] = "ended" =>
                 action[registry[p]] = "pause"

Inv ==
    /\ TypeOK
    /\ Numbered /\ OwnPlace /\ Stored /\ Decided /\ Alone
    /\ SomeoneResumes /\ SessionOwnsHandler /\ ResumesPausedOnly

-----------------------------------------------------------------------------
(* The queue.                                                              *)

\* A notification of a session names one.
LEMMA NamesSession ==
    ASSUME NEW n \in Notifications
    PROVE  /\ n.kind \in {"client", "stop"} => n.of \in Sessions
           /\ n.kind \in {"tls", "plain"} => n.of \in Peers
  BY DEF Notifications

\* Taking the first notification moves the others up.
LEMMA TailPlaces ==
    ASSUME NEW q \in Seq(Notifications), q # <<>>
    PROVE  /\ Tail(q) \in Seq(Notifications)
           /\ Head(q) = q[1] /\ Head(q) \in Notifications
           /\ Len(q) \in Nat /\ Len(q) >= 1
           /\ Len(Tail(q)) = Len(q) - 1
           /\ \A i \in 1 .. Len(Tail(q)) : i + 1 \in 1 .. Len(q) /\ Tail(q)[i] = q[i + 1]
  OBVIOUS

\* A new notification comes last.
LEMMA AppendPlaces ==
    ASSUME NEW q \in Seq(Notifications), NEW n \in Notifications
    PROVE  /\ Append(q, n) \in Seq(Notifications)
           /\ Len(q) \in Nat
           /\ Len(Append(q, n)) = Len(q) + 1
           /\ Append(q, n)[Len(q) + 1] = n
           /\ \A i \in 1 .. Len(q) : Append(q, n)[i] = q[i] /\ q[i] \in Notifications
  OBVIOUS

\* The notification of a session that had none waiting finds its place.
LEMMA PlacesAppended ==
    ASSUME queue \in Seq(Notifications), OwnPlace, NEW n \in Notifications,
           queue' = Append(queue, n),
           n.kind \in {"client", "stop"} =>
               /\ state'[n.of] = Awaits(n.kind)
               /\ state[n.of] \notin {"connecting", "notified"},
           \A s \in Sessions :
               state[s] \in {"connecting", "notified"} => state'[s] = state[s]
    PROVE  OwnPlace'
<1>1. /\ Len(queue) \in Nat
      /\ Len(queue') = Len(queue) + 1
      /\ queue'[Len(queue) + 1] = n
      /\ \A i \in 1 .. Len(queue) : queue'[i] = queue[i] /\ queue[i] \in Notifications
  BY AppendPlaces
<1>2. ASSUME NEW i \in 1 .. Len(queue), queue[i].kind \in {"client", "stop"}
      PROVE  /\ state[queue[i].of] = Awaits(queue[i].kind)
             /\ queue[i].of \in Sessions
             /\ state[queue[i].of] \in {"connecting", "notified"}
             /\ state'[queue[i].of] = Awaits(queue[i].kind)
             /\ n.kind \in {"client", "stop"} => queue[i].of # n.of
  BY <1>1, <1>2, NamesSession DEF OwnPlace, Awaits
<1> SUFFICES ASSUME NEW i \in 1 .. Len(queue'),
                    queue'[i].kind \in {"client", "stop"}
             PROVE  /\ state'[queue'[i].of] = Awaits(queue'[i].kind)
                    /\ \A j \in 1 .. Len(queue') :
                         /\ queue'[j].kind \in {"client", "stop"}
                         /\ queue'[j].of = queue'[i].of
                         => i = j
  BY DEF OwnPlace, Awaits
<1>3. CASE i = Len(queue) + 1
  BY <1>1, <1>2, <1>3
<1>4. CASE i \in 1 .. Len(queue)
  BY <1>1, <1>2, <1>4 DEF OwnPlace
<1> QED
  BY <1>1, <1>3, <1>4

\* The notification taken was the only one of its session.
LEMMA PlacesTaken ==
    ASSUME queue \in Seq(Notifications), OwnPlace, queue # <<>>,
           queue' = Tail(queue),
           \A s \in Sessions :
               /\ state[s] \in {"connecting", "notified"}
               /\ Head(queue).kind \in {"client", "stop"} => Head(queue).of # s
               => state'[s] = state[s]
    PROVE  OwnPlace'
<1>1. /\ Head(queue) = queue[1] /\ 1 \in 1 .. Len(queue)
      /\ \A i \in 1 .. Len(queue') :
            i + 1 \in 1 .. Len(queue) /\ queue'[i] = queue[i + 1]
      /\ \A i \in 1 .. Len(queue) : queue[i] \in Notifications
  BY TailPlaces
<1> SUFFICES ASSUME NEW i \in 1 .. Len(queue'),
                    queue'[i].kind \in {"client", "stop"}
             PROVE  /\ state'[queue'[i].of] = Awaits(queue'[i].kind)
                    /\ \A j \in 1 .. Len(queue') :
                         /\ queue'[j].kind \in {"client", "stop"}
                         /\ queue'[j].of = queue'[i].of
                         => i = j
  BY DEF OwnPlace, Awaits
<1>2. /\ i + 1 \in 1 .. Len(queue) /\ queue'[i] = queue[i + 1]
      /\ i + 1 # 1
  BY <1>1
<1>3. /\ state[queue[i + 1].of] = Awaits(queue[i + 1].kind)
      /\ queue[i + 1].of \in Sessions
      /\ Head(queue).kind \in {"client", "stop"} =>
            Head(queue).of # queue[i + 1].of
  BY <1>1, <1>2, NamesSession DEF OwnPlace
<1>4. state'[queue'[i].of] = Awaits(queue'[i].kind)
  BY <1>2, <1>3 DEF Awaits
<1>5. ASSUME NEW j \in 1 .. Len(queue'), queue'[j].kind \in {"client", "stop"},
             queue'[j].of = queue'[i].of
      PROVE  i = j
  <2>1. i + 1 = j + 1
    BY <1>1, <1>2, <1>5 DEF OwnPlace
  <2> QED
    BY <2>1
<1> QED
  BY <1>4, <1>5

\* The queue is not concerned while no session that waits in it moves.
LEMMA PlacesKept ==
    ASSUME queue \in Seq(Notifications), OwnPlace, queue' = queue,
           \A s \in Sessions :
               state[s] \in {"connecting", "notified"} => state'[s] = state[s]
    PROVE  OwnPlace'
<1>1. \A i \in 1 .. Len(queue) : queue[i] \in Notifications
  OBVIOUS
<1> QED
  BY <1>1, NamesSession DEF OwnPlace, Awaits

\* What the handler takes is what the session has waited for.
LEMMA TakenAwaits ==
    ASSUME TypeOK, OwnPlace, Numbered, NEW kind \in {"client", "stop"},
           Takes(kind)
    PROVE  /\ queue \in Seq(Notifications) /\ queue # <<>>
           /\ queue' = Tail(queue) /\ queue' \in Seq(Notifications)
           /\ Head(queue).kind = kind /\ Head(queue).of \in Sessions
           /\ state[Head(queue).of] = Awaits(kind)
           /\ peer[Head(queue).of] \in Peers
<1>1. /\ queue \in Seq(Notifications) /\ queue # <<>>
      /\ queue' = Tail(queue) /\ Head(queue).kind = kind
  BY DEF Takes, TypeOK
<1>2. /\ Head(queue) = queue[1] /\ Head(queue) \in Notifications
      /\ 1 \in 1 .. Len(queue) /\ queue' \in Seq(Notifications)
  BY <1>1, TailPlaces
<1>3. Head(queue).of \in Sessions
  BY <1>1, <1>2, NamesSession
<1>4. state[Head(queue).of] = Awaits(kind)
  BY <1>1, <1>2 DEF OwnPlace
<1> QED
  BY <1>1, <1>2, <1>3, <1>4 DEF Numbered, Awaits

-----------------------------------------------------------------------------
(* The initial state and the servers.                                      *)

\* The initial state satisfies the invariant.
LEMMA InvInit == Init => Inv
<1> SUFFICES ASSUME Init PROVE Inv
  OBVIOUS
<1>1. TypeOK
  <2>1. queue \in Seq(Notifications) /\ packets \in 0 .. MaxPackets
    BY SeccHandlerAssumption DEF Init
  <2>2. /\ registry \in [Peers -> Sessions \cup {None}]
        /\ state \in [Sessions -> {"unborn", "connecting", "active", "stopping",
                                   "notified", "lost", "ended"}]
        /\ peer \in [Sessions -> Peers \cup {NoPeer}]
        /\ ctx \in [Sessions -> Sessions \cup {None}]
        /\ action \in [Sessions -> {"none", "pause", "terminate"}]
    BY DEF Init
  <2> QED
    BY <2>1, <2>2 DEF Init, TypeOK
<1>2. Numbered /\ OwnPlace /\ Stored /\ Decided /\ Alone
  BY SeccHandlerAssumption
  DEF Init, Numbered, OwnPlace, Stored, Decided, Alone, Exists, Sessions, None
<1>3. SomeoneResumes /\ SessionOwnsHandler /\ ResumesPausedOnly
  BY DEF Init, SomeoneResumes, SessionOwnsHandler, ResumesPausedOnly
<1> QED
  BY <1>1, <1>2, <1>3 DEF Inv

\* What no session and no entry has a part in keeps the rest of the invariant.
LEMMA SessionsKept ==
    ASSUME Inv, UNCHANGED <<paused, registry, current, made, state, objects,
                            action, overlapped>>
    PROVE  /\ Numbered' /\ Stored' /\ Decided' /\ Alone'
           /\ SomeoneResumes' /\ SessionOwnsHandler' /\ ResumesPausedOnly'
  BY DEF Inv, objects, Numbered, Stored, Decided, Alone, Exists, Handled,
     SomeoneResumes, SessionOwnsHandler, ResumesPausedOnly

\* A datagram that arrives.
LEMMA DatagramStep ==
    ASSUME Inv, NEW p \in Peers, NEW request \in {"tls", "plain"},
           DatagramReceived(p, request)
    PROVE  Inv'
<1> DEFINE n == [kind |-> request, of |-> p]
<1>1. /\ n \in Notifications /\ n.kind \notin {"client", "stop"}
      /\ queue \in Seq(Notifications)
  BY DEF Notifications, Inv, TypeOK
<1>2. TypeOK'
  <2>1. queue' \in Seq(Notifications)
    BY <1>1, AppendPlaces DEF DatagramReceived
  <2>2. packets' \in 0 .. MaxPackets
    BY SeccHandlerAssumption DEF DatagramReceived, Inv, TypeOK
  <2> QED
    BY <2>1, <2>2 DEF DatagramReceived, Inv, TypeOK, tcp, objects
<1>3. OwnPlace'
  BY <1>1, PlacesAppended DEF DatagramReceived, Inv
<1> QED
  BY <1>2, <1>3, SessionsKept DEF DatagramReceived, Inv

\* A connection: its session is the next one, about which nothing is known yet.
LEMMA ConnectStep ==
    ASSUME Inv, NEW p \in Peers, Connect(p)
    PROVE  Inv'
<1> DEFINE s == made + 1
           n == [kind |-> "client", of |-> s]
<1>1. s \in Sessions /\ s \in Nat /\ made < s /\ made \in Nat
  BY SeccHandlerAssumption DEF Connect, Inv, TypeOK, Sessions
<1>2. state[s] = "unborn"
  BY <1>1 DEF Inv, Numbered
<1>3. /\ made' = s /\ queue' = Append(queue, n)
      /\ state' = [state EXCEPT ![s] = "connecting"]
      /\ peer' = [peer EXCEPT ![s] = p]
      /\ UNCHANGED <<paused, registry, current, ctx, action>>
      /\ overlapped' = (overlapped \/ \E r \in Sessions : Exists(r))
  BY DEF Connect, udp
<1>4. /\ state'[s] = "connecting" /\ peer'[s] = p
      /\ \A r \in Sessions : r # s => state'[r] = state[r] /\ peer'[r] = peer[r]
  BY <1>1, <1>3 DEF Inv, TypeOK
<1>5. n \in Notifications /\ queue \in Seq(Notifications)
  BY <1>1 DEF Notifications, Inv, TypeOK
<1>6. TypeOK'
  <2>1. queue' \in Seq(Notifications)
    BY <1>3, <1>5, AppendPlaces
  <2>2. /\ state' \in [Sessions -> {"unborn", "connecting", "active", "stopping",
                                    "notified", "lost", "ended"}]
        /\ peer' \in [Sessions -> Peers \cup {NoPeer}]
    BY <1>1, <1>3 DEF Inv, TypeOK
  <2>3. overlapped' \in BOOLEAN
    BY <1>3 DEF Inv, TypeOK
  <2> HIDE DEF s, n
  <2> QED
    BY <1>1, <1>3, <2>1, <2>2, <2>3 DEF Connect, Inv, TypeOK, udp, tcp
<1>7. OwnPlace'
  BY <1>2, <1>3, <1>4, <1>5, PlacesAppended DEF Inv, Awaits
<1>8. Numbered'
  <2> SUFFICES ASSUME NEW r \in Sessions
               PROVE  /\ state'[r] = "unborn" <=> r > made'
                      /\ state'[r] # "unborn" => peer'[r] \in Peers
    BY DEF Numbered
  <2>1. r \in Nat
    BY SeccHandlerAssumption DEF Sessions
  <2> QED
    BY <2>1, <1>1, <1>3, <1>4 DEF Inv, Numbered
<1>9. Stored'
  BY <1>1, <1>2, <1>3, <1>4 DEF Inv, Stored, TypeOK, Handled
<1>10. Decided'
  BY <1>2, <1>3, <1>4 DEF Inv, Decided
<1>13. Alone'
  <2> SUFFICES ASSUME ~overlapped' PROVE Alone'
    BY DEF Alone
  <2>1. ~overlapped /\ \A r \in Sessions : ~Exists(r)
    BY <1>3
  <2>2. \A r \in Sessions : Exists(r)' => r = s
    BY <2>1, <1>4 DEF Exists
  <2>3. ASSUME NEW q \in Peers, registry'[q] # None
        PROVE  registry[q] # None /\ registry[q] \in Sessions /\ registry[q] # s
    BY <2>3, <1>2, <1>3 DEF Inv, TypeOK, Stored, Handled
  <2>4. \A q \in Peers :
          registry'[q] # None /\ state'[registry'[q]] = "ended" =>
              action'[registry'[q]] = "pause"
    BY <2>1, <2>3, <1>3, <1>4 DEF Inv, Alone
  <2> QED
    BY <2>2, <2>4 DEF Alone
<1>11. SomeoneResumes'
  BY <1>1, <1>2, <1>3, <1>4 DEF Inv, SomeoneResumes
<1>12. SessionOwnsHandler'
  <2>1. ASSUME NEW r \in Sessions,
               state'[r] \in {"active", "stopping", "notified", "lost"}
        PROVE  r # s /\ state[r] = state'[r] /\ peer'[r] = peer[r]
    BY <2>1, <1>4
  <2> QED
    BY <2>1, <1>3 DEF Inv, SessionOwnsHandler
<1>14. ResumesPausedOnly'
  <2> SUFFICES ASSUME ~overlapped', NEW r \in Sessions, state'[r] = "active",
                      ctx'[r] # r
               PROVE  \E q \in Sessions :
                        /\ state'[q] = "ended" /\ action'[q] = "pause"
                        /\ peer'[q] = peer'[r] /\ ctx'[q] = ctx'[r]
    BY DEF ResumesPausedOnly
  <2>1. r # s /\ state[r] = "active" /\ peer'[r] = peer[r] /\ ctx[r] # r
    BY <1>3, <1>4
  <2>2. PICK q \in Sessions : /\ state[q] = "ended" /\ action[q] = "pause"
                              /\ peer[q] = peer[r] /\ ctx[q] = ctx[r]
    BY <2>1, <1>3 DEF Inv, ResumesPausedOnly
  <2>3. q # s
    BY <2>2, <1>2
  <2> QED
    BY <2>1, <2>2, <2>3, <1>3, <1>4
<1> QED
  BY <1>6, <1>7, <1>8, <1>9, <1>10, <1>11, <1>12, <1>13, <1>14 DEF Inv

-----------------------------------------------------------------------------
(* The sessions.                                                           *)

\* A session that begins to stop has decided how; only its own context goes.
LEMMA BeginStopStep ==
    ASSUME Inv, NEW s \in Sessions, NEW how \in {"pause", "terminate", "failure"},
           BeginStop(s, how)
    PROVE  Inv'
<1>1. /\ state[s] = "active"
      /\ state'[s] = "stopping" /\ action'[s] \in {"pause", "terminate"}
      /\ \A r \in Sessions : r # s => /\ state'[r] = state[r]
                                     /\ action'[r] = action[r] /\ ctx'[r] = ctx[r]
      /\ UNCHANGED <<queue, paused, registry, current, made, peer, overlapped>>
  BY DEF BeginStop, udp, Inv, TypeOK
<1>2. TypeOK'
  <2>1. /\ state' \in [Sessions -> {"unborn", "connecting", "active", "stopping",
                                    "notified", "lost", "ended"}]
        /\ action' \in [Sessions -> {"none", "pause", "terminate"}]
        /\ ctx' \in [Sessions -> Sessions \cup {None}]
    BY DEF BeginStop, Inv, TypeOK
  <2> QED
    BY <2>1 DEF BeginStop, Inv, TypeOK, udp, tcp
<1>3. OwnPlace'
  BY <1>1, PlacesKept DEF Inv, TypeOK
<1>4. Numbered' /\ Stored' /\ Decided'
  BY <1>1 DEF Inv, TypeOK, Numbered, Stored, Decided, Handled
<1>5. Alone'
  BY <1>1 DEF Inv, TypeOK, Alone, Exists
<1>6. SomeoneResumes' /\ SessionOwnsHandler'
  BY <1>1 DEF Inv, SomeoneResumes, SessionOwnsHandler
<1>7. ResumesPausedOnly'
  BY <1>1 DEF Inv, ResumesPausedOnly, Alone, Exists
<1> QED
  BY <1>2, <1>3, <1>4, <1>5, <1>6, <1>7 DEF Inv

\* stop() ends with the notification, or without.
LEMMA FinishStep ==
    ASSUME Inv, NEW s \in Sessions, Finish(s)
    PROVE  Inv'
<1> DEFINE n == [kind |-> "stop", of |-> s]
<1>1. /\ state[s] = "stopping" /\ state'[s] \in {"notified", "lost"}
      /\ \A r \in Sessions : r # s => state'[r] = state[r]
      /\ UNCHANGED <<paused, registry, current, made, peer, ctx, action, overlapped>>
  BY DEF Finish, Notify, CloseFails, udp, objects, Inv, TypeOK
<1>2. n \in Notifications /\ queue \in Seq(Notifications)
  BY DEF Notifications, Inv, TypeOK
<1>3. TypeOK'
  <2>1. queue' \in Seq(Notifications)
    BY <1>2, AppendPlaces DEF Finish, Notify, CloseFails
  <2>2. state' \in [Sessions -> {"unborn", "connecting", "active", "stopping",
                                 "notified", "lost", "ended"}]
    BY DEF Finish, Notify, CloseFails, Inv, TypeOK
  <2> QED
    BY <2>1, <2>2 DEF Finish, Notify, CloseFails, Inv, TypeOK, udp, tcp, objects
<1>4. OwnPlace'
  <2>1. CASE Notify(s)
    <3>1. queue' = Append(queue, n) /\ state'[s] = "notified"
      BY <2>1 DEF Notify, Inv, TypeOK
    <3> QED
      BY <1>1, <1>2, <3>1, PlacesAppended DEF Inv, Awaits
  <2>2. CASE CloseFails(s)
    BY <1>1, <2>2, PlacesKept DEF CloseFails, Inv, TypeOK
  <2> QED
    BY <2>1, <2>2 DEF Finish
<1>5. Numbered' /\ Stored' /\ Decided'
  BY <1>1 DEF Inv, TypeOK, Numbered, Stored, Decided, Handled
<1>6. Alone'
  BY <1>1 DEF Inv, TypeOK, Alone, Exists
<1>7. SomeoneResumes' /\ SessionOwnsHandler' /\ ResumesPausedOnly'
  BY <1>1 DEF Inv, SomeoneResumes, SessionOwnsHandler, ResumesPausedOnly
<1> QED
  BY <1>3, <1>4, <1>5, <1>6, <1>7 DEF Inv

-----------------------------------------------------------------------------
(* The handler.                                                            *)

\* An SDP request concerns the server only.
LEMMA SdpStep ==
    ASSUME Inv, NEW request \in {"tls", "plain"}, NEW context \in BOOLEAN,
           NEW outcome \in {"bound", "busy", "no address"},
           HandleSdp(request, outcome, context)
    PROVE  Inv'
<1>1. /\ queue \in Seq(Notifications) /\ queue # <<>> /\ queue' = Tail(queue)
      /\ Head(queue).kind = request
  BY DEF HandleSdp, Takes, Inv, TypeOK
<1>2. /\ Head(queue) \in Notifications /\ queue' \in Seq(Notifications)
      /\ Head(queue).of \in Peers
  BY <1>1, TailPlaces, NamesSession
<1>3. UNCHANGED <<packets, paused, registry, current, made, state, peer, ctx, action,
                  eof, overlapped>>
  BY DEF HandleSdp, udp, objects
<1>4. TypeOK'
  <2>1. /\ server' \in {"none", "listening", "failed", "closed"}
        /\ addressed' \in BOOLEAN /\ alive' \in BOOLEAN /\ tls' \in BOOLEAN
    BY SeccHandlerAssumption DEF HandleSdp, Inv, TypeOK
  <2>2. invited' \subseteq Peers
    BY <1>2 DEF HandleSdp, Inv, TypeOK
  <2> QED
    BY <1>2, <1>3, <2>1, <2>2 DEF Inv, TypeOK
<1>5. OwnPlace'
  BY <1>1, <1>3, PlacesTaken DEF Inv
<1> QED
  BY <1>3, <1>4, <1>5, SessionsKept DEF Inv, objects

\* What becomes of the context of a session whose connection is handled: its
\* own, or that of the entry it replaces.
Inherits(s) ==
    ctx'[s] # s => /\ registry[peer[s]] # None
                   /\ ctx'[s] = ctx[registry[peer[s]]]

\* A connection is handled: its session takes the entry and pauses discovery.
LEMMA ClientStep ==
    ASSUME Inv, NEW reset \in BOOLEAN, HandleClient(reset)
    PROVE  Inv'
<1> DEFINE s == Head(queue).of
           p == peer[s]
<1>1. /\ queue \in Seq(Notifications) /\ queue # <<>> /\ queue' = Tail(queue)
      /\ queue' \in Seq(Notifications) /\ Head(queue).kind = "client"
      /\ s \in Sessions /\ state[s] = "connecting" /\ p \in Peers
  BY TakenAwaits DEF HandleClient, Inv, Awaits
<1>2. /\ state' = [state EXCEPT ![s] = "active"]
      /\ registry' = [registry EXCEPT ![p] = s]
      /\ current' = <<p, s>> /\ paused' = ~reset
      /\ overlapped' = (overlapped \/ reset)
      /\ UNCHANGED <<alive, packets, tls, addressed, invited, made, peer,
                     action, eof>>
  BY DEF HandleClient
<1>3. /\ ctx' \in [Sessions -> Sessions \cup {None}]
      /\ \A r \in Sessions : r # s => ctx'[r] = ctx[r]
      /\ ~reset => Inherits(s)
  <2> DEFINE inherited == IF registry[p] # None /\ ~reset THEN ctx[registry[p]]
                                                          ELSE None
             own == IF inherited = None THEN s ELSE inherited
  <2>1. ctx' = [ctx EXCEPT ![s] = own]
    BY DEF HandleClient
  <2>2. inherited \in Sessions \cup {None}
    BY <1>1 DEF Inv, TypeOK
  <2>3. own \in Sessions \cup {None}
    BY <2>2, <1>1
  <2>4. ctx'[s] = own
    BY <2>1, <1>1 DEF Inv, TypeOK
  <2>5. ~reset => Inherits(s)
    BY <2>4 DEF Inherits
  <2> HIDE DEF own, s
  <2> QED
    BY <2>1, <2>3, <2>5 DEF Inv, TypeOK
<1>4. /\ state'[s] = "active" /\ registry'[p] = s
      /\ \A r \in Sessions : r # s => state'[r] = state[r]
      /\ \A q \in Peers : q # p => registry'[q] = registry[q]
  BY <1>1, <1>2 DEF Inv, TypeOK
<1>5. s # None
  BY <1>1, SeccHandlerAssumption DEF Sessions, None
<1> HIDE DEF s
<1>6. TypeOK'
  <2>1. /\ server' \in {"none", "listening", "failed", "closed"}
        /\ paused' \in BOOLEAN /\ overlapped' \in BOOLEAN
    BY <1>2 DEF HandleClient, Inv, TypeOK
  <2>2. /\ state' \in [Sessions -> {"unborn", "connecting", "active", "stopping",
                                    "notified", "lost", "ended"}]
        /\ registry' \in [Peers -> Sessions \cup {None}]
        /\ current' \in (Peers \X Sessions) \cup {NoPeer}
    BY <1>1, <1>2 DEF Inv, TypeOK
  <2> QED
    BY <1>1, <1>2, <1>3, <2>1, <2>2 DEF Inv, TypeOK
<1>7. OwnPlace'
  BY <1>1, <1>4, PlacesTaken DEF Inv, s
<1>8. Numbered' /\ Decided'
  BY <1>1, <1>2, <1>4 DEF Inv, Numbered, Decided
<1>9. Stored'
  BY <1>1, <1>2, <1>4 DEF Inv, TypeOK, Stored, Handled
<1>10. SomeoneResumes'
  BY <1>1, <1>2, <1>4, <1>5 DEF SomeoneResumes
<1>11. ASSUME ~overlapped'
       PROVE  /\ ~overlapped /\ ~reset
              /\ \A r \in Sessions : Exists(r) => r = s
  BY <1>1, <1>2, <1>11 DEF Inv, Alone, Exists
<1>12. Alone'
  <2> SUFFICES ASSUME ~overlapped' PROVE Alone'
    BY DEF Alone
  <2>1. \A r \in Sessions : Exists(r)' => r = s
    BY <1>4, <1>11 DEF Exists
  <2>2. ASSUME NEW q \in Peers, registry'[q] # None, state'[registry'[q]] = "ended"
        PROVE  action'[registry'[q]] = "pause"
    <3>1. q # p
      BY <2>2, <1>4
    <3>2. registry'[q] = registry[q] /\ registry[q] \in Sessions /\ registry[q] # s
      BY <2>2, <3>1, <1>4 DEF Inv, TypeOK
    <3> QED
      BY <2>2, <3>2, <1>2, <1>4, <1>11 DEF Inv, Alone
  <2> QED
    BY <2>1, <2>2 DEF Alone
<1>13. SessionOwnsHandler'
  <2> SUFFICES ASSUME ~overlapped', NEW r \in Sessions, state'[r] \in Handled
               PROVE  paused' /\ registry'[peer'[r]] = r /\ current' = <<peer'[r], r>>
    BY DEF SessionOwnsHandler, Handled
  <2>1. r = s
    BY <1>4, <1>11 DEF Exists, Handled
  <2> QED
    BY <2>1, <1>2, <1>4, <1>11
<1>14. ResumesPausedOnly'
  <2> SUFFICES ASSUME ~overlapped', NEW r \in Sessions, state'[r] = "active",
                      ctx'[r] # r
               PROVE  \E q \in Sessions :
                        /\ state'[q] = "ended" /\ action'[q] = "pause"
                        /\ peer'[q] = peer'[r] /\ ctx'[q] = ctx'[r]
    BY DEF ResumesPausedOnly
  <2>1. r = s
    BY <1>4, <1>11 DEF Exists
  <2> DEFINE q == registry[p]
  <2>2. /\ q # None /\ ctx'[s] = ctx[q]
    BY <2>1, <1>3, <1>11 DEF Inherits
  <2>3. q \in Sessions /\ peer[q] = p /\ state[q] \in Handled \cup {"ended"}
    BY <2>2, <1>1 DEF Inv, TypeOK, Stored
  <2>4. q # s /\ state[q] = "ended"
    BY <2>3, <1>1, <1>11 DEF Handled, Exists
  <2>5. action[q] = "pause"
    BY <2>2, <2>4, <1>1, <1>11 DEF Inv, Alone
  <2> HIDE DEF q
  <2> QED
    BY <2>1, <2>2, <2>3, <2>4, <2>5, <1>2, <1>3, <1>4
<1> QED
  BY <1>6, <1>7, <1>8, <1>9, <1>10, <1>12, <1>13, <1>14 DEF Inv

\* The end of a session is handled: discovery is resumed by way of its entry.
LEMMA StopStep ==
    ASSUME Inv, HandleStop
    PROVE  Inv'
<1> DEFINE s == Head(queue).of
           p == peer[s]
<1>1. /\ queue \in Seq(Notifications) /\ queue # <<>> /\ queue' = Tail(queue)
      /\ queue' \in Seq(Notifications) /\ Head(queue).kind = "stop"
      /\ s \in Sessions /\ state[s] = "notified" /\ p \in Peers
  BY TakenAwaits DEF HandleStop, Inv, Awaits
<1>2. /\ state' = [state EXCEPT ![s] = "ended"]
      /\ UNCHANGED <<alive, packets, tls, addressed, invited, made, peer, ctx,
                     action, eof, overlapped>>
      /\ \/ /\ registry[p] # None /\ paused' = FALSE /\ current' = NoPeer
            /\ server' = "none"
            /\ registry' = [registry EXCEPT ![p] =
                              IF action[s] = "terminate" THEN None ELSE @]
         \/ /\ registry[p] = None
            /\ server' \in {server, "closed"}
            /\ UNCHANGED <<registry, current, paused>>
  BY DEF HandleStop, EndCurrentSession, objects
<1>3. /\ state'[s] = "ended"
      /\ \A r \in Sessions : r # s => state'[r] = state[r]
  BY <1>1, <1>2 DEF Inv, TypeOK
<1>4. /\ registry' \in [Peers -> Sessions \cup {None}]
      /\ \A q \in Peers : registry'[q] # None => registry'[q] = registry[q]
      /\ action[s] = "terminate" => registry'[p] = None
  BY <1>1, <1>2 DEF Inv, TypeOK
<1> HIDE DEF s
<1>5. TypeOK'
  <2>1. /\ server' \in {"none", "listening", "failed", "closed"}
        /\ paused' \in BOOLEAN
        /\ current' \in (Peers \X Sessions) \cup {NoPeer}
    BY <1>2 DEF Inv, TypeOK
  <2>2. state' \in [Sessions -> {"unborn", "connecting", "active", "stopping",
                                 "notified", "lost", "ended"}]
    BY <1>2 DEF Inv, TypeOK
  <2> QED
    BY <1>1, <1>2, <1>4, <2>1, <2>2 DEF Inv, TypeOK
<1>6. OwnPlace'
  BY <1>1, <1>3, PlacesTaken DEF Inv, s
<1>7. Numbered' /\ Decided'
  BY <1>1, <1>2, <1>3 DEF Inv, Numbered, Decided
<1>8. Stored'
  <2> SUFFICES ASSUME NEW q \in Peers, registry'[q] # None
               PROVE  /\ peer'[registry'[q]] = q
                      /\ state'[registry'[q]] \in Handled \cup {"ended"}
    BY DEF Stored
  <2>1. /\ registry'[q] = registry[q] /\ registry[q] \in Sessions
        /\ peer[registry[q]] = q /\ state[registry[q]] \in Handled \cup {"ended"}
    BY <1>4 DEF Inv, TypeOK, Stored
  <2> QED
    BY <2>1, <1>2, <1>3
<1>9. SomeoneResumes'
  <2> SUFFICES ASSUME paused'
               PROVE  \E r \in Sessions : /\ state'[r] \in Handled
                                          /\ registry'[peer'[r]] # None
    BY DEF SomeoneResumes, Handled
  <2>1. registry[p] = None /\ paused /\ registry' = registry
    BY <1>2
  <2>2. PICK r \in Sessions : state[r] \in Handled /\ registry[peer[r]] # None
    BY <2>1 DEF Inv, SomeoneResumes, Handled
  <2> QED
    BY <2>1, <2>2, <1>2, <1>3
<1>10. ASSUME ~overlapped'
       PROVE  /\ ~overlapped
              /\ \A r \in Sessions : Exists(r) => r = s
              /\ registry[p] = s
  BY <1>1, <1>2, <1>10 DEF Inv, Alone, Exists, SessionOwnsHandler
<1>11. ASSUME ~overlapped', NEW r \in Sessions
       PROVE  state'[r] \in {"unborn", "ended"}
  BY <1>3, <1>10, <1>11 DEF Exists
<1>12. Alone'
  <2> SUFFICES ASSUME ~overlapped', NEW q \in Peers, registry'[q] # None,
                      state'[registry'[q]] = "ended"
               PROVE  action'[registry'[q]] = "pause"
    BY <1>11 DEF Alone, Exists
  <2>1. registry'[q] = registry[q] /\ registry[q] \in Sessions
    BY <1>4 DEF Inv, TypeOK
  <2>2. CASE registry[q] = s
    <3>1. q = p
      BY <2>1, <2>2 DEF Inv, Stored
    <3>2. action[s] # "terminate"
      BY <3>1, <1>4
    <3>3. action[s] \in {"pause", "terminate"}
      BY <1>1 DEF Inv, Decided
    <3> QED
      BY <2>1, <2>2, <3>2, <3>3, <1>2
  <2>3. CASE registry[q] # s
    BY <2>1, <2>3, <1>2, <1>3, <1>10 DEF Inv, Alone
  <2> QED
    BY <2>2, <2>3
<1>13. SessionOwnsHandler' /\ ResumesPausedOnly'
  BY <1>11 DEF SessionOwnsHandler, ResumesPausedOnly
<1> QED
  BY <1>5, <1>6, <1>7, <1>8, <1>9, <1>12, <1>13 DEF Inv

\* close_session() concerns a reader only, if anything.
LEMMA CloseStep ==
    ASSUME Inv, CloseSession
    PROVE  Inv'
<1>1. UNCHANGED <<alive, queue, udp, tcp, invited, registry, current, made,
                  state, objects, action, overlapped>>
  BY DEF CloseSession
<1>2. eof' \subseteq Sessions
  <2>1. current \notin Peers
    BY SeccHandlerAssumption DEF CloseSession, Inv, TypeOK, Sessions
  <2> QED
    BY <2>1 DEF CloseSession, Closable, Inv, TypeOK
<1>3. TypeOK'
  BY <1>1, <1>2 DEF Inv, TypeOK, udp, tcp, objects
<1>4. OwnPlace'
  BY <1>1, PlacesKept DEF Inv, TypeOK
<1> QED
  BY <1>1, <1>3, <1>4, SessionsKept DEF Inv, udp

-----------------------------------------------------------------------------
(* The theorems.                                                           *)

\* Every step preserves the invariant.
LEMMA InvStep == Inv /\ [Next]_vars => Inv'
<1> SUFFICES ASSUME Inv, [Next]_vars PROVE Inv'
  OBVIOUS
<1>1. ASSUME NEW p \in Peers, NEW request \in {"tls", "plain"},
             DatagramReceived(p, request)
      PROVE  Inv'
  BY <1>1, DatagramStep
<1>2. ASSUME NEW p \in Peers, Connect(p)
      PROVE  Inv'
  BY <1>2, ConnectStep
<1>3. ASSUME NEW s \in Sessions, NEW how \in {"pause", "terminate", "failure"},
             BeginStop(s, how)
      PROVE  Inv'
  BY <1>3, BeginStopStep
<1>4. ASSUME NEW s \in Sessions, Finish(s)
      PROVE  Inv'
  BY <1>4, FinishStep
<1>5. CASE Serve
  <2>1. ASSUME NEW request \in {"tls", "plain"}, NEW context \in BOOLEAN,
               NEW outcome \in {"bound", "busy", "no address"},
               HandleSdp(request, outcome, context)
        PROVE  Inv'
    BY <2>1, SdpStep
  <2>2. ASSUME NEW reset \in BOOLEAN, HandleClient(reset)
        PROVE  Inv'
    BY <2>2, ClientStep
  <2>3. CASE HandleStop
    BY <2>3, StopStep
  <2> QED
    BY <1>5, <2>1, <2>2, <2>3 DEF Serve
<1>6. CASE CloseSession
  BY <1>6, CloseStep
<1>7. CASE UNCHANGED vars
  <2>1. TypeOK'
    BY <1>7 DEF Inv, TypeOK, vars, udp, tcp, objects
  <2>2. OwnPlace'
    BY <1>7, PlacesKept DEF Inv, TypeOK, vars
  <2> QED
    BY <1>7, <2>1, <2>2, SessionsKept DEF Inv, vars, udp
<1> QED
  BY <1>1, <1>2, <1>3, <1>4, <1>5, <1>6, <1>7 DEF Next

\* The invariant holds in every reachable state.
THEOREM InvCorrect == Spec => []Inv
  BY InvInit, InvStep, PTL DEF Spec

\* Every variable of the handler keeps its type, for any peers and any number
\* of datagrams and connections.
THEOREM TypeCorrect == Spec => []TypeOK
<1>1. Inv => TypeOK
  BY DEF Inv
<1> QED
  BY <1>1, InvCorrect, PTL

\* While discovery is paused there is a session whose end finds its entry in
\* comm_sessions and resumes it, in whatever order connections, ends and
\* resets are handled.
THEOREM Resumed == Spec => []SomeoneResumes
<1>1. Inv => SomeoneResumes
  BY DEF Inv
<1> QED
  BY <1>1, InvCorrect, PTL

\* As long as sessions do not overlap, the session that runs is the one in
\* comm_sessions and the current peer's, and discovery is paused.
THEOREM OwnerKept == Spec => []SessionOwnsHandler
<1>1. Inv => SessionOwnsHandler
  BY DEF Inv
<1> QED
  BY <1>1, InvCorrect, PTL

\* As long as sessions do not overlap, a context that a session did not create
\* comes from a session of the same peer that was paused.
THEOREM PauseInherited == Spec => []ResumesPausedOnly
<1>1. Inv => ResumesPausedOnly
  BY DEF Inv
<1> QED
  BY <1>1, InvCorrect, PTL
=============================================================================
