# ISO 15118 SECC/EVCC: a verification project

This directory holds TLA+ models of the program under `src/iso15118_core/iso15118`
(the communication between an electric vehicle, the EVCC, and a charging station,
the SECC), the TLC configurations that check them, and TLAPS proofs of what
matters most. Paths below are relative to that directory. `PROJECT.json` maps each
definition to the lines it models and lists runs, mutants, findings, hazards and
theorems.

## Inventory

| component | state | operations | interacts with | what makes it correct |
|---|---|---|---|---|
| SECC session handler, `secc/comm_session_handler.py` | receive queue, `comm_sessions` (one entry per peer IP), `tcp_server_handler`, `_current_peer_ip` | answer SDP requests, start the TCP server, create a session per connection, end it on a StopNotification, `close_session()` | queue from both servers and all sessions; pauses UDP; session context | never deaf for good; a session owns its entry; only a pause hands on a context |
| SECC transports, `secc/transport` | `pause_server`; port, socket, TLS context | receive, pause, resume, bind, accept | handler's queue | TLS when enforced |
| receive loop, `shared/comm_session.py`, `shared/states.py` | `current_state`, `session_id`, `stop_reason`, the time-out of the next read | read, decode, hand to the state, send, next state, `stop()` | stream, states, handler's queue | every session ends; power is off on every path |
| SECC states, `secc/states` | the fields of `SECCCommunicationSession`, those of the current state, the context a pause preserves | one handler per request, `check_msg`, `stop_state_machine` | controller, receive loop | authorization, isolation, agreed schedule, settled payment option |
| EVCC session handler, `evcc/comm_session_handler.py`, `evcc/transport` | retries, cycles, receive queue, the UDP client's `started` and queue, `comm_session` | SDP request, time-out, response, start and end of a session | UDP, its session | one thing pending; bounded requests; TLS when enforced |
| EVCC states, `evcc/states` | the fields of `EVCCCommunicationSession`, among them the ongoing timer and the notes on stop and renegotiation | one handler per response, `check_msg`, `stop_state_machine` | EV controller, receive loop | charging enabled only inside a session; no endless waiting; a stop is final |
| controllers, `secc/controller`, `evcc/controller` | charger; vehicle | answers and commands | called by the states | environment of the models |
| the states of each protocol: ISO 15118-2, ISO 15118-20, DIN SPEC 70121 | as above, per protocol | as above | as above | as above, and that two sides written apart stay in step |
| V2GTP/SDP messages, schemas, EXI codec, security, settings, diagnostics | none, or data | encode, decode, verify | called by the above | pure functions and I/O |

All of this runs as coroutines of one event loop: a step is what happens between two
awaits that let others run. The handler's queue is where transports, sessions and
handler meet. A session serves one message at a time; the controller is shared by all
sessions.

What is hard: requests that a state accepts on behalf of another one (it delegates
to a fresh instance of that state); a session paused and resumed on another
connection; renegotiation; the many ways a session ends (failure response, time-out,
exception, end of stream); the five seconds a session needs to stop while the handler
goes on; SDP with lost, late or duplicated datagrams; two state machines written apart
that have to agree on the next message. Each hazard is listed with its line in
`PROJECT.json`.

## Modules

**`ChargingSession`** states what a session promises, whatever its protocol: setup,
agreement on the parameters, delivery, finish, and power only in an authorized session
that is neither finished nor closed (`PowerInSession`).

**`SeccV2`** is the SECC's side of ISO 15118-2. One step is one turn of `rcv_loop`:
decode, `check_msg`, the handler of the state or of the state it delegates to, the
response, the next state or the beginning of `stop()`. `Accepts` is `check_msg_v2`
with the states' lists (`Lists`); one action per request type follows, with the
handler's early returns as `Halt(code)`. `stop()` takes three steps (`Stopping`,
`EndSession`, `CloseConnection`), as it awaits between them; `BreakOff` is any
exception, `SequenceTimeout` the reader's time-out, `Reconnect` the next connection
with the context of a pause. `st` is the class of the current state and `inst` what
the instance remembers between two messages. The EV sends anything; the
`EVSEControllerInterface` answers anything its signatures allow. `granted`,
`verified` and `isolated` are history variables.

**`SeccV20`** is the same for ISO 15118-20, on one connection (this protocol reads no
context). `Flagged` are the states with an `expecting_..._req` flag, `NoStop` those that
do not pass a SessionStopReq on; `matched` and `detailed` are `matched_services_v20`
without and with parameter sets, which are reduced to the control mode; a service of
`ValueAdded` gets its sets at discovery, the others with ServiceDetail. `reason` is
`stop_reason`, which a renegotiation sets in mid-session; `decision`, `isolated` and
`accepted` are history. It does not implement `ChargingSession`, because a renegotiation
returns to the setup, and DCWeldingDetection is taken, with the power on.

**`EvccV2`** is the mirror image: `current` is named after the request sent, an action
per response, the ongoing timer as off, running or expired, `enabled` for
`enable_charging()`. The SECC answers anything, late, or not at all.

**`EvccV20`** is the EVCC of ISO 15118-20 in the same form. `said` is what a request says
where it can say several things (progress, processing, the end that is asked for),
`again` what an instance remembers that stays for another response. `found`, `toDetail`
and `described` are the services on their way to the selection; `working` is
`ev_processing`, which decides what a PowerDeliveryRes means. DCWeldingDetection
takes any message, since its handler does not call `check_msg`.

**`SeccDin`** and **`EvccDin`** are the two sides of DIN SPEC 70121: DC only, no
pause, no Plug & Charge. `SeccDin` has `SeccV20`'s form with fewer states, and implements
`ChargingSession` (`ImplementsSession`, checked, and proved alone and in the pair); `EvccDin` adds
to the other EVCCs that PowerDelivery remembers nothing: `ready` is what was
asked, and `continue_charging()` is asked again when the response comes (`halted` is the
controller's `stop_charging()`).

**`V2Link`** composes the two over TCP: the parameters that each leaves open are
what the other has sent. With `ours` false the SECC is of another make and answers
anything, so that a run asks both questions. `wire` and `reply` are the stream in either direction; TCP is
reliable, but a response may find that the EVCC has given up, and a failing instance
that has already sent its message sends it again (`Resends`), because
`rcv_loop` sends whatever the state's `message` field holds. The EV's controller may start
charging or delay it; `Delayed` names the state in which a delayed AC session goes
on to the charging status, the exception in `NoSequenceError` and `AgreedInLoop`.

**`V20Link`** and **`DinLink`** compose the sides of the other two protocols in the same
way; in `DinLink` either side can be alone (`pair` other than `"both"`). In the 15118-20 link the exchanged parameters (services, control
mode, schedule, progress) are the ones the EVCC has computed from earlier answers.

**`SeccHandler`** is the SECC's session handler with its UDP and TCP servers. Sessions
are what `SeccV2` shows from outside: active, stopping, notified, or lost when
`wait_closed` raises. A notification is one step: while the handler awaits, others can
only append to the queue or advance a session.

**`EvccHandler`** is the EVCC's session handler with its UDP client: retries in a
cycle, cycles, what arrives and when, the security decision, the SSL context that may be
missing when the connection is made, start and end of the session. `dropped` records the paths on which a handler returns without a sequel.

`MC*` extend these for TLC. The eight `*Proofs` modules hold the proofs. Operators commented "Mutant" are plausible bugs,
substituted one at a time for the definition they resemble to confirm that the property
named in `PROJECT.json` fails then.

## Runs

| run | shows | instance | distinct states |
|---|---|---|---|
| `secc_v2` | isolation before DC current, charging on what was agreed, context names the session, payment option settled, refinement of `ChargingSession` (power only in an authorized open session), a silent EV cannot hold the session | 2 identifiers, 2 schedules, both payment options and modes, 2 connections | 204 378 |
| `secc_v20` | authorization decided before services and power, parameters and loop of the service selected last, an agreed schedule in the loop, a clean end reported as what it was | 1 identifier and none, an AC, a DC and a value-added service, 2 schedules, renegotiation supported | 811 276 |
| `secc_handler` | paused discovery has a session that will resume it, sessions that do not overlap own the handler, only a pause hands on a context, discovery returns | 2 peers, 3 connections, 2 SDP requests | 753 535 |
| `evcc_handler` | one thing pending, requests bounded, discovery ends | 2 cycles of 3 requests, 3 datagrams | 9 486 |
| `v2_link` | charging enabled only in an authorized session, no inherited time, a stop is final, no sequence error but after a delayed start, agreement in the loop, power only into an enabled vehicle, success is one for both, waiting ends, neither stays behind | 1 connection, 2 identifiers, 2 schedules, 2 certificate services | 93 124 |
| `v20_link` | charging enabled only in an authorized session, a stop is final, requests fit, agreement in the loop, power only into an enabled vehicle, success is one for both, waiting ends, neither stays behind | 1 identifier and none, an AC, a DC and an unusable service, 2 schedules, renegotiation supported | 309 745 |
| `din_link` | power only after authorization and cable check, contactors closed only in a session, requests in sequence, both sides off before welding detection, every wait ends, refinement of `ChargingSession` | 2 identifiers, either side alone and the pair | 4 196 |

Five runs have a counterexample; see Findings. The type invariants are not among
the runs' properties: they are proved, see below.

*Bounds.* Two identifiers are enough for "mine" and "a stranger's", two schedules for
"selected" and "no longer offered", two connections for a pause and its resumption;
nothing in the code compares more than two of each. Three connections of two peers
let one peer own two sessions, and a late notification of one meet the other's. Three
datagrams outnumber the request that asked for them, so a late one answers the next
request and one can arrive during the session. `MaxSessions`, `MaxPackets` and
`MaxServices` are the only bounds the code does not have. Deadlock is not checked:
every component comes to rest (a session that has ended, a process that has
finished); the liveness properties say where it must not.

*Fairness.* The event loop runs what is ready, so what has arrived is processed,
timers fire when nothing arrives, and a `stop()` that has begun runs on. Peers,
networks and controllers owe nothing: their actions are never fair by themselves. In
`EvccV2`, `EvccV20` and `EvccDin` either a response arrives or the time-out fires
(`Arrive \/ TimeoutEV`). In the links each loop gets a message or its timer fires.
`WaitingEnds` and `EveryWaitEnds` leave out, by name, the states in which the code lets the
EV wait as long as the SECC likes (`PatientEV`): the charging loops, in 15118-20
ScheduleExchange and DCPreCharge, which have no ongoing timer, and PowerDelivery:
in 15118-20 it is repeated while the EV is still working on its power profile, in DIN SPEC
70121 it belongs to the loop, because an EV that goes on charging leads it back there.

## Proofs

TLAPS proves, for every value of the constants that satisfies the named assumptions
(`NoId` is no identifier, `NoTuple` no schedule, options and modes among the known
ones, at least one request per cycle, and so on):

- `SeccV2Proofs`: type correctness; the invariants and the action property of
  `secc_v2`, and beside them that power is authorized and off at every end; that every
  step is a step of `ChargingSession` or a stutter; and with that its promise on power. The invariants are not inductive alone. What carries
  them: `Authorized` (what each state implies about acceptance and signature, also in the
  middle of Authorization, and that power is off before), `ChoiceSettled` (a contract
  or an acceptance lies behind the selection of the payment option), `TestedLine`
  (PreCharge, PowerDelivery and the loop have a tested line or AC, and a fresh
  instance sets parameters), `FinishedOff` (PowerDelivery keeps its instance only
  after a Stop, with the charger off). `AcceptedFrom` says once what an accepted
  request tells about the state it arrives in; every action's proof starts from it.
- `V20Proofs`, both sides of ISO 15118-20. The SECC: type correctness, the invariants
  of `secc_v20`, and that precharge follows a cable check with the present parameters
  (`LineTested`), carried by `Unpowered` (up to Authorization nothing is switched on, an
  instance that has left its fresh state holds a decision, and an open session has no
  reason to end but the note of a pause, which is what lets `DecidedBeforePower` exempt a
  renegotiation) and `EnergySelected` (from the selection on, the service is for energy
  and detailed, which is why PowerDelivery may choose the loop by the kind of current).
  `Arrivals` plays the part of `AcceptedFrom`. `OneWayDelivers` confines the finding of
  `secc_v20_bpt`: for every service that is not bidirectional the loop sends the
  charging command. The EVCC: type correctness, `EnabledInSession`, `StopIsFinal`,
  carried by `Agreed` (every state has an authorization, a described service and one for
  energy transfer behind it, from the place on where the code obtains each) and `Settled`
  (the charging loop is entered only when the power profile is settled; hence the
  PowerDeliveryReq of a stop is never answered by another profile, which is what makes
  the stop final).
- `EvccV2Proofs`: type correctness, `EnabledInSession`, `TimerOwn`, `StopIsFinal`. Added:
  `AuthorizedStates` (Authorization lies before every later state) and `TimerStates`
  (only repeating states own the timer).
- `EvccHandlerProofs`: type correctness, `OneThingPending`, `RequestsBounded`,
  which needs `Budget`: requests sent, those left
  in this cycle and those of the cycles left never exceed the total, where a request
  being waited for counts in both; and `NotStarted` for the state before the first
  cycle, in which nothing has been paid for yet.
- `SeccHandlerProofs`: type correctness, `SomeoneResumes`, `SessionOwnsHandler` and
  `ResumesPausedOnly`, for any peers and any number of datagrams, connections and resets.
  The queue carries them: `OwnPlace` (a notification of a session is in the queue only
  while the session waits for it, and once), with `Numbered` (a session has a peer from
  its connection on), `Stored` (an entry of `comm_sessions` names a session of that peer
  which the handler has seen), `Decided` (a session that stops has a stop action) and
  `Alone` (without overlap there is one session at a time, and an entry that outlives its
  session is a paused one). The end of a session whose entry is gone resumes nothing, and
  there `SomeoneResumes` needs the session that keeps discovery paused to be another one.
  Assumed: an address with its port is not an address.

The other three are about pairs and share one argument. First, every step of the pair
is a step, or a stutter, of either side alone (`SidesRefined`), so that what is proved of
each side against a peer that sends anything holds in the pair without a new proof: the
step lemmas of the sides (`InvStep`, `InvStepEV`) are reused as they are. Then a relation
between the two machines carries the properties of the pair. `InStep` says where a
message can be (a request on the wire, a response in the reader, neither) and what each
place means: `Awaited` (`Expected` in DIN) says that a request on the wire is one the
SECC's state accepts, `Taken` what a response says about the state that gave it,
`SameSession` that the identifiers and choices of the two agree, and `Unrefused`
(`Refused`) that the SECC has refused nothing for its order or its session, and has
ended what the EVCC calls a success. The properties themselves
are not inductive: they look at what has been refused, not at what is on its way. Two
lemmas per pair do the work, one for a served request (`Awaited` becomes `Taken`) and one
for a processed response (`Taken` becomes `Awaited`).

- `DinLinkProofs`, both sides of DIN SPEC 70121 and the pair. The SECC: type correctness
  and `PowerAfterTests`, carried by `Decided` (authorization lies before every later
  state), `Tested` (the cable check before PreCharge), `Announced` (HLC is on in
  CurrentDemand, and off with the charger once PowerDelivery has stopped) and `Unended`
  (an open session has no reason to end); from the same invariant, that every step is a
  step of `ChargingSession` or a stutter. The EVCC: type correctness and
  `EnabledInSession`, carried by `AuthorizedStates`, `Unreported` (an open session is not
  yet a success) and `HaltedStop` (the controller is told to stop only with a
  PowerDeliveryReq that says so). The pair: `RequestsFit` and `PowerIntoVehicle`.
- `V2LinkProofs`: `NoSequenceError`, `AgreedInLoop` (both with the delayed start as their
  one exception, which `ServingDelayed` treats), `PowerIntoVehicle`, `SuccessAgreed`,
  and that the SECC of the pair implements `ChargingSession` and settles the payment
  option. Beyond the relation it needs `Bearing` (what the EVCC's state says of its own
  choices and contactors; `progress` has three values, one of which renegotiates) and
  `Powered` (the charger works only where a DC session has use for it). `Awaited` holds
  for a request on the wire even when the EVCC has given up, because WeldingDetection
  repeats its last request when it fails; and `Taken` holds with a failure code as long as
  the session is open, because the SECC's PaymentDetails and Authorization go on after
  some negative codes. For an SECC of another make the EVCC's own invariant is claimed.
- `V20LinkProofs`: `RequestsFit`, `AgreedInLoop`, `PowerIntoVehicle`, `SuccessAgreed`, and
  the invariants of both sides, for an SECC of this repository or, in the same proof, one
  of another make, about which only the EVCC's own invariant is claimed. `Bearing` has
  three parts here: `Chosen` (service, control mode and kind of current as the EVCC's
  handlers leave them), `Wishes` (which end it wants: a SessionStop that renegotiates is
  never counted as a success) and `Switched`. `Agreement` says that the services and the
  schedules the EVCC knows are those the SECC has offered. Three things of the code shape
  the relation: a CertificateInstallationReq gets no response, so that request and
  response do not alternate there; a DCPreChargeReq after the end of precharge is the one
  request that the SECC cannot place, which `RequestsFit` names and `Awaited` and
  `Unrefused` carry; and the requests that are repeated after giving up are still awaited.

Only model-checked: all liveness (`SilentSessionEnds`, `WaitingEnds`, `EveryWaitEnds`,
`DiscoveryReturns`, `DiscoveryEnds`, `EndTogether`), which needs fairness and ENABLED, out of
the prover's reach. Every invariant and action property of a passing run is proved.

## Findings

Each is a run in which TLC finds what a comment or docstring excludes; `PROJECT.json`
quotes it.

- `secc_v20_bpt`: the charging loop of a bidirectional DC session passes `is_session_bpt`
  where `send_charging_command` takes `is_precharge`.
- `secc_handler_close`: `close_session()` looks up the address tuple in a map keyed by
  IP and never reaches its session.
- `secc_handler_tls`: with TLS enforced the server starts without when there is no SSL
  context.
- `evcc_v20_renegotiation`: after the SessionStopRes of a service renegotiation the EVCC
  names ServiceDiscovery as its next state but makes no request; `process_message` raises,
  and the session ends as a failure.
- `evcc_handler_tls`: a response that announces TLS satisfies `enforce_tls`, but without an
  SSL context (`get_ssl_context` returns None when TLS 1.3 is enabled and the OEM
  certificates cannot be loaded) the EVCC connects without TLS.

Remarks: what the code does and no run reports, either because nothing in the repository
says otherwise or because a property names it as its exception. After a DC Stop of ISO 15118-2
another PowerDeliveryReq with Start goes back into the loop without a cable check
(`iso15118_2_states.py:1714` of the SECC); a stop notified in a MeteringReceiptRes is answered with Stop and
a request of the loop after it (`iso15118_2_states.py:986` of the EVCC); an EV that delays
charging with ChargeProgress=Stop, as the docstring of `process_sa_schedules_v2` lets it, goes
on to the charging status in AC, although the SECC waits for a SessionStopReq and answers
FAILED_SequenceError (`iso15118_2_states.py:905` of the EVCC, `1717` of the SECC), the
exception `NoSequenceError` and `AgreedInLoop` name; in DC that choice is ignored; MeteringReceipt accepts a CurrentDemandReq in AC too; HLC is not taken back when a
session breaks off; a rejection of the contract may carry a positive code
(`iso15118_2_states.py:1051`); `sa_schedule_tuple_id` of the context is read and never
written; overlapping sessions of one peer share entry and context; the end of one session stops
the one controller's charger under another; a session paused on TLS and resumed without
is offered Plug & Charge (`iso15118_2_states.py:317`); `wait_for_tasks`
logs an exception and the process ends with exit code zero; the EVCC picks EIM even if
it is not offered; the code `Failed_NoNegotiation` passes the EVCC's test for "FAILED";
the EVCC does not look at renegotiation in DC; `error_received` clears `started` for
good. In ISO 15118-20: `ScheduleExchange` takes a DCCableCheckReq or PowerDeliveryReq
before any ScheduleExchangeReq, though its docstring expects that one first, so the loop
may run on the schedules of an earlier negotiation and without a cable check; the option
the EV takes is not compared with those offered, and a wrong challenge is only a warning;
services of an earlier discovery stay selectable; an allowed Standby starts to charge; a
pause is notified as one, but `stop()` terminates the data link; an EV whose authorization
is rejected goes on to the services and is charged, and one that asks for service
renegotiation right after AuthorizationSetup gets there without any AuthorizationReq
(`DecidedBeforePower` names both); the EVCC's PowerDelivery enters the loop after a Stop that
a pause of the SECC asked for; its DCWeldingDetection does not look at the
response and always asks for TERMINATE; ServiceDetail ends the session without noting
the end, so that SessionStop raises; the SECC's PowerDelivery takes a DCWeldingDetectionReq,
or a SessionStopReq that renegotiates the service, after a PowerDeliveryReq with the processing
ongoing and leaves charger and HLC on (`iso15118_20_states.py:1061`). In DIN SPEC 70121: PreCharge and CurrentDemand of
the EVCC call `get_dc_ev_power_delivery_parameter()`, the variant of ISO 15118-2
(`evcc/states/din_spec_states.py:609`, `741`); the `RealBatterySimulator` raises
NotImplementedError for the DIN status, so with it every session ends at
ContractAuthentication (`AbortEV` is possible in every state); PowerDelivery asks
`continue_charging()` again, so that an EV which changes its mind while its
PowerDeliveryReq is answered sends a WeldingDetectionReq to an SECC that waits in
CurrentDemand with HLC on, the exception `RequestsFit` and `PowerIntoVehicle` name; the ongoing timer is not
reset by ContractAuthentication. `SomeoneResumes`, `ResumesPausedOnly` and `SessionOwnsHandler` name in their
statement what the code does not promise (overlapping sessions, a dead task).

## Not modelled

- V2GTP headers and the TCP byte stream (`read(7000)` may split or join messages, and the
  payload length is not compared with the data): the models take a message as a unit.
- The duration of schedules against the departure time, the contents of charge
  parameters and responses: data that no transition depends on but through a verdict,
  which the models leave open.
- EXI codec, certificates and signatures: encodings and cryptography; their verdicts and
  failures are nondeterministic inputs.
- Settings, network interfaces, scripts, battery diagnostics, the simulators' data: I/O
  and data without a part in the protocol.
- The status reports of the SECC's handler to its controller, and two sessions under
  one controller: the end of one stops the charger of the other, which follows at once
  from `stop()`.

## Plan

Done: `SeccV2` with `ChargingSession`, `EvccV2`, `SeccV20`, `EvccV20`, `SeccDin`, `EvccDin`,
`SeccHandler`, `EvccHandler` and the three links, each with proofs.

Next: `V2gtp` (header checks and framing) and `Schedules` (the duration of a schedule
against the departure time) as operators against reference definitions.
