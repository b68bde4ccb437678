# Verification of the interceptor command simulation

TLA+ models of the interceptor command simulation, TLC configurations that check
them on small instances, and TLAPS proofs of the central invariants for every
value of the parameters.

## 1. The system

| Part | State it keeps | Operations | Talks to |
|---|---|---|---|
| `SimulationSession` (`common/src/simulation*.cpp`) | phase, tick, snapshot sequence, target/asset, track, seeker lock, interceptor and order status, assessment, client connections, event log, snapshot list | connect / disconnect / timeout of a client, start, configure, reset, request and release track, activate, engage, transport rejection, tick, archive | called by the transports and the baseline runtime, always on one thread |
| Tracking filter (`simulation_state.cpp`, `simulation_support.cpp`) | estimate, covariance, measurement age, missed updates | seed, update, clear | called by the session |
| Kinematics (`simulation.cpp`, `simulation_support.cpp`) | positions, velocities | move, bounce, guide, clamp | called by `advance_tick` |
| Summary and artifacts (`simulation_summary.cpp`, `artifact_readers.cpp`, `tools/`) | none | derive the summary, resilience case and intercept profile; write and read files | read the session's log and last snapshot |
| socket_live transport (`transport_socket_live.cpp`) | the console's TCP connection and buffers, the viewer's UDP binding, heartbeat time, delivery cursor, replay cursor | `poll_once`: accept, read, dispatch, flush; `advance_tick`: viewer timeout, tick, deliver | TCP console, UDP viewer, session |
| in_process transport (`transport_inprocess.cpp`) | sender ids | direct calls with envelope validation | session |
| Baseline runtime (`runtime.cpp`) | none | scripted run, artifacts, log | in_process transport |
| Server process (`server/src/main.cpp`) | shutdown flag | loop `poll_once; advance_tick`, archive on a signal, write artifacts | transport |
| Tactical viewer GUI (`clients/tactical-viewer-gui`) | last snapshot and telemetry, timeline, review, heartbeats in flight | receive, heartbeat, rejoin, control actions with optimistic updates | UDP and TCP of the server |
| Command console (`clients/command-console`) | sequence number | scripted run, polling for the assessment | TCP of the server |
| Frame codec, payload serialization (`frame_codec.cpp`, `serialization.cpp`) | a receive buffer | encode, reassemble, parse | transports and clients |
| Setup and layout of the GUI (`app_setup.cpp`, `app_layout.cpp`) | planned scenario, window size | edit within ranges, randomize a start; place panels and buttons or refuse the window | session through `scenario_start`; painting |
| Text viewer (`clients/tactical-viewer`) | none | scripted run, frame | in_process transport |
| Configuration (`config.cpp`) | none | load, validate | everything |
| Rendering, labels | none of the protocol | draw | - |

What is hard in this code: commands, client events and ticks reach the session in
any order; statuses are written by one operation and tested by another several
calls later (a rejection, an order, a launch, an assessment); clients see the
session through snapshots only, over a channel that loses and reorders; a reset
restarts the run but not the numbering; two clocks (ticks and heartbeat time)
decide timeouts.  `PROJECT.json` lists these hazards line by line.

What makes each part correct:

* session: phases, order, weapon and verdict agree; every accepted order is
  settled by its timeout; a verdict is final; the last snapshot is current;
  numbers are never reused; a reset leaves nothing behind; the log tells the run;
* tracking filter: a held track is recent;
* transport: one console and one viewer, every snapshot handed over at most once
  per binding and in order, every command answered, the cursor inside the log;
* viewer: the picture is one published picture, never goes back and catches up
  after loss; what is shown ahead of its snapshot is right; an enabled button is
  accepted; a lost registration is renewed; the delay shown was measured;
* setup and layout: no start is refused, none has its target at rest; a change of
  phase never finds the window too small;
* programs: a fixed run ends with its verdict, a console reports only its own;
* reports: written at any time and by any of four copies of the rule, they tell
  the same profile, that of the launch;
* codec: frames come out as they went in, however the stream is cut.

## 2. Modules

| Module | Models |
|---|---|
| `TrackFilter` | measurement schedule, age and missed updates of a track |
| `SessionOperations` | every method of `SimulationSession` as an operator on a session record, and the `artifact_track_active` derivation |
| `SessionInvariants` | what holds of a session record between two calls |
| `SimulationSession` | the session as a state machine; the properties |
| `EngagementLifecycle` | abstract specification: stages, guidance, verdict |
| `ReplayCursor` | the review cursor and `resolve_replay_cursor` |
| `SocketLiveTransport` | the live server: loop, handlers, console, viewer, clock, signal; the properties |
| `MCSocketLiveTransport` | the traffic of the transport's runs |
| `InProcessTransport` | the in_process transport: its calls, its sender ids, `validate_envelope` |
| `BaselineRun` | the fixed runs of the baseline, the text viewer and the console preview, call by call, next to the same run on a bare session |
| `CommandConsole` | runs of the console program against `SocketLiveTransport` |
| `AfterActionReport` | `SimulationSession` with the reports that can be written at any moment |
| `ViewerOperations` | the GUI's state and the functions that change or judge it |
| `TacticalDisplay` | the GUI against the session: pictures over UDP, commands over TCP, panel, script, restarts |
| `DisplayLink` | registration, heartbeats, time-out and rejoin between GUI and server |
| `DisplayFeed` | snapshots and telemetry on their way, and the timeline |
| `LinkDelay` | heartbeats in flight and the smoothed delay |
| `ScenarioSetup` | planned scenario, randomized start, the server's validation |
| `DisplayLayout` | `build_layout` and the refusal of a window |
| `WireFormat`, `FrameStream` | field encoding, JSON lines and binary frames; their way over a byte stream |
| `TargetMotion` | `bounce_world_axis` and the final clamp, over integers |
| `MCServerTraffic`, `MCServerLiveness`, `MCCommandConsole`, `MCTacticalDisplay`, `MCDisplayLiveness`, `MCStandaloneParts` | what clients send in the runs, and the composition of machines that share a run |
| `SessionProofs` | lemmas: each operation returns a session, keeps the facts, and what it does to picture, log, numbering and clients |
| `SimulationSessionProofs` | the theorems about `SimulationSession` and the reports of `AfterActionReport` |
| `SocketLiveTransportProofs`, `CommandConsoleProofs` | the theorems about the module of that name |
| `TacticalDisplayProofs` | the theorems about `TacticalDisplay` and `DisplayLink` |
| `BaselineRunProofs` | the theorems about `BaselineRun` and the `InProcessTransport` under it |
| `StandalonePartsProofs` | the theorems about `LinkDelay`, `ScenarioSetup`, `DisplayLayout`, `DisplayFeed`, `TargetMotion` and `FrameStream` |
| `WireFormatProofs` | the theorems about `WireFormat` |

The methods are operators, not actions, because the transports call several of
them in one handler (configure, then start; timeout, then tick); a module that
owns a session composes them in one step.  In `SimulationSession` every public
method is one action, since the server runs all of them on one thread.

Correspondence.  A session record has one field per member of the class that
control flow or a client reads: `phase`, `tick`, `sequence`, `timeoutTicks`
(`scenario_.engagement_timeout_ticks`), `targetActive` / `assetActive`
(`target_.active`, `asset_.active`), `connection` / `joined` (the two
`ClientState`s; `joined` is `has_connected_before`), `track`,
`seekerLock`, `interceptor`, `order`, `ready` / `code` (`assessment_`),
`started` (`engagement_started_tick_`, `NoTick` when empty), the three exercised
flags, `log` and `snapshots` / `latest`.

Abstractions.  Positions, velocities and angles are left out; `AdvanceTick` takes
the answers to the two questions the code asks of them (`hit`: inside the
intercept radius, `inFov`: inside the seeker's field of view) as arguments and
the model lets both vary freely, which covers every trajectory.  The log keeps
its size, the number of events of each type and the track profile of the last
track or engage event, which is all that readers of the log use.  The snapshot
list keeps its size and last element.  The millisecond clock, texts and ids are
left out.

`EngagementLifecycle` says what an operator may rely on: the stages, that the
track can be taken up or dropped until the order and not after, and that only an
engagement under way receives a verdict.  `SimulationSession` implements it with
`stage <- phase`, `guided <- the profile in the log`, `verdict <- code once
ready`; launch and assessment may fall into one tick.

### The live server

`SocketLiveTransport` is `run_socket_live` with the transport behind it.  The
server is one thread: `pc` walks through `poll_once` (`accept`, `flush`, `udp`,
`recv`, `frames`) and `advance_tick` (`tick`) back to the `head` of the loop, and
ends in `exited` or, when a send or a read leaves `poll_once` as an exception, in
`failed`.  A step is one accepted or refused connection, one datagram, one read,
one frame, one flush or one tick; each kind of frame is an action that makes all
the calls its branch of `process_tcp_frame` makes, with the session's operators.

Clients act at any time, but nothing they do is seen before the server looks, so
their steps are taken there: a connection when it accepts, a frame when it reads,
the age of the heartbeat when it ticks.  Any datagram may be read at any time,
which covers loss, delay, reordering and duplication.

`console` stands for `command_client_`, `command_sender_id_`, `tcp_buffer_` and
`pending_tcp_lines_`, `viewer` for `viewer_endpoint_`, `viewer_sender_id_`,
`last_display_heartbeat_at_`, `last_snapshot_sent_index_` and
`pending_udp_messages_`, `replay` for `replay_cursor_`.  `link` also says what the
socket will answer: a console that closed its end is `Finished` (a read returns
the end, a later send may fail), a reset connection is `Aborted` (both fail).
`awaiting` is kept by the console and is what `AnswersInOrder` compares with the
queues.

Abstractions.  A frame is a record of what its handler tests: sender, whether it
names the session, whether its contents are the ones wanted, the timeout, the
review control.  A snapshot and its telemetry are queued together and are one
picture, known by its number.  Cutting the stream into frames is the codec's; a
frame that does not parse is the kind `malformed`.  Sender id 0 (`NoSender`) is the
transport's mark for "unset", and nothing keeps a client from using it.
`server_sequence_`, wall times and texts are left out.

### Calls without a network

`InProcessTransport` keeps `session_`, `command_sender_id_` and
`viewer_sender_id_`; every method is an action, and a payload is what
`validate_envelope` and `dispatch` read of it.  `served` names the payload of the
last call.  Unlike the live server, `timeout_client` keeps the sender id.
`BaselineRun` walks through the call lists of `drive_sample_transport_sequence`,
the text viewer and the console preview (`program`, `pc`), makes the same calls
of `drive_sample_session_sequence` on `demo`, and ends with the exit code of the
server's `run_in_process`.

`CommandConsole` puts runs of the console program next to `SocketLiveTransport`:
`at` is the place in its call sequence, `waiting` whether a `recv_frame` is
pending, `attempts` its count of reviews.  It connects, asks, gives up after its
receive timeout at any time, and reports; the next run may begin while the
request of the last one is still to be served.

`AfterActionReport` adds to every step of `SimulationSession` what reports read:
the last events (`recent`), the words of the decisive event (`decisive`) and how
the interceptor was launched (`launch`).  The four copies of the rule that reads
the track profile off an event are four operators, each with its own words.

### The tactical display

One program, four machines, because its parts have little in common:

* `TacticalDisplay`: `viewer` is `ViewerState` as far as control flow reads it
  (picture, control labels, review).  A picture is taken out of everything ever
  `published`, so it may come late, twice, out of order or never.
  `perform_control_action` blocks until its answer is there and reads no datagram
  meanwhile, and a tick of the server changes nothing the display holds; so a
  command, its handling and its answer are one step (`Press`, `ScriptStep`), with
  the join ahead of the first one: `connect_client` records no snapshot.
  `holder` is whoever occupies the only console connection; when it is not the
  display, a command ends the process (`ControlFails`).
* `DisplayLink`: the clocks of both sides count the time since an event and stop
  once past the test they are for.  `up` holds registrations and heartbeats on
  their way, `air` pictures; both lose and delay.
* `DisplayFeed`: the two orders of `apply_snapshot` (sequence) and
  `apply_telemetry` (time stamp, then event tick), the timeline with its merging of
  events equal in tick, type and summary (`TellsNews`) and its length (`Entered`),
  and what reset and restart do to the numbers.
* `LinkDelay`: `pending` is `pending_heartbeats`, `raw` and `delay` the two
  delays, `samples` what was measured.

`ScenarioSetup` has the planned and the running scenario: edits within the
display's ranges, `randomize_start_scenario` with its jitter, its two corrections
(a target at rest, a start equal to the plan), and `validate_runtime_config` on
the server's side.  `DisplayLayout` has `build_layout` in whole pixels: any size,
any mode, and the exceptions it throws.

### Frames and motion

`WireFormat` works on bytes, since what it must get right is which bytes are
escaped: fields, JSON lines, binary frames.  The message is the one with a text
field (`session_leave`).  What the decoders do in a loop over their input
(`decode_field_value`, the split of `parse_fields`, `extract_json_field`) is one
function, `ReadFrom`: what each position contributes and where the reader goes on.
`FrameStream` sends and reads frames in pieces of any
length, as the server does (rest kept) and as the console does (first frame
taken, rest dropped).  `TargetMotion` is one axis of the target's motion in
whole units, which are exact in the code's floats at these sizes.

## 3. Runs

Machines that have no variable in common share a run where they are small: a
variable that never changes (`part`, `traffic`, `conditions`) chooses at the
start which of them takes steps, and the others stay where they are.  Each
reaches exactly the states it reaches alone.

| Run | Bounds | Shows |
|---|---|---|
| `session_engagement` | timeouts 1 and 3, 5 ticks, 3 snapshots before the last reset, 1 rejection, 2 track changes, 1 change of a client | `PhaseConsistent`, `EngagementTimely`, `SeekerLockNeedsTrack`, `ProfileMatchesTrack`, `ReportsTellTheRun` |
| `session_restart` | timeout 1, 2 ticks, resets while fewer than 7 snapshots were taken, both clients, 2 leaves, reconnects or timeouts | `PictureCurrent`, `VerdictFinal`, `SequenceNeverReused`, `ImplementsLifecycle` |
| `session_track` | timeout 5, 17 ticks, 2 track changes | `TrackFresh`, `OrderSettles` |
| `rejected_order` | timeout 2, 4 ticks | `TimeoutAlwaysObserved` is violated |
| `frame_track` | timeout 1, 3 ticks | `FrameShowsTrack` is violated |
| `transport_traffic` | viewers: 2 endpoints, 3 senders, 3 polls, 3 datagrams, 2 frames, batches of 2; anything: 2 connections, 3 frames of every kind, sound and refused, 2 polls; the sender id 0 in both; mission: 5 frames, 2 polls; review: 5 frames (reviews with index 0 and 3), 1 poll | `BindingsAgree`, `DeliveryCurrent`, `AnswersInOrder`, `MissionConsistent`, `ReplayInLog` |
| `transport_liveness` | `--run-forever`, `udp_send_latest_only`; mission: its 5 frames in order, 2 datagrams, 4 turns of the loop; anything: 2 connections, 2 frames of any kind, 2 turns | `SilentViewerReleased`, `SignalArchives` |
| `review_step` | join, start, reset, reviews | `StepsFromCurrentCursor` is violated |
| `console_run` | server timeouts 2 and 22, the program's 2; patient: one program, 30 turns of the loop, its 5 commands and 20 reviews; several: 3 programs, 13 frames, 12 turns | `ReviewsSuffice`, `OutcomeIsOwn` |
| `display_picture` | a panel and a second console, 4 commands, a restart; or a panel alone with 6 commands; 5 pictures | `ShownGenuine`, `ButtonsTellTruth`, `RunNeverGoesBack`, `AnticipationRight`, `RecommendationLeadsOn` |
| `display_liveness` | the default script; a panel with 3 commands and a restart; a link with 2 pictures in flight, 1 late one, 1 restart, heartbeat timeout 2 for an interval of 1 | `TimersAgree`, `ScriptAwaitsVerdict`, `ScriptCompletes`, `Converges`, `RegistrationHeals`, `LabelSettles` |
| `standalone_parts` | 7 time units and 2 heartbeats remembered; 3 pictures, 2 events of 2 texts, a timeline of 2, a reset, a restart; 15 widths by 20 heights; a world of 40 by 20, an edit, 2 starts; messages of up to 3 special bytes, 3 on one connection; worlds of 1 to 10 and speeds to 19, 40 ticks; every fixed program with timeouts 1, 2, 3, 5; a free caller with 2 ticks | `DelaySound`, `FeedSound`, `LayoutSound`, `StartsAsPlanned`, `StreamFaithful`, `MotionFaithful`, `RefusalHarmless`, `RoutesAgree`, `RunsSucceed` |

A property named `...Sound`, `ShownGenuine`, `ReportsTellTheRun`, `OutcomeIsOwn`,
`RunsSucceed` and the like is the conjunction of named parts that stand, each
with its comment, in front of it in the module.

Why the bounds are enough.  A timeout of 1 launches and assesses in one tick, 3
leaves ticks between launch and assessment, and 5 ticks let the order be given
late and still time out.  One rejection is enough to reach "rejected before the
order" and "rejected during it".  Seven snapshots before the last reset allow a
whole run, a reset and the beginning of another, two ticks reach the rehearsed
gap at tick 2.  The sensor schedule has a period of 15 ticks, so 17 ticks and two
track changes put the acquisition at every place of it.  The bounds limit the
environment only; the operations have none.
Of the transport: three datagrams register a viewer, time it out or move it to
another address, and bring another one; a reset then shortens the list under a
registered viewer.  Three frames over two connections put a join, a command and a
leave or an end of the connection in every order, with answers queued on both
sides of it.  Five frames are a join and a complete mission.  Batches of two with
three polls make the rewind at a registration longer than one.  The two addresses
are a symmetry set: a server starts without a viewer and treats all addresses
alike.
Of the live server's liveness: the mission's five frames and four turns reach every
phase up to the verdict before signal and silence, which may come at any turn; its
two datagrams are a registration and a heartbeat, early or too late.
Of the console: a patient program may use all of its 20 reviews, with a turn for
each, so it runs out unless its own timeout counts; were the server to keep its
22 ticks, it would.  Of several, one gives up, one comes while its request is
still to be served, and there is one more.
Of the display: four commands reach an order, six a whole run, the reset and the
next start; a restart needs one older picture and one newer.  After the bound on
pictures only an engagement under way still runs, so that a verdict is always
reached.  Of the link: one loss of a registration, of a heartbeat and of a
picture, before and after a restart; timeout 2 with interval 1 is the smallest
pair for which a punctual display stays (see below).
Of the parts: the sizes of a window are those around every width and height at
which something changes in `build_layout`; the special bytes are those the
codecs test, with hex digits and the letters of the keys; the speeds go from rest
past twice the width of the world.

Deadlock is not checked: with a tick limit the server loop really ends, a program
ends, and every client may fall silent.

Fairness.

* `SimulationSession!FairSpec`: weak fairness of `Tick` and nothing else, since
  `run_socket_live` calls `advance_tick` in every iteration of its loop, whatever
  the clients do; clients owe nothing.  `OrderSettles` speaks of the orders the
  tick limit leaves enough time for: after the limit the loop stops.
* `MCServerLiveness!LiveSpec`: weak fairness of `Server`, the server's thread
  as a whole: nothing in the loop blocks, all sockets are non-blocking.  That
  clients send, that the clock passes a timeout or that a signal comes is never
  assumed.  The server runs forever, so that only the signal ends its loop; once
  its turns, a bound, are used up, it waits at the head for the signal.  `Running`
  spells out when the server has a step.
* `TacticalDisplay!FairSpec`: weak fairness of the server's `Tick`, of
  `ScriptStep` (the GUI's loop tries the script in every frame) and of
  `ReceiveNewest`: the newest picture gets through in the end.  An operator or
  another console need never act.
* `DisplayLink!FairLinkSpec`: the loops go round (`Pass`, `ServerTick`,
  `SendDisplayHeartbeat`, `SendViewerJoin`, weakly fair), and the network loses
  a datagram that is sent again and again not every time (`HandleJoin`,
  `ReceivePicture`, strongly fair).  Heartbeats are delivered only if the display
  is `punctual`.

### What `rejected_order` shows

`reject_command` marks the order `Rejected` whenever there is no verdict yet,
also while an order is under way.  `advance_tick` launches an `Accepted` order
and assesses an `Executing` one, so a single rejected command (a `track_drop`
after the engage order, say) leaves the engagement in `EngageOrdered` or
`Intercepting` for good: no success, no timeout, no archive, until a stop or a
reset.  `PROJECT.md` 8.3 promises `TimeoutObserved` past the timeout ticks.  The
passing properties `EngagementTimely` and `OrderSettles` say what does hold: the
promise is kept as long as no command is rejected during the engagement.

### What `review_step` shows

`docs/aar.md` says that `step_forward` "advances from the current cursor", and
the transport's test sends a step with index 0 and expects just that.
`resolve_replay_cursor` keeps the cursor only while the number of events is the
one it was made for; one event later (a tick that times a viewer out, a rejected
frame, any command) the step starts from the index in the request instead, so
the review jumps.  `ReplayInLog` says what does hold: the answer is always a place
in the present log.

### What `frame_track` shows

`render_tactical_frame` takes the track to be active unless the text of the last
track or order event says `disabled` or `unguided_intercept`.  A dropped track is
logged as "Track file dropped", so the text viewer's frame says
`track=tracked` of a session that holds none, next to a report that says
untracked (`ReportsTellTheRun`: the other copies of the rule agree).

### What the runs show beside

`DeliveryCurrent`: every handler that publishes delivers before it ends, so a
registered viewer is never more than one snapshot behind inside a handler.
`SignalArchives` and `SilentViewerReleased` name the one exception the code
makes: a send or a read on a reset connection ends the process, without archive
and session log.

`BindingsAgree` has one exception: `HeardWithoutId`.  After a timeout the viewer's
sender is 0, "unset", so a heartbeat with the sender id 0 passes for its own
(`transport_socket_live.cpp:739`) and the session counts the display as
reconnected, although nobody is registered: nothing is sent to it, and it is
never timed out again.  Only the answers to such heartbeats are queued then
(`DeliveryCurrent`).  The clients of the repository have other ids unless
`--sender-id 0` is given.

`PunctualNeverTimedOut` needs a heartbeat timeout above the interval;
`validate_runtime_config` also accepts the two being equal, with which a punctual
display is timed out between two heartbeats.  `RegistrationHeals` speaks of a
display that was served: the GUI asks again only after something was received, so
one whose first registration is lost never appears.  `Converges` leaves out a
server that was restarted and has not counted past the old one's pictures: the
GUI discards what it sends until then.  `ScriptAwaitsVerdict` and `ScriptCompletes`
take pictures in time; a late picture of before the order opens the gate of the
script's review.

Disagreements with documents met on the way, which no run states: when the feed
goes quiet the GUI keeps the last freshness label, while `docs/operations.md:119`
has `stale` for a viewer fallen out of date; the capture time behind the picture
age is set back by a datagram whose content is dropped (`app_net.cpp:221`), while
`docs/test-report.md:66` says late ones do not roll back viewer state; and a
configured velocity beyond 12 is started as 12 (`app_setup.cpp:200`), while
the repository's `README.md:153` speaks of a small envelope around the plan, so `StartsAsPlanned`
is proved and checked for configurations the setup itself could have made.

## 4. Proofs

`SimulationSessionProofs` proves, for every non-empty set of positive timeouts
(`EngagementTimeoutsPositive`, which `validate_runtime_config` enforces), every
set of clients and every bound:

| Theorem | Property |
|---|---|
| `TypeCorrect` | `TypeOK` |
| `PhasesConsistent` | `PhaseConsistent` |
| `EngagementsTimely` | `EngagementTimely` |
| `SeekerLockTracked` | `SeekerLockNeedsTrack` |
| `ProfileFaithful` | `ProfileMatchesTrack` |
| `PictureKeptCurrent` | `PictureCurrent` |
| `SequencesRise` | `SequenceNeverReused` |
| `VerdictsFinal` | `VerdictFinal` |
| `SessionImplementsLifecycle` | `ImplementsLifecycle` |
| `TracksFresh` | `TrackFresh` |
| `LogTellsRun` | `LogTellsTheRun` |
| `ResilienceBacked` | `ResilienceCaseBacked` |
| `ReportsTrue` | `ReportsTellTheRun` |

The inductive invariant `IInv` is the type together with `MissionFacts`, the
conjunction of the four facts.  They need one another: that the timeout is never
passed rests on `PhaseConsistent` (an accepted order has the present tick as its
start, an executing one has a start at all); that the lock implies a track rests
on which phases allow a track to be dropped; that the profile agrees with the
track rests on the absence of a track in standby.

The argument goes operation by operation (`SessionProofs`).  Events, snapshots
and client operations leave everything the facts speak of alone (`SameRecord`);
so an operation is judged by the record it builds before it logs and publishes.
In `advance_tick` the facts do not hold in between: after the launch an order may
have reached its timeout (`DueFacts`), and the assessment settles exactly those.

On `IInv` stand four more invariants, each with one lemma per operation.

* `Drawn` is `PictureFacts` and that a session in standby has nothing of a track.
  An operation either leaves alone what a snapshot must show (`SamePicture`) or
  ends in `record_snapshot` (`Published`); from that follow the current picture
  and the rising numbers.  The second part is needed for `configure_scenario`,
  which clears the track and publishes nothing.
* `Course` lists the steps of the engagement in the session's terms.  Every
  operation takes one or none, and each is a step of `EngagementLifecycle` under
  the mapping: the refinement.  The verdict is final because no step of the course
  but the reset leaves `Assessed` and `Archived` for anything else.  What the
  artifacts say of the track stays too, since from `InterceptorReady` on the log
  holds a track event (`ProfileKnown`).
* `Aged` bounds the age of a track by the tick's place in the schedule's period of
  15.  A run is assessed once, and the tick that archives it
  (`simulation.cpp:12-16`) moves the tick without asking the sensor.  So one
  sample more may be skipped: the bound is five ticks, and seven after the verdict.
* `Counted` joins `LogFacts` and `ResilienceFacts`: how often each milestone and
  each resilience event is in the log, by phase and by flag.  An operation is
  judged by the types it logs; a reset empties log and flags together.

The reports are one invariant more, `ReportInv`, over `AfterActionReport`.  Its
part `DecisiveFacts` ties the words of the decisive event to the profile of the
log and, from the order on, to its launch.  That these stay together rests on what
a step tells (`Tells`): nothing, a track before the order, the order, or that the
log was cleared.  No track event can follow an order, because `LogFacts` allows no
order in the phases in which a track is taken up or dropped.  `RecentFacts` says
that a run that ended does not end with an order or a verdict; the step into the
archive pushes its own event, so the last one is never an older one.

`SocketLiveTransportProofs` proves, for every set of frames, datagrams, senders
and endpoints, every batch size and every bound:

| Theorem | Property |
|---|---|
| `MissionSound` | `MissionConsistent` |
| `TransportTyped` | `TypeOK` |
| `BindingsTrue` | `BindingsAgree` |
| `ReviewInLog` | `ReplayInLog` |
| `ViewerNeverBehind` | `DeliveryCurrent` |
| `AnswersMatchFrames` | `AnswersInOrder` |

The assumptions are the ones TLC evaluates in the runs: timeouts and batch size
are positive (`EngagementTimeoutsPositive`, `BatchPositive`), sender ids are
numbers, 0 included, and the mark for no address is none of the addresses
(`ClientsIdentified`), frames and datagrams are records of their types
(`TrafficTyped`).  Two inductive invariants stand on each other.  `IInv` is the
session with its facts and the types of the console's buffers: a frame carries a
legal timeout because the buffer holds frames.  On top of it, `TInv` joins the
bindings, the cursor and `Numbered` (the snapshot list is never longer than the
count), without which the numbers of delivered pictures would not be numbers;
`LinkInv` (frames are in the buffer only while there is a connection) is what
makes a join bind a sender to a live connection.  The last section of `SessionProofs` carries the
argument: an operation takes no event back, goes on numbering and lets nobody
come or go (`Steady`), except the reset, which starts the log and rewinds the
cursor in the same step, and the operations on clients, which move exactly one.

Two more invariants are about the queues.  `DInv` adds to `DeliveryCurrent` that
no queued picture is numbered beyond the session (`Issued`), without which an old
number could be taken for the newest.  `AInv` joins `AnswersInOrder` with the
bound of every number by `asked`, and says that without a connection nothing is
left of one; the frames still to be answered are told by sets of positions, not
by filtering a sequence.

`CommandConsoleProofs` proves, for every timeout the program configures, every
server and every number of runs, `ReviewsSuffice` (`ReviewsNeverRunOut`) and
`OutcomeIsOwn` (`VerdictsOwn`).  `ConsoleSpecIsSpec` shows that the program and
its server behave as `SocketLiveTransport`, so the transport's invariants hold
(`Base`).  On them stands `CInv`: one request or answer is on its way at most and
it is the one of the program's place in the script (`OneAtATime`, `OwnFrames`);
what the accepted commands have done to the session (`Progress`); between order
and verdict no more reviews are served than ticks have passed (`Counted`), so that
the reviews answered without a verdict stay below the timeout (`InTime`); what was
reported is the session's verdict (`Reported`), and after one run with a verdict no
other can have one (`Ending`).  The argument is that an answer is flushed only after
the poll has read, so there is a tick between two reviews; the tick that reaches
the timeout gives the verdict, since no rejection spoils the order.

`BaselineRunProofs` proves for every set of timeouts that a fixed run keeps its
types (`RunTypeCorrect`, `RunTypeOK`), is never archived without a verdict
(`RunsEndAssessed`, `EndsAssessed`) and agrees with the bare session after every
call (`RoutesProvedAgree`, `RoutesAgree`).  The second rests on counting: from the
order on, ticks done and ticks left add up to the timeout, whatever it is.
`RunsProvedToSucceed` (`RunsSucceed`) adds that no call of a run is refused and
that a sample shows what its name promises; its invariant `EInv` follows the
evidence through the steps of the run: reconnect and gap once made stay made, no
rejection is logged, and the track in the log is the one the run chose.

The same module proves of the `InProcessTransport` under any order of calls, not
only a run's, that who is present has a sender id (`SendersKeptMatching`) and that
a refused command moves nothing of the mission (`RefusalsHarmless`,
`RefusalHarmless`).

`StandalonePartsProofs` proves the parts that stand alone.

`DelaySound` (`DelayKeptSound`) holds for every limit, interval
and order of answers.  The invariant adds that no heartbeat was sent in the
future and that everything measured is older than everything pending.  That the
mean of old delay and sample, rounded to whole milliseconds, stays between the
two is a lemma about integers; `SmoothedApproaches` says that a sample three or
more away always moves it.

For every world the validation accepts, every
configuration and every jitter, plan and scenario stay valid (`SetupTyped`),
no start is refused (`StartAccepted`), targets move (`RunsMove`) and,
from configured velocities in the setup's range, `StartsAsPlanned`
(`StartsSound`).  The invariant is the type with the validity of both scenarios;
the work is in the lemmas about clamping.

`LayoutSound` (`LayoutKeptSound`) holds for every size: the
invariant says what a painted standby frame implies about the size, and the
lemmas go through the panels and buttons of every mode.

`FeedSound` (`FeedKeptSound`) holds for every length of the timeline, every set of
texts and every order, loss and repetition of pictures: the timeline is newest
first, each event once, within its length, and tells only what came with a picture
up to the sample shown.  The invariant orders what was sent and what it tells
(`SentInOrder`, `EventsInOrder`) and says that the last event told is behind none of
the timeline (`LastIsLatest`); a later sample tells that event or a later one.
`MotionFaithful` (`MotionKeptFaithful`) holds for every
start, speed and number of ticks; what a recursive function computes after n ticks
is proved by well-founded induction over the numbers, with the set of ticks in
question in place of a predicate.

`TacticalDisplayProofs` proves, for every script, every set of conditions (who
gives commands, whether pictures come late, every bound) and every set of
timeouts:

| Theorem | Property |
|---|---|
| `DisplayGenuine` | `ShownGenuine` |
| `RunsGoForward` | `RunNeverGoesBack` |
| `ButtonsTrue` | `ButtonsTellTruth` |
| `AnticipationsTrue` | `AnticipationRight` |
| `RecommendationsLeadOn` | `RecommendationLeadsOn` |

The invariant `VInv` says of the server that its session is sound and its latest
snapshot shows it, and that every server numbers its pictures upwards across resets
(`Numbered`); of the display that the stamp it shows (server, run, sequence) is that
of a picture that was sent (`Stamped`), commands shown ahead or not.  The stamp is
what `RunNeverGoesBack` needs: a picture that replaces another has the higher
number, and of one server the higher number is never of an older run.  That a
change of the plan leaves a genuine picture genuine rests on a fact about the
authority: a picture in standby shows no track.

For the other three, `Permits` states when the session carries a command out, and
one lemma per command (`StartJudged` and so on) shows that the operation is logged
as refused exactly otherwise, and that what `send_and_expect_ack` shows of it agrees
with what it did.  The copy is right only because of the phases: a start shows no
asset and no verdict since standby has none, an order shows a ready interceptor
since only a ready one is ordered.  `ControlButtonEnabled` asks less than the
session in one place (`Track` while detecting or tracking does not look at the
track); the label sent makes up for it, since `Detecting` has no track and
`Tracking` has one.

`ScriptWaits` (`ScriptAwaitsVerdict`) holds for every script, every timeout, every
hit or miss, every bound and any number of restarts, under three hypotheses.  The
script is the only operator and no picture is overtaken (`ScriptAlone`): the gate
of the script's review looks at the picture shown, which a console's order or a
late picture of before the order leaves behind.  And a script resets only right
behind a review, as `kDefaultScript` does; one given with `--auto-controls` that
resets elsewhere does not wait, nor does the program promise it.  The inductive
invariant `ScriptInv` says what the picture shown and the newest one published
must tell of an order (`Informs`: a verdict shown is there, an order without a
verdict is shown as given) and that behind a review no order is open.  It holds
while the link is up; without a link the script does nothing, and a restart begins
with no order.  Its lemmas are that a tick opens no order and loses no verdict
(`TickQuiet`), that a command publishes what it does to one (`CommandsTell`), and
that an acknowledged order is shown before the next step is due (`StepScript`).

The last section proves `TimersAgree` of `DisplayLink` (`PunctualStays`) for every
number of pictures lost or late and of restarts, and every interval *below* the
timeout.
The invariant `HeardInTime` bounds the age of the last heartbeat at the server by
the display's own clock.  The hypothesis is the operator's to meet: the interval is
the display's `--heartbeat-interval-ms`, which nothing compares with the server's
timeout, and `validate_runtime_config` compares the timeout with the server's own
interval only and admits equality.

`WireFormatProofs` proves of the codec, for every kind and every text over all 256
bytes: `TextReadBack` (fields written by `serialize` are parsed to the message),
`JsonFrameReadBack` (a JSON line holds no newline and is decoded to the message)
and `BinaryFrameReadBack` (so is a binary frame, whatever follows it in the
buffer, and no shorter part of it counts as a frame).  No text has to be assumed
harmless.  On them stands `StreamDelivers` (`StreamFaithful`) in
`StandalonePartsProofs`: for every set of messages, either format, either receiver
and every way of cutting the stream, what comes out is what went in, no byte is
lost and no complete frame waits.  Its invariant `StreamInv` is that buffer,
connection and queue together are the frames not yet received, and that the
console has one answer at most on its way, without which the rest its `recv_frame`
drops could be part of a frame.  One assumption is left, `FramesFit`: a binary
frame is below 4 GiB, where its two sizes fit the 32 bits `append_u32` casts them
to; no message of the program comes near it.

These proofs are inductions over texts, and the library's induction theorems take
a predicate as parameter.  They are done with the smallest counterexample instead:
the set of the positions at which a decoder has gone wrong is a set of numbers, and
a non-empty one has a least element (`LeastNat`, from the library's well-founded
orders).  What a concatenation of many pieces holds is stated with the function of
its partial results (`Partials`), which `FlattenSeq` agrees with.

Only model-checked:

* liveness (`OrderSettles`, `SilentViewerReleased`, `SignalArchives`, `Converges`,
  `ScriptCompletes`, `RegistrationHeals`, `LabelSettles`): fairness and `ENABLED`
  are outside the prover's reach;
* the three runs that expect a violation.

## 5. Not modelled

* Drawing, wording and colours of the GUI and the text viewer's frame (except the
  track it tells): no state, no decision of another part reads them.
* The parser of the configuration files and of the command lines, the writers'
  layout and the readers of the artifacts (`artifact_readers.cpp`, `tools/`): text
  handling of files nothing else reads.
* In `serialization.cpp` the field lists of the messages other than
  `session_leave` and the conversion of numbers: they repeat the pattern modelled.
* The guidance of the interceptor, bearings, predictions and the estimate of the
  filter: floating-point geometry.  No control flow depends on it beyond the two
  answers of section 2, which vary freely.
* A client's `send` that takes part of a frame before its timeout, and frames
  longer than 2^32 bytes: the reader's sums wrap at 32 bits (`SumU32`), but
  `FrameStream` sends frames the encoder made, with which they do not.
* In `TacticalDisplay`, an answer that takes more than a second while the link is
  up, which ends the display as a lost link does.
* Motion histories, the scrolling of the timeline and the lines the display adds to
  it itself (answers, setup, rejoining).  These push out older events; the order and
  origin of the events that stay are not affected.
* In `DisplayFeed`, the second telemetry of a picture, which a re-registration
  sends.

## 6. Plan

Done: the session and its reports, the replay cursor, both transports, the server
loop, the baseline, the console, the display (pictures, script, link, feed, delay,
setup, layout), the codec, its stream and the target's motion; and a proof of every
invariant and every action property the passing runs check.

Left, in this order:

1. The artifact readers against the writers' text.
2. The other messages of `serialization.cpp` with their numbers.
