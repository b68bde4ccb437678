------------------------------ MODULE DisplayFeed ------------------------------
(****************************************************************************)
(* What the tactical display makes of the snapshots and telemetry samples   *)
(* of the feed: which it takes and which it drops, the events it enters     *)
(* into its timeline, and the time of capture the "Picture Age" is computed *)
(* from.  The two kinds of datagram are numbered by different clocks, come  *)
(* independently, late, twice, out of order or not at all, and from a       *)
(* server that resets its run or is started anew.                           *)
(*                                                                          *)
(* Abstractions.  A snapshot or sample is known by its place in sent.  The  *)
(* type and summary of an event are its text; the display is told tick and  *)
(* text, and the server and stamp of an entry say where it comes from.      *)
(* Wall time is the number of pictures recorded by all servers.  The        *)
(* telemetry of a picture is built once: a re-registration that rewinds     *)
(* behind pictures already sent is left out.  No datagram of a stopped      *)
(* server is under way any more when its successor sends the first of its   *)
(* own.  The lines the display adds itself, on answers, setup and rejoining,*)
(* are left out.                                                            *)
(*                                                                          *)
(* Source: clients/tactical-viewer-gui/src/app_{snapshot,net,support}.cpp,  *)
(* common/src/{simulation_state,transport_common}.cpp                       *)
(****************************************************************************)
EXTENDS Integers, Sequences

CONSTANTS
    TimelineLength,   \* the entries the timeline holds, 64 in the display
    EventTexts,       \* the types and summaries of events
    MaxSent, MaxEvents, MaxResets, MaxRestarts   \* bounds on the servers' steps

ASSUME FeedBounded ==
    TimelineLength \in Nat \ {0} /\ {MaxSent, MaxEvents, MaxResets, MaxRestarts} \subseteq Nat

Event == [server : Nat, tick : Nat, stamp : Nat, text : EventTexts]

\* What one datagram pair carries; events is empty for event_type "none".
Picture == [server : Nat, sequence : Nat, tick : Nat, stamp : Nat, wall : Nat,
            events : Seq(Event)]

VARIABLES
    number,    \* the running server, by the order they were started in
    tick,      \* tick_
    clock,     \* clock_ms_, in intervals since its base
    sequence,  \* sequence_
    events,    \* events_
    resets,    \* resets so far
    sent,      \* every picture sent, by all servers
    shown,     \* the index of the snapshot shown, 0 before one
    sample,    \* the index of the telemetry sample shown, 0 before one
    lastEvent, \* last_server_event_tick, _type and _summary, empty before an event
    timeline,  \* recent_server_events, newest first
    wall       \* last_snapshot_wall_time_ms

serverVars == <<number, tick, clock, sequence, events, resets, sent>>
displayVars == <<shown, sample, lastEvent, timeline, wall>>
feedVars == <<serverVars, displayVars>>

FeedInit ==
    /\ number = 0 /\ tick = 0 /\ clock = 0 /\ sequence = 0 /\ events = <<>>
    /\ resets = 0 /\ sent = <<>>
    /\ shown = 0 /\ sample = 0 /\ lastEvent = <<>> /\ timeline = <<>> /\ wall = 0

--------------------------------------------------------------------------------
(****************************************************************************)
(* The server                                                               *)
(****************************************************************************)

\* latest_event_at_or_before_tick, as a sequence of at most one event: the search
\* starts at the end of the log.
LatestEventAtOrBeforeTick(log, t) ==
    LET upTo == {i \in DOMAIN log : log[i].tick <= t}
    IN  IF upTo = {} THEN <<>> ELSE <<log[CHOOSE i \in upTo : \A j \in upTo : j <= i]>>

\* record_snapshot at stamp c of tick t with the events log, and its datagrams.
Record(t, c, log) ==
    /\ Len(sent) < MaxSent
    /\ sequence' = sequence + 1
    /\ sent' = Append(sent, [server |-> number, sequence |-> sequence', tick |-> t, stamp |-> c,
                             wall |-> Len(sent) + 1,
                             events |-> LatestEventAtOrBeforeTick(log, t)])

Noted(t, c, text) ==
    Append(events, [server |-> number, tick |-> t, stamp |-> c, text |-> text])

\* A tick, with or without an event before its picture.
FeedTick ==
    /\ tick' = tick + 1
    /\ \/ events' = events /\ clock' = clock + 1
       \/ /\ Len(events) < MaxEvents /\ clock' = clock + 2
          /\ \E text \in EventTexts : events' = Noted(tick', clock + 1, text)
    /\ Record(tick', clock', events')
    /\ UNCHANGED <<number, resets, displayVars>>

\* A client joins or leaves, or an order is refused: no picture.
Happening ==
    /\ Len(events) < MaxEvents
    /\ \E text \in EventTexts : events' = Noted(tick, clock + 1, text)
    /\ clock' = clock + 1
    /\ UNCHANGED <<number, tick, sequence, resets, sent, displayVars>>

\* The run starts over at tick zero without events; clock and sequence go on.
\* A display that commanded the reset forgets its timeline with the answer.
RunStartsOver ==
    /\ resets < MaxResets /\ resets' = resets + 1
    /\ tick' = 0 /\ events' = <<>> /\ clock' = clock + 1
    /\ Record(0, clock', <<>>)
    /\ \/ UNCHANGED <<lastEvent, timeline>>
       \/ lastEvent' = <<>> /\ timeline' = <<>>
    /\ UNCHANGED <<number, shown, sample, wall>>

Restart ==
    /\ number < MaxRestarts /\ number' = number + 1
    /\ tick' = 0 /\ clock' = 0 /\ sequence' = 0 /\ events' = <<>>
    /\ UNCHANGED <<resets, sent, displayVars>>

--------------------------------------------------------------------------------
(****************************************************************************)
(* The display                                                              *)
(****************************************************************************)

\* apply_snapshot's test.
TakesSnapshot(p) == shown = 0 \/ p.sequence > sent[shown].sequence

\* receive_datagrams: the time of capture is taken from every snapshot.
ReceiveSnapshot(i) ==
    /\ shown' = IF TakesSnapshot(sent[i]) THEN i ELSE shown
    /\ wall' = sent[i].wall
    /\ UNCHANGED <<serverVars, sample, lastEvent, timeline>>

\* Mutant: samples are ordered by the tick of the run.
TakesTelemetryByTick(p) == sample = 0 \/ p.tick >= sent[sample].tick

EventTick(p) == IF p.events = <<>> THEN 0 ELSE p.events[1].tick

LastEventTick == IF lastEvent = <<>> THEN 0 ELSE lastEvent[1].tick

\* apply_telemetry's tests.
TakesTelemetry(p) ==
    \/ sample = 0
    \/ p.stamp > sent[sample].stamp
    \/ p.stamp = sent[sample].stamp /\ EventTick(p) >= LastEventTick

\* What the display can tell of two events.
SameToDisplay(d, e) == d.tick = e.tick /\ d.text = e.text

\* A sample tells an event other than the last one told.
TellsNews(p) ==
    p.events # <<>> /\ (lastEvent # <<>> => ~SameToDisplay(p.events[1], lastEvent[1]))

\* push_timeline_entry; its own test for the same message finds nothing that
\* TellsNews has not.
Entered(e) ==
    LET longer == <<e>> \o timeline
    IN  SubSeq(longer, 1, IF Len(longer) > TimelineLength THEN TimelineLength ELSE Len(longer))

ReceiveTelemetry(i) ==
    /\ IF TakesTelemetry(sent[i])
       THEN /\ sample' = i
            /\ lastEvent' = IF TellsNews(sent[i]) THEN sent[i].events ELSE lastEvent
            /\ timeline' = IF TellsNews(sent[i]) THEN Entered(sent[i].events[1]) ELSE timeline
       ELSE UNCHANGED <<sample, lastEvent, timeline>>
    /\ wall' = sent[i].wall
    /\ UNCHANGED <<serverVars, shown>>

UnderWay == {i \in DOMAIN sent : sent[i].server = sent[Len(sent)].server}

FeedNext ==
    \/ FeedTick \/ Happening \/ RunStartsOver \/ Restart
    \/ \E i \in UnderWay : ReceiveSnapshot(i) \/ ReceiveTelemetry(i)

FeedSpec == FeedInit /\ [][FeedNext]_feedVars
--------------------------------------------------------------------------------

\* Every variable has its type.
FeedTypeOK ==
    /\ {number, tick, clock, sequence, resets, wall} \subseteq Nat
    /\ events \in Seq(Event) /\ sent \in Seq(Picture)
    /\ lastEvent \in Seq(Event) /\ timeline \in Seq(Event)
    /\ {shown, sample} \subseteq {0} \cup DOMAIN sent

\* The timeline tells the events of a server newest first and each once, whatever
\* came late, twice or out of order and across resets.
TimelineInOrder ==
    \A i, j \in DOMAIN timeline :
        i < j /\ timeline[i].server = timeline[j].server => timeline[j].stamp < timeline[i].stamp

\* It tells nothing that did not come with a picture sent up to the sample shown,
\* and no more than it has room for.
TimelineTold ==
    /\ Len(timeline) <= TimelineLength
    /\ \A n \in DOMAIN timeline : \E k \in DOMAIN sent :
          k <= sample /\ sent[k].events # <<>> /\ sent[k].events[1] = timeline[n]

\* The two orders the display goes by, sequence and stamp, agree with the order
\* of recording, so that of one server's pictures the newest heard is the one
\* shown: a datagram is dropped only if a later one was taken.
DroppedOnlyIfOutdated ==
    \A i \in DOMAIN sent :
        /\ shown # 0 /\ sent[shown].server = sent[i].server /\ ~TakesSnapshot(sent[i]) => i <= shown
        /\ sample # 0 /\ sent[sample].server = sent[i].server /\ ~TakesTelemetry(sent[i]) => i <= sample

\* Neither picture nor timeline goes back or misses something newer, although
\* each is ordered by a rule of its own.
FeedSound == FeedTypeOK /\ TimelineInOrder /\ TimelineTold /\ DroppedOnlyIfOutdated
================================================================================
