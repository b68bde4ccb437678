------------------------- MODULE TacticalDisplayProofs -------------------------
(****************************************************************************)
(* The tactical display against the authority, for every script, every set  *)
(* of conditions and every timeout: what it shows is genuine, its buttons   *)
(* tell the truth, what it shows ahead of a snapshot comes true, no late    *)
(* picture takes it back to an older run, a script alone at the controls    *)
(* waits for its verdicts, and the display's registration is kept.          *)
(* Convergence and the script's completion are liveness and stay with TLC.  *)
(****************************************************************************)
EXTENDS TacticalDisplay, DisplayLink, SessionProofs, SequenceTheorems

--------------------------------------------------------------------------------
(****************************************************************************)
(* What the server does to the session                                      *)
(****************************************************************************)

\* The commands a label stands for.
CommandLabels == {"Start", "Acquire Track", "Drop Track", "Ready", "Engage", "Reset"}

\* What is known of a session between two steps: the mission's facts, and a
\* latest snapshot that shows it.
Kept(s) == s \in Session /\ MissionFacts(s) /\ Drawn(s)

\* The next state of a session, or the same.
Follows(s, t) == Kept(t) /\ t.sequence >= s.sequence

\* The fire control console is connected.
ConsoleThere(s) == s.connection["FireControlConsole"] # "Disconnected"

\* A session follows the one it was before a client joined or left.
LEMMA ClientsFollow ==
    ASSUME NEW s, Kept(s), NEW role \in ClientRole
    PROVE  Follows(s, ConnectClient(s, role)) /\ Follows(s, DisconnectClient(s, role))
<1>1. /\ ConnectClient(s, role) \in Session /\ DisconnectClient(s, role) \in Session
      /\ MissionFacts(ConnectClient(s, role)) /\ MissionFacts(DisconnectClient(s, role))
  BY ClientOperationsType, ClientsSame, SameRecordFacts DEF Kept
<1>2. /\ Drawn(ConnectClient(s, role)) /\ NumbersRise(s, ConnectClient(s, role))
      /\ Drawn(DisconnectClient(s, role)) /\ NumbersRise(s, DisconnectClient(s, role))
  BY <1>1, ClientsPicture, PictureStep DEF Kept
<1>3. QED
  BY <1>1, <1>2 DEF Follows, Kept, NumbersRise

\* A session follows the one it was before a tick.
LEMMA TickFollows ==
    ASSUME NEW s, Kept(s), NEW hit \in BOOLEAN
    PROVE  Follows(s, AdvanceTick(s, hit, TRUE))
<1>1. AdvanceTick(s, hit, TRUE) \in Session /\ MissionFacts(AdvanceTick(s, hit, TRUE))
  BY AdvanceTickType, AdvanceTickFacts DEF Kept
<1>2. s.phase = "Standby" => ~s.track.active
  BY DEF Kept, MissionFacts, PhaseFacts
<1>3. Drawn(AdvanceTick(s, hit, TRUE)) /\ NumbersRise(s, AdvanceTick(s, hit, TRUE))
  BY <1>1, <1>2, AdvanceTickPicture, PictureStep DEF Kept
<1>4. QED
  BY <1>1, <1>3 DEF Follows, Kept, NumbersRise

\* configure_scenario and start_scenario as the transport calls them.
LEMMA StartFollows ==
    ASSUME NEW s, Kept(s), s.phase = "Standby"
    PROVE  Follows(s, StartScenario(ConfigureScenario(s, s.timeoutTicks)))
<1> DEFINE c == ConfigureScenario(s, s.timeoutTicks)
<1>1. s.timeoutTicks \in EngagementTimeouts
  BY DEF Kept, Session
<1>2. c \in Session /\ MissionFacts(c) /\ SamePicture(s, c)
  BY <1>1, ConfigureScenarioType, ConfigureScenarioFacts, ConfigureScenarioPicture DEF Kept
<1> HIDE DEF c
<1>3. Drawn(c)
  BY <1>2, PictureStep DEF Kept
<1>4. StartScenario(c) \in Session /\ MissionFacts(StartScenario(c))
  BY <1>2, StartScenarioType, StartScenarioFacts
<1>5. Drawn(StartScenario(c)) /\ NumbersRise(c, StartScenario(c))
  BY <1>2, <1>3, <1>4, StartScenarioPicture, PictureStep
<1>6. c.sequence = s.sequence
  BY <1>2 DEF SamePicture
<1>7. Follows(s, StartScenario(c))
  BY <1>4, <1>5, <1>6 DEF Follows, Kept, NumbersRise
<1>8. QED
  BY <1>7 DEF c

\* A session follows the one it was before a command, carried out or refused.
LEMMA CommandsFollow ==
    ASSUME NEW s, Kept(s), NEW asked \in CommandLabels
    PROVE  Follows(s, Handled(asked, s))
<1>1. ASSUME NEW t \in Session, MissionFacts(t), SamePicture(s, t) \/ Published(s, t)
      PROVE  Follows(s, t)
  BY <1>1, PictureStep DEF Kept, Follows, NumbersRise
<1>2. CASE asked = "Start" /\ s.phase # "Standby"
  <2>1. /\ RecordTransportRejection(s) \in Session
        /\ SameRecord(s, RecordTransportRejection(s))
    BY PushEventType, PushEventSame DEF Kept, RecordTransportRejection, EventType
  <2>2. MissionFacts(RecordTransportRejection(s))
    BY <2>1, SameRecordFacts DEF Kept
  <2>3. Follows(s, RecordTransportRejection(s))
    BY <1>1, <2>1, <2>2, RejectionsPicture DEF Kept
  <2>4. QED
    BY <1>2, <2>3 DEF Handled
<1>3. CASE asked = "Start" /\ s.phase = "Standby"
  BY <1>3, StartFollows DEF Handled, Outcome
<1>4. CASE asked = "Acquire Track"
  <2>1. Follows(s, RequestTrack(s))
    BY <1>1, TrackCommandsType, TrackCommandsFacts, TrackCommandsPicture DEF Kept
  <2>2. QED
    BY <1>4, <2>1 DEF Handled, Outcome
<1>5. CASE asked = "Drop Track"
  <2>1. Follows(s, ReleaseTrack(s))
    BY <1>1, TrackCommandsType, TrackCommandsFacts, TrackCommandsPicture DEF Kept
  <2>2. QED
    BY <1>5, <2>1 DEF Handled, Outcome
<1>6. CASE asked = "Ready"
  <2>1. Follows(s, ActivateAsset(s))
    BY <1>1, ActivateAssetType, ActivateAssetFacts, CommandsPicture DEF Kept
  <2>2. QED
    BY <1>6, <2>1 DEF Handled, Outcome
<1>7. CASE asked = "Engage"
  <2>1. Follows(s, IssueCommand(s))
    BY <1>1, IssueCommandType, IssueCommandFacts, CommandsPicture DEF Kept
  <2>2. QED
    BY <1>7, <2>1 DEF Handled, Outcome
<1>8. CASE asked = "Reset"
  <2>1. Follows(s, ResetSession(s))
    BY <1>1, ResetSessionType, ResetSessionFacts, ResetSessionPicture DEF Kept
  <2>2. QED
    BY <1>8, <2>1 DEF Handled, Outcome
<1>9. QED
  BY <1>2, <1>3, <1>4, <1>5, <1>6, <1>7, <1>8 DEF CommandLabels

\* No command ends the console's connection, and no tick does.
LEMMA StaysThere ==
    ASSUME NEW s, Kept(s), ConsoleThere(s)
    PROVE  /\ \A asked \in CommandLabels : ConsoleThere(Handled(asked, s))
           /\ \A hit \in BOOLEAN : ConsoleThere(AdvanceTick(s, hit, TRUE))
<1>1. "FireControlConsole" \in ClientRole /\ s \in Session
  BY DEF ClientRole, Kept
<1>2. ASSUME NEW t, Steady(s, t)
      PROVE  ConsoleThere(t)
  BY <1>1, <1>2 DEF Steady, SamePresence, ConsoleThere
<1>3. \A hit \in BOOLEAN : ConsoleThere(AdvanceTick(s, hit, TRUE))
  BY <1>1, <1>2, AdvanceTickSteady
<1>4. ConsoleThere(StartScenario(ConfigureScenario(s, s.timeoutTicks)))
  <2> DEFINE c == ConfigureScenario(s, s.timeoutTicks)
  <2>1. s.timeoutTicks \in EngagementTimeouts
    BY <1>1 DEF Session
  <2>2. c \in Session /\ Steady(s, c)
    BY <1>1, <2>1, ConfigureScenarioType, ConfigureScenarioSteady
  <2> HIDE DEF c
  <2>3. StartScenario(c) \in Session /\ Steady(c, StartScenario(c))
    BY <2>2, StartScenarioType, StartScenarioSteady
  <2>4. Steady(s, StartScenario(c))
    BY <1>1, <2>2, <2>3, SteadyTransitive
  <2>5. QED
    BY <1>2, <2>4 DEF c
<1>5. ConsoleThere(RecordTransportRejection(s))
  BY <1>1, <1>2, RejectionsSteady
<1>6. ConsoleThere(RequestTrack(s)) /\ ConsoleThere(ReleaseTrack(s))
  BY <1>1, <1>2, TrackCommandsSteady
<1>7. ConsoleThere(ActivateAsset(s)) /\ ConsoleThere(IssueCommand(s))
  BY <1>1, <1>2, CommandsSteady
<1>8. ConsoleThere(ResetSession(s))
  BY <1>1, ResetSessionPresence DEF SamePresence, ConsoleThere
<1>9. \A asked \in CommandLabels : ConsoleThere(Handled(asked, s))
  BY <1>4, <1>5, <1>6, <1>7, <1>8 DEF CommandLabels, Handled, Outcome
<1>10. QED
  BY <1>3, <1>9

\* The display's link joins a console that is not there yet; nothing else changes.
LEMMA JoinedFollows ==
    ASSUME Kept(session), holder = "Viewer" => ConsoleThere(session)
    PROVE  Follows(session, Joined) /\ ConsoleThere(Joined) /\ SameMission(session, Joined)
<1>1. CASE holder = "Viewer"
  <2>1. session.sequence >= session.sequence
    BY DEF Kept, Session
  <2>2. QED
    BY <1>1, <2>1 DEF Joined, Follows, SameMission
<1>2. CASE holder # "Viewer"
  <2>1. "FireControlConsole" \in ClientRole
    BY DEF ClientRole
  <2>2. Joined = ConnectClient(session, "FireControlConsole")
    BY <1>2 DEF Joined
  <2>3. Follows(session, Joined)
    BY <2>1, <2>2, ClientsFollow
  <2>4. SameMission(session, Joined)
    BY <2>1, <2>2, ClientsSame DEF Kept, SameRecord
  <2>5. (Joined.connection["FireControlConsole"] \in Present) = TRUE
    BY <2>1, <2>2, ClientsArrive DEF Arrives, Kept
  <2>6. ConsoleThere(Joined)
    BY <2>5 DEF Present, ConsoleThere
  <2>7. QED
    BY <2>3, <2>4, <2>6
<1>3. QED
  BY <1>1, <1>2

--------------------------------------------------------------------------------
(****************************************************************************)
(* The pictures the servers have sent                                       *)
(****************************************************************************)

Pictures == {published[i] : i \in DOMAIN published}

\* A server numbers its pictures upwards, across resets, and the running one has
\* sent none beyond its session; a picture in standby shows no track.
Numbered ==
    /\ \A p \in Pictures : p.server <= server
    /\ \A p \in Pictures : p.server = server => p.sequence <= session.sequence /\ p.run <= run
    /\ \A p, q \in Pictures : p.server = q.server /\ p.sequence <= q.sequence => p.run <= q.run
    /\ \A p \in Pictures : p.phase = "Standby" => ~p.tracked

\* The pictures are typed, and those of a longer list are those of the list and
\* the last.
LEMMA PicturesTyped ==
    ASSUME published \in Seq(Picture)
    PROVE  Pictures \subseteq Picture
BY DEF Pictures

\* A publication adds its picture to those sent and takes none away.
LEMMA PicturesGrow ==
    ASSUME published \in Seq(Picture), NEW p \in Picture, published' = Append(published, p)
    PROVE  /\ published' \in Seq(Picture)
           /\ Pictures' \subseteq Pictures \cup {p} /\ Pictures \subseteq Pictures'
<1>1. PICK q \in Seq(Picture) : q = published
  OBVIOUS
<1>2. /\ Append(q, p) \in Seq(Picture) /\ Len(Append(q, p)) = Len(q) + 1
      /\ \A i \in 1 .. Len(q) : Append(q, p)[i] = q[i]
      /\ Append(q, p)[Len(q) + 1] = p
  BY AppendProperties
<1>3. Len(q) \in Nat /\ DOMAIN q = 1 .. Len(q) /\ DOMAIN Append(q, p) = 1 .. Len(q) + 1
  BY <1>2, LenProperties
<1>4. \A n \in Nat : 1 .. n \subseteq 1 .. n + 1 /\ 1 .. n + 1 \subseteq 1 .. n \cup {n + 1}
  OBVIOUS
<1>5. 1 .. Len(q) \subseteq 1 .. Len(q) + 1
      /\ 1 .. Len(q) + 1 \subseteq 1 .. Len(q) \cup {Len(q) + 1}
  BY <1>3, <1>4
<1>6. published = q /\ published' = Append(q, p)
  BY <1>1
<1>7. Pictures' = {Append(q, p)[i] : i \in 1 .. Len(q) + 1} /\ Pictures = {q[i] : i \in 1 .. Len(q)}
  BY <1>3, <1>6 DEF Pictures
<1>8. Pictures' \subseteq Pictures \cup {p}
  BY <1>2, <1>5, <1>7
<1>9. Pictures \subseteq Pictures'
  BY <1>2, <1>5, <1>7
<1>10. QED
  BY <1>2, <1>6, <1>8, <1>9

\* What the server sends is a picture of its session.
LEMMA PictureOfTyped ==
    ASSUME NEW s, Kept(s), NEW r \in Nat, server \in Nat
    PROVE  /\ PictureOf(s, r) \in Picture
           /\ PictureOf(s, r).server = server /\ PictureOf(s, r).run = r
           /\ PictureOf(s, r).sequence = s.sequence
           /\ PictureOf(s, r).phase = "Standby" => ~PictureOf(s, r).tracked
<1>1. /\ s.latest \in Snapshot /\ s.targetActive \in BOOLEAN /\ s.assetActive \in BOOLEAN
      /\ s.latest.sequence = s.sequence /\ s.latest.phase = s.phase /\ s.latest.track = s.track
  BY DEF Kept, Session, Drawn, PictureFacts
<1>2. s.latest.track.active \in BOOLEAN
  BY <1>1 DEF Snapshot, TrackState
<1>3. PictureOf(s, r) \in Picture
  BY <1>1, <1>2 DEF PictureOf, Picture, Snapshot
<1>4. s.phase = "Standby" => ~s.track.active
  BY DEF Kept, MissionFacts, PhaseFacts
<1>5. QED
  BY <1>1, <1>3, <1>4 DEF PictureOf

\* The session goes on, in its run or a newer one, and a new snapshot is sent.
LEMMA BecomesNumbered ==
    ASSUME published \in Seq(Picture), Numbered, Kept(session), server \in Nat, run \in Nat,
           NEW s, Follows(session, s), NEW r \in Nat, r >= run, Becomes(s, r)
    PROVE  /\ published' \in Seq(Picture) /\ Numbered' /\ Pictures \subseteq Pictures'
           /\ Kept(session') /\ session' = s /\ run' \in Nat /\ server' \in Nat
<1>1. session' = s /\ run' = r /\ server' = server /\ Kept(s)
  BY DEF Becomes, Follows
<1>2. s.sequence \in Nat /\ session.sequence \in Nat /\ s.sequence >= session.sequence
  BY DEF Follows, Kept, Session
<1>3. \A p \in Pictures : p.sequence \in Nat /\ p.run \in Nat /\ p.server \in Nat
  BY PicturesTyped DEF Picture
<1>4. CASE s.sequence = session.sequence
  <2>1. published' = published
    BY <1>4 DEF Becomes
  <2>2. Pictures' = Pictures
    BY <2>1 DEF Pictures
  <2>3. \A p \in Pictures : p.server = server => p.sequence <= s.sequence /\ p.run <= r
    BY <1>2, <1>3, <1>4 DEF Numbered
  <2>4. Numbered'
    BY <1>1, <2>2, <2>3 DEF Numbered
  <2>5. QED
    BY <1>1, <2>1, <2>2, <2>4
<1>5. CASE s.sequence # session.sequence
  <2> DEFINE n == PictureOf(s, r)
  <2>1. published' = Append(published, n)
    BY <1>5 DEF Becomes
  <2>2. /\ n \in Picture /\ n.server = server /\ n.run = r /\ n.sequence = s.sequence
        /\ n.phase = "Standby" => ~n.tracked
    BY <1>1, PictureOfTyped
  <2> HIDE DEF n
  <2>3. /\ published' \in Seq(Picture)
        /\ Pictures' \subseteq Pictures \cup {n} /\ Pictures \subseteq Pictures'
    BY <2>1, <2>2, PicturesGrow
  <2>4. \A p \in Pictures : p.server = server => p.sequence < n.sequence /\ p.run <= n.run
    BY <1>2, <1>3, <1>5, <2>2 DEF Numbered
  <2>5. \A p \in Pictures' : p.server <= server
    BY <2>2, <2>3 DEF Numbered
  <2>6. \A p \in Pictures' : p.server = server => p.sequence <= s.sequence /\ p.run <= r
    <3>1. n.sequence <= s.sequence /\ n.run <= r
      BY <1>2, <2>2
    <3>2. \A p \in Pictures : p.server = server => p.sequence <= s.sequence /\ p.run <= r
      BY <1>2, <1>3, <2>2, <2>4
    <3>3. QED
      BY <2>3, <3>1, <3>2
  <2>7. \A p, q \in Pictures' : p.server = q.server /\ p.sequence <= q.sequence => p.run <= q.run
    <3>1. ASSUME NEW p \in Pictures, n.server = p.server, n.sequence <= p.sequence
          PROVE  FALSE
      <4>1. p.sequence < n.sequence /\ p.sequence \in Nat /\ n.sequence \in Nat
        BY <1>2, <1>3, <2>2, <2>4, <3>1
      <4>2. QED
        BY <3>1, <4>1
    <3>2. n.run <= n.run
      BY <2>2
    <3>3. \A p \in Pictures : p.server = n.server => p.run <= n.run
      BY <2>2, <2>4
    <3>4. QED
      BY <2>3, <3>1, <3>2, <3>3 DEF Numbered
  <2>8. \A p \in Pictures' : p.phase = "Standby" => ~p.tracked
    BY <2>2, <2>3 DEF Numbered
  <2>9. Numbered'
    BY <1>1, <2>5, <2>6, <2>7, <2>8 DEF Numbered
  <2>10. QED
    BY <1>1, <2>3, <2>9
<1>6. QED
  BY <1>4, <1>5

--------------------------------------------------------------------------------
(****************************************************************************)
(* What the display does to its picture                                     *)
(****************************************************************************)

SameStamp(p, q) == p.server = q.server /\ p.run = q.run /\ p.sequence = q.sequence

\* apply_snapshot takes the picture whole or leaves everything as it is.
LEMMA ApplySnapshotEffect ==
    ASSUME NEW v \in Viewer, NEW p \in Picture
    PROVE  LET w == ApplySnapshot(v, p)
           IN  /\ w \in Viewer
               /\ \/ w = v
                  \/ /\ w.received /\ w.shown = p
                     /\ w.aar.visible => AarAvailable(p)
                     /\ v.received => ~(p.sequence <= v.shown.sequence)
<1> DEFINE effective == CASE p.phase = "Standby" -> FALSE
                          [] p.phase \in {"Detecting", "Tracking", "InterceptorReady"} -> p.tracked
                          [] OTHER -> v.effective
           aar == IF AarAvailable(p) THEN [v.aar EXCEPT !.available = TRUE] ELSE NoReview
           w == Shown(v, p)
<1>1. effective \in BOOLEAN
  BY DEF Viewer, Picture
<1>2. aar \in Review /\ (aar.visible => AarAvailable(p))
  BY DEF Viewer, Review, NoReview
<1>3. w = [v EXCEPT !.received = TRUE, !.shown = p, !.effective = effective, !.aar = aar]
  BY DEF Shown
<1> HIDE DEF effective, aar, w
<1>4. w \in Viewer /\ w.received /\ w.shown = p /\ w.aar = aar
  BY <1>1, <1>2, <1>3 DEF Viewer
<1>5. ApplySnapshot(v, p) = IF v.received /\ p.sequence <= v.shown.sequence THEN v ELSE w
  BY DEF ApplySnapshot, w
<1>6. CASE v.received /\ p.sequence <= v.shown.sequence
  BY <1>5, <1>6
<1>7. CASE ~(v.received /\ p.sequence <= v.shown.sequence)
  <2>1. ApplySnapshot(v, p) = w
    BY <1>5, <1>7
  <2>2. QED
    BY <1>2, <1>4, <1>7, <2>1
<1>8. QED
  BY <1>6, <1>7

\* What is shown ahead is a picture with the stamp of the one before.
LEMMA AnticipatedType ==
    ASSUME NEW shown \in Picture, NEW asked \in CommandLabels
    PROVE  Anticipated(shown, asked) \in Picture /\ SameStamp(shown, Anticipated(shown, asked))
<1> DEFINE phase == AnticipatedPhase(shown.phase, asked)
           next == [shown EXCEPT !.phase = phase]
<1>1. phase \in SessionPhase
  BY DEF Picture, AnticipatedPhase, SessionPhase
<1> HIDE DEF phase
<1>2. next \in Picture /\ SameStamp(shown, next)
  BY <1>1 DEF Picture, SameStamp
<1>3. /\ "Idle" \in InterceptorStatus /\ "Ready" \in InterceptorStatus
      /\ "None" \in EngageOrderStatus /\ "Accepted" \in EngageOrderStatus
      /\ "Pending" \in AssessmentCode
  BY DEF InterceptorStatus, EngageOrderStatus, AssessmentCode
<1> DEFINE start == [next EXCEPT !.target = TRUE, !.order = "None",
                                 !.interceptor = "Idle", !.tracked = FALSE]
           ready == [next EXCEPT !.asset = TRUE, !.interceptor = "Ready"]
           acquired == [next EXCEPT !.tracked = TRUE]
           dropped == [next EXCEPT !.tracked = FALSE]
           ordered == [next EXCEPT !.order = "Accepted", !.interceptor = "Ready"]
           reset == [next EXCEPT !.target = FALSE, !.asset = FALSE, !.tracked = FALSE,
                                 !.order = "None", !.interceptor = "Idle",
                                 !.ready = FALSE, !.code = "Pending"]
<1>4. Anticipated(shown, asked) =
         CASE asked = "Start" -> start [] asked = "Ready" -> ready
           [] asked = "Acquire Track" -> acquired [] asked = "Drop Track" -> dropped
           [] asked = "Engage" -> ordered [] asked = "Reset" -> reset
  BY DEF Anticipated, phase
<1>5. Anticipated(shown, asked) \in {start, ready, acquired, dropped, ordered, reset}
  BY <1>4 DEF CommandLabels
<1> HIDE DEF next
<1>6. \A p \in {start, ready, acquired, dropped, ordered, reset} :
         p \in Picture /\ SameStamp(next, p)
  <2>1. start \in Picture /\ SameStamp(next, start)
    BY <1>2, <1>3 DEF Picture, SameStamp
  <2>2. ready \in Picture /\ SameStamp(next, ready)
    BY <1>2, <1>3 DEF Picture, SameStamp
  <2>3. acquired \in Picture /\ SameStamp(next, acquired)
    BY <1>2 DEF Picture, SameStamp
  <2>4. dropped \in Picture /\ SameStamp(next, dropped)
    BY <1>2 DEF Picture, SameStamp
  <2>5. ordered \in Picture /\ SameStamp(next, ordered)
    BY <1>2, <1>3 DEF Picture, SameStamp
  <2>6. reset \in Picture /\ SameStamp(next, reset)
    BY <1>2, <1>3 DEF Picture, SameStamp
  <2>7. QED
    BY <2>1, <2>2, <2>3, <2>4, <2>5, <2>6
<1>7. QED
  BY <1>2, <1>5, <1>6 DEF SameStamp

\* An answer: nothing is shown of a refusal, and what is shown of an acceptance
\* hides the review.
LEMMA AcknowledgedEffect ==
    ASSUME NEW v \in Viewer, NEW asked \in CommandLabels, NEW accepted \in BOOLEAN
    PROVE  LET w == Acknowledged(v, asked, accepted)
           IN  /\ w \in Viewer /\ w.received = v.received /\ w.ok = accepted
               /\ w.shown = IF accepted THEN Anticipated(v.shown, asked) ELSE v.shown
               /\ w.aar = ReviewAfter(v.aar, asked, accepted)
               /\ w.aar.visible => v.aar.visible /\ ~accepted
<1> DEFINE shown == IF accepted THEN Anticipated(v.shown, asked) ELSE v.shown
           effective == CASE accepted /\ asked = "Acquire Track" -> TRUE
                          [] accepted /\ asked \in {"Start", "Drop Track", "Reset"} -> FALSE
                          [] OTHER -> v.effective
           aar == ReviewAfter(v.aar, asked, accepted)
<1>1. shown \in Picture
  BY AnticipatedType DEF Viewer
<1>2. effective \in BOOLEAN
  BY DEF Viewer
<1>3. aar \in Review /\ (aar.visible => v.aar.visible /\ ~accepted)
  BY DEF Viewer, Review, ReviewAfter, NoReview
<1>4. asked \in ControlLabels
  BY DEF CommandLabels, ControlLabels, LiveActions
<1> DEFINE w == [v EXCEPT !.connected = TRUE, !.ok = accepted, !.label = asked,
                          !.shown = shown, !.effective = effective, !.aar = aar]
<1>5. Acknowledged(v, asked, accepted) = w
  BY DEF Acknowledged
<1> HIDE DEF shown, effective, aar
<1>6. w \in Viewer /\ w.received = v.received /\ w.ok = accepted /\ w.shown = shown /\ w.aar = aar
  BY <1>1, <1>2, <1>3, <1>4 DEF Viewer
<1> HIDE DEF w
<1>7. QED
  BY <1>3, <1>5, <1>6 DEF shown, aar

\* The review asked for, refused or loaded, leaves the picture alone.
LEMMA ReviewEffect ==
    ASSUME NEW v \in Viewer
    PROVE  /\ ReviewRefused(v) \in Viewer /\ ReviewLoaded(v) \in Viewer
           /\ ReviewRefused(v).received = v.received /\ ReviewLoaded(v).received = v.received
           /\ ReviewRefused(v).shown = v.shown /\ ReviewLoaded(v).shown = v.shown
           /\ ReviewRefused(v).aar = v.aar /\ ~ReviewRefused(v).ok
           /\ ReviewLoaded(v).ok /\ ReviewLoaded(v).aar.loaded
<1>1. "Review" \in ControlLabels
  BY DEF ControlLabels
<1>2. [available |-> TRUE, loaded |-> TRUE, visible |-> TRUE] \in Review
  BY DEF Review
<1>3. QED
  BY <1>1, <1>2 DEF ReviewRefused, ReviewLoaded, Viewer

\* The setup hides the review and takes a track from the preview in standby.
LEMMA SetupEffect ==
    ASSUME NEW v \in Viewer
    PROVE  LET w == SetupChanged(v)
           IN  /\ w \in Viewer /\ w.received = v.received /\ ~w.aar.visible
               /\ SameStamp(v.shown, w.shown)
               /\ \/ w.shown = v.shown
                  \/ ~v.received \/ (v.shown.phase = "Standby" /\ v.shown.tracked)
<1> DEFINE tracked == IF ~v.received \/ v.shown.phase = "Standby" THEN FALSE ELSE v.shown.tracked
           shown == [v.shown EXCEPT !.tracked = tracked]
           aar == [v.aar EXCEPT !.visible = FALSE]
           w == [v EXCEPT !.ok = TRUE, !.label = "Setup", !.aar = aar, !.shown = shown]
<1>1. v.shown \in Picture /\ v.aar \in Review /\ v.received \in BOOLEAN
  BY DEF Viewer
<1>2. tracked \in BOOLEAN
  BY <1>1 DEF Picture
<1>3. shown \in Picture /\ SameStamp(v.shown, shown)
  BY <1>1, <1>2 DEF Picture, SameStamp
<1>4. aar \in Review /\ ~aar.visible
  BY <1>1 DEF Review
<1>5. shown = v.shown \/ ~v.received \/ (v.shown.phase = "Standby" /\ v.shown.tracked)
  <2>1. CASE tracked = v.shown.tracked
    BY <1>1, <2>1 DEF Picture
  <2>2. CASE tracked # v.shown.tracked
    BY <1>1, <2>2 DEF Picture
  <2>3. QED
    BY <2>1, <2>2
<1>6. "Setup" \in ControlLabels
  BY DEF ControlLabels
<1>7. SetupChanged(v) = w
  BY <1>1 DEF SetupChanged, Viewer
<1> HIDE DEF tracked, shown, aar
<1>8. w \in Viewer /\ w.received = v.received /\ w.aar = aar /\ w.shown = shown
  BY <1>3, <1>4, <1>6 DEF Viewer
<1> HIDE DEF w
<1>9. QED
  BY <1>3, <1>4, <1>5, <1>7, <1>8

--------------------------------------------------------------------------------
(****************************************************************************)
(* The inductive invariant                                                  *)
(****************************************************************************)

\* The stamp shown is that of a picture that was sent, commands shown ahead or
\* not; the preview's is older than any.
Stamped ==
    IF viewer.received THEN \E p \in Pictures : SameStamp(p, viewer.shown)
    ELSE viewer.shown.run = 0

Genuine == viewer.received /\ ~ahead => viewer.shown \in Pictures

\* The part the server and its link hold, and the part the display holds.
ServerInv ==
    /\ Kept(session) /\ published \in Seq(Picture) /\ Numbered
    /\ server \in Nat /\ run \in Nat
    /\ holder \in {"Nobody", "Viewer", "Console"}
    /\ holder = "Viewer" => ConsoleThere(session)

DisplayInv ==
    /\ viewer \in Viewer /\ ahead \in BOOLEAN
    /\ Stamped /\ Genuine /\ ReviewOfFinishedRun

Counters == running \in BOOLEAN /\ step \in Nat /\ commands \in Nat /\ conditions \in Conditions

VInv == ServerInv /\ DisplayInv /\ Counters

\* What more pictures leave of the display's part.
LEMMA DisplayKept ==
    ASSUME DisplayInv, Pictures \subseteq Pictures', UNCHANGED <<viewer, ahead>>
    PROVE  DisplayInv'
<1>1. Stamped'
  BY DEF DisplayInv, Stamped
<1>2. Genuine'
  BY DEF DisplayInv, Genuine
<1>3. QED
  BY <1>1, <1>2 DEF DisplayInv, ReviewOfFinishedRun

\* A server that comes to a following session keeps its invariant and every picture sent.
LEMMA BecomesServerInv ==
    ASSUME ServerInv, NEW s, Follows(session, s), NEW r \in Nat, r >= run, Becomes(s, r),
           holder' \in {"Nobody", "Viewer", "Console"}, holder' = "Viewer" => ConsoleThere(s)
    PROVE  ServerInv' /\ Pictures \subseteq Pictures'
<1>1. /\ published' \in Seq(Picture) /\ Numbered' /\ Pictures \subseteq Pictures'
      /\ Kept(session') /\ session' = s /\ run' \in Nat /\ server' \in Nat
  BY BecomesNumbered DEF ServerInv
<1>2. QED
  BY <1>1 DEF ServerInv

\* The session a command is handled by follows the one the link was joined to.
LEMMA CommandedFollows ==
    ASSUME ServerInv, NEW asked \in CommandLabels
    PROVE  /\ Follows(session, Joined) /\ ConsoleThere(Joined) /\ SameMission(session, Joined)
           /\ Follows(session, Handled(asked, Joined)) /\ ConsoleThere(Handled(asked, Joined))
<1>1. Follows(session, Joined) /\ ConsoleThere(Joined) /\ SameMission(session, Joined)
  BY JoinedFollows DEF ServerInv
<1>2. Follows(Joined, Handled(asked, Joined)) /\ ConsoleThere(Handled(asked, Joined))
  BY <1>1, CommandsFollow, StaysThere DEF Follows
<1>3. Joined.sequence \in Nat /\ session.sequence \in Nat /\ Handled(asked, Joined).sequence \in Nat
  BY <1>1, <1>2 DEF ServerInv, Follows, Kept, Session
<1>4. QED
  BY <1>1, <1>2, <1>3 DEF Follows

\* Every action but the review asks for one of the commands.
LEMMA LabelsOfActions ==
    ASSUME NEW action \in LiveActions \ {"AAR"}, NEW v
    PROVE  EffectiveLabel(action, v) \in CommandLabels
BY DEF EffectiveLabel, LiveActions, CommandLabels

\* What a press does, in the terms of the lemmas above.
LEMMA PerformCases ==
    ASSUME NEW action \in LiveActions, ahead \in BOOLEAN, Perform(action)
    PROVE  /\ holder' = "Viewer"
           /\ \/ /\ action = "AAR" /\ Becomes(Joined, run) /\ ahead' = ahead
                 /\ \/ ~AarAvailable(viewer.shown) /\ viewer' = ReviewRefused(viewer)
                    \/ AarAvailable(viewer.shown) /\ viewer' = ReviewLoaded(viewer)
              \/ /\ action # "AAR"
                 /\ \E asked \in CommandLabels : \E accepted \in BOOLEAN :
                       /\ asked = EffectiveLabel(action, viewer)
                       /\ accepted <=> Accepts(asked, Joined)
                       /\ Commanded(asked, Joined)
                       /\ viewer' = Acknowledged(viewer, asked, accepted)
                       /\ ahead' \in BOOLEAN /\ (ahead' <=> ahead \/ accepted)
<1>1. CASE action = "AAR"
  BY <1>1 DEF Perform
<1>2. CASE action # "AAR"
  <2> DEFINE asked == EffectiveLabel(action, viewer)
             accepted == Accepts(asked, Joined)
  <2>1. asked \in CommandLabels
    BY <1>2, LabelsOfActions
  <2>2. accepted \in BOOLEAN
    BY DEF Accepts
  <2>3. /\ holder' = "Viewer" /\ Commanded(asked, Joined)
        /\ viewer' = Acknowledged(viewer, asked, accepted)
        /\ ahead' = (ahead \/ accepted)
    BY <1>2 DEF Perform
  <2> HIDE DEF accepted
  <2>4. ahead' \in BOOLEAN /\ (ahead' <=> ahead \/ accepted)
    BY <2>2, <2>3
  <2>5. accepted <=> Accepts(asked, Joined)
    BY DEF accepted
  <2> HIDE DEF asked
  <2>6. asked = EffectiveLabel(action, viewer)
    BY DEF asked
  <2>7. QED
    BY <1>2, <2>1, <2>2, <2>3, <2>4, <2>5, <2>6
<1>3. QED
  BY <1>1, <1>2

\* A press keeps the invariant, whatever is pressed.
LEMMA PerformVInv ==
    ASSUME ServerInv, DisplayInv, NEW action \in LiveActions, Perform(action)
    PROVE  ServerInv' /\ DisplayInv'
<1>1. ahead \in BOOLEAN /\ viewer \in Viewer
  BY DEF DisplayInv
<1>2. run \in Nat /\ run + 1 \in Nat /\ run >= run /\ run + 1 >= run
  BY DEF ServerInv
<1>3. CASE action = "AAR"
  <2>1. /\ holder' = "Viewer" /\ Becomes(Joined, run) /\ ahead' = ahead
        /\ \/ ~AarAvailable(viewer.shown) /\ viewer' = ReviewRefused(viewer)
           \/ AarAvailable(viewer.shown) /\ viewer' = ReviewLoaded(viewer)
    BY <1>1, <1>3, PerformCases
  <2>2. Follows(session, Joined) /\ ConsoleThere(Joined)
    BY JoinedFollows DEF ServerInv
  <2>3. ServerInv' /\ Pictures \subseteq Pictures'
    BY <1>2, <2>1, <2>2, BecomesServerInv
  <2>4. /\ viewer' \in Viewer /\ viewer'.received = viewer.received
        /\ viewer'.shown = viewer.shown
        /\ viewer'.aar = viewer.aar \/ AarAvailable(viewer.shown)
    BY <1>1, <2>1, ReviewEffect
  <2>5. Stamped' /\ Genuine'
    BY <2>1, <2>3, <2>4 DEF DisplayInv, Stamped, Genuine
  <2>6. ReviewOfFinishedRun'
    BY <2>4 DEF DisplayInv, ReviewOfFinishedRun, AarAvailable
  <2>7. QED
    BY <1>1, <2>1, <2>3, <2>4, <2>5, <2>6 DEF DisplayInv
<1>4. CASE action # "AAR"
  <2>1. PICK asked \in CommandLabels, accepted \in BOOLEAN :
           /\ Commanded(asked, Joined)
           /\ viewer' = Acknowledged(viewer, asked, accepted)
           /\ ahead' \in BOOLEAN /\ (ahead' <=> ahead \/ accepted)
    BY <1>1, <1>4, PerformCases
  <2>2. holder' = "Viewer"
    BY DEF Perform
  <2>3. Follows(session, Handled(asked, Joined)) /\ ConsoleThere(Handled(asked, Joined))
    BY CommandedFollows
  <2>4. \E r \in {run, run + 1} : Becomes(Handled(asked, Joined), r)
    BY <2>1 DEF Commanded
  <2>5. ServerInv' /\ Pictures \subseteq Pictures'
    BY <1>2, <2>2, <2>3, <2>4, BecomesServerInv
  <2>6. /\ viewer' \in Viewer /\ viewer'.received = viewer.received
        /\ viewer'.shown = IF accepted THEN Anticipated(viewer.shown, asked) ELSE viewer.shown
        /\ viewer'.aar.visible => viewer.aar.visible /\ ~accepted
    BY <1>1, <2>1, AcknowledgedEffect
  <2>7. SameStamp(viewer.shown, viewer'.shown)
    BY <1>1, <2>6, AnticipatedType DEF Viewer, SameStamp
  <2>8. Stamped'
    BY <2>5, <2>6, <2>7 DEF DisplayInv, Stamped, SameStamp
  <2>9. Genuine'
    BY <2>1, <2>5, <2>6 DEF DisplayInv, Genuine
  <2>10. ReviewOfFinishedRun'
    BY <2>6 DEF DisplayInv, ReviewOfFinishedRun
  <2>11. QED
    BY <2>1, <2>5, <2>6, <2>8, <2>9, <2>10 DEF DisplayInv
<1>5. QED
  BY <1>3, <1>4

\* A picture that is taken is shown whole.
LEMMA ReceiveVInv ==
    ASSUME VInv, NEW i \in DOMAIN published, Receive(i)
    PROVE  ServerInv' /\ DisplayInv' /\ (viewer' # viewer => ~ahead')
<1> DEFINE p == published[i]
<1>1. p \in Pictures /\ p \in Picture /\ viewer \in Viewer /\ ahead \in BOOLEAN
  BY PicturesTyped DEF Pictures, VInv, ServerInv, DisplayInv
<1>2. viewer' = ApplySnapshot(viewer, p) /\ ahead' = (ahead /\ viewer' = viewer)
      /\ UNCHANGED <<session, server, run, published, holder>>
  BY DEF Receive, serverVars
<1> HIDE DEF p
<1>3. /\ viewer' \in Viewer
      /\ \/ viewer' = viewer
         \/ /\ viewer'.received /\ viewer'.shown = p
            /\ viewer'.aar.visible => AarAvailable(p)
  BY <1>1, <1>2, ApplySnapshotEffect
<1>4. ahead' \in BOOLEAN /\ (ahead' => ahead) /\ (viewer' # viewer => ~ahead')
      /\ (viewer' = viewer /\ ~ahead' => ~ahead)
  BY <1>1, <1>2
<1>5. Pictures' = Pictures
  BY <1>2 DEF Pictures
<1>6. ServerInv'
  BY <1>2, <1>5 DEF VInv, ServerInv, Numbered, Kept, ConsoleThere
<1>7. CASE viewer' = viewer
  BY <1>3, <1>4, <1>5, <1>6, <1>7 DEF VInv, DisplayInv, Stamped, Genuine, ReviewOfFinishedRun
<1>8. CASE viewer' # viewer
  <2>1. viewer'.received /\ viewer'.shown = p /\ (viewer'.aar.visible => AarAvailable(p))
    BY <1>3, <1>8
  <2>2. Stamped' /\ Genuine' /\ ReviewOfFinishedRun'
    BY <1>1, <1>5, <2>1 DEF Stamped, Genuine, ReviewOfFinishedRun, SameStamp
  <2>3. QED
    BY <1>3, <1>4, <1>6, <2>2 DEF DisplayInv
<1>9. QED
  BY <1>7, <1>8

\* A change of the plan: a picture that was sent shows no track in standby.
LEMMA SetupVInv ==
    ASSUME VInv, PressSetup
    PROVE  ServerInv' /\ DisplayInv'
<1>1. viewer' = SetupChanged(viewer) /\ ahead' = ahead
      /\ UNCHANGED <<session, server, run, published, holder>>
  BY DEF PressSetup, serverVars
<1>2. viewer \in Viewer /\ ahead \in BOOLEAN
  BY DEF VInv, DisplayInv
<1>3. /\ viewer' \in Viewer /\ viewer'.received = viewer.received /\ ~viewer'.aar.visible
      /\ SameStamp(viewer.shown, viewer'.shown)
      /\ \/ viewer'.shown = viewer.shown
         \/ ~viewer.received \/ (viewer.shown.phase = "Standby" /\ viewer.shown.tracked)
  BY <1>1, <1>2, SetupEffect
<1>4. Pictures' = Pictures
  BY <1>1 DEF Pictures
<1>5. ServerInv'
  BY <1>1, <1>4 DEF VInv, ServerInv, Numbered, Kept, ConsoleThere
<1>6. Stamped'
  BY <1>3, <1>4 DEF VInv, DisplayInv, Stamped, SameStamp
<1>7. Genuine'
  BY <1>1, <1>3, <1>4 DEF VInv, DisplayInv, ServerInv, Numbered, Genuine
<1>8. ReviewOfFinishedRun'
  BY <1>3 DEF ReviewOfFinishedRun
<1>9. QED
  BY <1>1, <1>2, <1>3, <1>5, <1>6, <1>7, <1>8 DEF DisplayInv

\* The server's own steps and those of the other console.
LEMMA ServerVInv ==
    ASSUME VInv, Tick \/ Restart \/ ConsoleJoins \/ ConsoleCommands \/ ConsoleLeaves
    PROVE  ServerInv' /\ DisplayInv'
<1>1. run \in Nat /\ run >= run /\ run + 1 \in Nat /\ run + 1 >= run
  BY DEF VInv, ServerInv
<1>2. "FireControlConsole" \in ClientRole
  BY DEF ClientRole
<1>3. SUFFICES ServerInv' /\ Pictures \subseteq Pictures' /\ UNCHANGED <<viewer, ahead>>
  BY DisplayKept DEF VInv
<1>4. CASE Tick
  <2>1. PICK hit \in BOOLEAN : Becomes(AdvanceTick(session, hit, TRUE), run)
    BY <1>4 DEF Tick
  <2>2. holder' = holder /\ UNCHANGED <<viewer, ahead>>
    BY <1>4 DEF Tick
  <2>3. Follows(session, AdvanceTick(session, hit, TRUE))
    BY TickFollows DEF VInv, ServerInv
  <2>4. holder' = "Viewer" => ConsoleThere(AdvanceTick(session, hit, TRUE))
    BY <2>2, StaysThere DEF VInv, ServerInv
  <2>5. holder' \in {"Nobody", "Viewer", "Console"}
    BY <2>2 DEF VInv, ServerInv
  <2>6. QED
    BY <1>1, <2>1, <2>2, <2>3, <2>4, <2>5, BecomesServerInv DEF VInv
<1>5. CASE Restart
  <2>1. /\ server' = server + 1 /\ run' = run + 1 /\ published' = published
        /\ session' = NewSession(session.timeoutTicks)
        /\ holder' = "Nobody" /\ UNCHANGED <<viewer, ahead>>
    BY <1>5 DEF Restart
  <2>2. session.timeoutTicks \in EngagementTimeouts
    BY DEF VInv, ServerInv, Kept, Session
  <2>3. Kept(session')
    BY <2>1, <2>2, NewSessionType, NewSessionFacts, NewSessionDrawn DEF Kept
  <2>4. Pictures' = Pictures
    BY <2>1 DEF Pictures
  <2>5. \A p \in Pictures : p.server <= server' /\ p.server # server'
    <3>1. \A p \in Pictures : p.server \in Nat /\ p.server <= server
      BY PicturesTyped DEF VInv, ServerInv, Numbered, Picture
    <3>2. server \in Nat
      BY DEF VInv, ServerInv
    <3>3. \A n \in Nat : n <= server => n <= server + 1 /\ n # server + 1
      BY <3>2
    <3>4. QED
      BY <2>1, <3>1, <3>3
  <2>6. Numbered'
    BY <2>4, <2>5 DEF VInv, ServerInv, Numbered
  <2>7. QED
    BY <2>1, <2>3, <2>4, <2>6 DEF VInv, ServerInv
<1>6. CASE ConsoleJoins
  <2>1. /\ Becomes(ConnectClient(session, "FireControlConsole"), run)
        /\ holder' = "Console" /\ UNCHANGED <<viewer, ahead>>
    BY <1>6 DEF ConsoleJoins
  <2>2. Follows(session, ConnectClient(session, "FireControlConsole"))
    BY <1>2, ClientsFollow DEF VInv, ServerInv
  <2>3. QED
    BY <1>1, <2>1, <2>2, BecomesServerInv DEF VInv
<1>7. CASE ConsoleCommands
  <2>1. PICK asked \in CommandLabels : Commanded(asked, session)
    BY <1>7 DEF ConsoleCommands, CommandLabels
  <2>2. PICK r \in {run, run + 1} : Becomes(Handled(asked, session), r)
    BY <2>1 DEF Commanded
  <2>3. holder' = "Console" /\ UNCHANGED <<viewer, ahead>>
    BY <1>7 DEF ConsoleCommands
  <2>4. Follows(session, Handled(asked, session))
    BY CommandsFollow DEF VInv, ServerInv
  <2>5. QED
    BY <1>1, <2>2, <2>3, <2>4, BecomesServerInv DEF VInv
<1>8. CASE ConsoleLeaves
  <2>1. /\ Becomes(DisconnectClient(session, "FireControlConsole"), run)
        /\ holder' = "Nobody" /\ UNCHANGED <<viewer, ahead>>
    BY <1>8 DEF ConsoleLeaves
  <2>2. Follows(session, DisconnectClient(session, "FireControlConsole"))
    BY <1>2, ClientsFollow DEF VInv, ServerInv
  <2>3. QED
    BY <1>1, <2>1, <2>2, BecomesServerInv DEF VInv
<1>9. QED
  BY <1>4, <1>5, <1>6, <1>7, <1>8

\* The controls there are.
LEMMA ActionsPressed ==
    /\ \A v : VisibleLiveActions(LayoutModeForState(v)) \subseteq LiveActions
    /\ \A i \in 1 .. Len(Script) : Script[i] \in LiveActions
    /\ Len(Script) \in Nat
<1>1. \A v : VisibleLiveActions(LayoutModeForState(v)) \subseteq LiveActions
  <2>1. \A v : LayoutModeForState(v) \in {"ReviewTactical", "StandbySetup", "LiveTactical"}
    BY DEF LayoutModeForState
  <2>2. \A mode \in {"ReviewTactical", "StandbySetup", "LiveTactical"} :
           VisibleLiveActions(mode) \subseteq LiveActions
    BY DEF VisibleLiveActions, LiveActions
  <2>3. QED
    BY <2>1, <2>2
<1>2. Script \in Seq(LiveActions)
  BY DisplayBounded
<1>3. QED
  BY <1>1, <1>2

\* A press and a step of the script perform an action of the live display.
LEMMA PressedActions ==
    /\ Press => \E action \in LiveActions : Perform(action)
    /\ ScriptStep /\ step \in Nat => \E action \in LiveActions : Perform(action)
<1>1. Press => \E action \in LiveActions : Perform(action)
  BY ActionsPressed DEF Press
<1>2. ASSUME ScriptStep, step \in Nat PROVE \E action \in LiveActions : Perform(action)
  <2>1. step + 1 \in 1 .. Len(Script)
    BY <1>2, ActionsPressed DEF ScriptStep
  <2>2. Script[step + 1] \in LiveActions /\ Perform(Script[step + 1])
    BY <1>2, <2>1, ActionsPressed DEF ScriptStep
  <2>3. QED
    BY <2>2
<1>3. QED
  BY <1>1, <1>2

\* The counters stay natural numbers.
LEMMA CountersKept ==
    ASSUME Counters, Next
    PROVE  Counters'
<1>1. step + 1 \in Nat /\ commands + 1 \in Nat
  BY DEF Counters
<1>2. running' \in BOOLEAN /\ step' \in Nat /\ commands' \in Nat
  BY <1>1 DEF Counters, Next, Step, Tick, Restart, ConsoleJoins, ConsoleCommands,
     ConsoleLeaves, Receive, Press, PressSetup, ScriptStep, ControlFails
<1>3. QED
  BY <1>2 DEF Counters, Next

\* Every step keeps the inductive invariant.
LEMMA VInvNext == VInv /\ [Next]_<<conditions, vars>> => VInv'
<1> SUFFICES ASSUME VInv, [Next]_<<conditions, vars>> PROVE VInv'
  OBVIOUS
<1>1. CASE UNCHANGED <<conditions, vars>>
  <2>1. Pictures' = Pictures /\ UNCHANGED <<session, server, run, published, holder, viewer,
                                           running, ahead, step, commands, conditions>>
    BY <1>1 DEF vars, serverVars, Pictures
  <2>2. ServerInv'
    BY <2>1 DEF VInv, ServerInv, Numbered, Kept, ConsoleThere
  <2>3. DisplayInv'
    BY <2>1, DisplayKept DEF VInv
  <2>4. QED
    BY <2>1, <2>2, <2>3 DEF VInv, Counters
<1>2. CASE Next
  <2>1. SUFFICES ServerInv' /\ DisplayInv'
    BY <1>2, CountersKept DEF VInv
  <2>2. CASE Tick \/ Restart \/ ConsoleJoins \/ ConsoleCommands \/ ConsoleLeaves
    BY <2>2, ServerVInv
  <2>3. CASE \E i \in DOMAIN published : Receive(i)
    BY <2>3, ReceiveVInv
  <2>4. CASE PressSetup
    BY <2>4, SetupVInv
  <2>5. CASE Press \/ ScriptStep
    BY <2>5, PressedActions, PerformVInv DEF VInv, Counters
  <2>6. CASE ControlFails
    <3>1. Pictures' = Pictures /\ UNCHANGED <<session, server, run, published, holder, viewer, ahead>>
      BY <2>6 DEF ControlFails, serverVars, Pictures
    <3>2. ServerInv'
      BY <3>1 DEF VInv, ServerInv, Numbered, Kept, ConsoleThere
    <3>3. QED
      BY <3>1, <3>2, DisplayKept DEF VInv
  <2>7. QED
    BY <1>2, <2>2, <2>3, <2>4, <2>5, <2>6 DEF Next, Step
<1>3. QED
  BY <1>1, <1>2

\* A fresh server and a fresh display satisfy it.
LEMMA InitVInv == Init => VInv
<1> SUFFICES ASSUME Init PROVE VInv
  OBVIOUS
<1>1. PICK t \in EngagementTimeouts : session = NewSession(t)
  BY DEF Init
<1>2. Kept(session)
  BY <1>1, NewSessionType, NewSessionFacts, NewSessionDrawn DEF Kept
<1>3. <<>> \in Seq(Picture) /\ DOMAIN <<>> = {}
  OBVIOUS
<1>4. Pictures = {}
  BY <1>3 DEF Init, Pictures
<1>5. ServerInv
  BY <1>2, <1>3, <1>4 DEF Init, ServerInv, Numbered
<1>6. NewViewer \in Viewer /\ NewViewer.received = FALSE /\ NewViewer.shown.run = 0
      /\ NewViewer.aar.visible = FALSE
  <2>1. NoReview \in Review /\ NoReview.visible = FALSE
    BY DEF NoReview, Review
  <2>2. /\ "Standby" \in SessionPhase /\ "Idle" \in InterceptorStatus
        /\ "None" \in EngageOrderStatus /\ "Pending" \in AssessmentCode /\ "idle" \in ControlLabels
    BY DEF SessionPhase, InterceptorStatus, EngageOrderStatus, AssessmentCode, ControlLabels
  <2>3. QED
    BY <2>1, <2>2 DEF NewViewer, Viewer, Picture
<1>7. DisplayInv
  BY <1>6 DEF Init, DisplayInv, Stamped, Genuine, ReviewOfFinishedRun
<1>8. Counters
  BY DEF Init, Counters
<1>9. QED
  BY <1>5, <1>7, <1>8 DEF VInv

\* It holds throughout every behaviour.
LEMMA SpecVInv == Spec => []VInv
BY InitVInv, VInvNext, PTL DEF Spec

--------------------------------------------------------------------------------
(****************************************************************************)
(* Theorems: what is shown                                                  *)
(****************************************************************************)

\* Unless a command was shown ahead of its snapshot, the display shows one
\* picture some server has published, whole, and a review only of a run that is
\* over in it (apply_snapshot, apply_parameter_action, the AAR action), whatever
\* is lost, repeated or overtaken and however often the server is restarted.
THEOREM DisplayGenuine == Spec => []ShownGenuine
<1>1. VInv => ShownGenuine
  <2> SUFFICES ASSUME VInv PROVE ShownGenuine
    OBVIOUS
  <2>1. TypeOK
    BY DEF VInv, ServerInv, DisplayInv, Counters, Kept, TypeOK
  <2>2. PictureGenuine
    BY DEF VInv, DisplayInv, Genuine, Pictures, PictureGenuine
  <2>3. QED
    BY <2>1, <2>2 DEF VInv, DisplayInv, ShownGenuine
<1>2. QED
  BY <1>1, SpecVInv, PTL

\* No late picture takes the display back to an older run of the same server:
\* apply_snapshot compares sequence numbers only, and reset_session goes on with
\* the numbering.
THEOREM RunsGoForward == Spec => RunNeverGoesBack
<1> DEFINE Forward ==
        viewer'.shown.server = viewer.shown.server => viewer'.shown.run >= viewer.shown.run
<1>1. VInv /\ VInv' /\ [Next]_<<conditions, vars>> => [Forward]_vars
  <2> SUFFICES ASSUME VInv, Next, viewer'.shown.server = viewer.shown.server
               PROVE  viewer'.shown.run >= viewer.shown.run
    BY DEF vars
  <2>1. viewer \in Viewer /\ viewer.shown \in Picture /\ viewer.shown.run \in Nat
        /\ viewer.shown.sequence \in Nat
    BY DEF VInv, DisplayInv, Viewer, Picture
  <2>2. SUFFICES \/ viewer'.shown.run = viewer.shown.run
                 \/ viewer.shown.run <= viewer'.shown.run
    BY <2>1
  <2>3. CASE \E i \in DOMAIN published : Receive(i)
    <3>1. PICK i \in DOMAIN published : Receive(i)
      BY <2>3
    <3> DEFINE p == published[i]
    <3>2. p \in Pictures /\ p \in Picture /\ p.run \in Nat /\ p.sequence \in Nat
      BY PicturesTyped DEF Pictures, VInv, ServerInv, Picture
    <3>3. viewer' = ApplySnapshot(viewer, p)
      BY <3>1 DEF Receive
    <3> HIDE DEF p
    <3>4. \/ viewer' = viewer
          \/ viewer'.shown = p /\ (viewer.received => ~(p.sequence <= viewer.shown.sequence))
      BY <2>1, <3>2, <3>3, ApplySnapshotEffect
    <3>5. CASE viewer.received /\ viewer'.shown = p /\ ~(p.sequence <= viewer.shown.sequence)
      <4>1. PICK q \in Pictures : SameStamp(q, viewer.shown)
        BY <3>5 DEF VInv, DisplayInv, Stamped
      <4>2. q.sequence <= p.sequence
        BY <2>1, <3>2, <3>5, <4>1 DEF SameStamp
      <4>3. q.server = p.server
        BY <3>5, <4>1 DEF SameStamp
      <4>4. q.run <= p.run
        BY <3>2, <4>2, <4>3 DEF VInv, ServerInv, Numbered
      <4>5. QED
        BY <3>5, <4>1, <4>4 DEF SameStamp
    <3>6. CASE ~viewer.received /\ viewer'.shown = p
      BY <2>1, <3>2, <3>6 DEF VInv, DisplayInv, Stamped
    <3>7. QED
      BY <3>4, <3>5, <3>6
  <2>4. CASE Press \/ ScriptStep
    <3>1. PICK action \in LiveActions : Perform(action)
      BY <2>4, PressedActions DEF VInv, Counters
    <3>2. ahead \in BOOLEAN
      BY DEF VInv, DisplayInv
    <3>3. CASE action = "AAR"
      <4>1. viewer' \in {ReviewRefused(viewer), ReviewLoaded(viewer)}
        BY <3>1, <3>2, <3>3, PerformCases
      <4>2. QED
        BY <2>1, <4>1, ReviewEffect
    <3>4. CASE action # "AAR"
      <4>1. PICK asked \in CommandLabels, accepted \in BOOLEAN :
               viewer' = Acknowledged(viewer, asked, accepted)
        BY <3>1, <3>2, <3>4, PerformCases
      <4>2. viewer'.shown \in {viewer.shown, Anticipated(viewer.shown, asked)}
        BY <2>1, <4>1, AcknowledgedEffect
      <4>3. QED
        BY <2>1, <4>2, AnticipatedType DEF SameStamp
    <3>5. QED
      BY <3>3, <3>4
  <2>5. CASE PressSetup
    <3>1. viewer' = SetupChanged(viewer)
      BY <2>5 DEF PressSetup
    <3>2. QED
      BY <2>1, <3>1, SetupEffect DEF SameStamp
  <2>6. CASE UNCHANGED viewer
    BY <2>6
  <2>7. QED
    BY <2>3, <2>4, <2>5, <2>6
    DEF Next, Step, Tick, Restart, ConsoleJoins, ConsoleCommands, ConsoleLeaves, ControlFails
<1>2. QED
  BY <1>1, SpecVInv, PTL DEF Spec, RunNeverGoesBack

--------------------------------------------------------------------------------
(****************************************************************************)
(* Which commands the authority accepts, and what they lead to              *)
(****************************************************************************)

Rejections(s) == s.log.count["EngageOrderRejected"]

\* The session's own conditions.
Permits(asked, s) ==
    CASE asked = "Start" -> s.phase = "Standby"
      [] asked = "Acquire Track" -> \/ s.phase = "Detecting"
                                    \/ s.phase = "InterceptorReady" /\ ~s.track.active
      [] asked = "Drop Track" -> s.phase \in {"Tracking", "InterceptorReady"} /\ s.track.active
      [] asked = "Ready" -> s.phase = "Tracking" /\ s.track.active
      [] asked = "Engage" -> s.phase = "InterceptorReady" /\ s.interceptor = "Ready"
      [] asked = "Reset" -> TRUE

\* Only what is compared matters.
LEMMA AgreesSame ==
    ASSUME NEW p, NEW s, NEW t, Agrees(p, s), SameMission(s, t)
    PROVE  Agrees(p, t)
BY DEF Agrees, SameMission

\* A cleared track is inactive, a seeded one active.
LEMMA TrackActivity == ClearedTrack.active = FALSE /\ SeededTrack.active = TRUE
BY DEF ClearedTrack, SeededTrack

\* A refusal is counted.
LEMMA RefusalCounted ==
    ASSUME NEW s \in Session
    PROVE  /\ Rejections(RejectCommand(s)) # Rejections(s)
           /\ Rejections(RecordTransportRejection(s)) # Rejections(s)
<1>1. s.log.count \in [EventType -> Nat] /\ "EngageOrderRejected" \in EventType
      /\ s.log \in EventLog
  BY DEF Session, EventLog, EventType
<1>2. Logged(s.log, "EngageOrderRejected").count
         = [s.log.count EXCEPT !["EngageOrderRejected"] = @ + 1]
  BY <1>1 DEF Logged, EventLog
<1>3. s.log.count["EngageOrderRejected"] \in Nat
  BY <1>1
<1>4. Logged(s.log, "EngageOrderRejected").count["EngageOrderRejected"]
         = s.log.count["EngageOrderRejected"] + 1
  BY <1>1, <1>2
<1>5. /\ RejectCommand(s).log = Logged(s.log, "EngageOrderRejected")
      /\ RecordTransportRejection(s).log = Logged(s.log, "EngageOrderRejected")
  BY DEF RejectCommand, RecordTransportRejection, PushEvent, Session
<1>6. QED
  BY <1>3, <1>4, <1>5 DEF Rejections

\* What is carried out is published with another event.
LEMMA CarriedOut ==
    ASSUME NEW u \in Session, NEW type \in EventType \ {"EngageOrderRejected"},
           NEW tracked \in BOOLEAN
    PROVE  /\ SameMission(u, RecordSnapshot(PushEvent(u, type)))
           /\ SameMission(u, RecordSnapshot(PushTrackEvent(u, type, tracked)))
           /\ Rejections(RecordSnapshot(PushEvent(u, type))) = Rejections(u)
           /\ Rejections(RecordSnapshot(PushTrackEvent(u, type, tracked))) = Rejections(u)
<1>1. /\ SameMission(u, RecordSnapshot(PushEvent(u, type)))
      /\ SameMission(u, RecordSnapshot(PushTrackEvent(u, type, tracked)))
  BY PublishSame, PublishTrackSame DEF SameRecord
<1>2. u.log \in EventLog /\ u.log.count \in [EventType -> Nat]
      /\ "EngageOrderRejected" \in EventType
  BY DEF Session, EventLog, EventType
<1>3. Logged(u.log, type) \in EventLog
      /\ Logged(u.log, type).count = [u.log.count EXCEPT ![type] = @ + 1]
  BY <1>2, LoggedType DEF Logged, EventLog
<1>4. Logged(u.log, type).count["EngageOrderRejected"] = u.log.count["EngageOrderRejected"]
  BY <1>2, <1>3
<1>5. RecordSnapshot(PushEvent(u, type)).log = Logged(u.log, type)
  BY DEF RecordSnapshot, PushEvent, Session
<1>6. RecordSnapshot(PushTrackEvent(u, type, tracked)).log.count = Logged(u.log, type).count
  BY <1>3 DEF RecordSnapshot, PushTrackEvent, Session, EventLog
<1>7. QED
  BY <1>1, <1>4, <1>5, <1>6 DEF Rejections

\* Carried out, a command is not counted as refused and leads to what is shown.
Leads(asked, s, t) ==
    /\ asked # "Reset" => Rejections(t) = Rejections(s)
    /\ \A shown \in Picture : Agrees(shown, s) => Agrees(Anticipated(shown, asked), t)

\* Otherwise it is refused.
Judged(asked, s, t) ==
    IF Permits(asked, s) THEN Leads(asked, s, t)
    ELSE asked # "Reset" /\ Rejections(t) # Rejections(s)

\* Start: accepted exactly when permitted, and it leads where the display anticipates.
LEMMA StartJudged ==
    ASSUME NEW s, Kept(s), ConsoleThere(s)
    PROVE  Judged("Start", s, Handled("Start", s))
<1>1. CASE s.phase # "Standby"
  BY <1>1, RefusalCounted DEF Judged, Permits, Handled, Kept
<1>2. CASE s.phase = "Standby"
  <2> DEFINE c == ConfigureScenario(s, s.timeoutTicks)
             u == [c EXCEPT !.phase = "Detecting", !.targetActive = TRUE,
                            !.track = ClearedTrack, !.interceptor = "Idle",
                            !.order = "None", !.ready = FALSE, !.code = "Pending"]
             t == RecordSnapshot(PushEvent(u, "SessionStarted"))
  <2>1. s.timeoutTicks \in EngagementTimeouts /\ s \in Session
    BY DEF Kept, Session
  <2>2. /\ c.phase = "Standby" /\ c.connection = s.connection /\ c.log = s.log
        /\ c.assetActive = FALSE
    BY <1>2, <2>1 DEF ConfigureScenario, ResetWorld, Session
  <2>3. c \in Session
    BY <2>1, ConfigureScenarioType
  <2>4. Handled("Start", s) = StartScenario(c)
    BY <1>2 DEF Handled, Outcome
  <2> HIDE DEF c
  <2>5. StartScenario(c) = t
    BY <2>2 DEF StartScenario, ConsoleThere
  <2>6. u \in Session
    BY <2>3, TrackConstantsType, ZenonT(40)
    DEF Session, SessionPhase, InterceptorStatus, EngageOrderStatus, AssessmentCode
  <2>7. /\ u.phase = "Detecting" /\ u.targetActive = TRUE /\ u.assetActive = FALSE
        /\ u.track = ClearedTrack /\ u.interceptor = "Idle" /\ u.ready = FALSE
        /\ u.log = s.log
    BY <2>2, <2>3 DEF Session
  <2> HIDE DEF u
  <2>8. SameMission(u, t) /\ Rejections(t) = Rejections(u)
    BY <2>6, CarriedOut DEF EventType
  <2> HIDE DEF t
  <2>9. ASSUME NEW shown \in Picture, Agrees(shown, s)
        PROVE  Agrees(Anticipated(shown, "Start"), u)
    <3>1. shown.asset = FALSE /\ shown.ready = FALSE
      BY <1>2, <2>1, <2>9 DEF Agrees, Kept, MissionFacts, PhaseFacts, PreLaunch, Session
    <3> DEFINE next == [shown EXCEPT !.phase = "Detecting"]
               a == [next EXCEPT !.target = TRUE, !.order = "None",
                                 !.interceptor = "Idle", !.tracked = FALSE]
    <3>2. Anticipated(shown, "Start") = a
      <4>1. AnticipatedPhase(shown.phase, "Start") = "Detecting"
        BY DEF AnticipatedPhase
      <4>2. QED
        BY <4>1 DEF Anticipated
    <3>3. /\ a.phase = "Detecting" /\ a.target = TRUE /\ a.asset = shown.asset
          /\ a.tracked = FALSE /\ a.interceptor = "Idle" /\ a.ready = shown.ready
      BY DEF Picture
    <3> HIDE DEF a
    <3>4. QED
      BY <2>7, <3>1, <3>2, <3>3, TrackActivity DEF Agrees
  <2>10. Rejections(t) = Rejections(s)
    BY <2>7, <2>8 DEF Rejections
  <2>11. Leads("Start", s, t)
    BY <2>8, <2>9, <2>10, AgreesSame DEF Leads
  <2>12. QED
    BY <1>2, <2>4, <2>5, <2>11 DEF Judged, Permits
<1>3. QED
  BY <1>1, <1>2

\* The same of Acquire Track.
LEMMA AcquireJudged ==
    ASSUME NEW s, Kept(s)
    PROVE  Judged("Acquire Track", s, Handled("Acquire Track", s))
<1> DEFINE phase == IF s.phase = "Detecting" THEN "Tracking" ELSE s.phase
           u == [s EXCEPT !.track = SeededTrack, !.phase = phase]
           t == RecordSnapshot(PushTrackEvent(u, "TrackUpdated", TRUE))
<1>1. s \in Session /\ phase \in SessionPhase
  BY DEF Kept, Session, SessionPhase
<1>2. Handled("Acquire Track", s) = IF Permits("Acquire Track", s) THEN t ELSE RejectCommand(s)
  BY DEF Handled, Outcome, RequestTrack, Permits
<1>3. /\ u \in Session /\ u.phase = phase /\ u.track = SeededTrack /\ u.log = s.log
      /\ u.targetActive = s.targetActive /\ u.assetActive = s.assetActive
      /\ u.interceptor = s.interceptor /\ u.ready = s.ready
  BY <1>1, TrackConstantsType DEF Session
<1> HIDE DEF u
<1>4. SameMission(u, t) /\ Rejections(t) = Rejections(u)
  BY <1>3, CarriedOut DEF EventType
<1> HIDE DEF t
<1>5. ASSUME NEW shown \in Picture, Agrees(shown, s)
      PROVE  Agrees(Anticipated(shown, "Acquire Track"), u)
  <2> DEFINE next == [shown EXCEPT !.phase = phase]
             a == [next EXCEPT !.tracked = TRUE]
  <2>1. shown.phase = s.phase
    BY <1>5 DEF Agrees
  <2>2. Anticipated(shown, "Acquire Track") = a
    <3>1. AnticipatedPhase(shown.phase, "Acquire Track") = phase
      BY <2>1 DEF AnticipatedPhase
    <3>2. QED
      BY <3>1 DEF Anticipated
  <2>3. /\ a.phase = phase /\ a.target = shown.target /\ a.asset = shown.asset
        /\ a.tracked = TRUE /\ a.interceptor = shown.interceptor /\ a.ready = shown.ready
    BY DEF Picture
  <2> HIDE DEF a, phase
  <2>4. QED
    BY <1>3, <1>5, <2>2, <2>3, TrackActivity DEF Agrees
<1>6. Leads("Acquire Track", s, t)
  BY <1>3, <1>4, <1>5, AgreesSame DEF Leads, Rejections
<1>7. QED
  BY <1>1, <1>2, <1>6, RefusalCounted DEF Judged

\* The same of Drop Track.
LEMMA DropJudged ==
    ASSUME NEW s, Kept(s)
    PROVE  Judged("Drop Track", s, Handled("Drop Track", s))
<1> DEFINE phase == IF s.phase = "Tracking" THEN "Detecting" ELSE s.phase
           u == [s EXCEPT !.track = ClearedTrack, !.phase = phase]
           t == RecordSnapshot(PushTrackEvent(u, "TrackUpdated", FALSE))
<1>1. s \in Session /\ phase \in SessionPhase
  BY DEF Kept, Session, SessionPhase
<1>2. Handled("Drop Track", s) = IF Permits("Drop Track", s) THEN t ELSE RejectCommand(s)
  BY DEF Handled, Outcome, ReleaseTrack, Permits
<1>3. /\ u \in Session /\ u.phase = phase /\ u.track = ClearedTrack /\ u.log = s.log
      /\ u.targetActive = s.targetActive /\ u.assetActive = s.assetActive
      /\ u.interceptor = s.interceptor /\ u.ready = s.ready
  BY <1>1, TrackConstantsType DEF Session
<1> HIDE DEF u
<1>4. SameMission(u, t) /\ Rejections(t) = Rejections(u)
  BY <1>3, CarriedOut DEF EventType
<1> HIDE DEF t
<1>5. ASSUME NEW shown \in Picture, Agrees(shown, s)
      PROVE  Agrees(Anticipated(shown, "Drop Track"), u)
  <2> DEFINE next == [shown EXCEPT !.phase = phase]
             a == [next EXCEPT !.tracked = FALSE]
  <2>1. shown.phase = s.phase
    BY <1>5 DEF Agrees
  <2>2. Anticipated(shown, "Drop Track") = a
    <3>1. AnticipatedPhase(shown.phase, "Drop Track") = phase
      BY <2>1 DEF AnticipatedPhase
    <3>2. QED
      BY <3>1 DEF Anticipated
  <2>3. /\ a.phase = phase /\ a.target = shown.target /\ a.asset = shown.asset
        /\ a.tracked = FALSE /\ a.interceptor = shown.interceptor /\ a.ready = shown.ready
    BY DEF Picture
  <2> HIDE DEF a, phase
  <2>4. QED
    BY <1>3, <1>5, <2>2, <2>3, TrackActivity DEF Agrees
<1>6. Leads("Drop Track", s, t)
  BY <1>3, <1>4, <1>5, AgreesSame DEF Leads, Rejections
<1>7. QED
  BY <1>1, <1>2, <1>6, RefusalCounted DEF Judged

\* The same of Ready.
LEMMA ReadyJudged ==
    ASSUME NEW s, Kept(s)
    PROVE  Judged("Ready", s, Handled("Ready", s))
<1> DEFINE u == [s EXCEPT !.interceptor = "Ready", !.assetActive = TRUE,
                          !.phase = "InterceptorReady"]
           t == RecordSnapshot(PushEvent(u, "InterceptorUpdated"))
<1>1. s \in Session
  BY DEF Kept
<1>2. Handled("Ready", s) = IF Permits("Ready", s) THEN t ELSE RejectCommand(s)
  BY DEF Handled, Outcome, ActivateAsset, Permits
<1>3. /\ u \in Session /\ u.phase = "InterceptorReady" /\ u.track = s.track /\ u.log = s.log
      /\ u.targetActive = s.targetActive /\ u.assetActive = TRUE
      /\ u.interceptor = "Ready" /\ u.ready = s.ready
  BY <1>1 DEF Session, SessionPhase, InterceptorStatus
<1> HIDE DEF u
<1>4. SameMission(u, t) /\ Rejections(t) = Rejections(u)
  BY <1>3, CarriedOut DEF EventType
<1> HIDE DEF t
<1>5. ASSUME NEW shown \in Picture, Agrees(shown, s)
      PROVE  Agrees(Anticipated(shown, "Ready"), u)
  <2> DEFINE next == [shown EXCEPT !.phase = "InterceptorReady"]
             a == [next EXCEPT !.asset = TRUE, !.interceptor = "Ready"]
  <2>1. Anticipated(shown, "Ready") = a
    <3>1. AnticipatedPhase(shown.phase, "Ready") = "InterceptorReady"
      BY DEF AnticipatedPhase
    <3>2. QED
      BY <3>1 DEF Anticipated
  <2>2. /\ a.phase = "InterceptorReady" /\ a.target = shown.target /\ a.asset = TRUE
        /\ a.tracked = shown.tracked /\ a.interceptor = "Ready" /\ a.ready = shown.ready
    BY DEF Picture
  <2> HIDE DEF a
  <2>3. QED
    BY <1>3, <1>5, <2>1, <2>2 DEF Agrees
<1>6. Leads("Ready", s, t)
  BY <1>3, <1>4, <1>5, AgreesSame DEF Leads, Rejections
<1>7. QED
  BY <1>1, <1>2, <1>6, RefusalCounted DEF Judged

\* The interceptor shown as ready is the authority's: only a ready one is ordered.
LEMMA EngageJudged ==
    ASSUME NEW s, Kept(s)
    PROVE  Judged("Engage", s, Handled("Engage", s))
<1> DEFINE u == [s EXCEPT !.order = "Accepted", !.phase = "EngageOrdered", !.started = s.tick]
           t == RecordSnapshot(PushTrackEvent(u, "EngageOrderAccepted", s.track.active))
<1>1. s \in Session /\ s.track.active \in BOOLEAN
  BY DEF Kept, Session, TrackState
<1>2. Handled("Engage", s) = IF Permits("Engage", s) THEN t ELSE RejectCommand(s)
  BY DEF Handled, Outcome, IssueCommand, Permits
<1>3. /\ u \in Session /\ u.phase = "EngageOrdered" /\ u.track = s.track /\ u.log = s.log
      /\ u.targetActive = s.targetActive /\ u.assetActive = s.assetActive
      /\ u.interceptor = s.interceptor /\ u.ready = s.ready
  BY <1>1 DEF Session, SessionPhase, EngageOrderStatus
<1> HIDE DEF u
<1>4. SameMission(u, t) /\ Rejections(t) = Rejections(u)
  BY <1>1, <1>3, CarriedOut DEF EventType
<1> HIDE DEF t
<1>5. ASSUME NEW shown \in Picture, Agrees(shown, s), Permits("Engage", s)
      PROVE  Agrees(Anticipated(shown, "Engage"), u)
  <2> DEFINE next == [shown EXCEPT !.phase = "EngageOrdered"]
             a == [next EXCEPT !.order = "Accepted", !.interceptor = "Ready"]
  <2>1. Anticipated(shown, "Engage") = a
    <3>1. AnticipatedPhase(shown.phase, "Engage") = "EngageOrdered"
      BY DEF AnticipatedPhase
    <3>2. QED
      BY <3>1 DEF Anticipated
  <2>2. /\ a.phase = "EngageOrdered" /\ a.target = shown.target /\ a.asset = shown.asset
        /\ a.tracked = shown.tracked /\ a.interceptor = "Ready" /\ a.ready = shown.ready
    BY DEF Picture
  <2> HIDE DEF a
  <2>3. s.interceptor = "Ready"
    BY <1>5 DEF Permits
  <2>4. QED
    BY <1>3, <1>5, <2>1, <2>2, <2>3 DEF Agrees
<1>6. Permits("Engage", s) => Leads("Engage", s, t)
  BY <1>3, <1>4, <1>5, AgreesSame DEF Leads, Rejections
<1>7. QED
  BY <1>1, <1>2, <1>6, RefusalCounted DEF Judged

\* The same of Reset.
LEMMA ResetJudged ==
    ASSUME NEW s, Kept(s)
    PROVE  Judged("Reset", s, Handled("Reset", s))
<1> DEFINE w == ResetWorld(s)
           t == ResetSession(s)
<1>1. s \in Session /\ w \in Session
  BY ResetWorldType DEF Kept
<1>2. /\ w.targetActive = FALSE /\ w.assetActive = FALSE /\ w.track = ClearedTrack
      /\ w.interceptor = "Idle" /\ w.ready = FALSE
  BY <1>1 DEF ResetWorld, Session
<1> HIDE DEF w
<1> DEFINE u == [w EXCEPT !.tick = 0, !.phase = "Standby",
                          !.reconnectExercised = FALSE, !.timeoutExercised = FALSE,
                          !.gapExercised = FALSE,
                          !.log = EmptyLog, !.snapshots = 0, !.latest = NoSnapshot,
                          !.connection = [r \in ClientRole |-> Settled(s.connection[r])]]
<1>3. /\ u.phase = "Standby" /\ u.targetActive = FALSE /\ u.assetActive = FALSE
      /\ u.track = ClearedTrack /\ u.interceptor = "Idle" /\ u.ready = FALSE
  BY <1>1, <1>2 DEF Session
<1>4. t = RecordSnapshot(u)
  BY DEF ResetSession, w
<1>5. u \in Session
  <2>1. EmptyLog \in EventLog
    BY DEF EmptyLog, EventLog, TrackProfile
  <2>2. NoSnapshot \in Snapshot
    BY TrackConstantsType
    DEF NoSnapshot, Snapshot, SessionPhase, InterceptorStatus, EngageOrderStatus,
        AssessmentCode, ConnectionState
  <2>3. [r \in ClientRole |-> Settled(s.connection[r])] \in [ClientRole -> ConnectionState]
    BY <1>1 DEF Session, Settled, ConnectionState
  <2>4. QED
    BY <1>1, <2>1, <2>2, <2>3 DEF Session, SessionPhase
<1> HIDE DEF u, t
<1>6. SameMission(u, t)
  BY <1>4, <1>5, RecordSnapshotSame DEF SameRecord
<1>7. ASSUME NEW shown \in Picture PROVE Agrees(Anticipated(shown, "Reset"), u)
  <2> DEFINE next == [shown EXCEPT !.phase = "Standby"]
             a == [next EXCEPT !.target = FALSE, !.asset = FALSE, !.tracked = FALSE,
                               !.order = "None", !.interceptor = "Idle",
                               !.ready = FALSE, !.code = "Pending"]
  <2>1. Anticipated(shown, "Reset") = a
    <3>1. AnticipatedPhase(shown.phase, "Reset") = "Standby"
      BY DEF AnticipatedPhase
    <3>2. QED
      BY <3>1 DEF Anticipated
  <2>2. /\ a.phase = "Standby" /\ a.target = FALSE /\ a.asset = FALSE /\ a.tracked = FALSE
        /\ a.interceptor = "Idle" /\ a.ready = FALSE
    BY DEF Picture
  <2> HIDE DEF a
  <2>3. QED
    BY <1>3, <2>1, <2>2, TrackActivity DEF Agrees
<1>8. Leads("Reset", s, t)
  BY <1>6, <1>7, AgreesSame DEF Leads
<1>9. Handled("Reset", s) = t
  BY DEF Handled, Outcome, t
<1>10. QED
  BY <1>8, <1>9 DEF Judged, Permits

\* Every command is judged by the session's conditions, and what is accepted
\* leads to what the display shows of it.
LEMMA CommandsJudged ==
    ASSUME NEW s, Kept(s), ConsoleThere(s), NEW asked \in CommandLabels
    PROVE  /\ Accepts(asked, s) <=> Permits(asked, s)
           /\ Accepts(asked, s) => Leads(asked, s, Handled(asked, s))
<1>1. Judged(asked, s, Handled(asked, s))
  BY StartJudged, AcquireJudged, DropJudged, ReadyJudged, EngageJudged, ResetJudged
  DEF CommandLabels
<1>2. Accepts(asked, s) <=> asked = "Reset" \/ Rejections(Handled(asked, s)) = Rejections(s)
  BY DEF Accepts, Rejections
<1>3. CASE Permits(asked, s)
  BY <1>1, <1>2, <1>3 DEF Judged, Leads
<1>4. CASE ~Permits(asked, s)
  BY <1>1, <1>2, <1>4 DEF Judged
<1>5. QED
  BY <1>3, <1>4

--------------------------------------------------------------------------------
(****************************************************************************)
(* Theorems: what the operator relies on                                    *)
(****************************************************************************)

\* What is pressed on a picture that agrees with the session is enabled exactly
\* if the session's conditions permit it.
LEMMA ButtonsOfPicture ==
    ASSUME NEW v \in Viewer, NEW s, Kept(s), Agrees(v.shown, s),
           v.aar.visible => AarAvailable(v.shown),
           NEW action \in VisibleLiveActions(LayoutModeForState(v)) \ {"AAR"}
    PROVE  /\ ControlButtonEnabled(action, v) \in BOOLEAN
           /\ ControlButtonEnabled(action, v) <=> Permits(EffectiveLabel(action, v), s)
<1>1. /\ v.shown \in Picture /\ v.received \in BOOLEAN /\ v.aar.visible \in BOOLEAN
      /\ v.shown.phase \in SessionPhase /\ v.shown.tracked \in BOOLEAN
  BY DEF Viewer, Picture, Review
<1>2. /\ v.shown.phase = s.phase /\ v.shown.tracked = s.track.active
      /\ v.shown.interceptor = s.interceptor /\ v.shown.ready = s.ready
  BY DEF Agrees
<1>3. /\ s.phase = "Standby" => ~s.ready
      /\ s.phase = "Detecting" => ~s.track.active
      /\ s.phase = "Tracking" => s.track.active
  BY DEF Kept, MissionFacts, PhaseFacts, PreLaunch
<1>4. CASE LayoutModeForState(v) = "ReviewTactical"
  <2>1. action = "Reset"
    BY <1>4 DEF VisibleLiveActions
  <2>2. v.aar.visible \/ v.shown.phase \in {"Assessed", "Archived"}
    BY <1>4 DEF LayoutModeForState
  <2>3. v.shown.phase # "Standby"
    BY <1>2, <1>3, <2>2 DEF AarAvailable
  <2>4. ControlButtonEnabled("Reset", v) <=> v.shown.phase # "Standby" \/ v.received \/ v.label # "idle"
    BY DEF ControlButtonEnabled
  <2>5. ControlButtonEnabled("Reset", v) \in BOOLEAN
    BY DEF ControlButtonEnabled
  <2>6. Permits(EffectiveLabel("Reset", v), s)
    BY DEF Permits, EffectiveLabel
  <2>7. QED
    BY <2>1, <2>3, <2>4, <2>5, <2>6
<1>5. CASE LayoutModeForState(v) = "StandbySetup"
  <2>1. action = "Start"
    BY <1>5 DEF VisibleLiveActions
  <2>2. v.shown.phase = "Standby"
    BY <1>5 DEF LayoutModeForState
  <2>3. QED
    BY <1>2, <2>1, <2>2 DEF ControlButtonEnabled, Permits, EffectiveLabel
<1>6. CASE LayoutModeForState(v) = "LiveTactical"
  <2>1. action \in {"Track", "Ready", "Engage", "Reset"}
    BY <1>6 DEF VisibleLiveActions
  <2>2. v.shown.phase \notin {"Standby", "Assessed", "Archived"}
    BY <1>1, <1>6 DEF LayoutModeForState
  <2>3. CASE action = "Track"
    <3>1. ControlButtonEnabled("Track", v)
             <=> v.shown.phase \in {"Detecting", "Tracking", "InterceptorReady"}
      BY DEF ControlButtonEnabled
    <3>2. Permits("Acquire Track", s)
             <=> s.phase = "Detecting" \/ (s.phase = "InterceptorReady" /\ ~s.track.active)
      BY DEF Permits
    <3>3. Permits("Drop Track", s)
             <=> s.phase \in {"Tracking", "InterceptorReady"} /\ s.track.active
      BY DEF Permits
    <3> ControlButtonEnabled("Track", v) \in BOOLEAN
      BY DEF ControlButtonEnabled
    <3>4. CASE v.shown.tracked
      <4>1. EffectiveLabel("Track", v) = "Drop Track"
        BY <3>4 DEF EffectiveLabel
      <4>2. QED
        BY <1>2, <1>3, <2>3, <3>1, <3>3, <3>4, <4>1
    <3>5. CASE ~v.shown.tracked
      <4>1. EffectiveLabel("Track", v) = "Acquire Track"
        BY <3>5 DEF EffectiveLabel
      <4>2. QED
        BY <1>2, <1>3, <2>3, <3>1, <3>2, <3>5, <4>1
    <3>6. QED
      BY <3>4, <3>5
  <2>4. CASE action = "Ready"
    BY <1>1, <1>2, <2>4 DEF ControlButtonEnabled, Permits, EffectiveLabel
  <2>5. CASE action = "Engage"
    BY <1>1, <1>2, <2>5 DEF ControlButtonEnabled, Permits, EffectiveLabel
  <2>6. CASE action = "Reset"
    BY <2>2, <2>6 DEF ControlButtonEnabled, Permits, EffectiveLabel
  <2>7. QED
    BY <2>1, <2>3, <2>4, <2>5, <2>6
<1>7. QED
  BY <1>4, <1>5, <1>6 DEF LayoutModeForState

\* The session the display's link is joined to, and what it is handed.
LEMMA JoinedJudges ==
    ASSUME VInv, Agrees(viewer.shown, session), NEW asked \in CommandLabels
    PROVE  /\ Kept(Joined) /\ ConsoleThere(Joined) /\ Agrees(viewer.shown, Joined)
           /\ Accepts(asked, Joined) <=> Permits(asked, Joined)
           /\ Accepts(asked, Joined) => Leads(asked, Joined, Handled(asked, Joined))
<1>1. Follows(session, Joined) /\ ConsoleThere(Joined) /\ SameMission(session, Joined)
  BY CommandedFollows DEF VInv
<1>2. Kept(Joined) /\ Agrees(viewer.shown, Joined)
  BY <1>1, AgreesSame DEF Follows
<1>3. QED
  BY <1>1, <1>2, CommandsJudged

\* The buttons of a picture that agrees with the authority tell the truth: an
\* enabled one is accepted and a disabled one would be refused
\* (control_button_enabled against the guards of SimulationSession and the
\* transport's own check of a start).
THEOREM ButtonsTrue == Spec => []ButtonsTellTruth
<1>1. VInv => ButtonsTellTruth
  <2> SUFFICES ASSUME VInv, Agrees(viewer.shown, session),
                      NEW action \in VisibleLiveActions(LayoutModeForState(viewer)) \ {"AAR"}
               PROVE  ControlButtonEnabled(action, viewer)
                        = Accepts(EffectiveLabel(action, viewer), Joined)
    BY DEF ButtonsTellTruth
  <2> DEFINE asked == EffectiveLabel(action, viewer)
  <2>1. asked \in CommandLabels
    BY ActionsPressed, LabelsOfActions
  <2>2. viewer \in Viewer /\ (viewer.aar.visible => AarAvailable(viewer.shown))
    BY DEF VInv, DisplayInv, ReviewOfFinishedRun
  <2>3. /\ Kept(Joined) /\ Agrees(viewer.shown, Joined)
        /\ Accepts(asked, Joined) <=> Permits(asked, Joined)
    BY <2>1, JoinedJudges
  <2>4. /\ ControlButtonEnabled(action, viewer) \in BOOLEAN
        /\ ControlButtonEnabled(action, viewer) <=> Permits(asked, Joined)
    BY <2>2, <2>3, ButtonsOfPicture
  <2>5. Accepts(asked, Joined) \in BOOLEAN
    BY DEF Accepts
  <2> HIDE DEF asked
  <2>6. ControlButtonEnabled(action, viewer) = Accepts(asked, Joined)
    BY <2>3, <2>4, <2>5
  <2>7. QED
    BY <2>6 DEF asked
<1>2. QED
  BY <1>1, SpecVInv, PTL

\* What an accepted command shows ahead of its snapshot comes true: if the picture
\* agreed with the authority, it still does once the authority has accepted
\* (send_and_expect_ack's copy of the session's own transitions).
THEOREM AnticipationsTrue == Spec => AnticipationRight
<1> DEFINE Right == (Press \/ ScriptStep) /\ viewer'.ok /\ Agrees(viewer.shown, session)
                       => Agrees(viewer'.shown, session')
<1>1. VInv /\ [Next]_<<conditions, vars>> => [Right]_vars
  <2> SUFFICES ASSUME VInv, Press \/ ScriptStep, viewer'.ok, Agrees(viewer.shown, session)
               PROVE  Agrees(viewer'.shown, session')
    OBVIOUS
  <2>1. viewer \in Viewer /\ viewer.shown \in Picture /\ ahead \in BOOLEAN
    BY DEF VInv, DisplayInv, Viewer
  <2>2. PICK action \in LiveActions : Perform(action)
    BY PressedActions DEF VInv, Counters
  <2>3. CASE action = "AAR"
    <3>1. Becomes(Joined, run) /\ viewer' \in {ReviewRefused(viewer), ReviewLoaded(viewer)}
      BY <2>1, <2>2, <2>3, PerformCases
    <3>2. viewer'.shown = viewer.shown
      BY <2>1, <3>1, ReviewEffect
    <3>3. "Reset" \in CommandLabels
      BY DEF CommandLabels
    <3>4. Agrees(viewer.shown, Joined) /\ session' = Joined
      BY <3>1, <3>3, JoinedJudges DEF Becomes
    <3>5. QED
      BY <3>2, <3>4
  <2>4. CASE action # "AAR"
    <3>1. PICK asked \in CommandLabels, accepted \in BOOLEAN :
             /\ accepted <=> Accepts(asked, Joined)
             /\ Commanded(asked, Joined)
             /\ viewer' = Acknowledged(viewer, asked, accepted)
      BY <2>1, <2>2, <2>4, PerformCases
    <3>2. /\ viewer'.ok = accepted
          /\ viewer'.shown = IF accepted THEN Anticipated(viewer.shown, asked) ELSE viewer.shown
      BY <2>1, <3>1, AcknowledgedEffect, ZenonT(40)
    <3>3. /\ Agrees(viewer.shown, Joined)
          /\ Accepts(asked, Joined) => Leads(asked, Joined, Handled(asked, Joined))
      BY JoinedJudges
    <3>4. session' = Handled(asked, Joined)
      BY <3>1 DEF Commanded, Becomes
    <3>5. QED
      BY <2>1, <3>1, <3>2, <3>3, <3>4 DEF Leads
  <2>5. QED
    BY <2>3, <2>4
<1>2. QED
  BY <1>1, SpecVInv, PTL DEF Spec, AnticipationRight

\* What an accepted command shows of the phase and the track.
LEMMA AnticipatedShows ==
    ASSUME NEW shown \in Picture, NEW asked \in CommandLabels
    PROVE  /\ Anticipated(shown, asked).phase = AnticipatedPhase(shown.phase, asked)
           /\ asked = "Acquire Track" => Anticipated(shown, asked).tracked
<1> DEFINE phase == AnticipatedPhase(shown.phase, asked)
           next == [shown EXCEPT !.phase = phase]
           start == [next EXCEPT !.target = TRUE, !.order = "None",
                                 !.interceptor = "Idle", !.tracked = FALSE]
           ready == [next EXCEPT !.asset = TRUE, !.interceptor = "Ready"]
           acquired == [next EXCEPT !.tracked = TRUE]
           dropped == [next EXCEPT !.tracked = FALSE]
           ordered == [next EXCEPT !.order = "Accepted", !.interceptor = "Ready"]
           reset == [next EXCEPT !.target = FALSE, !.asset = FALSE, !.tracked = FALSE,
                                 !.order = "None", !.interceptor = "Idle",
                                 !.ready = FALSE, !.code = "Pending"]
<1>1. Anticipated(shown, asked) =
         CASE asked = "Start" -> start [] asked = "Ready" -> ready
           [] asked = "Acquire Track" -> acquired [] asked = "Drop Track" -> dropped
           [] asked = "Engage" -> ordered [] asked = "Reset" -> reset
  BY DEF Anticipated
<1> HIDE DEF phase
<1>2. /\ start.phase = phase /\ ready.phase = phase /\ acquired.phase = phase
      /\ dropped.phase = phase /\ ordered.phase = phase /\ reset.phase = phase
      /\ acquired.tracked = TRUE
  BY DEF Picture
<1> HIDE DEF start, ready, acquired, dropped, ordered, reset
<1>3. /\ Anticipated(shown, asked) \in {start, ready, acquired, dropped, ordered, reset}
      /\ asked = "Acquire Track" => Anticipated(shown, asked) = acquired
  BY <1>1 DEF CommandLabels
<1>4. Anticipated(shown, asked).phase = phase
  BY <1>2, <1>3
<1>5. QED
  BY <1>2, <1>3, <1>4 DEF phase

\* The recommended control is one of those there are to press.
LEMMA RecommendedVisible ==
    ASSUME NEW v \in Viewer, NEW s, Kept(s), Agrees(v.shown, s),
           v.aar.visible => AarAvailable(v.shown), RecommendedControl(v) # "none"
    PROVE  RecommendedControl(v) \in VisibleLiveActions(LayoutModeForState(v))
<1>1. /\ v.shown.phase \in SessionPhase /\ v.shown.phase = s.phase /\ v.shown.ready = s.ready
  BY DEF Viewer, Picture, Agrees
<1>2. s.phase \in {"Standby", "Detecting", "Tracking", "InterceptorReady"} => ~s.ready
  BY DEF Kept, MissionFacts, PhaseFacts, PreLaunch
<1>3. CASE v.shown.phase = "Standby"
  <2>1. RecommendedControl(v) = "Start"
    BY <1>3 DEF RecommendedControl
  <2>2. LayoutModeForState(v) = "StandbySetup"
    BY <1>1, <1>2, <1>3 DEF LayoutModeForState, AarAvailable
  <2>3. QED
    BY <2>1, <2>2 DEF VisibleLiveActions
<1>4. CASE v.shown.phase \in {"Detecting", "Tracking", "InterceptorReady"}
  <2>1. RecommendedControl(v) \in {"Track", "Ready", "Engage"}
    BY <1>4 DEF RecommendedControl
  <2>2. LayoutModeForState(v) = "LiveTactical"
    BY <1>1, <1>2, <1>4 DEF LayoutModeForState, AarAvailable
  <2>3. QED
    BY <2>1, <2>2 DEF VisibleLiveActions
<1>5. CASE v.shown.phase \in {"EngageOrdered", "Intercepting"}
  BY <1>5 DEF RecommendedControl
<1>6. CASE v.shown.phase \in {"Assessed", "Archived"}
  <2>1. RecommendedControl(v) \in {"AAR", "Reset"}
    BY <1>6 DEF RecommendedControl
  <2>2. LayoutModeForState(v) = "ReviewTactical"
    BY <1>6 DEF LayoutModeForState
  <2>3. QED
    BY <2>1, <2>2 DEF VisibleLiveActions
<1>7. QED
  BY <1>1, <1>3, <1>4, <1>5, <1>6 DEF SessionPhase

\* Before the review, the recommended command is permitted, and what is shown of
\* it recommends another.
LEMMA RecommendedAdvances ==
    ASSUME NEW v \in Viewer, NEW s, Kept(s), Agrees(v.shown, s),
           RecommendedControl(v) \notin {"none", "AAR"},
           NEW w \in Viewer,
           w.shown = Anticipated(v.shown, EffectiveLabel(RecommendedControl(v), v))
    PROVE  /\ Permits(EffectiveLabel(RecommendedControl(v), v), s)
           /\ RecommendedControl(w) # RecommendedControl(v)
<1> DEFINE asked == EffectiveLabel(RecommendedControl(v), v)
<1>1. /\ v.shown \in Picture /\ v.shown.phase \in SessionPhase /\ v.shown.tracked \in BOOLEAN
      /\ v.shown.phase = s.phase /\ v.shown.tracked = s.track.active
  BY DEF Viewer, Picture, Agrees
<1>2. /\ s.phase = "Detecting" => ~s.track.active
      /\ s.phase = "Tracking" => s.track.active
      /\ s.phase = "InterceptorReady" => s.interceptor = "Ready"
  BY DEF Kept, MissionFacts, PhaseFacts
<1>3. ASSUME NEW l \in CommandLabels, asked = l
      PROVE  /\ w.shown.phase = AnticipatedPhase(v.shown.phase, l)
             /\ l = "Acquire Track" => w.shown.tracked
  BY <1>1, <1>3, AnticipatedShows
<1>4. CASE v.shown.phase = "Standby"
  <2>1. RecommendedControl(v) = "Start" /\ asked = "Start"
    BY <1>4 DEF RecommendedControl, EffectiveLabel
  <2>2. w.shown.phase = "Detecting"
    BY <1>3, <2>1 DEF AnticipatedPhase, CommandLabels
  <2>3. RecommendedControl(w) = "Track"
    BY <2>2 DEF RecommendedControl
  <2>4. Permits("Start", s)
    BY <1>1, <1>4 DEF Permits
  <2>5. QED
    BY <2>1, <2>3, <2>4
<1>5. CASE v.shown.phase = "Detecting"
  <2>1. RecommendedControl(v) = "Track"
    BY <1>5 DEF RecommendedControl
  <2>2. asked = "Acquire Track"
    BY <1>1, <1>2, <1>5, <2>1 DEF EffectiveLabel
  <2>3. w.shown.phase = "Tracking"
    BY <1>3, <1>5, <2>2 DEF AnticipatedPhase, CommandLabels
  <2>4. RecommendedControl(w) = "Ready"
    BY <2>3 DEF RecommendedControl
  <2>5. Permits("Acquire Track", s)
    BY <1>1, <1>5 DEF Permits
  <2>6. QED
    BY <2>1, <2>2, <2>4, <2>5
<1>6. CASE v.shown.phase = "Tracking"
  <2>1. RecommendedControl(v) = "Ready" /\ asked = "Ready"
    BY <1>6 DEF RecommendedControl, EffectiveLabel
  <2>2. w.shown.phase = "InterceptorReady"
    BY <1>3, <2>1 DEF AnticipatedPhase, CommandLabels
  <2>3. RecommendedControl(w) \in {"Engage", "Track"}
    BY <2>2 DEF RecommendedControl
  <2>4. Permits("Ready", s)
    BY <1>1, <1>2, <1>6 DEF Permits
  <2>5. QED
    BY <2>1, <2>3, <2>4
<1>7. CASE v.shown.phase = "InterceptorReady" /\ v.shown.tracked
  <2>1. RecommendedControl(v) = "Engage" /\ asked = "Engage"
    BY <1>7 DEF RecommendedControl, EffectiveLabel
  <2>2. w.shown.phase = "EngageOrdered"
    BY <1>3, <2>1 DEF AnticipatedPhase, CommandLabels
  <2>3. RecommendedControl(w) = "none"
    BY <2>2 DEF RecommendedControl
  <2>4. Permits("Engage", s)
    BY <1>1, <1>2, <1>7 DEF Permits
  <2>5. QED
    BY <2>1, <2>3, <2>4
<1>8. CASE v.shown.phase = "InterceptorReady" /\ ~v.shown.tracked
  <2>1. RecommendedControl(v) = "Track"
    BY <1>8 DEF RecommendedControl
  <2>2. asked = "Acquire Track"
    BY <1>8, <2>1 DEF EffectiveLabel
  <2>3. w.shown.phase = "InterceptorReady" /\ w.shown.tracked
    BY <1>3, <1>8, <2>2 DEF AnticipatedPhase, CommandLabels
  <2>4. RecommendedControl(w) = "Engage"
    BY <2>3 DEF RecommendedControl
  <2>5. Permits("Acquire Track", s)
    BY <1>1, <1>8 DEF Permits
  <2>6. QED
    BY <2>1, <2>2, <2>4, <2>5
<1>9. CASE v.shown.phase \in {"EngageOrdered", "Intercepting"}
  BY <1>9 DEF RecommendedControl
<1>10. CASE v.shown.phase \in {"Assessed", "Archived"}
  <2>1. RecommendedControl(v) = "Reset"
    BY <1>10 DEF RecommendedControl
  <2>2. asked = "Reset"
    BY <2>1 DEF EffectiveLabel
  <2>3. w.shown.phase = "Standby"
    BY <1>3, <2>2 DEF AnticipatedPhase, CommandLabels
  <2>4. RecommendedControl(w) = "Start"
    BY <2>3 DEF RecommendedControl
  <2>5. Permits("Reset", s)
    BY DEF Permits
  <2>6. QED
    BY <2>1, <2>2, <2>4, <2>5
<1>11. QED
  BY <1>1, <1>4, <1>5, <1>6, <1>7, <1>8, <1>9, <1>10 DEF SessionPhase

\* An operator who does what the display recommends gets on: of a picture that
\* agrees with the authority, the recommended control is on the panel, is
\* accepted, and leads to another recommendation (recommended_control_label,
\* visible_live_actions and the session's guards).
THEOREM RecommendationsLeadOn == Spec => RecommendationLeadsOn
<1> DEFINE Recommended == RecommendedControl(viewer)
           LeadsOn == Press /\ Agrees(viewer.shown, session) /\ Recommended # "none" =>
                        /\ Recommended \in VisibleLiveActions(LayoutModeForState(viewer))
                        /\ Perform(Recommended) =>
                              viewer'.ok /\ RecommendedControl(viewer') # Recommended
<1>1. VInv /\ [Next]_<<conditions, vars>> => [LeadsOn]_vars
  <2> SUFFICES ASSUME VInv, Agrees(viewer.shown, session), Recommended # "none"
               PROVE  /\ Recommended \in VisibleLiveActions(LayoutModeForState(viewer))
                      /\ Perform(Recommended) =>
                            viewer'.ok /\ RecommendedControl(viewer') # Recommended
    OBVIOUS
  <2>1. /\ viewer \in Viewer /\ viewer.shown \in Picture /\ ahead \in BOOLEAN
        /\ viewer.aar.visible => AarAvailable(viewer.shown)
    BY DEF VInv, DisplayInv, Viewer, ReviewOfFinishedRun
  <2>2. Kept(session)
    BY DEF VInv, ServerInv
  <2>3. Recommended \in VisibleLiveActions(LayoutModeForState(viewer)) /\ Recommended \in LiveActions
    BY <2>1, <2>2, RecommendedVisible, ActionsPressed
  <2>4. ASSUME Perform(Recommended), Recommended = "AAR"
        PROVE  viewer'.ok /\ RecommendedControl(viewer') # Recommended
    <3>1. /\ viewer.shown.phase \in {"Assessed", "Archived"} /\ AarAvailable(viewer.shown)
      BY <2>1, <2>4 DEF RecommendedControl, Picture, SessionPhase
    <3>2. viewer' = ReviewLoaded(viewer)
      BY <2>1, <2>3, <2>4, <3>1, PerformCases
    <3>3. viewer'.ok /\ viewer'.aar.loaded /\ viewer'.shown = viewer.shown
      BY <2>1, <3>2, ReviewEffect
    <3>4. RecommendedControl(viewer') = "Reset"
      BY <3>1, <3>3 DEF RecommendedControl
    <3>5. QED
      BY <2>4, <3>3, <3>4
  <2>5. ASSUME Perform(Recommended), Recommended # "AAR"
        PROVE  viewer'.ok /\ RecommendedControl(viewer') # Recommended
    <3> DEFINE asked == EffectiveLabel(Recommended, viewer)
    <3>1. PICK accepted \in BOOLEAN :
             /\ asked \in CommandLabels /\ (accepted <=> Accepts(asked, Joined))
             /\ viewer' = Acknowledged(viewer, asked, accepted)
      BY <2>1, <2>3, <2>5, PerformCases
    <3>2. /\ Kept(Joined) /\ Agrees(viewer.shown, Joined)
          /\ Accepts(asked, Joined) <=> Permits(asked, Joined)
      BY <3>1, JoinedJudges
    <3>3. /\ viewer' \in Viewer /\ viewer'.ok = accepted
          /\ viewer'.shown = IF accepted THEN Anticipated(viewer.shown, asked) ELSE viewer.shown
      BY <2>1, <3>1, AcknowledgedEffect
    <3>4. Acknowledged(viewer, asked, TRUE) \in Viewer
          /\ Acknowledged(viewer, asked, TRUE).shown = Anticipated(viewer.shown, asked)
      BY <2>1, <3>1, AcknowledgedEffect, ZenonT(40)
    <3>5. Permits(asked, Joined)
      BY <2>1, <2>5, <3>2, <3>4, RecommendedAdvances
    <3>6. accepted
      BY <3>1, <3>2, <3>5
    <3>7. viewer'.shown = Anticipated(viewer.shown, asked)
      BY <3>3, <3>6
    <3>8. RecommendedControl(viewer') # Recommended
      BY <2>1, <2>5, <3>2, <3>3, <3>7, RecommendedAdvances
    <3>9. QED
      BY <3>3, <3>6, <3>8
  <2>6. QED
    BY <2>3, <2>4, <2>5
<1>2. QED
  BY <1>1, SpecVInv, PTL DEF Spec, RecommendationLeadsOn

--------------------------------------------------------------------------------
(****************************************************************************)
(* What the script can rely on.  A script that is the only operator, with   *)
(* every picture in time, is never ahead of a verdict it does not know of:  *)
(* an order still open is shown, and a verdict shown is there.              *)
(****************************************************************************)

\* The orders without a verdict.
Open == {"Accepted", "Executing"}

\* The script is the only operator, and no picture is overtaken by a newer one.
ScriptAlone == conditions.operators = {"Script"} /\ ~conditions.late

\* What picture p says of the order of session s.
Informs(p, s) == (p.ready => s.ready) /\ (s.order \in Open => p.order # "None")

\* From s to t no verdict is lost, none is there without an open order before, and
\* no order is given.
Quiet(s, t) ==
    /\ s.ready => t.ready
    /\ t.ready => s.ready \/ s.order \in Open
    /\ t.order \in Open => s.order \in Open

\* What is published shows the order it has; what is not is quiet.
Tells(s, t) ==
    /\ t.sequence = s.sequence => Quiet(s, t)
    /\ t.sequence # s.sequence => t.latest.order = t.order

\* t is u with an event logged, and published.
Records(u, t) ==
    /\ t.sequence = u.sequence + 1 /\ t.latest.order = t.order
    /\ t.order = u.order /\ t.ready = u.ready

\* An event and the snapshot behind it record the session and leave its orders alone.
LEMMA EventsRecord ==
    ASSUME NEW u \in Session, NEW type \in EventType, NEW tracked \in BOOLEAN
    PROVE  /\ Records(u, RecordSnapshot(PushEvent(u, type)))
           /\ Records(u, RecordSnapshot(PushTrackEvent(u, type, tracked)))
<1>1. \A l \in {PushEvent(u, type), PushTrackEvent(u, type, tracked)} :
         l \in Session /\ l.sequence = u.sequence /\ l.order = u.order /\ l.ready = u.ready
  <2>1. PushEvent(u, type) \in Session /\ PushTrackEvent(u, type, tracked) \in Session
    BY PushEventType, PushTrackEventType
  <2>2. QED
    BY <2>1 DEF PushEvent, PushTrackEvent, Session
<1>2. ASSUME NEW l \in Session, l.sequence = u.sequence, l.order = u.order, l.ready = u.ready
      PROVE  Records(u, RecordSnapshot(l))
  BY <1>2, RecordSnapshotFields DEF Records, SameRecord, SameMission
<1>3. QED
  BY <1>1, <1>2

\* A refusal publishes nothing, and no order it leaves is open that was not.
LEMMA RefusalsQuiet ==
    ASSUME NEW s \in Session, NEW t \in {RejectCommand(s), RecordTransportRejection(s)}
    PROVE  t.sequence = s.sequence /\ Quiet(s, t)
<1> DEFINE logged == PushEvent(s, "EngageOrderRejected")
<1>1. t.sequence = s.sequence
  BY RejectionsPicture DEF SamePicture
<1>2. logged \in Session /\ logged.order = s.order /\ logged.ready = s.ready
  BY PushEventType, PushEventSame DEF EventType, SameRecord, SameMission
<1>3. t = logged \/ t = [logged EXCEPT !.order = "Rejected", !.code = "InvalidTransition"]
  BY DEF RejectCommand, RecordTransportRejection
<1> HIDE DEF logged
<1>4. t.ready = s.ready /\ t.order \in {s.order, "Rejected"}
  BY <1>2, <1>3 DEF Session
<1>5. QED
  BY <1>1, <1>4 DEF Quiet, Open

\* advance_tick settles an open order and opens none.
LEMMA TickQuiet ==
    ASSUME NEW s, Kept(s), NEW hit \in BOOLEAN
    PROVE  Tells(s, AdvanceTick(s, hit, TRUE)) /\ Quiet(s, AdvanceTick(s, hit, TRUE))
<1>1. s \in Session /\ (s.phase = "Standby" => ~s.track.active)
  BY DEF Kept, MissionFacts, PhaseFacts
<1>2. AdvanceTick(s, hit, TRUE).latest.order = AdvanceTick(s, hit, TRUE).order
  <2>1. Published(s, AdvanceTick(s, hit, TRUE))
    BY <1>1, AdvanceTickPicture
  <2>2. PICK u \in Session : AdvanceTick(s, hit, TRUE) = RecordSnapshot(u)
    BY <2>1 DEF Published
  <2>3. RecordSnapshot(u).latest.order = RecordSnapshot(u).order
    BY RecordSnapshotFields DEF SameRecord, SameMission
  <2>4. QED
    BY <2>2, <2>3
<1>3. CASE s.phase = "Assessed"
  <2> DEFINE a == [s EXCEPT !.tick = @ + 1]
             u == [a EXCEPT !.phase = "Archived"]
  <2>1. s.tick + 1 \in Nat
    BY <1>1 DEF Session
  <2>2. a \in Session /\ a.phase = "Assessed" /\ a.order = s.order /\ a.ready = s.ready
    BY <1>1, <1>3, <2>1 DEF Session
  <2>3. AdvanceTick(s, hit, TRUE) = ArchiveSession(a)
    BY <1>3 DEF AdvanceTick
  <2> HIDE DEF a
  <2>4. ArchiveSession(a) = RecordSnapshot(PushEvent(u, "SessionEnded"))
    BY <2>2 DEF ArchiveSession
  <2>5. u \in Session /\ u.order = a.order /\ u.ready = a.ready
    BY <2>2 DEF Session, SessionPhase
  <2> HIDE DEF u
  <2>6. Records(u, RecordSnapshot(PushEvent(u, "SessionEnded")))
    BY <2>5, EventsRecord DEF EventType
  <2>7. QED
    BY <1>2, <2>2, <2>3, <2>4, <2>5, <2>6 DEF Records, Tells, Quiet
<1>4. CASE s.phase # "Assessed"
  <2> DEFINE a == Launched(s)
             b == SeekerUpdated(a, TRUE)
             c == Assessed(b, hit)
             d == GapExercised(c)
             t == RecordSnapshot(d)
  <2>1. AdvanceTick(s, hit, TRUE) = t
    BY <1>4 DEF AdvanceTick
  <2>2. a \in Session /\ a.ready = s.ready /\ (a.order \in Open => s.order \in Open)
    <3>1. a \in Session
      BY <1>1, LaunchedType
    <3>2. /\ a.ready = s.ready
          /\ a.order = IF s.order = "Accepted" /\ s.phase = "EngageOrdered" THEN "Executing"
                      ELSE s.order
      BY <1>1 DEF Launched, Session
    <3> HIDE DEF a
    <3>3. QED
      BY <3>1, <3>2 DEF Open
  <2> HIDE DEF a
  <2>3. b \in Session /\ b.ready = a.ready /\ b.order = a.order
    BY <2>2, SeekerUpdatedType DEF SeekerUpdated, Session
  <2> HIDE DEF b
  <2>4. c \in Session /\ Quiet(b, c)
    <3>1. ASSUME NEW v \in Session, NEW code \in AssessmentCode
          PROVE  Verdict(v, code).ready = TRUE /\ Verdict(v, code).order = "Completed"
      BY <3>1 DEF Verdict, PushEvent, Session
    <3> DEFINE v == [b EXCEPT !.targetActive = FALSE, !.track.active = FALSE, !.seekerLock = FALSE]
    <3>2. v \in Session
      <4>1. [b.track EXCEPT !.active = FALSE] \in TrackState
        BY <2>3 DEF Session, TrackState
      <4>2. QED
        BY <2>3, <4>1 DEF Session
    <3>3. \/ c = b
          \/ /\ b.order = "Executing"
             /\ c \in {Verdict(v, "InterceptSuccess"), Verdict(b, "TimeoutObserved")}
      BY DEF Assessed
    <3> HIDE DEF v
    <3>4. CASE c = b
      BY <3>4, <2>3, AssessedType DEF Quiet
    <3>5. CASE /\ b.order = "Executing"
               /\ c \in {Verdict(v, "InterceptSuccess"), Verdict(b, "TimeoutObserved")}
      <4>1. c.ready = TRUE /\ c.order = "Completed"
        BY <2>3, <3>1, <3>2, <3>5 DEF AssessmentCode
      <4>2. QED
        BY <2>3, <3>5, <4>1, AssessedType DEF Quiet, Open
    <3>6. QED
      BY <3>3, <3>4, <3>5
  <2> HIDE DEF c
  <2>5. d \in Session /\ d.ready = c.ready /\ d.order = c.order
    <3> DEFINE u == [c EXCEPT !.gapExercised = TRUE]
    <3>1. u \in Session /\ u.ready = c.ready /\ u.order = c.order
      BY <2>4 DEF Session
    <3>2. d \in {c, PushEvent(u, "ResilienceTriggered")}
      BY DEF GapExercised
    <3> HIDE DEF u
    <3>3. SameRecord(u, PushEvent(u, "ResilienceTriggered"))
      BY <3>1, PushEventSame DEF EventType
    <3>4. QED
      BY <2>4, <3>1, <3>2, <3>3, GapExercisedType DEF SameRecord, SameMission
  <2> HIDE DEF d
  <2>6. t.ready = d.ready /\ t.order = d.order
    BY <2>5, RecordSnapshotSame DEF SameRecord, SameMission
  <2> HIDE DEF t
  <2>7. Quiet(s, t)
    BY <2>2, <2>3, <2>4, <2>5, <2>6 DEF Quiet
  <2>8. QED
    BY <1>2, <2>1, <2>7 DEF Tells
<1>5. QED
  BY <1>3, <1>4

\* A command carried out: only an order is open afterwards, only a reset takes a
\* verdict back.
Carried(asked, s, t) ==
    /\ t.sequence # s.sequence /\ t.latest.order = t.order
    /\ IF asked = "Reset" THEN ~t.ready ELSE ~s.ready
    /\ asked # "Engage" => t.order \notin Open

\* A command of the display is carried out and told, or it changes nothing a script waits for.
LEMMA CommandsTell ==
    ASSUME NEW s, Kept(s), ConsoleThere(s), NEW asked \in CommandLabels
    PROVE  LET t == Handled(asked, s)
           IN  IF Permits(asked, s) THEN Carried(asked, s, t)
               ELSE t.sequence = s.sequence /\ Quiet(s, t)
<1>1. /\ s \in Session /\ s.sequence \in Nat /\ s.track.active \in BOOLEAN
      /\ s.timeoutTicks \in EngagementTimeouts
  BY DEF Kept, Session, TrackState
<1>2. s.phase \in {"Standby", "Detecting", "Tracking", "InterceptorReady"} =>
         s.order \notin Open /\ ~s.ready
  BY DEF Kept, MissionFacts, PhaseFacts, PreLaunch, Open
<1>3. CASE ~Permits(asked, s)
  <2>1. Handled(asked, s) \in {RejectCommand(s), RecordTransportRejection(s)}
    BY <1>3 DEF CommandLabels, Permits, Handled, Outcome, RequestTrack, ReleaseTrack,
       ActivateAsset, IssueCommand
  <2>2. QED
    BY <1>1, <1>3, <2>1, RefusalsQuiet
<1>4. ASSUME NEW u \in Session, u.sequence = s.sequence, Records(u, Handled(asked, s)),
             IF asked = "Reset" THEN ~u.ready ELSE ~s.ready,
             asked # "Engage" => u.order \notin Open
      PROVE  Carried(asked, s, Handled(asked, s))
  BY <1>1, <1>4 DEF Records, Carried
<1>5. CASE Permits(asked, s) /\ asked = "Start"
  <2> DEFINE c == ConfigureScenario(s, s.timeoutTicks)
             u == [c EXCEPT !.phase = "Detecting", !.targetActive = TRUE,
                            !.track = ClearedTrack, !.interceptor = "Idle",
                            !.order = "None", !.ready = FALSE, !.code = "Pending"]
  <2>1. s.phase = "Standby"
    BY <1>5 DEF Permits
  <2>2. c \in Session /\ c.phase = "Standby" /\ c.connection = s.connection
        /\ c.sequence = s.sequence
    BY <1>1, <2>1, ConfigureScenarioType DEF ConfigureScenario, ResetWorld, Session
  <2>3. Handled("Start", s) = StartScenario(c)
    BY <2>1 DEF Handled, Outcome
  <2> HIDE DEF c
  <2>4. StartScenario(c) = RecordSnapshot(PushEvent(u, "SessionStarted"))
    BY <2>2 DEF StartScenario, ConsoleThere
  <2>5. u \in Session /\ u.sequence = s.sequence /\ u.order = "None"
    BY <2>2, TrackConstantsType
    DEF Session, SessionPhase, InterceptorStatus, EngageOrderStatus, AssessmentCode
  <2> HIDE DEF u
  <2>6. QED
    BY <1>2, <1>4, <1>5, <2>1, <2>3, <2>4, <2>5, EventsRecord DEF EventType, Open
<1>6. CASE Permits(asked, s) /\ asked = "Acquire Track"
  <2> DEFINE u == [s EXCEPT !.track = SeededTrack,
                            !.phase = IF @ = "Detecting" THEN "Tracking" ELSE @]
  <2>1. Handled(asked, s) = RecordSnapshot(PushTrackEvent(u, "TrackUpdated", TRUE))
    BY <1>6 DEF Handled, Outcome, RequestTrack, Permits
  <2>2. u \in Session /\ u.sequence = s.sequence /\ u.order = s.order
    BY <1>1, TrackConstantsType DEF Session, SessionPhase
  <2> HIDE DEF u
  <2>3. s.phase \in {"Detecting", "InterceptorReady"}
    BY <1>6 DEF Permits
  <2>4. QED
    BY <1>2, <1>4, <1>6, <2>1, <2>2, <2>3, EventsRecord DEF EventType
<1>7. CASE Permits(asked, s) /\ asked = "Drop Track"
  <2> DEFINE u == [s EXCEPT !.track = ClearedTrack,
                            !.phase = IF @ = "Tracking" THEN "Detecting" ELSE @]
  <2>1. Handled(asked, s) = RecordSnapshot(PushTrackEvent(u, "TrackUpdated", FALSE))
    BY <1>7 DEF Handled, Outcome, ReleaseTrack, Permits
  <2>2. u \in Session /\ u.sequence = s.sequence /\ u.order = s.order
    BY <1>1, TrackConstantsType DEF Session, SessionPhase
  <2> HIDE DEF u
  <2>3. s.phase \in {"Tracking", "InterceptorReady"}
    BY <1>7 DEF Permits
  <2>4. QED
    BY <1>2, <1>4, <1>7, <2>1, <2>2, <2>3, EventsRecord DEF EventType
<1>8. CASE Permits(asked, s) /\ asked = "Ready"
  <2> DEFINE u == [s EXCEPT !.interceptor = "Ready", !.assetActive = TRUE,
                            !.phase = "InterceptorReady"]
  <2>1. Handled(asked, s) = RecordSnapshot(PushEvent(u, "InterceptorUpdated"))
    BY <1>8 DEF Handled, Outcome, ActivateAsset, Permits
  <2>2. u \in Session /\ u.sequence = s.sequence /\ u.order = s.order
    BY <1>1 DEF Session, SessionPhase, InterceptorStatus
  <2> HIDE DEF u
  <2>3. s.phase = "Tracking"
    BY <1>8 DEF Permits
  <2>4. QED
    BY <1>2, <1>4, <1>8, <2>1, <2>2, <2>3, EventsRecord DEF EventType
<1>9. CASE Permits(asked, s) /\ asked = "Engage"
  <2> DEFINE u == [s EXCEPT !.order = "Accepted", !.phase = "EngageOrdered", !.started = s.tick]
  <2>1. Handled(asked, s)
          = RecordSnapshot(PushTrackEvent(u, "EngageOrderAccepted", s.track.active))
    BY <1>9 DEF Handled, Outcome, IssueCommand, Permits
  <2>2. u \in Session /\ u.sequence = s.sequence
    BY <1>1 DEF Session, SessionPhase, EngageOrderStatus
  <2> HIDE DEF u
  <2>3. s.phase = "InterceptorReady"
    BY <1>9 DEF Permits
  <2>4. QED
    BY <1>1, <1>2, <1>4, <1>9, <2>1, <2>2, <2>3, EventsRecord DEF EventType
<1>10. CASE asked = "Reset"
  <2> DEFINE w == ResetWorld(s)
             u == [w EXCEPT !.tick = 0, !.phase = "Standby",
                            !.reconnectExercised = FALSE, !.timeoutExercised = FALSE,
                            !.gapExercised = FALSE,
                            !.log = EmptyLog, !.snapshots = 0, !.latest = NoSnapshot,
                            !.connection = [r \in ClientRole |-> Settled(s.connection[r])]]
  <2>1. w \in Session /\ w.order = "None" /\ w.ready = FALSE /\ w.sequence = s.sequence
    BY <1>1, ResetWorldType DEF ResetWorld, Session
  <2>2. Handled(asked, s) = RecordSnapshot(u)
    BY <1>10 DEF Handled, Outcome, ResetSession
  <2>3. u \in Session
    <3>1. EmptyLog \in EventLog
      BY DEF EmptyLog, EventLog, TrackProfile
    <3>2. NoSnapshot \in Snapshot
      BY TrackConstantsType
      DEF NoSnapshot, Snapshot, SessionPhase, InterceptorStatus, EngageOrderStatus,
          AssessmentCode, ConnectionState
    <3>3. [r \in ClientRole |-> Settled(s.connection[r])] \in [ClientRole -> ConnectionState]
      BY <1>1 DEF Session, Settled, ConnectionState
    <3> HIDE DEF w
    <3>4. QED
      BY <2>1, <3>1, <3>2, <3>3 DEF Session, SessionPhase
  <2> HIDE DEF w
  <2>4. u.order = "None" /\ u.ready = FALSE /\ u.sequence = s.sequence
    BY <2>1 DEF Session
  <2> HIDE DEF u
  <2>5. Records(u, RecordSnapshot(u))
    BY <2>3, RecordSnapshotFields DEF Records, SameRecord, SameMission
  <2>6. QED
    BY <1>4, <1>10, <2>2, <2>3, <2>4, <2>5 DEF Permits, Open
<1>11. QED
  BY <1>3, <1>5, <1>6, <1>7, <1>8, <1>9, <1>10 DEF CommandLabels, Permits

\* What is shown of an accepted command: a reset takes a verdict back, an
\* engagement shows its order, and no verdict is shown that was not.
LEMMA AnticipatedTells ==
    ASSUME NEW shown \in Picture, NEW asked \in CommandLabels
    PROVE  LET p == Anticipated(shown, asked)
           IN  /\ IF asked = "Reset" THEN ~p.ready ELSE p.ready = shown.ready
               /\ asked = "Engage" => p.order # "None"
<1> DEFINE next == [shown EXCEPT !.phase = AnticipatedPhase(@, asked)]
<1>1. /\ Anticipated(shown, "Start").ready = shown.ready
      /\ Anticipated(shown, "Acquire Track").ready = shown.ready
      /\ Anticipated(shown, "Drop Track").ready = shown.ready
      /\ Anticipated(shown, "Ready").ready = shown.ready
  BY DEF Anticipated, Picture
<1>2. /\ Anticipated(shown, "Engage").ready = shown.ready
      /\ Anticipated(shown, "Engage").order = "Accepted"
      /\ Anticipated(shown, "Reset").ready = FALSE
  BY DEF Anticipated, Picture
<1>3. QED
  BY <1>1, <1>2 DEF CommandLabels

\* A snapshot leaves the link as it is, and every answer finds it up.
LEMMA LinkUp ==
    ASSUME NEW v \in Viewer
    PROVE  /\ \A p \in Picture : ApplySnapshot(v, p).connected = v.connected
           /\ \A asked, accepted : Acknowledged(v, asked, accepted).connected = TRUE
           /\ ReviewRefused(v).connected = TRUE /\ ReviewLoaded(v).connected = TRUE
BY DEF Viewer, ApplySnapshot, Shown, Acknowledged, ReviewRefused, ReviewLoaded

\* The newest picture, if there is one, informs of the session.
NewestInforms == published # <<>> => Informs(published[Len(published)], session)

\* The newest picture informs of the session the server has just come to.
LEMMA BecomesInforms ==
    ASSUME published \in Seq(Picture), NewestInforms,
           NEW s, Kept(s), Tells(session, s), NEW r, Becomes(s, r)
    PROVE  NewestInforms'
<1>1. session' = s
  BY DEF Becomes
<1>2. CASE s.sequence = session.sequence
  BY <1>1, <1>2 DEF Becomes, NewestInforms, Tells, Quiet, Informs
<1>3. CASE s.sequence # session.sequence
  <2> DEFINE p == PictureOf(s, r)
  <2>1. published' = Append(published, p)
    BY <1>3 DEF Becomes
  <2>2. published'[Len(published')] = p
    BY <2>1
  <2>3. p.ready = s.ready /\ p.order = s.order
    BY <1>3 DEF PictureOf, Tells, Kept, Drawn, PictureFacts
  <2> HIDE DEF p
  <2>4. QED
    BY <1>1, <2>2, <2>3 DEF NewestInforms, Informs, Open
<1>4. QED
  BY <1>2, <1>3

\* As long as the script's link is up or not asked for, what is shown and what
\* is newest inform of the order, and after a review no order is open.
Aware ==
    /\ Informs(viewer.shown, session) /\ NewestInforms
    /\ step = 0 \/ Script[step] = "AAR" => session.order \notin Open

\* The inductive invariant.  Nobody has given an order before the link is asked for.
ScriptInv ==
    /\ ScriptAlone /\ holder # "Console"
    /\ ~viewer.connected => ~session.ready /\ session.order \notin Open
    /\ ~LinkFails => Aware

\* At first nothing is open and nothing is shown.
LEMMA InitScript == Init /\ ScriptAlone => ScriptInv
<1> SUFFICES ASSUME Init, ScriptAlone PROVE ScriptInv
  OBVIOUS
<1>1. PICK t \in EngagementTimeouts : session = NewSession(t)
  BY DEF Init
<1>2. session.ready = FALSE /\ session.order = "None"
  BY <1>1 DEF NewSession
<1>3. viewer.shown.ready = FALSE
  BY DEF Init, NewViewer
<1>4. QED
  BY <1>2, <1>3 DEF Init, ScriptInv, Aware, Informs, NewestInforms, Open

\* A tick and a restart keep what the script relies on.
LEMMA ServerScript ==
    ASSUME VInv, ScriptInv, Tick \/ Restart, UNCHANGED conditions
    PROVE  ScriptInv'
<1>1. Kept(session) /\ published \in Seq(Picture)
  BY DEF VInv, ServerInv
<1>2. CASE Tick
  <2>1. PICK hit \in BOOLEAN : Becomes(AdvanceTick(session, hit, TRUE), run)
    BY <1>2 DEF Tick
  <2> DEFINE s == AdvanceTick(session, hit, TRUE)
  <2>2. Kept(s) /\ Tells(session, s) /\ Quiet(session, s)
    BY <1>1, TickFollows, TickQuiet DEF Follows
  <2>3. session' = s /\ UNCHANGED <<holder, viewer, step>>
    BY <1>2, <2>1 DEF Tick, Becomes
  <2> HIDE DEF s
  <2>4. Becomes(s, run)
    BY <2>1 DEF s
  <2>5. LinkFails' <=> LinkFails
    BY <2>3 DEF LinkFails
  <2>6. ~LinkFails => NewestInforms'
    BY <1>1, <2>2, <2>4, BecomesInforms DEF ScriptInv, Aware
  <2>7. ~LinkFails => Aware'
    BY <2>2, <2>3, <2>6 DEF ScriptInv, Aware, Informs, Quiet
  <2>8. QED
    BY <2>2, <2>3, <2>5, <2>7 DEF ScriptInv, ScriptAlone, Quiet
<1>3. CASE Restart
  <2> DEFINE s == NewSession(session.timeoutTicks)
  <2>1. s.ready = FALSE /\ s.order = "None"
    BY DEF NewSession
  <2>2. session' = s /\ holder' = "Nobody" /\ UNCHANGED <<published, viewer, step>>
    BY <1>3 DEF Restart
  <2> HIDE DEF s
  <2>3. ASSUME ~LinkFails' PROVE Aware'
    <3>1. ~viewer.connected
      BY <2>2, <2>3 DEF LinkFails
    <3>2. ~LinkFails /\ ~session.ready
      BY <3>1 DEF ScriptInv, LinkFails
    <3>3. ~viewer.shown.ready /\ (published # <<>> => ~published[Len(published)].ready)
      BY <3>2 DEF ScriptInv, Aware, Informs, NewestInforms
    <3>4. QED
      BY <2>1, <2>2, <3>3 DEF Aware, Informs, NewestInforms, Open
  <2>4. QED
    BY <2>1, <2>2, <2>3 DEF ScriptInv, ScriptAlone, Open
<1>4. QED
  BY <1>2, <1>3

\* So does the arrival of the newest picture.
LEMMA ReceiveScript ==
    ASSUME VInv, ScriptInv, NEW i \in DOMAIN published, Receive(i), UNCHANGED conditions
    PROVE  ScriptInv'
<1> DEFINE p == published[i]
<1>1. i = Len(published) /\ published # <<>>
  BY DEF Receive, InFlight, ScriptInv, ScriptAlone, VInv, ServerInv
<1>2. p \in Picture /\ viewer \in Viewer
  BY PicturesTyped DEF Pictures, VInv, ServerInv, DisplayInv
<1>3. viewer' = ApplySnapshot(viewer, p) /\ UNCHANGED <<session, published, holder, step>>
  BY DEF Receive, serverVars
<1>4. NewestInforms => Informs(p, session)
  BY <1>1 DEF NewestInforms
<1> HIDE DEF p
<1>5. viewer'.connected = viewer.connected /\ viewer'.shown \in {viewer.shown, p}
  BY <1>2, <1>3, LinkUp, ApplySnapshotEffect
<1>6. LinkFails' <=> LinkFails
  BY <1>3, <1>5 DEF LinkFails
<1>7. Aware => Aware'
  BY <1>3, <1>4, <1>5 DEF Aware, NewestInforms
<1>8. QED
  BY <1>3, <1>5, <1>6, <1>7 DEF ScriptInv, ScriptAlone

\* The answer to a command informs of it, and so does its snapshot.
LEMMA CommandInforms ==
    ASSUME VInv, Informs(viewer.shown, session), NewestInforms,
           NEW asked \in CommandLabels, NEW accepted \in BOOLEAN,
           accepted <=> Accepts(asked, Joined),
           Commanded(asked, Joined), viewer' = Acknowledged(viewer, asked, accepted)
    PROVE  Informs(viewer'.shown, session') /\ NewestInforms'
<1> DEFINE t == Handled(asked, Joined)
           r == IF asked = "Reset" THEN run + 1 ELSE run
<1>1. /\ Kept(Joined) /\ ConsoleThere(Joined) /\ SameMission(session, Joined)
      /\ Kept(t) /\ published \in Seq(Picture) /\ viewer \in Viewer /\ viewer.shown \in Picture
  BY CommandedFollows DEF VInv, ServerInv, DisplayInv, Follows, Viewer
<1>2. Joined.sequence = session.sequence
  <2>1. "FireControlConsole" \in ClientRole /\ session \in Session
    BY DEF ClientRole, VInv, ServerInv, Kept
  <2>2. QED
    BY <2>1, ClientsPicture DEF Joined, SamePicture
<1>3. accepted <=> Permits(asked, Joined)
  BY <1>1, CommandsJudged
<1>4. /\ Permits(asked, Joined) => Carried(asked, Joined, t)
      /\ ~Permits(asked, Joined) => t.sequence = Joined.sequence /\ Quiet(Joined, t)
  BY <1>1, CommandsTell
<1>5. Becomes(t, r) /\ session' = t
  BY DEF Commanded, Becomes
<1> HIDE DEF t, r
<1>6. Informs(viewer.shown, Joined)
  BY <1>1 DEF Informs, SameMission
<1>7. viewer'.shown = IF accepted THEN Anticipated(viewer.shown, asked) ELSE viewer.shown
  BY <1>1, AcknowledgedEffect
<1>8. Tells(session, t)
  BY <1>1, <1>2, <1>4 DEF Tells, Carried, Quiet, SameMission
<1>9. NewestInforms'
  BY <1>1, <1>5, <1>8, BecomesInforms
<1>10. Informs(viewer'.shown, t)
  <2>1. CASE accepted
    BY <1>1, <1>3, <1>4, <1>6, <1>7, <2>1, AnticipatedTells DEF Carried, Informs
  <2>2. CASE ~accepted
    BY <1>3, <1>4, <1>6, <1>7, <2>2 DEF Quiet, Informs
  <2>3. QED
    BY <2>1, <2>2
<1>11. QED
  BY <1>5, <1>9, <1>10

\* So does a step of the script: an order is shown as open before the next step is due.
LEMMA StepScript ==
    ASSUME VInv, ScriptInv, ScriptStep, UNCHANGED conditions
    PROVE  ScriptInv'
<1> DEFINE action == Script[step + 1]
<1>1. /\ step \in Nat /\ step' = step + 1 /\ Aware /\ Perform(action)
      /\ ~RequiresAssessment(action, viewer)
  BY DEF ScriptStep, ScriptInv, VInv, Counters
<1>2. action \in LiveActions /\ step + 1 # 0
  BY <1>1, ActionsPressed DEF ScriptStep
<1>3. viewer \in Viewer /\ ahead \in BOOLEAN /\ Kept(session) /\ published \in Seq(Picture)
  BY DEF VInv, ServerInv, DisplayInv
<1>4. step' # 0 /\ Script[step'] = action
  BY <1>1, <1>2
<1> HIDE DEF action
<1>5. SUFFICES /\ holder' = "Viewer" /\ viewer'.connected /\ Informs(viewer'.shown, session')
               /\ NewestInforms' /\ (action = "AAR" => session'.order \notin Open)
  BY <1>4 DEF ScriptInv, ScriptAlone, Aware
<1>6. holder' = "Viewer"
  BY <1>1, <1>2, <1>3, PerformCases
<1>7. CASE action = "AAR"
  <2>1. Becomes(Joined, run) /\ viewer' \in {ReviewRefused(viewer), ReviewLoaded(viewer)}
    BY <1>1, <1>2, <1>3, <1>7, PerformCases
  <2>2. viewer'.connected /\ viewer'.shown = viewer.shown
    BY <1>3, <2>1, LinkUp, ReviewEffect
  <2>3. Kept(Joined) /\ SameMission(session, Joined)
    BY JoinedFollows DEF VInv, ServerInv, Follows
  <2>4. Joined.sequence = session.sequence
    <3>1. "FireControlConsole" \in ClientRole /\ session \in Session
      BY <1>3 DEF ClientRole, Kept
    <3>2. QED
      BY <3>1, ClientsPicture DEF Joined, SamePicture
  <2>5. Tells(session, Joined)
    BY <2>3, <2>4 DEF Tells, Quiet, SameMission
  <2>6. NewestInforms' /\ session' = Joined
    BY <1>1, <1>3, <2>1, <2>3, <2>5, BecomesInforms DEF Aware, Becomes
  <2>7. session.order \notin Open
    <3>1. viewer.shown.order = "None" \/ viewer.shown.ready
      BY <1>1, <1>7 DEF RequiresAssessment
    <3>2. session.ready => session.order = "Completed"
      BY <1>3 DEF Kept, MissionFacts, PhaseFacts
    <3>3. QED
      BY <1>1, <3>1, <3>2 DEF Aware, Informs, Open
  <2>8. QED
    BY <1>1, <1>6, <2>2, <2>3, <2>6, <2>7 DEF Aware, Informs, SameMission
<1>8. CASE action # "AAR"
  <2>1. PICK asked \in CommandLabels, accepted \in BOOLEAN :
           /\ accepted <=> Accepts(asked, Joined)
           /\ Commanded(asked, Joined) /\ viewer' = Acknowledged(viewer, asked, accepted)
    BY <1>1, <1>2, <1>3, <1>8, PerformCases
  <2>2. viewer'.connected
    BY <1>3, <2>1, LinkUp
  <2>3. Informs(viewer'.shown, session') /\ NewestInforms'
    BY <1>1, <2>1, CommandInforms DEF Aware
  <2>4. QED
    BY <1>6, <1>8, <2>2, <2>3
<1>9. QED
  BY <1>7, <1>8

\* Every step of a script alone at the controls keeps the invariant.
LEMMA ScriptInvNext == VInv /\ ScriptInv /\ [Next]_<<conditions, vars>> => ScriptInv'
<1> SUFFICES ASSUME VInv, ScriptInv, [Next]_<<conditions, vars>> PROVE ScriptInv'
  OBVIOUS
<1>1. CASE UNCHANGED <<conditions, vars>>
  <2>1. UNCHANGED <<conditions, session, published, holder, viewer, step>>
    BY <1>1 DEF vars, serverVars
  <2>2. QED
    BY <2>1 DEF ScriptInv, ScriptAlone, LinkFails, Aware, NewestInforms
<1>2. CASE Next
  <2>1. UNCHANGED conditions
    BY <1>2 DEF Next
  <2>2. ~ConsoleJoins /\ ~ConsoleCommands /\ ~ConsoleLeaves
    BY DEF ScriptInv, ScriptAlone, ConsoleJoins, ConsoleCommands, ConsoleLeaves
  <2>3. ~Press /\ ~PressSetup /\ ~ControlFails
    BY DEF ScriptInv, ScriptAlone, Press, PressSetup, ControlFails
  <2>4. QED
    BY <1>2, <2>1, <2>2, <2>3, ServerScript, ReceiveScript, StepScript DEF Next, Step
<1>3. QED
  BY <1>1, <1>2

\* A script that gives every reset right behind a review, as kDefaultScript does,
\* resets no run whose order was accepted and still has no verdict
\* (requires_assessment in the loop of main.cpp): whatever the script, however
\* long the engagement takes, and however often the server is restarted.  The
\* script is the only operator and no picture is overtaken by a newer one.
THEOREM ScriptWaits ==
    ASSUME \A k \in 2 .. Len(Script) : Script[k] = "Reset" => Script[k - 1] = "AAR"
    PROVE  Spec /\ ScriptAlone => ScriptAwaitsVerdict
<1> DEFINE Awaits == ScriptStep /\ Script[step + 1] = "Reset"
                        => session.order \notin {"Accepted", "Executing"}
<1>1. VInv /\ ScriptInv /\ [Next]_<<conditions, vars>> => [Awaits]_vars
  <2> SUFFICES ASSUME VInv, ScriptInv, ScriptStep, Script[step + 1] = "Reset"
               PROVE  session.order \notin Open
    BY DEF Open
  <2>1. step \in Nat /\ step < Len(Script) /\ Len(Script) \in Nat /\ Aware
    BY ActionsPressed DEF ScriptStep, ScriptInv, VInv, Counters
  <2>2. CASE step = 0
    BY <2>1, <2>2 DEF Aware
  <2>3. CASE step # 0
    <3>1. step + 1 \in 2 .. Len(Script) /\ (step + 1) - 1 = step
      BY <2>1, <2>3
    <3>2. Script[step] = "AAR"
      BY <3>1
    <3>3. QED
      BY <2>1, <3>2 DEF Aware
  <2>4. QED
    BY <2>2, <2>3
<1>2. QED
  BY <1>1, InitScript, ScriptInvNext, SpecVInv, PTL DEF Spec, ScriptAwaitsVerdict

--------------------------------------------------------------------------------
(****************************************************************************)
(* The registration of the display, for every configuration of its clocks:  *)
(* a display whose heartbeats are sent and delivered in time keeps it.  How *)
(* a registration that was lost comes back is liveness and stays with TLC.  *)
(****************************************************************************)

\* A heartbeat on its way was sent within an interval after the one before; none on
\* its way, the display was heard when it sent the last one or later.
HeardInTime ==
    punctual =>
        /\ current # "TimedOut" /\ latest # "TimedOut"
        /\ bound => heard <= IF "display_heartbeat" \in up THEN HeartbeatInterval ELSE beat

\* The inductive invariant.
LinkInv == LinkTypeOK /\ HeardInTime

\* A clock counts one on and stops past its test.
LEMMA OlderType ==
    ASSUME NEW limit \in Nat, NEW age \in 0 .. limit
    PROVE  Older(age, limit) \in 0 .. limit /\ Older(age, limit) <= age + 1
BY DEF Older

\* The network takes a picture and loses the oldest when it is full.
LEMMA SentType ==
    ASSUME air \in Seq(Connection), Len(air) <= MaxInFlight, NEW picture \in Connection
    PROVE  Sent(picture) \in Seq(Connection) /\ Len(Sent(picture)) <= MaxInFlight
<1> DEFINE queue == Append(air, picture)
<1>1. PICK a \in Seq(Connection) : a = air
  OBVIOUS
<1>2. Append(a, picture) \in Seq(Connection) /\ Len(Append(a, picture)) = Len(a) + 1
      /\ Append(a, picture) # <<>>
  BY AppendProperties
<1>3. queue \in Seq(Connection) /\ Len(queue) = Len(air) + 1 /\ queue # <<>>
  BY <1>1, <1>2
<1>4. Sent(picture) = IF Len(queue) > MaxInFlight THEN Tail(queue) ELSE queue
  BY DEF Sent
<1> HIDE DEF queue
<1>5. Tail(queue) \in Seq(Connection) /\ Len(Tail(queue)) = Len(queue) - 1
  BY <1>3, HeadTailProperties
<1>6. Len(air) \in Nat /\ MaxInFlight \in Nat /\ Len(queue) \in Nat
  BY <1>3, LenProperties, LinkTimes
<1>7. CASE Len(queue) > MaxInFlight
  BY <1>3, <1>4, <1>5, <1>6, <1>7
<1>8. CASE ~(Len(queue) > MaxInFlight)
  BY <1>3, <1>4, <1>6, <1>8
<1>9. QED
  BY <1>7, <1>8

\* The constants are naturals.
LEMMA LinkConstants ==
    /\ HeartbeatInterval \in Nat /\ HeartbeatInterval >= 1 /\ HeartbeatTimeout \in Nat
    /\ MaxInFlight \in Nat /\ MaxLate \in Nat /\ MaxServerRestarts \in Nat
<1>1. {HeartbeatInterval, HeartbeatTimeout, MaxInFlight} \subseteq Nat \ {0}
  BY LinkTimes
<1>2. {MaxLate, MaxServerRestarts} \subseteq Nat
  BY LinkBounds
<1>3. QED
  BY <1>1, <1>2

\* Time passes.
LEMMA PassInTime ==
    ASSUME LinkInv, Pass, UNCHANGED punctual
    PROVE  LinkInv'
<1>1. heard' \in 0 .. HeartbeatTimeout /\ quiet' \in 0 .. 2 * HeartbeatInterval + 1
  BY LinkConstants, OlderType DEF LinkInv, LinkTypeOK, Pass
<1>2. tried' \in 0 .. HeartbeatInterval + 1 /\ beat' \in 0 .. HeartbeatInterval
  BY LinkConstants, OlderType DEF LinkInv, LinkTypeOK, Pass
<1>3. LinkTypeOK'
  BY <1>1, <1>2 DEF LinkInv, LinkTypeOK, Pass
<1>4. ASSUME punctual, bound PROVE heard' <= beat'
  <2>1. beat < HeartbeatInterval /\ "display_heartbeat" \notin up
    BY <1>4 DEF Pass
  <2>2. heard <= beat
    BY <1>4, <2>1 DEF LinkInv, HeardInTime
  <2>3. beat' = beat + 1
    BY <2>1 DEF Pass, Older
  <2>4. heard' <= heard + 1
    BY LinkConstants, OlderType DEF Pass, LinkInv, LinkTypeOK
  <2>5. heard \in Nat /\ beat \in Nat /\ heard' \in Nat
    BY <1>1, LinkConstants DEF LinkInv, LinkTypeOK
  <2>6. QED
    BY <2>2, <2>3, <2>4, <2>5
<1>5. HeardInTime'
  <2> SUFFICES ASSUME punctual' PROVE /\ current' # "TimedOut" /\ latest' # "TimedOut"
                                      /\ bound' => heard' <= IF "display_heartbeat" \in up'
                                                             THEN HeartbeatInterval ELSE beat'
    BY DEF HeardInTime
  <2>1. current' # "TimedOut" /\ latest' # "TimedOut"
    BY DEF LinkInv, HeardInTime, Pass
  <2>2. "display_heartbeat" \notin up'
    BY DEF Pass
  <2>3. QED
    BY <1>4, <2>1, <2>2 DEF Pass
<1>6. QED
  BY <1>3, <1>5 DEF LinkInv

\* The server's steps: a punctual display is in time.
LEMMA ServerInTime ==
    ASSUME HeartbeatInterval < HeartbeatTimeout, LinkInv, UNCHANGED punctual,
           ServerTick \/ HandleJoin \/ HandleHeartbeat \/ Lose \/ ServerRestarts
    PROVE  LinkInv'
<1>1. CASE TimeoutViewer
  <2>1. LinkTypeOK'
    BY <1>1 DEF LinkInv, LinkTypeOK, TimeoutViewer, Connection, linkDisplay
  <2>2. ~punctual
    <3>1. punctual => heard <= HeartbeatInterval
      BY <1>1, LinkConstants DEF LinkInv, HeardInTime, LinkTypeOK, TimeoutViewer
    <3>2. heard \in Nat /\ heard >= HeartbeatTimeout
      BY <1>1, LinkConstants DEF LinkInv, LinkTypeOK, TimeoutViewer
    <3>3. QED
      BY <3>1, <3>2, LinkConstants
  <2>3. QED
    BY <2>1, <2>2 DEF LinkInv, HeardInTime
<1>2. CASE RecordPicture
  <2>1. air' \in Seq(Connection) /\ Len(air') <= MaxInFlight
    BY <1>2, SentType DEF LinkInv, LinkTypeOK, RecordPicture
  <2>2. current' \in Connection /\ latest' \in Connection
    BY <1>2 DEF LinkInv, LinkTypeOK, RecordPicture, Settle, Connection
  <2>3. LinkTypeOK'
    BY <1>2, <2>1, <2>2 DEF LinkInv, LinkTypeOK, RecordPicture, linkDisplay
  <2>4. HeardInTime'
    BY <1>2 DEF LinkInv, HeardInTime, RecordPicture, Settle, linkDisplay
  <2>5. QED
    BY <2>3, <2>4 DEF LinkInv
<1>3. CASE HandleJoin
  <2>1. /\ heard' = 0 /\ beat' = beat /\ up' \subseteq up /\ latest' = latest
        /\ current' \in {current, "Reconnected", "Connected"}
        /\ bound' \in BOOLEAN /\ known' \in BOOLEAN
    BY <1>3 DEF HandleJoin, Alive, Register, LinkInv, LinkTypeOK, linkDisplay
  <2>2. air' \in Seq(Connection) /\ Len(air') <= MaxInFlight
    BY <1>3, SentType DEF HandleJoin, Alive, Register, LinkInv, LinkTypeOK
  <2>3. LinkTypeOK'
    BY <1>3, <2>1, <2>2, LinkConstants
    DEF LinkInv, LinkTypeOK, HandleJoin, linkDisplay, Connection
  <2>4. HeardInTime'
    <3>1. beat \in Nat
      BY LinkConstants DEF LinkInv, LinkTypeOK
    <3>2. QED
      BY <2>1, <3>1, LinkConstants DEF LinkInv, HeardInTime
  <2>5. QED
    BY <2>3, <2>4 DEF LinkInv
<1>4. CASE HandleHeartbeat
  <2>1. /\ IF bound THEN heard' = 0 ELSE heard' = heard
        /\ beat' = beat /\ up' \subseteq up /\ latest' = latest
        /\ current' \in {current, "Reconnected"}
        /\ UNCHANGED <<bound, known, air, received, label, quiet, tried, behind, late, restarts>>
    BY <1>4 DEF HandleHeartbeat, Alive, linkServer, linkDisplay
  <2>2. LinkTypeOK'
    BY <2>1, LinkConstants DEF LinkInv, LinkTypeOK, Connection
  <2>3. HeardInTime'
    <3>1. beat \in Nat
      BY LinkConstants DEF LinkInv, LinkTypeOK
    <3>2. QED
      BY <2>1, <3>1, LinkConstants DEF LinkInv, HeardInTime
  <2>4. QED
    BY <2>2, <2>3 DEF LinkInv
<1>5. CASE Lose
  BY <1>5 DEF LinkInv, LinkTypeOK, HeardInTime, Lose, linkServer, linkDisplay
<1>6. CASE ServerRestarts
  <2>1. <<>> \in Seq(Connection) /\ Len(<<>>) = 0
    OBVIOUS
  <2>2. restarts' \in 0 .. MaxServerRestarts
    BY <1>6, LinkConstants DEF LinkInv, LinkTypeOK, ServerRestarts
  <2>3. LinkTypeOK'
    <3>1. 0 \in 0 .. HeartbeatTimeout /\ 0 <= MaxInFlight
      BY LinkConstants
    <3>2. {punctual', bound', known', received', behind'} \subseteq BOOLEAN
          /\ {current', label'} \subseteq Connection /\ latest' \in Connection \cup {"None"}
      BY <1>6 DEF LinkInv, LinkTypeOK, ServerRestarts, Connection
    <3>3. air' = <<>> /\ heard' = 0
          /\ UNCHANGED <<up, quiet, tried, beat, late>>
      BY <1>6 DEF ServerRestarts
    <3>4. QED
      BY <2>1, <2>2, <3>1, <3>2, <3>3 DEF LinkInv, LinkTypeOK
  <2>4. HeardInTime'
    BY <1>6 DEF HeardInTime, ServerRestarts
  <2>5. QED
    BY <2>3, <2>4 DEF LinkInv
<1>7. QED
  BY <1>1, <1>2, <1>3, <1>4, <1>5, <1>6 DEF ServerTick

\* The display's loop: a heartbeat is sent when the interval is over.
LEMMA DisplayInTime ==
    ASSUME LinkInv, UNCHANGED punctual, Display
    PROVE  LinkInv'
<1>1. CASE SendDisplayHeartbeat
  <2>1. LinkTypeOK'
    BY <1>1, LinkConstants DEF LinkInv, LinkTypeOK, SendDisplayHeartbeat, linkServer
  <2>2. punctual /\ bound => heard <= HeartbeatInterval
    <3>1. beat \in Nat /\ beat <= HeartbeatInterval /\ heard \in Nat
      BY LinkConstants DEF LinkInv, LinkTypeOK
    <3>2. QED
      BY <3>1, LinkConstants DEF LinkInv, HeardInTime
  <2>3. HeardInTime'
    BY <1>1, <2>2 DEF LinkInv, HeardInTime, SendDisplayHeartbeat, linkServer
  <2>4. QED
    BY <2>1, <2>3 DEF LinkInv
<1>2. CASE SendViewerJoin
  BY <1>2, LinkConstants
  DEF LinkInv, LinkTypeOK, HeardInTime, SendViewerJoin, linkServer
<1>3. CASE ReceivePicture
  <2>1. PICK k \in DOMAIN air : air' = SubSeq(air, k + 1, Len(air)) /\ label' = air[k]
    BY <1>3 DEF ReceivePicture
  <2>2. PICK a \in Seq(Connection) : a = air
    BY DEF LinkInv, LinkTypeOK
  <2>3. Len(a) \in Nat /\ DOMAIN a = 1 .. Len(a) /\ k \in 1 .. Len(a) /\ a[k] \in Connection
    BY <2>2, LenProperties
  <2>4. SubSeq(a, k + 1, Len(a)) \in Seq(Connection)
        /\ Len(SubSeq(a, k + 1, Len(a))) <= Len(a)
    BY <2>3
  <2>5. air' \in Seq(Connection) /\ Len(air') <= MaxInFlight
    <3>1. Len(air') \in Nat /\ Len(a) <= MaxInFlight /\ Len(air') <= Len(a)
      BY <2>1, <2>2, <2>4, LenProperties DEF LinkInv, LinkTypeOK
    <3>2. QED
      BY <2>1, <2>2, <2>3, <2>4, <3>1, LinkConstants
  <2>6. LinkTypeOK'
    <3>1. 0 \in 0 .. 2 * HeartbeatInterval + 1
      BY LinkConstants
    <3>2. label' \in Connection
      BY <2>1, <2>2, <2>3
    <3>3. received' = TRUE /\ behind' = FALSE /\ quiet' = 0
          /\ UNCHANGED <<bound, heard, known, current, latest, up, tried, beat, late, restarts>>
      BY <1>3 DEF ReceivePicture, linkServer
    <3>4. QED
      BY <2>5, <3>1, <3>2, <3>3 DEF LinkInv, LinkTypeOK
  <2>7. HeardInTime'
    BY <1>3 DEF LinkInv, HeardInTime, ReceivePicture, linkServer
  <2>8. QED
    BY <2>6, <2>7 DEF LinkInv
<1>4. CASE ReceiveOutdated
  <2>1. air' \in Seq(Connection) /\ Len(air') <= MaxInFlight
    <3>1. CASE air' = air
      BY <3>1 DEF LinkInv, LinkTypeOK
    <3>2. CASE air # <<>> /\ air' = Tail(air)
      <4>1. Tail(air) \in Seq(Connection) /\ Len(Tail(air)) = Len(air) - 1
        BY <3>2, HeadTailProperties DEF LinkInv, LinkTypeOK
      <4>2. Len(air) \in Nat /\ Len(air) <= MaxInFlight
        BY LenProperties DEF LinkInv, LinkTypeOK
      <4>3. QED
        BY <3>2, <4>1, <4>2, LinkConstants
    <3>3. QED
      BY <1>4, <3>1, <3>2 DEF ReceiveOutdated
  <2>2. late' \in 0 .. MaxLate /\ quiet' \in 0 .. 2 * HeartbeatInterval + 1
    BY <1>4, LinkConstants DEF LinkInv, LinkTypeOK, ReceiveOutdated
  <2>3. LinkTypeOK'
    BY <1>4, <2>1, <2>2 DEF LinkInv, LinkTypeOK, ReceiveOutdated, linkServer
  <2>4. HeardInTime'
    BY <1>4 DEF LinkInv, HeardInTime, ReceiveOutdated, linkServer
  <2>5. QED
    BY <2>3, <2>4 DEF LinkInv
<1>5. QED
  BY <1>1, <1>2, <1>3, <1>4 DEF Display

--------------------------------------------------------------------------------

\* A display whose heartbeats are sent and delivered in time is never timed out
\* (last_display_heartbeat_at_ against heartbeat_timeout_ms), and no clock outlives
\* its test, whatever pictures are lost and late, displays register again and
\* servers restart.  The hypothesis is the operator's to meet: the interval is the
\* display's own --heartbeat-interval-ms, which nothing compares with the server's
\* timeout (validate_runtime_config compares the timeout with the server's
\* interval, and admits equality).
THEOREM PunctualStays ==
    ASSUME HeartbeatInterval < HeartbeatTimeout
    PROVE  LinkSpec => []TimersAgree
<1>1. LinkInit => LinkInv
  <2> SUFFICES ASSUME LinkInit PROVE LinkInv
    OBVIOUS
  <2>1. <<>> \in Seq(Connection) /\ Len(<<>>) = 0
    OBVIOUS
  <2>2. LinkTypeOK
    <3>1. /\ 0 \in 0 .. HeartbeatTimeout /\ 0 \in 0 .. 2 * HeartbeatInterval + 1
          /\ 0 \in 0 .. HeartbeatInterval + 1 /\ 0 \in 0 .. HeartbeatInterval
          /\ 0 \in 0 .. MaxLate /\ 0 \in 0 .. MaxServerRestarts /\ 0 <= MaxInFlight
      BY LinkConstants
    <3>2. {punctual, bound, known, received, behind} \subseteq BOOLEAN
          /\ {current, label} \subseteq Connection /\ latest \in Connection \cup {"None"}
      BY DEF LinkInit, Connection
    <3>3. QED
      BY <2>1, <3>1, <3>2 DEF LinkInit, LinkTypeOK
  <2>3. HeardInTime
    BY DEF LinkInit, HeardInTime
  <2>4. QED
    BY <2>2, <2>3 DEF LinkInv
<1>2. LinkInv /\ [LinkNext]_<<punctual, linkVars>> => LinkInv'
  <2> SUFFICES ASSUME LinkInv, [LinkNext]_<<punctual, linkVars>> PROVE LinkInv'
    OBVIOUS
  <2>1. CASE UNCHANGED <<punctual, linkVars>>
    BY <2>1 DEF LinkInv, LinkTypeOK, HeardInTime, linkVars, linkServer, linkDisplay
  <2>2. QED
    BY <2>1, PassInTime, ServerInTime, DisplayInTime DEF LinkNext
<1>3. LinkInv => TimersAgree
  BY DEF LinkInv, HeardInTime, TimersAgree, PunctualNeverTimedOut
<1>4. QED
  BY <1>1, <1>2, <1>3, PTL DEF LinkSpec

================================================================================
