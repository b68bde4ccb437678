------------------------- MODULE StandalonePartsProofs -------------------------
(****************************************************************************)
(* Theorems of the parts that are checked by themselves, for every value of *)
(* their constants: the measurement of the link's delay, the feed of the    *)
(* display, its layout, the setup of a scenario, the flight of the target   *)
(* and the stream of messages.                                              *)
(****************************************************************************)
EXTENDS LinkDelay, DisplayFeed, DisplayLayout, ScenarioSetup, TargetMotion,
        FrameStream, WireFormatProofs, SequenceTheorems, TLAPS

--------------------------------------------------------------------------------
(****************************************************************************)
(* The delay of the link.  The measured delay is right for every limit of   *)
(* pending heartbeats, every interval and a clock without bound.            *)
(****************************************************************************)

(****************************************************************************)
(* The rounding of the smoothed delay.                                      *)
(****************************************************************************)

\* The smoothed delay lies between the old one and the sample, whichever is
\* larger (update_link_delay's 0.8 and 0.2 with the rounding added).
LEMMA SmoothedBetween ==
    ASSUME NEW old \in Nat, NEW fresh \in Nat
    PROVE  /\ Smoothed(old, fresh) \in Nat
           /\ old <= fresh => old <= Smoothed(old, fresh) /\ Smoothed(old, fresh) <= fresh
           /\ fresh <= old => fresh <= Smoothed(old, fresh) /\ Smoothed(old, fresh) <= old
<1>1. 8 * old + 2 * fresh + 5 \in Nat
  OBVIOUS
<1> QED BY <1>1 DEF Smoothed

\* An old delay more than two off the sample moves towards it; one within two
\* stays: a link with one constant delay is shown to within two milliseconds.
THEOREM SmoothedApproaches ==
    ASSUME NEW old \in Nat, NEW fresh \in Nat
    PROVE  /\ old + 2 < fresh => old < Smoothed(old, fresh)
           /\ fresh + 2 < old => Smoothed(old, fresh) < old
<1>1. 8 * old + 2 * fresh + 5 \in Nat
  OBVIOUS
<1> QED BY <1>1 DEF Smoothed

\* What is left of a sequence without its first m elements.
LEMMA WithoutFront ==
    ASSUME NEW S, NEW q \in Seq(S), NEW m \in Nat, m <= Len(q)
    PROVE  /\ SubSeq(q, m + 1, Len(q)) \in Seq(S)
           /\ Len(SubSeq(q, m + 1, Len(q))) = Len(q) - m
           /\ \A i \in 1 .. Len(q) - m : SubSeq(q, m + 1, Len(q))[i] = q[m + i]
<1>1. Len(q) \in Nat /\ \A i \in m + 1 .. Len(q) : q[i] \in S
  BY ElementOfSeq, LenProperties
<1>2. m + 1 \in Int /\ Len(q) \in Int
  BY <1>1
<1>3. /\ SubSeq(q, m + 1, Len(q)) \in Seq(S)
      /\ Len(SubSeq(q, m + 1, Len(q))) = IF m + 1 <= Len(q) THEN Len(q) - (m + 1) + 1 ELSE 0
      /\ \A i \in 1 .. Len(q) - (m + 1) + 1 : SubSeq(q, m + 1, Len(q))[i] = q[(m + 1) + i - 1]
  BY <1>1, <1>2, SubSeqProperties
<1> QED BY <1>1, <1>3

(****************************************************************************)
(* The inductive invariant.                                                 *)
(****************************************************************************)

\* Every heartbeat was sent by now.
SentBefore == \A id \in DOMAIN sentAt : sentAt[id] <= now

\* Every sample is of a heartbeat that was sent and is no longer pending.
SampledGone ==
    \A i \in DOMAIN samples :
        /\ samples[i].id <= Len(sentAt)
        /\ \A k \in DOMAIN pending : samples[i].id < pending[k]

DelayInv ==
    DelayTypeOK /\ PendingIsLatest /\ SamplesInOrder /\ DelayBetweenSamples /\ SentBefore /\ SampledGone

\* The sequences of a typed state, index by index.
LEMMA Indexed ==
    ASSUME DelayTypeOK
    PROVE  /\ Len(sentAt) \in Nat /\ Len(pending) \in Nat /\ Len(samples) \in Nat
           /\ DOMAIN sentAt = 1 .. Len(sentAt)
           /\ DOMAIN pending = 1 .. Len(pending)
           /\ DOMAIN samples = 1 .. Len(samples)
           /\ \A i \in 1 .. Len(sentAt) : sentAt[i] \in Nat
           /\ \A i \in 1 .. Len(pending) : pending[i] \in Nat
           /\ \A i \in 1 .. Len(samples) : samples[i].id \in Nat /\ samples[i].rtt \in Nat
<1>1. sentAt \in Seq(Nat) /\ pending \in Seq(Nat) /\ samples \in Seq([id : Nat, rtt : Nat])
  BY DEF DelayTypeOK
<1>2. \A i \in 1 .. Len(samples) : samples[i] \in [id : Nat, rtt : Nat]
  BY <1>1, ElementOfSeq
<1> QED BY <1>1, <1>2, ElementOfSeq, LenProperties

\* Nothing has been measured at first.
LEMMA DelayInitially == DelayInit => DelayInv
<1> SUFFICES ASSUME DelayInit PROVE DelayInv
  OBVIOUS
<1>1. /\ <<>> \in Seq(Nat) /\ <<>> \in Seq([id : Nat, rtt : Nat])
  OBVIOUS
<1> QED
  BY <1>1, TimesNatural, PendingPositive
  DEF DelayInit, DelayInv, DelayTypeOK, PendingIsLatest, SamplesInOrder, DelayBetweenSamples,
      HasLinkDelaySample, SentBefore, SampledGone

\* Time passing keeps the invariant.
LEMMA PassKeepsDelay == DelayInv /\ Pass => DelayInv'
  BY DEF Pass, DelayInv, DelayTypeOK, PendingIsLatest, SamplesInOrder, DelayBetweenSamples,
         HasLinkDelaySample, SentBefore, SampledGone

\* So does a heartbeat being sent.
LEMMA SendKeepsDelay == DelayInv /\ SendDisplayHeartbeat => DelayInv'
<1> SUFFICES ASSUME DelayInv, SendDisplayHeartbeat PROVE DelayInv'
  OBVIOUS
<1> DEFINE queue == Append(pending, Len(sentAt) + 1)
<1>1. /\ now \in Nat /\ sentAt \in Seq(Nat) /\ pending \in Seq(Nat)
      /\ samples \in Seq([id : Nat, rtt : Nat])
  BY DEF DelayInv, DelayTypeOK
<1>0. DelayTypeOK
  BY DEF DelayInv
<1>2. /\ sentAt' = Append(sentAt, now) /\ Len(sentAt') = Len(sentAt) + 1
      /\ sentAt' \in Seq(Nat)
  BY <1>1 DEF SendDisplayHeartbeat
<1>3. /\ queue \in Seq(Nat) /\ Len(queue) = Len(pending) + 1
      /\ \A k \in 1 .. Len(queue) : queue[k] = Len(sentAt') - Len(queue) + k
  BY <1>1, <1>2 DEF DelayInv, PendingIsLatest
<1>4. pending' = PrunePendingHeartbeats(queue)
  BY DEF SendDisplayHeartbeat
<1> HIDE DEF queue
<1>5. /\ pending' \in Seq(Nat) /\ Len(pending') <= MaxPendingHeartbeats
      /\ \A k \in 1 .. Len(pending') : pending'[k] = Len(sentAt') - Len(pending') + k
  <2>0. Len(queue) \in Nat /\ Len(sentAt') \in Nat /\ MaxPendingHeartbeats \in Nat
    BY <1>2, <1>3, PendingPositive, LenProperties
  <2>1. CASE Len(queue) > MaxPendingHeartbeats
    <3> DEFINE m == Len(queue) - MaxPendingHeartbeats
    <3>1. pending' = SubSeq(queue, m + 1, Len(queue))
      BY <1>4, <2>1 DEF PrunePendingHeartbeats
    <3>2. m \in Nat /\ m <= Len(queue)
      BY <2>0, <2>1
    <3> HIDE DEF m
    <3>3. /\ pending' \in Seq(Nat) /\ Len(pending') = Len(queue) - m
          /\ \A k \in 1 .. Len(queue) - m : pending'[k] = queue[m + k]
      BY <3>1, <3>2, <1>3, WithoutFront
    <3>4. Len(queue) - m = MaxPendingHeartbeats
      BY <2>0 DEF m
    <3> QED BY <3>2, <3>3, <3>4, <1>3, <2>0
  <2>2. CASE ~(Len(queue) > MaxPendingHeartbeats)
    BY <1>4, <1>3, <2>0, <2>2, SMTT(30) DEF PrunePendingHeartbeats
  <2> QED BY <2>1, <2>2
<1>6. DelayTypeOK'
  BY <1>1, <1>2, <1>5, TimesNatural DEF DelayInv, DelayTypeOK, SendDisplayHeartbeat
<1>7. PendingIsLatest'
  BY <1>5, LenProperties DEF PendingIsLatest
<1>8. SamplesInOrder' /\ DelayBetweenSamples'
  BY DEF DelayInv, SendDisplayHeartbeat, SamplesInOrder, DelayBetweenSamples, HasLinkDelaySample
<1>9. SentBefore'
  BY <1>1, <1>2 DEF DelayInv, SentBefore, SendDisplayHeartbeat
<1>10. SampledGone'
  <2> SUFFICES ASSUME NEW i \in DOMAIN samples
               PROVE  /\ samples[i].id <= Len(sentAt')
                      /\ \A k \in DOMAIN pending' : samples[i].id < pending'[k]
    BY DEF SampledGone, SendDisplayHeartbeat
  <2>1. samples[i].id \in Nat /\ samples[i].id <= Len(sentAt)
    BY <1>0, Indexed DEF DelayInv, SampledGone
  <2>2. \A k \in 1 .. Len(queue) : samples[i].id < queue[k]
    <3>0. DOMAIN pending = 1 .. Len(pending) /\ Len(pending) \in Nat /\ Len(sentAt) \in Nat
      BY <1>0, Indexed
    <3>1. \A k \in 1 .. Len(pending) : samples[i].id < pending[k]
      BY <3>0 DEF DelayInv, SampledGone
    <3>2. SUFFICES ASSUME NEW k \in 1 .. Len(queue)
                   PROVE  samples[i].id < queue[k]
      OBVIOUS
    <3>3. queue[k] = Len(sentAt) - Len(pending) + k /\ k \in 1 .. Len(pending) + 1
      BY <3>0, <1>2, <1>3
    <3>4. CASE k \in 1 .. Len(pending)
      <4>1. pending[k] = Len(sentAt) - Len(pending) + k
        BY <3>0, <3>4 DEF DelayInv, PendingIsLatest
      <4> QED BY <4>1, <3>1, <3>3, <3>4
    <3>5. CASE k = Len(pending) + 1
      BY <3>5, <3>0, <2>1, <3>3
    <3> QED BY <3>0, <3>3, <3>4, <3>5
  <2>3. \A k \in 1 .. Len(pending') : \E j \in 1 .. Len(queue) : pending'[k] = queue[j]
    <3>1. CASE Len(queue) > MaxPendingHeartbeats
      <4> DEFINE m == Len(queue) - MaxPendingHeartbeats
      <4>1. pending' = SubSeq(queue, m + 1, Len(queue))
        BY <1>4, <3>1 DEF PrunePendingHeartbeats
      <4>2. Len(queue) \in Nat /\ m \in Nat /\ m <= Len(queue)
        BY <1>3, <3>1, PendingPositive, LenProperties
      <4> HIDE DEF m
      <4>3. /\ Len(pending') = Len(queue) - m
            /\ \A k \in 1 .. Len(queue) - m : pending'[k] = queue[m + k]
        BY <4>1, <4>2, <1>3, WithoutFront
      <4>4. \A k \in 1 .. Len(pending') : m + k \in 1 .. Len(queue)
        BY <4>2, <4>3
      <4> QED BY <4>3, <4>4
    <3>2. CASE ~(Len(queue) > MaxPendingHeartbeats)
      BY <1>4, <3>2 DEF PrunePendingHeartbeats
    <3> QED BY <3>1, <3>2
  <2>4. DOMAIN pending' = 1 .. Len(pending') /\ Len(sentAt) \in Nat
    BY <1>1, <1>5, LenProperties
  <2>5. \A k \in DOMAIN pending' : samples[i].id < pending'[k]
    BY <2>2, <2>3, <2>4
  <2>6. samples[i].id <= Len(sentAt')
    BY <2>1, <2>4, <1>2
  <2> QED BY <2>5, <2>6
<1> QED BY <1>6, <1>7, <1>8, <1>9, <1>10 DEF DelayInv

\* So does the echo of a heartbeat.
LEMMA UpdateKeepsDelay == ASSUME NEW id \in DOMAIN sentAt
                     PROVE  DelayInv /\ UpdateLinkDelay(id) => DelayInv'
<1> SUFFICES ASSUME DelayInv, UpdateLinkDelay(id) PROVE DelayInv'
  OBVIOUS
<1>1. /\ now \in Nat /\ delay \in Nat /\ sentAt \in Seq(Nat) /\ pending \in Seq(Nat)
      /\ samples \in Seq([id : Nat, rtt : Nat])
  BY DEF DelayInv, DelayTypeOK
<1>0. DelayTypeOK
  BY DEF DelayInv
<1>i. /\ Len(sentAt) \in Nat /\ Len(pending) \in Nat /\ Len(samples) \in Nat
      /\ DOMAIN sentAt = 1 .. Len(sentAt)
      /\ DOMAIN pending = 1 .. Len(pending)
      /\ DOMAIN samples = 1 .. Len(samples)
      /\ \A i \in 1 .. Len(sentAt) : sentAt[i] \in Nat
      /\ \A i \in 1 .. Len(samples) : samples[i].id \in Nat /\ samples[i].rtt \in Nat
  BY <1>0, Indexed
<1>2. PICK k \in 1 .. Len(pending) :
          /\ pending[k] = id
          /\ raw' = now - sentAt[id]
          /\ delay' = IF HasLinkDelaySample THEN Smoothed(delay, raw') ELSE raw'
          /\ samples' = Append(samples, [id |-> id, rtt |-> raw'])
          /\ pending' = SubSeq(pending, k + 1, Len(pending))
  BY <1>i DEF UpdateLinkDelay, Answered, RoundTrip
<1>3. /\ raw' \in Nat /\ id \in Nat
  BY <1>i, <1>1, <1>2, SMTT(30) DEF DelayInv, SentBefore
<1>t. samples' \in Seq([id : Nat, rtt : Nat])
  BY <1>1, <1>2, <1>3
<1>4. /\ Len(samples') = Len(samples) + 1 /\ DOMAIN samples' = 1 .. Len(samples) + 1
      /\ \A i \in 1 .. Len(samples) : samples'[i] = samples[i]
      /\ samples'[Len(samples) + 1].id = id /\ samples'[Len(samples) + 1].rtt = raw'
  <2> DEFINE new == [id |-> id, rtt |-> raw']
  <2>1. new \in [id : Nat, rtt : Nat] /\ new.id = id /\ new.rtt = raw'
    BY <1>3
  <2>2. samples' = Append(samples, new)
    BY <1>2
  <2> HIDE DEF new
  <2>3. /\ Len(samples') = Len(samples) + 1 /\ samples'[Len(samples) + 1] = new
        /\ \A i \in 1 .. Len(samples) : samples'[i] = samples[i]
    BY <2>1, <2>2, <1>1
  <2> QED BY <2>1, <2>3, <1>t, LenProperties
<1>5. /\ pending' \in Seq(Nat) /\ Len(pending') = Len(pending) - k
      /\ \A j \in 1 .. Len(pending') : pending'[j] = pending[k + j]
  <2> DEFINE rest == SubSeq(pending, k + 1, Len(pending))
  <2>1. k \in Nat /\ k <= Len(pending)
    BY <1>i
  <2>2. /\ rest \in Seq(Nat) /\ Len(rest) = Len(pending) - k
        /\ \A j \in 1 .. Len(pending) - k : rest[j] = pending[k + j]
    BY <2>1, <1>1, WithoutFront
  <2>3. pending' = rest
    BY <1>2
  <2> QED BY <2>2, <2>3
<1>6. delay' \in Nat
  BY <1>1, <1>2, <1>3, SmoothedBetween
<1>7. DelayTypeOK'
  BY <1>1, <1>3, <1>t, <1>5, <1>6 DEF DelayInv, DelayTypeOK, UpdateLinkDelay
<1>8. PendingIsLatest'
  <2>1. DOMAIN pending' = 1 .. Len(pending') /\ Len(pending') <= MaxPendingHeartbeats
    BY <1>i, <1>5, LenProperties, PendingPositive DEF DelayInv, PendingIsLatest
  <2>2. ASSUME NEW j \in 1 .. Len(pending')
        PROVE  pending'[j] = Len(sentAt) - Len(pending') + j
    <3>1. k + j \in 1 .. Len(pending) /\ pending'[j] = pending[k + j]
      <4>1. pending'[j] = pending[k + j]
        BY <1>5
      <4>2. k \in Nat /\ j \in Nat /\ 1 <= j /\ j <= Len(pending) - k
        BY <1>i, <1>5
      <4>3. k + j \in 1 .. Len(pending)
        BY <4>2, <1>i
      <4> QED BY <4>1, <4>3
    <3>2. pending[k + j] = Len(sentAt) - Len(pending) + (k + j)
      BY <3>1, <1>i DEF DelayInv, PendingIsLatest
    <3> QED BY <3>1, <3>2, <1>i, <1>5
  <2>3. sentAt' = sentAt
    BY DEF UpdateLinkDelay
  <2> QED BY <2>1, <2>2, <2>3 DEF PendingIsLatest
<1>9. SamplesInOrder'
  <2>1. \A i \in 1 .. Len(samples) : samples[i].id < id
    BY <1>i, <1>2 DEF DelayInv, SampledGone
  <2> DEFINE n == Len(samples)
  <2> SUFFICES ASSUME NEW i \in 1 .. n + 1, NEW j \in 1 .. n + 1, i < j
               PROVE  samples'[i].id < samples'[j].id
    BY <1>4 DEF SamplesInOrder
  <2>2. n \in Nat
    BY <1>i
  <2>3. i \in 1 .. n
    BY <2>2
  <2>4. samples'[i] = samples[i]
    BY <2>3, <1>4
  <2>5. CASE j = n + 1
    BY <2>1, <2>3, <2>4, <2>5, <1>4
  <2>6. CASE j # n + 1
    <3>1. j \in 1 .. n
      BY <2>2, <2>6
    <3>2. samples'[j] = samples[j]
      BY <3>1, <1>4
    <3> QED BY <3>1, <3>2, <2>3, <2>4, <1>i DEF DelayInv, SamplesInOrder
  <2> QED BY <2>5, <2>6
<1>10. DelayBetweenSamples'
  <2>1. Len(samples) + 1 \in DOMAIN samples'
    BY <1>i, <1>4
  <2>2. CASE samples = <<>>
    <3>1. delay' = samples'[Len(samples) + 1].rtt /\ delay' \in Nat
      BY <2>2, <1>2, <1>3, <1>4 DEF HasLinkDelaySample
    <3>2. delay' <= delay'
      BY <3>1
    <3> QED BY <3>1, <3>2, <2>1 DEF DelayBetweenSamples
  <2>3. CASE samples # <<>>
    <3>1. PICK i \in DOMAIN samples, j \in DOMAIN samples :
              samples[i].rtt <= delay /\ delay <= samples[j].rtt
      BY <2>3 DEF DelayInv, DelayBetweenSamples, HasLinkDelaySample
    <3>2. /\ i \in DOMAIN samples' /\ j \in DOMAIN samples'
          /\ samples'[i] = samples[i] /\ samples'[j] = samples[j]
          /\ samples[i].rtt \in Nat /\ samples[j].rtt \in Nat
      BY <1>i, <1>4, <2>1, <3>1
    <3>3. delay' = Smoothed(delay, raw')
      BY <2>3, <1>2 DEF HasLinkDelaySample
    <3>6. /\ samples'[Len(samples) + 1].rtt = raw'
          /\ samples'[i].rtt = samples[i].rtt /\ samples'[j].rtt = samples[j].rtt
          /\ samples'[i].rtt \in Nat /\ samples'[j].rtt \in Nat
      BY <1>4, <3>2
    <3>7. samples'[i].rtt <= delay /\ delay <= samples'[j].rtt
      BY <3>1, <3>6
    <3>8. delay \in Nat /\ delay' \in Nat /\ raw' \in Nat
      BY <1>1, <1>3, <1>6
    <3>4. CASE delay <= raw'
      <4>1. delay <= delay' /\ delay' <= raw'
        BY <3>3, <3>4, <1>1, <1>3, SmoothedBetween
      <4>2. samples'[i].rtt <= delay' /\ delay' <= samples'[Len(samples) + 1].rtt
        BY <4>1, <3>6, <3>7, <3>8
      <4> QED BY <4>2, <3>2, <2>1 DEF DelayBetweenSamples
    <3>5. CASE raw' <= delay
      <4>1. raw' <= delay' /\ delay' <= delay
        BY <3>3, <3>5, <1>1, <1>3, SmoothedBetween
      <4>2. samples'[Len(samples) + 1].rtt <= delay' /\ delay' <= samples'[j].rtt
        BY <4>1, <3>6, <3>7, <3>8
      <4> QED BY <4>2, <3>2, <2>1 DEF DelayBetweenSamples
    <3> QED BY <3>4, <3>5, <1>1, <1>3
  <2> QED BY <2>2, <2>3
<1>11. SentBefore'
  BY DEF DelayInv, SentBefore, UpdateLinkDelay
<1>12. SampledGone'
  <2>1. ASSUME NEW j \in 1 .. Len(pending') PROVE id < pending'[j]
    <3>1. k + j \in 1 .. Len(pending) /\ pending'[j] = pending[k + j]
      <4>1. pending'[j] = pending[k + j]
        BY <1>5
      <4>2. k \in Nat /\ j \in Nat /\ 1 <= j /\ j <= Len(pending) - k
        BY <1>i, <1>5
      <4>3. k + j \in 1 .. Len(pending)
        BY <4>2, <1>i
      <4> QED BY <4>1, <4>3
    <3>2. /\ pending[k + j] = Len(sentAt) - Len(pending) + (k + j)
          /\ pending[k] = Len(sentAt) - Len(pending) + k
      BY <3>1, <1>i DEF DelayInv, PendingIsLatest
    <3>3. pending[k] < pending[k + j]
      BY <3>1, <3>2, <1>i, <1>5
    <3> QED BY <3>1, <3>3, <1>2
  <2>2. ASSUME NEW i \in 1 .. Len(samples)
        PROVE  /\ samples[i].id <= Len(sentAt)
               /\ \A j \in 1 .. Len(pending') : samples[i].id < pending'[j]
    <3>1. \A j \in 1 .. Len(pending') : k + j \in 1 .. Len(pending)
      BY <1>i, <1>5
    <3>2. /\ samples[i].id <= Len(sentAt)
          /\ \A j \in 1 .. Len(pending) : samples[i].id < pending[j]
      BY <1>i DEF DelayInv, SampledGone
    <3> QED BY <3>1, <3>2, <1>5
  <2>3. /\ DOMAIN pending' = 1 .. Len(pending') /\ id <= Len(sentAt) /\ sentAt' = sentAt
    BY <1>i, <1>5, LenProperties DEF UpdateLinkDelay
  <2> SUFFICES ASSUME NEW i \in 1 .. Len(samples) + 1
               PROVE  /\ samples'[i].id <= Len(sentAt)
                      /\ \A j \in 1 .. Len(pending') : samples'[i].id < pending'[j]
    BY <2>3, <1>4 DEF SampledGone
  <2>4. CASE i = Len(samples) + 1
    BY <2>1, <2>3, <2>4, <1>4
  <2>5. CASE i # Len(samples) + 1
    <3>1. i \in 1 .. Len(samples)
      BY <2>5, <1>i
    <3> QED BY <3>1, <2>2, <1>4
  <2> QED BY <2>4, <2>5
<1> QED BY <1>7, <1>8, <1>9, <1>10, <1>11, <1>12 DEF DelayInv

\* The invariant holds throughout every behaviour.
LEMMA SpecDelayInv == DelaySpec => []DelayInv
<1>1. DelayInv /\ [DelayNext]_delayVars => DelayInv'
  <2> SUFFICES ASSUME DelayInv, [DelayNext]_delayVars PROVE DelayInv'
    OBVIOUS
  <2>1. CASE Pass
    BY <2>1, PassKeepsDelay
  <2>2. CASE SendDisplayHeartbeat
    BY <2>2, SendKeepsDelay
  <2>3. ASSUME NEW id \in DOMAIN sentAt, UpdateLinkDelay(id) PROVE DelayInv'
    BY <2>3, UpdateKeepsDelay
  <2>4. CASE UNCHANGED delayVars
    BY <2>4 DEF delayVars, DelayInv, DelayTypeOK, PendingIsLatest, SamplesInOrder, DelayBetweenSamples,
                HasLinkDelaySample, SentBefore, SampledGone
  <2> QED BY <2>1, <2>2, <2>3, <2>4 DEF DelayNext
<1> QED BY DelayInitially, <1>1, PTL DEF DelaySpec

--------------------------------------------------------------------------------

\* The pending heartbeats are the last ones sent, in a row, within the limit.
THEOREM PendingLatest == DelaySpec => []PendingIsLatest
<1>1. DelayInv => PendingIsLatest
  BY DEF DelayInv
<1> QED BY SpecDelayInv, <1>1, PTL

\* Heartbeats are measured once and in order.
THEOREM MeasuredInOrder == DelaySpec => []SamplesInOrder
<1>1. DelayInv => SamplesInOrder
  BY DEF DelayInv
<1> QED BY SpecDelayInv, <1>1, PTL

\* The delay shown never leaves the range of the measured round trips.
THEOREM DelayMeasured == DelaySpec => []DelayBetweenSamples
<1>1. DelayInv => DelayBetweenSamples
  BY DEF DelayInv
<1> QED BY SpecDelayInv, <1>1, PTL

\* Types, and with them that no round trip is negative.
THEOREM LinkDelayTyped == DelaySpec => []DelayTypeOK
<1>1. DelayInv => DelayTypeOK
  BY DEF DelayInv
<1> QED BY SpecDelayInv, <1>1, PTL

\* The delay shown is sound for every limit, interval and order of answers.
THEOREM DelayKeptSound == DelaySpec => []DelaySound
<1>1. DelayInv => DelaySound
  BY DEF DelayInv, DelaySound
<1> QED BY SpecDelayInv, <1>1, PTL

--------------------------------------------------------------------------------
(****************************************************************************)
(* The feed.  Everything rests on the order of what was sent: servers       *)
(* follow each other, and of one server's pictures sequence, stamp and the  *)
(* event told rise together.  The sample shown only moves forward in that   *)
(* order, so that what the timeline holds was told before what it takes.    *)
(****************************************************************************)

\* Pictures are sent in the order of their servers, and those of one server in
\* the order of its two clocks.
SentInOrder ==
    \A i, j \in DOMAIN sent : i < j =>
        /\ sent[i].server <= sent[j].server
        /\ sent[i].server = sent[j].server =>
              sent[i].sequence < sent[j].sequence /\ sent[i].stamp < sent[j].stamp

\* The event e is told after d, or is d again.
NotBefore(d, e) == d.stamp < e.stamp \/ d = e

\* A picture tells at most one event, of its own server, and no picture one from
\* before that of an earlier picture.
EventsInOrder ==
    /\ \A i \in DOMAIN sent : sent[i].events # <<>> =>
          Len(sent[i].events) = 1 /\ sent[i].events[1].server = sent[i].server
    /\ \A i, j \in DOMAIN sent :
          i <= j /\ sent[i].server = sent[j].server
          /\ sent[i].events # <<>> /\ sent[j].events # <<>> =>
              NotBefore(sent[i].events[1], sent[j].events[1])

\* The log of the running server is in the order of its clocks.
LogInOrder ==
    /\ \A i \in DOMAIN events :
          events[i].server = number /\ events[i].tick <= tick /\ events[i].stamp <= clock
    /\ \A i, j \in DOMAIN events : i < j => events[i].stamp < events[j].stamp

\* What was sent is not ahead of the running server.
SentBehind ==
    \A i \in DOMAIN sent :
        /\ sent[i].server <= number
        /\ sent[i].server = number =>
              /\ sent[i].sequence <= sequence /\ sent[i].stamp <= clock
              /\ sent[i].events # <<>> =>
                    /\ sent[i].events[1].stamp <= clock
                    /\ events # <<>> => NotBefore(sent[i].events[1], events[Len(events)])

\* The last event told came with a picture up to the sample shown.
LastTold ==
    lastEvent # <<>> =>
        /\ lastEvent[1] \in Event
        /\ \E k \in DOMAIN sent :
              k <= sample /\ sent[k].events # <<>> /\ sent[k].events[1] = lastEvent[1]

\* The timeline holds nothing from after the last event told.
LastIsLatest ==
    \A n \in DOMAIN timeline :
        /\ lastEvent # <<>> /\ timeline[n].server <= lastEvent[1].server
        /\ timeline[n].server = lastEvent[1].server => NotBefore(timeline[n], lastEvent[1])

\* The inductive invariant.
FeedInv ==
    /\ FeedTypeOK
    /\ SentInOrder /\ EventsInOrder /\ LogInOrder /\ SentBehind
    /\ TimelineTold /\ TimelineInOrder /\ LastTold /\ LastIsLatest

\* The feed starts out within its invariant.
LEMMA FeedInitially == FeedInit => FeedInv
BY FeedBounded DEF FeedInit, FeedInv, FeedTypeOK, SentInOrder, EventsInOrder, LogInOrder,
       SentBehind, TimelineTold, TimelineInOrder, LastTold, LastIsLatest

\* The order of what was sent makes a dropped picture an outdated one.
LEMMA FeedInvSound == FeedInv => FeedSound
<1> SUFFICES ASSUME FeedInv
             PROVE  DroppedOnlyIfOutdated
  BY DEF FeedInv, FeedSound
<1>1. sent \in Seq(Picture) /\ {shown, sample} \subseteq {0} \cup DOMAIN sent
  BY DEF FeedInv, FeedTypeOK
<1>2. \A i \in DOMAIN sent : sent[i] \in Picture /\ i \in Nat
  BY <1>1
<1>3. ASSUME NEW i \in DOMAIN sent, shown # 0, sent[shown].server = sent[i].server,
             ~TakesSnapshot(sent[i])
      PROVE  i <= shown
  <2>1. shown \in DOMAIN sent /\ sent[i].sequence <= sent[shown].sequence
    BY <1>1, <1>2, <1>3, SMTT(30) DEF TakesSnapshot, Picture
  <2>2. ~(shown < i)
    BY <1>2, <1>3, <2>1 DEF FeedInv, SentInOrder, Picture
  <2>3. QED
    BY <1>2, <2>1, <2>2
<1>4. ASSUME NEW i \in DOMAIN sent, sample # 0, sent[sample].server = sent[i].server,
             ~TakesTelemetry(sent[i])
      PROVE  i <= sample
  <2>1. sample \in DOMAIN sent /\ sent[i].stamp <= sent[sample].stamp
    BY <1>1, <1>2, <1>4, SMTT(30) DEF TakesTelemetry, Picture
  <2>2. ~(sample < i)
    BY <1>2, <1>4, <2>1 DEF FeedInv, SentInOrder, Picture
  <2>3. QED
    BY <1>2, <2>1, <2>2
<1>5. QED
  BY <1>3, <1>4 DEF DroppedOnlyIfOutdated

\* The event told with a picture is the last of the log.
LEMMA LatestIsLast ==
    ASSUME NEW log \in Seq(Event), NEW t \in Nat, \A i \in DOMAIN log : log[i].tick <= t
    PROVE  LatestEventAtOrBeforeTick(log, t) = IF log = <<>> THEN <<>> ELSE <<log[Len(log)]>>
<1> DEFINE upTo == {i \in DOMAIN log : log[i].tick <= t}
<1>1. upTo = 1 .. Len(log)
  BY LenProperties
<1>2. CASE log = <<>>
  <2>1. upTo = {}
    BY <1>1, <1>2
  <2>2. QED
    BY <1>2, <2>1 DEF LatestEventAtOrBeforeTick
<1>3. CASE log # <<>>
  <2>1. Len(log) \in upTo /\ \A j \in upTo : j <= Len(log)
    BY <1>1, <1>3, EmptySeq, LenProperties
  <2>2. \A i \in upTo : i \in Nat /\ Len(log) \in Nat
    BY <1>1, LenProperties
  <2>3. (CHOOSE i \in upTo : \A j \in upTo : j <= i) = Len(log)
    BY <2>1, <2>2
  <2>4. QED
    BY <1>3, <2>1, <2>3 DEF LatestEventAtOrBeforeTick
<1>4. QED
  BY <1>2, <1>3
\* What a picture holds.
LEMMA PictureFields ==
    ASSUME NEW p \in Picture
    PROVE  /\ {p.server, p.sequence, p.tick, p.stamp, p.wall} \subseteq Nat
           /\ p.events \in Seq(Event)
           /\ p.events # <<>> => p.events[1] \in Event /\ {p.events[1].server, p.events[1].tick, p.events[1].stamp} \subseteq Nat
<1>1. /\ {p.server, p.sequence, p.tick, p.stamp, p.wall} \subseteq Nat
      /\ p.events \in Seq(Event)
  BY DEF Picture
<1> DEFINE es == p.events
<1>2. ASSUME es # <<>> PROVE 1 \in DOMAIN es
  BY <1>1, <1>2, EmptySeq, LenProperties
<1>3. es # <<>> => es[1] \in Event
  BY <1>1, <1>2
<1>4. QED
  BY <1>1, <1>3 DEF Event

\* The log only gains events that are told after all before.
LEMMA NotedInOrder ==
    ASSUME FeedInv, NEW t \in Nat, tick <= t, NEW c \in Nat, c = clock + 1,
           NEW text \in EventTexts
    PROVE  /\ Noted(t, c, text) \in Seq(Event) /\ Noted(t, c, text) # <<>>
           /\ \A i \in DOMAIN Noted(t, c, text) :
                 /\ Noted(t, c, text)[i].server = number /\ Noted(t, c, text)[i].tick <= t
                 /\ Noted(t, c, text)[i].stamp <= c
           /\ \A i, j \in DOMAIN Noted(t, c, text) : i < j => Noted(t, c, text)[i].stamp < Noted(t, c, text)[j].stamp
           /\ \A i \in DOMAIN sent : sent[i].server = number /\ sent[i].events # <<>> =>
                 NotBefore(sent[i].events[1], Noted(t, c, text)[Len(Noted(t, c, text))])
<1> DEFINE e == [server |-> number, tick |-> t, stamp |-> c, text |-> text]
           log == Append(events, e)
<1>1. /\ number \in Nat /\ clock \in Nat /\ tick \in Nat /\ e \in Event
      /\ events \in Seq(Event) /\ sent \in Seq(Picture)
  BY DEF FeedInv, FeedTypeOK, Event
<1>2. /\ log \in Seq(Event) /\ Len(log) = Len(events) + 1 /\ log[Len(log)] = e
      /\ \A i \in 1 .. Len(events) : log[i] = events[i]
  BY <1>1, AppendProperties
<1> HIDE DEF log
<1>3. /\ DOMAIN log = 1 .. Len(events) + 1 /\ DOMAIN events = 1 .. Len(events)
      /\ Len(events) \in Nat /\ log # <<>>
  BY <1>1, <1>2, LenProperties, EmptySeq
<1>4. ASSUME NEW i \in DOMAIN log
      PROVE  /\ log[i].server = number /\ log[i].tick <= t /\ log[i].stamp <= c
             /\ i # Len(log) => log[i].stamp < c
  <2>1. CASE i = Len(log)
    BY <1>1, <1>2, <2>1
  <2>2. CASE i # Len(log)
    <3>1. i \in DOMAIN events /\ log[i] = events[i] /\ events[i] \in Event
      BY <1>1, <1>2, <1>3, <2>2
    <3>2. QED
      BY <1>1, <2>2, <3>1, SMTT(30) DEF FeedInv, LogInOrder, Event
  <2>3. QED
    BY <2>1, <2>2
<1>5. ASSUME NEW i \in DOMAIN log, NEW j \in DOMAIN log, i < j
      PROVE  log[i].stamp < log[j].stamp
  <2>1. CASE j = Len(log)
    BY <1>2, <1>3, <1>4, <1>5, <2>1
  <2>2. CASE j # Len(log)
    <3>1. i \in DOMAIN events /\ j \in DOMAIN events
      BY <1>2, <1>3, <1>5, <2>2
    <3>2. QED
      BY <1>2, <1>3, <1>5, <3>1 DEF FeedInv, LogInOrder
  <2>3. QED
    BY <2>1, <2>2
<1>6. ASSUME NEW i \in DOMAIN sent, sent[i].server = number, sent[i].events # <<>>
      PROVE  NotBefore(sent[i].events[1], log[Len(log)])
  <2>1. sent[i].events[1].stamp <= clock
    BY <1>6 DEF FeedInv, SentBehind
  <2>2. sent[i].events[1].stamp \in Nat
    BY <1>1, <1>6, PictureFields
  <2>3. QED
    BY <1>1, <1>2, <2>1, <2>2 DEF NotBefore
<1>7. QED
  BY <1>2, <1>3, <1>4, <1>5, <1>6 DEF Noted, log

\* record_snapshot sends a picture that is ahead of all before it.
LEMMA RecordKeeps ==
    ASSUME FeedInv, Record(tick', clock', events'), number' = number,
           tick' \in Nat, clock' \in Nat, clock < clock',
           events' \in Seq(Event), LogInOrder',
           \A i \in DOMAIN sent : sent[i].server = number /\ sent[i].events # <<>> /\ events' # <<>> =>
               NotBefore(sent[i].events[1], events'[Len(events')])
    PROVE  /\ sequence' \in Nat /\ sent' \in Seq(Picture)
           /\ \A i \in DOMAIN sent : i \in DOMAIN sent' /\ sent'[i] = sent[i]
           /\ SentInOrder' /\ EventsInOrder' /\ SentBehind'
<1> DEFINE told == LatestEventAtOrBeforeTick(events', tick')
           p == [server |-> number, sequence |-> sequence', tick |-> tick', stamp |-> clock',
                 wall |-> Len(sent) + 1, events |-> told]
           last == events'[Len(events')]
<1>1. /\ number \in Nat /\ clock \in Nat /\ sequence \in Nat /\ sent \in Seq(Picture)
      /\ sequence' = sequence + 1 /\ sent' = Append(sent, p)
  BY DEF FeedInv, FeedTypeOK, Record
<1>2. \A i \in DOMAIN events' : /\ events'[i].server = number /\ events'[i].tick <= tick'
                                /\ events'[i].stamp <= clock'
  BY DEF LogInOrder
<1>3. told = IF events' = <<>> THEN <<>> ELSE <<last>>
  BY <1>2, LatestIsLast
<1>4. events' # <<>> => last \in Event /\ last.server = number /\ last.stamp <= clock'
  BY <1>2, EmptySeq, LenProperties
<1>5. /\ told \in Seq(Event)
      /\ told # <<>> => events' # <<>> /\ Len(told) = 1 /\ told[1] = last
  BY <1>3, <1>4
<1> HIDE DEF told, last
<1>6. p \in Picture
  BY <1>1, <1>5, LenProperties DEF Picture
<1>7. /\ p.server = number /\ p.sequence = sequence + 1 /\ p.stamp = clock' /\ p.events = told
  BY <1>1
<1> HIDE DEF p
<1>8. /\ sent' \in Seq(Picture) /\ Len(sent') = Len(sent) + 1 /\ sent'[Len(sent')] = p
      /\ DOMAIN sent' = 1 .. Len(sent) + 1 /\ DOMAIN sent = 1 .. Len(sent) /\ Len(sent) \in Nat
      /\ \A i \in DOMAIN sent : i \in DOMAIN sent' /\ sent'[i] = sent[i]
  BY <1>1, <1>6, AppendProperties, LenProperties
<1>9. \A i \in DOMAIN sent' : (i \in DOMAIN sent \/ i = Len(sent')) /\ sent'[i] \in Picture
  BY <1>8
<1>10. ASSUME NEW i \in DOMAIN sent
       PROVE  /\ sent[i].server <= number
              /\ sent[i].server = number =>
                    /\ sent[i].sequence < p.sequence /\ sent[i].sequence <= sequence'
                    /\ sent[i].stamp < p.stamp /\ sent[i].stamp <= clock'
                    /\ sent[i].events # <<>> =>
                          /\ sent[i].events[1].stamp <= clock'
                          /\ events' # <<>> => NotBefore(sent[i].events[1], last)
  <2>1. /\ sent[i].server <= number
        /\ sent[i].server = number =>
              /\ sent[i].sequence <= sequence /\ sent[i].stamp <= clock
              /\ sent[i].events # <<>> =>
                    /\ sent[i].events[1].stamp <= clock
                    /\ events' # <<>> => NotBefore(sent[i].events[1], last)
    BY DEF FeedInv, SentBehind, last
  <2>2. /\ sent[i].sequence \in Nat /\ sent[i].stamp \in Nat
        /\ sent[i].events # <<>> => sent[i].events[1].stamp \in Nat
    BY <1>1, PictureFields
  <2>3. ASSUME sent[i].server = number
        PROVE  /\ sent[i].sequence < p.sequence /\ sent[i].sequence <= sequence'
               /\ sent[i].stamp < p.stamp /\ sent[i].stamp <= clock'
    BY <1>1, <1>7, <2>1, <2>2, <2>3, SMTT(30)
  <2>4. ASSUME sent[i].server = number, sent[i].events # <<>>
        PROVE  sent[i].events[1].stamp <= clock'
    <3> DEFINE x == sent[i].events[1].stamp
    <3>1. x \in Nat /\ x <= clock
      BY <2>1, <2>2, <2>4
    <3> HIDE DEF x
    <3>2. x <= clock'
      BY <1>1, <3>1
    <3>3. QED
      BY <3>2 DEF x
  <2>5. QED
    BY <2>1, <2>3, <2>4
<1>11. SentInOrder'
  <2> SUFFICES ASSUME NEW i \in DOMAIN sent', NEW j \in DOMAIN sent', i < j
               PROVE  /\ sent'[i].server <= sent'[j].server
                      /\ sent'[i].server = sent'[j].server =>
                            /\ sent'[i].sequence < sent'[j].sequence
                            /\ sent'[i].stamp < sent'[j].stamp
    BY DEF SentInOrder
  <2>1. i \in DOMAIN sent /\ sent'[i] = sent[i]
    BY <1>8, <1>9
  <2>2. CASE j \in DOMAIN sent
    BY <1>8, <2>1, <2>2 DEF FeedInv, SentInOrder
  <2>3. CASE j = Len(sent')
    BY <1>7, <1>8, <1>10, <2>1, <2>3
  <2>4. QED
    BY <1>9, <2>2, <2>3
<1>12. EventsInOrder'
  <2>1. ASSUME NEW i \in DOMAIN sent', sent'[i].events # <<>>
        PROVE  Len(sent'[i].events) = 1 /\ sent'[i].events[1].server = sent'[i].server
    <3>1. CASE i \in DOMAIN sent
      BY <1>8, <2>1, <3>1 DEF FeedInv, EventsInOrder
    <3>2. CASE i = Len(sent')
      BY <1>4, <1>5, <1>7, <1>8, <2>1, <3>2
    <3>3. QED
      BY <1>9, <3>1, <3>2
  <2>2. ASSUME NEW i \in DOMAIN sent', NEW j \in DOMAIN sent', i <= j,
               sent'[i].server = sent'[j].server,
               sent'[i].events # <<>>, sent'[j].events # <<>>
        PROVE  NotBefore(sent'[i].events[1], sent'[j].events[1])
    <3>1. CASE j \in DOMAIN sent
      <4>1. i \in DOMAIN sent
        BY <1>8, <2>2, <3>1
      <4>2. QED
        BY <1>8, <2>2, <3>1, <4>1 DEF FeedInv, EventsInOrder
    <3>2. CASE j = Len(sent')
      <4>1. sent'[j] = p /\ p.events = told /\ told # <<>> /\ told[1] = last /\ events' # <<>>
        BY <1>5, <1>7, <1>8, <2>2, <3>2
      <4>2. CASE i \in DOMAIN sent
        BY <1>7, <1>8, <1>10, <2>2, <4>1, <4>2
      <4>3. CASE i = j
        BY <4>3 DEF NotBefore
      <4>4. QED
        BY <1>9, <3>2, <4>2, <4>3
    <3>3. QED
      BY <1>9, <3>1, <3>2
  <2>3. QED
    BY <2>1, <2>2 DEF EventsInOrder
<1>13. SentBehind'
  <2> SUFFICES ASSUME NEW i \in DOMAIN sent'
               PROVE  /\ sent'[i].server <= number
                      /\ sent'[i].server = number =>
                            /\ sent'[i].sequence <= sequence' /\ sent'[i].stamp <= clock'
                            /\ sent'[i].events # <<>> =>
                                  /\ sent'[i].events[1].stamp <= clock'
                                  /\ events' # <<>> => NotBefore(sent'[i].events[1], last)
    BY DEF SentBehind, last
  <2>1. CASE i \in DOMAIN sent
    BY <1>8, <1>10, <2>1
  <2>2. CASE i = Len(sent')
    <3>1. sent'[i] = p
      BY <1>8, <2>2
    <3>2. told # <<>> => told[1].stamp <= clock' /\ NotBefore(told[1], last)
      BY <1>4, <1>5 DEF NotBefore
    <3>3. QED
      BY <1>1, <1>7, <3>1, <3>2
  <2>3. QED
    BY <1>9, <2>1, <2>2
<1>14. QED
  BY <1>1, <1>8, <1>11, <1>12, <1>13
\* What the timeline holds stays told when pictures are added to those sent.
LEMMA StaysTold ==
    ASSUME TimelineTold, TimelineInOrder, LastTold, LastIsLatest, sample' = sample,
           \A i \in DOMAIN sent : i \in DOMAIN sent' /\ sent'[i] = sent[i],
           \/ timeline' = timeline /\ lastEvent' = lastEvent
           \/ timeline' = <<>> /\ lastEvent' = <<>>
    PROVE  TimelineTold' /\ TimelineInOrder' /\ LastTold' /\ LastIsLatest'
<1>1. CASE timeline' = <<>> /\ lastEvent' = <<>>
  BY <1>1, FeedBounded DEF TimelineTold, TimelineInOrder, LastTold, LastIsLatest
<1>2. CASE timeline' = timeline /\ lastEvent' = lastEvent
  <2>1. ASSUME NEW e, \E k \in DOMAIN sent :
                  k <= sample /\ sent[k].events # <<>> /\ sent[k].events[1] = e
        PROVE  \E k \in DOMAIN sent' :
                  k <= sample /\ sent'[k].events # <<>> /\ sent'[k].events[1] = e
    BY <2>1
  <2>2. TimelineTold'
    BY <1>2, <2>1 DEF TimelineTold
  <2>3. LastTold'
    BY <1>2, <2>1 DEF LastTold
  <2>4. QED
    BY <1>2, <2>2, <2>3 DEF TimelineInOrder, LastIsLatest
<1>3. QED
  BY <1>1, <1>2

\* The servers' steps keep the order of what is sent, and the display behind it.
LEMMA ServersKeep ==
    FeedInv /\ (FeedTick \/ Happening \/ RunStartsOver \/ Restart) => FeedInv'
<1> SUFFICES ASSUME FeedInv, FeedTick \/ Happening \/ RunStartsOver \/ Restart
             PROVE  FeedInv'
  OBVIOUS
<1>1. /\ {number, tick, clock, sequence, resets, wall} \subseteq Nat
      /\ events \in Seq(Event) /\ sent \in Seq(Picture)
      /\ lastEvent \in Seq(Event) /\ timeline \in Seq(Event)
      /\ {shown, sample} \subseteq {0} \cup DOMAIN sent
  BY DEF FeedInv, FeedTypeOK
<1>2. ASSUME Record(tick', clock', events'), number' = number,
             tick' \in Nat, clock' \in Nat, clock < clock',
             events' \in Seq(Event), LogInOrder',
             \A i \in DOMAIN sent :
                 sent[i].server = number /\ sent[i].events # <<>> /\ events' # <<>> =>
                     NotBefore(sent[i].events[1], events'[Len(events')]),
             resets' \in Nat, shown' = shown, sample' = sample, wall' = wall,
             \/ timeline' = timeline /\ lastEvent' = lastEvent
             \/ timeline' = <<>> /\ lastEvent' = <<>>
      PROVE  FeedInv'
  <2>1. /\ sequence' \in Nat /\ sent' \in Seq(Picture)
        /\ \A i \in DOMAIN sent : i \in DOMAIN sent' /\ sent'[i] = sent[i]
        /\ SentInOrder' /\ EventsInOrder' /\ SentBehind'
    BY <1>2, RecordKeeps
  <2>2. TimelineTold' /\ TimelineInOrder' /\ LastTold' /\ LastIsLatest'
    BY <1>2, <2>1, StaysTold DEF FeedInv
  <2>3. timeline' \in Seq(Event) /\ lastEvent' \in Seq(Event) /\ {shown', sample'} \subseteq {0} \cup DOMAIN sent'
    <3>1. <<>> \in Seq(Event) /\ DOMAIN sent \subseteq DOMAIN sent'
      BY <2>1
    <3>2. QED
      BY <1>1, <1>2, <3>1
  <2>4. FeedTypeOK'
    BY <1>1, <1>2, <2>1, <2>3 DEF FeedTypeOK
  <2>5. QED
    BY <1>2, <2>1, <2>2, <2>4 DEF FeedInv
<1>3. CASE FeedTick
  <2>1. /\ tick' = tick + 1 /\ tick' \in Nat /\ Record(tick', clock', events')
        /\ number' = number /\ resets' = resets /\ shown' = shown /\ sample' = sample
        /\ wall' = wall /\ lastEvent' = lastEvent /\ timeline' = timeline
    BY <1>1, <1>3 DEF FeedTick, displayVars
  <2>2. CASE events' = events /\ clock' = clock + 1
    <3>1. LogInOrder'
      <4>1. ASSUME NEW i \in DOMAIN events
            PROVE  events[i].tick <= tick' /\ events[i].stamp <= clock'
        <5>1. events[i] \in Event /\ events[i].tick <= tick /\ events[i].stamp <= clock
          BY <1>1 DEF FeedInv, LogInOrder
        <5>2. tick \in Nat /\ clock \in Nat /\ events[i].tick \in Nat /\ events[i].stamp \in Nat
          BY <1>1, <5>1 DEF Event
        <5>3. tick' = tick + 1 /\ clock' = clock + 1
          BY <2>1, <2>2
        <5>4. QED
          BY <5>1, <5>2, <5>3
      <4>2. QED
        BY <2>1, <2>2, <4>1 DEF FeedInv, LogInOrder
    <3>2. \A i \in DOMAIN sent :
             sent[i].server = number /\ sent[i].events # <<>> /\ events' # <<>> =>
                 NotBefore(sent[i].events[1], events'[Len(events')])
      BY <2>2 DEF FeedInv, SentBehind
    <3>3. QED
      BY <1>1, <1>2, <2>1, <2>2, <3>1, <3>2
  <2>3. ASSUME NEW text \in EventTexts, events' = Noted(tick', clock + 1, text), clock' = clock + 2
        PROVE  FeedInv'
    <3> DEFINE log == Noted(tick', clock + 1, text)
    <3>1. /\ clock + 1 \in Nat /\ clock' \in Nat /\ clock + 1 <= clock' /\ clock < clock' /\ tick <= tick'
      BY <1>1, <2>1, <2>3, SMTT(30)
    <3>2. /\ log \in Seq(Event)
          /\ \A i \in DOMAIN log : /\ log[i].server = number /\ log[i].tick <= tick'
                                  /\ log[i].stamp <= clock + 1
          /\ \A i, j \in DOMAIN log : i < j => log[i].stamp < log[j].stamp
          /\ \A i \in DOMAIN sent : sent[i].server = number /\ sent[i].events # <<>> =>
                 NotBefore(sent[i].events[1], log[Len(log)])
      BY <2>1, <3>1, NotedInOrder
    <3> HIDE DEF log
    <3>3. events' = log
      BY <2>3 DEF log
    <3>4. ASSUME NEW i \in DOMAIN log
          PROVE  log[i].stamp <= clock'
      <4>1. log[i] \in Event /\ log[i].stamp <= clock + 1
        BY <3>2
      <4>2. QED
        BY <1>1, <2>3, <4>1, SMTT(30) DEF Event
    <3>5. LogInOrder'
      BY <2>1, <3>2, <3>3, <3>4 DEF LogInOrder
    <3>6. QED
      BY <1>1, <1>2, <2>1, <3>1, <3>2, <3>3, <3>5
  <2>4. QED
    BY <1>3, <2>2, <2>3 DEF FeedTick
<1>4. CASE Happening
  <2>0. PICK text \in EventTexts : events' = Noted(tick, clock + 1, text)
    BY <1>4 DEF Happening
  <2> DEFINE log == Noted(tick, clock + 1, text)
  <2>1. /\ events' = log /\ clock' = clock + 1 /\ clock + 1 \in Nat
        /\ number' = number /\ tick' = tick /\ sequence' = sequence /\ resets' = resets
        /\ sent' = sent /\ shown' = shown /\ sample' = sample
        /\ wall' = wall /\ lastEvent' = lastEvent /\ timeline' = timeline
        /\ tick \in Nat /\ tick <= tick
    BY <1>1, <1>4, <2>0 DEF Happening, displayVars
  <2>2. /\ log \in Seq(Event)
        /\ \A i \in DOMAIN log : /\ log[i].server = number /\ log[i].tick <= tick
                                /\ log[i].stamp <= clock + 1
        /\ \A i, j \in DOMAIN log : i < j => log[i].stamp < log[j].stamp
        /\ \A i \in DOMAIN sent : sent[i].server = number /\ sent[i].events # <<>> =>
               NotBefore(sent[i].events[1], log[Len(log)])
    BY <1>1, <2>1, NotedInOrder
  <2> HIDE DEF log
  <2>3. LogInOrder'
    BY <2>1, <2>2 DEF LogInOrder
  <2>4. SentBehind'
    <3>1. ASSUME NEW i \in DOMAIN sent, sent[i].server = number
          PROVE  sent[i].stamp <= clock'
      <4>1. sent[i].stamp \in Nat /\ sent[i].stamp <= clock
        BY <1>1, <3>1, PictureFields DEF FeedInv, SentBehind
      <4>2. QED
        BY <1>1, <2>1, <4>1
    <3>2. ASSUME NEW i \in DOMAIN sent, sent[i].server = number, sent[i].events # <<>>
          PROVE  sent[i].events[1].stamp <= clock'
      <4> DEFINE x == sent[i].events[1].stamp
      <4>1. x \in Nat /\ x <= clock
        BY <1>1, <3>2, PictureFields, SMTT(30) DEF FeedInv, SentBehind
      <4> HIDE DEF x
      <4>2. x <= clock'
        BY <1>1, <2>1, <4>1
      <4>3. QED
        BY <4>2 DEF x
    <3>3. \A i \in DOMAIN sent :
             /\ sent[i].server <= number
             /\ sent[i].server = number => sent[i].sequence <= sequence
      BY DEF FeedInv, SentBehind
    <3>4. QED
      BY <2>1, <2>2, <3>1, <3>2, <3>3 DEF SentBehind
  <2>5. SentInOrder' /\ EventsInOrder' /\ TimelineTold' /\ TimelineInOrder'
        /\ LastTold' /\ LastIsLatest'
    BY <2>1 DEF FeedInv, SentInOrder, EventsInOrder, TimelineTold, TimelineInOrder, LastTold,
                LastIsLatest
  <2>6. FeedTypeOK'
    BY <1>1, <2>1, <2>2 DEF FeedTypeOK
  <2>7. QED
    BY <2>3, <2>4, <2>5, <2>6 DEF FeedInv
<1>5. CASE RunStartsOver
  <2>1. /\ tick' = 0 /\ events' = <<>> /\ clock' = clock + 1 /\ Record(tick', clock', events')
        /\ number' = number /\ resets' = resets + 1 /\ shown' = shown /\ sample' = sample
        /\ wall' = wall
        /\ \/ timeline' = timeline /\ lastEvent' = lastEvent
           \/ timeline' = <<>> /\ lastEvent' = <<>>
        /\ tick' \in Nat /\ clock' \in Nat /\ clock < clock' /\ resets' \in Nat
    BY <1>1, <1>5, SMTT(30) DEF RunStartsOver
  <2>2. LogInOrder' /\ events' \in Seq(Event)
    BY <2>1 DEF LogInOrder
  <2>3. QED
    BY <1>1, <1>2, <2>1, <2>2
<1>6. CASE Restart
  <2>1. /\ number' = number + 1 /\ tick' = 0 /\ clock' = 0 /\ sequence' = 0 /\ events' = <<>>
        /\ resets' = resets /\ sent' = sent /\ shown' = shown /\ sample' = sample
        /\ wall' = wall /\ lastEvent' = lastEvent /\ timeline' = timeline
    BY <1>6 DEF Restart, displayVars
  <2>2. LogInOrder'
    BY <2>1 DEF LogInOrder
  <2>3. SentBehind'
    <3>1. \A i \in DOMAIN sent : sent[i].server \in Nat /\ sent[i].server <= number
      BY <1>1, PictureFields DEF FeedInv, SentBehind
    <3>2. QED
      BY <1>1, <2>1, <3>1 DEF SentBehind
  <2>4. SentInOrder' /\ EventsInOrder' /\ TimelineTold' /\ TimelineInOrder'
        /\ LastTold' /\ LastIsLatest'
    BY <2>1 DEF FeedInv, SentInOrder, EventsInOrder, TimelineTold, TimelineInOrder, LastTold,
                LastIsLatest
  <2>5. FeedTypeOK'
    BY <1>1, <2>1 DEF FeedTypeOK
  <2>6. QED
    BY <2>2, <2>3, <2>4, <2>5 DEF FeedInv
<1>7. QED
  BY <1>3, <1>4, <1>5, <1>6

\* The sample shown only moves on in the order the pictures were sent in.
LEMMA SampleMovesOn ==
    ASSUME FeedInv, NEW i \in UnderWay, TakesTelemetry(sent[i])
    PROVE  sample <= i
<1>1. /\ sent \in Seq(Picture) /\ sample \in {0} \cup DOMAIN sent
  BY DEF FeedInv, FeedTypeOK
<1>2. /\ i \in DOMAIN sent /\ i \in Nat /\ Len(sent) \in DOMAIN sent /\ i <= Len(sent)
      /\ sent[i].server = sent[Len(sent)].server
  BY <1>1, LenProperties DEF UnderWay
<1>3. CASE sample = 0
  BY <1>2, <1>3
<1>4. CASE sample # 0
  <2> SUFFICES ASSUME i < sample
               PROVE  FALSE
    BY <1>1, <1>2
  <2>1. sample \in DOMAIN sent /\ sample \in Nat /\ sample <= Len(sent) /\ Len(sent) \in Nat
    BY <1>1, <1>4, LenProperties
  <2>2. {sent[i].server, sent[sample].server, sent[i].stamp, sent[sample].stamp} \subseteq Nat
    BY <1>1, <1>2, <2>1, PictureFields
  <2>3. sent[i].server <= sent[sample].server
    BY <1>2, <2>1 DEF FeedInv, SentInOrder
  <2>4. sent[sample].server <= sent[Len(sent)].server
    BY <1>2, <2>1, <2>2 DEF FeedInv, SentInOrder
  <2>5. sent[i].server = sent[sample].server
    BY <1>2, <2>2, <2>3, <2>4
  <2>6. sent[i].stamp < sent[sample].stamp
    BY <1>2, <2>1, <2>5 DEF FeedInv, SentInOrder
  <2>7. QED
    BY <1>4, <2>2, <2>6 DEF TakesTelemetry
<1>5. QED
  BY <1>3, <1>4

\* What came with a picture up to the sample shown is not told after what a later
\* sample tells.
LEMMA ToldBehind ==
    ASSUME FeedInv, NEW i \in DOMAIN sent, sample <= i, sent[i].events # <<>>, NEW d,
           \E k \in DOMAIN sent :
               k <= sample /\ sent[k].events # <<>> /\ sent[k].events[1] = d
    PROVE  LET e == sent[i].events[1]
           IN  /\ d.server <= e.server
               /\ d.server = e.server => NotBefore(d, e)
<1>1. sent \in Seq(Picture) /\ sample \in Nat
  BY DEF FeedInv, FeedTypeOK
<1>2. PICK k \in DOMAIN sent :
          k <= sample /\ sent[k].events # <<>> /\ sent[k].events[1] = d
  OBVIOUS
<1>3. k \in Nat /\ i \in Nat /\ k <= i
  BY <1>1, <1>2
<1>4. sent[k].server <= sent[i].server
  BY <1>1, <1>3, PictureFields DEF FeedInv, SentInOrder
<1>5. d.server = sent[k].server /\ sent[i].events[1].server = sent[i].server
  BY <1>2 DEF FeedInv, EventsInOrder
<1>6. d.server = sent[i].server => NotBefore(sent[k].events[1], sent[i].events[1])
  BY <1>2, <1>3, <1>5 DEF FeedInv, EventsInOrder
<1>7. QED
  BY <1>2, <1>4, <1>5, <1>6

\* What push_timeline_entry leaves: the new entry before the old ones there is room
\* for.
LEMMA EnteredFirst ==
    ASSUME NEW e \in Event, timeline \in Seq(Event)
    PROVE  /\ Entered(e) \in Seq(Event) /\ Len(Entered(e)) <= TimelineLength
           /\ 1 \in DOMAIN Entered(e) /\ Entered(e)[1] = e
           /\ \A n \in DOMAIN Entered(e) : n # 1 =>
                 n - 1 \in DOMAIN timeline /\ Entered(e)[n] = timeline[n - 1]
<1> DEFINE longer == <<e>> \o timeline
           room == IF Len(longer) > TimelineLength THEN TimelineLength ELSE Len(longer)
<1>1. /\ <<e>> \in Seq(Event) /\ Len(<<e>>) = 1 /\ <<e>>[1] = e
      /\ TimelineLength \in Nat \ {0}
  BY FeedBounded
<1>2. /\ longer \in Seq(Event) /\ Len(longer) = 1 + Len(timeline) /\ Len(timeline) \in Nat
      /\ longer[1] = e
      /\ \A n \in 2 .. Len(longer) : longer[n] = timeline[n - 1]
  BY <1>1, LenProperties, ConcatProperties
<1> HIDE DEF longer
<1>3. room \in 1 .. Len(longer) /\ room <= TimelineLength
  BY <1>1, <1>2
<1> HIDE DEF room
<1>4. /\ SubSeq(longer, 1, room) \in Seq(Event) /\ Len(SubSeq(longer, 1, room)) = room
      /\ \A n \in 1 .. room : SubSeq(longer, 1, room)[n] = longer[n]
  BY <1>2, <1>3
<1>5. Entered(e) = SubSeq(longer, 1, room)
  BY DEF Entered, longer, room
<1>6. DOMAIN Entered(e) = 1 .. room
  BY <1>4, <1>5, LenProperties
<1>7. QED
  BY <1>2, <1>3, <1>4, <1>5, <1>6, LenProperties

\* The display takes nothing into its timeline twice or late.
LEMMA DisplayKeeps ==
    ASSUME FeedInv, NEW i \in UnderWay, ReceiveSnapshot(i) \/ ReceiveTelemetry(i)
    PROVE  FeedInv'
<1>1. /\ {number, tick, clock, sequence, resets, wall} \subseteq Nat
      /\ events \in Seq(Event) /\ sent \in Seq(Picture)
      /\ lastEvent \in Seq(Event) /\ timeline \in Seq(Event)
      /\ {shown, sample} \subseteq {0} \cup DOMAIN sent
  BY DEF FeedInv, FeedTypeOK
<1>2. i \in DOMAIN sent /\ i \in Nat
  BY <1>1, LenProperties DEF UnderWay
<1>3. /\ number' = number /\ tick' = tick /\ clock' = clock /\ sequence' = sequence
      /\ events' = events /\ resets' = resets /\ sent' = sent
  BY DEF ReceiveSnapshot, ReceiveTelemetry, serverVars
<1>4. SentInOrder' /\ EventsInOrder' /\ LogInOrder' /\ SentBehind'
  BY <1>3 DEF FeedInv, SentInOrder, EventsInOrder, LogInOrder, SentBehind
<1>5. wall' \in Nat
  <2>1. sent[i].wall \in Nat
    BY <1>1, <1>2, PictureFields
  <2>2. QED
    BY <2>1 DEF ReceiveSnapshot, ReceiveTelemetry
<1>6. ASSUME shown' \in {shown, i}, sample' = sample,
             lastEvent' = lastEvent, timeline' = timeline
      PROVE  FeedInv'
  <2>1. FeedTypeOK'
    BY <1>1, <1>2, <1>3, <1>5, <1>6 DEF FeedTypeOK
  <2>2. TimelineTold' /\ TimelineInOrder' /\ LastTold' /\ LastIsLatest'
    BY <1>3, <1>6 DEF FeedInv, TimelineTold, TimelineInOrder, LastTold, LastIsLatest
  <2>3. QED
    BY <1>4, <2>1, <2>2 DEF FeedInv
<1>7. CASE ReceiveSnapshot(i)
  BY <1>6, <1>7 DEF ReceiveSnapshot
<1>8. CASE ReceiveTelemetry(i) /\ ~TakesTelemetry(sent[i])
  BY <1>6, <1>8 DEF ReceiveTelemetry
<1>9. CASE ReceiveTelemetry(i) /\ TakesTelemetry(sent[i])
  <2> DEFINE Told(d) == \E k \in DOMAIN sent :
                           k <= i /\ sent[k].events # <<>> /\ sent[k].events[1] = d
  <2>1. /\ shown' = shown /\ sample' = i
        /\ lastEvent' = IF TellsNews(sent[i]) THEN sent[i].events ELSE lastEvent
        /\ timeline' = IF TellsNews(sent[i]) THEN Entered(sent[i].events[1]) ELSE timeline
    BY <1>9 DEF ReceiveTelemetry
  <2>2. sample <= i /\ sample \in Nat
    BY <1>1, <1>9, SampleMovesOn
  <2>3. ASSUME NEW d, \E k \in DOMAIN sent :
                  k <= sample /\ sent[k].events # <<>> /\ sent[k].events[1] = d
        PROVE  Told(d)
    <3>1. PICK k \in DOMAIN sent :
             k <= sample /\ sent[k].events # <<>> /\ sent[k].events[1] = d
      BY <2>3
    <3>2. k <= i
      BY <1>1, <1>2, <2>2, <3>1
    <3>3. QED
      BY <3>1, <3>2
  <2>4. /\ \A n \in DOMAIN timeline : Told(timeline[n])
        /\ lastEvent # <<>> => Told(lastEvent[1])
    BY <2>3 DEF FeedInv, TimelineTold, LastTold
  <2> HIDE DEF Told
  <2>5. CASE ~TellsNews(sent[i])
    <3>1. timeline' = timeline /\ lastEvent' = lastEvent
      BY <2>1, <2>5
    <3>2. FeedTypeOK'
      BY <1>1, <1>2, <1>3, <1>5, <2>1, <3>1 DEF FeedTypeOK
    <3>3. TimelineTold' /\ LastTold'
      BY <1>3, <2>1, <2>4, <3>1 DEF FeedInv, TimelineTold, LastTold, Told
    <3>4. TimelineInOrder' /\ LastIsLatest'
      BY <3>1 DEF FeedInv, TimelineInOrder, LastIsLatest
    <3>5. QED
      BY <1>4, <3>2, <3>3, <3>4 DEF FeedInv
  <2>6. CASE TellsNews(sent[i])
    <3> DEFINE e == sent[i].events[1]
    <3>1. sent[i].events # <<>> /\ (lastEvent # <<>> => e # lastEvent[1])
      BY <2>6 DEF TellsNews, SameToDisplay
    <3>2. /\ sent[i].events \in Seq(Event) /\ e \in Event
          /\ e.server \in Nat /\ e.stamp \in Nat
      BY <1>1, <1>2, <3>1, PictureFields
    <3>3. Told(e)
      BY <1>2, <3>1 DEF Told
    <3>4. ASSUME lastEvent # <<>>
          PROVE  /\ lastEvent[1].server <= e.server
                 /\ lastEvent[1].server = e.server => lastEvent[1].stamp < e.stamp
      <4>1. \E k \in DOMAIN sent :
               k <= sample /\ sent[k].events # <<>> /\ sent[k].events[1] = lastEvent[1]
        BY <3>4 DEF FeedInv, LastTold
      <4>2. /\ lastEvent[1].server <= e.server
            /\ lastEvent[1].server = e.server => NotBefore(lastEvent[1], e)
        BY <1>2, <2>2, <3>1, <4>1, ToldBehind
      <4>3. QED
        BY <3>1, <3>4, <4>2 DEF NotBefore
    <3> HIDE DEF e
    <3>5. /\ lastEvent' = sent[i].events /\ timeline' = Entered(e)
          /\ lastEvent' # <<>> /\ lastEvent'[1] = e
      BY <2>1, <2>6, <3>1 DEF e
    <3>6. /\ timeline' \in Seq(Event) /\ Len(timeline') <= TimelineLength
          /\ 1 \in DOMAIN timeline' /\ timeline'[1] = e
          /\ \A n \in DOMAIN timeline' : n # 1 =>
                n - 1 \in DOMAIN timeline /\ timeline'[n] = timeline[n - 1]
      BY <1>1, <3>2, <3>5, EnteredFirst
    <3>7. ASSUME NEW n \in DOMAIN timeline
          PROVE  /\ timeline[n].server <= e.server
                 /\ timeline[n].server = e.server => timeline[n].stamp < e.stamp
      <4> DEFINE d == timeline[n]
                 l == lastEvent[1]
      <4>1. /\ lastEvent # <<>> /\ d.server <= l.server
            /\ d.server = l.server => NotBefore(d, l)
        BY DEF FeedInv, LastIsLatest
      <4>2. d \in Event /\ l \in Event
        BY <1>1, <4>1 DEF FeedInv, LastTold
      <4>3. l.server <= e.server /\ (l.server = e.server => l.stamp < e.stamp)
        BY <3>4, <4>1
      <4>4. {d.server, l.server, d.stamp, l.stamp} \subseteq Nat
        BY <4>2 DEF Event
      <4>5. d.server = l.server => d.stamp <= l.stamp
        BY <4>1, <4>4 DEF NotBefore
      <4> HIDE DEF d, l
      <4>6. d.server <= e.server /\ (d.server = e.server => d.stamp < e.stamp)
        BY <3>2, <4>1, <4>3, <4>4, <4>5
      <4>7. QED
        BY <4>6 DEF d
    <3>8. \A n \in DOMAIN timeline' : n \in Nat /\ n >= 1
      BY <3>6, LenProperties
    <3>9. TimelineInOrder'
      <4> SUFFICES ASSUME NEW m \in DOMAIN timeline', NEW n \in DOMAIN timeline', m < n,
                          timeline'[m].server = timeline'[n].server
                   PROVE  timeline'[n].stamp < timeline'[m].stamp
        BY DEF TimelineInOrder
      <4>1. n # 1 /\ n - 1 \in DOMAIN timeline /\ timeline'[n] = timeline[n - 1]
        BY <3>6, <3>8
      <4>2. CASE m = 1
        BY <3>6, <3>7, <4>1, <4>2
      <4>3. CASE m # 1
        <5>1. m - 1 \in DOMAIN timeline /\ timeline'[m] = timeline[m - 1] /\ m - 1 < n - 1
          BY <3>6, <3>8, <4>3
        <5>2. QED
          BY <4>1, <5>1 DEF FeedInv, TimelineInOrder
      <4>4. QED
        BY <4>2, <4>3
    <3>10. TimelineTold' /\ LastTold'
      <4>1. \A n \in DOMAIN timeline' : Told(timeline'[n])
        BY <2>4, <3>3, <3>6
      <4>2. QED
        BY <1>3, <2>1, <3>2, <3>3, <3>5, <3>6, <4>1 DEF TimelineTold, LastTold, Told
    <3>11. LastIsLatest'
      <4> SUFFICES ASSUME NEW n \in DOMAIN timeline'
                   PROVE  /\ timeline'[n].server <= e.server
                          /\ timeline'[n].server = e.server => NotBefore(timeline'[n], e)
        BY <3>5 DEF LastIsLatest
      <4>1. CASE n = 1
        BY <3>2, <3>6, <4>1 DEF NotBefore
      <4>2. CASE n # 1
        BY <3>6, <3>7, <4>2 DEF NotBefore
      <4>3. QED
        BY <4>1, <4>2
    <3>12. FeedTypeOK'
      BY <1>1, <1>2, <1>3, <1>5, <2>1, <3>2, <3>5, <3>6 DEF FeedTypeOK
    <3>13. QED
      BY <1>4, <3>9, <3>10, <3>11, <3>12 DEF FeedInv
  <2>7. QED
    BY <2>5, <2>6
<1>10. QED
  BY <1>7, <1>8, <1>9

\* The invariant of the feed holds throughout every behaviour.
LEMMA SpecFeedInv == FeedSpec => []FeedInv
<1>1. FeedInv /\ [FeedNext]_feedVars => FeedInv'
  <2> SUFFICES ASSUME FeedInv, [FeedNext]_feedVars
               PROVE  FeedInv'
    OBVIOUS
  <2>1. CASE FeedTick \/ Happening \/ RunStartsOver \/ Restart
    BY <2>1, ServersKeep
  <2>2. CASE \E i \in UnderWay : ReceiveSnapshot(i) \/ ReceiveTelemetry(i)
    BY <2>2, DisplayKeeps
  <2>3. CASE UNCHANGED feedVars
    BY <2>3 DEF feedVars, serverVars, displayVars, FeedInv, FeedTypeOK, SentInOrder,
       EventsInOrder, LogInOrder, SentBehind, TimelineTold, TimelineInOrder, LastTold, LastIsLatest
  <2>4. QED
    BY <2>1, <2>2, <2>3 DEF FeedNext
<1>2. QED
  BY <1>1, FeedInitially, PTL DEF FeedSpec

\* Picture and timeline of a display never go back and never miss something newer,
\* whatever is lost, late, doubled or reordered, and over resets and restarts.
THEOREM FeedKeptSound == FeedSpec => []FeedSound
BY SpecFeedInv, FeedInvSound, PTL

--------------------------------------------------------------------------------
(****************************************************************************)
(* The layout, for windows of every size: 598 rows are what standby needs   *)
(* and enough for every mode.                                               *)
(****************************************************************************)

\* The rectangles of a mode, written out.
LEMMA PanelRects ==
    ASSUME NEW m \in LayoutMode, NEW w \in Int, NEW h \in Int, h >= 598
    PROVE  /\ Panel("header", m, w, h) = Rect(24, 18, w - 48, 64)
           /\ Panel("map", m, w, h) = Rect(24, 106, w - 66 - RailW(m), h - 144 - EventH(m))
           /\ Panel("event", m, w, h) = Rect(24, h - 24 - EventH(m), w - 66 - RailW(m), EventH(m))
           /\ Panel("decision", m, w, h) = Rect(w - 24 - RailW(m), 106, RailW(m), DecisionH(m))
           /\ Panel("control", m, w, h) =
                 Rect(w - 24 - RailW(m), 118 + DecisionH(m), RailW(m), ControlH(m))
<1> RailW(m) \in Int /\ EventH(m) \in Int /\ DecisionH(m) \in Int /\ ControlH(m) \in Int
  BY DEF LayoutMode, RailW, EventH, DecisionH, ControlH
<1> HIDE DEF RailW, EventH, DecisionH, ControlH
<1> QED
  BY DEF Panel, Rect, MapW, EventY, PanelX, ControlY, Margin, ContentY

\* The sizes that depend on the mode.
LEMMA Sizes ==
    ASSUME NEW m \in LayoutMode
    PROVE  /\ RailW(m) \in {300, 340} /\ EventH(m) \in {118, 146, 176}
           /\ DecisionH(m) \in {144, 150} /\ ControlH(m) \in {140, 154, 180}
           /\ m = "StandbySetup" => RailW(m) = 340 /\ DecisionH(m) = 144 /\ ControlH(m) = 140
           /\ m = "LiveTactical" => RailW(m) = 300 /\ DecisionH(m) = 144 /\ ControlH(m) = 180
           /\ m = "ReviewTactical" => RailW(m) = 300 /\ DecisionH(m) = 150 /\ ControlH(m) = 154
  BY DEF LayoutMode, RailW, EventH, DecisionH, ControlH

\* The panel below the controls.
LEMMA LowerRects ==
    ASSUME NEW w \in Int, NEW h \in Int, h >= 598
    PROVE  /\ Panel("setup", "StandbySetup", w, h) = Rect(w - 364, 414, 340, h - 438)
           /\ Panel("resilience", "StandbySetup", w, h) = NoRect
           /\ Panel("resilience", "LiveTactical", w, h) = Rect(w - 324, 454, 300, IF h - 478 < 148 THEN h - 478 ELSE 148)
           /\ Panel("setup", "LiveTactical", w, h) = NoRect
           /\ Panel("setup", "ReviewTactical", w, h) = NoRect
           /\ Panel("resilience", "ReviewTactical", w, h) = NoRect
  BY DEF Panel, Rect, MapW, PanelX, LowerH, LowerY, ControlY, ControlH, DecisionH, RailW,
         Margin, ContentY

\* Rectangles one above or beside the other do not overlap.
LEMMA Apart ==
    ASSUME NEW a, NEW b,
           a.x \in Int, a.y \in Int, a.w \in Int, a.h \in Int,
           b.x \in Int, b.y \in Int, b.w \in Int, b.h \in Int,
           \/ a.x + a.w <= b.x \/ b.x + b.w <= a.x \/ a.y + a.h <= b.y \/ b.y + b.h <= a.y
    PROVE  ~RectsOverlap(a, b)
  BY DEF RectsOverlap, Right, Bottom

\* In a window of 598 rows no panels overlap.
LEMMA PanelsApart ==
    ASSUME NEW m \in LayoutMode, NEW w \in Int, NEW h \in Int, h >= 598
    PROVE  ~PanelsOverlap(m, w, h)
<1> SUFFICES ASSUME NEW p \in PanelName, NEW q \in PanelName, p # q,
                    Visible(p, m, w, h), Visible(q, m, w, h)
             PROVE  ~RectsOverlap(Panel(p, m, w, h), Panel(q, m, w, h))
  BY DEF PanelsOverlap
<1> DEFINE x == w - 24 - RailW(m)
           P(r) == Panel(r, m, w, h)
           lower == 130 + DecisionH(m) + ControlH(m)
<1>1. /\ RailW(m) \in Int /\ RailW(m) > 0 /\ EventH(m) \in Int /\ EventH(m) > 0
      /\ DecisionH(m) \in Int /\ DecisionH(m) > 0 /\ ControlH(m) \in Int /\ ControlH(m) > 0
      /\ EventH(m) <= 176
  BY Sizes
<1>2. ASSUME NEW r \in PanelName
      PROVE  /\ P(r).x \in Int /\ P(r).y \in Int /\ P(r).w \in Int /\ P(r).h \in Int
             /\ r = "header" => P(r).y + P(r).h = 82
             /\ r \in {"map", "event"} /\ P(r).w > 0 => P(r).x + P(r).w = x - 18 /\ P(r).y >= 106
             /\ r \in {"decision", "control", "resilience", "setup"} /\ P(r).w > 0 =>
                    P(r).x = x /\ P(r).y >= 106
             /\ r = "map" => P(r).y + P(r).h <= h - 24 - EventH(m)
             /\ r = "event" => P(r).y = h - 24 - EventH(m)
             /\ r = "decision" => P(r).y + P(r).h = 106 + DecisionH(m)
             /\ r = "control" => P(r).y = 118 + DecisionH(m) /\ P(r).y + P(r).h <= lower
             /\ r = "setup" /\ P(r).w > 0 => P(r).y = lower /\ m = "StandbySetup"
             /\ r = "resilience" /\ P(r).w > 0 => P(r).y = lower /\ m = "LiveTactical"
  <2>1. CASE r \in {"header", "map", "event", "decision", "control"}
    BY <1>1, <2>1, PanelRects DEF Rect
  <2>2. CASE r \in {"setup", "resilience"}
    <3>1. CASE r = "setup" /\ m = "StandbySetup"
      <4>1. P(r) = Rect(w - 364, 414, 340, h - 438)
        BY <3>1, LowerRects
      <4>2. /\ P(r).x = w - 364 /\ P(r).y = 414
            /\ P(r).w = 340 /\ P(r).h \in Int
        BY <4>1 DEF Rect
      <4>3. x = w - 364 /\ lower = 414
        BY <3>1, Sizes
      <4> HIDE DEF P, x, lower
      <4> QED
        BY <3>1, <4>2, <4>3
    <3>2. CASE r = "resilience" /\ m = "StandbySetup"
      <4>1. P(r) = NoRect
        BY <3>2, LowerRects
      <4>2. P(r).x = 0 /\ P(r).y = 0 /\ P(r).w = 0 /\ P(r).h = 0
        BY <4>1 DEF Rect, NoRect
      <4> HIDE DEF P, x, lower
      <4> QED
        BY <3>2, <4>2
    <3>3. CASE r = "setup" /\ m = "LiveTactical"
      <4>1. P(r) = NoRect
        BY <3>3, LowerRects
      <4>2. P(r).x = 0 /\ P(r).y = 0 /\ P(r).w = 0 /\ P(r).h = 0
        BY <4>1 DEF Rect, NoRect
      <4> HIDE DEF P, x, lower
      <4> QED
        BY <3>3, <4>2
    <3>4. CASE r = "resilience" /\ m = "LiveTactical"
      <4>1. P(r) = Rect(w - 324, 454, 300, IF h - 478 < 148 THEN h - 478 ELSE 148)
        BY <3>4, LowerRects
      <4>2. /\ P(r).x = w - 324 /\ P(r).y = 454
            /\ P(r).w = 300 /\ P(r).h \in Int
        BY <4>1 DEF Rect
      <4>3. x = w - 324 /\ lower = 454
        BY <3>4, Sizes
      <4> HIDE DEF P, x, lower
      <4> QED
        BY <3>4, <4>2, <4>3
    <3>5. CASE r = "setup" /\ m = "ReviewTactical"
      <4>1. P(r) = NoRect
        BY <3>5, LowerRects
      <4>2. P(r).x = 0 /\ P(r).y = 0 /\ P(r).w = 0 /\ P(r).h = 0
        BY <4>1 DEF Rect, NoRect
      <4> HIDE DEF P, x, lower
      <4> QED
        BY <3>5, <4>2
    <3>6. CASE r = "resilience" /\ m = "ReviewTactical"
      <4>1. P(r) = NoRect
        BY <3>6, LowerRects
      <4>2. P(r).x = 0 /\ P(r).y = 0 /\ P(r).w = 0 /\ P(r).h = 0
        BY <4>1 DEF Rect, NoRect
      <4> HIDE DEF P, x, lower
      <4> QED
        BY <3>6, <4>2
    <3> QED
      BY <2>2, <3>1, <3>2, <3>3, <3>4, <3>5, <3>6 DEF LayoutMode
  <2> QED
    BY <2>1, <2>2 DEF PanelName
<1>3. P(p).w > 0 /\ P(q).w > 0
  BY DEF Visible
<1> HIDE DEF P
<1>4. CASE p = "header" \/ q = "header"
  <2>1. P(p).y + P(p).h <= P(q).y \/ P(q).y + P(q).h <= P(p).y
    BY <1>1, <1>2, <1>3, <1>4 DEF PanelName
  <2> QED
    BY <1>2, <2>1, Apart DEF P
<1>5. CASE p \in {"map", "event"} /\ q \in {"map", "event"}
  <2>1. P(p).y + P(p).h <= P(q).y \/ P(q).y + P(q).h <= P(p).y
    BY <1>1, <1>2, <1>3, <1>5
  <2> QED
    BY <1>2, <2>1, Apart DEF P
<1>6. CASE /\ p \in {"decision", "control", "resilience", "setup"}
           /\ q \in {"decision", "control", "resilience", "setup"}
  <2>1. P(p).y + P(p).h <= P(q).y \/ P(q).y + P(q).h <= P(p).y
    BY <1>1, <1>2, <1>3, <1>6
  <2> QED
    BY <1>2, <2>1, Apart DEF P
<1>7. CASE \/ p \in {"map", "event"} /\ q \in {"decision", "control", "resilience", "setup"}
           \/ q \in {"map", "event"} /\ p \in {"decision", "control", "resilience", "setup"}
  <2>1. P(p).x + P(p).w <= P(q).x \/ P(q).x + P(q).w <= P(p).x
    BY <1>1, <1>2, <1>3, <1>7
  <2> QED
    BY <1>2, <2>1, Apart DEF P
<1> QED
  BY <1>4, <1>5, <1>6, <1>7 DEF PanelName

--------------------------------------------------------------------------------

\* Where a button of the controls lies, counted from the corner of their panel.
LEMMA LiveButtonRects ==
    ASSUME NEW m \in LayoutMode, NEW x \in Int, NEW y \in Int,
           NEW b \in LiveButtons(m, Rect(x, y, RailW(m), ControlH(m)))
    PROVE  \/ m = "StandbySetup" /\ b = Rect(x + 12, y + 102, 316, 30)
           \/ m = "ReviewTactical" /\ \E k \in 0..1 : b = Rect(x + 12 + 143 * k, y + 102, 133, 30)
           \/ m = "LiveTactical" /\ \E k \in 0..2 : b = Rect(x + 12 + 95 * k, y + 102, 85, 30)
           \/ m = "LiveTactical" /\ b = Rect(x + 12, y + 138, 85, 30)
<1> DEFINE c == Rect(x, y, RailW(m), ControlH(m))
<1>0. c.x = x /\ c.y = y /\ c.w = RailW(m)
  BY DEF Rect
<1> HIDE DEF c
<1>1. CASE m = "StandbySetup"
  <2>1. b = Rect(c.x + 12, c.y + 102, c.w - 24, 30)
    BY <1>1 DEF LiveButtons, c
  <2> QED
    BY <1>0, <1>1, <2>1 DEF RailW
<1>2. CASE m = "ReviewTactical"
  <2>1. PICK k \in 0..1 :
            b = Rect(c.x + 12 + k * ((c.w - 34) \div 2 + 10), c.y + 102, (c.w - 34) \div 2, 30)
    BY <1>2 DEF LiveButtons, c
  <2>2. c.w = 300
    BY <1>0, <1>2 DEF RailW
  <2>3. (c.w - 34) \div 2 = 133
    BY <2>2
  <2>4. k * ((c.w - 34) \div 2 + 10) = 143 * k
    BY <2>3
  <2> QED
    BY <1>0, <1>2, <2>1, <2>3, <2>4
<1>3. CASE m = "LiveTactical"
  <2>1. PICK k \in 0..3 :
            b = Rect(c.x + 12 + (k % 3) * ((c.w - 44) \div 3 + 10), c.y + 102 + 36 * (k \div 3),
                     (c.w - 44) \div 3, 30)
    BY <1>3 DEF LiveButtons, c
  <2>2. c.w = 300
    BY <1>0, <1>3 DEF RailW
  <2>3. (c.w - 44) \div 3 = 85
    BY <2>2
  <2>4. CASE k \in 0..2
    <3>1. k % 3 = k /\ k \div 3 = 0
      BY <2>4
    <3>2. b = Rect(x + 12 + 95 * k, y + 102, 85, 30)
      BY <1>0, <2>1, <2>3, <3>1
    <3> QED
      BY <1>3, <2>4, <3>2
  <2>5. CASE k = 3
    <3>1. k % 3 = 0 /\ k \div 3 = 1
      BY <2>5
    <3>2. b = Rect(x + 12, y + 138, 85, 30)
      BY <1>0, <2>1, <2>3, <3>1
    <3> QED
      BY <1>3, <3>2
  <2> QED
    BY <2>4, <2>5
<1> QED
  BY <1>1, <1>2, <1>3 DEF LayoutMode

\* Where a button of the setup lies, counted from the corner of its panel.
LEMMA SetupButtonRects ==
    ASSUME NEW x \in Int, NEW y \in Int, NEW hh \in Int, NEW b \in SetupButtons(Rect(x, y, 340, hh))
    PROVE  \E k \in 1..4, row \in 0..3 : b = Rect(x + 332 - 32 * k, y + 64 + 26 * row, 28, 18)
<1> DEFINE s == Rect(x, y, 340, hh)
<1>0. s.x = x /\ s.y = y /\ s.w = 340
  BY DEF Rect
<1> HIDE DEF s
<1>1. \E k \in 1..4, row \in 0..3 : b = Rect(Right(s) - 12 - 32 * k + 4, s.y + 64 + 26 * row, 28, 18)
  BY DEF SetupButtons, s
<1>2. PICK k \in 1..4, row \in 0..3 : b = Rect(Right(s) - 12 - 32 * k + 4, s.y + 64 + 26 * row, 28, 18)
  BY <1>1
<1>3. Right(s) - 12 - 32 * k + 4 = x + 332 - 32 * k
  BY <1>0 DEF Right
<1> QED
  BY <1>0, <1>2, <1>3

\* The panels the buttons lie in.
LEMMA ButtonPanels ==
    ASSUME NEW m \in LayoutMode, NEW w \in Int, NEW h \in Int, h >= 598,
           NEW b \in Buttons(m, w, h)
    PROVE  LET x == w - 24 - RailW(m)
               y == 118 + DecisionH(m)
           IN  \/ b \in LiveButtons(m, Rect(x, y, RailW(m), ControlH(m)))
               \/ m = "StandbySetup" /\ b \in SetupButtons(Rect(w - 364, 414, 340, h - 438))
  BY PanelRects, LowerRects DEF Buttons

\* In a window of 598 rows every button lies in its panel.
LEMMA ButtonsInside ==
    ASSUME NEW m \in LayoutMode, NEW w \in Int, NEW h \in Int, h >= 598
    PROVE  ~ButtonOutside(m, w, h)
<1> SUFFICES ASSUME NEW b \in Buttons(m, w, h)
             PROVE  Inside(b, Panel("control", m, w, h)) \/ Inside(b, Panel("setup", m, w, h))
  BY DEF ButtonOutside
<1> DEFINE x == w - 24 - RailW(m)
           y == 118 + DecisionH(m)
           c == Rect(x, y, RailW(m), ControlH(m))
<1>1. x \in Int /\ y \in Int
  BY Sizes
<1>2. CASE b \in LiveButtons(m, c)
  <2>1. Panel("control", m, w, h) = c
    BY PanelRects
  <2>2. /\ c.x = x /\ c.y = y /\ c.w = RailW(m) /\ c.h = ControlH(m)
    BY DEF Rect
  <2>3. \/ m = "StandbySetup" /\ b = Rect(x + 12, y + 102, 316, 30)
        \/ m = "ReviewTactical" /\ \E k \in 0..1 : b = Rect(x + 12 + 143 * k, y + 102, 133, 30)
        \/ m = "LiveTactical" /\ \E k \in 0..2 : b = Rect(x + 12 + 95 * k, y + 102, 85, 30)
        \/ m = "LiveTactical" /\ b = Rect(x + 12, y + 138, 85, 30)
    BY <1>1, <1>2, LiveButtonRects
  <2> HIDE DEF x, y, c
  <2>4. Inside(b, c)
    <3>1. CASE m = "StandbySetup" /\ b = Rect(x + 12, y + 102, 316, 30)
      BY <1>1, <2>2, <3>1, Sizes DEF Inside, Right, Bottom, Rect
    <3>2. CASE m = "ReviewTactical" /\ \E k \in 0..1 : b = Rect(x + 12 + 143 * k, y + 102, 133, 30)
      BY <1>1, <2>2, <3>2, Sizes DEF Inside, Right, Bottom, Rect
    <3>3. CASE m = "LiveTactical" /\ \E k \in 0..2 : b = Rect(x + 12 + 95 * k, y + 102, 85, 30)
      BY <1>1, <2>2, <3>3, Sizes DEF Inside, Right, Bottom, Rect
    <3>4. CASE m = "LiveTactical" /\ b = Rect(x + 12, y + 138, 85, 30)
      BY <1>1, <2>2, <3>4, Sizes DEF Inside, Right, Bottom, Rect
    <3> QED
      BY <2>3, <3>1, <3>2, <3>3, <3>4
  <2> QED
    BY <2>1, <2>4
<1>3. CASE m = "StandbySetup" /\ b \in SetupButtons(Rect(w - 364, 414, 340, h - 438))
  <2>1. PICK k \in 1..4, row \in 0..3 : b = Rect(w - 364 + 332 - 32 * k, 414 + 64 + 26 * row, 28, 18)
    BY <1>3, SetupButtonRects
  <2>2. Inside(b, Rect(w - 364, 414, 340, h - 438))
    BY <2>1 DEF Inside, Right, Bottom, Rect
  <2> QED
    BY <1>3, <2>2, LowerRects
<1> QED
  BY <1>2, <1>3, ButtonPanels

\* In a window of 598 rows no buttons overlap.
LEMMA ButtonsApart ==
    ASSUME NEW m \in LayoutMode, NEW w \in Int, NEW h \in Int, h >= 598
    PROVE  ~ButtonsOverlap(m, w, h)
<1> SUFFICES ASSUME NEW a \in Buttons(m, w, h), NEW b \in Buttons(m, w, h), a # b
             PROVE  ~RectsOverlap(a, b)
  BY DEF ButtonsOverlap
<1> DEFINE x == w - 24 - RailW(m)
           y == 118 + DecisionH(m)
           Live(r) ==
               \/ m = "StandbySetup" /\ r = Rect(x + 12, y + 102, 316, 30)
               \/ m = "ReviewTactical" /\ \E k \in 0..1 : r = Rect(x + 12 + 143 * k, y + 102, 133, 30)
               \/ m = "LiveTactical" /\ \E k \in 0..2 : r = Rect(x + 12 + 95 * k, y + 102, 85, 30)
               \/ m = "LiveTactical" /\ r = Rect(x + 12, y + 138, 85, 30)
           Setup(r) ==
               /\ m = "StandbySetup"
               /\ \E k \in 1..4, row \in 0..3 : r = Rect(w - 32 - 32 * k, 478 + 26 * row, 28, 18)
<1>1. x \in Int /\ y \in Int
  BY Sizes
<1>2. ASSUME NEW r \in Buttons(m, w, h)
      PROVE  Live(r) \/ Setup(r)
  <2>1. CASE r \in LiveButtons(m, Rect(x, y, RailW(m), ControlH(m)))
    BY <1>1, <2>1, LiveButtonRects
  <2>2. CASE m = "StandbySetup" /\ r \in SetupButtons(Rect(w - 364, 414, 340, h - 438))
    <3>1. PICK k \in 1..4, row \in 0..3 : r = Rect(w - 364 + 332 - 32 * k, 414 + 64 + 26 * row, 28, 18)
      BY <2>2, SetupButtonRects
    <3>2. w - 364 + 332 - 32 * k = w - 32 - 32 * k /\ 414 + 64 + 26 * row = 478 + 26 * row
      OBVIOUS
    <3> QED
      BY <2>2, <3>1, <3>2
  <2> QED
    BY <2>1, <2>2, ButtonPanels
<1>3. CASE Setup(a) /\ Setup(b)
  <2>1. PICK k \in 1..4, row \in 0..3 : a = Rect(w - 32 - 32 * k, 478 + 26 * row, 28, 18)
    BY <1>3
  <2>2. PICK l \in 1..4, col \in 0..3 : b = Rect(w - 32 - 32 * l, 478 + 26 * col, 28, 18)
    BY <1>3
  <2>3. k # l \/ row # col
    BY <2>1, <2>2
  <2>4. /\ a.x = w - 32 - 32 * k /\ a.y = 478 + 26 * row /\ a.w = 28 /\ a.h = 18
        /\ b.x = w - 32 - 32 * l /\ b.y = 478 + 26 * col /\ b.w = 28 /\ b.h = 18
    BY <2>1, <2>2 DEF Rect
  <2>5. /\ k < l => b.x + b.w <= a.x
        /\ l < k => a.x + a.w <= b.x
        /\ row < col => a.y + a.h <= b.y
        /\ col < row => b.y + b.h <= a.y
    BY <2>4
  <2>6. /\ a.x \in Int /\ a.y \in Int /\ a.w \in Int /\ a.h \in Int
        /\ b.x \in Int /\ b.y \in Int /\ b.w \in Int /\ b.h \in Int
    BY <2>4
  <2>7. k < l \/ l < k \/ row < col \/ col < row
    BY <2>3
  <2> QED
    BY <2>5, <2>6, <2>7, Apart
<1>4. CASE (Live(a) /\ Setup(b)) \/ (Live(b) /\ Setup(a))
  <2>1. ASSUME NEW r, Live(r), m = "StandbySetup"
        PROVE  r.y \in Int /\ r.h \in Int /\ r.y + r.h = 394
    BY <1>1, <2>1, Sizes DEF Rect
  <2>2. ASSUME NEW r, Setup(r)
        PROVE  r.y \in Int /\ r.h \in Int /\ r.y >= 478
    BY <2>2 DEF Rect
  <2> QED
    BY <1>4, <2>1, <2>2 DEF RectsOverlap, Right, Bottom
<1>5. CASE Live(a) /\ Live(b)
  <2> HIDE DEF x, y
  <2>1. CASE m = "StandbySetup"
    BY <1>5, <2>1
  <2>2. CASE m = "ReviewTactical"
    BY <1>1, <1>5, <2>2 DEF RectsOverlap, Right, Bottom, Rect
  <2>3. CASE m = "LiveTactical"
    BY <1>1, <1>5, <2>3 DEF RectsOverlap, Right, Bottom, Rect
  <2> QED
    BY <2>1, <2>2, <2>3 DEF LayoutMode
<1>6. (Live(a) \/ Setup(a)) /\ (Live(b) \/ Setup(b))
  BY <1>2
<1> HIDE DEF Live, Setup
<1> QED
  BY <1>3, <1>4, <1>5, <1>6

\* In a window of 598 rows no mode is refused.
LEMMA TallEnough ==
    ASSUME NEW m \in LayoutMode, NEW w \in Int, NEW h \in Int, h >= 598
    PROVE  ~LayoutRefused(m, w, h)
  BY PanelsApart, ButtonsInside, ButtonsApart DEF LayoutRefused

\* In a lower window the last row of the setup does not fit.
LEMMA StandbyNeedsRows ==
    ASSUME NEW w \in Int, NEW h \in Int, ~(h >= 598)
    PROVE  LayoutRefused("StandbySetup", w, h)
<1> DEFINE s == Panel("setup", "StandbySetup", w, h)
           c == Panel("control", "StandbySetup", w, h)
           b == Rect(Right(s) - 12 - 32 * 1 + 4, s.y + 64 + 26 * 3, 28, 18)
<1>1. b \in Buttons("StandbySetup", w, h)
  BY DEF Buttons, SetupButtons
<1>2. s = Rect(w - 364, 414, 340, LowerH("StandbySetup", h))
  BY DEF Panel, Rect, MapW, PanelX, LowerY, ControlY, ControlH, DecisionH, RailW, Margin, ContentY
<1>3. LowerH("StandbySetup", h) \in Int /\ LowerH("StandbySetup", h) < 160
  BY DEF LowerH, LowerY, ControlY, ControlH, DecisionH, Margin, ContentY
<1>4. s.y = 414 /\ s.h = LowerH("StandbySetup", h)
  BY <1>2 DEF Rect
<1>5. c = Rect(w - 364, 262, 340, 140)
  BY DEF Panel, Rect, MapW, PanelX, ControlY, ControlH, DecisionH, RailW, Margin, ContentY
<1>6. c.y = 262 /\ c.h = 140
  BY <1>5 DEF Rect
<1>7. b.y = s.y + 142 /\ b.h = 18
  BY <1>4 DEF Rect
<1> HIDE DEF s, c, b
<1>8. ~Inside(b, c) /\ ~Inside(b, s)
  BY <1>3, <1>4, <1>6, <1>7 DEF Inside, Bottom
<1> QED
  BY <1>1, <1>8 DEF LayoutRefused, ButtonOutside, s, c

--------------------------------------------------------------------------------

\* What a frame has to leave: the mode is one, and a window that standby was
\* painted in has the rows.
SizesKept ==
    /\ width \in Int /\ height \in Int /\ mode \in LayoutMode \cup {"none"}
    /\ everStandby => height >= 598
    /\ height >= 598 => running

\* Those facts hold initially and are kept by every frame.
LEMMA SizesKeptAlways == LayoutSpec => []SizesKept
<1>1. LayoutInit => SizesKept
  BY WindowSizes DEF LayoutInit, SizesKept
<1>2. SizesKept /\ [LayoutNext]_layoutVars => SizesKept'
  <2> SUFFICES ASSUME SizesKept, [LayoutNext]_layoutVars
               PROVE  SizesKept'
    OBVIOUS
  <2>1. ASSUME NEW m \in LayoutMode, Frame(m)
        PROVE  SizesKept'
    <3>1. /\ width' = width /\ height' = height /\ mode' = m
          /\ running' = ~LayoutRefused(m, width, height)
          /\ everStandby' = (everStandby \/ (m = "StandbySetup" /\ running'))
      BY <2>1 DEF Frame
    <3>2. height >= 598 => running'
      BY <3>1, TallEnough DEF SizesKept
    <3>3. everStandby' => height >= 598
      BY <3>1, StandbyNeedsRows DEF SizesKept
    <3> QED
      BY <3>1, <3>2, <3>3 DEF SizesKept
  <2>2. CASE UNCHANGED layoutVars
    BY <2>2 DEF SizesKept, layoutVars
  <2> QED
    BY <2>1, <2>2 DEF LayoutNext
<1> QED
  BY <1>1, <1>2, PTL DEF LayoutSpec

\* For windows of every size: no change of the phase ends a display that could
\* show its setup.
THEOREM NoModeEndsTheDisplay == LayoutSpec => []WindowLargeEnough
<1>1. SizesKept => WindowLargeEnough
  BY DEF SizesKept, WindowLargeEnough
<1> QED
  BY <1>1, SizesKeptAlways, PTL

\* For windows of every size: what is painted lies in the window.
THEOREM PaintedInWindow == LayoutSpec => []PanelsInWindow
<1>1. SizesKept => PanelsInWindow
  <2> SUFFICES ASSUME SizesKept, mode # "none", everStandby, MapW("StandbySetup", width) > 0,
                      NEW p \in PanelName, Visible(p, mode, width, height)
               PROVE  Inside(Panel(p, mode, width, height), Rect(0, 0, width, height))
    BY DEF PanelsInWindow
  <2> DEFINE r == Panel(p, mode, width, height)
  <2>1. /\ width \in Int /\ height \in Int /\ height >= 598 /\ mode \in LayoutMode
    BY DEF SizesKept
  <2>2. width > 406
    BY <2>1 DEF MapW, RailW, Margin
  <2>3. r.w > 0
    BY DEF Visible
  <2>4. /\ r.x \in Int /\ r.y \in Int /\ r.w \in Int /\ r.h \in Int
        /\ r.x >= 0 /\ r.y >= 0 /\ r.x + r.w <= width /\ r.y + r.h <= height
    <3>1. CASE p = "header"
      BY <2>1, <2>2, <3>1, PanelRects DEF Rect
    <3>2. CASE p = "map"
      BY <2>1, <2>2, <3>2, PanelRects, Sizes DEF Rect
    <3>3. CASE p = "event"
      BY <2>1, <2>2, <3>3, PanelRects, Sizes DEF Rect
    <3>4. CASE p = "decision"
      BY <2>1, <2>2, <3>4, PanelRects, Sizes DEF Rect
    <3>5. CASE p = "control"
      BY <2>1, <2>2, <3>5, PanelRects, Sizes DEF Rect
    <3>6. CASE p \in {"setup", "resilience"}
      <4>1. CASE p = "setup" /\ mode = "StandbySetup"
        <5>1. r = Rect(width - 364, 414, 340, height - 438)
          BY <2>1, <4>1, LowerRects
        <5> QED
          BY <2>1, <2>2, <5>1 DEF Rect
      <4>2. CASE p = "resilience" /\ mode = "StandbySetup"
        <5>1. r = NoRect
          BY <2>1, <4>2, LowerRects
        <5> QED
          BY <2>3, <5>1 DEF Rect, NoRect
      <4>3. CASE p = "setup" /\ mode = "LiveTactical"
        <5>1. r = NoRect
          BY <2>1, <4>3, LowerRects
        <5> QED
          BY <2>3, <5>1 DEF Rect, NoRect
      <4>4. CASE p = "resilience" /\ mode = "LiveTactical"
        <5>1. r = Rect(width - 324, 454, 300, IF height - 478 < 148 THEN height - 478 ELSE 148)
          BY <2>1, <4>4, LowerRects
        <5> QED
          BY <2>1, <2>2, <5>1 DEF Rect
      <4>5. CASE p = "setup" /\ mode = "ReviewTactical"
        <5>1. r = NoRect
          BY <2>1, <4>5, LowerRects
        <5> QED
          BY <2>3, <5>1 DEF Rect, NoRect
      <4>6. CASE p = "resilience" /\ mode = "ReviewTactical"
        <5>1. r = NoRect
          BY <2>1, <4>6, LowerRects
        <5> QED
          BY <2>3, <5>1 DEF Rect, NoRect
      <4> QED
        BY <2>1, <3>6, <4>1, <4>2, <4>3, <4>4, <4>5, <4>6 DEF LayoutMode
    <3> QED
      BY <3>1, <3>2, <3>3, <3>4, <3>5, <3>6 DEF PanelName
  <2> HIDE DEF r
  <2>5. Inside(r, Rect(0, 0, width, height))
    BY <2>1, <2>4 DEF Inside, Right, Bottom, Rect
  <2> QED
    BY <2>5 DEF r
<1> QED
  BY <1>1, SizesKeptAlways, PTL

\* Windows are refused at their first frame or never, for every size.
THEOREM LayoutKeptSound == LayoutSpec => []LayoutSound
<1>1. WindowLargeEnough /\ PanelsInWindow => LayoutSound
  BY DEF LayoutSound
<1> QED
  BY NoModeEndsTheDisplay, PaintedInWindow, <1>1, PTL

--------------------------------------------------------------------------------
(****************************************************************************)
(* The setup, for worlds and configurations of every size: what the setup   *)
(* and the generator of the display make of a valid scenario is valid,      *)
(* moves, and lies near the plan.                                           *)
(****************************************************************************)

\* A clamped value lies within its bounds.
LEMMA ClampBounds ==
    ASSUME NEW v \in Int, NEW lo \in Int, NEW hi \in Int, lo <= hi
    PROVE  Clamp(v, lo, hi) \in lo..hi
  BY DEF Clamp

\* Clamping moves no value further from one within the bounds.
LEMMA ClampNear ==
    ASSUME NEW a \in Int, NEW d \in Int, NEW r \in Nat, NEW lo \in Int, NEW hi \in Int,
           a \in lo..hi, d \in -r..r
    PROVE  CloseTo(Clamp(a + d, lo, hi), a, r)
  BY DEF Clamp, CloseTo

\* A position is one of the world.
LEMMA PositionInWorld ==
    ASSUME NEW v \in Int
    PROVE  /\ Position(v, WorldWidth) \in Int
           /\ 0 <= Position(v, WorldWidth) /\ Position(v, WorldWidth) < WorldWidth
           /\ Position(v, WorldHeight) \in Int
           /\ 0 <= Position(v, WorldHeight) /\ Position(v, WorldHeight) < WorldHeight
  BY WorldIsLarge DEF Position, Clamp

\* A velocity is one of the setup.
LEMMA VelocityInRange ==
    ASSUME NEW v \in Int
    PROVE  Velocity(v) \in -12..12
  BY DEF Velocity, Clamp

\* A plan and the velocity the setup can give it.
InRange(s) == s.vx \in -12..12 /\ s.vy \in -12..12

\* A setup button leaves a valid plan, and one within the range of the setup if
\* it was within it before.
LEMMA EditedValid ==
    ASSUME NEW s \in Scenario, Valid(s), NEW e \in Edited(s)
    PROVE  e \in Scenario /\ Valid(e) /\ (InRange(s) => InRange(e))
<1>1. CASE \E d \in {-16, 16} : e = [s EXCEPT !.x = Position(@ + d, WorldWidth)]
  <2>1. PICK d \in {-16, 16} : e = [s EXCEPT !.x = Position(@ + d, WorldWidth)]
    BY <1>1
  <2>2. s.x + d \in Int
    BY DEF Scenario
  <2> QED
    BY <2>1, <2>2, PositionInWorld DEF Scenario, Valid, InRange
<1>2. CASE \E d \in {-16, 16} : e = [s EXCEPT !.y = Position(@ + d, WorldHeight)]
  <2>1. PICK d \in {-16, 16} : e = [s EXCEPT !.y = Position(@ + d, WorldHeight)]
    BY <1>2
  <2>2. s.y + d \in Int
    BY DEF Scenario
  <2> QED
    BY <2>1, <2>2, PositionInWorld DEF Scenario, Valid, InRange
<1>3. CASE \E d \in {-1, 1} : e = [s EXCEPT !.vx = Velocity(@ + d)]
  <2>1. PICK d \in {-1, 1} : e = [s EXCEPT !.vx = Velocity(@ + d)]
    BY <1>3
  <2>2. s.vx + d \in Int
    BY DEF Scenario
  <2> QED
    BY <2>1, <2>2, VelocityInRange DEF Scenario, Valid, InRange
<1>4. CASE \E d \in {-1, 1} : e = [s EXCEPT !.vy = Velocity(@ + d)]
  <2>1. PICK d \in {-1, 1} : e = [s EXCEPT !.vy = Velocity(@ + d)]
    BY <1>4
  <2>2. s.vy + d \in Int
    BY DEF Scenario
  <2> QED
    BY <2>1, <2>2, VelocityInRange DEF Scenario, Valid, InRange
<1>5. CASE \E d \in {-1, 1} : e = [s EXCEPT !.angle = Clamp(@ + d, 0, 90)]
  <2>1. PICK d \in {-1, 1} : e = [s EXCEPT !.angle = Clamp(@ + d, 0, 90)]
    BY <1>5
  <2>2. s.angle + d \in Int
    BY DEF Scenario
  <2>3. Clamp(s.angle + d, 0, 90) \in 0..90
    BY <2>2 DEF Clamp
  <2> QED
    BY <2>1, <2>3 DEF Scenario, Valid, InRange
<1>6. CASE \E d \in {-8, 8} : e = [s EXCEPT !.speed = Clamp(@ + d, 4, 96)]
  <2>1. PICK d \in {-8, 8} : e = [s EXCEPT !.speed = Clamp(@ + d, 4, 96)]
    BY <1>6
  <2>2. s.speed + d \in Int
    BY DEF Scenario
  <2>3. Clamp(s.speed + d, 4, 96) \in 4..96
    BY <2>2 DEF Clamp
  <2> QED
    BY <2>1, <2>3 DEF Scenario, Valid, InRange
<1>7. CASE \E d \in {-10, 10} : e = [s EXCEPT !.timeout = Clamp(@ + d, 10, 180)]
  <2>1. PICK d \in {-10, 10} : e = [s EXCEPT !.timeout = Clamp(@ + d, 10, 180)]
    BY <1>7
  <2>2. s.timeout + d \in Int
    BY DEF Scenario
  <2>3. Clamp(s.timeout + d, 10, 180) \in 10..180
    BY <2>2 DEF Clamp
  <2> QED
    BY <2>1, <2>3 DEF Scenario, Valid, InRange
<1> QED
  BY <1>1, <1>2, <1>3, <1>4, <1>5, <1>6, <1>7 DEF Edited

--------------------------------------------------------------------------------

\* What the jitter makes of the fields of base.
JitterOf(j, base, dx, dy, dvx, dvy) ==
    /\ j.x = Position(base.x + dx, WorldWidth) /\ j.y = Position(base.y + dy, WorldHeight)
    /\ j.vx = Velocity(base.vx + dvx) /\ j.vy = Velocity(base.vy + dvy)
    /\ j.speed = base.speed /\ j.timeout = base.timeout /\ j.angle = base.angle

\* The jitter leaves a valid scenario.
LEMMA JitteredValid ==
    ASSUME NEW base \in Scenario, Valid(base), NEW dx \in Draws, NEW dy \in Draws,
           NEW dvx \in -1..1, NEW dvy \in -1..1,
           NEW j, j = Jittered(base, dx, dy, dvx, dvy)
    PROVE  j \in Scenario /\ Valid(j) /\ JitterOf(j, base, dx, dy, dvx, dvy)
<1> DEFINE x == Position(base.x + dx, WorldWidth)
           y == Position(base.y + dy, WorldHeight)
           vx == Velocity(base.vx + dvx)
           vy == Velocity(base.vy + dvy)
<1>1. /\ base.x + dx \in Int /\ base.y + dy \in Int /\ base.vx + dvx \in Int /\ base.vy + dvy \in Int
  BY DrawsInSpread DEF Scenario
<1>2. /\ x \in Int /\ 0 <= x /\ x < WorldWidth
      /\ y \in Int /\ 0 <= y /\ y < WorldHeight
  BY <1>1, PositionInWorld
<1>3. vx \in Int /\ vy \in Int
  BY <1>1, VelocityInRange
<1>4. Jittered(base, dx, dy, dvx, dvy) = [base EXCEPT !.x = x, !.y = y, !.vx = vx, !.vy = vy]
  BY DEF Jittered
<1> HIDE DEF x, y, vx, vy
<1>5. /\ j \in Scenario /\ Valid(j) /\ j.x = x /\ j.y = y /\ j.vx = vx /\ j.vy = vy
      /\ j.speed = base.speed /\ j.timeout = base.timeout /\ j.angle = base.angle
  BY <1>2, <1>3, <1>4 DEF Scenario, Valid
<1> QED
  BY <1>5 DEF x, y, vx, vy, JitterOf

\* The generator makes a valid scenario that moves.
LEMMA RandomizedValid ==
    ASSUME NEW base \in Scenario, Valid(base), NEW dx \in Draws, NEW dy \in Draws,
           NEW dvx \in -1..1, NEW dvy \in -1..1
    PROVE  LET s == RandomizeStartScenario(base, dx, dy, dvx, dvy)
           IN  s \in Scenario /\ Valid(s) /\ (s.vx # 0 \/ s.vy # 0)
<1> DEFINE j == Jittered(base, dx, dy, dvx, dvy)
           m == SetMoving(j, base)
           s == SetApart(m, base)
<1>2. j \in Scenario /\ Valid(j)
  BY JitteredValid
<1>3. m \in Scenario /\ Valid(m) /\ (m.vx # 0 \/ m.vy # 0)
  <2> HIDE DEF j
  <2>1. Sign(base.vx) \in {-1, 1}
    BY DEF Sign, Scenario
  <2> QED
    BY <1>2, <2>1 DEF SetMoving, Scenario, Valid
<1>4. s \in Scenario /\ Valid(s) /\ (s.vx # 0 \/ s.vy # 0)
  <2> HIDE DEF m
  <2>1. base.x + 16 \in Int
    BY DEF Scenario
  <2> QED
    BY <1>3, <2>1, PositionInWorld DEF SetApart, Scenario, Valid
<1> QED
  BY <1>4 DEF RandomizeStartScenario

\* The generator stays near a plan within the range of the setup.
LEMMA RandomizedNear ==
    ASSUME NEW base \in Scenario, Valid(base), InRange(base), NEW dx \in Draws, NEW dy \in Draws,
           NEW dvx \in -1..1, NEW dvy \in -1..1
    PROVE  Near(RandomizeStartScenario(base, dx, dy, dvx, dvy), base)
<1> DEFINE j == Jittered(base, dx, dy, dvx, dvy)
           m == SetMoving(j, base)
           s == SetApart(m, base)
<1>0. /\ base.x \in Int /\ base.y \in Int /\ base.vx \in -12..12 /\ base.vy \in -12..12
      /\ base.x \in 0..(WorldWidth - 1) /\ base.y \in 0..(WorldHeight - 1)
      /\ WorldWidth - 1 \in Int /\ WorldHeight - 1 \in Int
  BY WorldIsLarge DEF Scenario, Valid, InRange
<1>1. dx \in -24..24 /\ dy \in -24..24
  BY DrawsInSpread
<1>2. /\ CloseTo(Position(base.x + dx, WorldWidth), base.x, 24)
      /\ CloseTo(Position(base.y + dy, WorldHeight), base.y, 24)
  BY <1>0, <1>1, ClampNear DEF Position
<1>3. /\ CloseTo(Velocity(base.vx + dvx), base.vx, 1)
      /\ CloseTo(Velocity(base.vy + dvy), base.vy, 1)
  <2>1. base.vx \in -12..12 /\ base.vy \in -12..12 /\ base.vx \in Int /\ base.vy \in Int
    BY <1>0
  <2> QED
    BY <2>1 DEF Velocity, Clamp, CloseTo
<1>4. j \in Scenario /\ Near(j, base)
  <2>0. j = Jittered(base, dx, dy, dvx, dvy)
    OBVIOUS
  <2> HIDE DEF j
  <2>1. j \in Scenario /\ JitterOf(j, base, dx, dy, dvx, dvy)
    BY <2>0, JitteredValid
  <2> QED
    BY <1>2, <1>3, <2>1 DEF Near, JitterOf
<1>6. Near(m, base) /\ m \in Scenario
  <2> HIDE DEF j
  <2>1. CASE j.vx = 0 /\ j.vy = 0
    <3>1. CloseTo(Sign(base.vx), base.vx, 1) /\ Sign(base.vx) \in Int
      BY <1>0, <1>4, <2>1 DEF Near, CloseTo, Sign
    <3>2. m = [j EXCEPT !.vx = Sign(base.vx)]
      BY <2>1 DEF SetMoving
    <3> QED
      BY <1>4, <3>1, <3>2 DEF Near, Scenario
  <2>2. CASE ~(j.vx = 0 /\ j.vy = 0)
    BY <1>4, <2>2 DEF SetMoving
  <2> QED
    BY <2>1, <2>2
<1>7. Near(s, base)
  <2> HIDE DEF m
  <2>1. CloseTo(Position(base.x + 16, WorldWidth), base.x, 16)
    BY <1>0, ClampNear DEF Position
  <2>2. CloseTo(Position(base.x + 16, WorldWidth), base.x, 24)
    BY <1>0, <2>1, PositionInWorld DEF CloseTo
  <2> QED
    BY <1>6, <2>2 DEF SetApart, Near, Scenario
<1> QED
  BY <1>7 DEF RandomizeStartScenario

\* The generator leaves the plan as it is only on the right edge of the world.
LEMMA RandomizedVaries ==
    ASSUME NEW base \in Scenario, Valid(base), NEW dx \in Draws, NEW dy \in Draws,
           NEW dvx \in -1..1, NEW dvy \in -1..1, base.x # WorldWidth - 1
    PROVE  RandomizeStartScenario(base, dx, dy, dvx, dvy) # base
<1> DEFINE m == SetMoving(Jittered(base, dx, dy, dvx, dvy), base)
           s == SetApart(m, base)
<1> DEFINE j == Jittered(base, dx, dy, dvx, dvy)
<1>1. m \in Scenario
  <2>1. j \in Scenario
    BY JitteredValid
  <2> HIDE DEF j
  <2>2. SetMoving(j, base) \in Scenario
    BY <2>1 DEF SetMoving, Sign, Scenario
  <2> QED
    BY <2>2 DEF j
<1>2. SUFFICES s # base
  BY DEF RandomizeStartScenario
<1> HIDE DEF m
<1>3. CASE <<m.x, m.y, m.vx, m.vy>> = <<base.x, base.y, base.vx, base.vy>>
  <2>1. s.x = Position(base.x + 16, WorldWidth)
    BY <1>1, <1>3 DEF SetApart, Scenario
  <2>2. Position(base.x + 16, WorldWidth) # base.x
    BY WorldIsLarge DEF Position, Clamp, Scenario, Valid
  <2> QED
    BY <2>1, <2>2
<1>4. CASE <<m.x, m.y, m.vx, m.vy>> # <<base.x, base.y, base.vx, base.vy>>
  BY <1>4 DEF SetApart
<1> QED
  BY <1>3, <1>4

--------------------------------------------------------------------------------

\* Types and validity hold initially.
LEMMA SetupInitially == SetupInit => SetupTypeOK /\ StartNeverInvalid /\ TargetMoves
  BY ConfigsValid, EditsBounded DEF SetupInit, SetupTypeOK, StartNeverInvalid, TargetMoves

\* A start from a valid plan, with what it sends named.
LEMMA StartSteps ==
    ASSUME SetupTypeOK, SetupStart
    PROVE  \E dx, dy \in Draws, dvx, dvy \in -1..1 :
              LET payload == RandomizeStartScenario(planned, dx, dy, dvx, dvy)
              IN  /\ payload \in Scenario /\ Valid(payload) /\ (payload.vx # 0 \/ payload.vy # 0)
                  /\ \/ ~standby /\ answer' = "not in standby" /\ UNCHANGED <<scenario, standby>>
                     \/ standby /\ answer' = "accepted" /\ scenario' = payload /\ standby' = FALSE
<1>1. PICK dx \in Draws, dy \in Draws, dvx \in -1..1, dvy \in -1..1 :
          ScenarioStart(RandomizeStartScenario(planned, dx, dy, dvx, dvy))
  BY DEF SetupStart
<1> DEFINE payload == RandomizeStartScenario(planned, dx, dy, dvx, dvy)
<1>2. payload \in Scenario /\ Valid(payload) /\ (payload.vx # 0 \/ payload.vy # 0)
  BY RandomizedValid DEF SetupTypeOK
<1>3. \/ ~standby /\ answer' = "not in standby" /\ UNCHANGED <<scenario, standby>>
      \/ standby /\ answer' = "accepted" /\ scenario' = payload /\ standby' = FALSE
  <2> HIDE DEF payload
  <2>1. ScenarioStart(payload)
    BY <1>1 DEF payload
  <2> QED
    BY <1>2, <2>1 DEF ScenarioStart
<1> QED
  BY <1>2, <1>3

\* Every step keeps the types, the validity and the moving target.
LEMMA SetupStep ==
    ASSUME SetupTypeOK, StartNeverInvalid, TargetMoves, [SetupNext]_setupVars
    PROVE  (SetupTypeOK /\ StartNeverInvalid /\ TargetMoves)'
<1>1. CASE Edit
  <2>1. planned' \in Scenario /\ Valid(planned')
    BY <1>1, EditedValid DEF Edit, SetupTypeOK
  <2>2. edits' \in 0..MaxEdits
    <3>1. edits < MaxEdits /\ edits' = edits + 1
      BY <1>1 DEF Edit
    <3>2. edits \in 0..MaxEdits
      BY DEF SetupTypeOK
    <3> QED
      BY <3>1, <3>2, EditsBounded
  <2>3. UNCHANGED <<scenario, standby, answer, runs>>
    BY <1>1 DEF Edit
  <2> QED
    BY <2>1, <2>2, <2>3 DEF SetupTypeOK, StartNeverInvalid, TargetMoves
<1>2. CASE SetupStart
  <2>0. planned' = planned /\ edits' = edits /\ runs' \in 0..MaxRuns
    <3>1. planned' = planned /\ edits' = edits /\ runs < MaxRuns /\ runs' = runs + 1
      BY <1>2 DEF SetupStart
    <3>2. runs \in 0..MaxRuns
      BY DEF SetupTypeOK
    <3> QED
      BY <3>1, <3>2, EditsBounded
  <2>1. PICK dx \in Draws, dy \in Draws, dvx \in -1..1, dvy \in -1..1 :
              LET payload == RandomizeStartScenario(planned, dx, dy, dvx, dvy)
              IN  /\ payload \in Scenario /\ Valid(payload) /\ (payload.vx # 0 \/ payload.vy # 0)
                  /\ \/ ~standby /\ answer' = "not in standby" /\ UNCHANGED <<scenario, standby>>
                     \/ standby /\ answer' = "accepted" /\ scenario' = payload /\ standby' = FALSE
    BY <1>2, StartSteps
  <2> QED
    BY <2>0, <2>1 DEF SetupTypeOK, StartNeverInvalid, TargetMoves
<1>3. CASE SetupReset
  BY <1>3 DEF SetupReset, SetupTypeOK, StartNeverInvalid, TargetMoves
<1>4. CASE UNCHANGED setupVars
  BY <1>4 DEF setupVars, SetupTypeOK, StartNeverInvalid, TargetMoves
<1> QED
  BY <1>1, <1>2, <1>3, <1>4 DEF SetupNext

\* Every plan and every scenario of a run is one the server accepts.
THEOREM SetupTyped == SetupSpec => []SetupTypeOK
  BY SetupInitially, SetupStep, PTL DEF SetupSpec

\* No start request the display makes of a configured scenario, however it was
\* edited, is refused by the server's validation.
THEOREM StartAccepted == SetupSpec => []StartNeverInvalid
  BY SetupInitially, SetupStep, PTL DEF SetupSpec

\* The target of a run moves.
THEOREM RunsMove == SetupSpec => []TargetMoves
  BY SetupInitially, SetupStep, PTL DEF SetupSpec

\* A start differs from its plan except on the right edge of the world.
THEOREM StartsVary == SetupSpec => StartVaries
<1>1. ASSUME SetupTypeOK, [SetupNext]_setupVars
      PROVE  [standby /\ ~standby' => scenario' # planned \/ planned.x = WorldWidth - 1]_setupVars
  <2>1. SUFFICES ASSUME standby, ~standby', planned.x # WorldWidth - 1
                 PROVE  scenario' # planned
    OBVIOUS
  <2>2. SetupStart
    BY <1>1, <2>1 DEF SetupNext, Edit, SetupReset, setupVars
  <2>3. PICK dx \in Draws, dy \in Draws, dvx \in -1..1, dvy \in -1..1 :
            scenario' = RandomizeStartScenario(planned, dx, dy, dvx, dvy)
    BY <1>1, <2>1, <2>2, StartSteps
  <2> QED
    BY <1>1, <2>1, <2>3, RandomizedVaries DEF SetupTypeOK
<1> QED
  BY <1>1, SetupTyped, PTL DEF SetupSpec, StartVaries

\* With a configuration the setup could have made, every run starts near the
\* plan it was started from.
THEOREM StartsNearPlan ==
    ASSUME \A s \in Configs : InRange(s)
    PROVE  SetupSpec => StartNearPlan
<1>1. SetupInit => InRange(planned)
  BY DEF SetupInit
<1>2. ASSUME SetupTypeOK, InRange(planned), [SetupNext]_setupVars
      PROVE  InRange(planned)'
  <2>1. CASE Edit
    BY <1>2, <2>1, EditedValid DEF Edit, SetupTypeOK
  <2>2. CASE planned' = planned
    BY <1>2, <2>2
  <2> QED
    BY <1>2, <2>1, <2>2 DEF SetupNext, SetupStart, SetupReset, setupVars
<1>3. ASSUME SetupTypeOK, InRange(planned), [SetupNext]_setupVars
      PROVE  [standby /\ ~standby' => Near(scenario', planned)]_setupVars
  <2>1. SUFFICES ASSUME standby, ~standby'
                 PROVE  Near(scenario', planned)
    OBVIOUS
  <2>2. SetupStart
    BY <1>3, <2>1 DEF SetupNext, Edit, SetupReset, setupVars
  <2>3. PICK dx \in Draws, dy \in Draws, dvx \in -1..1, dvy \in -1..1 :
            scenario' = RandomizeStartScenario(planned, dx, dy, dvx, dvy)
    BY <1>3, <2>1, <2>2, StartSteps
  <2> QED
    BY <1>3, <2>3, RandomizedNear DEF SetupTypeOK
<1> QED
  BY <1>1, <1>2, <1>3, SetupTyped, PTL DEF SetupSpec, StartNearPlan

\* With a configuration the setup could have made, everything that is started is
\* accepted, moves, and lies near its plan but not on it.
THEOREM StartsSound ==
    ASSUME \A s \in Configs : InRange(s)
    PROVE  SetupSpec => StartsAsPlanned
<1>1. ASSUME [standby /\ ~standby' => Near(scenario', planned)]_setupVars,
             [standby /\ ~standby' => scenario' # planned \/ planned.x = WorldWidth - 1]_setupVars,
             StartNeverInvalid', TargetMoves'
      PROVE  [/\ StartNeverInvalid'
              /\ standby /\ ~standby' =>
                    /\ TargetMoves' /\ Near(scenario', planned)
                    /\ scenario' # planned \/ planned.x = WorldWidth - 1]_setupVars
  BY <1>1
<1> QED
  BY <1>1, StartAccepted, RunsMove, StartsVary, StartsNearPlan, PTL
     DEF StartVaries, StartNearPlan, StartsAsPlanned

--------------------------------------------------------------------------------
(****************************************************************************)
(* The flight of the target.  The straight flight in the unfolded world and *)
(* the reflected one differ by whole periods; each reflection turns one of  *)
(* the two round.                                                           *)
(****************************************************************************)

\* A multiple of a positive number is not between it and its negative.
LEMMA MultipleApart ==
    ASSUME NEW m \in Int, NEW period \in Nat \ {0}, m * period < period, -period < m * period
    PROVE  m = 0
<1>1. CASE m >= 1
  <2>1. m * period = (m - 1) * period + period
    OBVIOUS
  <2>2. (m - 1) * period >= 0
    BY <1>1
  <2>3. QED
    BY <2>1, <2>2
<1>2. CASE m <= -1
  <2>1. m * period = (m + 1) * period - period
    OBVIOUS
  <2>2. (m + 1) * period <= 0
    BY <1>2
  <2>3. QED
    BY <2>1, <2>2
<1>3. QED
  BY <1>1, <1>2

\* The remainder is the one number within the period.
LEMMA Remainder ==
    ASSUME NEW period \in Nat \ {0}, NEW m \in Int, NEW r \in 0 .. period - 1
    PROVE  (r + m * period) % period = r
<1> DEFINE x == r + m * period
           q == x \div period
           s == x % period
<1>1. x \in Int /\ q \in Int /\ s \in 0 .. period - 1 /\ x = period * q + s
  OBVIOUS
<1> HIDE DEF q, s
<1>2. (m - q) * period = s - r
  BY <1>1
<1>3. m - q = 0
  BY <1>1, <1>2, MultipleApart
<1>4. QED
  BY <1>1, <1>2, <1>3 DEF s

\* Where the target would be without the edges.
Unfolded == start + ticks * launched

\* The reflected flight is the straight one or its mirror image, up to whole periods.
Mirrored ==
    \E m \in Int :
        \/ velocity = launched /\ Unfolded = position + m * (2 * (limit - 1))
        \/ velocity = -launched /\ Unfolded = -position + m * (2 * (limit - 1))

MotionTyped ==
    /\ limit \in Nat \ {0} /\ start \in 0 .. limit - 1 /\ launched \in Int /\ ticks \in Nat
    /\ position \in 0 .. limit - 1 /\ velocity \in {launched, -launched}

\* The inductive invariant; the mirror needs a target not faster than the world is wide.
MotionInv ==
    /\ MotionTyped
    /\ limit > 1 /\ Magnitude(launched) <= limit - 1 => Mirrored

\* The clamp keeps what it is given inside.
LEMMA WithinBounds ==
    ASSUME NEW x \in Int, NEW hi \in Nat
    PROVE  /\ Within(x, 0, hi) \in 0 .. hi
           /\ x \in 0 .. hi => Within(x, 0, hi) = x
BY DEF Within

\* The target starts out within the invariant of its motion.
LEMMA MotionInitially == MotionInit => MotionInv
<1> SUFFICES ASSUME MotionInit
             PROVE  MotionInv
  OBVIOUS
<1>1. MotionTyped
  BY MotionConstants DEF MotionInit, MotionTyped
<1>2. Unfolded = position + 0 * (2 * (limit - 1)) /\ velocity = launched
  BY <1>1 DEF MotionInit, MotionTyped, Unfolded
<1>3. QED
  BY <1>1, <1>2 DEF MotionInv, Mirrored

\* A bounce by the three places the target may be headed for.
LEMMA BounceCases ==
    ASSUME MotionTyped
    PROVE  LET b == Bounced(position, velocity)
               ahead == position + velocity
               edge == limit - 1
           IN  /\ ahead \in Int /\ position \in 0 .. edge /\ velocity \in Int /\ edge \in Nat
               /\ limit <= 1 \/ velocity = 0 =>
                     b.position = Within(position, 0, edge) /\ b.velocity = velocity
               /\ ~(limit <= 1 \/ velocity = 0) =>
                     /\ ahead < 0 => b.position = Within(-ahead, 0, edge) /\ b.velocity = -velocity
                     /\ ahead > edge => /\ b.position = Within(2 * edge - ahead, 0, edge)
                                        /\ b.velocity = -velocity
                     /\ ahead \in 0 .. edge => /\ b.position = Within(ahead, 0, edge)
                                               /\ b.velocity = velocity
<1> DEFINE edge == limit - 1
           ahead == position + velocity
           b == Bounced(position, velocity)
<1>1. ahead \in Int /\ position \in 0 .. edge /\ velocity \in Int /\ edge \in Nat
  BY DEF MotionTyped
<1>2. limit <= 1 \/ velocity = 0 =>
          b.position = Within(position, 0, edge) /\ b.velocity = velocity
  BY DEF Bounced
<1>3. ASSUME ~(limit <= 1 \/ velocity = 0), ahead < 0
      PROVE  b.position = Within(-ahead, 0, edge) /\ b.velocity = -velocity
  BY <1>3 DEF Bounced
<1>4. ASSUME ~(limit <= 1 \/ velocity = 0), ahead > edge
      PROVE  b.position = Within(2 * edge - ahead, 0, edge) /\ b.velocity = -velocity
  <2>1. b.position = Within(edge - (ahead - edge), 0, edge) /\ b.velocity = -velocity
    BY <1>1, <1>4 DEF Bounced
  <2>2. edge - (ahead - edge) = 2 * edge - ahead
    BY <1>1
  <2>3. QED
    BY <2>1, <2>2
<1>5. ASSUME ~(limit <= 1 \/ velocity = 0), ahead \in 0 .. edge
      PROVE  b.position = Within(ahead, 0, edge) /\ b.velocity = velocity
  BY <1>1, <1>5 DEF Bounced
<1>6. QED
  BY <1>1, <1>2, <1>3, <1>4, <1>5

\* A bounce stays in the world and keeps the speed.
LEMMA BounceStays ==
    ASSUME MotionTyped
    PROVE  LET b == Bounced(position, velocity)
           IN  b.position \in 0 .. limit - 1 /\ b.velocity \in {launched, -launched}
<1> DEFINE edge == limit - 1
           ahead == position + velocity
           b == Bounced(position, velocity)
<1>1. /\ ahead \in Int /\ position \in 0 .. edge /\ velocity \in Int /\ edge \in Nat
      /\ limit <= 1 \/ velocity = 0 =>
            b.position = Within(position, 0, edge) /\ b.velocity = velocity
      /\ ~(limit <= 1 \/ velocity = 0) =>
            /\ ahead < 0 => b.position = Within(-ahead, 0, edge) /\ b.velocity = -velocity
            /\ ahead > edge => b.position = Within(2 * edge - ahead, 0, edge) /\ b.velocity = -velocity
            /\ ahead \in 0 .. edge => b.position = Within(ahead, 0, edge) /\ b.velocity = velocity
  BY BounceCases
<1>2. velocity \in {launched, -launched} /\ -velocity \in {launched, -launched}
  BY DEF MotionTyped
<1> HIDE DEF edge, ahead, b
<1>3. 2 * edge - ahead \in Int /\ -ahead \in Int /\ position \in Int
  BY <1>1
<1>4. ahead < 0 \/ ahead > edge \/ ahead \in 0 .. edge
  BY <1>1
<1>5. /\ Within(position, 0, edge) \in 0 .. edge /\ Within(-ahead, 0, edge) \in 0 .. edge
      /\ Within(2 * edge - ahead, 0, edge) \in 0 .. edge /\ Within(ahead, 0, edge) \in 0 .. edge
  BY <1>1, <1>3, WithinBounds
<1>6. b.position \in 0 .. edge /\ b.velocity \in {velocity, -velocity}
  BY <1>1, <1>4, <1>5
<1>7. QED
  BY <1>2, <1>6 DEF b, edge

\* In a world as wide as the target is fast, a bounce is one reflection at most.
LEMMA BounceReflects ==
    ASSUME MotionTyped, limit > 1, Magnitude(launched) <= limit - 1
    PROVE  LET b == Bounced(position, velocity)
               ahead == position + velocity
           IN  \/ b.position = ahead /\ b.velocity = velocity
               \/ b.position = -ahead /\ b.velocity = -velocity
               \/ b.position = 2 * (limit - 1) - ahead /\ b.velocity = -velocity
<1> DEFINE edge == limit - 1
           ahead == position + velocity
           b == Bounced(position, velocity)
<1>1. /\ ahead \in Int /\ position \in 0 .. edge /\ velocity \in Int /\ edge \in Nat
      /\ limit <= 1 \/ velocity = 0 =>
            b.position = Within(position, 0, edge) /\ b.velocity = velocity
      /\ ~(limit <= 1 \/ velocity = 0) =>
            /\ ahead < 0 => b.position = Within(-ahead, 0, edge) /\ b.velocity = -velocity
            /\ ahead > edge => b.position = Within(2 * edge - ahead, 0, edge) /\ b.velocity = -velocity
            /\ ahead \in 0 .. edge => b.position = Within(ahead, 0, edge) /\ b.velocity = velocity
  BY BounceCases
<1>2. velocity <= edge /\ -edge <= velocity
  BY DEF MotionTyped, Magnitude
<1>3. velocity = 0 => ahead = position
  BY <1>1
<1>4. /\ ahead < 0 => -ahead \in 0 .. edge
      /\ ahead > edge => 2 * edge - ahead \in 0 .. edge
      /\ ahead < 0 \/ ahead > edge \/ ahead \in 0 .. edge
  BY <1>1, <1>2
<1> limit \in Nat
  BY DEF MotionTyped
<1> HIDE DEF edge, ahead, b
<1>5. /\ ahead < 0 => Within(-ahead, 0, edge) = -ahead
      /\ ahead > edge => Within(2 * edge - ahead, 0, edge) = 2 * edge - ahead
      /\ ahead \in 0 .. edge => Within(ahead, 0, edge) = ahead
      /\ Within(position, 0, edge) = position
  <2>1. 2 * edge - ahead \in Int /\ -ahead \in Int /\ position \in Int
    BY <1>1
  <2>2. QED
    BY <1>1, <1>4, <2>1, WithinBounds
<1>6. \/ b.position = ahead /\ b.velocity = velocity
      \/ b.position = -ahead /\ b.velocity = -velocity
      \/ b.position = 2 * edge - ahead /\ b.velocity = -velocity
  BY <1>1, <1>3, <1>4, <1>5
<1>7. QED
  BY <1>6 DEF b, ahead, edge

\* Every tick keeps it there.
LEMMA MotionStep == MotionInv /\ [MotionTick]_motionVars => MotionInv'
<1> SUFFICES ASSUME MotionInv, [MotionTick]_motionVars
             PROVE  MotionInv'
  OBVIOUS
<1>1. CASE UNCHANGED motionVars
  BY <1>1 DEF motionVars, MotionInv, MotionTyped, Mirrored, Unfolded
<1>2. CASE MotionTick
  <2> DEFINE b == Bounced(position, velocity)
             period == 2 * (limit - 1)
             ahead == position + velocity
  <2>1. /\ limit' = limit /\ start' = start /\ launched' = launched /\ ticks' = ticks + 1
        /\ position' = b.position /\ velocity' = b.velocity
    BY <1>2 DEF MotionTick
  <2>2. /\ limit \in Nat /\ start \in Int /\ launched \in Int /\ ticks \in Nat
        /\ position \in Int /\ velocity \in Int /\ period \in Int /\ ahead \in Int
    BY DEF MotionInv, MotionTyped
  <2>3. b.position \in 0 .. limit - 1 /\ b.velocity \in {launched, -launched}
    BY BounceStays DEF MotionInv
  <2>4. MotionTyped'
    BY <2>1, <2>3 DEF MotionInv, MotionTyped
  <2>5. Unfolded' = Unfolded + launched /\ Unfolded \in Int
    <3>1. (ticks + 1) * launched = ticks * launched + launched /\ ticks * launched \in Int
      BY <2>2
    <3>2. QED
      BY <2>1, <2>2, <3>1 DEF Unfolded
  <2>6. ASSUME limit > 1, Magnitude(launched) <= limit - 1
        PROVE  Mirrored'
    <3>1. \/ b.position = ahead /\ b.velocity = velocity
          \/ b.position = -ahead /\ b.velocity = -velocity
          \/ b.position = period - ahead /\ b.velocity = -velocity
      BY <2>6, BounceReflects DEF MotionInv
    <3>2. PICK m \in Int :
              \/ velocity = launched /\ Unfolded = position + m * period
              \/ velocity = -launched /\ Unfolded = -position + m * period
      BY <2>6 DEF MotionInv, Mirrored
    <3>3. period' = period
      BY <2>1
    <3> b.position \in Int
      BY <2>2, <2>3
    <3> HIDE DEF b, period
    <3>4. /\ (m + 1) * period = m * period + period /\ (m - 1) * period = m * period - period
          /\ m * period \in Int
      BY <2>2
    <3>5. \/ velocity' = launched /\ Unfolded' = position' + m * period
          \/ velocity' = launched /\ Unfolded' = position' + (m - 1) * period
          \/ velocity' = -launched /\ Unfolded' = -position' + m * period
          \/ velocity' = -launched /\ Unfolded' = -position' + (m + 1) * period
      <4> DEFINE p == m * period
      <4>1. p \in Int /\ (m + 1) * period = p + period /\ (m - 1) * period = p - period
        BY <3>4
      <4> HIDE DEF p
      <4>2. \/ velocity = launched /\ Unfolded = position + p
            \/ velocity = -launched /\ Unfolded = -position + p
        BY <3>2 DEF p
      <4>3. \/ velocity' = launched /\ Unfolded' = position' + p
            \/ velocity' = launched /\ Unfolded' = position' + (p - period)
            \/ velocity' = -launched /\ Unfolded' = -position' + p
            \/ velocity' = -launched /\ Unfolded' = -position' + (p + period)
        <5>1. /\ {position', velocity', launched, position, velocity, Unfolded, Unfolded'} \subseteq Int
              /\ period \in Int
          BY <2>1, <2>2, <2>3, <2>5, <3>1, <4>1
        <5>2. CASE velocity = launched /\ Unfolded = position + p
          <6>1. Unfolded' = ahead + p
            BY <2>5, <4>1, <5>1, <5>2
          <6>2. QED
            BY <2>1, <3>1, <4>1, <5>1, <5>2, <6>1
        <5>3. CASE velocity = -launched /\ Unfolded = -position + p
          <6>1. Unfolded' = -ahead + p /\ launched = -velocity
            BY <2>5, <4>1, <5>1, <5>3
          <6>2. QED
            BY <2>1, <3>1, <4>1, <5>1, <5>3, <6>1
        <5>4. QED
          BY <4>2, <5>2, <5>3
      <4>4. QED
        BY <4>1, <4>3 DEF p
    <3>6. m + 1 \in Int /\ m - 1 \in Int
      OBVIOUS
    <3>7. \E n \in Int :
              \/ velocity' = launched' /\ Unfolded' = position' + n * period'
              \/ velocity' = -launched' /\ Unfolded' = -position' + n * period'
      BY <2>1, <3>3, <3>5, <3>6
    <3>8. QED
      BY <3>7 DEF Mirrored, period
  <2>7. QED
    BY <2>1, <2>4, <2>6 DEF MotionInv, Magnitude
<1>3. QED
  BY <1>1, <1>2

\* Within the world, the mirror image of the straight flight is its folding.
LEMMA MirrorFolds ==
    ASSUME MotionTyped, limit > 1, Mirrored
    PROVE  position = Folded(Unfolded, limit)
<1> DEFINE period == 2 * (limit - 1)
<1>1. /\ period \in Nat \ {0} /\ position \in 0 .. limit - 1 /\ limit \in Nat
      /\ position \in 0 .. period - 1
      /\ position # 0 => period - position \in 0 .. period - 1
  BY DEF MotionTyped
<1>2. PICK m \in Int : \/ Unfolded = position + m * period
                       \/ Unfolded = -position + m * period
  BY DEF Mirrored
<1>3. Folded(Unfolded, limit) =
          IF Unfolded % period <= limit - 1 THEN Unfolded % period
                                            ELSE period - (Unfolded % period)
  BY DEF Folded
<1>4. CASE Unfolded = position + m * period
  <2>1. Unfolded % period = position
    BY <1>1, <1>4, Remainder
  <2>2. QED
    BY <1>1, <1>3, <2>1
<1>5. CASE Unfolded = -position + m * period
  <2>1. CASE position = 0
    <3>1. Unfolded = position + m * period
      BY <1>1, <1>5, <2>1
    <3>2. QED
      BY <1>4, <3>1
  <2>2. CASE position # 0
    <3> HIDE DEF period
    <3>1. -position + m * period = (period - position) + (m - 1) * period /\ m - 1 \in Int
      BY <1>1
    <3>2. Unfolded % period = period - position
      BY <1>1, <1>5, <2>2, <3>1, Remainder
    <3>3. QED
      BY <1>1, <1>3, <3>2 DEF period
  <2>3. QED
    BY <2>1, <2>2
<1>6. QED
  BY <1>2, <1>4, <1>5

\* The target never leaves the world and keeps its speed, however fast it is; and
\* unless it is faster than the world is wide, its reflections are, after any
\* number of ticks, the straight flight folded at the edges.
THEOREM MotionKeptFaithful == MotionSpec => []MotionFaithful
<1>1. MotionInv => MotionFaithful
  <2> SUFFICES ASSUME MotionInv
               PROVE  MotionFaithful
    OBVIOUS
  <2>1. StaysInWorld
    BY DEF MotionInv, MotionTyped, StaysInWorld, Magnitude
  <2>2. FollowsReflection
    BY MirrorFolds DEF MotionInv, FollowsReflection, Unfolded
  <2>3. QED
    BY <2>1, <2>2 DEF MotionFaithful
<1>2. QED
  BY <1>1, MotionInitially, MotionStep, PTL DEF MotionSpec

--------------------------------------------------------------------------------
(****************************************************************************)
(* The stream.  What was received, what the buffer holds, what is on the    *)
(* wire and what waits to be sent are, one behind the other, the frames of  *)
(* the messages given: a frame is found whole at the front of the buffer,   *)
(* or not at all.                                                           *)
(****************************************************************************)

\* A line: a text without newline, and a newline.
Line(f, text) ==
    /\ text \in Seq(Byte) /\ Len(text) > 0 /\ f \in Seq(Byte) /\ Len(f) = Len(text) + 1
    /\ \A i \in 1 .. Len(text) : f[i] = text[i] /\ f[i] # Newline
    /\ f[Len(text) + 1] = Newline

\* The place of the first newline of a buffer.
LineSize(b) ==
    LET I == {i \in 1 .. Len(b) : b[i] = Newline}
    IN  IF I # {} THEN Min(I) ELSE 0

\* A whole line at the front of a buffer is found.
LEMMA LineWhole ==
    ASSUME NEW f, NEW text, Line(f, text), NEW b, Stands(Byte, b, 0, f)
    PROVE  LineSize(b) = Len(f)
<1>0. /\ text \in Seq(Byte) /\ f \in Seq(Byte) /\ Len(f) = Len(text) + 1
      /\ \A i \in 1 .. Len(text) : f[i] # Newline
      /\ f[Len(text) + 1] = Newline
  BY DEF Line
<1>1. PICK n \in Nat : n = Len(f) /\ n > 0 /\ n = Len(text) + 1
  BY <1>0
<1>2. b \in Seq(Byte) /\ n <= Len(b) /\ \A j \in 1 .. n : b[j] = f[j]
  <2>1. b \in Seq(Byte) /\ 0 + Len(f) <= Len(b) /\ \A j \in 1 .. Len(f) : b[0 + j] = f[j]
    BY DEF Stands
  <2>2. \A j \in 1 .. n : 0 + j = j
    OBVIOUS
  <2> QED BY <1>1, <2>1, <2>2
<1> DEFINE I == {i \in 1 .. Len(b) : b[i] = Newline}
<1>3. I \in SUBSET Nat
  OBVIOUS
<1>4. n \in I
  BY <1>0, <1>1, <1>2
<1>5. ASSUME NEW i \in I PROVE n <= i
  <2>1. i \in 1 .. Len(b) /\ b[i] = Newline
    OBVIOUS
  <2>2. ~(i \in 1 .. Len(text))
    BY <1>0, <1>1, <1>2, <2>1
  <2> QED BY <1>0, <1>1, <1>2, <2>1, <2>2
<1>6. LineSize(b) = IF I # {} THEN Min(I) ELSE 0
  BY Zenon DEF LineSize
<1> HIDE DEF I
<1>7. Min(I) = n
  BY <1>3, <1>4, <1>5, MinIs
<1> QED BY <1>1, <1>4, <1>6, <1>7

\* A part of a line is not taken for one.
LEMMA LinePart ==
    ASSUME NEW f, NEW text, Line(f, text),
           NEW b \in Seq(Byte), Len(b) < Len(f), \A j \in 1 .. Len(b) : b[j] = f[j]
    PROVE  LineSize(b) = 0
<1>1. \A i \in 1 .. Len(b) : b[i] # Newline
  <2>1. /\ text \in Seq(Byte) /\ f \in Seq(Byte) /\ Len(f) = Len(text) + 1
        /\ \A i \in 1 .. Len(text) : f[i] # Newline
    BY DEF Line
  <2> QED BY <2>1
<1>2. {i \in 1 .. Len(b) : b[i] = Newline} = {}
  BY <1>1
<1> QED BY <1>2, Zenon DEF LineSize

\* A line put behind a text gives the text back without its last byte.
LEMMA LineOf ==
    ASSUME NEW text \in Seq(Byte), Len(text) > 0, \A i \in 1 .. Len(text) : text[i] # Newline
    PROVE  /\ Line(Append(text, Newline), text)
           /\ SubSeq(Append(text, Newline), 1, Len(Append(text, Newline)) - 1) = text
<1>0. Newline \in Byte
  BY DEF Newline, Byte
<1>1. PICK f : f = Append(text, Newline)
  OBVIOUS
<1>2. /\ f \in Seq(Byte) /\ Len(f) = Len(text) + 1
      /\ \A i \in 1 .. Len(text) : f[i] = text[i]
      /\ f[Len(text) + 1] = Newline
  BY <1>0, <1>1, AppendProperties
<1>3. Line(f, text)
  BY <1>2 DEF Line
<1>4. SubSeq(f, 1, Len(f) - 1) = text
  <2>1. 0 \in Nat /\ 0 + Len(text) <= Len(f) /\ \A j \in 1 .. Len(text) : f[0 + j] = text[j]
    BY <1>2
  <2>2. SubSeq(f, 0 + 1, 0 + Len(text)) = text
    BY <1>2, <2>1, SubSeqIs
  <2>3. 0 + 1 = 1 /\ 0 + Len(text) = Len(f) - 1
    BY <1>2
  <2> QED BY <2>2, <2>3, Zenon
<1> QED BY <1>1, <1>3, <1>4, Zenon

\* What Framed gives in the JSON format.
LEMMA JsonFramed ==
    ASSUME NEW message \in Messages
    PROVE  \E text : /\ Line(Frames[message]["json"], text)
                     /\ SubSeq(Frames[message]["json"], 1, Len(Frames[message]["json"]) - 1) = text
                     /\ DecodeJsonFrame(text) = message
<1>0. message \in Message
  BY MessagesAreMessages
<1>1. PICK text : text = EncodeJsonFrame(message.kind, Serialize(message))
  OBVIOUS
<1>2. /\ text \in Seq(Byte) /\ Len(text) > 0
      /\ \A i \in 1 .. Len(text) : text[i] # Newline
      /\ DecodeJsonFrame(text) = message
  BY <1>0, <1>1, JsonFrameReadBack
<1>3. Frames[message]["json"] = Append(text, Newline)
  BY <1>1 DEF Frames
<1>4. /\ Line(Append(text, Newline), text)
      /\ SubSeq(Append(text, Newline), 1, Len(Append(text, Newline)) - 1) = text
  BY <1>2, LineOf
<1> QED BY <1>2, <1>3, <1>4, Zenon

\* What Framed gives in the binary format.
LEMMA BinaryFramed ==
    ASSUME NEW message \in Messages
    PROVE  \E kind, payload : /\ BinaryForm(Frames[message]["binary"], kind, payload)
                              /\ DecodeBinaryFrame(Frames[message]["binary"]) = message
<1>0. message \in Message
  BY MessagesAreMessages
<1>1. PICK f : f = EncodeBinaryFrame(message.kind, Serialize(message))
  OBVIOUS
<1>2. FitsU32(Len(f))
  BY <1>1, FramesFit, Zenon
<1>3. BinaryForm(f, message.kind, Serialize(message)) /\ DecodeBinaryFrame(f) = message
  BY <1>0, <1>1, <1>2, BinaryFrameReadBack
<1>4. Frames[message]["binary"] = f
  BY <1>1 DEF Frames
<1> QED BY <1>3, <1>4, Zenon

\* FrameSize and Decoded, of a buffer and a frame in a format.
SizeIn(b, fmt) == IF fmt = "json" THEN LineSize(b) ELSE BinaryFrameSize(b)

\* Decoded, of a frame in a format.
DecodedIn(f, fmt) ==
    IF fmt = "json" THEN DecodeJsonFrame(SubSeq(f, 1, Len(f) - 1)) ELSE DecodeBinaryFrame(f)

\* A frame gives its message back.
LEMMA FrameReadBack ==
    ASSUME NEW message \in Messages, NEW fmt \in FrameFormat
    PROVE  /\ Frames[message][fmt] \in Seq(Byte) /\ Len(Frames[message][fmt]) > 1
           /\ DecodedIn(Frames[message][fmt], fmt) = message
<1>1. CASE fmt = "json"
  <2>1. PICK text : /\ Line(Frames[message]["json"], text)
                    /\ SubSeq(Frames[message]["json"], 1, Len(Frames[message]["json"]) - 1) = text
                    /\ DecodeJsonFrame(text) = message
    BY JsonFramed
  <2>2. Frames[message]["json"] \in Seq(Byte) /\ Len(Frames[message]["json"]) > 1
    BY <2>1 DEF Line
  <2>3. DecodedIn(Frames[message]["json"], "json") = message
    BY <2>1, Zenon DEF DecodedIn
  <2> QED BY <1>1, <2>2, <2>3, Zenon
<1>2. CASE fmt = "binary"
  <2>1. PICK kind, payload : /\ BinaryForm(Frames[message]["binary"], kind, payload)
                             /\ DecodeBinaryFrame(Frames[message]["binary"]) = message
    BY BinaryFramed
  <2>2. Frames[message]["binary"] \in Seq(Byte) /\ Len(Frames[message]["binary"]) > 1
    BY <2>1 DEF BinaryForm
  <2>4. "binary" # "json"
    OBVIOUS
  <2>3. DecodedIn(Frames[message]["binary"], "binary") = message
    BY <2>1, <2>4, Zenon DEF DecodedIn
  <2> QED BY <1>2, <2>2, <2>3, Zenon
<1> QED BY <1>1, <1>2 DEF FrameFormat

\* A whole frame at the front of a buffer is found, and nothing behind it is looked at.
LEMMA FrameWhole ==
    ASSUME NEW message \in Messages, NEW fmt \in FrameFormat,
           NEW b, Stands(Byte, b, 0, Frames[message][fmt])
    PROVE  SizeIn(b, fmt) = Len(Frames[message][fmt])
<1>1. CASE fmt = "json"
  <2>1. PICK text : Line(Frames[message]["json"], text)
    BY JsonFramed
  <2>2. LineSize(b) = Len(Frames[message]["json"])
    BY <1>1, <2>1, LineWhole
  <2> QED BY <1>1, <2>2, Zenon DEF SizeIn
<1>2. CASE fmt = "binary"
  <2>1. PICK kind, payload : BinaryForm(Frames[message]["binary"], kind, payload)
    BY BinaryFramed
  <2>2. BinaryFrameSize(b) = Len(Frames[message]["binary"])
    BY <1>2, <2>1, BinaryWhole
  <2>3. fmt # "json"
    BY <1>2
  <2> QED BY <1>2, <2>2, <2>3, Zenon DEF SizeIn
<1> QED BY <1>1, <1>2 DEF FrameFormat

\* A part of a frame is not taken for one.
LEMMA FramePart ==
    ASSUME NEW message \in Messages, NEW fmt \in FrameFormat,
           NEW b \in Seq(Byte), Len(b) < Len(Frames[message][fmt]),
           \A j \in 1 .. Len(b) : b[j] = Frames[message][fmt][j]
    PROVE  SizeIn(b, fmt) = 0
<1>1. CASE fmt = "json"
  <2>1. PICK text : Line(Frames[message]["json"], text)
    BY JsonFramed
  <2>2. LineSize(b) = 0
    BY <1>1, <2>1, LinePart
  <2> QED BY <1>1, <2>2, Zenon DEF SizeIn
<1>2. CASE fmt = "binary"
  <2>1. PICK kind, payload : BinaryForm(Frames[message]["binary"], kind, payload)
    BY BinaryFramed
  <2>2. BinaryFrameSize(b) = 0
    BY <1>2, <2>1, BinaryPart
  <2>3. fmt # "json"
    BY <1>2
  <2> QED BY <2>2, <2>3, Zenon DEF SizeIn
<1> QED BY <1>1, <1>2 DEF FrameFormat

\* An empty buffer has no frame.
LEMMA FrameNone ==
    ASSUME NEW fmt
    PROVE  SizeIn(<<>>, fmt) = 0
<1>1. LineSize(<<>>) = 0
  <2>1. {i \in 1 .. Len(<<>>) : <<>>[i] = Newline} = {}
    OBVIOUS
  <2> QED BY <2>1, Zenon DEF LineSize
<1>2. BinaryFrameSize(<<>>) = 0
  <2>1. Len(<<>>) < 8
    OBVIOUS
  <2> QED BY <2>1, Zenon DEF BinaryFrameSize
<1> QED BY <1>1, <1>2, Zenon DEF SizeIn

\* The frames of the messages not yet received, and their bytes.
Pending(g, k, fmt) == [i \in 1 .. Len(g) - k |-> Frames[g[k + i]][fmt]]

\* Their bytes.
Rest(g, k, fmt) == FlattenSeq(Pending(g, k, fmt))

\* Their types.
LEMMA PendingType ==
    ASSUME NEW g \in Seq(Messages), NEW k \in 0 .. Len(g), NEW fmt \in FrameFormat
    PROVE  Pending(g, k, fmt) \in Seq(Seq(Byte)) /\ Len(Pending(g, k, fmt)) = Len(g) - k
<1>1. ASSUME NEW i \in 1 .. Len(g) - k PROVE Frames[g[k + i]][fmt] \in Seq(Byte)
  <2>1. k + i \in 1 .. Len(g)
    OBVIOUS
  <2>2. g[k + i] \in Messages
    BY <2>1
  <2> QED BY <2>2, FrameReadBack
<1>2. Len(g) - k \in Nat
  OBVIOUS
<1>3. [i \in 1 .. Len(g) - k |-> Frames[g[k + i]][fmt]] \in Seq(Seq(Byte))
  BY <1>1, <1>2
<1>4. Len([i \in 1 .. Len(g) - k |-> Frames[g[k + i]][fmt]]) = Len(g) - k
  BY <1>2
<1> QED BY <1>3, <1>4, Zenon DEF Pending

\* The type of the bytes.
LEMMA RestType ==
    ASSUME NEW g \in Seq(Messages), NEW k \in 0 .. Len(g), NEW fmt \in FrameFormat
    PROVE  Rest(g, k, fmt) \in Seq(Byte)
BY PendingType, FlattenType DEF Rest

\* Nothing is left when everything has been received.
LEMMA RestNone ==
    ASSUME NEW g \in Seq(Messages), NEW fmt \in FrameFormat
    PROVE  Rest(g, Len(g), fmt) = <<>>
<1>1. Len(g) \in 0 .. Len(g)
  OBVIOUS
<1>2. Pending(g, Len(g), fmt) \in Seq(Seq(Byte)) /\ Len(Pending(g, Len(g), fmt)) = Len(g) - Len(g)
  BY <1>1, PendingType
<1>3. Pending(g, Len(g), fmt) = <<>>
  BY <1>2, EmptySeq
<1> QED BY <1>3, FlattenEmpty DEF Rest

\* The next frame comes first.
LEMMA RestNext ==
    ASSUME NEW g \in Seq(Messages), NEW k \in 0 .. Len(g), k < Len(g), NEW fmt \in FrameFormat
    PROVE  Rest(g, k, fmt) = Cat(Frames[g[k + 1]][fmt], Rest(g, k + 1, fmt))
<1>1. PICK e \in Seq(Byte) : e = Frames[g[k + 1]][fmt]
  <2>1. k + 1 \in 1 .. Len(g)
    OBVIOUS
  <2>2. g[k + 1] \in Messages
    BY <2>1
  <2> QED BY <2>2, FrameReadBack
<1>2. k + 1 \in 0 .. Len(g)
  OBVIOUS
<1>3. PICK p \in Seq(Seq(Byte)), r \in Seq(Seq(Byte)) :
         /\ p = Pending(g, k, fmt) /\ r = Pending(g, k + 1, fmt)
         /\ Len(p) = Len(g) - k /\ Len(r) = Len(g) - (k + 1)
  BY <1>2, PendingType
<1>4. p[1] = e
  BY <1>1, <1>3 DEF Pending
<1>5. ASSUME NEW i \in 1 .. Len(r) PROVE p[1 + i] = r[i]
  <2>1. 1 + i \in 1 .. Len(g) - k /\ i \in 1 .. Len(g) - (k + 1) /\ k + (1 + i) = (k + 1) + i
    BY <1>3
  <2>2. p[1 + i] = Frames[g[k + (1 + i)]][fmt]
    BY <1>3, <2>1 DEF Pending
  <2>3. r[i] = Frames[g[(k + 1) + i]][fmt]
    BY <1>3, <2>1 DEF Pending
  <2> QED BY <2>1, <2>2, <2>3, Zenon
<1>6. p = Cat(<<e>>, r)
  <2>1. PICK o \in Seq(Seq(Byte)) : o = <<e>> /\ Len(o) = 1 /\ o[1] = e
    <3>1. <<e>> \in Seq(Seq(Byte)) /\ Len(<<e>>) = 1 /\ <<e>>[1] = e
      OBVIOUS
    <3> QED BY <3>1
  <2>2. PICK d \in Seq(Seq(Byte)) : d = Cat(o, r) /\ Len(d) = 1 + Len(r)
    BY <2>1, CatType, CatLen
  <2>3. d[1] = e
    <3>1. 1 \in 1 .. Len(o)
      BY <2>1
    <3>2. Cat(o, r)[1] = o[1]
      BY <2>1, <3>1, CatFirst
    <3> QED BY <2>1, <2>2, <3>2, Zenon
  <2>4. ASSUME NEW i \in 1 .. Len(r) PROVE d[1 + i] = r[i]
    <3>1. Cat(o, r)[Len(o) + i] = r[i]
      BY CatSecond
    <3> QED BY <2>1, <2>2, <3>1, Zenon
  <2>5. Len(p) = Len(d)
    <3>1. PICK l \in Nat, m \in Nat : l = Len(g) /\ m = Len(r) /\ m = l - (k + 1) /\ Len(p) = l - k
      BY <1>3
    <3>2. l - k = 1 + m
      BY <3>1
    <3> QED BY <2>2, <3>1, <3>2
  <2>6. ASSUME NEW i \in 1 .. Len(p) PROVE p[i] = d[i]
    <3>1. CASE i = 1
      BY <1>4, <2>3, <3>1
    <3>2. CASE i # 1
      <4>1. i - 1 \in 1 .. Len(r) /\ 1 + (i - 1) = i
        BY <1>3, <3>2
      <4>2. p[1 + (i - 1)] = r[i - 1] /\ d[1 + (i - 1)] = r[i - 1]
        BY <1>5, <2>4, <4>1
      <4> QED BY <4>1, <4>2, Zenon
    <3> QED BY <3>1, <3>2
  <2>7. p = d
    BY <2>5, <2>6, SeqEqual
  <2> QED BY <2>1, <2>2, <2>7, Zenon
<1>7. FlattenSeq(Cat(<<e>>, r)) = Cat(e, FlattenSeq(r))
  BY FlattenCons DEF Cat
<1> QED BY <1>1, <1>3, <1>6, <1>7, Zenon DEF Rest

\* The frame of a further message comes last.
LEMMA RestMore ==
    ASSUME NEW g \in Seq(Messages), NEW k \in 0 .. Len(g), NEW fmt \in FrameFormat,
           NEW message \in Messages
    PROVE  Rest(Append(g, message), k, fmt) = Cat(Rest(g, k, fmt), Frames[message][fmt])
<1>1. PICK e \in Seq(Byte) : e = Frames[message][fmt]
  BY FrameReadBack
<1>2. PICK h \in Seq(Messages) :
         /\ h = Append(g, message) /\ Len(h) = Len(g) + 1
         /\ \A i \in 1 .. Len(g) : h[i] = g[i]
         /\ h[Len(g) + 1] = message
  BY AppendProperties
<1>3. PICK n \in Nat : n = Len(g) - k /\ Len(h) - k = n + 1 /\ k \in 0 .. Len(h)
  <2>1. PICK l \in Nat, m \in Nat : l = Len(g) /\ m = Len(h) /\ m = l + 1
    BY <1>2
  <2>2. l - k \in Nat /\ m - k = (l - k) + 1 /\ k \in 0 .. m
    BY <2>1
  <2> QED BY <2>1, <2>2
<1>4. PICK p \in Seq(Seq(Byte)), q \in Seq(Seq(Byte)) :
         p = Pending(g, k, fmt) /\ q = Pending(h, k, fmt) /\ Len(p) = n /\ Len(q) = n + 1
  BY <1>3, PendingType
<1>5. ASSUME NEW i \in 1 .. n PROVE q[i] = p[i]
  <2>1. i \in 1 .. Len(g) - k /\ i \in 1 .. Len(h) - k /\ k + i \in 1 .. Len(g)
    BY <1>3
  <2>2. q[i] = Frames[h[k + i]][fmt] /\ p[i] = Frames[g[k + i]][fmt]
    BY <1>4, <2>1 DEF Pending
  <2>3. h[k + i] = g[k + i]
    BY <1>2, <2>1
  <2> QED BY <2>2, <2>3, Zenon
<1>6. q[n + 1] = e
  <2>1. n + 1 \in 1 .. Len(h) - k /\ k + (n + 1) = Len(g) + 1
    BY <1>3
  <2>2. q[n + 1] = Frames[h[k + (n + 1)]][fmt]
    BY <1>4, <2>1 DEF Pending
  <2> QED BY <1>1, <1>2, <2>1, <2>2, Zenon
<1>7. q = Append(p, e)
  <2>1. PICK d \in Seq(Seq(Byte)) :
           d = Append(p, e) /\ Len(d) = n + 1 /\ (\A i \in 1 .. n : d[i] = p[i]) /\ d[n + 1] = e
    BY <1>4, AppendProperties, ZenonT(40)
  <2>2. ASSUME NEW i \in 1 .. n + 1 PROVE q[i] = d[i]
    <3>1. i \in 1 .. n \/ i = n + 1
      OBVIOUS
    <3> QED BY <1>5, <1>6, <2>1, <3>1, Zenon
  <2>3. q = d
    BY <1>4, <2>1, <2>2, SeqEqual
  <2> QED BY <2>1, <2>3
<1>8. FlattenSeq(Append(p, e)) = Cat(FlattenSeq(p), e)
  BY FlattenAppend DEF Cat
<1> QED BY <1>1, <1>2, <1>4, <1>7, <1>8, Zenon DEF Rest

\* The invariant of the stream, of the values of its variables.
Whole(fmt, g, u, w, b, r) ==
    /\ fmt \in FrameFormat /\ g \in Seq(Messages) /\ r \in Seq(Messages)
    /\ u \in Seq(Seq(Byte)) /\ w \in Seq(Byte) /\ b \in Seq(Byte)
    /\ Len(r) <= Len(g) /\ \A i \in 1 .. Len(r) : r[i] = g[i]
    /\ Cat(b, Cat(w, FlattenSeq(u))) = Rest(g, Len(r), fmt)

\* What FrameSize says of a buffer when the message that comes next is m.
FrontIs(m, fmt, b) ==
    \/ Len(b) < Len(Frames[m][fmt]) /\ SizeIn(b, fmt) = 0
    \/ /\ Stands(Byte, b, 0, Frames[m][fmt]) /\ SizeIn(b, fmt) = Len(Frames[m][fmt])
       /\ Len(b) >= Len(Frames[m][fmt])

\* Before everything received there is the rest of what was sent.
LEMMA WholeParts ==
    ASSUME NEW fmt, NEW g, NEW u, NEW w, NEW b, NEW r, Whole(fmt, g, u, w, b, r)
    PROVE  /\ Len(r) \in 0 .. Len(g)
           /\ FlattenSeq(u) \in Seq(Byte) /\ Cat(w, FlattenSeq(u)) \in Seq(Byte)
           /\ Rest(g, Len(r), fmt) \in Seq(Byte)
<1>0. /\ fmt \in FrameFormat /\ g \in Seq(Messages) /\ r \in Seq(Messages)
      /\ u \in Seq(Seq(Byte)) /\ w \in Seq(Byte) /\ Len(r) <= Len(g)
  BY DEF Whole
<1>1. Len(r) \in 0 .. Len(g)
  BY <1>0
<1>2. FlattenSeq(u) \in Seq(Byte)
  BY <1>0, FlattenType
<1>3. Cat(w, FlattenSeq(u)) \in Seq(Byte)
  BY <1>0, <1>2, CatType
<1>4. Rest(g, Len(r), fmt) \in Seq(Byte)
  BY <1>0, <1>1, RestType
<1> QED BY <1>1, <1>2, <1>3, <1>4

\* The buffer is empty when all is received; otherwise it begins with the next frame,
\* or is a part of it.
LEMMA BufferFront ==
    ASSUME NEW fmt, NEW g, NEW u, NEW w, NEW b, NEW r, Whole(fmt, g, u, w, b, r)
    PROVE  /\ Len(r) = Len(g) => b = <<>>
           /\ Len(r) < Len(g) => g[Len(r) + 1] \in Messages /\ FrontIs(g[Len(r) + 1], fmt, b)
<1>0. /\ fmt \in FrameFormat /\ g \in Seq(Messages) /\ r \in Seq(Messages)
      /\ u \in Seq(Seq(Byte)) /\ w \in Seq(Byte) /\ b \in Seq(Byte)
      /\ Cat(b, Cat(w, FlattenSeq(u))) = Rest(g, Len(r), fmt)
  BY DEF Whole
<1>1. PICK x \in Seq(Byte) : x = Cat(w, FlattenSeq(u))
  BY WholeParts
<1>2. Cat(b, x) = Rest(g, Len(r), fmt)
  BY <1>0, <1>1, Zenon
<1>3. ASSUME Len(r) = Len(g) PROVE b = <<>>
  <2>1. Rest(g, Len(r), fmt) = <<>>
    BY <1>0, <1>3, RestNone
  <2>2. Len(Cat(b, x)) = Len(b) + Len(x)
    BY <1>0, CatLen
  <2>3. Len(Cat(b, x)) = 0
    BY <1>2, <2>1
  <2>4. Len(b) = 0
    <3>1. Len(b) \in Nat
      <4>1. b \in Seq(Byte)
        BY <1>0
      <4> QED BY <4>1
    <3>2. PICK k \in Nat, l \in Nat : k = Len(b) /\ l = Len(x)
      BY <3>1
    <3>3. k + l = 0
      BY <2>2, <2>3, <3>2, Zenon
    <3>4. k = 0
      BY <3>3
    <3> QED BY <3>2, <3>4
  <2> QED BY <1>0, <2>4, EmptySeq
<1>4. ASSUME Len(r) < Len(g) PROVE g[Len(r) + 1] \in Messages /\ FrontIs(g[Len(r) + 1], fmt, b)
  <2>1. Len(r) \in 0 .. Len(g) /\ Len(r) + 1 \in 1 .. Len(g) /\ Len(r) + 1 \in 0 .. Len(g)
    BY <1>0, <1>4
  <2>2. PICK m \in Messages : m = g[Len(r) + 1]
    BY <1>0, <2>1
  <2>3. PICK f \in Seq(Byte) : f = Frames[m][fmt]
    BY <1>0, FrameReadBack
  <2>4. PICK y \in Seq(Byte) : y = Rest(g, Len(r) + 1, fmt)
    BY <1>0, <2>1, RestType
  <2>5. Cat(b, x) = Cat(f, y)
    <3>1. Rest(g, Len(r), fmt) = Cat(Frames[g[Len(r) + 1]][fmt], Rest(g, Len(r) + 1, fmt))
      BY <1>0, <1>4, <2>1, RestNext
    <3> QED BY <1>2, <2>2, <2>3, <2>4, <3>1, Zenon
  <2>6. \A j \in 1 .. Len(b) : j \in 1 .. Len(f) => b[j] = f[j]
    BY <1>0, <2>5, SameBeginning
  <2>7. CASE Len(b) < Len(f)
    <3>1. \A j \in 1 .. Len(b) : b[j] = f[j]
      BY <1>0, <2>6, <2>7
    <3>2. SizeIn(b, fmt) = 0
      BY <1>0, <2>3, <2>7, <3>1, FramePart
    <3> QED BY <2>2, <2>3, <2>7, <3>2, Zenon DEF FrontIs
  <2>8. CASE Len(b) >= Len(f)
    <3>1. \A j \in 1 .. Len(f) : b[0 + j] = f[j]
      <4>1. ASSUME NEW j \in 1 .. Len(f) PROVE b[0 + j] = f[j]
        <5>1. j \in 1 .. Len(b) /\ 0 + j = j
          BY <1>0, <2>8
        <5> QED BY <2>6, <5>1
      <4> QED BY <4>1
    <3>2. Stands(Byte, b, 0, f)
      BY <1>0, <2>8, <3>1 DEF Stands
    <3>3. SizeIn(b, fmt) = Len(f)
      BY <1>0, <2>3, <3>2, FrameWhole
    <3> QED BY <2>2, <2>3, <2>8, <3>2, <3>3, Zenon DEF FrontIs
  <2>9. Len(b) < Len(f) \/ Len(b) >= Len(f)
    BY <1>0
  <2> QED BY <2>7, <2>8, <2>9
<1> QED BY <1>3, <1>4

\* A message and its frame are given to the sender.
LEMMA AfterQueue ==
    ASSUME NEW fmt, NEW g, NEW u, NEW w, NEW b, NEW r, Whole(fmt, g, u, w, b, r),
           NEW m \in Messages
    PROVE  Whole(fmt, Append(g, m), Append(u, Frames[m][fmt]), w, b, r)
<1>0. /\ fmt \in FrameFormat /\ g \in Seq(Messages) /\ r \in Seq(Messages)
      /\ u \in Seq(Seq(Byte)) /\ w \in Seq(Byte) /\ b \in Seq(Byte)
      /\ Len(r) <= Len(g) /\ \A i \in 1 .. Len(r) : r[i] = g[i]
      /\ Cat(b, Cat(w, FlattenSeq(u))) = Rest(g, Len(r), fmt)
  BY DEF Whole
<1>1. PICK e \in Seq(Byte) : e = Frames[m][fmt]
  BY <1>0, FrameReadBack
<1>2. PICK h \in Seq(Messages) :
         h = Append(g, m) /\ Len(h) = Len(g) + 1 /\ \A i \in 1 .. Len(g) : h[i] = g[i]
  <2>1. g \in Seq(Messages)
    BY <1>0
  <2>2. /\ Append(g, m) \in Seq(Messages) /\ Len(Append(g, m)) = Len(g) + 1
        /\ \A i \in 1 .. Len(g) : Append(g, m)[i] = g[i]
    BY <2>1, AppendProperties
  <2> QED BY <2>2
<1>3. PICK v \in Seq(Seq(Byte)) : v = Append(u, e)
  BY <1>0, AppendProperties
<1>4. PICK t \in Seq(Byte), x \in Seq(Byte) : t = FlattenSeq(u) /\ x = Cat(w, t)
  BY WholeParts
<1>5. FlattenSeq(v) = Cat(t, e)
  BY <1>0, <1>3, <1>4, FlattenAppend DEF Cat
<1>6. Cat(b, Cat(w, Cat(t, e))) = Cat(Cat(b, x), e)
  <2>1. Cat(w, Cat(t, e)) = Cat(x, e)
    BY <1>0, <1>4, Regroup
  <2>2. Cat(b, Cat(x, e)) = Cat(Cat(b, x), e)
    BY <1>0, Regroup
  <2> QED BY <2>1, <2>2, Zenon
<1>7. Rest(h, Len(r), fmt) = Cat(Rest(g, Len(r), fmt), e)
  <2>1. Len(r) \in 0 .. Len(g)
    BY WholeParts
  <2>2. Rest(Append(g, m), Len(r), fmt) = Cat(Rest(g, Len(r), fmt), Frames[m][fmt])
    BY <1>0, <2>1, RestMore
  <2> QED BY <1>1, <1>2, <2>2, Zenon
<1>8. Cat(b, Cat(w, FlattenSeq(v))) = Rest(h, Len(r), fmt)
  BY <1>0, <1>4, <1>5, <1>6, <1>7, Zenon
<1>9. Len(r) <= Len(h) /\ \A i \in 1 .. Len(r) : r[i] = h[i]
  BY <1>0, <1>2
<1>10. Whole(fmt, h, v, w, b, r)
  BY <1>0, <1>8, <1>9, Zenon DEF Whole
<1> QED BY <1>1, <1>2, <1>3, <1>10, Zenon

\* What is left of the queue when the first n bytes of its head went out.
LEMMA QueueRest ==
    ASSUME NEW u \in Seq(Seq(Byte)), u # <<>>, NEW n \in 1 .. Len(Head(u)),
           NEW rest, rest = SubSeq(Head(u), n + 1, Len(Head(u))),
           NEW v, v = (IF rest = <<>> THEN <<>> ELSE <<rest>>) \o Tail(u)
    PROVE  /\ v \in Seq(Seq(Byte)) /\ SubSeq(Head(u), 1, n) \in Seq(Byte)
           /\ FlattenSeq(u) = Cat(SubSeq(Head(u), 1, n), FlattenSeq(v))
<1>1. PICK h \in Seq(Byte), t \in Seq(Seq(Byte)) : h = Head(u) /\ t = Tail(u) /\ u = <<h>> \o t
  <2>1. Head(u) \in Seq(Byte) /\ Tail(u) \in Seq(Seq(Byte))
    OBVIOUS
  <2>2. u = <<Head(u)>> \o Tail(u)
    OBVIOUS
  <2> QED BY <2>1, <2>2
<1>2. PICK a \in Seq(Byte) : a = SubSeq(h, 1, n) /\ rest \in Seq(Byte) /\ Cat(a, rest) = h
  <2>1. n \in 0 .. Len(h)
    BY <1>1
  <2>2. /\ SubSeq(h, 1, n) \in Seq(Byte) /\ SubSeq(h, n + 1, Len(h)) \in Seq(Byte)
        /\ Cat(SubSeq(h, 1, n), SubSeq(h, n + 1, Len(h))) = h
    BY <2>1, CutInTwo
  <2>3. rest = SubSeq(h, n + 1, Len(h))
    BY <1>1
  <2> QED BY <2>2, <2>3, Zenon
<1>3. FlattenSeq(t) \in Seq(Byte)
  BY FlattenType
<1>4. v \in Seq(Seq(Byte)) /\ FlattenSeq(v) = Cat(rest, FlattenSeq(t))
  <2>1. CASE rest = <<>>
    <3>1. v = <<>> \o t
      BY <1>1, <2>1, Zenon
    <3>2. v = t
      BY <3>1, ConcatEmptySeq
    <3>3. Cat(rest, FlattenSeq(t)) = FlattenSeq(t)
      BY <1>3, <2>1, ConcatEmptySeq DEF Cat
    <3> QED BY <3>2, <3>3
  <2>2. CASE rest # <<>>
    <3>1. v = <<rest>> \o t
      BY <1>1, <2>2, Zenon
    <3>2. <<rest>> \in Seq(Seq(Byte))
      BY <1>2
    <3>3. v \in Seq(Seq(Byte))
      BY <3>1, <3>2, ConcatProperties
    <3>4. FlattenSeq(<<rest>> \o t) = rest \o FlattenSeq(t)
      BY <1>2, FlattenCons
    <3> QED BY <3>1, <3>3, <3>4, Zenon DEF Cat
  <2> QED BY <2>1, <2>2
<1>5. FlattenSeq(u) = Cat(h, FlattenSeq(t))
  <2>1. FlattenSeq(<<h>> \o t) = h \o FlattenSeq(t)
    BY FlattenCons
  <2> QED BY <1>1, <2>1, Zenon DEF Cat
<1>6. Cat(Cat(a, rest), FlattenSeq(t)) = Cat(a, Cat(rest, FlattenSeq(t)))
  <2>1. PICK q \in Seq(Byte) : q = rest
    BY <1>2
  <2>2. PICK z \in Seq(Byte) : z = FlattenSeq(t)
    BY <1>3
  <2>3. Cat(Cat(a, q), z) = Cat(a, Cat(q, z))
    BY Regroup
  <2> QED BY <2>1, <2>2, <2>3, Zenon
<1> QED BY <1>1, <1>2, <1>4, <1>5, <1>6, Zenon

\* Some bytes go out.
LEMMA AfterSend ==
    ASSUME NEW fmt, NEW g, NEW u, NEW w, NEW b, NEW r, Whole(fmt, g, u, w, b, r),
           NEW a \in Seq(Byte), NEW v \in Seq(Seq(Byte)), FlattenSeq(u) = Cat(a, FlattenSeq(v))
    PROVE  Whole(fmt, g, v, w \o a, b, r)
<1>0. /\ fmt \in FrameFormat /\ g \in Seq(Messages) /\ r \in Seq(Messages)
      /\ w \in Seq(Byte) /\ b \in Seq(Byte)
      /\ Len(r) <= Len(g) /\ \A i \in 1 .. Len(r) : r[i] = g[i]
      /\ Cat(b, Cat(w, FlattenSeq(u))) = Rest(g, Len(r), fmt)
  BY DEF Whole
<1>1. PICK t \in Seq(Byte) : t = FlattenSeq(v)
  BY FlattenType
<1>2. PICK x \in Seq(Byte) : x = Cat(w, a)
  BY <1>0, CatType
<1>3. Cat(w, Cat(a, t)) = Cat(x, t)
  BY <1>0, <1>2, Regroup
<1>4. Cat(b, Cat(x, FlattenSeq(v))) = Rest(g, Len(r), fmt)
  BY <1>0, <1>1, <1>3, Zenon
<1>5. Whole(fmt, g, v, x, b, r)
  BY <1>0, <1>4, Zenon DEF Whole
<1> QED BY <1>2, <1>5, Zenon DEF Cat

\* Some bytes come in.
LEMMA AfterRead ==
    ASSUME NEW fmt, NEW g, NEW u, NEW w, NEW b, NEW r, Whole(fmt, g, u, w, b, r),
           NEW n \in 1 .. Len(w)
    PROVE  Whole(fmt, g, u, SubSeq(w, n + 1, Len(w)), b \o SubSeq(w, 1, n), r)
<1>0. /\ fmt \in FrameFormat /\ g \in Seq(Messages) /\ r \in Seq(Messages)
      /\ u \in Seq(Seq(Byte)) /\ w \in Seq(Byte) /\ b \in Seq(Byte)
      /\ Len(r) <= Len(g) /\ \A i \in 1 .. Len(r) : r[i] = g[i]
      /\ Cat(b, Cat(w, FlattenSeq(u))) = Rest(g, Len(r), fmt)
  BY DEF Whole
<1>1. PICK a \in Seq(Byte), c \in Seq(Byte) :
         a = SubSeq(w, 1, n) /\ c = SubSeq(w, n + 1, Len(w)) /\ w = Cat(a, c)
  <2>1. n \in 0 .. Len(w)
    BY <1>0
  <2>2. /\ SubSeq(w, 1, n) \in Seq(Byte) /\ SubSeq(w, n + 1, Len(w)) \in Seq(Byte)
        /\ Cat(SubSeq(w, 1, n), SubSeq(w, n + 1, Len(w))) = w
    BY <1>0, <2>1, CutInTwo
  <2> QED BY <2>2, Zenon
<1>2. PICK t \in Seq(Byte) : t = FlattenSeq(u)
  BY WholeParts
<1>3. PICK y \in Seq(Byte) : y = Cat(b, a)
  BY <1>0, CatType
<1>4. Cat(y, Cat(c, t)) = Cat(b, Cat(w, t))
  <2>1. Cat(c, t) \in Seq(Byte)
    BY CatType
  <2>2. Cat(Cat(b, a), Cat(c, t)) = Cat(b, Cat(a, Cat(c, t)))
    BY <1>0, <2>1, Regroup
  <2>3. Cat(Cat(a, c), t) = Cat(a, Cat(c, t))
    BY Regroup
  <2> QED BY <1>1, <1>3, <2>2, <2>3, Zenon
<1>5. Cat(y, Cat(c, FlattenSeq(u))) = Rest(g, Len(r), fmt)
  BY <1>0, <1>2, <1>4, Zenon
<1>6. Whole(fmt, g, u, c, y, r)
  BY <1>0, <1>5, Zenon DEF Whole
<1> QED BY <1>1, <1>3, <1>6, Zenon DEF Cat

\* What Take finds in the buffer, and leaves.
Taken(fmt, g, u, w, b, r, n) ==
    /\ n > 1 /\ Len(r) < Len(g)
    /\ DecodedIn(SubSeq(b, 1, n), fmt) = g[Len(r) + 1]
    /\ Whole(fmt, g, u, w, SubSeq(b, n + 1, Len(b)), Append(r, g[Len(r) + 1]))
    /\ Len(g) <= Len(r) + 1 => SubSeq(b, n + 1, Len(b)) = <<>>

\* A frame is taken out of the buffer.
LEMMA AfterTake ==
    ASSUME NEW fmt, NEW g, NEW u, NEW w, NEW b, NEW r, Whole(fmt, g, u, w, b, r),
           NEW n, n = SizeIn(b, fmt), n > 0
    PROVE  Taken(fmt, g, u, w, b, r, n)
<1>0. /\ fmt \in FrameFormat /\ g \in Seq(Messages) /\ r \in Seq(Messages)
      /\ u \in Seq(Seq(Byte)) /\ w \in Seq(Byte) /\ b \in Seq(Byte)
      /\ Len(r) <= Len(g) /\ \A i \in 1 .. Len(r) : r[i] = g[i]
      /\ Cat(b, Cat(w, FlattenSeq(u))) = Rest(g, Len(r), fmt)
  BY DEF Whole
<1>1. Len(r) < Len(g)
  <2>1. ASSUME Len(r) = Len(g) PROVE FALSE
    <3>1. b = <<>>
      BY <2>1, BufferFront
    <3> QED BY <3>1, FrameNone
  <2> QED BY <1>0, <2>1
<1>2. PICK m \in Messages : m = g[Len(r) + 1] /\ FrontIs(m, fmt, b)
  BY <1>1, BufferFront
<1>3. PICK f \in Seq(Byte) : f = Frames[m][fmt] /\ Len(f) > 1 /\ DecodedIn(f, fmt) = m
  BY <1>0, FrameReadBack
<1>4. Stands(Byte, b, 0, f) /\ n = Len(f) /\ Len(b) >= Len(f)
  BY <1>2, <1>3 DEF FrontIs
<1>5. n \in 0 .. Len(b) /\ n > 1 /\ n \in Nat
  BY <1>0, <1>3, <1>4
<1>6. PICK c \in Seq(Byte) : c = SubSeq(b, n + 1, Len(b)) /\ b = Cat(SubSeq(b, 1, n), c)
  BY <1>0, <1>5, CutInTwo
<1>7. SubSeq(b, 1, n) = f
  <2>1. 0 \in Nat /\ 0 + Len(f) <= Len(b) /\ \A j \in 1 .. Len(f) : b[0 + j] = f[j]
    BY <1>4 DEF Stands
  <2>2. SubSeq(b, 0 + 1, 0 + Len(f)) = f
    BY <1>0, <2>1, SubSeqIs
  <2>3. 0 + 1 = 1 /\ 0 + Len(f) = n
    BY <1>4, <1>5
  <2> QED BY <2>2, <2>3, Zenon
<1>8. DecodedIn(SubSeq(b, 1, n), fmt) = g[Len(r) + 1]
  BY <1>2, <1>3, <1>7, Zenon
<1>9. Len(r) + 1 \in 0 .. Len(g) /\ Len(r) \in 0 .. Len(g)
  BY <1>0, <1>1
<1>10. PICK y \in Seq(Byte) : y = Rest(g, Len(r) + 1, fmt)
  BY <1>0, <1>9, RestType
<1>11. PICK x \in Seq(Byte) : x = Cat(w, FlattenSeq(u))
  BY WholeParts
<1>12. Cat(c, x) = y
  <2>1. Rest(g, Len(r), fmt) = Cat(f, y)
    <3>1. Rest(g, Len(r), fmt) = Cat(Frames[g[Len(r) + 1]][fmt], Rest(g, Len(r) + 1, fmt))
      BY <1>0, <1>1, <1>9, RestNext
    <3> QED BY <1>2, <1>3, <1>10, <3>1, Zenon
  <2>2. b = Cat(f, c)
    BY <1>6, <1>7, Zenon
  <2>3. Cat(Cat(f, c), x) = Cat(f, Cat(c, x))
    BY Regroup
  <2>4. Cat(f, Cat(c, x)) = Cat(f, y)
    BY <1>0, <1>11, <2>1, <2>2, <2>3, Zenon
  <2>5. Cat(c, x) \in Seq(Byte)
    BY CatType
  <2> QED BY <2>4, <2>5, Cancel
<1>13. PICK s \in Seq(Messages) :
         /\ s = Append(r, m) /\ Len(s) = Len(r) + 1
         /\ \A i \in 1 .. Len(r) : s[i] = r[i]
         /\ s[Len(r) + 1] = m
  BY <1>0, AppendProperties
<1>14. Len(s) <= Len(g) /\ \A i \in 1 .. Len(s) : s[i] = g[i]
  <2>1. ASSUME NEW i \in 1 .. Len(s) PROVE s[i] = g[i]
    <3>1. CASE i \in 1 .. Len(r)
      BY <1>0, <1>13, <3>1
    <3>2. CASE i = Len(r) + 1
      BY <1>2, <1>13, <3>2, Zenon
    <3>3. i \in 1 .. Len(r) \/ i = Len(r) + 1
      BY <1>0, <1>13
    <3> QED BY <3>1, <3>2, <3>3
  <2> QED BY <1>9, <1>13, <2>1
<1>15. Whole(fmt, g, u, w, c, s)
  <2>1. Cat(c, Cat(w, FlattenSeq(u))) = Rest(g, Len(s), fmt)
    BY <1>10, <1>11, <1>12, <1>13, Zenon
  <2> QED BY <1>0, <1>14, <2>1, Zenon DEF Whole
<1>16. ASSUME Len(g) <= Len(r) + 1 PROVE c = <<>>
  <2>1. Len(s) = Len(g)
    BY <1>0, <1>13, <1>14, <1>16
  <2> QED BY <1>15, <2>1, BufferFront
<1>17. Whole(fmt, g, u, w, SubSeq(b, n + 1, Len(b)), Append(r, g[Len(r) + 1]))
  BY <1>2, <1>6, <1>13, <1>15, Zenon
<1>18. Len(g) <= Len(r) + 1 => SubSeq(b, n + 1, Len(b)) = <<>>
  BY <1>6, <1>16, Zenon
<1> QED BY <1>1, <1>5, <1>8, <1>17, <1>18, Zenon DEF Taken

\* A console asks again only when it has its answer.
OneAnswer == receiver = "console" => Len(given) <= Len(received) + 1

\* The inductive invariant.
StreamInv ==
    /\ receiver \in Receiver /\ OneAnswer
    /\ Whole(format, given, unsent, wire, buffer, received)

\* FrameSize, of the variables.
LEMMA FrameSizeIs == FrameSize = SizeIn(buffer, format)
BY DEF FrameSize, SizeIn, SelectInSeq, LineSize

\* At the start nothing is sent and nothing is received.
LEMMA StreamInitOK ==
    ASSUME StreamInit
    PROVE  StreamInv
<1>0. /\ receiver \in Receiver /\ format \in FrameFormat
      /\ given = <<>> /\ unsent = <<>> /\ wire = <<>> /\ buffer = <<>> /\ received = <<>>
  BY DEF StreamInit
<1>1. PICK o : o = <<>>
  OBVIOUS
<1>2. o \in Seq(Messages) /\ o \in Seq(Seq(Byte)) /\ o \in Seq(Byte) /\ Len(o) = 0
  BY <1>1
<1>3. FlattenSeq(o) = o
  BY <1>1, FlattenEmpty
<1>4. Cat(o, Cat(o, o)) = o
  BY <1>1, <1>2, ConcatEmptySeq DEF Cat
<1>5. Rest(o, Len(o), format) = o
  BY <1>0, <1>1, <1>2, RestNone
<1>6. Len(o) <= Len(o) /\ \A i \in 1 .. Len(o) : o[i] = o[i]
  BY <1>2
<1>7. Cat(o, Cat(o, FlattenSeq(o))) = Rest(o, Len(o), format)
  BY <1>3, <1>4, <1>5, Zenon
<1>8. Whole(format, o, o, o, o, o)
  BY <1>0, <1>2, <1>6, <1>7, Zenon DEF Whole
<1>9. Whole(format, given, unsent, wire, buffer, received)
  BY <1>0, <1>1, <1>8, Zenon
<1>10. OneAnswer
  BY <1>0 DEF OneAnswer
<1> QED BY <1>0, <1>9, <1>10 DEF StreamInv

\* Every step keeps the invariant.
LEMMA StreamStepOK ==
    ASSUME StreamInv, [StreamNext]_streamVars
    PROVE  StreamInv'
<1>0. receiver \in Receiver /\ OneAnswer /\ Whole(format, given, unsent, wire, buffer, received)
  BY DEF StreamInv
<1>1. /\ format \in FrameFormat /\ given \in Seq(Messages) /\ received \in Seq(Messages)
      /\ unsent \in Seq(Seq(Byte)) /\ wire \in Seq(Byte) /\ buffer \in Seq(Byte)
  BY <1>0 DEF Whole
<1>2. ASSUME NEW message \in Messages, Queue(message)
      PROVE  StreamInv'
  <2>1. /\ given' = Append(given, message) /\ unsent' = Append(unsent, Frames[message][format])
        /\ receiver' = receiver /\ format' = format /\ wire' = wire /\ buffer' = buffer
        /\ received' = received
        /\ receiver = "console" => Len(received) = Len(given)
    BY <1>2 DEF Queue, Framed
  <2>2. Whole(format, Append(given, message), Append(unsent, Frames[message][format]),
              wire, buffer, received)
    BY <1>0, AfterQueue
  <2>3. Whole(format', given', unsent', wire', buffer', received')
    BY <2>1, <2>2, Zenon
  <2>4. OneAnswer'
    <3>1. Len(given') = Len(given) + 1 /\ Len(given) \in Nat
      BY <1>1, <2>1, AppendProperties
    <3> QED BY <2>1, <3>1 DEF OneAnswer
  <2> QED BY <1>0, <2>1, <2>3, <2>4 DEF StreamInv
<1>3. ASSUME NEW n, Send(n)
      PROVE  StreamInv'
  <2> DEFINE rest == SubSeq(Head(unsent), n + 1, Len(Head(unsent)))
  <2>1. /\ unsent # <<>> /\ n \in 1 .. Len(Head(unsent))
        /\ wire' = wire \o SubSeq(Head(unsent), 1, n)
        /\ unsent' = (IF rest = <<>> THEN <<>> ELSE <<rest>>) \o Tail(unsent)
        /\ receiver' = receiver /\ format' = format /\ given' = given /\ buffer' = buffer
        /\ received' = received
    BY <1>3 DEF Send
  <2>2. /\ unsent' \in Seq(Seq(Byte)) /\ SubSeq(Head(unsent), 1, n) \in Seq(Byte)
        /\ FlattenSeq(unsent) = Cat(SubSeq(Head(unsent), 1, n), FlattenSeq(unsent'))
    BY <1>1, <2>1, QueueRest
  <2>3. Whole(format, given, unsent', wire \o SubSeq(Head(unsent), 1, n), buffer, received)
    BY <1>0, <2>2, AfterSend
  <2>4. Whole(format', given', unsent', wire', buffer', received')
    BY <2>1, <2>3, Zenon
  <2>5. OneAnswer'
    BY <1>0, <2>1 DEF OneAnswer
  <2> QED BY <1>0, <2>1, <2>4, <2>5 DEF StreamInv
<1>4. ASSUME NEW n, Read(n)
      PROVE  StreamInv'
  <2>1. /\ n \in 1 .. Len(wire)
        /\ buffer' = buffer \o SubSeq(wire, 1, n) /\ wire' = SubSeq(wire, n + 1, Len(wire))
        /\ receiver' = receiver /\ format' = format /\ given' = given /\ unsent' = unsent
        /\ received' = received
    BY <1>4 DEF Read
  <2>2. Whole(format, given, unsent, SubSeq(wire, n + 1, Len(wire)), buffer \o SubSeq(wire, 1, n),
              received)
    BY <1>0, <2>1, AfterRead
  <2>3. Whole(format', given', unsent', wire', buffer', received')
    BY <2>1, <2>2, Zenon
  <2>4. OneAnswer'
    BY <1>0, <2>1 DEF OneAnswer
  <2> QED BY <1>0, <2>1, <2>3, <2>4 DEF StreamInv
<1>5. ASSUME Take
      PROVE  StreamInv'
  <2>1. PICK n : n = SizeIn(buffer, format)
    OBVIOUS
  <2>2. /\ n > 0
        /\ received' = IF format = "json" /\ n = 1 THEN received
                       ELSE Append(received, Decoded(SubSeq(buffer, 1, n)))
        /\ buffer' = Kept(SubSeq(buffer, n + 1, Len(buffer)))
        /\ receiver' = receiver /\ format' = format /\ given' = given /\ unsent' = unsent
        /\ wire' = wire
    BY <1>5, <2>1, FrameSizeIs, Zenon DEF Take
  <2>3. Taken(format, given, unsent, wire, buffer, received, n)
    BY <1>0, <2>1, <2>2, AfterTake
  <2>4. /\ n > 1 /\ Len(received) < Len(given)
        /\ DecodedIn(SubSeq(buffer, 1, n), format) = given[Len(received) + 1]
        /\ Whole(format, given, unsent, wire, SubSeq(buffer, n + 1, Len(buffer)),
                 Append(received, given[Len(received) + 1]))
        /\ Len(given) <= Len(received) + 1 => SubSeq(buffer, n + 1, Len(buffer)) = <<>>
    BY <2>3 DEF Taken
  <2>5. received' = Append(received, given[Len(received) + 1])
    <3>1. Decoded(SubSeq(buffer, 1, n)) = DecodedIn(SubSeq(buffer, 1, n), format)
      BY Zenon DEF Decoded, DecodedIn
    <3>2. n # 1
      BY <2>4
    <3> QED BY <2>2, <2>4, <3>1, <3>2, Zenon
  <2>6. buffer' = SubSeq(buffer, n + 1, Len(buffer))
    <3>1. CASE receiver = "server"
      BY <2>2, <3>1, Zenon DEF Kept
    <3>2. CASE receiver = "console"
      <4>1. Len(given) <= Len(received) + 1
        BY <1>0, <3>2, Zenon DEF OneAnswer
      <4>2. SubSeq(buffer, n + 1, Len(buffer)) = <<>>
        BY <2>4, <4>1
      <4>3. receiver # "server"
        BY <3>2
      <4> QED BY <2>2, <4>2, <4>3, Zenon DEF Kept
    <3> QED BY <1>0, <3>1, <3>2 DEF Receiver
  <2>7. Whole(format', given', unsent', wire', buffer', received')
    BY <2>2, <2>4, <2>5, <2>6, Zenon
  <2>8. OneAnswer'
    <3>1. given[Len(received) + 1] \in Messages
      BY <1>1, <2>4
    <3>2. Len(received') = Len(received) + 1
      BY <1>1, <2>5, <3>1, AppendProperties
    <3>3. Len(received) \in Nat /\ Len(given) \in Nat
      BY <1>1
    <3> QED BY <1>0, <2>2, <3>2, <3>3 DEF OneAnswer
  <2> QED BY <1>0, <2>2, <2>7, <2>8 DEF StreamInv
<1>6. CASE UNCHANGED streamVars
  BY <1>0, <1>6 DEF streamVars, StreamInv, OneAnswer
<1> QED BY <1>2, <1>3, <1>4, <1>5, <1>6 DEF StreamNext

\* The invariant is more than what is promised.
LEMMA StreamInvFaithful ==
    ASSUME StreamInv
    PROVE  StreamFaithful
<1>0. Whole(format, given, unsent, wire, buffer, received)
  BY DEF StreamInv
<1>1. /\ format \in FrameFormat /\ given \in Seq(Messages) /\ received \in Seq(Messages)
      /\ unsent \in Seq(Seq(Byte)) /\ wire \in Seq(Byte) /\ buffer \in Seq(Byte)
      /\ Len(received) <= Len(given) /\ \A i \in 1 .. Len(received) : received[i] = given[i]
      /\ Cat(buffer, Cat(wire, FlattenSeq(unsent))) = Rest(given, Len(received), format)
  BY <1>0 DEF Whole
<1>2. ReceivedAsSent
  BY <1>1, PrefixMeans DEF ReceivedAsSent
<1>3. NothingLost
  <2>1. FlattenSeq(unsent) \in Seq(Byte)
    BY <1>0, WholeParts
  <2>2. Cat(Cat(buffer, wire), FlattenSeq(unsent)) = Cat(buffer, Cat(wire, FlattenSeq(unsent)))
    BY <1>1, <2>1, Regroup
  <2>3. Unreceived = Rest(given, Len(received), format)
    BY Zenon DEF Unreceived, Rest, Pending, Framed
  <2>4. Cat(Cat(buffer, wire), FlattenSeq(unsent)) = Unreceived
    BY <1>1, <2>2, <2>3, Zenon
  <2> QED BY <2>4, Zenon DEF NothingLost, Cat
<1>4. NothingHeldBack
  <2>1. ASSUME FrameSize = 0, Len(given) > Len(received)
        PROVE  Len(buffer) < Len(Framed(given[Len(received) + 1]))
    <3>1. Len(received) < Len(given)
      BY <1>1, <2>1
    <3>2. PICK m \in Messages : m = given[Len(received) + 1] /\ FrontIs(m, format, buffer)
      BY <1>0, <3>1, BufferFront
    <3>3. SizeIn(buffer, format) = 0
      BY <2>1, FrameSizeIs
    <3>4. Len(Frames[m][format]) > 1
      BY <1>1, FrameReadBack
    <3>5. Len(buffer) < Len(Frames[m][format])
      BY <3>2, <3>3, <3>4 DEF FrontIs
    <3> QED BY <3>2, <3>5, Zenon DEF Framed
  <2> QED BY <2>1 DEF NothingHeldBack
<1> QED BY <1>2, <1>3, <1>4 DEF StreamFaithful

\* However the frames of whatever messages are cut and joined on their way through
\* flush_tcp_writes, receive_tcp_messages and recv_frame, in either format: what
\* comes out is what went in, in order, nothing is lost and nothing complete waits.
THEOREM StreamDelivers == StreamSpec => []StreamFaithful
<1>1. StreamInit => StreamInv
  BY StreamInitOK
<1>2. StreamInv /\ [StreamNext]_streamVars => StreamInv'
  BY StreamStepOK
<1>3. StreamInv => StreamFaithful
  BY StreamInvFaithful
<1> QED BY <1>1, <1>2, <1>3, PTL DEF StreamSpec

================================================================================
