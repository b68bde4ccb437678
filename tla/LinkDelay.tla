------------------------------- MODULE LinkDelay -------------------------------
(****************************************************************************)
(* The "Link Delay" the tactical display measures: it numbers its           *)
(* heartbeats, remembers when the last of them were sent, and takes the     *)
(* round trip of each acknowledgement that comes back into a smoothed       *)
(* delay.  Heartbeats and acknowledgements travel over UDP, so the answer   *)
(* to any heartbeat may arrive at any time, any number of times, in any     *)
(* order or never.  The display's loop may be held up by a command, so a    *)
(* heartbeat may be late.                                                   *)
(*                                                                          *)
(* Source: clients/tactical-viewer-gui/src/app_net.cpp                      *)
(****************************************************************************)
EXTENDS Naturals, Sequences

CONSTANTS
    MaxPendingHeartbeats,   \* kMaxPendingHeartbeats (32)
    HeartbeatInterval,      \* --heartbeat-interval-ms
    MaxTime                 \* bound on the clock

ASSUME PendingPositive == MaxPendingHeartbeats \in Nat \ {0}
ASSUME TimesNatural == HeartbeatInterval \in Nat \ {0} /\ MaxTime \in Nat

VARIABLES
    now,        \* SDL_GetTicks64
    next,       \* next_heartbeat
    sentAt,     \* when each heartbeat so far was sent; heartbeat_id is its length
    pending,    \* pending_heartbeats: the ids
    raw,        \* link_delay_raw_ms
    delay,      \* link_delay_ms
    samples     \* the round trips taken so far, with their heartbeats

delayVars == <<now, next, sentAt, pending, raw, delay, samples>>

HasLinkDelaySample == samples # <<>>

DelayInit ==
    /\ now = 0 /\ next = HeartbeatInterval
    /\ sentAt = <<>> /\ pending = <<>>
    /\ raw = 0 /\ delay = 0 /\ samples = <<>>

--------------------------------------------------------------------------------

Pass ==
    /\ now < MaxTime /\ now' = now + 1
    /\ UNCHANGED <<next, sentAt, pending, raw, delay, samples>>

PrunePendingHeartbeats(queue) ==
    IF Len(queue) > MaxPendingHeartbeats
    THEN SubSeq(queue, Len(queue) - MaxPendingHeartbeats + 1, Len(queue))
    ELSE queue

SendDisplayHeartbeat ==
    /\ now >= next /\ next' = now + HeartbeatInterval
    /\ sentAt' = Append(sentAt, now)
    /\ pending' = PrunePendingHeartbeats(Append(pending, Len(sentAt) + 1))
    /\ UNCHANGED <<now, raw, delay, samples>>

\* Mutant: the increment is rounded up on its own, past the sample.
SmoothedAbove(old, sample) == (8 * old + 2 * sample + 15) \div 10

\* static_cast<uint64_t>(0.8 * old + 0.2 * sample + 0.5).  The tenths of the sum
\* are odd, so the doubles' rounding error never reaches the next integer.
Smoothed(old, sample) == (8 * old + 2 * sample + 5) \div 10

\* The heartbeats still pending once the k-th is answered.
Answered(k) == SubSeq(pending, k + 1, Len(pending))

RoundTrip(id) == now - sentAt[id]

\* update_link_delay for an acknowledgement of heartbeat id.  The clock never
\* runs backwards, so the branch for a heartbeat sent after now is not taken.
UpdateLinkDelay(id) ==
    /\ \E k \in DOMAIN pending :
          /\ pending[k] = id
          /\ raw' = RoundTrip(id)
          /\ delay' = IF HasLinkDelaySample THEN Smoothed(delay, raw') ELSE raw'
          /\ samples' = Append(samples, [id |-> id, rtt |-> raw'])
          /\ pending' = Answered(k)
    /\ UNCHANGED <<now, next, sentAt>>

DelayNext == Pass \/ SendDisplayHeartbeat \/ \E id \in DOMAIN sentAt : UpdateLinkDelay(id)

DelaySpec == DelayInit /\ [][DelayNext]_delayVars

--------------------------------------------------------------------------------

\* Every variable has its type.
DelayTypeOK ==
    /\ {now, next, raw, delay} \subseteq Nat
    /\ sentAt \in Seq(Nat) /\ pending \in Seq(Nat)
    /\ samples \in Seq([id : Nat, rtt : Nat])

\* What is remembered is the last run of heartbeats without a gap, never more
\* than the limit: an answer finds its own heartbeat or none.
PendingIsLatest ==
    /\ Len(pending) <= MaxPendingHeartbeats
    /\ \A k \in DOMAIN pending : pending[k] = Len(sentAt) - Len(pending) + k

\* No heartbeat is measured twice and none after a later one, whatever is
\* repeated or overtaken on the way.
SamplesInOrder ==
    \A i, j \in DOMAIN samples : i < j => samples[i].id < samples[j].id

\* The delay shown lies between two round trips that were really measured: the
\* rounding never carries it out of their range.
DelayBetweenSamples ==
    HasLinkDelaySample =>
        \E i, j \in DOMAIN samples : samples[i].rtt <= delay /\ delay <= samples[j].rtt

\* However acknowledgements are lost, repeated or overtaken, the delay shown
\* comes from round trips that took place, each measured once: the heartbeats
\* remembered, the measurements and their mean agree.
DelaySound == DelayTypeOK /\ PendingIsLatest /\ SamplesInOrder /\ DelayBetweenSamples
================================================================================
