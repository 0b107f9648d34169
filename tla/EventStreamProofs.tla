-------------------------- MODULE EventStreamProofs --------------------------
(***************************************************************************)
(* Proofs about EventStream, for any sizes of its buffers and any number   *)
(* of forwarders, events and lost connections; and that the consumer of a  *)
(* subscription reads the session as SessionReader promises.               *)
(***************************************************************************)
EXTENDS EventStream, SequenceTheorems, TLAPS

----------------------------------------------------------------------------
(* The inductive invariant, a part for each component.                     *)

Kinds == {"plain", "lost", "huge"}
Steps == {"asking", "attaching", "attached", "refused", "idle", "dial", "drain",
          "snapshot", "snapped", "ended"}

\* What a subscription, a connection or a read loop can hold: an event that was
\* published, or the slow-consumer detach in the place of one.
Sent == [seq : 1..seq, tag : {"event", "slow"}]

FlagsOK ==
  /\ open \in BOOLEAN /\ noted \in BOOLEAN /\ up \in BOOLEAN /\ ctl \in BOOLEAN
  /\ paused \in BOOLEAN /\ resub \in BOOLEAN /\ done \in BOOLEAN

SessionOK ==
  /\ seq \in Nat /\ kind \in Seq(Kinds) /\ Len(kind) = seq
  /\ low \in 1..(seq + 1) /\ seq + 1 - low <= RingSize

\* While a subscription is served, the slot of its terminal event is free.
SubOK(s, sent) ==
  /\ s \in [reg : BOOLEAN, live : BOOLEAN, q : Seq(sent), cap : Nat, left : Nat]
  /\ Len(s.q) <= s.cap /\ (s.reg => Len(s.q) < s.cap)

LinksOK ==
  /\ DOMAIN subs = Slots /\ subs = [a \in Slots |-> subs[a]]
  /\ \A a \in Slots : SubOK(subs[a], Sent)

WireOK ==
  /\ drops \in Nat
  /\ pipe \in Seq(Sent) /\ stale \in Seq(Sent)

\* Before the stream is done, the slot of its end is free; after the consumer has read the
\* end, nothing more comes.
StreamOK ==
  /\ out \in Seq(Items) /\ last \in Nat /\ seen \in Nat
  /\ heard \in {"event", "replaced", "end"}
  /\ Gapless /\ seen <= last
  /\ \A i \in 1..Len(out) : out[i].seq <= last
  /\ Len(out) <= Buf + 1 /\ (~ done => Len(out) <= Buf)
  /\ heard = "end" => (out = <<>> /\ done)

\* While the supervisor recovers, deliveries are paused: what it saw of the stream when it
\* found it drained and when it took its snapshot still holds when it uses the snapshot.
RecoveryOK ==
  /\ want \in 0..seq /\ snap \in 0..seq
  /\ gap \in Nat \cup {None}
  /\ sup \in [step : Steps, round : {"first", "resume", "replace"}, redial : BOOLEAN]
  /\ sup.step \in {"drain", "snapshot", "snapped"} => paused
  /\ sup.step \in {"snapshot", "snapped"} /\ ~ done => Len(out) <= Buf \div 2
  /\ sup.step = "snapped" => last <= snap

StreamInv == FlagsOK /\ SessionOK /\ LinksOK /\ WireOK /\ StreamOK /\ RecoveryOK

----------------------------------------------------------------------------
(* What the invariant says.                                                *)

LEMMA SentItems ==
  ASSUME seq \in Nat, NEW q \in Seq(Sent)
  PROVE  q \in Seq(Items)
<1>1. Sent \subseteq Items
  BY DEF Sent, Items
<1> QED
  BY <1>1, SeqMonotonic

\* What was sent stays sent when the session goes on.
LEMMA SentGrows ==
  ASSUME seq \in Nat, seq' \in Nat, seq <= seq', NEW q \in Seq(Sent)
  PROVE  q \in Seq(Sent')
<1>1. Sent \subseteq Sent'
  BY DEF Sent
<1> QED
  BY <1>1, SeqMonotonic

LEMMA InvSafe == StreamInv => TypeOK /\ NeverBlocks /\ Gapless
<1> SUFFICES ASSUME StreamInv PROVE TypeOK /\ NeverBlocks /\ Gapless
  OBVIOUS
<1> USE DEF StreamInv
<1>1. NeverBlocks /\ Gapless
  BY DEF NeverBlocks, LinksOK, SubOK, StreamOK
<1>2. subs \in [Slots -> [reg: BOOLEAN, live: BOOLEAN, q: Seq(Items), cap: Nat, left: Nat]]
  <2>1. ASSUME NEW a \in Slots
        PROVE  subs[a] \in [reg: BOOLEAN, live: BOOLEAN, q: Seq(Items), cap: Nat, left: Nat]
    <3>1. subs[a] \in [reg : BOOLEAN, live : BOOLEAN, q : Seq(Sent), cap : Nat, left : Nat]
      BY DEF LinksOK, SubOK
    <3>2. subs[a].q \in Seq(Items)
      BY <3>1, SentItems DEF SessionOK
    <3> QED
      BY <3>1, <3>2
  <2> QED
    BY <2>1 DEF LinksOK
<1>3. pipe \in Seq(Items) /\ stale \in Seq(Items)
  BY SentItems DEF SessionOK, WireOK
<1>4. /\ seq \in Nat /\ kind \in Seq({"plain", "lost", "huge"}) /\ Len(kind) = seq
      /\ low \in 1..(seq + 1) /\ seq + 1 - low <= RingSize
  BY DEF SessionOK, Kinds
<1>5. /\ drops \in Nat /\ out \in Seq(Items) /\ last \in Nat /\ seen \in Nat
      /\ heard \in {"event", "replaced", "end"}
  BY DEF WireOK, StreamOK
<1>6. want \in Nat /\ snap \in Nat /\ gap \in Nat \cup {None}
  BY <1>4 DEF RecoveryOK
<1>7. /\ open \in BOOLEAN /\ noted \in BOOLEAN /\ up \in BOOLEAN /\ ctl \in BOOLEAN
      /\ {paused, resub, done} \subseteq BOOLEAN
  BY DEF FlagsOK
<1>8. sup \in [step: {"asking", "attaching", "attached", "refused", "idle", "dial", "drain",
                     "snapshot", "snapped", "ended"},
              round: {"first", "resume", "replace"}, redial: BOOLEAN]
  BY DEF RecoveryOK, Steps
<1> QED
  BY <1>1, <1>2, <1>3, <1>4, <1>5, <1>6, <1>7, <1>8 DEF TypeOK

LEMMA InitInv == Init => StreamInv
<1> SUFFICES ASSUME Init PROVE StreamInv
  OBVIOUS
<1>0. FlagsOK
  BY DEF Init, FlagsOK
<1>1. SessionOK
  BY SizeAssumption DEF Init, SessionOK, Kinds
<1>2. LinksOK
  <2>1. <<>> \in Seq(Sent) /\ Len(<<>>) = 0
    BY EmptySeq
  <2>2. SubOK(NoSub, Sent)
    BY <2>1 DEF SubOK, NoSub
  <2> QED
    BY <2>2 DEF Init, LinksOK
<1>3. WireOK
  BY EmptySeq DEF Init, WireOK
<1>4. StreamOK
  <2>1. out \in Seq(Items) /\ Len(out) = 0 /\ last = 0 /\ seen = 0 /\ seq = 0
    BY EmptySeq DEF Init
  <2>2. Gapless
    BY <2>1 DEF Gapless
  <2>3. heard = "event"
    BY DEF Init
  <2> QED
    BY <2>1, <2>2, <2>3, SizeAssumption DEF StreamOK
<1>5. RecoveryOK
  <2>1. want = 0 /\ snap = 0 /\ seq = 0 /\ gap = None
    BY DEF Init
  <2>2. /\ sup \in [step : Steps, round : {"first", "resume", "replace"}, redial : BOOLEAN]
        /\ sup.step = "asking"
    BY DEF Init, At, Steps
  <2> QED
    BY <2>1, <2>2 DEF RecoveryOK
<1> QED
  BY <1>0, <1>1, <1>2, <1>3, <1>4, <1>5 DEF StreamInv

----------------------------------------------------------------------------
(* Parts that a step does not disturb.                                     *)

LEMMA SessionKept == ASSUME SessionOK, UNCHANGED session PROVE SessionOK'
  BY DEF session, SessionOK

LEMMA LinksKept ==
  ASSUME SessionOK, SessionOK', LinksOK, seq <= seq', UNCHANGED subs
  PROVE  LinksOK'
<1>1. ASSUME NEW a \in Slots PROVE SubOK(subs'[a], Sent')
  <2>1. /\ subs[a] \in [reg : BOOLEAN, live : BOOLEAN, q : Seq(Sent), cap : Nat, left : Nat]
        /\ Len(subs[a].q) <= subs[a].cap /\ (subs[a].reg => Len(subs[a].q) < subs[a].cap)
    BY DEF LinksOK, SubOK
  <2>2. subs[a].q \in Seq(Sent')
    BY <2>1, SentGrows DEF SessionOK
  <2> QED
    BY <2>1, <2>2 DEF SubOK
<1> QED
  BY <1>1 DEF LinksOK

LEMMA WireKept ==
  ASSUME SessionOK, SessionOK', WireOK, seq <= seq', UNCHANGED <<pipe, stale, drops>>
  PROVE  WireOK'
  BY SentGrows DEF WireOK, SessionOK

LEMMA StreamKept ==
  ASSUME SessionOK, SessionOK', StreamOK, seq <= seq', done => done',
         UNCHANGED <<last, out, seen, heard>>
  PROVE  StreamOK'
<1>1. /\ seq \in Nat /\ seq' \in Nat /\ last' = last /\ out' = out
      /\ seen' = seen /\ heard' = heard
  BY DEF SessionOK
<1>2. Gapless'
  BY <1>1 DEF StreamOK, Gapless
<1> QED
  BY <1>1, <1>2 DEF StreamOK

\* A step outside the supervisor keeps what the supervisor relies on, if it leaves the
\* stream alone while deliveries are paused.
LEMMA RecoveryKept ==
  ASSUME SessionOK, SessionOK', StreamOK, StreamOK', RecoveryOK, FlagsOK, FlagsOK',
         UNCHANGED <<sup, want, snap>>, seq <= seq', gap' \in Nat \cup {None},
         paused => paused', done => done',
         paused => last' = last, paused /\ ~ done' => Len(out') <= Len(out)
  PROVE  RecoveryOK'
<1>1. seq \in Nat /\ seq' \in Nat
  BY DEF SessionOK
<1>2. Len(out) \in Nat /\ Len(out') \in Nat /\ last \in Nat
  BY DEF StreamOK
<1>3. /\ sup' = sup /\ want' = want /\ snap' = snap
      /\ want' \in 0..seq' /\ snap' \in 0..seq'
  BY <1>1 DEF RecoveryOK
<1>4. sup'.step \in {"snapshot", "snapped"} /\ ~ done' => Len(out') <= Buf \div 2
  <2> SUFFICES ASSUME sup.step \in {"snapshot", "snapped"}, ~ done'
               PROVE  Len(out') <= Buf \div 2
    BY <1>3
  <2>1. paused /\ ~ done
    BY DEF RecoveryOK
  <2>2. Len(out) <= Buf \div 2 /\ Len(out') <= Len(out)
    BY <2>1 DEF RecoveryOK
  <2>3. Buf \div 2 \in Int
    BY SizeAssumption
  <2> QED
    BY <1>2, <2>2, <2>3
<1>5. sup'.step \in {"drain", "snapshot", "snapped"} => paused'
  BY <1>3 DEF RecoveryOK
<1>6. sup'.step = "snapped" => last' <= snap'
  BY <1>3 DEF RecoveryOK
<1> QED
  BY <1>3, <1>4, <1>5, <1>6 DEF RecoveryOK

----------------------------------------------------------------------------
(* The client's channel.                                                   *)

\* What may be put into it, and what makes room for it.
LEMMA StreamGrows ==
  ASSUME SessionOK, SessionOK', StreamOK, seq <= seq', ~ done,
         NEW e \in Items, out' = Append(out, e), last' = e.seq, e.seq <= seq',
         UNCHANGED <<seen, heard>>,
         \/ e.tag = "event" /\ e.seq = last + 1 /\ Len(out) < Buf
         \/ e.tag = "replaced" /\ e.seq >= last /\ Len(out) < Buf
         \/ e.tag = "end" /\ e.seq = last /\ done'
  PROVE  StreamOK'
<1>1. /\ out \in Seq(Items) /\ Len(out) \in Nat /\ e.seq \in Nat
      /\ last \in Nat /\ seen \in Nat /\ Buf \in Nat /\ seq \in Nat /\ seq' \in Nat
  BY SizeAssumption DEF StreamOK, SessionOK, Items
<1>2. /\ out' \in Seq(Items) /\ Len(out') = Len(out) + 1 /\ out'[Len(out) + 1] = e
      /\ \A i \in 1..Len(out) : out'[i] = out[i]
  BY <1>1
<1>3. last' \in Nat /\ seen' = seen /\ heard' = heard /\ last <= last'
  BY <1>1
<1>4. \A i \in 1..Len(out) : out[i].tag # "end"
  BY DEF StreamOK, Gapless
<1>5. last = IF Len(out) + 1 = 1 THEN seen ELSE out[Len(out) + 1 - 1].seq
  BY DEF StreamOK, Gapless
<1>6. Gapless'
  <2>1. ASSUME NEW i \in 1..Len(out)
        PROVE  \/ out'[i].tag = "event" /\ out'[i].seq = (IF i = 1 THEN seen ELSE out'[i - 1].seq) + 1
               \/ /\ out'[i].tag = "replaced"
                  /\ out'[i].seq >= (IF i = 1 THEN seen ELSE out'[i - 1].seq)
    <3>1. out'[i] = out[i] /\ (i # 1 => out'[i - 1] = out[i - 1])
      BY <1>1, <1>2
    <3> QED
      BY <1>4, <3>1 DEF StreamOK, Gapless
  <2>2. (IF Len(out') = 1 THEN seen ELSE out'[Len(out') - 1].seq) = last
    BY <1>1, <1>2, <1>5
  <2>3. \/ e.tag = "event" /\ e.seq = (IF Len(out') = 1 THEN seen ELSE out'[Len(out') - 1].seq) + 1
        \/ /\ e.tag = "replaced"
           /\ e.seq >= (IF Len(out') = 1 THEN seen ELSE out'[Len(out') - 1].seq)
        \/ /\ e.tag = "end" /\ done'
           /\ e.seq = (IF Len(out') = 1 THEN seen ELSE out'[Len(out') - 1].seq)
    BY <2>2
  <2>4. last' = IF Len(out') + 1 = 1 THEN seen' ELSE out'[Len(out') + 1 - 1].seq
    BY <1>1, <1>2
  <2>6. last' <= seq'
    BY <1>1
  <2>5. ASSUME NEW i \in 1..Len(out')
        PROVE  \/ out'[i].tag = "event" /\ out'[i].seq = (IF i = 1 THEN seen' ELSE out'[i - 1].seq) + 1
               \/ /\ out'[i].tag = "replaced"
                  /\ out'[i].seq >= (IF i = 1 THEN seen' ELSE out'[i - 1].seq)
               \/ /\ out'[i].tag = "end"
                  /\ out'[i].seq = (IF i = 1 THEN seen' ELSE out'[i - 1].seq)
                  /\ i = Len(out') /\ done'
    <3>1. CASE i \in 1..Len(out)
      BY <1>3, <2>1, <3>1
    <3>2. CASE i = Len(out')
      <4>1. out'[i] = e
        BY <1>2, <3>2
      <4> QED
        BY <1>3, <2>3, <3>2, <4>1
    <3> QED
      BY <1>1, <1>2, <3>1, <3>2
  <2> QED
    BY <2>4, <2>5, <2>6 DEF Gapless
<1>7. \A i \in 1..Len(out') : out'[i].seq <= last'
  <2> SUFFICES ASSUME NEW i \in 1..Len(out') PROVE out'[i].seq <= last'
    OBVIOUS
  <2>1. CASE i \in 1..Len(out)
    <3>1. out[i] \in Items /\ out[i].seq <= last /\ out'[i] = out[i]
      BY <1>1, <1>2, <2>1 DEF StreamOK
    <3> QED
      BY <1>1, <1>3, <3>1 DEF Items
  <2>2. CASE i = Len(out) + 1
    BY <1>1, <1>2, <2>2
  <2> QED
    BY <1>1, <1>2, <2>1, <2>2
<1>8. Len(out') <= Buf + 1 /\ (~ done' => Len(out') <= Buf)
  BY <1>1, <1>2 DEF StreamOK
<1>9. heard' # "end" /\ seen' <= last'
  BY <1>1, <1>3 DEF StreamOK
<1> QED
  BY <1>2, <1>3, <1>6, <1>7, <1>8, <1>9 DEF StreamOK

\* What the consumer finds at the head of its channel: the next event, a notice that points
\* ahead, or the end, which is the last.
LEMMA HeadOfStream ==
  ASSUME SessionOK, StreamOK, out # <<>>
  PROVE  /\ Len(out) \in Nat \ {0} /\ Head(out) = out[1] /\ out[1] \in Items
         /\ seen \in Nat /\ out[1].seq \in Nat /\ out[1].seq <= last /\ last <= seq
         /\ \/ out[1].tag = "event" /\ out[1].seq = seen + 1
            \/ out[1].tag = "replaced" /\ out[1].seq >= seen
            \/ out[1].tag = "end" /\ out[1].seq = seen /\ Len(out) = 1 /\ done
<1>1. out \in Seq(Items) /\ Len(out) \in Nat \ {0}
  BY EmptySeq DEF StreamOK
<1>2. Head(out) = out[1] /\ out[1] \in Items /\ 1 \in 1..Len(out)
  BY <1>1
<1>3. seen \in Nat /\ out[1].seq \in Nat
  BY <1>2 DEF StreamOK, Items
<1> QED
  BY <1>1, <1>2, <1>3 DEF StreamOK, Gapless

LEMMA ConsumeStream ==
  ASSUME SessionOK, SessionOK', StreamOK, Consume
  PROVE  StreamOK' /\ Len(out') <= Len(out)
<1>0. /\ out # <<>> /\ out' = Tail(out) /\ seen' = out[1].seq /\ heard' = out[1].tag
      /\ last' = last /\ done' = done /\ seq' = seq
  BY HeadOfStream DEF Consume, session, recovery
<1>1. out \in Seq(Items) /\ last \in Nat /\ Buf \in Nat /\ seq \in Nat
  BY SizeAssumption DEF StreamOK, SessionOK
<1>2. /\ out' \in Seq(Items) /\ Len(out) \in Nat \ {0} /\ Len(out') = Len(out) - 1
      /\ \A i \in 1..Len(out') : out'[i] = out[i + 1]
  BY <1>0, <1>1, EmptySeq
<1>3. seen' \in Nat /\ seen' <= last' /\ heard' \in {"event", "replaced", "end"}
  BY <1>0, HeadOfStream
<1>4. Gapless'
  <2>1. \A i \in 1..Len(out') : i + 1 \in 1..Len(out) /\ i + 1 # 1 /\ (i + 1) - 1 = i
    BY <1>2
  <2>2. ASSUME NEW i \in 1..Len(out')
        PROVE  out[i].seq = IF i = 1 THEN seen' ELSE out'[i - 1].seq
    BY <1>0, <1>2
  <2>3. ASSUME NEW i \in 1..Len(out')
        PROVE  \/ out'[i].tag = "event" /\ out'[i].seq = (IF i = 1 THEN seen' ELSE out'[i - 1].seq) + 1
               \/ /\ out'[i].tag = "replaced"
                  /\ out'[i].seq >= (IF i = 1 THEN seen' ELSE out'[i - 1].seq)
               \/ /\ out'[i].tag = "end" /\ i = Len(out') /\ done'
                  /\ out'[i].seq = (IF i = 1 THEN seen' ELSE out'[i - 1].seq)
    <3>1. out'[i] = out[i + 1]
      BY <1>2
    <3>2. \/ out[i + 1].tag = "event" /\ out[i + 1].seq = out[i].seq + 1
          \/ out[i + 1].tag = "replaced" /\ out[i + 1].seq >= out[i].seq
          \/ out[i + 1].tag = "end" /\ out[i + 1].seq = out[i].seq /\ i + 1 = Len(out) /\ done
      BY <2>1 DEF StreamOK, Gapless
    <3>3. i + 1 = Len(out) => i = Len(out')
      BY <1>2
    <3> DEFINE before == IF i = 1 THEN seen' ELSE out'[i - 1].seq
    <3>4. before = out[i].seq
      BY <2>2
    <3> HIDE DEF before
    <3>5. \/ out'[i].tag = "event" /\ out'[i].seq = before + 1
          \/ out'[i].tag = "replaced" /\ out'[i].seq >= before
          \/ out'[i].tag = "end" /\ i = Len(out') /\ done' /\ out'[i].seq = before
      BY <1>0, <3>1, <3>2, <3>3, <3>4, Zenon
    <3> QED
      BY <3>5 DEF before
  <2>4. last' = IF Len(out') + 1 = 1 THEN seen' ELSE out'[Len(out') + 1 - 1].seq
    <3>1. last = out[Len(out)].seq
      BY <1>2 DEF StreamOK, Gapless
    <3> QED
      BY <1>0, <1>2, <3>1
  <2>5. last' <= seq'
    BY <1>0 DEF StreamOK, Gapless
  <2> QED
    BY <2>3, <2>4, <2>5 DEF Gapless
<1>5. \A i \in 1..Len(out') : out'[i].seq <= last'
  BY <1>0, <1>2 DEF StreamOK
<1>6. Len(out') <= Buf + 1 /\ (~ done' => Len(out') <= Buf)
  BY <1>0, <1>1, <1>2 DEF StreamOK
<1>7. heard' = "end" => (out' = <<>> /\ done')
  <2> SUFFICES ASSUME out[1].tag = "end" PROVE out' = <<>> /\ done'
    BY <1>0
  <2>1. Len(out) = 1 /\ done
    BY <1>0, HeadOfStream
  <2> QED
    BY <1>0, <1>2, <2>1, EmptySeq
<1> QED
  BY <1>0, <1>1, <1>2, <1>3, <1>4, <1>5, <1>6, <1>7 DEF StreamOK

\* The read loop delivers only to a stream that is neither paused nor done.
LEMMA DeliverKeeps ==
  ASSUME FlagsOK, SessionOK, SessionOK', StreamOK, seq <= seq', gap \in Nat \cup {None},
         NEW e \in Sent, Deliver(e), UNCHANGED <<seen, heard>>
  PROVE  /\ StreamOK' /\ done' = done /\ gap' \in Nat \cup {None}
         /\ paused' \in BOOLEAN /\ resub' \in BOOLEAN
         /\ paused => (paused' /\ last' = last /\ out' = out)
<1>1. /\ e.seq \in 1..seq /\ e.tag \in {"event", "slow"} /\ e \in Items
      /\ seq \in Nat /\ seq' \in Nat /\ last \in Nat
  BY DEF Sent, Items, SessionOK, StreamOK
<1>2. paused \in BOOLEAN /\ resub \in BOOLEAN /\ done \in BOOLEAN
  BY DEF FlagsOK
<1>3. CASE Ignored(e)
  <2>1. UNCHANGED <<last, out, paused, gap, resub, done>>
    BY <1>3 DEF Deliver, stream
  <2> QED
    BY <1>2, <2>1, StreamKept
<1>4. CASE ~ Ignored(e) /\ e.tag # "slow" /\ ~ NextInLine(e)
  <2>1. gap' = Armed /\ UNCHANGED <<last, out, paused, resub, done>>
    BY <1>4 DEF Deliver
  <2>2. gap' \in Nat \cup {None}
    BY <1>1, <2>1 DEF Armed
  <2> QED
    BY <1>2, <2>1, <2>2, StreamKept
<1>5. CASE ~ Ignored(e) /\ (e.tag = "slow" \/ NextInLine(e)) /\ (e.tag = "slow" \/ ~ Room)
  <2>1. gap' = None /\ paused' = TRUE /\ resub' = TRUE /\ UNCHANGED <<last, out, done>>
    BY <1>5 DEF Deliver
  <2> QED
    BY <2>1, StreamKept
<1>6. CASE ~ Ignored(e) /\ e.tag # "slow" /\ NextInLine(e) /\ Room
  <2>1. /\ gap' = None /\ last' = e.seq /\ out' = Append(out, e)
        /\ UNCHANGED <<paused, resub, done>>
    BY <1>6 DEF Deliver
  <2>2. e.tag = "event" /\ e.seq = last + 1 /\ Len(out) < Buf /\ ~ done /\ ~ paused
    BY <1>1, <1>6 DEF NextInLine, Room, Ignored
  <2>3. StreamOK'
    BY <1>1, <2>1, <2>2, StreamGrows
  <2> QED
    BY <1>2, <2>1, <2>2, <2>3
<1> QED
  BY <1>3, <1>4, <1>5, <1>6

\* The end finds its slot free, and comes once.
LEMMA FinishKeeps ==
  ASSUME FlagsOK, SessionOK, SessionOK', StreamOK, seq <= seq', gap \in Nat \cup {None},
         Finish, UNCHANGED <<seen, heard>>
  PROVE  /\ StreamOK' /\ done' /\ done' \in BOOLEAN /\ gap' \in Nat \cup {None}
         /\ UNCHANGED <<last, paused, resub>>
<1>1. CASE done
  <2>1. UNCHANGED <<last, out, paused, gap, resub, done>>
    BY <1>1 DEF Finish, stream
  <2> QED
    BY <1>1, <2>1, StreamKept DEF FlagsOK
<1>2. CASE ~ done
  <2>1. /\ done' = TRUE /\ gap' = None /\ out' = Append(out, Item(last, "end"))
        /\ UNCHANGED <<last, paused, resub>>
    BY <1>2 DEF Finish
  <2>2. last \in Nat /\ last <= seq /\ seq \in Nat /\ seq' \in Nat
    BY DEF StreamOK, Gapless, SessionOK
  <2>3. /\ Item(last, "end") \in Items
        /\ Item(last, "end").seq = last /\ Item(last, "end").tag = "end"
    BY <2>2 DEF Item, Items
  <2>4. StreamOK'
    BY <1>2, <2>1, <2>2, <2>3, StreamGrows
  <2> QED
    BY <2>1, <2>4
<1> QED
  BY <1>1, <1>2

----------------------------------------------------------------------------
(* The session's subscriptions.                                            *)

LEMMA NoSubOK == ASSUME NEW S PROVE SubOK(NoSub, S)
  BY EmptySeq DEF SubOK, NoSub

LEMMA CancelledOK ==
  ASSUME NEW S, NEW s, SubOK(s, S)
  PROVE  SubOK(Cancelled(s), S) /\ SubOK([Cancelled(s) EXCEPT !.reg = FALSE], S)
<1>1. MaxStale \in Nat
  BY StaleAssumption, SizeAssumption
<1>2. s \in [reg : BOOLEAN, live : BOOLEAN, q : Seq(S), cap : Nat, left : Nat]
  BY DEF SubOK
<1>3. CASE s.live
  BY <1>1, <1>2, <1>3 DEF SubOK, Cancelled
<1>4. CASE ~ s.live
  BY <1>2, <1>4 DEF SubOK, Cancelled
<1> QED
  BY <1>3, <1>4

\* A subscription that is served has room for an event and for the detach.
LEMMA OfferOK ==
  ASSUME NEW S, NEW s, SubOK(s, S), NEW n, Item(n, "event") \in S, Item(n, "slow") \in S
  PROVE  SubOK(Offer(s, n), S)
<1>1. /\ s \in [reg : BOOLEAN, live : BOOLEAN, q : Seq(S), cap : Nat, left : Nat]
      /\ Len(s.q) \in Nat /\ Len(s.q) <= s.cap /\ (s.reg => Len(s.q) < s.cap)
  BY DEF SubOK
<1>2. CASE ~ s.reg
  BY <1>2 DEF Offer
<1>3. CASE s.reg /\ Full(s)
  <2>1. Offer(s, n) = [s EXCEPT !.q = Append(@, Item(n, "slow")), !.reg = FALSE]
    BY <1>3 DEF Offer
  <2>2. Append(s.q, Item(n, "slow")) \in Seq(S) /\ Len(Append(s.q, Item(n, "slow"))) = Len(s.q) + 1
    BY <1>1
  <2>3. /\ Offer(s, n) \in [reg : BOOLEAN, live : BOOLEAN, q : Seq(S), cap : Nat, left : Nat]
        /\ Offer(s, n).q = Append(s.q, Item(n, "slow")) /\ Offer(s, n).cap = s.cap
        /\ ~ Offer(s, n).reg
    BY <1>1, <2>1, <2>2
  <2>4. Len(s.q) + 1 <= s.cap
    BY <1>1, <1>3
  <2> QED
    BY <2>2, <2>3, <2>4 DEF SubOK
<1>4. CASE s.reg /\ ~ Full(s)
  <2>1. Offer(s, n) = [s EXCEPT !.q = Append(@, Item(n, "event"))]
    BY <1>4 DEF Offer
  <2>2. Append(s.q, Item(n, "event")) \in Seq(S) /\ Len(Append(s.q, Item(n, "event"))) = Len(s.q) + 1
    BY <1>1
  <2>3. Len(s.q) + 1 < s.cap
    BY <1>1, <1>4 DEF Full
  <2>4. /\ Offer(s, n) \in [reg : BOOLEAN, live : BOOLEAN, q : Seq(S), cap : Nat, left : Nat]
        /\ Offer(s, n).q = Append(s.q, Item(n, "event")) /\ Offer(s, n).cap = s.cap
    BY <1>1, <2>1, <2>2
  <2> QED
    BY <1>1, <2>2, <2>3, <2>4 DEF SubOK
<1> QED
  BY <1>2, <1>3, <1>4

\* A forwarder takes the head of its queue.
LEMMA TakeOK ==
  ASSUME NEW S, NEW s, SubOK(s, S), s.q # <<>>, NEW n \in Nat
  PROVE  /\ SubOK([s EXCEPT !.q = Tail(@)], S) /\ Head(s.q) \in S
         /\ SubOK([s EXCEPT !.q = Tail(@), !.left = n], S)
<1>1. /\ s \in [reg : BOOLEAN, live : BOOLEAN, q : Seq(S), cap : Nat, left : Nat]
      /\ Len(s.q) \in Nat /\ Len(s.q) <= s.cap /\ (s.reg => Len(s.q) < s.cap)
  BY DEF SubOK
<1>2. Tail(s.q) \in Seq(S) /\ Len(Tail(s.q)) = Len(s.q) - 1 /\ Head(s.q) \in S
  BY <1>1, HeadTailProperties
<1>3. ASSUME NEW r \in {[s EXCEPT !.q = Tail(@)], [s EXCEPT !.q = Tail(@), !.left = n]}
      PROVE  SubOK(r, S)
  <2>1. r \in [reg : BOOLEAN, live : BOOLEAN, q : Seq(S), cap : Nat, left : Nat]
    BY <1>1, <1>2, <1>3
  <2>2. r.q = Tail(s.q) /\ r.cap = s.cap /\ r.reg = s.reg
    BY <1>1, <1>3
  <2>3. Len(r.q) <= r.cap
    BY <1>1, <1>2, <2>2
  <2>4. r.reg => Len(r.q) < r.cap
    BY <1>1, <1>2, <2>2
  <2> QED
    BY <2>1, <2>3, <2>4 DEF SubOK
<1> QED
  BY <1>2, <1>3

LEMMA LinksSet ==
  ASSUME NEW s, subs' = [a \in Slots |-> s[a]], \A a \in Slots : SubOK(s[a], Sent')
  PROVE  LinksOK'
  BY DEF LinksOK

----------------------------------------------------------------------------
(* Every step keeps the invariant: first the session and its daemon.       *)

LEMMA RingBound ==
  ASSUME NEW n \in Nat, NEW r \in Nat, NEW l \in 1..(n + 1), NEW m \in l..(n + 2),
         n + 1 - m < r \/ m = n + 2
  PROVE  m \in 1..(n + 1 + 1) /\ (n + 1) + 1 - m <= r
  OBVIOUS

LEMMA PublishKeeps ==
  ASSUME StreamInv, NEW k \in Kinds, Publish(k)
  PROVE  StreamInv'
<1> USE DEF StreamInv
<1>0. /\ seq' = seq + 1 /\ kind' = Append(kind, k) /\ low' \in Kept(k)
      /\ subs' = [a \in Slots |-> Offer(subs[a], seq + 1)]
      /\ seq \in Nat /\ RingSize \in Nat \ {0}
  BY SizeAssumption DEF Publish, SessionOK
<1>1. UNCHANGED <<open, noted, wire, stream, recovery, consumer>>
  BY DEF Publish
<1>2. FlagsOK'
  BY <1>1 DEF FlagsOK, wire, stream
<1>3. SessionOK'
  <2>1. kind' \in Seq(Kinds) /\ Len(kind') = seq'
    BY <1>0 DEF SessionOK
  <2>2. low' \in 1..(seq' + 1) /\ seq' + 1 - low' <= RingSize
    <3>1. low \in 1..(seq + 1) /\ seq' = seq + 1 /\ seq \in Nat /\ RingSize \in Nat \ {0}
      BY <1>0 DEF SessionOK
    <3>2. low' \in low..(seq + 2) /\ (seq + 1 - low' < RingSize \/ low' = seq + 2)
      <4>1. CASE k = "plain"
        BY <1>0, <4>1 DEF Kept
      <4>2. CASE k # "plain"
        <5>1. low' = seq + 2
          BY <1>0, <4>2 DEF Kept
        <5> QED
          BY <3>1, <5>1
      <4> QED
        BY <4>1, <4>2
    <3> QED
      BY <3>1, <3>2, RingBound
  <2>3. seq' \in Nat
    BY <1>0
  <2> QED
    BY <2>1, <2>2, <2>3 DEF SessionOK
<1>4. LinksOK'
  <2>1. ASSUME NEW a \in Slots PROVE SubOK(Offer(subs[a], seq + 1), Sent')
    <3>1. SubOK(subs[a], Sent)
      BY DEF LinksOK
    <3>2. SubOK(subs[a], Sent')
      <4>1. subs[a].q \in Seq(Sent) /\ seq' \in Nat /\ seq <= seq'
        BY <1>0, <3>1 DEF SubOK
      <4>2. subs[a].q \in Seq(Sent')
        BY <1>0, <4>1, SentGrows
      <4> QED
        BY <3>1, <4>2 DEF SubOK
    <3>3. Item(seq + 1, "event") \in Sent' /\ Item(seq + 1, "slow") \in Sent'
      <4>1. Sent' = [seq : 1..(seq + 1), tag : {"event", "slow"}] /\ seq + 1 \in 1..(seq + 1)
        BY <1>0 DEF Sent
      <4> QED
        BY <4>1 DEF Item
    <3> QED
      BY <3>2, <3>3, OfferOK
  <2> QED
    BY <1>0, <2>1 DEF LinksOK
<1>5. WireOK' /\ StreamOK'
  BY <1>0, <1>1, <1>3, WireKept, StreamKept DEF wire, stream, consumer
<1>6. RecoveryOK'
  <2>1. /\ UNCHANGED <<sup, want, snap, gap, paused, done, last, out>>
        /\ gap \in Nat \cup {None} /\ out \in Seq(Items)
    BY <1>1 DEF stream, recovery, RecoveryOK, StreamOK
  <2> QED
    BY <1>0, <1>2, <1>3, <1>5, <2>1, RecoveryKept
<1> QED
  BY <1>2, <1>3, <1>4, <1>5, <1>6

\* What the daemon does with subscriptions and connections leaves the client alone.
LEMMA ClientUntouched ==
  ASSUME StreamInv, FlagsOK', LinksOK', WireOK', UNCHANGED <<seq, kind, low>>,
         UNCHANGED <<stream, recovery, consumer>>
  PROVE  StreamInv'
<1> USE DEF StreamInv
<1>1. SessionOK' /\ seq <= seq'
  BY DEF SessionOK
<1>2. StreamOK'
  BY <1>1, StreamKept DEF stream, consumer
<1>3. RecoveryOK'
  <2>1. /\ UNCHANGED <<sup, want, snap, gap, paused, done, last, out>>
        /\ gap \in Nat \cup {None} /\ out \in Seq(Items)
    BY DEF stream, recovery, RecoveryOK, StreamOK
  <2> QED
    BY <1>1, <1>2, <2>1, RecoveryKept
<1> QED
  BY <1>1, <1>2, <1>3

LEMMA SameSent == ASSUME UNCHANGED seq PROVE Sent' = Sent
  BY DEF Sent

\* One slot changes.
LEMMA SlotSet ==
  ASSUME LinksOK, UNCHANGED seq, NEW a \in Slots, NEW s, SubOK(s, Sent),
         subs' = [subs EXCEPT ![a] = s]
  PROVE  LinksOK'
<1>1. subs' = [b \in Slots |-> IF b = a THEN s ELSE subs[b]]
  BY DEF LinksOK
<1>2. \A b \in Slots : SubOK(IF b = a THEN s ELSE subs[b], Sent')
  BY SameSent DEF LinksOK
<1> QED
  BY <1>1, <1>2 DEF LinksOK

LEMMA ForwarderKeeps ==
  ASSUME StreamInv, NEW a \in Slots, Skip(a) \/ Forward(a) \/ ForwarderEnds(a)
  PROVE  StreamInv'
<1> USE DEF StreamInv
<1>1. SubOK(subs[a], Sent) /\ subs[a].left \in Nat
  BY DEF LinksOK, SubOK
<1>2. /\ UNCHANGED <<session, noted, up, stale, ctl, drops, stream, recovery, consumer>>
      /\ UNCHANGED <<seq, kind, low, open>>
  BY DEF Skip, Forward, ForwarderEnds, wire, session
<1>3. FlagsOK'
  BY <1>2 DEF FlagsOK, stream
<1>4. CASE Skip(a)
  <2>1. /\ subs[a].q # <<>> /\ subs' = [subs EXCEPT ![a] = [subs[a] EXCEPT !.q = Tail(@)]]
        /\ UNCHANGED pipe
    BY <1>4 DEF Skip, Sendable, wire, LinksOK
  <2>2. SubOK([subs[a] EXCEPT !.q = Tail(@)], Sent)
    BY <1>1, <2>1, TakeOK
  <2>3. LinksOK' /\ WireOK'
    BY <1>2, <2>1, <2>2, SlotSet, SameSent DEF WireOK
  <2> QED
    BY <1>2, <1>3, <2>3, ClientUntouched
<1>5. CASE Forward(a)
  <2> DEFINE n == IF subs[a].live THEN subs[a].left ELSE subs[a].left - 1
             s == [subs[a] EXCEPT !.q = Tail(@), !.left = n]
  <2>1. subs[a].q # <<>> /\ (subs[a].live \/ subs[a].left > 0)
    BY <1>5 DEF Forward, Sendable
  <2>2. /\ subs' = [subs EXCEPT ![a] = s]
        /\ pipe' = Append(pipe, Head(subs[a].q))
    BY <1>5 DEF Forward, LinksOK
  <2>3. n \in Nat
    BY <1>1, <2>1
  <2>4. SubOK(s, Sent) /\ Head(subs[a].q) \in Sent
    BY <1>1, <2>1, <2>3, TakeOK
  <2>5. LinksOK'
    BY <1>2, <2>2, <2>4, SlotSet
  <2>6. pipe' \in Seq(Sent)
    BY <2>2, <2>4 DEF WireOK
  <2>7. WireOK'
    BY <1>2, <2>6, SameSent DEF WireOK
  <2> QED
    BY <1>2, <1>3, <2>5, <2>7, ClientUntouched
<1>6. CASE ForwarderEnds(a)
  <2>1. subs' = [subs EXCEPT ![a] = NoSub] /\ UNCHANGED pipe
    BY <1>6 DEF ForwarderEnds, wire
  <2>2. LinksOK' /\ WireOK'
    BY <1>2, <2>1, NoSubOK, SlotSet, SameSent DEF WireOK
  <2> QED
    BY <1>2, <1>3, <2>2, ClientUntouched
<1> QED
  BY <1>4, <1>5, <1>6

\* Closing a session, losing control and losing the connection cancel subscriptions.
LEMMA CancelledLinks ==
  ASSUME LinksOK, UNCHANGED seq,
         \/ subs' = CancelSubs
         \/ subs' = [a \in Slots |-> [Cancelled(subs[a]) EXCEPT !.reg = FALSE]]
         \/ subs' = [a \in Slots |-> NoSub]
  PROVE  LinksOK'
<1>1. ASSUME NEW a \in Slots
      PROVE  /\ SubOK(Cancelled(subs[a]), Sent) /\ SubOK(NoSub, Sent)
             /\ SubOK([Cancelled(subs[a]) EXCEPT !.reg = FALSE], Sent)
  BY CancelledOK, NoSubOK DEF LinksOK
<1>2. CASE subs' = CancelSubs
  BY <1>1, <1>2, SameSent DEF LinksOK, CancelSubs
<1>3. CASE subs' = [a \in Slots |-> [Cancelled(subs[a]) EXCEPT !.reg = FALSE]]
  BY <1>1, <1>3, SameSent DEF LinksOK
<1>4. CASE subs' = [a \in Slots |-> NoSub]
  BY <1>1, <1>4, SameSent DEF LinksOK
<1> QED
  BY <1>2, <1>3, <1>4

LEMMA SessionCloseKeeps == ASSUME StreamInv, SessionCloses \/ Taken PROVE StreamInv'
<1> USE DEF StreamInv
<1>1. /\ UNCHANGED <<seq, kind, low>> /\ UNCHANGED <<up, pipe, stale, drops>>
      /\ UNCHANGED <<stream, recovery, consumer>>
  BY DEF SessionCloses, Taken, session
<1>2. FlagsOK'
  <2>1. open' \in BOOLEAN /\ noted' \in BOOLEAN
    BY DEF SessionCloses, Taken, session, FlagsOK
  <2>2. ctl' \in BOOLEAN
    BY DEF SessionCloses, Taken, FlagsOK
  <2> QED
    BY <1>1, <2>1, <2>2 DEF FlagsOK, stream
<1>3. LinksOK'
  BY <1>1, CancelledLinks DEF SessionCloses, Taken
<1>4. WireOK'
  BY <1>1, SameSent DEF WireOK
<1> QED
  BY <1>1, <1>2, <1>3, <1>4, ClientUntouched

LEMMA LinkLostKeeps == ASSUME StreamInv, LinkDrops \/ WriteFails PROVE StreamInv'
<1> USE DEF StreamInv
<1>1. pipe \in Seq(Sent) /\ Len(pipe) \in Nat /\ drops \in Nat
  BY DEF WireOK
<1>2. PICK n \in 0..Len(pipe) : LinkDown(n)
  BY <1>1 DEF LinkDrops, WriteFails
<1>3. drops' \in Nat
  BY <1>1 DEF LinkDrops, WriteFails
<1>4. /\ up' = FALSE /\ ctl' = FALSE /\ noted' = FALSE
      /\ stale' = SubSeq(pipe, 1, n) /\ pipe' = <<>>
      /\ subs' = [a \in Slots |-> NoSub]
      /\ UNCHANGED <<seq, kind, low, open>> /\ UNCHANGED <<stream, recovery, consumer>>
  BY <1>2 DEF LinkDown, session
<1>5. FlagsOK'
  BY <1>4 DEF FlagsOK, stream
<1>6. LinksOK'
  BY <1>4, CancelledLinks
<1>7. WireOK'
  <2>1. stale' \in Seq(Sent)
    <3>1. \A i \in 1..n : pipe[i] \in Sent
      BY <1>1
    <3> QED
      BY <1>4, <3>1, SubSeqProperties
  <2>2. pipe' \in Seq(Sent)
    BY <1>4, EmptySeq
  <2> QED
    BY <1>3, <1>4, <2>1, <2>2, SameSent DEF WireOK
<1> QED
  BY <1>4, <1>5, <1>6, <1>7, ClientUntouched

----------------------------------------------------------------------------
(* The client: its read loop and its consumer.                             *)

LEMMA DaemonUntouched ==
  ASSUME StreamInv, UNCHANGED <<seq, kind, low, subs>>, drops' = drops,
         pipe' \in {pipe, Tail(pipe)}, pipe' # pipe => pipe # <<>>,
         stale' \in {stale, Tail(stale)}, stale' # stale => stale # <<>>
  PROVE  SessionOK' /\ LinksOK' /\ WireOK' /\ seq <= seq'
<1> USE DEF StreamInv
<1>1. SessionOK' /\ seq <= seq'
  BY DEF SessionOK
<1>2. LinksOK'
  BY <1>1, LinksKept
<1>3. pipe' \in Seq(Sent) /\ stale' \in Seq(Sent)
  BY HeadTailProperties DEF WireOK
<1>4. WireOK'
  BY <1>3, SameSent DEF WireOK
<1> QED
  BY <1>1, <1>2, <1>4

LEMMA ReceiveKeeps == ASSUME StreamInv, Receive \/ ReceiveStale PROVE StreamInv'
<1> USE DEF StreamInv
<1>1. PICK e \in Sent : Deliver(e)
  <2>1. /\ pipe \in Seq(Sent) /\ stale \in Seq(Sent)
        /\ pipe # <<>> => Head(pipe) \in Sent
        /\ stale # <<>> => Head(stale) \in Sent
    BY HeadTailProperties DEF WireOK
  <2> QED
    BY <2>1 DEF Receive, ReceiveStale
<1>2. /\ UNCHANGED <<seq, kind, low, open, subs, noted, up, ctl, drops>>
      /\ UNCHANGED <<sup, want, snap, seen, heard>>
  BY DEF Receive, ReceiveStale, session, links, recovery, consumer
<1>3. SessionOK' /\ LinksOK' /\ WireOK' /\ seq <= seq'
  BY <1>2, DaemonUntouched DEF Receive, ReceiveStale
<1>4. /\ gap \in Nat \cup {None} /\ out \in Seq(Items) /\ Len(out) \in Nat
  BY DEF RecoveryOK, StreamOK
<1>5. /\ StreamOK' /\ done' = done /\ gap' \in Nat \cup {None}
      /\ paused' \in BOOLEAN /\ resub' \in BOOLEAN
      /\ paused => (paused' /\ last' = last /\ out' = out)
  BY <1>1, <1>2, <1>3, <1>4, DeliverKeeps
<1>6. FlagsOK'
  BY <1>2, <1>5 DEF FlagsOK
<1>7. RecoveryOK'
  BY <1>2, <1>3, <1>4, <1>5, <1>6, RecoveryKept
<1> QED
  BY <1>3, <1>5, <1>6, <1>7

LEMMA GapFiresKeeps == ASSUME StreamInv, GapFires PROVE StreamInv'
<1> USE DEF StreamInv
<1>1. /\ UNCHANGED <<seq, kind, low, open, subs, noted, up, pipe, stale, ctl, drops>>
      /\ UNCHANGED <<last, out, done, sup, want, snap, seen, heard>>
      /\ gap' = None
  BY DEF GapFires, session, links, wire, recovery, consumer
<1>2. \/ UNCHANGED <<paused, resub>>
      \/ paused' = TRUE /\ resub' = TRUE
  BY DEF GapFires
<1>3. FlagsOK' /\ (paused => paused')
  BY <1>1, <1>2 DEF FlagsOK
<1>4. SessionOK' /\ LinksOK' /\ WireOK' /\ seq <= seq'
  BY <1>1, DaemonUntouched
<1>5. StreamOK'
  BY <1>1, <1>4, StreamKept
<1>6. RecoveryOK'
  <2>1. out \in Seq(Items)
    BY DEF StreamOK
  <2> QED
    BY <1>1, <1>3, <1>4, <1>5, <2>1, RecoveryKept
<1> QED
  BY <1>3, <1>4, <1>5, <1>6

LEMMA ReceiveControlKeeps == ASSUME StreamInv, ReceiveControl PROVE StreamInv'
<1> USE DEF StreamInv
<1>1. /\ UNCHANGED <<seq, kind, low, open, subs, noted, up, pipe, stale, drops>>
      /\ UNCHANGED <<sup, want, snap, seen, heard>>
      /\ ctl' = FALSE /\ Finish
  BY DEF ReceiveControl, session, links, recovery, consumer
<1>2. SessionOK' /\ LinksOK' /\ WireOK' /\ seq <= seq'
  BY <1>1, DaemonUntouched
<1>3. gap \in Nat \cup {None}
  BY DEF RecoveryOK
<1>4. /\ StreamOK' /\ done' /\ done' \in BOOLEAN /\ gap' \in Nat \cup {None}
      /\ UNCHANGED <<last, paused, resub>>
  BY <1>1, <1>2, <1>3, FinishKeeps
<1>5. FlagsOK'
  BY <1>1, <1>4 DEF FlagsOK
<1>6. RecoveryOK'
  BY <1>1, <1>2, <1>4, <1>5, RecoveryKept
<1> QED
  BY <1>2, <1>4, <1>5, <1>6

LEMMA ConsumeKeeps == ASSUME StreamInv, Consume PROVE StreamInv'
<1> USE DEF StreamInv
<1>1. /\ UNCHANGED <<seq, kind, low, open, subs, noted, up, pipe, stale, ctl, drops>>
      /\ UNCHANGED <<last, paused, gap, resub, done, sup, want, snap>>
  BY DEF Consume, session, links, wire, recovery
<1>2. SessionOK' /\ LinksOK' /\ WireOK' /\ seq <= seq'
  BY <1>1, DaemonUntouched
<1>3. FlagsOK'
  BY <1>1 DEF FlagsOK
<1>4. StreamOK' /\ Len(out') <= Len(out)
  BY <1>2, ConsumeStream
<1>5. gap' \in Nat \cup {None}
  BY <1>1 DEF RecoveryOK
<1>6. RecoveryOK'
  BY <1>1, <1>2, <1>3, <1>4, <1>5, RecoveryKept
<1> QED
  BY <1>2, <1>3, <1>4, <1>6

----------------------------------------------------------------------------
(* The supervisor.                                                         *)

Rounds == {"first", "resume", "replace"}

\* A step to where the supervisor relies on nothing it has seen.
LEMMA SupGoes ==
  ASSUME SessionOK, RecoveryOK, UNCHANGED seq,
         sup' \in [step : Steps \ {"drain", "snapshot", "snapped"}, round : Rounds, redial : BOOLEAN],
         want' \in 0..seq, snap' \in 0..seq, gap' \in Nat \cup {None}
  PROVE  RecoveryOK'
  BY DEF RecoveryOK, Steps, Rounds

LEMMA SupSteps ==
  ASSUME RecoveryOK, NEW step \in Steps \ {"drain", "snapshot", "snapped"}
  PROVE  [sup EXCEPT !.step = step]
           \in [step : Steps \ {"drain", "snapshot", "snapped"}, round : Rounds, redial : BOOLEAN]
  BY DEF RecoveryOK, Rounds

LEMMA RecoverKeeps ==
  ASSUME SessionOK, UNCHANGED seq, NEW round \in Rounds, NEW redial \in BOOLEAN,
         Recover(round, redial), want' \in 0..seq, snap' \in 0..seq
  PROVE  RecoveryOK' /\ paused' = TRUE
<1>1. sup' = At("drain", round, redial) /\ paused' = TRUE /\ gap' = None
  BY DEF Recover
<1>2. /\ sup' \in [step : Steps, round : {"first", "resume", "replace"}, redial : BOOLEAN]
      /\ sup'.step = "drain"
  BY <1>1 DEF At, Steps, Rounds
<1> QED
  BY <1>1, <1>2 DEF RecoveryOK

\* What most of the supervisor's steps leave alone.
LEMMA SupElsewhere ==
  ASSUME StreamInv, UNCHANGED session, UNCHANGED <<subs, pipe, stale, drops>>,
         FlagsOK', RecoveryOK',
         StreamOK' \/ (UNCHANGED <<last, out, seen, heard>> /\ (done => done'))
  PROVE  StreamInv'
<1> USE DEF StreamInv
<1>1. UNCHANGED <<seq, kind, low>>
  BY DEF session
<1>2. SessionOK' /\ LinksOK' /\ WireOK' /\ seq <= seq'
  BY <1>1, DaemonUntouched
<1>3. StreamOK'
  BY <1>2, StreamKept
<1> QED
  BY <1>2, <1>3

LEMMA ResubscribeKeeps == ASSUME StreamInv, Resubscribe \/ Dial PROVE StreamInv'
<1> USE DEF StreamInv
<1>1. /\ UNCHANGED session /\ UNCHANGED <<seq, open, subs, noted, pipe, stale, ctl, drops>>
      /\ UNCHANGED <<last, out, done, want, snap, seen, heard>>
      /\ \E redial \in BOOLEAN : Recover("resume", redial)
  BY DEF Resubscribe, Dial, session, links, wire, consumer
<1>2. RecoveryOK' /\ paused' = TRUE
  <2>1. want' \in 0..seq /\ snap' \in 0..seq /\ "resume" \in Rounds
    BY <1>1 DEF RecoveryOK, Rounds
  <2> QED
    BY <1>1, <2>1, RecoverKeeps
<1>3. up' \in BOOLEAN /\ resub' \in BOOLEAN
  BY DEF Resubscribe, Dial, wire, FlagsOK
<1>4. FlagsOK'
  BY <1>1, <1>2, <1>3 DEF FlagsOK
<1> QED
  BY <1>1, <1>2, <1>4, SupElsewhere

LEMMA DisconnectedKeeps == ASSUME StreamInv, NEW step, Disconnected(step) PROVE StreamInv'
<1> USE DEF StreamInv
<1>1. /\ UNCHANGED session /\ UNCHANGED <<seq, open, subs, noted, up, pipe, stale, ctl, drops>>
      /\ UNCHANGED <<last, out, paused, gap, seen, heard>>
      /\ want' = 0 /\ snap' = 0
  BY DEF Disconnected, session, links, wire, consumer
<1>2. \/ Goto("ended") /\ done' = TRUE /\ UNCHANGED resub
      \/ sup' = At("dial", "resume", TRUE) /\ resub' = (resub /\ sup.redial) /\ UNCHANGED done
  BY DEF Disconnected
<1>3. RecoveryOK'
  <2>1. sup' \in [step : Steps \ {"drain", "snapshot", "snapped"}, round : Rounds, redial : BOOLEAN]
    <3>1. CASE Goto("ended")
      BY <3>1, SupSteps DEF Goto, Steps
    <3>2. CASE sup' = At("dial", "resume", TRUE)
      BY <3>2 DEF At, Steps, Rounds
    <3> QED
      BY <1>2, <3>1, <3>2
  <2>2. seq \in Nat /\ gap' \in Nat \cup {None}
    BY <1>1 DEF SessionOK, RecoveryOK
  <2>3. want' \in 0..seq /\ snap' \in 0..seq
    BY <1>1, <2>2
  <2> QED
    BY <1>1, <2>1, <2>2, <2>3, SupGoes
<1>4. done' \in BOOLEAN /\ (done => done')
  BY <1>2 DEF FlagsOK
<1>5. resub' \in BOOLEAN
  BY <1>2 DEF FlagsOK
<1>6. FlagsOK'
  BY <1>1, <1>4, <1>5 DEF FlagsOK
<1> QED
  BY <1>1, <1>3, <1>4, <1>6, SupElsewhere

LEMMA DrainedKeeps == ASSUME StreamInv, Drained PROVE StreamInv'
<1> USE DEF StreamInv
<1>1. /\ UNCHANGED session /\ UNCHANGED <<seq, open, subs, noted, up, pipe, stale, ctl, drops>>
      /\ UNCHANGED <<last, out, paused, gap, resub, done, want, snap, seen, heard>>
      /\ sup.step = "drain" /\ Len(out) <= Buf \div 2
      /\ sup' = [sup EXCEPT !.step = "snapshot"]
  BY DEF Drained, Goto, session, links, wire, stream, consumer
<1>2. RecoveryOK'
  <2>1. /\ sup' \in [step : Steps, round : {"first", "resume", "replace"}, redial : BOOLEAN]
        /\ sup'.step = "snapshot" /\ paused
    BY <1>1 DEF RecoveryOK, Steps
  <2> QED
    BY <1>1, <2>1 DEF RecoveryOK
<1>3. FlagsOK'
  BY <1>1 DEF FlagsOK
<1> QED
  BY <1>1, <1>2, <1>3, SupElsewhere

LEMMA RefuseKeeps == ASSUME StreamInv, Refuse PROVE StreamInv'
<1> USE DEF StreamInv
<1>1. /\ UNCHANGED session
      /\ UNCHANGED <<seq, kind, low, open, subs, noted, up, pipe, stale, ctl, drops>>
      /\ UNCHANGED <<snap, seen, heard>> /\ want' = 0
      /\ sup' = [sup EXCEPT !.step = "ended"]
  BY DEF Refuse, Goto, session, links, wire, consumer
<1>2. /\ seq \in Nat /\ gap \in Nat \cup {None} /\ snap \in 0..seq
  BY DEF SessionOK, RecoveryOK
<1>3. SessionOK' /\ seq <= seq'
  BY <1>1, <1>2 DEF SessionOK
<1>4. /\ StreamOK' /\ done' \in BOOLEAN /\ gap' \in Nat \cup {None}
      /\ UNCHANGED <<paused, resub>>
  <2>1. CASE done' = TRUE /\ UNCHANGED <<last, out, paused, gap, resub>>
    BY <1>1, <1>2, <1>3, <2>1, StreamKept
  <2>2. CASE Finish
    BY <1>1, <1>2, <1>3, <2>2, FinishKeeps
  <2> QED
    BY <2>1, <2>2 DEF Refuse
<1>5. FlagsOK'
  BY <1>1, <1>4 DEF FlagsOK
<1>6. RecoveryOK'
  <2>1. sup' \in [step : Steps \ {"drain", "snapshot", "snapped"}, round : Rounds, redial : BOOLEAN]
    BY <1>1, SupSteps DEF Steps
  <2>2. want' \in 0..seq /\ snap' \in 0..seq
    BY <1>1, <1>2
  <2> QED
    BY <1>1, <1>4, <2>1, <2>2, SupGoes
<1> QED
  BY <1>1, <1>4, <1>5, <1>6, SupElsewhere

LEMMA TakeSnapshotKeeps == ASSUME StreamInv, TakeSnapshot PROVE StreamInv'
<1> USE DEF StreamInv
<1>1. /\ UNCHANGED session /\ UNCHANGED <<seq, open, subs, noted, up, pipe, stale, ctl, drops>>
      /\ UNCHANGED <<last, out, paused, gap, resub, done, want, seen, heard>>
      /\ sup.step = "snapshot" /\ snap' = seq
      /\ sup' = [sup EXCEPT !.step = "snapped"]
  BY DEF TakeSnapshot, Goto, session, links, wire, stream, consumer
<1>2. seq \in Nat /\ last <= seq
  BY DEF SessionOK, StreamOK, Gapless
<1>3. RecoveryOK'
  <2>1. /\ sup' \in [step : Steps, round : {"first", "resume", "replace"}, redial : BOOLEAN]
        /\ sup'.step = "snapped" /\ paused /\ (~ done => Len(out) <= Buf \div 2)
    BY <1>1 DEF RecoveryOK, Steps
  <2>2. snap' \in 0..seq'
    BY <1>1, <1>2
  <2> QED
    BY <1>1, <1>2, <2>1, <2>2 DEF RecoveryOK
<1>4. FlagsOK'
  BY <1>1 DEF FlagsOK
<1> QED
  BY <1>1, <1>3, <1>4, SupElsewhere

\* The notice that closes a gap points ahead, and the drained channel has room for it.
LEMMA ResumeKeeps == ASSUME StreamInv, Resume PROVE StreamInv'
<1> USE DEF StreamInv
<1>1. /\ UNCHANGED session
      /\ UNCHANGED <<seq, kind, low, open, subs, noted, up, pipe, stale, ctl, drops>>
      /\ UNCHANGED <<resub, done, want, seen, heard>> /\ snap' = 0
      /\ sup.step = "snapped" /\ ~ done
  BY DEF Resume, session, links, wire, consumer
<1>2. /\ seq \in Nat /\ snap \in 0..seq /\ want \in 0..seq /\ gap \in Nat \cup {None}
      /\ last <= snap /\ Len(out) <= Buf \div 2
      /\ sup.redial \in BOOLEAN
  BY <1>1 DEF SessionOK, RecoveryOK
<1>3. SessionOK' /\ seq <= seq'
  BY <1>1, <1>2 DEF SessionOK
<1>4. want' \in 0..seq /\ snap' \in 0..seq
  BY <1>1, <1>2
<1>5. [sup EXCEPT !.step = "asking"]
        \in [step : Steps \ {"drain", "snapshot", "snapped"}, round : Rounds, redial : BOOLEAN]
  BY SupSteps DEF Steps
<1>6. CASE /\ last' = snap /\ out' = Notice /\ paused' = FALSE /\ UNCHANGED gap
           /\ sup' = [sup EXCEPT !.step = "asking"]
  <2>1. /\ Item(snap, "replaced") \in Items /\ Item(snap, "replaced").seq = snap
        /\ Item(snap, "replaced").tag = "replaced"
    BY <1>2 DEF Item, Items
  <2>2. Len(out) < Buf
    <3>1. Buf \in Nat \ {0} /\ Len(out) \in Nat
      BY SizeAssumption DEF StreamOK
    <3>2. Buf \div 2 < Buf /\ Buf \div 2 \in Int
      BY <3>1
    <3> QED
      BY <1>2, <3>1, <3>2
  <2>3. StreamOK'
    <3>1. out' = Append(out, Item(snap, "replaced")) /\ snap <= seq'
      BY <1>1, <1>2, <1>6 DEF Notice
    <3> QED
      BY <1>1, <1>2, <1>3, <1>6, <2>1, <2>2, <3>1, StreamGrows
  <2>4. RecoveryOK'
    BY <1>1, <1>2, <1>4, <1>5, <1>6, SupGoes
  <2>5. FlagsOK'
    BY <1>1, <1>6 DEF FlagsOK
  <2> QED
    BY <1>1, <2>3, <2>4, <2>5, SupElsewhere
<1>7. CASE /\ paused' = FALSE /\ UNCHANGED <<last, out, gap>>
           /\ sup' = [sup EXCEPT !.step = "asking"]
  <2>1. RecoveryOK'
    BY <1>1, <1>2, <1>4, <1>5, <1>7, SupGoes
  <2>2. FlagsOK'
    BY <1>1, <1>7 DEF FlagsOK
  <2> QED
    BY <1>1, <1>7, <2>1, <2>2, SupElsewhere
<1>8. CASE Recover("replace", sup.redial) /\ UNCHANGED <<last, out>>
  <2>1. RecoveryOK' /\ paused' = TRUE
    BY <1>1, <1>2, <1>4, <1>8, RecoverKeeps DEF Rounds
  <2>2. FlagsOK'
    BY <1>1, <2>1 DEF FlagsOK
  <2> QED
    BY <1>1, <1>8, <2>1, <2>2, SupElsewhere
<1> QED
  BY <1>6, <1>7, <1>8 DEF Resume, Goto

\* A request is for what comes after the last event delivered.
LEMMA AskKeeps == ASSUME StreamInv, Ask PROVE StreamInv'
<1> USE DEF StreamInv
<1>1. /\ UNCHANGED session /\ UNCHANGED <<seq, open, subs, noted, up, pipe, stale, ctl, drops>>
      /\ UNCHANGED <<last, out, paused, gap, resub, done, snap, seen, heard>>
      /\ want' = last /\ sup' = [sup EXCEPT !.step = "attaching"]
  BY DEF Ask, Goto, session, links, wire, stream, consumer
<1>2. RecoveryOK'
  <2>1. seq \in Nat /\ last \in Nat /\ last <= seq
    BY DEF SessionOK, StreamOK, Gapless
  <2>2. want' \in 0..seq /\ snap' \in 0..seq /\ gap' \in Nat \cup {None}
    BY <1>1, <2>1 DEF RecoveryOK
  <2> QED
    BY <1>1, <2>2, SupSteps, SupGoes DEF Steps
<1>3. FlagsOK'
  BY <1>1 DEF FlagsOK
<1> QED
  BY <1>1, <1>2, <1>3, SupElsewhere

\* The new subscription holds the replay and has room for what is still to come.
LEMMA ReplayOK ==
  ASSUME SessionOK, want \in 0..seq
  PROVE  SubOK([reg |-> TRUE, live |-> TRUE, q |-> Replay(want),
                cap |-> (seq - want) + SubBuf + 1, left |-> 0], Sent)
<1>1. seq \in Nat /\ want \in Nat /\ seq - want \in Nat /\ SubBuf \in Nat
  BY SizeAssumption DEF SessionOK
<1>2. \A i \in 1..(seq - want) : Item(want + i, "event") \in Sent
  BY <1>1 DEF Item, Sent
<1>3. Replay(want) \in Seq(Sent) /\ Len(Replay(want)) = seq - want
  BY <1>1, <1>2 DEF Replay
<1>4. (seq - want) + SubBuf + 1 \in Nat /\ seq - want < (seq - want) + SubBuf + 1
  BY <1>1
<1> QED
  BY <1>3, <1>4 DEF SubOK

LEMMA AttachKeeps == ASSUME StreamInv, Attach PROVE StreamInv'
<1> USE DEF StreamInv
<1>1. /\ UNCHANGED session /\ UNCHANGED <<seq, kind, low, open, up, pipe, stale, ctl, drops>>
      /\ UNCHANGED <<last, out, paused, gap, resub, done, snap, seen, heard>> /\ want' = 0
  BY DEF Attach, session, wire, stream, consumer
<1>2. /\ seq \in Nat /\ want \in 0..seq /\ snap \in 0..seq /\ gap \in Nat \cup {None}
  BY DEF SessionOK, RecoveryOK
<1>3. noted' \in BOOLEAN /\ \E step \in {"refused", "attached"} : sup' = [sup EXCEPT !.step = step]
  BY DEF Attach, Goto
<1>4. FlagsOK'
  BY <1>1, <1>3 DEF FlagsOK
<1>5. RecoveryOK'
  <2>1. sup' \in [step : Steps \ {"drain", "snapshot", "snapped"}, round : Rounds, redial : BOOLEAN]
    BY <1>3, SupSteps DEF Steps
  <2>2. want' \in 0..seq /\ snap' \in 0..seq /\ gap' \in Nat \cup {None}
    BY <1>1, <1>2
  <2> QED
    BY <1>1, <2>1, <2>2, SupGoes
<1>6. LinksOK'
  <2> DEFINE s == [reg |-> TRUE, live |-> TRUE, q |-> Replay(want),
                   cap |-> (seq - want) + SubBuf + 1, left |-> 0]
  <2>1. SubOK(s, Sent)
    BY <1>2, ReplayOK
  <2> HIDE DEF s
  <2>2. CASE subs' = CancelSubs
    BY <1>1, <2>2, CancelledLinks
  <2>3. ASSUME NEW a \in Slots, subs' = [CancelSubs EXCEPT ![a] = s]
        PROVE  LinksOK'
    <3>1. subs' = [b \in Slots |-> IF b = a THEN s ELSE Cancelled(subs[b])]
      BY <2>3 DEF CancelSubs
    <3>2. \A b \in Slots : SubOK(IF b = a THEN s ELSE Cancelled(subs[b]), Sent)
      BY <2>1, CancelledOK DEF LinksOK
    <3> QED
      BY <1>1, <3>1, <3>2, SameSent DEF LinksOK
  <2> QED
    BY <2>2, <2>3 DEF Attach, s
<1>7. SessionOK' /\ seq <= seq'
  BY <1>1, <1>2 DEF SessionOK
<1>8. WireOK'
  BY <1>1, SameSent DEF WireOK
<1>9. StreamOK'
  BY <1>1, <1>7, StreamKept
<1> QED
  BY <1>4, <1>5, <1>6, <1>7, <1>8, <1>9

LEMMA SupEndsKeeps ==
  ASSUME StreamInv, Attached \/ Refused \/ Stops \/ CancelStream
  PROVE  StreamInv'
<1> USE DEF StreamInv
<1>1. /\ UNCHANGED session /\ UNCHANGED <<seq, open, subs, noted, up, pipe, stale, ctl, drops>>
      /\ UNCHANGED <<last, out, resub, want, seen, heard>>
  BY DEF Attached, Refused, Stops, CancelStream, session, links, wire, stream, consumer
<1>2. /\ seq \in Nat /\ gap \in Nat \cup {None} /\ sup.redial \in BOOLEAN
      /\ want' \in 0..seq /\ snap \in 0..seq
  BY <1>1 DEF SessionOK, RecoveryOK
<1>3. CASE Refused /\ Recover("replace", sup.redial) /\ UNCHANGED <<done, snap>>
  <2>1. RecoveryOK' /\ paused' = TRUE
    BY <1>1, <1>2, <1>3, RecoverKeeps DEF Rounds
  <2>2. FlagsOK'
    BY <1>1, <1>3, <2>1 DEF FlagsOK
  <2> QED
    BY <1>1, <1>3, <2>1, <2>2, SupElsewhere
<1>4. CASE /\ sup' = At("idle", "resume", FALSE) \/ sup' = [sup EXCEPT !.step = "ended"]
           /\ UNCHANGED paused /\ gap' \in {gap, None} /\ snap' \in {snap, 0}
           /\ UNCHANGED done \/ done' = TRUE
  <2>1. sup' \in [step : Steps \ {"drain", "snapshot", "snapped"}, round : Rounds, redial : BOOLEAN]
    <3>1. CASE sup' = At("idle", "resume", FALSE)
      BY <3>1 DEF At, Steps, Rounds
    <3>2. CASE sup' = [sup EXCEPT !.step = "ended"]
      BY <3>2, SupSteps DEF Steps
    <3> QED
      BY <1>4, <3>1, <3>2
  <2>2. snap' \in 0..seq /\ gap' \in Nat \cup {None}
    BY <1>2, <1>4
  <2>3. RecoveryOK'
    BY <1>1, <1>2, <2>1, <2>2, SupGoes
  <2>4. done' \in BOOLEAN /\ (done => done') /\ paused' \in BOOLEAN
    <3>1. CASE UNCHANGED done
      BY <1>4, <3>1 DEF FlagsOK
    <3>2. CASE done' = TRUE
      BY <1>4, <3>2 DEF FlagsOK
    <3> QED
      BY <1>4, <3>1, <3>2
  <2>5. FlagsOK'
    BY <1>1, <2>4 DEF FlagsOK
  <2> QED
    BY <1>1, <2>3, <2>4, <2>5, SupElsewhere
<1>5. CASE Attached
  BY <1>4, <1>5 DEF Attached, stream
<1>6. CASE Refused
  <2>1. CASE sup.round = "first"
    BY <1>4, <1>6, <2>1 DEF Refused, Goto
  <2>2. CASE sup.round # "first"
    BY <1>3, <1>6, <2>2 DEF Refused
  <2> QED
    BY <2>1, <2>2
<1>7. CASE Stops
  BY <1>4, <1>7 DEF Stops, Goto, stream
<1>8. CASE CancelStream
  BY <1>4, <1>8 DEF CancelStream, Goto
<1> QED
  BY <1>5, <1>6, <1>7, <1>8

LEMMA StutterKeeps == ASSUME StreamInv, UNCHANGED vars PROVE StreamInv'
<1> USE DEF StreamInv
<1>1. /\ UNCHANGED session /\ UNCHANGED <<seq, open, subs, noted, up, pipe, stale, ctl, drops>>
      /\ UNCHANGED <<last, out, paused, gap, resub, done, seen, heard, sup, want, snap>>
  BY DEF vars, session, links, wire, stream, recovery, consumer
<1>2. FlagsOK'
  BY <1>1 DEF FlagsOK
<1>3. RecoveryOK'
  BY <1>1 DEF RecoveryOK
<1> QED
  BY <1>1, <1>2, <1>3, SupElsewhere

LEMMA NextKeeps == StreamInv /\ [Next]_vars => StreamInv'
<1> SUFFICES ASSUME StreamInv, [Next]_vars PROVE StreamInv'
  OBVIOUS
<1>1. CASE Daemon
  BY <1>1, PublishKeeps, ForwarderKeeps, SessionCloseKeeps, LinkLostKeeps DEF Daemon, Kinds
<1>2. CASE ReadLoop
  BY <1>2, ReceiveKeeps, ReceiveControlKeeps, GapFiresKeeps DEF ReadLoop
<1>3. CASE Supervise
  BY <1>3, ResubscribeKeeps, DrainedKeeps, RefuseKeeps, TakeSnapshotKeeps, ResumeKeeps, AskKeeps,
     AttachKeeps, SupEndsKeeps, DisconnectedKeeps DEF Supervise
<1>4. CASE CancelStream
  BY <1>4, SupEndsKeeps
<1>5. CASE Consume
  BY <1>5, ConsumeKeeps
<1>6. CASE UNCHANGED vars
  BY <1>6, StutterKeeps
<1> QED
  BY <1>1, <1>2, <1>3, <1>4, <1>5, <1>6 DEF Next

----------------------------------------------------------------------------
(* The theorems.                                                           *)

\* In every reachable state the invariant holds, and with it the types and bounds of all
\* variables: what is queued anywhere was published, and what the supervisor relies on
\* while it recovers a stream is still so.
THEOREM StreamInvariant == Spec => [](TypeOK /\ StreamInv)
<1>1. Spec => []StreamInv
  BY InitInv, NextKeeps, PTL DEF Spec
<1> QED
  BY <1>1, InvSafe, PTL

\* Publishing an event and delivering one never block (Controller.publish and
\* subscription.deliver): whatever the sizes of the buffers, there is room.
THEOREM NeverBlocksSafe == Spec => []NeverBlocks
<1>1. TypeOK /\ StreamInv => NeverBlocks
  BY InvSafe
<1> QED
  BY <1>1, StreamInvariant, PTL

\* The client never delivers an event out of its place, over a gap or after the end,
\* through any number of lost connections, detaches, gaps and resubscriptions.
THEOREM GaplessSafe == Spec => []Gapless
<1>1. TypeOK /\ StreamInv => Gapless
  BY InvSafe
<1> QED
  BY <1>1, StreamInvariant, PTL

----------------------------------------------------------------------------
(* The refinement: every step is one of a reader of the session, or none.  *)

LEMMA ReaderStarts == Init => Reader!Init
  BY DEF Init, Reader!Init

LEMMA ReaderSteps == StreamInv /\ [Next]_vars => [Reader!Next]_(Reader!vars)
<1> SUFFICES ASSUME StreamInv, [Next]_vars PROVE Reader!Next \/ UNCHANGED Reader!vars
  OBVIOUS
<1> USE DEF StreamInv
<1>1. CASE Consume
  <2>1. /\ out # <<>> /\ seen' = Head(out).seq /\ heard' = Head(out).tag /\ UNCHANGED seq
    BY <1>1 DEF Consume, session
  <2>2. heard # "end"
    BY <2>1 DEF StreamOK
  <2>3. /\ Head(out) = out[1] /\ seen \in Nat /\ out[1].seq \in Nat
        /\ out[1].seq <= last /\ last <= seq /\ last \in Nat /\ seq \in Nat
        /\ \/ out[1].tag = "event" /\ out[1].seq = seen + 1
           \/ out[1].tag = "replaced" /\ out[1].seq >= seen
           \/ out[1].tag = "end" /\ out[1].seq = seen
    BY <2>1, HeadOfStream DEF StreamOK, SessionOK
  <2>4. CASE out[1].tag = "event" /\ out[1].seq = seen + 1
    <3>1. seen < seq
      BY <2>3, <2>4
    <3> QED
      BY <2>1, <2>2, <2>3, <2>4, <3>1 DEF Reader!Next, Reader!ReadNext
  <2>5. CASE out[1].tag = "replaced" /\ out[1].seq >= seen
    <3>1. seen' \in seen..seq
      BY <2>1, <2>3, <2>5
    <3> QED
      BY <2>1, <2>2, <2>3, <2>5, <3>1 DEF Reader!Next, Reader!Refetch
  <2>6. CASE out[1].tag = "end" /\ out[1].seq = seen
    BY <2>1, <2>2, <2>3, <2>6 DEF Reader!Next, Reader!End
  <2> QED
    BY <2>3, <2>4, <2>5, <2>6
<1>2. ASSUME NEW k, Publish(k) PROVE Reader!Next
  BY <1>2 DEF Publish, consumer, Reader!Next, Reader!Publish
<1>3. CASE ~ Consume /\ ~ \E k \in Kinds : Publish(k)
  <2>1. UNCHANGED <<seq, seen, heard>>
    <3>1. CASE Daemon
      BY <1>3, <3>1 DEF Daemon, Kinds, Skip, Forward, ForwarderEnds, SessionCloses, Taken, LinkDrops,
                   WriteFails, LinkDown, session, consumer
    <3>2. CASE ReadLoop
      BY <3>2 DEF ReadLoop, Receive, ReceiveStale, ReceiveControl, GapFires, session, consumer
    <3>3. CASE Supervise
      BY <3>3 DEF Supervise, Resubscribe, Dial, Drained, Refuse, TakeSnapshot, Resume, Ask, Attach,
                  Attached, Refused, Stops, Disconnected, session, consumer
    <3>4. CASE CancelStream \/ UNCHANGED vars
      BY <3>4 DEF CancelStream, vars, session, consumer
    <3> QED
      BY <1>3, <3>1, <3>2, <3>3, <3>4 DEF Next
  <2> QED
    BY <2>1 DEF Reader!vars
<1> QED
  BY <1>1, <1>2, <1>3

\* A subscription keeps what SessionReader promises: its consumer reads the session's
\* events in order, none skipped unless it is told to refetch, and none after the end.
THEOREM ReadsInOrderProved == Spec => ReadsInOrder
<1>1. Spec => []StreamInv
  BY InitInv, NextKeeps, PTL DEF Spec
<1> QED
  BY <1>1, ReaderStarts, ReaderSteps, PTL DEF Spec, ReadsInOrder, Reader!Spec
=============================================================================
