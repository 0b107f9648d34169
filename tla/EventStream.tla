---------------------------- MODULE EventStream ----------------------------
(***************************************************************************)
(* One session's events on their way to one remote subscriber.             *)
(*                                                                         *)
(* The session's actor numbers an event, keeps it in a bounded ring and    *)
(* offers it to every subscription (session/controller.go).  A forwarder   *)
(* of the daemon moves each subscription's events to the queue of its      *)
(* connection (daemon/server.go).  The client delivers them to a bounded   *)
(* local channel, and its supervisor recovers from gaps, slow-consumer     *)
(* drops and lost connections by attaching again (daemonclient/port.go).   *)
(*                                                                         *)
(* The outbox of a connection and the wire behind it are one FIFO queue.   *)
(* Session IDs are random, so a sequence never restarts under one ID.      *)
(***************************************************************************)
EXTENDS Integers, Sequences, FiniteSets

CONSTANTS
  RingSize,  \* EventRingSize
  SubBuf,    \* subscriberBuffer of the session
  PipeCap,   \* frames a connection holds before its forwarders block
  Buf,       \* SubscriberBuffer of the client
  Slots,     \* forwarders of this subscriber alive at once (bound)
  MaxStale,  \* frames a forwarder may still send after it was cancelled: its select picks
             \* at random, and more than SubBuf such picks in a row are taken as impossible
  MaxSeq,    \* events published (bound)
  MaxOdd,    \* events that cannot be encoded or exceed a frame (bound)
  MaxDrops   \* connections lost for no reason of their own (bound)

ASSUME SizeAssumption  == {RingSize, SubBuf, PipeCap, Buf} \subseteq Nat \ {0}
ASSUME StaleAssumption == MaxStale \in 0..SubBuf
ASSUME BoundAssumption == {MaxSeq, MaxOdd, MaxDrops} \subseteq Nat

VARIABLES
  seq,     \* Controller.seq
  kind,    \* what each event is: "plain", "lost" (not encodable) or "huge" (over MaxFrame)
  low,     \* the ring holds the events low..seq
  open,    \* the session is registered
  subs,    \* this subscriber's subscriptions, with the forwarder of each
  noted,   \* client.subs has an entry: a closed notification will be sent
  up,      \* the connection in use is alive
  pipe,    \* frames on it
  stale,   \* frames the read loop of a dead connection still holds
  ctl,     \* a terminal control notification is queued ahead of the frames
  drops,
  last,    \* subscription.last
  out,     \* subscription.out
  paused,  \* subscription.paused
  gap,     \* the armed gap timer: the last it was armed at, or None
  resub,   \* a token is in subscription.resub
  done,    \* subscription.done
  sup,     \* supervise: its step, the round of reattach, and whether it redials
  want,    \* AfterSeq of the attach request under way
  snap,    \* Seq of the snapshot under way
  seen,    \* the sequence the consumer has read up to
  heard    \* what it read last

session  == <<seq, kind, low, open>>
links    == <<subs, noted>>
wire     == <<up, pipe, stale, ctl, drops>>
stream   == <<last, out, paused, gap, resub, done>>
recovery == <<sup, want, snap>>
consumer == <<seen, heard>>
vars     == <<session, links, wire, stream, recovery, consumer>>

----------------------------------------------------------------------------
None  == -1
NoSub == [reg |-> FALSE, live |-> FALSE, q |-> <<>>, cap |-> 0, left |-> 0]

\* A frame or an event in a channel: its sequence, and what it is: an "event", the "slow"
\* consumer detach, the synthetic "replaced" (EvMessagesReplaced) or the "end".
Item(n, t) == [seq |-> n, tag |-> t]

\* eventRing.replay: the retained events after n, and when they do not reach back to n.
Replay(n) == [i \in 1..(seq - n) |-> Item(n + i, "event")]
TooOld(n) == n < seq /\ (low > seq \/ n < low - 1)

At(step, round, redial) == [step |-> step, round |-> round, redial |-> redial]
Goto(step) == sup' = [sup EXCEPT !.step = step]

Init ==
  /\ seq = 0 /\ kind = <<>> /\ low = 1 /\ open = TRUE
  /\ subs = [a \in Slots |-> NoSub] /\ noted = FALSE
  /\ up = TRUE /\ pipe = <<>> /\ stale = <<>> /\ ctl = FALSE /\ drops = 0
  /\ last = 0 /\ out = <<>> /\ paused = FALSE /\ gap = None /\ resub = FALSE /\ done = FALSE
  /\ sup = At("asking", "first", FALSE) /\ want = 0 /\ snap = 0
  /\ seen = 0 /\ heard = "event"

----------------------------------------------------------------------------
(***************************************************************************)
(* The session and its daemon.                                             *)
(***************************************************************************)

\* publish drops a subscription when only the slot of the terminal event is free.
Full(s) == Len(s.q) >= s.cap - 1

Offer(s, n) ==
  IF ~ s.reg THEN s
  ELSE IF Full(s) THEN [s EXCEPT !.q = Append(@, Item(n, "slow")), !.reg = FALSE]
  ELSE [s EXCEPT !.q = Append(@, Item(n, "event"))]

\* A mutant: the ring keeps one event too many.
KeptAndOne(k) == IF k = "plain" THEN {l \in low..(seq + 2) : seq + 1 - l <= RingSize} ELSE {seq + 2}

\* Where the ring may begin after an append: it is cut to its count limit and its byte
\* limit; an event that cannot be encoded or is larger than the byte limit empties it.
Kept(k) == IF k = "plain" THEN {l \in low..(seq + 2) : seq + 1 - l < RingSize} ELSE {seq + 2}

\* publish: number the event, keep it, offer it to every subscription.
Publish(k) ==
  /\ open /\ seq < MaxSeq
  /\ k # "plain" => Cardinality({n \in 1..seq : kind[n] # "plain"}) < MaxOdd
  /\ seq' = seq + 1 /\ kind' = Append(kind, k)
  /\ low' \in Kept(k)
  /\ subs' = [a \in Slots |-> Offer(subs[a], seq + 1)]
  /\ UNCHANGED <<open, noted, wire, stream, recovery, consumer>>

Sendable(a) == subs[a].q # <<>> /\ (subs[a].live \/ subs[a].left > 0)

\* A forwarder skips what it cannot encode.
Skip(a) ==
  /\ Sendable(a)
  /\ LET e == Head(subs[a].q) IN e.tag = "event" /\ kind[e.seq] = "lost"
  /\ subs' = [subs EXCEPT ![a].q = Tail(@)]
  /\ UNCHANGED <<session, noted, wire, stream, recovery, consumer>>

Forward(a) ==
  /\ Sendable(a) /\ Len(pipe) < PipeCap
  /\ LET e == Head(subs[a].q) IN
       /\ e.tag = "event" => kind[e.seq] # "lost"
       /\ pipe' = Append(pipe, e)
  /\ subs' = [subs EXCEPT ![a].q = Tail(@), ![a].left = IF subs[a].live THEN @ ELSE @ - 1]
  /\ UNCHANGED <<session, noted, up, stale, ctl, drops, stream, recovery, consumer>>

\* A cancelled forwarder ends and its subscription leaves the session.
ForwarderEnds(a) ==
  /\ subs[a] # NoSub /\ ~ subs[a].live
  /\ subs' = [subs EXCEPT ![a] = NoSub]
  /\ UNCHANGED <<session, noted, wire, stream, recovery, consumer>>

\* cancelSub: the contexts of this client's subscriptions end.
Cancelled(s) == IF s.live THEN [s EXCEPT !.live = FALSE, !.left = MaxStale] ELSE s
CancelSubs   == [a \in Slots |-> Cancelled(subs[a])]

\* A mutant: only a subscription that the session still serves is told.
ToldIfServed == \E a \in Slots : subs[a].reg

\* notifyClosed tells every client that has a subscription entry.
Told == noted

\* The session leaves the registry (close, kill, clear, GC or its own exit).
SessionCloses ==
  /\ open
  /\ open' = FALSE
  /\ subs' = [a \in Slots |-> [Cancelled(subs[a]) EXCEPT !.reg = FALSE]]
  /\ noted' = FALSE
  /\ ctl' = (ctl \/ Told)
  /\ UNCHANGED <<seq, kind, low, up, pipe, stale, drops, stream, recovery, consumer>>

\* Another client takes control: this one's subscription is cancelled and it is told.
Taken ==
  /\ open /\ up /\ noted /\ ~ ctl
  /\ subs' = CancelSubs /\ noted' = FALSE /\ ctl' = TRUE
  /\ UNCHANGED <<session, up, pipe, stale, drops, stream, recovery, consumer>>

\* The connection is lost: its client and subscriptions end, and of the frames under way
\* the client's read loop gets a prefix.
LinkDown(n) ==
  /\ up' = FALSE
  /\ stale' = SubSeq(pipe, 1, n) /\ pipe' = <<>>
  /\ ctl' = FALSE /\ noted' = FALSE
  /\ subs' = [a \in Slots |-> NoSub]
  /\ UNCHANGED <<session, stream, recovery, consumer>>

LinkDrops ==
  /\ up /\ drops < MaxDrops
  /\ drops' = drops + 1
  /\ \E n \in 0..Len(pipe) : LinkDown(n)

Huge(e) == e.tag = "event" /\ kind[e.seq] = "huge"

\* The writer cannot send a frame over the limit and closes the connection.
WriteFails ==
  /\ up /\ pipe # <<>> /\ Huge(Head(pipe))
  /\ LinkDown(0)
  /\ UNCHANGED drops

----------------------------------------------------------------------------
(***************************************************************************)
(* The client's read loop: deliver.                                        *)
(***************************************************************************)

\* A mutant: one event more is accepted, and the end finds no room.
RoomToCap == Len(out) <= Buf

\* out has Buf + 1 slots; the last one is the end's.
Room == Len(out) < Buf

\* A mutant: any later event is taken for the next one.
NextIfLater(e) == e.seq > last

NextInLine(e) == e.seq = last + 1

Ignored(e) == done \/ paused \/ e.seq <= last

\* A mutant: the missing event is waited for without a timer.
ArmedNever == gap

\* A gap: wait for the missing event, but not for ever.
Armed == IF gap = None THEN last ELSE gap

Deliver(e) ==
  IF Ignored(e) THEN UNCHANGED stream
  ELSE IF e.tag # "slow" /\ ~ NextInLine(e)
  THEN gap' = Armed /\ UNCHANGED <<last, out, paused, resub, done>>
  ELSE /\ gap' = None
       /\ IF e.tag = "slow" \/ ~ Room
          THEN paused' = TRUE /\ resub' = TRUE /\ UNCHANGED <<last, out, done>>
          ELSE last' = e.seq /\ out' = Append(out, e) /\ UNCHANGED <<paused, resub, done>>

Receive ==
  /\ up /\ pipe # <<>> /\ ~ Huge(Head(pipe))
  /\ Deliver(Head(pipe))
  /\ pipe' = Tail(pipe)
  /\ UNCHANGED <<session, links, up, stale, ctl, drops, recovery, consumer>>

ReceiveStale ==
  /\ stale # <<>> /\ ~ Huge(Head(stale))
  /\ Deliver(Head(stale))
  /\ stale' = Tail(stale)
  /\ UNCHANGED <<session, links, up, pipe, ctl, drops, recovery, consumer>>

\* gapFired: the missing event did not come.
GapFires ==
  /\ gap # None
  /\ gap' = None
  /\ IF done \/ last # gap THEN UNCHANGED <<paused, resub>> ELSE paused' = TRUE /\ resub' = TRUE
  /\ UNCHANGED <<session, links, wire, last, out, done, recovery, consumer>>

\* finish, with a final event unless the stream is over already.
Finish ==
  IF done THEN UNCHANGED stream
  ELSE /\ done' = TRUE /\ gap' = None /\ out' = Append(out, Item(last, "end"))
       /\ UNCHANGED <<last, paused, resub>>

\* A closed or detached_by_other notification.
ReceiveControl ==
  /\ up /\ ctl
  /\ ctl' = FALSE
  /\ Finish
  /\ UNCHANGED <<session, links, up, pipe, stale, drops, recovery, consumer>>

----------------------------------------------------------------------------
(***************************************************************************)
(* supervise, reattach and attach.  The rounds of an attach: "first"       *)
(* (Subscribe), "resume" after the last delivered event, "replace" after a *)
(* fresh snapshot.                                                         *)
(***************************************************************************)

\* reattach, up to waitDrained.
Recover(round, redial) ==
  /\ sup' = At("drain", round, redial)
  /\ paused' = TRUE /\ gap' = None

\* The daemon dropped this subscriber, or the local buffer or a gap asks for recovery.
Resubscribe ==
  /\ sup.step = "idle" /\ ~ done /\ resub
  /\ resub' = FALSE
  /\ Recover("resume", FALSE)
  /\ UNCHANGED <<session, links, wire, last, out, done, want, snap, consumer>>

\* A transport error: the first attach fails, otherwise redial.  A token that the old
\* connection left is drained once, before the new attach.
Disconnected(step) ==
  /\ sup.step = step /\ ~ up
  /\ IF sup.round = "first" /\ step # "idle"
     THEN Goto("ended") /\ done' = TRUE /\ UNCHANGED resub
     ELSE sup' = At("dial", "resume", TRUE) /\ resub' = (resub /\ sup.redial) /\ UNCHANGED done
  /\ want' = 0 /\ snap' = 0
  /\ UNCHANGED <<session, links, wire, last, out, paused, gap, consumer>>

Dial ==
  /\ sup.step = "dial" /\ ~ done
  /\ up' = TRUE
  /\ Recover("resume", TRUE)
  /\ UNCHANGED <<session, links, pipe, stale, ctl, drops, last, out, resub, done, want, snap, consumer>>

Drained ==
  /\ sup.step = "drain" /\ ~ done /\ Len(out) <= Buf \div 2
  /\ Goto("snapshot")
  /\ UNCHANGED <<session, links, wire, stream, want, snap, consumer>>

\* A refused request ends the stream.
Refuse ==
  /\ sup.step \in {"snapshot", "attaching"} /\ up /\ ~ open
  /\ Goto("ended")
  /\ IF sup.round = "first" THEN done' = TRUE /\ UNCHANGED <<last, out, paused, gap, resub>>
                            ELSE Finish
  /\ want' = 0
  /\ UNCHANGED <<session, links, wire, snap, consumer>>

TakeSnapshot ==
  /\ sup.step = "snapshot" /\ up /\ open
  /\ snap' = seq
  /\ Goto("snapped")
  /\ UNCHANGED <<session, links, wire, stream, want, consumer>>

\* A mutant: the consumer is not told that messages were replaced.
NoticeDropped == out

\* The notice that everything up to the snapshot is to be refetched.
Notice == Append(out, Item(snap, "replaced"))

\* The snapshot's answer: attach after the last event, or after the snapshot.
Resume ==
  /\ sup.step = "snapped" /\ ~ done
  /\ IF sup.round = "replace"
     THEN last' = snap /\ out' = Notice /\ paused' = FALSE /\ Goto("asking") /\ UNCHANGED gap
     ELSE IF snap >= last
     THEN paused' = FALSE /\ Goto("asking") /\ UNCHANGED <<last, out, gap>>
     ELSE Recover("replace", sup.redial) /\ UNCHANGED <<last, out>>
  /\ snap' = 0
  /\ UNCHANGED <<session, links, wire, resub, done, want, consumer>>

Ask ==
  /\ sup.step = "asking"
  /\ want' = last
  /\ Goto("attaching")
  /\ UNCHANGED <<session, links, wire, stream, snap, consumer>>

\* Daemon.attach: the old subscription is cancelled first, then the new one is made.
Attach ==
  /\ sup.step = "attaching" /\ up /\ open
  /\ IF TooOld(want)
     THEN subs' = CancelSubs /\ noted' = FALSE /\ Goto("refused")
     ELSE \E a \in Slots :
            /\ subs[a] = NoSub
            /\ subs' = [CancelSubs EXCEPT ![a] =
                          [reg |-> TRUE, live |-> TRUE, q |-> Replay(want),
                           cap |-> (seq - want) + SubBuf + 1, left |-> 0]]
            /\ noted' = TRUE /\ Goto("attached")
  /\ want' = 0
  /\ UNCHANGED <<session, wire, stream, snap, consumer>>

Attached ==
  /\ sup.step = "attached"
  /\ sup' = At("idle", "resume", FALSE)
  /\ UNCHANGED <<session, links, wire, stream, want, snap, consumer>>

\* ErrSeqTooOld: Subscribe returns it, reattach turns to a fresh snapshot.
Refused ==
  /\ sup.step = "refused"
  /\ IF sup.round = "first"
     THEN Goto("ended") /\ done' = TRUE /\ UNCHANGED <<paused, gap>>
     ELSE Recover("replace", sup.redial) /\ UNCHANGED done
  /\ UNCHANGED <<session, links, wire, last, out, resub, want, snap, consumer>>

\* The stream is over: supervise returns.
Stops ==
  /\ done /\ sup.step \in {"idle", "drain", "dial", "snapped"}
  /\ Goto("ended")
  /\ snap' = 0
  /\ UNCHANGED <<session, links, wire, stream, want, consumer>>

\* The consumer cancels its subscription.
CancelStream ==
  /\ sup.step \in {"idle", "drain", "dial"} /\ ~ done
  /\ done' = TRUE /\ gap' = None
  /\ Goto("ended")
  /\ UNCHANGED <<session, links, wire, last, out, paused, resub, want, snap, consumer>>

Consume ==
  /\ out # <<>>
  /\ out' = Tail(out)
  /\ seen' = Head(out).seq /\ heard' = Head(out).tag
  /\ UNCHANGED <<session, links, wire, last, paused, gap, resub, done, recovery>>

----------------------------------------------------------------------------
Daemon ==
  \/ \E k \in {"plain", "lost", "huge"} : Publish(k)
  \/ \E a \in Slots : Skip(a) \/ Forward(a) \/ ForwarderEnds(a)
  \/ SessionCloses \/ Taken \/ LinkDrops \/ WriteFails
ReadLoop == Receive \/ ReceiveStale \/ ReceiveControl \/ GapFires
Supervise ==
  \/ Resubscribe \/ Dial \/ Drained \/ Refuse \/ TakeSnapshot \/ Resume \/ Ask \/ Attach
  \/ Attached \/ Refused \/ Stops
  \/ \E step \in {"idle", "snapshot", "snapped", "attaching", "attached", "refused"} : Disconnected(step)

Next == Daemon \/ ReadLoop \/ Supervise \/ CancelStream \/ Consume

\* Nothing is on its way to the client: the gap timer is slow (400 ms) compared with an
\* attach request and the frames that can be sent and received.
Quiet ==
  /\ sup.step \notin {"asking", "attaching"}
  /\ pipe = <<>> /\ \A a \in Slots : ~ Sendable(a)

\* Goroutines are scheduled, timers fire, the daemon answers and the consumer reads.
\* Nothing makes the session publish or close, or a connection drop.
Fairness ==
  /\ \A a \in Slots : WF_vars(Skip(a)) /\ WF_vars(Forward(a)) /\ WF_vars(ForwarderEnds(a))
  /\ WF_vars(Receive) /\ WF_vars(ReceiveControl) /\ WF_vars(WriteFails)
  /\ WF_vars(GapFires /\ Quiet) /\ WF_vars(Supervise) /\ WF_vars(Consume)

Spec == Init /\ [][Next]_vars

\* The runs in which the gap timer does not fire before the frames it waits for.
TimelySpec == Init /\ [][Next /\ (GapFires => Quiet)]_vars /\ Fairness

----------------------------------------------------------------------------
Items == [seq: Nat, tag: {"event", "slow", "replaced", "end"}]

TypeOK ==
  /\ seq \in Nat /\ kind \in Seq({"plain", "lost", "huge"}) /\ Len(kind) = seq
  /\ low \in 1..(seq + 1) /\ seq + 1 - low <= RingSize /\ open \in BOOLEAN
  /\ subs \in [Slots -> [reg: BOOLEAN, live: BOOLEAN, q: Seq(Items), cap: Nat, left: Nat]]
  /\ noted \in BOOLEAN /\ up \in BOOLEAN /\ ctl \in BOOLEAN /\ drops \in Nat
  /\ pipe \in Seq(Items) /\ stale \in Seq(Items) /\ out \in Seq(Items)
  /\ last \in Nat /\ want \in Nat /\ snap \in Nat /\ seen \in Nat
  /\ gap \in Nat \cup {None}
  /\ {paused, resub, done} \subseteq BOOLEAN /\ heard \in {"event", "replaced", "end"}
  /\ sup \in [step: {"asking", "attaching", "attached", "refused", "idle", "dial", "drain",
                     "snapshot", "snapped", "ended"},
              round: {"first", "resume", "replace"}, redial: BOOLEAN]

\* The actor publishes and the read loop delivers without ever blocking: a subscription's
\* channel has room for every event it is offered and for the terminal one, the client's
\* channel for every event, notice and end.
NeverBlocks ==
  /\ \A a \in Slots : Len(subs[a].q) <= subs[a].cap
  /\ Len(out) <= Buf + 1

\* The consumer's stream, as it has read it and has still to read it: each event follows
\* the one before, a notice never points back, nothing follows the end, and the client
\* asks for what comes after it.
Gapless ==
  LET before(i) == IF i = 1 THEN seen ELSE out[i - 1].seq IN
  /\ \A i \in 1..Len(out) :
       \/ out[i].tag = "event" /\ out[i].seq = before(i) + 1
       \/ out[i].tag = "replaced" /\ out[i].seq >= before(i)
       \/ out[i].tag = "end" /\ out[i].seq = before(i) /\ i = Len(out) /\ done
  /\ last = before(Len(out) + 1) /\ last <= seq

\* The consumer of a subscription is a reader of the session.
Reader == INSTANCE SessionReader WITH published <- seq, read <- seen, heard <- heard
ReadsInOrder == Reader!Spec

\* An event that can be sent at all reaches the consumer's channel, by itself or covered
\* by a notice, whatever was dropped on its way, unless the stream ends.
EventArrives ==
  \A n \in 1..MaxSeq :
    (seq >= n /\ kind[n] # "lost") ~> (last >= n \/ done)

\* When the session is closed its subscribers learn it, also those the session had just
\* dropped or that were about to attach again.
EndsWhenClosed == ~ open ~> done
=============================================================================
