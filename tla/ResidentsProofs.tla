-------------------------- MODULE ResidentsProofs --------------------------
(***************************************************************************)
(* Proofs about Residents, for any children, limit of slots and number of  *)
(* turns, failed writes and restarts.                                      *)
(***************************************************************************)
EXTENDS Residents, SequenceFacts

----------------------------------------------------------------------------
(***************************************************************************)
(* Types.                                                                  *)
(***************************************************************************)

Seens == {"none", "accepted", "started", "finished", "interrupted"}
JournalStates == ResidentStates \union {"none", "empty", "merged", "disordered"}
Journals == [state : JournalStates, seen : [Turns -> Seens], torn : BOOLEAN]
Loops == [st : {"live", "leaving", "gone"}, state : ResidentStates, cancelled : BOOLEAN,
          interrupted : BOOLEAN, running : BOOLEAN, turnInterrupted : BOOLEAN, hit : BOOLEAN,
          active : Turns \union {NoTurn}, queue : Seq(Turns), dropped : Seq(Turns)]
Runs == [pc : {"idle", "begin", "enqueued", "waiting", "working", "leaving", "returned"},
         res : {"ok", "finished", "failed", "interrupted"}]
Ops == [k : {"none", "spawn", "resume", "interrupt", "stop", "reconcile"}, c : Children \union {NoChild},
        t : Turns \union {NoTurn},
        pc : {"none", "opened", "build", "publish", "abandon", "accept", "offer", "acked", "refused", "undo",
              "dropping", "wait", "listing"},
        taken : BOOLEAN]

Typed ==
    /\ jour \in [Children -> Journals] /\ quar \subseteq Children
    /\ closed \in BOOLEAN /\ closing \subseteq Children /\ reconciled \in BOOLEAN
    /\ listed \subseteq Children
    /\ kids \subseteq Children /\ recovered \in [Children -> ResidentStates \union {"none"}]
    /\ op \in Ops /\ loop \in [Children -> Loops] /\ run \in [Children -> Runs]
    /\ steers \in [Children -> 0..1]
    /\ tickets \in Seq(Children) /\ reserved \subseteq Children
    /\ told \subseteq Turns /\ refused \subseteq Turns /\ comp \in [Turns -> Nat]
    /\ next \in 1..(MaxTurns + 1) /\ faults \in Nat /\ restarts \in Nat

Records == {"child", "accepted", "started", "finished", "failed", "interrupted", "broken"}

\* What became of a journal with records of the turns of T: it is not out of
\* order, it stays unreadable when it was, and nothing else is known of others.
After(j, k, T) ==
    /\ k \in Journals /\ k.state # "disordered"
    /\ Readable(k) => Readable(j) /\ \A u \in Turns \ T : k.seen[u] = j.seen[u]
    /\ \A u \in Turns \ T : j.seen[u] = "none" => k.seen[u] = "none"

LEMMA AfterNothing ==
  ASSUME NEW j \in Journals, j.state # "disordered", NEW T
  PROVE  After(j, j, T)
  BY DEF After

LEMMA UnreadableEffect ==
  /\ Unreadable("merged") \in Journals /\ Unreadable("merged").state = "merged"
  /\ \A u \in Turns : Unreadable("merged").seen[u] = "none"
  /\ ~ Readable(Unreadable("merged"))
  BY DEF Unreadable, NoJournal, Journals, JournalStates, Seens, Readable

LEMMA TornEffect ==
  ASSUME NEW j \in Journals
  PROVE  /\ Torn(j) \in Journals /\ Torn(j).state = j.state /\ Torn(j).seen = j.seen
         /\ Readable(Torn(j)) <=> Readable(j)
<1>1. [j EXCEPT !.torn = TRUE] \in Journals /\ [j EXCEPT !.torn = TRUE].state = j.state
      /\ [j EXCEPT !.torn = TRUE].seen = j.seen
  BY DEF Journals
<1> QED
  BY <1>1 DEF Torn, Readable

\* A record that is legal is one more thing known of its turn, and never leaves a
\* journal out of order.
LEMMA PutEffect ==
  ASSUME NEW j \in Journals, j.state # "disordered", NEW t \in Turns, NEW type \in Records,
         Readable(j) => Legal(j, type, t)
  PROVE  /\ After(j, Put(j, type, t), {t})
         /\ Readable(Put(j, type, t)) =>
              Put(j, type, t).seen[t] = IF type = "broken" THEN j.seen[t] ELSE SeenAfter[type]
<1> DEFINE e == IF type \in DOMAIN SeenAfter THEN SeenAfter[type] ELSE j.seen[t]
           s == IF type \in DOMAIN StateAfter THEN StateAfter[type] ELSE j.state
           k == [j EXCEPT !.seen[t] = e, !.state = s]
<1>1. e \in Seens /\ e = IF type = "broken" THEN j.seen[t] ELSE SeenAfter[type]
  BY DEF Records, SeenAfter, Seens, Journals
<1>2. type \in DOMAIN StateAfter => StateAfter[type] \in ResidentStates
  BY DEF Records, StateAfter, ResidentStates
<1>3. s \in JournalStates /\ s # "disordered"
  BY <1>2 DEF Journals, JournalStates, ResidentStates
<1>a. ~ Readable(j) => Put(j, type, t) = j
  BY DEF Put
<1>b. Readable(j) => Put(j, type, t) = Unreadable("merged") \/ Put(j, type, t) = k
  BY DEF Put
<1> HIDE DEF s, e
<1>5. k \in Journals /\ k.seen = [j.seen EXCEPT ![t] = e] /\ k.state = s
  BY <1>1, <1>3 DEF Journals
<1> HIDE DEF k
<1>6. \A u \in Turns : k.seen[u] = IF u = t THEN e ELSE j.seen[u]
  BY <1>5 DEF Journals
<1>7. After(j, k, {t}) \/ ~ Readable(j)
  BY <1>3, <1>5, <1>6 DEF After
<1>8. After(j, Unreadable("merged"), {t})
  BY UnreadableEffect DEF After
<1> QED
  BY <1>1, <1>a, <1>b, <1>6, <1>7, <1>8, AfterNothing, UnreadableEffect

\* What a write leaves.
LEMMA WriteEffect ==
  ASSUME NEW j \in Journals, j.state # "disordered", NEW t \in Turns, NEW type \in Records,
         Readable(j) => Legal(j, type, t), NEW w \in Writes(j, type, t)
  PROVE  /\ After(j, w.j, {t}) /\ w.ok \in BOOLEAN
         /\ w.ok /\ Readable(w.j) /\ type # "broken" => w.j.seen[t] = SeenAfter[type]
         /\ ~ w.ok => faults < MaxFaults
<1> DEFINE p == Put(j, type, t)
<1>1. \/ w = [ok |-> TRUE, j |-> p]
      \/ faults < MaxFaults /\ \E i \in {j, Torn(j), p} : w = [ok |-> FALSE, j |-> i]
  BY DEF Writes
<1>2. After(j, p, {t}) /\ (Readable(p) /\ type # "broken" => p.seen[t] = SeenAfter[type])
  BY PutEffect
<1>3. After(j, Torn(j), {t})
  BY TornEffect DEF After
<1>4. After(j, j, {t})
  BY AfterNothing
<1> HIDE DEF p
<1>5. CASE w = [ok |-> TRUE, j |-> p]
  BY <1>2, <1>5
<1>6. CASE faults < MaxFaults /\ \E i \in {j, Torn(j), p} : w = [ok |-> FALSE, j |-> i]
  BY <1>2, <1>3, <1>4, <1>6
<1> QED
  BY <1>1, <1>5, <1>6

\* Interruptions of open turns.
LEMMA PutInterruptedEffect ==
  ASSUME NEW j \in Journals, j.state # "disordered", NEW turns \in SUBSET Turns,
         \A t \in turns : j.seen[t] \in {"accepted", "started"}
  PROVE  After(j, PutInterrupted(j, turns), turns)
<1> DEFINE seen == [t \in Turns |-> IF t \in turns THEN "interrupted" ELSE j.seen[t]]
           k == [j EXCEPT !.seen = seen, !.state = "interrupted"]
<1>1. \/ PutInterrupted(j, turns) = j \/ PutInterrupted(j, turns) = Unreadable("merged")
      \/ Readable(j) /\ PutInterrupted(j, turns) = k
  BY DEF PutInterrupted, Legal
<1>2. seen \in [Turns -> Seens]
  BY DEF Journals, Seens
<1> HIDE DEF seen
<1>3. k \in Journals /\ k.seen = seen /\ k.state = "interrupted"
  BY <1>2 DEF Journals, JournalStates, ResidentStates
<1> HIDE DEF k
<1>4. Readable(j) => After(j, k, turns)
  BY <1>3 DEF After, seen
<1>5. After(j, Unreadable("merged"), turns)
  BY UnreadableEffect DEF After
<1> QED
  BY <1>1, <1>4, <1>5, AfterNothing

LEMMA ReconciledEffect ==
  ASSUME NEW j \in Journals, j.state # "disordered", NEW w \in Reconciled(j)
  PROVE  /\ w.j \in Journals /\ w.j.state # "disordered" /\ w.ok \in BOOLEAN
         /\ ~ w.ok => faults < MaxFaults
         /\ \A u \in Turns : j.seen[u] = "none" => w.j.seen[u] = "none"
<1> DEFINE turns == IF NeedsInterruption(j) THEN OpenTurns(j) ELSE {}
<1>1. turns \in SUBSET Turns /\ \A t \in turns : j.seen[t] \in {"accepted", "started"}
  BY DEF OpenTurns
<1>a. \/ w = [ok |-> TRUE, j |-> PutInterrupted(j, turns)]
      \/ faults < MaxFaults /\ \E S \in SUBSET turns :
           w = [ok |-> FALSE, j |-> PutInterrupted(j, S)] \/ w = [ok |-> FALSE, j |-> Torn(PutInterrupted(j, S))]
  BY DEF Reconciled
<1>2. /\ w.ok \in BOOLEAN /\ (~ w.ok => faults < MaxFaults)
      /\ \E S \in SUBSET turns : w.j = PutInterrupted(j, S) \/ w.j = Torn(PutInterrupted(j, S))
  <2> HIDE DEF turns
  <2>1. turns \in SUBSET turns
    OBVIOUS
  <2>2. CASE w = [ok |-> TRUE, j |-> PutInterrupted(j, turns)]
    BY <2>1, <2>2
  <2>3. ASSUME faults < MaxFaults, NEW S \in SUBSET turns,
               w = [ok |-> FALSE, j |-> PutInterrupted(j, S)] \/ w = [ok |-> FALSE, j |-> Torn(PutInterrupted(j, S))]
        PROVE  w.ok = FALSE /\ (w.j = PutInterrupted(j, S) \/ w.j = Torn(PutInterrupted(j, S)))
    BY <2>3
  <2> QED
    BY <1>a, <2>2, <2>3
<1> HIDE DEF turns
<1>3. PICK S \in SUBSET turns : w.j = PutInterrupted(j, S) \/ w.j = Torn(PutInterrupted(j, S))
  BY <1>2
<1> DEFINE k == PutInterrupted(j, S)
<1>4. After(j, k, S)
  <2>1. S \in SUBSET Turns /\ \A t \in S : j.seen[t] \in {"accepted", "started"}
    BY <1>1
  <2> QED
    BY <2>1, PutInterruptedEffect
<1> HIDE DEF k
<1>5. k \in Journals /\ k.state # "disordered" /\ \A u \in Turns : j.seen[u] = "none" => k.seen[u] = "none"
  BY <1>1, <1>4 DEF After
<1>6. Torn(k) \in Journals /\ Torn(k).state = k.state /\ Torn(k).seen = k.seen
  BY <1>5, TornEffect
<1> QED
  BY <1>2, <1>3, <1>5, <1>6 DEF k

----------------------------------------------------------------------------
(***************************************************************************)
(* The invariant.  TurnsHeld speaks of a turn in general; the invariant    *)
(* says in addition what the operation under way has told and still owes   *)
(* (OpHolds), where a child is that no operation or manager knows          *)
(* (LoopsOfKids), what the parts of a control loop say of each other       *)
(* (LoopHolds), and that a journal that can be read knows each turn that   *)
(* is held by the record that precedes the next (JournalsSound).           *)
(***************************************************************************)

Distinct(s) == \A i, j \in DOMAIN s : s[i] = s[j] => i = j

LoopHolds(c) ==
    LET l == loop[c] IN
    /\ l.st # "live" => l.dropped = <<>> /\ ~l.running /\ ~l.hit
    /\ l.st = "gone" => l.queue = <<>>
    /\ l.st = "leaving" /\ l.interrupted => l.queue = <<>>
    /\ ~l.interrupted => l.dropped = <<>> /\ ~l.hit
    /\ l.running /\ l.interrupted => l.hit
    /\ l.running \/ l.hit => l.active \in Turns /\ l.active \notin ElementsOf(l.queue)
    /\ l.running <=> run[c].pc # "idle"
    /\ run[c].pc \in {"leaving", "returned"} => run[c].res # "ok"
    /\ Distinct(l.queue)
    /\ steers[c] > 0 => l.running \/ l.hit

\* The operation has had its turn accepted.
Accepting == \/ op.k = "spawn" /\ op.pc # "opened"
             \/ op.pc \in {"offer", "acked", "refused"}

OpFits ==
    /\ op.k = "none" <=> op.pc = "none"
    /\ op.pc \notin {"none", "listing"} => op.c \in Children
    /\ op.pc \in {"none", "listing"} => op.c = NoChild
    /\ op.pc \in {"opened", "build", "undo"} => op.k = "spawn"
    /\ op.pc = "accept" => op.k = "resume"
    /\ op.pc = "dropping" <=> op.k = "interrupt"
    /\ op.pc = "wait" <=> op.k = "stop"
    /\ op.pc = "listing" <=> op.k = "reconcile"
    /\ IF Accepting THEN op.t \in Turns /\ op.t < next ELSE op.t = NoTurn
    /\ op.pc \in {"acked", "refused"} => op.taken
    /\ op.k # "reconcile" => listed = {}
    /\ listed \cap kids = {}

\* Neither the manager nor its operation has the child.
Unborn(c) == c \notin kids /\ ~ (op.c = c /\ op.pc \in {"publish", "abandon", "undo"})
LoopsOfKids ==
    /\ op.pc \in {"opened", "build", "publish", "abandon", "undo"} => op.c \notin kids
    /\ \A c \in Children : Unborn(c) => loop[c] = NoLoop

HeldOnce ==
    /\ \A c \in Children : \A t \in Holds(c) : t \in told /\ comp[t] = 0
    /\ \A c, d \in Children : c # d => Holds(c) \cap Holds(d) = {}
    /\ \A t \in told : t < next
    /\ TurnsHeld

\* The turn of the operation was told and is owed.
Offered == \/ op.k = "spawn" /\ op.pc \in {"build", "publish", "abandon"}
           \/ op.pc \in {"offer", "refused"}
           \/ op.pc = "undo" /\ ~op.taken
OpHolds ==
    /\ Offered => op.t \in told /\ comp[op.t] = 0 /\ \A c \in Children : op.t \notin Holds(c)
    /\ op.pc = "acked" => op.t \in told /\ (comp[op.t] = 1 \/ op.t \in Holds(op.c))

LoopMatches(c) ==
    Readable(jour[c]) =>
        /\ \A t \in ElementsOf(loop[c].queue) : jour[c].seen[t] = "accepted"
        /\ loop[c].st = "live" /\ ~loop[c].interrupted /\ loop[c].running =>
             jour[c].seen[loop[c].active] = "started"

\* Nothing uses a child that was set aside.
SetAside(c) == c \notin kids /\ op.c # c /\ jour[c].state \in {"empty", "merged"}

JournalsSound ==
    /\ \A c \in Children : jour[c].state # "disordered"
    /\ \A c \in quar : SetAside(c)
    /\ \A c \in Children : \A t \in Turns : t >= next => jour[c].seen[t] = "none"
    /\ op.pc = "opened" => jour[op.c].state = "empty"
    /\ (op.k = "spawn" /\ op.pc \in {"build", "publish"}) \/ op.pc = "offer" =>
         (Readable(jour[op.c]) => jour[op.c].seen[op.t] = "accepted")
    /\ \A c \in Children : LoopMatches(c)

TurnsInv ==
    /\ Typed /\ (\A c \in Children : LoopHolds(c)) /\ OpFits /\ LoopsOfKids /\ HeldOnce
    /\ OpHolds /\ JournalsSound

----------------------------------------------------------------------------
\* What a child that did nothing holds is what it held.
LEMMA HoldsFrame ==
  ASSUME NEW d, loop'[d] = loop[d]
  PROVE  Holds(d)' = Holds(d)
  BY DEF Holds

LEMMA HoldsTyped ==
  ASSUME Typed, NEW c \in Children, LoopHolds(c)
  PROVE  Holds(c) \subseteq Turns
<1>1. loop[c].queue \in Seq(Turns) /\ loop[c].dropped \in Seq(Turns)
  BY DEF Typed, Loops
<1>2. ElementsOf(loop[c].queue) \subseteq Turns /\ ElementsOf(loop[c].dropped) \subseteq Turns
  BY <1>1, ElementOfSeq, LenProperties DEF ElementsOf
<1> QED
  BY <1>2 DEF Holds, LoopHolds

(* A step of one child's loop or of its runner, that reports the turns of R,  *)
(* keeps the others, and writes records only of turns that the child held.     *)
LEMMA ChildKeeps ==
  ASSUME TurnsInv, NEW c \in Children, NEW R \in SUBSET Holds(c), NEW k \in Journals,
         loop[c].st # "gone",
         UNCHANGED <<op, kids, listed, next, quar, told, refused>>,
         \A d \in Children \ {c} : loop'[d] = loop[d] /\ run'[d] = run[d] /\ steers'[d] = steers[d],
         Typed', Completed(R), Holds(c)' = Holds(c) \ R, LoopHolds(c)',
         jour' = [jour EXCEPT ![c] = k], After(jour[c], k, Holds(c)),
         LoopMatches(c)'
  PROVE  TurnsInv'
<1>0. Holds(c) \subseteq Turns /\ \A d \in Children : Holds(d) \subseteq Turns
  BY HoldsTyped DEF TurnsInv
<1>1. \A d \in Children \ {c} : Holds(d)' = Holds(d)
  BY HoldsFrame
<1>2. /\ \A t \in Turns : comp'[t] = IF t \in R THEN comp[t] + 1 ELSE comp[t]
      /\ \A t \in R : comp[t] = 0 /\ t \in told /\ \A d \in Children \ {c} : t \notin Holds(d)
  BY <1>0 DEF Completed, TurnsInv, HeldOnce
<1>3. \A d \in Children : Holds(d)' = Holds(d) \ R
  BY <1>1, <1>2
<1>t. comp \in [Turns -> Nat] /\ told \subseteq Turns /\ jour \in [Children -> Journals]
  BY DEF TurnsInv, Typed
<1>n. loop[c] # NoLoop /\ ~ Unborn(c)
  BY DEF TurnsInv, LoopsOfKids, NoLoop
<1>4. HeldOnce'
  <2>1. \A d \in Children : \A t \in Holds(d)' : t \in told' /\ comp'[t] = 0
    BY <1>0, <1>2, <1>3 DEF TurnsInv, HeldOnce
  <2>2. \A d, e \in Children : d # e => Holds(d)' \cap Holds(e)' = {}
    BY <1>3 DEF TurnsInv, HeldOnce
  <2>3. \A t \in told' : t < next'
    BY DEF TurnsInv, HeldOnce
  <2>4. TurnsHeld'
    <3> SUFFICES ASSUME NEW t \in Turns
                 PROVE  /\ comp'[t] > 0 => comp'[t] = 1 /\ t \in told' /\ \A d \in Children : t \notin Holds(d)'
                        /\ t \in told' /\ comp'[t] = 0 =>
                             t \in refused' \/ t = op'.t \/ \E d \in Children : t \in Holds(d)'
      BY DEF TurnsHeld
    <3>1. CASE t \in R
      BY <1>2, <1>3, <3>1
    <3>2. CASE t \notin R
      <4>1. comp'[t] = comp[t] /\ \A d \in Children : t \in Holds(d)' <=> t \in Holds(d)
        BY <1>2, <1>3, <3>2
      <4>2. /\ comp[t] > 0 => comp[t] = 1 /\ t \in told /\ \A d \in Children : t \notin Holds(d)
            /\ t \in told /\ comp[t] = 0 =>
                 t \in refused \/ t = op.t \/ \E d \in Children : t \in Holds(d)
        BY DEF TurnsInv, HeldOnce, TurnsHeld
      <4> QED
        BY <4>1, <4>2
    <3> QED
      BY <3>1, <3>2
  <2> QED
    BY <2>1, <2>2, <2>3, <2>4 DEF HeldOnce
<1>5. OpHolds'
  <2>1. Offered' = Offered
    BY DEF Offered
  <2>2. op.t \in told => op.t \in Turns
    BY <1>t
  <2>3. Offered => op.t \in told' /\ comp'[op.t] = 0 /\ \A d \in Children : op.t \notin Holds(d)'
    BY <1>2, <1>3, <2>2 DEF TurnsInv, OpHolds
  <2>4. op.pc = "acked" => op.t \in told' /\ (comp'[op.t] = 1 \/ op.t \in Holds(op.c)')
    <3>1. op.pc = "acked" => op.c \in Children
      BY DEF TurnsInv, OpFits
    <3> QED
      BY <1>2, <1>3, <2>2, <3>1 DEF TurnsInv, OpHolds
  <2> QED
    BY <2>1, <2>3, <2>4 DEF OpHolds, TurnsInv
<1>6. JournalsSound'
  <2>1. /\ \A d \in Children : jour'[d] = IF d = c THEN k ELSE jour[d]
    BY <1>t DEF TurnsInv
  <2>2. Offered => op.t \in Turns /\ op.t \notin Holds(c)
    BY <1>t DEF TurnsInv, OpHolds
  <2>3. \A t \in Turns : t >= next => t \notin Holds(c)
    <3>1. \A t \in Holds(c) : t < next
      BY DEF TurnsInv, HeldOnce
    <3>2. next \in Nat /\ Turns \subseteq Nat
      BY ResidentsAssumption DEF TurnsInv, Typed, Turns
    <3> QED
      BY <3>1, <3>2
  <2>4. \A d \in Children : jour'[d].state # "disordered"
    BY <2>1 DEF TurnsInv, JournalsSound, After
  <2>5. \A d \in quar' : SetAside(d)'
    <3>1. c \notin quar
      BY <1>n DEF TurnsInv, JournalsSound, SetAside, Unborn
    <3>2. quar \subseteq Children
      BY DEF TurnsInv, Typed
    <3> QED
      BY <2>1, <3>1, <3>2 DEF TurnsInv, JournalsSound, SetAside
  <2>6. \A d \in Children : \A t \in Turns : t >= next' => jour'[d].seen[t] = "none"
    BY <2>1, <2>3 DEF TurnsInv, JournalsSound, After
  <2>7. op.pc = "opened" => jour'[op.c].state = "empty"
    <3>1. op.pc = "opened" => op.c \in Children /\ op.c # c
      BY <1>n DEF TurnsInv, OpFits, LoopsOfKids, Unborn
    <3> QED
      BY <2>1, <3>1 DEF TurnsInv, JournalsSound
  <2>8. (op.k = "spawn" /\ op.pc \in {"build", "publish"}) \/ op.pc = "offer" =>
          (Readable(jour'[op.c]) => jour'[op.c].seen[op.t] = "accepted")
    <3>1. (op.k = "spawn" /\ op.pc \in {"build", "publish"}) \/ op.pc = "offer" => op.c \in Children
      BY DEF TurnsInv, OpFits
    <3> QED
      BY <2>1, <2>2, <3>1 DEF TurnsInv, JournalsSound, Offered, After
  <2>9. \A d \in Children : LoopMatches(d)'
    <3>1. ASSUME NEW d \in Children \ {c} PROVE LoopMatches(d)'
      BY <2>1 DEF TurnsInv, JournalsSound, LoopMatches
    <3> QED
      BY <3>1
  <2> QED
    BY <2>4, <2>5, <2>6, <2>7, <2>8, <2>9 DEF JournalsSound
<1>7. LoopsOfKids'
  BY <1>n DEF TurnsInv, LoopsOfKids, Unborn
<1>8. \A d \in Children : LoopHolds(d)'
  <2>1. ASSUME NEW d \in Children \ {c} PROVE LoopHolds(d)'
    BY DEF TurnsInv, LoopHolds
  <2> QED
    BY <2>1
<1>9. OpFits'
  BY DEF TurnsInv, OpFits, Accepting
<1> QED
  BY <1>4, <1>5, <1>6, <1>7, <1>8, <1>9 DEF TurnsInv

\* The head of a queue without repetition, and what is behind it.
LEMMA HeadOfDistinct ==
  ASSUME NEW s \in Seq(Turns), s # <<>>, Distinct(s)
  PROVE  /\ Head(s) \in Turns /\ Tail(s) \in Seq(Turns) /\ Distinct(Tail(s))
         /\ Head(s) \in ElementsOf(s) /\ Head(s) \notin ElementsOf(Tail(s))
         /\ ElementsOf(s) = {Head(s)} \union ElementsOf(Tail(s))
<1>1. /\ Head(s) = s[1] /\ Head(s) \in Turns /\ Tail(s) \in Seq(Turns) /\ Len(Tail(s)) = Len(s) - 1
      /\ \A i \in 1..Len(Tail(s)) : Tail(s)[i] = s[i + 1]
  BY HeadTailProperties
<1>2. Len(s) \in Nat /\ Len(s) > 0 /\ DOMAIN s = 1..Len(s) /\ DOMAIN Tail(s) = 1..(Len(s) - 1)
  BY <1>1, LenProperties, EmptySeq
<1>3. \A i \in 1..(Len(s) - 1) : i + 1 \in 1..Len(s) /\ i + 1 # 1 /\ Tail(s)[i] = s[i + 1]
  BY <1>1, <1>2
<1>4. \A i, j \in 1..Len(s) : s[i] = s[j] => i = j
  BY <1>2 DEF Distinct
<1>5. 1 \in 1..Len(s)
  BY <1>2
<1>6. Head(s) \notin ElementsOf(Tail(s))
  BY <1>1, <1>2, <1>3, <1>4, <1>5 DEF ElementsOf
<1>7. \A i, j \in 1..(Len(s) - 1) : Tail(s)[i] = Tail(s)[j] => i = j
  <2> SUFFICES ASSUME NEW i \in 1..(Len(s) - 1), NEW j \in 1..(Len(s) - 1), Tail(s)[i] = Tail(s)[j] PROVE i = j
    OBVIOUS
  <2>1. i + 1 = j + 1
    BY <1>3, <1>4
  <2> QED
    BY <2>1, <1>2
<1>8. ElementsOf(s) \subseteq {Head(s)} \union ElementsOf(Tail(s))
  <2> SUFFICES ASSUME NEW i \in 1..Len(s), i # 1 PROVE s[i] \in ElementsOf(Tail(s))
    BY <1>1, <1>2 DEF ElementsOf
  <2>1. i - 1 \in 1..(Len(s) - 1) /\ (i - 1) + 1 = i
    BY <1>2
  <2>2. Tail(s)[i - 1] = s[i]
    BY <1>3, <2>1
  <2> QED
    BY <1>2, <2>1, <2>2 DEF ElementsOf
<1>9. {Head(s)} \union ElementsOf(Tail(s)) \subseteq ElementsOf(s)
  BY <1>1, <1>2, <1>3, <1>5 DEF ElementsOf
<1>10. Head(s) \in ElementsOf(s)
  BY <1>9
<1> QED
  BY <1>1, <1>2, <1>6, <1>7, <1>8, <1>9, <1>10 DEF Distinct

LEMMA EmptyHolds ==
  /\ ElementsOf(<<>>) = {} /\ <<>> \in Seq(Turns) /\ Distinct(<<>>)
<1>1. DOMAIN <<>> = {}
  OBVIOUS
<1> QED
  BY <1>1, EmptySeq DEF ElementsOf, Distinct

\* Completed keeps the type.
LEMMA CompletedTyped ==
  ASSUME Typed, NEW R, Completed(R)
  PROVE  comp' \in [Turns -> Nat]
  BY DEF Typed, Completed
\* What is appended is one more element.
LEMMA AppendToDropped ==
  ASSUME NEW s \in Seq(Turns), NEW t \in Turns
  PROVE  Append(s, t) \in Seq(Turns) /\ ElementsOf(Append(s, t)) = ElementsOf(s) \union {t}
<1> DEFINE q == Append(s, t)
<1>1. /\ q \in Seq(Turns) /\ Len(q) = Len(s) + 1 /\ q[Len(s) + 1] = t
      /\ \A i \in 1..Len(s) : q[i] = s[i]
  BY AppendProperties
<1>2. Len(s) \in Nat /\ DOMAIN s = 1..Len(s) /\ DOMAIN q = 1..(Len(s) + 1)
  BY <1>1, LenProperties
<1> HIDE DEF q
<1>3. \A i \in DOMAIN q : i \in DOMAIN s \/ i = Len(s) + 1
  BY <1>2
<1>4. Len(s) + 1 \in DOMAIN q /\ DOMAIN s \subseteq DOMAIN q
  BY <1>2
<1>5. \A i \in DOMAIN s : q[i] = s[i]
  BY <1>1, <1>2
<1>7. ElementsOf(q) \subseteq ElementsOf(s) \union {t}
  BY <1>1, <1>3, <1>5 DEF ElementsOf
<1>8. ElementsOf(s) \union {t} \subseteq ElementsOf(q)
  BY <1>1, <1>4, <1>5 DEF ElementsOf
<1> QED
  BY <1>1, <1>7, <1>8 DEF q

LEMMA AfterMore ==
  ASSUME NEW j, NEW k, NEW S, NEW T, S \subseteq T, After(j, k, S)
  PROVE  After(j, k, T)
  BY DEF After

\* A record of a turn, whatever becomes of it.
Recorded(c, type, t, w) ==
    /\ w.j \in Journals /\ w.ok \in BOOLEAN
    /\ jour' = [jour EXCEPT ![c] = w.j] /\ jour'[c] = w.j /\ faults' \in Nat
    /\ After(jour[c], w.j, {t})
    /\ w.ok /\ Readable(w.j) /\ type # "broken" => w.j.seen[t] = SeenAfter[type]

LEMMA RecordEffect ==
  ASSUME TurnsInv, NEW c \in Children, NEW t \in Turns, NEW type \in Records,
         Readable(jour[c]) => Legal(jour[c], type, t),
         NEW w \in Writes(jour[c], type, t), Wrote(c, w)
  PROVE  Recorded(c, type, t, w)
<1>1. jour[c] \in Journals /\ jour[c].state # "disordered" /\ faults \in Nat /\ jour \in [Children -> Journals]
  BY DEF TurnsInv, Typed, JournalsSound
<1>2. /\ After(jour[c], w.j, {t}) /\ w.ok \in BOOLEAN
      /\ w.ok /\ Readable(w.j) /\ type # "broken" => w.j.seen[t] = SeenAfter[type]
  BY <1>1, WriteEffect
<1>3. jour' = [jour EXCEPT ![c] = w.j] /\ faults' \in Nat
  BY <1>1, <1>2 DEF Wrote
<1> QED
  BY <1>1, <1>2, <1>3 DEF After, Recorded

\* What a live loop holds before it is interrupted.
LEMMA LiveHolds ==
  ASSUME TurnsInv, NEW c \in Children, ~ loop[c].interrupted
  PROVE  /\ Holds(c) = ElementsOf(loop[c].queue) \union (IF loop[c].running THEN {loop[c].active} ELSE {})
         /\ Holds(c) \in SUBSET Turns /\ loop[c].dropped = <<>> /\ ~ loop[c].hit
         /\ loop[c].running => loop[c].active \notin ElementsOf(loop[c].queue)
<1>1. loop[c].dropped = <<>> /\ ~ loop[c].hit
  BY DEF TurnsInv, LoopHolds
<1>2. Holds(c) = ElementsOf(loop[c].queue) \union (IF loop[c].running THEN {loop[c].active} ELSE {})
  BY <1>1, EmptyHolds DEF Holds
<1>3. Holds(c) \in SUBSET Turns
  BY HoldsTyped DEF TurnsInv
<1>4. loop[c].running => loop[c].active \notin ElementsOf(loop[c].queue)
  BY DEF TurnsInv, LoopHolds
<1> QED
  BY <1>1, <1>2, <1>3, <1>4

LEMMA StartTurnKeeps ==
  ASSUME TurnsInv, NEW c \in Children, StartTurn(c)
  PROVE  TurnsInv'
<1> DEFINE l == loop[c]
           t == Head(l.queue)
<1>1. /\ l \in Loops /\ l.st = "live" /\ ~ l.interrupted /\ ~ l.running /\ l.queue # <<>>
      /\ l.dropped = <<>> /\ ~ l.hit /\ l.queue \in Seq(Turns) /\ Distinct(l.queue)
  BY DEF StartTurn, MayStart, TurnsInv, Typed, Loops, LoopHolds
<1>2. /\ t \in Turns /\ Tail(l.queue) \in Seq(Turns) /\ Distinct(Tail(l.queue))
      /\ t \in ElementsOf(l.queue) /\ t \notin ElementsOf(Tail(l.queue))
      /\ ElementsOf(l.queue) = {t} \union ElementsOf(Tail(l.queue))
  BY <1>1, HeadOfDistinct
<1>3. Holds(c) = ElementsOf(l.queue) /\ Holds(c) \in SUBSET Turns
  BY <1>1, LiveHolds
<1>4. Readable(jour[c]) => \A u \in ElementsOf(l.queue) : jour[c].seen[u] = "accepted"
  BY <1>1 DEF TurnsInv, JournalsSound, LoopMatches
<1>5. PICK w \in Writes(jour[c], "started", t) :
        /\ Wrote(c, w)
        /\ IF w.ok
           THEN /\ loop' = [loop EXCEPT ![c] = [l EXCEPT !.active = t, !.queue = Tail(@),
                                !.running = TRUE, !.turnInterrupted = FALSE, !.state = "running"]]
                /\ run' = [run EXCEPT ![c] = [NoRun EXCEPT !.pc = "begin"]]
                /\ UNCHANGED comp
           ELSE /\ loop' = [loop EXCEPT ![c] = [l EXCEPT !.queue = <<>>, !.cancelled = TRUE,
                                !.state = "failed", !.st = "leaving"]]
                /\ Completed(ElementsOf(l.queue))
                /\ UNCHANGED run
  BY DEF StartTurn
<1>6. UNCHANGED <<quar, manager, op, steers, slots, told, refused, next, restarts>>
  BY DEF StartTurn
<1>7. Readable(jour[c]) => Legal(jour[c], "started", t)
  BY <1>2, <1>4 DEF Legal
<1>8. /\ w.j \in Journals /\ w.ok \in BOOLEAN
      /\ jour' = [jour EXCEPT ![c] = w.j] /\ jour'[c] = w.j /\ faults' \in Nat
      /\ After(jour[c], w.j, {t})
      /\ w.ok /\ Readable(w.j) => w.j.seen[t] = "started"
  <2>1. "started" \in Records /\ SeenAfter["started"] = "started"
    BY DEF Records, SeenAfter
  <2>2. Recorded(c, "started", t, w)
    BY <1>2, <1>5, <1>7, <2>1, RecordEffect
  <2> QED
    BY <2>1, <2>2 DEF Recorded
<1> DEFINE a == [l EXCEPT !.active = t, !.queue = Tail(@),
                    !.running = TRUE, !.turnInterrupted = FALSE, !.state = "running"]
           b == [l EXCEPT !.queue = <<>>, !.cancelled = TRUE, !.state = "failed", !.st = "leaving"]
<1>9. After(jour[c], w.j, Holds(c))
  BY <1>2, <1>3, <1>8, AfterMore
<1>10. CASE w.ok
  <2>1. loop' = [loop EXCEPT ![c] = a] /\ run' = [run EXCEPT ![c] = [NoRun EXCEPT !.pc = "begin"]] /\ comp' = comp
    BY <1>5, <1>10
  <2>2. a \in Loops /\ a.queue = Tail(l.queue) /\ a.active = t /\ a.running /\ a.st = "live"
        /\ ~ a.interrupted /\ ~ a.hit /\ a.dropped = <<>>
    BY <1>1, <1>2 DEF Loops, ResidentStates
  <2>3. [NoRun EXCEPT !.pc = "begin"] \in Runs /\ [NoRun EXCEPT !.pc = "begin"].pc = "begin"
    BY DEF NoRun, Runs
  <2> HIDE DEF a
  <2>4. loop'[c] = a /\ run'[c].pc = "begin"
    BY <1>8, <2>1, <2>3 DEF TurnsInv, Typed
  <2>5. Typed'
    BY <1>6, <1>8, <2>1, <2>2, <2>3 DEF TurnsInv, Typed, manager, slots
  <2>6. Completed({})
    BY <2>1 DEF Completed, TurnsInv, Typed
  <2>7. Holds(c)' = Holds(c) \ {}
    BY <1>2, <1>3, <2>2, <2>4, EmptyHolds DEF Holds
  <2>8. LoopHolds(c)'
    BY <1>2, <2>2, <2>4 DEF LoopHolds
  <2>9. LoopMatches(c)'
    <3>1. ElementsOf(Tail(l.queue)) \subseteq Turns
      BY <1>2, <1>3
    <3> QED
      BY <1>2, <1>4, <1>8, <1>10, <2>2, <2>4, <3>1 DEF LoopMatches, After
  <2>10. \A d \in Children \ {c} : loop'[d] = loop[d] /\ run'[d] = run[d] /\ steers'[d] = steers[d]
    BY <1>6, <2>1 DEF TurnsInv, Typed
  <2>11. UNCHANGED <<op, kids, listed, next, quar, told, refused>> /\ {} \in SUBSET Holds(c) /\ loop[c].st # "gone"
    BY <1>1, <1>6 DEF manager
  <2> QED
    BY <1>8, <1>9, <2>5, <2>6, <2>7, <2>8, <2>9, <2>10, <2>11, ChildKeeps
<1>11. CASE ~ w.ok
  <2>1. loop' = [loop EXCEPT ![c] = b] /\ run' = run /\ Completed(ElementsOf(l.queue))
    BY <1>5, <1>11
  <2>2. b \in Loops /\ b.queue = <<>> /\ ~ b.running /\ b.st = "leaving"
        /\ ~ b.interrupted /\ ~ b.hit /\ b.dropped = <<>>
    BY <1>1, EmptyHolds DEF Loops, ResidentStates
  <2> HIDE DEF b
  <2>4. loop'[c] = b
    BY <2>1 DEF TurnsInv, Typed
  <2>5. Typed'
    BY <1>6, <1>8, <2>1, <2>2, CompletedTyped DEF TurnsInv, Typed, manager, slots
  <2>7. Holds(c)' = Holds(c) \ ElementsOf(l.queue)
    BY <1>3, <2>2, <2>4, EmptyHolds DEF Holds
  <2>8. LoopHolds(c)'
    BY <1>1, <1>6, <2>1, <2>2, <2>4, EmptyHolds DEF LoopHolds, TurnsInv
  <2>9. LoopMatches(c)'
    BY <2>2, <2>4, EmptyHolds DEF LoopMatches
  <2>10. \A d \in Children \ {c} : loop'[d] = loop[d] /\ run'[d] = run[d] /\ steers'[d] = steers[d]
    BY <1>6, <2>1 DEF TurnsInv, Typed
  <2>11. /\ UNCHANGED <<op, kids, listed, next, quar, told, refused>>
         /\ ElementsOf(l.queue) \in SUBSET Holds(c) /\ loop[c].st # "gone"
    BY <1>1, <1>3, <1>6 DEF manager
  <2> QED
    BY <1>8, <1>9, <2>1, <2>5, <2>7, <2>8, <2>9, <2>10, <2>11, ChildKeeps
<1> QED
  BY <1>8, <1>10, <1>11

\* The same for a step that writes no record.
LEMMA QuietKeeps ==
  ASSUME TurnsInv, NEW c \in Children, NEW R \in SUBSET Holds(c), loop[c].st # "gone",
         UNCHANGED <<op, kids, listed, next, jour, quar, told, refused>>,
         \A d \in Children \ {c} : loop'[d] = loop[d] /\ run'[d] = run[d] /\ steers'[d] = steers[d],
         Typed', Completed(R), Holds(c)' = Holds(c) \ R, LoopHolds(c)', LoopMatches(c)'
  PROVE  TurnsInv'
<1>1. jour[c] \in Journals /\ jour' = [jour EXCEPT ![c] = jour[c]] /\ jour[c].state # "disordered"
  BY DEF TurnsInv, Typed, JournalsSound
<1>2. After(jour[c], jour[c], Holds(c))
  BY <1>1, AfterNothing
<1> QED
  BY <1>1, <1>2, ChildKeeps

LEMMA SeeCancelKeeps ==
  ASSUME TurnsInv, NEW c \in Children, SeeCancel(c)
  PROVE  TurnsInv'
<1> DEFINE l == loop[c]
           a == [l EXCEPT !.interrupted = TRUE, !.hit = l.running]
<1>1. /\ l \in Loops /\ l.st = "live" /\ ~ l.interrupted /\ l.running \in BOOLEAN
      /\ loop' = [loop EXCEPT ![c] = a]
      /\ UNCHANGED <<quar, manager, op, run, steers, slots, reports, next, restarts>>
      /\ IF l.running THEN Record(c, "interrupted", l.active) ELSE UNCHANGED <<jour, faults>>
  BY DEF SeeCancel, Selecting, TurnsInv, Typed, Loops
<1>2. /\ Holds(c) = ElementsOf(l.queue) \union (IF l.running THEN {l.active} ELSE {})
      /\ Holds(c) \in SUBSET Turns /\ l.dropped = <<>>
      /\ l.running => l.active \notin ElementsOf(l.queue)
  BY <1>1, LiveHolds
<1>3. \E k \in Journals : /\ jour' = [jour EXCEPT ![c] = k] /\ jour'[c] = k /\ faults' \in Nat
                          /\ After(jour[c], k, IF l.running THEN {l.active} ELSE {})
  <2>1. CASE ~ l.running
    <3>1. jour[c] \in Journals /\ jour[c].state # "disordered" /\ jour' = [jour EXCEPT ![c] = jour[c]]
          /\ jour'[c] = jour[c] /\ faults' \in Nat
      BY <1>1, <2>1 DEF TurnsInv, Typed, JournalsSound
    <3> QED
      BY <3>1, AfterNothing
  <2>2. CASE l.running
    <3>1. PICK w \in Writes(jour[c], "interrupted", l.active) : Wrote(c, w)
      BY <1>1, <2>2 DEF Record
    <3>2. l.active \in Turns /\ "interrupted" \in Records
      BY <2>2 DEF TurnsInv, LoopHolds, Records
    <3>3. Readable(jour[c]) => Legal(jour[c], "interrupted", l.active)
      BY <1>1, <2>2 DEF TurnsInv, JournalsSound, LoopMatches, Legal
    <3>4. Recorded(c, "interrupted", l.active, w)
      BY <3>1, <3>2, <3>3, RecordEffect
    <3> QED
      BY <2>2, <3>4 DEF Recorded
  <2> QED
    BY <1>1, <2>1, <2>2
<1>4. PICK k \in Journals : /\ jour' = [jour EXCEPT ![c] = k] /\ jour'[c] = k /\ faults' \in Nat
                            /\ After(jour[c], k, IF l.running THEN {l.active} ELSE {})
  BY <1>3
<1>5. After(jour[c], k, Holds(c))
  BY <1>2, <1>4, AfterMore
<1>6. /\ a \in Loops /\ a.interrupted /\ a.hit = l.running /\ a.dropped = l.dropped /\ a.queue = l.queue
      /\ a.running = l.running /\ a.active = l.active /\ a.st = "live"
  BY <1>1 DEF Loops
<1> HIDE DEF a
<1>7. loop'[c] = a /\ run'[c] = run[c] /\ steers'[c] = steers[c]
  BY <1>1 DEF TurnsInv, Typed
<1>8. Typed'
  BY <1>1, <1>4, <1>6 DEF TurnsInv, Typed, manager, slots, reports
<1>9. Completed({}) /\ comp' = comp
  BY <1>1 DEF Completed, TurnsInv, Typed, reports
<1>10. Holds(c)' = Holds(c) \ {}
  BY <1>2, <1>6, <1>7, EmptyHolds DEF Holds
<1>11. LoopHolds(c)'
  <2>1. LoopHolds(c)
    BY DEF TurnsInv
  <2>2. /\ l.running => l.active \in Turns
        /\ l.running <=> run[c].pc # "idle"
        /\ run[c].pc \in {"leaving", "returned"} => run[c].res # "ok"
        /\ steers[c] > 0 => l.running
        /\ Distinct(l.queue)
    BY <2>1, <1>1 DEF LoopHolds
  <2> QED
    BY <1>1, <1>2, <1>6, <1>7, <2>2 DEF LoopHolds
<1>12. LoopMatches(c)'
  <2>1. LoopMatches(c) /\ ElementsOf(l.queue) \subseteq Turns
    BY <1>2 DEF TurnsInv, JournalsSound
  <2> QED
    BY <1>2, <1>4, <1>6, <1>7, <2>1 DEF LoopMatches, After
<1>13. \A d \in Children \ {c} : loop'[d] = loop[d] /\ run'[d] = run[d] /\ steers'[d] = steers[d]
  BY <1>1 DEF TurnsInv, Typed
<1>14. UNCHANGED <<op, kids, listed, next, quar, told, refused>> /\ {} \in SUBSET Holds(c) /\ loop[c].st # "gone"
  BY <1>1 DEF manager, reports
<1> QED
  BY <1>4, <1>5, <1>8, <1>9, <1>10, <1>11, <1>12, <1>13, <1>14, ChildKeeps

\* A queued turn that is dropped is reported at once, or kept by a cancelled loop.
LEMMA DropQueuedKeeps ==
  ASSUME TurnsInv, NEW c \in Children, DropQueued(c)
  PROVE  TurnsInv'
<1> DEFINE l == loop[c]
           t == Head(l.queue)
<1>1. /\ l \in Loops /\ l.queue # <<>> /\ l.queue \in Seq(Turns) /\ Distinct(l.queue)
      /\ l.dropped \in Seq(Turns)
      /\ UNCHANGED <<quar, manager, op, run, steers, slots, told, refused, next, restarts>>
      /\ Record(c, "interrupted", t)
  BY DEF DropQueued, Dropping, TurnsInv, Typed, Loops, LoopHolds
<1>2. /\ t \in Turns /\ Tail(l.queue) \in Seq(Turns) /\ Distinct(Tail(l.queue))
      /\ t \in ElementsOf(l.queue) /\ t \notin ElementsOf(Tail(l.queue))
      /\ ElementsOf(l.queue) = {t} \union ElementsOf(Tail(l.queue))
  BY <1>1, HeadOfDistinct
<1>g. l.st # "gone"
  BY <1>1 DEF TurnsInv, LoopHolds
<1>3. t \in Holds(c) /\ ElementsOf(l.queue) \subseteq Turns
  <2>1. Holds(c) \subseteq Turns
    BY HoldsTyped DEF TurnsInv
  <2>2. ElementsOf(l.queue) \subseteq Holds(c)
    BY DEF Holds
  <2> HIDE DEF l, t
  <2> QED
    BY <1>2, <2>1, <2>2
<1>4. Readable(jour[c]) => \A u \in ElementsOf(l.queue) : jour[c].seen[u] = "accepted"
  BY DEF TurnsInv, JournalsSound, LoopMatches
<1>5. PICK w \in Writes(jour[c], "interrupted", t) : Wrote(c, w)
  BY <1>1 DEF Record
<1>6. /\ w.j \in Journals /\ jour' = [jour EXCEPT ![c] = w.j] /\ jour'[c] = w.j /\ faults' \in Nat
      /\ After(jour[c], w.j, {t})
  <2>1. "interrupted" \in Records
    BY DEF Records
  <2>2. Readable(jour[c]) => Legal(jour[c], "interrupted", t)
    BY <1>2, <1>4 DEF Legal
  <2>3. Recorded(c, "interrupted", t, w)
    BY <1>2, <1>5, <2>1, <2>2, RecordEffect
  <2> QED
    BY <2>3 DEF Recorded
<1>7. After(jour[c], w.j, Holds(c))
  BY <1>3, <1>6, AfterMore
<1>8. ASSUME NEW a \in Loops, loop' = [loop EXCEPT ![c] = a], NEW R \in SUBSET {t}, Completed(R),
             a.queue = Tail(l.queue), a.st = l.st, a.interrupted = l.interrupted, a.running = l.running,
             a.hit = l.hit, a.active = l.active,
             Holds(c)' = Holds(c) \ R, ~ l.interrupted => a.dropped = <<>>
      PROVE  TurnsInv'
  <2>1. loop'[c] = a /\ run'[c] = run[c] /\ steers'[c] = steers[c]
    BY <1>1, <1>8 DEF TurnsInv, Typed
  <2>2. Typed'
    BY <1>1, <1>6, <1>8, CompletedTyped DEF TurnsInv, Typed, manager, slots
  <2>3. LoopHolds(c)'
    <3>1. LoopHolds(c)
      BY DEF TurnsInv
    <3>2. l.st # "live" => ~ l.interrupted
      BY <1>1, <1>g, <3>1 DEF LoopHolds, Loops
    <3>3. /\ l.st # "live" => ~ l.running /\ ~ l.hit
          /\ ~ l.interrupted => ~ l.hit
          /\ l.running /\ l.interrupted => l.hit
          /\ l.running \/ l.hit => l.active \in Turns /\ l.active \notin ElementsOf(l.queue)
          /\ l.running <=> run[c].pc # "idle"
          /\ run[c].pc \in {"leaving", "returned"} => run[c].res # "ok"
          /\ steers[c] > 0 => l.running \/ l.hit
      BY <3>1 DEF LoopHolds
    <3> HIDE DEF l, t
    <3>4. l.active \notin ElementsOf(l.queue) => l.active \notin ElementsOf(Tail(l.queue))
      BY <1>2
    <3> QED
      BY <1>2, <1>8, <1>g, <2>1, <3>2, <3>3, <3>4 DEF LoopHolds
  <2>4. LoopMatches(c)'
    <3>1. LoopMatches(c)
      BY DEF TurnsInv, JournalsSound
    <3>2. l.running => l.active \in Turns /\ l.active # t
      BY <1>2 DEF TurnsInv, LoopHolds
    <3>3. \A u \in ElementsOf(Tail(l.queue)) : u \in Turns /\ u # t /\ u \in ElementsOf(l.queue)
      <4> HIDE DEF l, t
      <4> QED
        BY <1>2, <1>3
    <3> HIDE DEF t
    <3> QED
      BY <1>6, <1>8, <2>1, <3>1, <3>2, <3>3 DEF LoopMatches, After
  <2>5. \A d \in Children \ {c} : loop'[d] = loop[d] /\ run'[d] = run[d] /\ steers'[d] = steers[d]
    BY <1>1, <1>8 DEF TurnsInv, Typed
  <2>6. UNCHANGED <<op, kids, listed, next, quar, told, refused>> /\ loop[c].st # "gone" /\ R \in SUBSET Holds(c)
    BY <1>1, <1>3, <1>g, <1>8 DEF manager
  <2> QED
    BY <1>6, <1>7, <1>8, <2>2, <2>3, <2>4, <2>5, <2>6, ChildKeeps
<1>9. CASE l.interrupted
  <2> DEFINE a == [l EXCEPT !.queue = Tail(@), !.dropped = Append(@, t)]
  <2>1. loop' = [loop EXCEPT ![c] = a] /\ comp' = comp
    BY <1>9 DEF DropQueued
  <2>2. Append(l.dropped, t) \in Seq(Turns) /\ ElementsOf(Append(l.dropped, t)) = ElementsOf(l.dropped) \union {t}
    BY <1>1, <1>2, AppendToDropped
  <2>3. /\ a \in Loops /\ a.queue = Tail(l.queue) /\ a.st = l.st /\ a.interrupted = l.interrupted
        /\ a.running = l.running /\ a.hit = l.hit /\ a.active = l.active /\ a.dropped = Append(l.dropped, t)
    BY <1>1, <1>2, <2>2 DEF Loops
  <2> HIDE DEF a
  <2>4. Completed({})
    BY <2>1 DEF Completed, TurnsInv, Typed
  <2>5. loop'[c] = a
    BY <2>1 DEF TurnsInv, Typed
  <2>6. Holds(c)' = Holds(c)
    <3> HIDE DEF t
    <3> QED
      BY <1>2, <1>9, <2>2, <2>3, <2>5 DEF Holds
  <2> QED
    BY <1>8, <1>9, <2>1, <2>3, <2>4, <2>6
<1>10. CASE ~ l.interrupted
  <2> DEFINE a == [l EXCEPT !.queue = Tail(@)]
  <2>1. loop' = [loop EXCEPT ![c] = a] /\ Completed({t})
    BY <1>10 DEF DropQueued
  <2>2. /\ Holds(c) = ElementsOf(l.queue) \union (IF l.running THEN {l.active} ELSE {})
        /\ l.dropped = <<>> /\ ~ l.hit
        /\ l.running => l.active \notin ElementsOf(l.queue)
    BY <1>10, LiveHolds
  <2>3. /\ a \in Loops /\ a.queue = Tail(l.queue) /\ a.st = l.st /\ a.interrupted = l.interrupted
        /\ a.running = l.running /\ a.hit = l.hit /\ a.active = l.active /\ a.dropped = <<>>
    BY <1>1, <1>2, <2>2 DEF Loops
  <2> HIDE DEF a
  <2>5. loop'[c] = a
    BY <2>1 DEF TurnsInv, Typed
  <2>6. Holds(c)' = Holds(c) \ {t}
    <3>1. Holds(c)' = ElementsOf(Tail(l.queue)) \union (IF l.running THEN {l.active} ELSE {})
      BY <1>10, <2>2, <2>3, <2>5, EmptyHolds DEF Holds
    <3> HIDE DEF t
    <3> QED
      BY <1>2, <2>2, <3>1
  <2> QED
    BY <1>8, <2>1, <2>3, <2>6
<1> QED
  BY <1>9, <1>10

LEMMA EndInterruptedKeeps ==
  ASSUME TurnsInv, NEW c \in Children, EndInterrupted(c)
  PROVE  TurnsInv'
<1> DEFINE l == loop[c]
           a == [l EXCEPT !.st = "leaving", !.state = "interrupted", !.dropped = <<>>, !.hit = FALSE]
<1>1. /\ l \in Loops /\ l.st = "live" /\ l.interrupted /\ ~ l.running /\ l.queue = <<>>
      /\ loop' = [loop EXCEPT ![c] = a]
      /\ steers' = [steers EXCEPT ![c] = IF l.hit THEN 0 ELSE @]
      /\ UNCHANGED <<disk, manager, op, run, slots, told, refused, bounds>>
  BY DEF EndInterrupted, MayEnd, Dropping, TurnsInv, Typed, Loops
<1>2. steers[c] \in 0..1 /\ (steers[c] > 0 => l.hit)
  BY <1>1 DEF TurnsInv, Typed, LoopHolds
<1>3. Holds(c) = ElementsOf(l.dropped) \union (IF l.hit THEN {l.active} ELSE {})
  BY <1>1, <1>2, EmptyHolds DEF Holds
<1>4. Completed(Holds(c))
  BY <1>3 DEF EndInterrupted
<1>6. /\ a \in Loops /\ a.st = "leaving" /\ a.queue = <<>> /\ a.dropped = <<>> /\ ~ a.hit /\ ~ a.running
  BY <1>1, <1>2, EmptyHolds DEF Loops, ResidentStates
<1> HIDE DEF a
<1>7. loop'[c] = a /\ run'[c] = run[c] /\ steers'[c] = 0
  BY <1>1, <1>2 DEF TurnsInv, Typed
<1>8. Typed'
  <2>1. steers' \in [Children -> 0..1]
    BY <1>1 DEF TurnsInv, Typed
  <2> QED
    BY <1>1, <1>4, <1>6, <2>1, CompletedTyped DEF TurnsInv, Typed, manager, slots, reports, disk, bounds
<1>10. Holds(c)' = Holds(c) \ Holds(c)
  BY <1>6, <1>7, EmptyHolds DEF Holds
<1>11. LoopHolds(c)'
  BY <1>1, <1>6, <1>7, EmptyHolds DEF LoopHolds, TurnsInv
<1>12. LoopMatches(c)'
  BY <1>6, <1>7, EmptyHolds DEF LoopMatches
<1>13. \A d \in Children \ {c} : loop'[d] = loop[d] /\ run'[d] = run[d] /\ steers'[d] = steers[d]
  BY <1>1 DEF TurnsInv, Typed
<1>14. UNCHANGED <<op, kids, listed, next, jour, quar, told, refused>> /\ loop[c].st # "gone"
  BY <1>1 DEF manager, disk, bounds
<1> QED
  BY <1>4, <1>8, <1>10, <1>11, <1>12, <1>13, <1>14, QuietKeeps

LEMMA LoopGoneKeeps ==
  ASSUME TurnsInv, NEW c \in Children, LoopGone(c)
  PROVE  TurnsInv'
<1> DEFINE l == loop[c]
           a == [NoLoop EXCEPT !.state = l.state, !.cancelled = l.cancelled]
<1>1. /\ l \in Loops /\ l.st = "leaving" /\ l.queue = <<>> /\ loop' = [loop EXCEPT ![c] = a]
      /\ UNCHANGED <<disk, manager, op, run, steers, slots, reports, bounds>>
  BY DEF LoopGone, Dropping, TurnsInv, Typed
<1>2. /\ l.dropped = <<>> /\ ~ l.running /\ ~ l.hit
      /\ run[c].pc = "idle" /\ ~ (steers[c] > 0)
  BY <1>1 DEF TurnsInv, LoopHolds
<1>6. /\ a \in Loops /\ a.st = "gone" /\ a.queue = <<>> /\ a.dropped = <<>> /\ ~ a.hit
      /\ ~ a.running /\ ~ a.interrupted
  BY <1>1, EmptyHolds DEF Loops, NoLoop, ResidentStates
<1> HIDE DEF a
<1>7. loop'[c] = a /\ run'[c] = run[c] /\ steers'[c] = steers[c]
  BY <1>1 DEF TurnsInv, Typed
<1>8. Typed'
  BY <1>1, <1>6 DEF TurnsInv, Typed, manager, slots, reports, disk, bounds
<1>9. Completed({})
  BY <1>1 DEF Completed, TurnsInv, Typed, reports
<1>10. Holds(c)' = Holds(c) \ {}
  BY <1>1, <1>2, <1>6, <1>7 DEF Holds
<1>11. LoopHolds(c)'
  BY <1>2, <1>6, <1>7, EmptyHolds DEF LoopHolds
<1>12. LoopMatches(c)'
  BY <1>6, <1>7, EmptyHolds DEF LoopMatches
<1>13. \A d \in Children \ {c} : loop'[d] = loop[d] /\ run'[d] = run[d] /\ steers'[d] = steers[d]
  BY <1>1 DEF TurnsInv, Typed
<1>14. UNCHANGED <<op, kids, listed, next, jour, quar, told, refused>> /\ loop[c].st # "gone" /\ {} \in SUBSET Holds(c)
  BY <1>1 DEF manager, disk, bounds, reports
<1> QED
  BY <1>8, <1>9, <1>10, <1>11, <1>12, <1>13, <1>14, QuietKeeps

----------------------------------------------------------------------------
(* The goroutine of a turn.                                                *)

LEMMA WithoutTyped ==
  ASSUME NEW tk \in Seq(Children), NEW cs
  PROVE  Without(tk, cs) \in Seq(Children)
<1>1. Only(tk, Children \ cs) \in Seq(Children \cap (Children \ cs))
  BY OnlyKeeps
<1>2. Children \cap (Children \ cs) \subseteq Children
  OBVIOUS
<1> QED
  BY <1>1, <1>2, SeqMonotonic DEF Without

LEMMA RunsWhileLive ==
  ASSUME TurnsInv, NEW c \in Children, run[c].pc # "idle"
  PROVE  loop[c].running /\ loop[c].st = "live"
  BY DEF TurnsInv, LoopHolds, Typed, Loops

LEMMA RunnerKeeps ==
  ASSUME TurnsInv, NEW c \in Children, NEW r \in Runs, NEW n \in 0..1, run[c].pc # "idle",
         r.pc # "idle", r.pc \in {"leaving", "returned"} => r.res # "ok",
         run' = [run EXCEPT ![c] = r], steers' = [steers EXCEPT ![c] = n],
         tickets' \in Seq(Children), reserved' \subseteq Children,
         UNCHANGED <<disk, manager, op, loop, reports, bounds>>
  PROVE  TurnsInv'
<1>1. loop[c].running /\ loop[c].st = "live"
  BY RunsWhileLive
<1>2. run'[c] = r /\ steers'[c] = n
  BY DEF TurnsInv, Typed
<1>3. Typed'
  BY DEF TurnsInv, Typed, disk, manager, reports, bounds
<1>4. Completed({})
  BY DEF Completed, TurnsInv, Typed, reports
<1>5. Holds(c)' = Holds(c) \ {}
  BY HoldsFrame
<1>6. LoopHolds(c)'
  BY <1>1, <1>2 DEF TurnsInv, LoopHolds
<1>7. LoopMatches(c)'
  BY DEF TurnsInv, JournalsSound, LoopMatches, disk
<1>8. \A d \in Children \ {c} : loop'[d] = loop[d] /\ run'[d] = run[d] /\ steers'[d] = steers[d]
  BY DEF TurnsInv, Typed
<1>9. UNCHANGED <<op, kids, listed, next, jour, quar, told, refused>> /\ {} \in SUBSET Holds(c) /\ loop[c].st # "gone"
  BY <1>1 DEF manager, disk, bounds, reports
<1> QED
  BY <1>3, <1>4, <1>5, <1>6, <1>7, <1>8, <1>9, QuietKeeps

LEMMA RunTyped ==
  ASSUME Typed, NEW c \in Children
  PROVE  /\ run[c] \in Runs /\ run = [run EXCEPT ![c] = run[c]]
         /\ steers[c] \in 0..1 /\ steers = [steers EXCEPT ![c] = steers[c]]
         /\ tickets \in Seq(Children) /\ reserved \in SUBSET Children
  BY DEF Typed

LEMMA RunnerEnqueueKeeps ==
  ASSUME TurnsInv, NEW c \in Children, RunnerEnqueue(c)
  PROVE  TurnsInv'
<1> DEFINE r == [run[c] EXCEPT !.pc = "enqueued"]
<1>1. run[c] \in Runs /\ steers[c] \in 0..1 /\ steers = [steers EXCEPT ![c] = steers[c]]
  BY RunTyped DEF TurnsInv
<1>2. r \in Runs /\ r.pc = "enqueued" /\ run' = [run EXCEPT ![c] = r] /\ run[c].pc # "idle"
  BY <1>1 DEF RunnerEnqueue, Runs
<1> HIDE DEF r
<1>4. tickets' \in Seq(Children) /\ reserved' \subseteq Children
  BY RunTyped, AppendProperties DEF TurnsInv, RunnerEnqueue
<1>5. UNCHANGED <<disk, manager, op, loop, reports, bounds>> /\ steers' = [steers EXCEPT ![c] = steers[c]]
  BY <1>1 DEF RunnerEnqueue
<1> QED
  BY <1>1, <1>2, <1>4, <1>5, RunnerKeeps

LEMMA AdmitKeeps ==
  ASSUME TurnsInv, NEW c \in Children, Admit(c)
  PROVE  TurnsInv'
<1>1. /\ run[c] \in Runs /\ run = [run EXCEPT ![c] = run[c]] /\ steers[c] \in 0..1
      /\ steers = [steers EXCEPT ![c] = steers[c]]
      /\ tickets \in Seq(Children) /\ reserved \in SUBSET Children
  BY RunTyped DEF TurnsInv
<1>2. PICK k \in Admissible : /\ reserved' = reserved \union {tickets[k]}
                              /\ tickets' = Without(tickets, {tickets[k]})
  BY DEF Admit
<1>3. tickets[k] \in Children
  BY <1>1, ElementOfSeq, LenProperties DEF Admissible
<1>4. tickets' \in Seq(Children) /\ reserved' \subseteq Children
  BY <1>1, <1>2, <1>3, WithoutTyped
<1>5. /\ run[c].pc # "idle" /\ (run[c].pc \in {"leaving", "returned"} => run[c].res # "ok")
      /\ run' = [run EXCEPT ![c] = run[c]] /\ steers' = [steers EXCEPT ![c] = steers[c]]
      /\ UNCHANGED <<disk, manager, op, loop, reports, bounds>>
  BY <1>1 DEF Admit, Dispatching, TurnsInv, LoopHolds
<1> QED
  BY <1>1, <1>4, <1>5, RunnerKeeps

LEMMA DispatchEndsKeeps ==
  ASSUME TurnsInv, NEW c \in Children, DispatchEnds(c)
  PROVE  TurnsInv'
<1> DEFINE r == [run[c] EXCEPT !.pc = IF @ = "enqueued" THEN "waiting" ELSE "returned"]
<1>1. /\ run[c] \in Runs /\ steers[c] \in 0..1 /\ steers = [steers EXCEPT ![c] = steers[c]]
      /\ tickets \in Seq(Children) /\ reserved \in SUBSET Children
  BY RunTyped DEF TurnsInv
<1>2. /\ r \in Runs /\ r.pc # "idle" /\ r.res = run[c].res /\ run' = [run EXCEPT ![c] = r]
      /\ run[c].pc # "idle" /\ (r.pc \in {"leaving", "returned"} => run[c].pc = "leaving")
  BY <1>1 DEF DispatchEnds, Dispatching, Runs
<1> HIDE DEF r
<1>3. r.pc \in {"leaving", "returned"} => r.res # "ok"
  BY <1>2 DEF TurnsInv, LoopHolds
<1>4. tickets' \in Seq(Children) /\ reserved' \subseteq Children
  BY <1>1 DEF DispatchEnds, slots
<1>5. UNCHANGED <<disk, manager, op, loop, reports, bounds>> /\ steers' = [steers EXCEPT ![c] = steers[c]]
  BY <1>1 DEF DispatchEnds
<1> QED
  BY <1>1, <1>2, <1>3, <1>4, <1>5, RunnerKeeps

LEMMA RunnerReadyKeeps ==
  ASSUME TurnsInv, NEW c \in Children, RunnerReady(c)
  PROVE  TurnsInv'
<1> DEFINE r == [run[c] EXCEPT !.pc = "working"]
<1>1. /\ run[c] \in Runs /\ steers[c] \in 0..1 /\ steers = [steers EXCEPT ![c] = steers[c]]
      /\ tickets \in Seq(Children) /\ reserved \in SUBSET Children
  BY RunTyped DEF TurnsInv
<1>2. r \in Runs /\ r.pc = "working" /\ run' = [run EXCEPT ![c] = r] /\ run[c].pc # "idle"
  BY <1>1 DEF RunnerReady, Runs
<1> HIDE DEF r
<1>5. /\ UNCHANGED <<disk, manager, op, loop, reports, bounds>> /\ steers' = [steers EXCEPT ![c] = steers[c]]
      /\ tickets' \in Seq(Children) /\ reserved' \subseteq Children
  BY <1>1 DEF RunnerReady, slots
<1> QED
  BY <1>1, <1>2, <1>5, RunnerKeeps

\* A runner that leaves, without its ticket or its slot.
LEMMA LeaveKeeps ==
  ASSUME TurnsInv, NEW c \in Children, run[c].pc # "idle",
         NEW res \in {"failed", "interrupted", "finished"}, Leave(c, res),
         tickets' = tickets \/ tickets' = Without(tickets, {c}),
         reserved' = reserved \/ reserved' = reserved \ {c},
         UNCHANGED <<disk, manager, op, loop, steers, reports, bounds>>
  PROVE  TurnsInv'
<1> DEFINE r == [pc |-> "leaving", res |-> res]
<1>1. /\ run[c] \in Runs /\ steers[c] \in 0..1 /\ steers = [steers EXCEPT ![c] = steers[c]]
      /\ tickets \in Seq(Children) /\ reserved \in SUBSET Children
  BY RunTyped DEF TurnsInv
<1>2. r \in Runs /\ r.pc = "leaving" /\ r.res # "ok" /\ run' = [run EXCEPT ![c] = r]
  BY DEF Leave, Runs
<1> HIDE DEF r
<1>3. tickets' \in Seq(Children) /\ reserved' \subseteq Children
  BY <1>1, WithoutTyped
<1>4. steers' = [steers EXCEPT ![c] = steers[c]]
  BY <1>1
<1> QED
  BY <1>1, <1>2, <1>3, <1>4, RunnerKeeps

LEMMA RunnerCancelledKeeps ==
  ASSUME TurnsInv, NEW c \in Children, RunnerCancelled(c)
  PROVE  TurnsInv'
  BY LeaveKeeps DEF RunnerCancelled

LEMMA RunnerTimeoutKeeps ==
  ASSUME TurnsInv, NEW c \in Children, RunnerTimeout(c)
  PROVE  TurnsInv'
<1> DEFINE r == [run[c] EXCEPT !.pc = "working"]
<1>1. /\ run[c] \in Runs /\ steers[c] \in 0..1 /\ steers = [steers EXCEPT ![c] = steers[c]]
      /\ tickets \in Seq(Children) /\ reserved \in SUBSET Children
  BY RunTyped DEF TurnsInv
<1>2. run[c].pc # "idle" /\ UNCHANGED <<disk, manager, op, loop, steers, reserved, reports, bounds>>
  BY DEF RunnerTimeout
<1>3. CASE c \in reserved
  <2>1. r \in Runs /\ r.pc = "working" /\ run' = [run EXCEPT ![c] = r]
    BY <1>1, <1>3 DEF RunnerTimeout, Runs
  <2> HIDE DEF r
  <2>2. tickets' \in Seq(Children) /\ reserved' \subseteq Children /\ steers' = [steers EXCEPT ![c] = steers[c]]
    BY <1>1, <1>2, <1>3 DEF RunnerTimeout
  <2> QED
    BY <1>1, <1>2, <2>1, <2>2, RunnerKeeps
<1>4. CASE c \notin reserved
  <2>1. Leave(c, "failed") /\ tickets' = Without(tickets, {c})
    BY <1>4 DEF RunnerTimeout
  <2> QED
    BY <1>2, <2>1, LeaveKeeps
<1> QED
  BY <1>3, <1>4

LEMMA RunnerReadsKeeps ==
  ASSUME TurnsInv, NEW c \in Children, RunnerReads(c)
  PROVE  TurnsInv'
<1>1. /\ run[c] \in Runs /\ run = [run EXCEPT ![c] = run[c]] /\ 0 \in 0..1
      /\ tickets \in Seq(Children) /\ reserved \in SUBSET Children
  BY RunTyped DEF TurnsInv
<1>2. /\ run[c].pc # "idle" /\ (run[c].pc \in {"leaving", "returned"} => run[c].res # "ok")
      /\ run' = [run EXCEPT ![c] = run[c]] /\ steers' = [steers EXCEPT ![c] = 0]
      /\ tickets' \in Seq(Children) /\ reserved' \subseteq Children
      /\ UNCHANGED <<disk, manager, op, loop, reports, bounds>>
  BY <1>1 DEF RunnerReads, slots
<1> QED
  BY <1>1, <1>2, RunnerKeeps

LEMMA SteerKeeps ==
  ASSUME TurnsInv, NEW c \in Children, Steer(c)
  PROVE  TurnsInv'
<1>1. /\ run[c] \in Runs /\ run = [run EXCEPT ![c] = run[c]] /\ 1 \in 0..1
      /\ tickets \in Seq(Children) /\ reserved \in SUBSET Children
  BY RunTyped DEF TurnsInv
<1>2. /\ run[c].pc # "idle" /\ (run[c].pc \in {"leaving", "returned"} => run[c].res # "ok")
      /\ run' = [run EXCEPT ![c] = run[c]] /\ steers' = [steers EXCEPT ![c] = 1]
      /\ tickets' \in Seq(Children) /\ reserved' \subseteq Children
      /\ UNCHANGED <<disk, manager, op, loop, reports, bounds>>
  BY <1>1 DEF Steer, slots
<1> QED
  BY <1>1, <1>2, RunnerKeeps

LEMMA RunnerFinishKeeps ==
  ASSUME TurnsInv, NEW c \in Children, RunnerFinish(c)
  PROVE  TurnsInv'
<1>1. PICK res \in {"failed", "interrupted", "finished"} : Leave(c, res)
  BY DEF RunnerFinish
<1>2. /\ run[c].pc # "idle" /\ reserved' = reserved \ {c} /\ tickets' = tickets
      /\ UNCHANGED <<disk, manager, op, loop, steers, reports, bounds>>
  BY DEF RunnerFinish
<1> QED
  BY <1>1, <1>2, LeaveKeeps

----------------------------------------------------------------------------
(* The end of a turn.                                                      *)

LEMMA TakeResultKeeps ==
  ASSUME TurnsInv, NEW c \in Children, TakeResult(c)
  PROVE  TurnsInv'
<1> DEFINE l == loop[c]
           r == IF l.turnInterrupted /\ run[c].res = "finished" THEN "interrupted" ELSE run[c].res
<1>1. /\ l \in Loops /\ l.st = "live" /\ l.running /\ run[c].pc = "returned"
      /\ l.active \in Turns /\ l.active \notin ElementsOf(l.queue)
      /\ l.queue \in Seq(Turns) /\ Distinct(l.queue)
      /\ run' = [run EXCEPT ![c] = NoRun]
      /\ UNCHANGED <<quar, manager, op, slots, told, refused, next, restarts>>
  BY DEF TakeResult, Selecting, TurnsInv, Typed, Loops, LoopHolds
<1>2. r \in {"finished", "failed", "interrupted"}
  <2>1. run[c].res \in {"ok", "finished", "failed", "interrupted"}
    BY DEF TurnsInv, Typed, Runs
  <2>2. run[c].res # "ok"
    BY <1>1 DEF TurnsInv, LoopHolds
  <2> QED
    BY <2>1, <2>2
<1>3. StateAfter[r] \in ResidentStates
  BY <1>2 DEF StateAfter, ResidentStates
<1>4. NoRun \in Runs /\ NoRun.pc = "idle" /\ run'[c] = NoRun /\ run' \in [Children -> Runs]
  BY <1>1 DEF NoRun, Runs, TurnsInv, Typed
<1>5. CASE l.interrupted
  <2> DEFINE a == [l EXCEPT !.running = FALSE, !.turnInterrupted = FALSE]
  <2>1. loop' = [loop EXCEPT ![c] = a] /\ UNCHANGED <<jour, faults, comp, steers>>
    BY <1>5 DEF TakeResult
  <2>2. /\ a \in Loops /\ a.interrupted /\ a.hit = l.hit /\ a.dropped = l.dropped /\ a.queue = l.queue
        /\ ~ a.running /\ a.active = l.active /\ a.st = "live"
    BY <1>1, <1>5 DEF Loops
  <2> HIDE DEF a
  <2>3. l.hit
    BY <1>1, <1>5 DEF TurnsInv, LoopHolds
  <2>4. loop'[c] = a /\ steers'[c] = steers[c]
    BY <2>1 DEF TurnsInv, Typed
  <2>5. Typed'
    BY <1>1, <1>4, <2>1, <2>2 DEF TurnsInv, Typed, manager, slots
  <2>6. Completed({})
    BY <2>1 DEF Completed, TurnsInv, Typed
  <2>7. Holds(c)' = Holds(c) \ {}
    BY <2>2, <2>3, <2>4 DEF Holds
  <2>8. LoopHolds(c)'
    BY <1>1, <1>4, <1>5, <2>2, <2>3, <2>4 DEF LoopHolds
  <2>9. LoopMatches(c)'
    <3>1. LoopMatches(c)
      BY DEF TurnsInv, JournalsSound
    <3> QED
      BY <2>1, <2>2, <2>4, <3>1 DEF LoopMatches
  <2>10. \A d \in Children \ {c} : loop'[d] = loop[d] /\ run'[d] = run[d] /\ steers'[d] = steers[d]
    BY <1>1, <2>1 DEF TurnsInv, Typed
  <2>11. /\ UNCHANGED <<op, kids, listed, next, jour, quar, told, refused>> /\ {} \in SUBSET Holds(c)
         /\ loop[c].st # "gone"
    BY <1>1, <2>1 DEF manager
  <2> QED
    BY <2>5, <2>6, <2>7, <2>8, <2>9, <2>10, <2>11, QuietKeeps
<1>6. CASE ~ l.interrupted
  <2>1. /\ steers' = [steers EXCEPT ![c] = 0]
        /\ \E w \in Writes(jour[c], r, l.active) :
             /\ Wrote(c, w)
             /\ Completed({l.active})
             /\ loop' = [loop EXCEPT ![c] = [l EXCEPT !.running = FALSE,
                             !.active = NoTurn, !.turnInterrupted = FALSE,
                             !.state = IF w.ok THEN StateAfter[r] ELSE "failed",
                             !.st = IF w.ok THEN @ ELSE "leaving"]]
    BY <1>6 DEF TakeResult
  <2> HIDE DEF r
  <2>2. PICK w \in Writes(jour[c], r, l.active) :
             /\ Wrote(c, w)
             /\ Completed({l.active})
             /\ loop' = [loop EXCEPT ![c] = [l EXCEPT !.running = FALSE,
                             !.active = NoTurn, !.turnInterrupted = FALSE,
                             !.state = IF w.ok THEN StateAfter[r] ELSE "failed",
                             !.st = IF w.ok THEN @ ELSE "leaving"]]
    BY <2>1
  <2>3. /\ Holds(c) = ElementsOf(l.queue) \union {l.active} /\ Holds(c) \in SUBSET Turns
        /\ l.dropped = <<>> /\ ~ l.hit
    BY <1>1, <1>6, LiveHolds
  <2>4. Readable(jour[c]) => /\ \A t \in ElementsOf(l.queue) : jour[c].seen[t] = "accepted"
                             /\ jour[c].seen[l.active] = "started"
    BY <1>1, <1>6 DEF TurnsInv, JournalsSound, LoopMatches
  <2>5. r \in Records /\ (Readable(jour[c]) => Legal(jour[c], r, l.active))
    BY <1>2, <2>4 DEF Records, Legal
  <2>6. /\ w.j \in Journals /\ w.ok \in BOOLEAN
        /\ jour' = [jour EXCEPT ![c] = w.j] /\ jour'[c] = w.j /\ faults' \in Nat
        /\ After(jour[c], w.j, {l.active})
    <3>1. Recorded(c, r, l.active, w)
      BY <1>1, <2>2, <2>5, RecordEffect
    <3> QED
      BY <3>1 DEF Recorded
  <2>7. steers'[c] = 0 /\ steers' \in [Children -> 0..1]
    BY <2>1 DEF TurnsInv, Typed
  <2> DEFINE a == [l EXCEPT !.running = FALSE, !.active = NoTurn, !.turnInterrupted = FALSE,
                       !.state = IF w.ok THEN StateAfter[r] ELSE "failed",
                       !.st = IF w.ok THEN @ ELSE "leaving"]
  <2>8. /\ a \in Loops /\ ~ a.interrupted /\ ~ a.hit /\ a.dropped = <<>> /\ a.queue = l.queue
        /\ ~ a.running /\ a.st \in {"live", "leaving"}
    BY <1>1, <1>3, <1>6, <2>3, <2>6 DEF Loops, ResidentStates
  <2>9. loop' = [loop EXCEPT ![c] = a]
    BY <2>2
  <2> HIDE DEF a
  <2>10. loop'[c] = a
    BY <2>9 DEF TurnsInv, Typed
  <2>11. Typed'
    <3>1. comp' \in [Turns -> Nat]
      BY <2>2, CompletedTyped DEF TurnsInv
    <3>2. jour' \in [Children -> Journals] /\ loop' \in [Children -> Loops]
      BY <2>6, <2>8, <2>9 DEF TurnsInv, Typed
    <3> QED
      BY <1>1, <1>4, <2>6, <2>7, <3>1, <3>2 DEF TurnsInv, Typed, manager, slots
  <2>12. Holds(c)' = Holds(c) \ {l.active}
    <3>1. Holds(c)' = ElementsOf(l.queue)
      BY <2>8, <2>10, EmptyHolds DEF Holds
    <3> QED
      BY <1>1, <2>3, <3>1
  <2>13. LoopHolds(c)'
    BY <1>1, <1>4, <2>7, <2>8, <2>10 DEF LoopHolds
  <2>14. LoopMatches(c)'
    BY <1>1, <2>3, <2>4, <2>6, <2>8, <2>10 DEF LoopMatches, After
  <2>15. \A d \in Children \ {c} : loop'[d] = loop[d] /\ run'[d] = run[d] /\ steers'[d] = steers[d]
    BY <1>1, <2>1, <2>9 DEF TurnsInv, Typed
  <2>16. After(jour[c], w.j, Holds(c))
    BY <2>3, <2>6, AfterMore
  <2>17. /\ UNCHANGED <<op, kids, listed, next, quar, told, refused>> /\ loop[c].st # "gone"
         /\ {l.active} \in SUBSET Holds(c)
    BY <1>1, <2>3 DEF manager
  <2> QED
    BY <2>2, <2>6, <2>11, <2>12, <2>13, <2>14, <2>15, <2>16, <2>17, ChildKeeps
<1> QED
  BY <1>1, <1>5, <1>6

LEMMA NoOpEffect ==
  NoOp \in Ops /\ NoOp.k = "none" /\ NoOp.pc = "none" /\ NoOp.t = NoTurn
  BY DEF NoOp, Ops

SameLoop(d) ==
    /\ loop'[d].st = loop[d].st /\ loop'[d].interrupted = loop[d].interrupted
    /\ loop'[d].running = loop[d].running /\ loop'[d].hit = loop[d].hit
    /\ loop'[d].active = loop[d].active
    /\ loop'[d].queue = loop[d].queue /\ loop'[d].dropped = loop[d].dropped

LEMMA SameLoopKeeps ==
  ASSUME TurnsInv, NEW d \in Children, SameLoop(d), run'[d] = run[d], steers'[d] = steers[d]
  PROVE  /\ LoopHolds(d)' /\ Holds(d)' = Holds(d)
         /\ jour'[d] = jour[d] => LoopMatches(d)'
<1>1. Holds(d)' = Holds(d)
  BY DEF Holds, SameLoop
<1>2. LoopHolds(d)'
  BY DEF TurnsInv, LoopHolds, SameLoop
<1>3. ASSUME jour'[d] = jour[d] PROVE LoopMatches(d)'
  <2>1. LoopMatches(d)
    BY DEF TurnsInv, JournalsSound
  <2>2. ElementsOf(loop'[d].queue) = ElementsOf(loop[d].queue)
    BY DEF SameLoop
  <2> QED
    BY <1>3, <2>1, <2>2 DEF LoopMatches, SameLoop
<1> QED
  BY <1>1, <1>2, <1>3

\* A loop that is told of its cancellation.
LEMMA CancelKeeps ==
  ASSUME TurnsInv, NEW c \in Children, NEW b \in BOOLEAN,
         loop' = [loop EXCEPT ![c].cancelled = b], UNCHANGED <<run, steers>>
  PROVE  /\ loop' \in [Children -> Loops]
         /\ \A d \in Children : LoopHolds(d)' /\ Holds(d)' = Holds(d)
         /\ \A d \in Children : jour'[d] = jour[d] => LoopMatches(d)'
         /\ \A d \in Children : d # c => loop'[d] = loop[d]
<1> DEFINE l == loop[c]
           a == [l EXCEPT !.cancelled = b]
<1>1. loop' = [loop EXCEPT ![c] = a] /\ l \in Loops /\ loop \in [Children -> Loops]
  BY DEF TurnsInv, Typed
<1>2. /\ a \in Loops /\ a.st = l.st /\ a.interrupted = l.interrupted /\ a.running = l.running
      /\ a.hit = l.hit /\ a.active = l.active /\ a.queue = l.queue /\ a.dropped = l.dropped
  BY <1>1 DEF Loops
<1> HIDE DEF a
<1>3. /\ loop'[c] = a /\ loop' \in [Children -> Loops]
      /\ \A d \in Children : d # c => loop'[d] = loop[d]
  BY <1>1, <1>2
<1>4. \A d \in Children : SameLoop(d)
  BY <1>2, <1>3 DEF SameLoop
<1> QED
  BY <1>3, <1>4, SameLoopKeeps

\* A loop that is gone makes place for a new one, or for none.
LEMMA LoopTyped ==
  /\ NoLoop \in Loops /\ NewLoop \in Loops /\ NewLoop.st = "live" /\ NoLoop.st = "gone"
  /\ \A a \in {NoLoop, NewLoop} : /\ a.queue = <<>> /\ a.dropped = <<>>
                                  /\ ~ a.interrupted /\ ~ a.running /\ ~ a.hit
<1>1. <<>> \in Seq(Turns)
  BY EmptyHolds
<1>2. /\ NoLoop \in Loops /\ NoLoop.st = "gone" /\ NoLoop.queue = <<>> /\ NoLoop.dropped = <<>>
      /\ ~ NoLoop.interrupted /\ ~ NoLoop.running /\ ~ NoLoop.hit
  BY <1>1 DEF NoLoop, Loops, ResidentStates
<1> HIDE DEF NoLoop
<1>3. /\ NewLoop \in Loops /\ NewLoop.st = "live" /\ NewLoop.queue = <<>> /\ NewLoop.dropped = <<>>
      /\ ~ NewLoop.interrupted /\ ~ NewLoop.running /\ ~ NewLoop.hit
  BY <1>2 DEF NewLoop, Loops
<1> HIDE DEF NewLoop
<1> QED
  BY <1>2, <1>3

LEMMA GoneHoldsNothing ==
  ASSUME TurnsInv, NEW c \in Children, loop[c].st = "gone"
  PROVE  Holds(c) = {} /\ run[c].pc = "idle" /\ steers[c] = 0
<1>1. LoopHolds(c) /\ steers[c] \in 0..1
  BY DEF TurnsInv, Typed
<1> QED
  BY <1>1, EmptyHolds DEF Holds, LoopHolds

LEMMA ReplaceKeeps ==
  ASSUME TurnsInv, NEW c \in Children, NEW a \in {NoLoop, NewLoop}, loop[c].st = "gone",
         loop' = [loop EXCEPT ![c] = a], UNCHANGED <<run, steers>>
  PROVE  /\ loop' \in [Children -> Loops]
         /\ \A d \in Children : LoopHolds(d)' /\ Holds(d)' = Holds(d)
         /\ \A d \in Children : jour'[d] = jour[d] \/ d = c => LoopMatches(d)'
         /\ \A d \in Children : d # c => loop'[d] = loop[d]
         /\ loop'[c] = a
<1>1. /\ loop'[c] = a /\ loop' \in [Children -> Loops]
      /\ \A d \in Children : d # c => loop'[d] = loop[d]
  BY LoopTyped DEF TurnsInv, Typed
<1>2. LoopHolds(c)' /\ Holds(c)' = Holds(c)
  <2>1. Holds(c) = {} /\ run[c].pc = "idle" /\ steers[c] = 0
    BY GoneHoldsNothing
  <2>2. Holds(c)' = {}
    BY <1>1, LoopTyped, EmptyHolds, <2>1 DEF Holds
  <2>3. LoopHolds(c)'
    BY <1>1, LoopTyped, EmptyHolds, <2>1 DEF LoopHolds
  <2> QED
    BY <2>1, <2>2, <2>3
<1>3. LoopMatches(c)'
  BY <1>1, LoopTyped, EmptyHolds DEF LoopMatches
<1>4. \A d \in Children : d # c => SameLoop(d)
  BY <1>1 DEF SameLoop
<1>5. \A d \in Children : d # c => LoopHolds(d)' /\ Holds(d)' = Holds(d) /\ (jour'[d] = jour[d] => LoopMatches(d)')
  BY <1>4, SameLoopKeeps
<1> QED
  BY <1>1, <1>2, <1>3, <1>5

\* A turn more that is told of, the turn of the operation reported.
LEMMA ToldKeeps ==
  ASSUME TurnsInv, \A d \in Children : Holds(d)' = Holds(d),
         NEW R \in SUBSET {op.t}, R # {} => Offered, Completed(R),
         told \subseteq told', told' \subseteq told \union {op'.t}, told' \subseteq Turns,
         \A t \in told' : t < next', refused \subseteq refused',
         \/ op'.t = op.t
         \/ op.t \in R \/ op.t \in refused'
         \/ op.t \notin told \/ comp[op.t] > 0 \/ \E d \in Children : op.t \in Holds(d)
  PROVE  HeldOnce'
<1>t. comp \in [Turns -> Nat] /\ told \subseteq Turns
  BY DEF TurnsInv, Typed
<1>1. \A t \in R : t \in told /\ comp[t] = 0 /\ \A d \in Children : t \notin Holds(d)
  BY DEF TurnsInv, OpHolds
<1>2. \A t \in Turns : comp'[t] = IF t \in R THEN comp[t] + 1 ELSE comp[t]
  BY DEF Completed
<1>3. \A d \in Children : \A t \in Holds(d) : t \in told /\ comp[t] = 0
  BY DEF TurnsInv, HeldOnce
<1>4. \A d \in Children : \A t \in Holds(d)' : t \in told' /\ comp'[t] = 0
  BY <1>t, <1>1, <1>2, <1>3
<1>5. \A d, e \in Children : d # e => Holds(d)' \cap Holds(e)' = {}
  BY DEF TurnsInv, HeldOnce
<1>6. TurnsHeld'
  <2> SUFFICES ASSUME NEW t \in Turns
               PROVE  /\ comp'[t] > 0 => comp'[t] = 1 /\ t \in told' /\ \A d \in Children : t \notin Holds(d)'
                      /\ t \in told' /\ comp'[t] = 0 =>
                           t \in refused' \/ t = op'.t \/ \E d \in Children : t \in Holds(d)'
    BY DEF TurnsHeld
  <2>1. CASE t \in R
    BY <1>t, <1>1, <1>2, <2>1
  <2>2. CASE t \notin R
    <3>1. comp'[t] = comp[t]
      BY <1>2, <2>2
    <3>2. /\ comp[t] > 0 => comp[t] = 1 /\ t \in told /\ \A d \in Children : t \notin Holds(d)
          /\ t \in told /\ comp[t] = 0 =>
               t \in refused \/ t = op.t \/ \E d \in Children : t \in Holds(d)
      BY DEF TurnsInv, HeldOnce, TurnsHeld
    <3>3. comp'[t] > 0 => comp'[t] = 1 /\ t \in told' /\ \A d \in Children : t \notin Holds(d)'
      BY <3>1, <3>2
    <3>4. ASSUME t \in told', comp'[t] = 0
          PROVE  t \in refused' \/ t = op'.t \/ \E d \in Children : t \in Holds(d)'
      <4>1. CASE t \in told
        <5>1. t \in refused \/ t = op.t \/ \E d \in Children : t \in Holds(d)
          BY <3>1, <3>2, <3>4, <4>1
        <5>2. (\E d \in Children : t \in Holds(d)) => \E d \in Children : t \in Holds(d)'
          OBVIOUS
        <5>3. t \in refused => t \in refused'
          OBVIOUS
        <5>6. comp[t] = 0 /\ ~ comp[t] > 0
          BY <3>1, <3>4
        <5>4. t = op.t => ~ comp[op.t] > 0 /\ op.t \notin R /\ op.t \in told
          BY <2>2, <4>1, <5>6
        <5>5. t = op.t => op'.t = op.t \/ op.t \in refused' \/ \E d \in Children : op.t \in Holds(d)
          BY <5>4
        <5> QED
          BY <5>1, <5>2, <5>3, <5>5
      <4>2. CASE t \notin told
        BY <3>4, <4>2
      <4> QED
        BY <4>1, <4>2
    <3> QED
      BY <3>3, <3>4
  <2> QED
    BY <2>1, <2>2
<1> QED
  BY <1>4, <1>5, <1>6 DEF HeldOnce

\* Nothing is told or reported, and the operation keeps its turn or has none to keep.
LEMMA QuietHeld ==
  ASSUME TurnsInv, \A d \in Children : Holds(d)' = Holds(d), UNCHANGED <<told, comp>>,
         refused \subseteq refused', next' \in {next, next + 1},
         op'.t = op.t \/ op.t \in refused' \/ op.t \notin told \/ comp[op.t] > 0
           \/ \E d \in Children : op.t \in Holds(d)
  PROVE  HeldOnce'
<1>1. Completed({}) /\ told \subseteq Turns
  BY DEF Completed, TurnsInv, Typed
<1>2. \A t \in told' : t < next'
  <2>1. \A t \in told : t < next
    BY DEF TurnsInv, HeldOnce
  <2>2. next \in Int /\ told \subseteq Int
    BY <1>1 DEF TurnsInv, Typed, Turns
  <2> QED
    BY <2>1, <2>2
<1> QED
  BY <1>1, <1>2, ToldKeeps

----------------------------------------------------------------------------
(* What a step of the manager does with the journals.                        *)

JournalsKept ==
    /\ quar' = quar /\ next' \in {next, next + 1}
    /\ \A d \in Children : /\ jour'[d].state # "disordered"
                           /\ d \in quar => jour'[d].state = jour[d].state
                           /\ \A t \in Turns : t >= next' => jour'[d].seen[t] = "none"

\* Turns not asked for yet have no record, a number later.
LEMMA LaterTurns ==
  ASSUME TurnsInv, NEW d \in Children, next' \in {next, next + 1}
  PROVE  \A t \in Turns : t >= next' => jour[d].seen[t] = "none"
<1>1. \A t \in Turns : t >= next' => t >= next
  BY ResidentsAssumption DEF TurnsInv, Typed, Turns
<1> QED
  BY <1>1 DEF TurnsInv, JournalsSound

LEMMA SameKept ==
  ASSUME TurnsInv, UNCHANGED <<jour, quar>>, next' \in {next, next + 1}
  PROVE  JournalsKept
  BY LaterTurns DEF JournalsKept, TurnsInv, JournalsSound

LEMMA WrittenKept ==
  ASSUME TurnsInv, NEW c \in Children, c \notin quar, NEW k \in Journals, k.state # "disordered",
         jour' = [jour EXCEPT ![c] = k], quar' = quar, next' \in {next, next + 1},
         \A u \in Turns : u >= next' /\ jour[c].seen[u] = "none" => k.seen[u] = "none"
  PROVE  JournalsKept
<1>1. \A d \in Children : jour'[d] = IF d = c THEN k ELSE jour[d]
  BY DEF TurnsInv, Typed
<1>2. \A d \in Children : \A t \in Turns : t >= next' => jour[d].seen[t] = "none"
  BY LaterTurns
<1> QED
  BY <1>1, <1>2 DEF JournalsKept, TurnsInv, JournalsSound

\* A record of a turn that no loop holds.
LEMMA RecordKept ==
  ASSUME TurnsInv, NEW c \in Children, c \notin quar, NEW type \in Records, NEW t \in Turns, NEW w,
         Recorded(c, type, t, w), quar' = quar, next' \in {next, next + 1}, t < next',
         \A d \in Children : t \notin Holds(d)
  PROVE  /\ JournalsKept /\ jour' \in [Children -> Journals]
         /\ \A d \in Children : SameLoop(d) => LoopMatches(d)'
<1>1. /\ w.j \in Journals /\ jour' = [jour EXCEPT ![c] = w.j] /\ After(jour[c], w.j, {t})
      /\ jour \in [Children -> Journals]
  BY DEF Recorded, TurnsInv, Typed
<1>2. \A u \in Turns : u >= next' => u # t
  BY ResidentsAssumption DEF TurnsInv, Typed, Turns
<1>3. JournalsKept
  <2> DEFINE k == w.j
  <2>1. k \in Journals /\ k.state # "disordered" /\ jour' = [jour EXCEPT ![c] = k]
    BY <1>1 DEF After
  <2>2. \A u \in Turns : u >= next' /\ jour[c].seen[u] = "none" => k.seen[u] = "none"
    BY <1>1, <1>2 DEF After
  <2> HIDE DEF k
  <2> QED
    BY <2>1, <2>2, WrittenKept
<1>4. ASSUME NEW d \in Children, SameLoop(d) PROVE LoopMatches(d)'
  <2>1. /\ LoopMatches(d) /\ LoopHolds(d) /\ Holds(d) \subseteq Turns
        /\ ElementsOf(loop[d].queue) \subseteq Holds(d)
        /\ loop[d].running /\ ~loop[d].interrupted => loop[d].active \in Holds(d)
    BY HoldsTyped DEF TurnsInv, JournalsSound, Holds
  <2>2. t \notin Holds(d)
    OBVIOUS
  <2>3. \/ jour'[d] = jour[d]
        \/ Readable(jour'[d]) => Readable(jour[d]) /\ \A u \in Turns \ {t} : jour'[d].seen[u] = jour[d].seen[u]
    BY <1>1 DEF After
  <2> QED
    BY <1>4, <2>1, <2>2, <2>3 DEF LoopMatches, SameLoop
<1> QED
  BY <1>1, <1>3, <1>4

\* What is left to show of the journals is what the operation needs of its own.
LEMMA JournalsFrom ==
  ASSUME TurnsInv, JournalsKept, \A d \in Children : LoopMatches(d)',
         kids' \subseteq kids \union {op.c}, op'.c = op.c \/ op'.c \notin quar,
         op'.pc = "opened" => jour'[op'.c].state = "empty",
         (op'.k = "spawn" /\ op'.pc \in {"build", "publish"}) \/ op'.pc = "offer" =>
           (Readable(jour'[op'.c]) => jour'[op'.c].seen[op'.t] = "accepted")
  PROVE  JournalsSound'
<1>1. \A d \in quar : SetAside(d) /\ d \in Children
  BY DEF TurnsInv, Typed, JournalsSound
<1>2. \A d \in quar' : SetAside(d)'
  BY <1>1 DEF JournalsKept, SetAside
<1> QED
  BY <1>2 DEF JournalsKept, JournalsSound

\* The child of an operation is not set aside.
LEMMA OpChild ==
  ASSUME TurnsInv
  PROVE  op.c \notin quar
  BY DEF TurnsInv, JournalsSound, SetAside

LEMMA NoTurnYet ==
  ASSUME TurnsInv
  PROVE  NoTurn \notin told /\ (~ Accepting => op.t \notin told /\ op.t = NoTurn)
<1>1. NoTurn \notin told
  <2>1. told \subseteq 1..MaxTurns
    BY DEF TurnsInv, Typed, Turns
  <2> QED
    BY <2>1 DEF NoTurn
<1> QED
  BY <1>1 DEF TurnsInv, OpFits

----------------------------------------------------------------------------
(* The requests that begin an operation.                                     *)

LEMMA IdleOp ==
  ASSUME TurnsInv, Idle
  PROVE  /\ op.t = NoTurn /\ op.t \notin told /\ op.pc = "none" /\ op.k = "none" /\ ~ Offered /\ listed = {}
         /\ \A d \in Children : d \notin kids => loop[d] = NoLoop
<1>1. op.k = "none" /\ op.pc = "none" /\ ~ Accepting /\ listed = {}
  BY DEF TurnsInv, OpFits, Idle, Accepting
<1>2. op.t = NoTurn /\ op.t \notin told
  BY <1>1, NoTurnYet
<1>3. \A d \in Children : d \notin kids => loop[d] = NoLoop
  BY <1>1 DEF TurnsInv, LoopsOfKids, Unborn
<1> QED
  BY <1>1, <1>2, <1>3 DEF Offered

LEMMA FreshTurn ==
  ASSUME TurnsInv, next <= MaxTurns
  PROVE  /\ next \in Turns /\ next \notin told /\ next + 1 \in 1..(MaxTurns + 1) /\ next < next + 1
         /\ \A d \in Children : jour[d].seen[next] = "none" /\ next \notin Holds(d)
         /\ comp[next] = 0
<1>1. next \in 1..(MaxTurns + 1) /\ MaxTurns \in Nat
  BY ResidentsAssumption DEF TurnsInv, Typed
<1>2. next \in Turns /\ next + 1 \in 1..(MaxTurns + 1) /\ next < next + 1 /\ next >= next /\ ~ next < next
  BY <1>1 DEF Turns
<1>3. next \notin told
  BY <1>2 DEF TurnsInv, HeldOnce
<1>4. comp[next] = 0
  <2>1. comp[next] \in Nat /\ ~ comp[next] > 0
    BY <1>2, <1>3 DEF TurnsInv, Typed, HeldOnce, TurnsHeld
  <2> QED
    BY <2>1
<1>5. \A d \in Children : jour[d].seen[next] = "none" /\ next \notin Holds(d)
  BY <1>2, <1>3 DEF TurnsInv, HeldOnce, JournalsSound
<1> QED
  BY <1>2, <1>3, <1>4, <1>5

LEMMA BegunOp ==
  ASSUME NEW k \in {"spawn", "resume", "interrupt", "stop", "reconcile"}, NEW c \in Children \union {NoChild},
         NEW pc \in {"opened", "publish", "accept", "dropping", "wait", "listing"}, Begin(k, c, pc)
  PROVE  op' \in Ops /\ op'.k = k /\ op'.c = c /\ op'.t = NoTurn /\ op'.pc = pc
  BY DEF Begin, Ops

\* An operation that begins without a record, on a child that may be used.
LEMMA BeginKeeps ==
  ASSUME TurnsInv, Idle, NEW c \in Children, c \notin quar,
         \/ Begin("resume", c, "accept") \/ Begin("interrupt", c, "dropping") \/ Begin("stop", c, "wait"),
         Typed', \A d \in Children : LoopHolds(d)' /\ Holds(d)' = Holds(d) /\ LoopMatches(d)',
         \A d \in Children : d \notin kids => loop'[d] = NoLoop,
         UNCHANGED <<disk, manager, reports, next>>
  PROVE  TurnsInv'
<1>1. \E k \in {"resume", "interrupt", "stop"} : \E pc \in {"accept", "dropping", "wait"} :
        /\ op'.k = k /\ op'.c = c /\ op'.t = NoTurn /\ op'.pc = pc
        /\ (k = "resume" <=> pc = "accept") /\ (k = "interrupt" <=> pc = "dropping") /\ (k = "stop" <=> pc = "wait")
  BY BegunOp
<1>2. op.t \notin told /\ listed = {}
  BY IdleOp
<1>3. HeldOnce'
  BY <1>2, QuietHeld DEF reports
<1>4. OpFits'
  BY <1>1, <1>2 DEF OpFits, Accepting, manager
<1>5. LoopsOfKids'
  BY <1>1 DEF LoopsOfKids, Unborn, manager
<1>6. OpHolds'
  BY <1>1 DEF OpHolds, Offered
<1>7. JournalsSound'
  <2>1. JournalsKept
    BY SameKept DEF disk
  <2> QED
    BY <1>1, <2>1, JournalsFrom DEF manager
<1> QED
  BY <1>3, <1>4, <1>5, <1>6, <1>7 DEF TurnsInv

LEMMA LiveChild ==
  ASSUME TurnsInv, NEW c \in kids
  PROVE  c \notin quar /\ c \in Children
  BY DEF TurnsInv, Typed, JournalsSound, SetAside

LEMMA ResumeLiveKeeps ==
  ASSUME TurnsInv, NEW c \in Children, ResumeLive(c)
  PROVE  TurnsInv'
<1>1. /\ Idle /\ c \in kids /\ Begin("resume", c, "accept")
      /\ UNCHANGED <<disk, manager, loop, run, steers, slots, reports, bounds>>
  BY DEF ResumeLive
<1>2. c \notin quar /\ \A d \in Children : d \notin kids => loop'[d] = NoLoop
  BY <1>1, IdleOp, LiveChild
<1>3. op' \in Ops
  BY <1>1, BegunOp
<1>4. Typed'
  BY <1>1, <1>3 DEF TurnsInv, Typed, disk, manager, slots, reports, bounds
<1>5. \A d \in Children : SameLoop(d) /\ run'[d] = run[d] /\ steers'[d] = steers[d] /\ jour'[d] = jour[d]
  BY <1>1 DEF SameLoop, disk
<1>6. \A d \in Children : LoopHolds(d)' /\ Holds(d)' = Holds(d) /\ LoopMatches(d)'
  BY <1>5, SameLoopKeeps
<1> QED
  BY <1>1, <1>2, <1>4, <1>6, BeginKeeps DEF bounds

\* A loop that is told of an interrupt of its turn.
LEMMA InterruptKeeps ==
  ASSUME TurnsInv, NEW c \in Children, Interrupt(c)
  PROVE  TurnsInv'
<1> DEFINE l == loop[c]
           a == [l EXCEPT !.turnInterrupted = TRUE]
<1>1. /\ Idle /\ c \in kids /\ loop' = [loop EXCEPT ![c] = a] /\ l \in Loops /\ Begin("interrupt", c, "dropping")
      /\ UNCHANGED <<disk, manager, run, steers, slots, reports, bounds>>
  BY DEF Interrupt, TurnsInv, Typed
<1>2. c \notin quar /\ \A d \in Children : d \notin kids => loop[d] = NoLoop
  BY <1>1, IdleOp, LiveChild
<1>3. /\ a \in Loops /\ a.st = l.st /\ a.interrupted = l.interrupted /\ a.running = l.running
      /\ a.hit = l.hit /\ a.active = l.active /\ a.queue = l.queue /\ a.dropped = l.dropped
  BY <1>1 DEF Loops
<1> HIDE DEF a
<1>4. /\ loop'[c] = a /\ loop' \in [Children -> Loops]
      /\ \A d \in Children : d # c => loop'[d] = loop[d]
  BY <1>1, <1>3 DEF TurnsInv, Typed
<1>5. \A d \in Children : SameLoop(d) /\ run'[d] = run[d] /\ steers'[d] = steers[d] /\ jour'[d] = jour[d]
  BY <1>1, <1>3, <1>4 DEF SameLoop, disk
<1>6. \A d \in Children : LoopHolds(d)' /\ Holds(d)' = Holds(d) /\ LoopMatches(d)'
  BY <1>5, SameLoopKeeps
<1>7. op' \in Ops
  BY <1>1, BegunOp
<1>8. Typed'
  BY <1>1, <1>4, <1>7 DEF TurnsInv, Typed, disk, manager, slots, reports, bounds
<1>9. \A d \in Children : d \notin kids => loop'[d] = NoLoop
  BY <1>1, <1>2, <1>4
<1> QED
  BY <1>1, <1>2, <1>6, <1>8, <1>9, BeginKeeps DEF bounds

LEMMA StopBeginKeeps ==
  ASSUME TurnsInv, NEW c \in Children, StopBegin(c)
  PROVE  TurnsInv'
<1>1. /\ Idle /\ c \in kids /\ Begin("stop", c, "wait") /\ loop' = [loop EXCEPT ![c].cancelled = TRUE]
      /\ UNCHANGED <<disk, manager, run, steers, slots, reports, bounds>>
  BY DEF StopBegin
<1>2. c \notin quar /\ \A d \in Children : d \notin kids => loop[d] = NoLoop
  BY <1>1, IdleOp, LiveChild
<1>3. op' \in Ops
  BY <1>1, BegunOp
<1>4. /\ loop' \in [Children -> Loops]
      /\ \A d \in Children : LoopHolds(d)' /\ Holds(d)' = Holds(d)
      /\ \A d \in Children : LoopMatches(d)'
      /\ \A d \in Children : d # c => loop'[d] = loop[d]
  BY <1>1, CancelKeeps DEF disk
<1>5. Typed'
  BY <1>1, <1>3, <1>4 DEF TurnsInv, Typed, disk, manager, slots, reports, bounds
<1>6. \A d \in Children : d \notin kids => loop'[d] = NoLoop
  BY <1>1, <1>2, <1>4
<1> QED
  BY <1>1, <1>2, <1>4, <1>5, <1>6, BeginKeeps DEF bounds

----------------------------------------------------------------------------
(* The steps of an operation.                                                *)

LEMMA AdvanceEffect ==
  ASSUME Typed, Advance("publish") \/ Advance("abandon") \/ Advance("accept") \/ Advance("offer")
                  \/ Advance("undo")
  PROVE  op' \in Ops /\ op'.k = op.k /\ op'.c = op.c /\ op'.t = op.t /\ op'.taken = op.taken
<1>1. op \in Ops
  BY DEF Typed
<1> QED
  BY <1>1 DEF Ops, Advance

LEMMA AdvancePc ==
  ASSUME Typed, NEW pc, Advance(pc)
  PROVE  op'.pc = pc
  BY DEF Typed, Ops, Advance

\* The operation has its turn accepted.
LEMMA AcceptedEffect ==
  ASSUME Typed, next \in Turns, NEW pc \in {"build", "offer"}, Accepted(pc)
  PROVE  op' \in Ops /\ op'.k = op.k /\ op'.c = op.c /\ op'.t = next /\ op'.pc = pc
<1>1. op \in Ops
  BY DEF Typed
<1> QED
  BY <1>1 DEF Ops, Accepted

\* A child that only the operation knows, before and after it has a loop.
LEMMA BuildingOp ==
  ASSUME TurnsInv, op.pc \in {"opened", "build", "publish", "abandon", "undo"}
  PROVE  /\ op.c \in Children /\ op.c \notin kids /\ op.c \notin quar /\ listed = {}
         /\ op.pc \in {"opened", "build"} => op.k = "spawn" /\ loop[op.c] = NoLoop
         /\ op.k \in {"spawn", "resume"}
         /\ \A d \in Children : d \notin kids /\ d # op.c => loop[d] = NoLoop
<1>1. op.c \in Children /\ op.c \notin kids /\ op.c \notin quar
  BY OpChild DEF TurnsInv, OpFits, LoopsOfKids
<1>2. /\ op.pc \in {"opened", "build"} => op.k = "spawn" /\ loop[op.c] = NoLoop
      /\ \A d \in Children : d \notin kids /\ d # op.c => loop[d] = NoLoop
  BY <1>1 DEF TurnsInv, LoopsOfKids, Unborn, OpFits
<1>3. op.k \in {"spawn", "resume"} /\ listed = {}
  BY DEF TurnsInv, OpFits, Typed, Ops
<1> QED
  BY <1>1, <1>2, <1>3

\* What the end of an operation leaves: no child that only it knew.
LEMMA ReturnKeeps ==
  ASSUME TurnsInv, Return, Typed', HeldOnce', JournalsKept,
         \A d \in Children : LoopHolds(d)' /\ LoopMatches(d)',
         \A d \in Children : d \notin kids' => loop'[d] = NoLoop,
         kids' \subseteq kids, listed' = {}
  PROVE  TurnsInv'
<1>1. op' \in Ops /\ op'.k = "none" /\ op'.pc = "none" /\ op'.t = NoTurn /\ op'.c = NoChild
  BY NoOpEffect DEF Return, NoOp
<1>2. OpFits' /\ LoopsOfKids' /\ OpHolds'
  BY <1>1 DEF OpFits, Accepting, LoopsOfKids, Unborn, OpHolds, Offered
<1>3. JournalsSound'
  <2>1. NoChild \notin quar
    BY ResidentsAssumption DEF TurnsInv, Typed
  <2> QED
    BY <1>1, <2>1, JournalsFrom
<1> QED
  BY <1>2, <1>3 DEF TurnsInv

LEMMA ReturnTyped ==
  ASSUME Return
  PROVE  op' \in Ops
  BY NoOpEffect DEF Return

\* The same when no record is written.
LEMMA ReturnQuiet ==
  ASSUME TurnsInv, Return, Typed', HeldOnce', \A d \in Children : LoopHolds(d)' /\ LoopMatches(d)',
         \A d \in Children : d \notin kids' => loop'[d] = NoLoop,
         UNCHANGED <<quar, next, jour>>, kids' \subseteq kids, listed' = {}
  PROVE  TurnsInv'
  BY SameKept, ReturnKeeps

\* The same when nothing else changes.
LEMMA ReturnOnly ==
  ASSUME TurnsInv, Return, ~ Accepting, listed = {}, \A d \in Children : d \notin kids => loop[d] = NoLoop,
         UNCHANGED <<disk, manager, loop, run, steers, slots, reports, next, restarts>>, faults' \in Nat
  PROVE  TurnsInv'
<1>1. \A d \in Children : LoopHolds(d)' /\ Holds(d)' = Holds(d) /\ LoopMatches(d)'
  <2>1. \A d \in Children : SameLoop(d) /\ run'[d] = run[d] /\ steers'[d] = steers[d] /\ jour'[d] = jour[d]
    BY DEF SameLoop, disk
  <2> QED
    BY <2>1, SameLoopKeeps
<1>2. Typed'
  BY ReturnTyped DEF TurnsInv, Typed, disk, manager, slots, reports
<1>3. HeldOnce'
  BY <1>1, NoTurnYet, QuietHeld DEF reports
<1> QED
  BY <1>1, <1>2, <1>3, ReturnQuiet DEF disk, manager

LEMMA SpawnOpenKeeps ==
  ASSUME TurnsInv, NEW c \in Children, SpawnOpen(c)
  PROVE  TurnsInv'
<1> DEFINE k == [jour[c] EXCEPT !.state = "empty"]
<1>1. /\ Idle /\ c \notin kids /\ jour[c].state = "none" /\ Begin("spawn", c, "opened")
      /\ UNCHANGED <<quar, manager, loop, run, steers, slots, reports, bounds>>
  BY DEF SpawnOpen
<1>2. jour' = [jour EXCEPT ![c] = k] /\ jour[c] \in Journals /\ jour \in [Children -> Journals]
  BY DEF SpawnOpen, TurnsInv, Typed
<1>3. k \in Journals /\ k.state = "empty" /\ k.seen = jour[c].seen
  BY <1>2 DEF Journals, JournalStates
<1> HIDE DEF k
<1>4. /\ op.t \notin told /\ listed = {}
      /\ \A d \in Children : d \notin kids => loop[d] = NoLoop
  BY <1>1, IdleOp
<1>5. c \notin quar
  BY <1>1 DEF TurnsInv, JournalsSound, SetAside
<1>6. /\ op' \in Ops /\ op'.k = "spawn" /\ op'.c = c /\ op'.t = NoTurn /\ op'.pc = "opened"
  BY <1>1, BegunOp
<1>7. Typed'
  BY <1>1, <1>2, <1>3, <1>6 DEF TurnsInv, Typed, manager, slots, reports, bounds
<1>8. \A d \in Children : /\ LoopHolds(d)' /\ Holds(d)' = Holds(d)
                          /\ jour'[d] = jour[d] => LoopMatches(d)'
  <2>1. \A d \in Children : SameLoop(d) /\ run'[d] = run[d] /\ steers'[d] = steers[d]
    BY <1>1 DEF SameLoop
  <2> QED
    BY <2>1, SameLoopKeeps
<1>9. \A d \in Children : LoopMatches(d)'
  <2>1. loop'[c] = NoLoop
    BY <1>1, <1>4
  <2>2. LoopMatches(c)'
    BY <2>1, LoopTyped, EmptyHolds DEF LoopMatches
  <2>3. \A d \in Children : d # c => jour'[d] = jour[d]
    BY <1>2
  <2> QED
    BY <1>8, <2>2, <2>3
<1>10. HeldOnce'
  BY <1>1, <1>4, <1>8, QuietHeld DEF reports, bounds
<1>11. OpFits'
  BY <1>1, <1>4, <1>6 DEF OpFits, Accepting, manager
<1>12. LoopsOfKids'
  BY <1>1, <1>4, <1>6 DEF LoopsOfKids, Unborn, manager
<1>13. OpHolds'
  BY <1>6 DEF OpHolds, Offered
<1>14. JournalsSound'
  <2>1. JournalsKept
    BY <1>1, <1>2, <1>3, <1>5, WrittenKept DEF bounds
  <2>2. jour'[c].state = "empty"
    BY <1>2, <1>3
  <2> QED
    BY <1>1, <1>5, <1>6, <1>9, <2>1, <2>2, JournalsFrom DEF manager
<1> QED
  BY <1>7, <1>8, <1>10, <1>11, <1>12, <1>13, <1>14 DEF TurnsInv

\* A spawn that has only its journal: nothing is accepted.
LEMMA OpenedOp ==
  ASSUME TurnsInv, At("opened")
  PROVE  /\ op.c \in Children /\ op.c \notin kids /\ op.c \notin quar /\ listed = {} /\ op.k = "spawn"
         /\ op.t \notin told /\ ~ Accepting /\ jour[op.c].state = "empty"
         /\ \A d \in Children : d \notin kids => loop[d] = NoLoop
<1>1. ~ Accepting /\ op.pc = "opened"
  BY DEF At, Accepting
<1>2. jour[op.c].state = "empty"
  BY <1>1 DEF TurnsInv, JournalsSound
<1> QED
  BY <1>1, <1>2, BuildingOp, NoTurnYet

LEMMA SpawnRefusedKeeps ==
  ASSUME TurnsInv, SpawnRefused
  PROVE  TurnsInv'
<1>1. /\ Return /\ ~ Accepting /\ listed = {} /\ \A d \in Children : d \notin kids => loop[d] = NoLoop
  BY OpenedOp DEF SpawnRefused
<1>2. UNCHANGED <<disk, manager, loop, run, steers, slots, reports, next, restarts>> /\ faults' \in Nat
  BY DEF SpawnRefused, bounds, TurnsInv, Typed
<1> QED
  BY <1>1, <1>2, ReturnOnly

LEMMA SpawnAcceptKeeps ==
  ASSUME TurnsInv, SpawnAccept
  PROVE  TurnsInv'
<1> DEFINE c == op.c
<1>1. /\ c \in Children /\ c \notin kids /\ c \notin quar /\ listed = {} /\ op.k = "spawn"
      /\ op.t \notin told /\ jour[c].state = "empty"
      /\ \A d \in Children : d \notin kids => loop[d] = NoLoop
  BY OpenedOp DEF SpawnAccept
<1>2. /\ next <= MaxTurns /\ next' = next + 1
      /\ UNCHANGED <<quar, manager, loop, run, steers, slots, comp, refused, restarts>>
  BY DEF SpawnAccept
<1>3. PICK w \in Writes(jour[c], "child", next) :
        /\ Wrote(c, w)
        /\ IF w.ok THEN Accepted("build") /\ told' = told \union {next} ELSE Return /\ UNCHANGED told
  BY DEF SpawnAccept
<1>4. /\ next \in Turns /\ next \notin told /\ next + 1 \in 1..(MaxTurns + 1) /\ next < next + 1
      /\ comp[next] = 0 /\ \A d \in Children : next \notin Holds(d)
  BY <1>2, FreshTurn
<1>5. Recorded(c, "child", next, w)
  <2>1. Legal(jour[c], "child", next) /\ "child" \in Records
    BY <1>1 DEF Legal, Records
  <2> HIDE DEF c
  <2> QED
    BY <1>1, <1>3, <1>4, <2>1, RecordEffect
<1>6. /\ JournalsKept /\ jour' \in [Children -> Journals]
      /\ \A d \in Children : SameLoop(d) => LoopMatches(d)'
  <2>1. "child" \in Records
    BY DEF Records
  <2> HIDE DEF c
  <2> QED
    BY <1>1, <1>2, <1>4, <1>5, <2>1, RecordKept
<1>7. /\ w.ok \in BOOLEAN /\ faults' \in Nat
      /\ w.ok => (Readable(jour'[c]) => jour'[c].seen[next] = "accepted")
  BY <1>5 DEF Recorded, SeenAfter
<1>8. \A d \in Children : LoopHolds(d)' /\ Holds(d)' = Holds(d) /\ LoopMatches(d)'
  <2>1. \A d \in Children : SameLoop(d) /\ run'[d] = run[d] /\ steers'[d] = steers[d]
    BY <1>2 DEF SameLoop
  <2> QED
    BY <1>6, <2>1, SameLoopKeeps
<1>9. CASE w.ok
  <2>1. Accepted("build") /\ told' = told \union {next}
    BY <1>3, <1>9
  <2>2. /\ op' \in Ops /\ op'.k = "spawn" /\ op'.c = c /\ op'.t = next /\ op'.pc = "build"
    BY <1>1, <1>4, <2>1, AcceptedEffect DEF TurnsInv
  <2>3. Typed'
    BY <1>2, <1>4, <1>6, <1>7, <2>1, <2>2 DEF TurnsInv, Typed, manager, slots
  <2>4. HeldOnce'
    <3>1. Completed({}) /\ told' \subseteq Turns
      BY <1>2, <1>4, <2>1 DEF Completed, TurnsInv, Typed
    <3>2. \A t \in told' : t < next'
      <4>1. \A t \in told : t < next
        BY DEF TurnsInv, HeldOnce
      <4>2. next \in Int /\ told \subseteq Int
        BY DEF TurnsInv, Typed, Turns
      <4> QED
        BY <1>2, <2>1, <4>1, <4>2
    <3> QED
      BY <1>1, <1>2, <1>8, <2>1, <2>2, <3>1, <3>2, ToldKeeps
  <2>5. OpFits'
    BY <1>1, <1>2, <1>4, <2>2 DEF OpFits, Accepting, manager
  <2>6. LoopsOfKids'
    BY <1>1, <1>2, <2>2 DEF LoopsOfKids, Unborn, manager
  <2>7. OpHolds'
    BY <1>2, <1>4, <1>8, <2>1, <2>2 DEF OpHolds, Offered
  <2>8. JournalsSound'
    BY <1>2, <1>6, <1>7, <1>8, <1>9, <2>2, JournalsFrom DEF manager
  <2> QED
    BY <1>8, <2>3, <2>4, <2>5, <2>6, <2>7, <2>8 DEF TurnsInv
<1>10. CASE ~ w.ok
  <2>1. Return /\ told' = told
    BY <1>3, <1>10
  <2>2. Typed'
    BY <1>2, <1>4, <1>6, <1>7, <2>1, ReturnTyped DEF TurnsInv, Typed, manager, slots
  <2>3. HeldOnce'
    BY <1>1, <1>2, <1>8, <2>1, QuietHeld
  <2> QED
    BY <1>1, <1>2, <1>6, <1>8, <2>1, <2>2, <2>3, ReturnKeeps DEF manager
<1> QED
  BY <1>7, <1>9, <1>10

LEMMA SpawnBuildKeeps ==
  ASSUME TurnsInv, SpawnBuild
  PROVE  TurnsInv'
<1> DEFINE c == op.c
<1>1. /\ op.pc = "build" /\ op.k = "spawn" /\ c \in Children /\ c \notin kids /\ c \notin quar
      /\ loop[c] = NoLoop /\ listed = {}
      /\ \A d \in Children : d \notin kids /\ d # c => loop[d] = NoLoop
      /\ UNCHANGED <<quar, manager, run, steers, slots, told, refused, next, restarts>>
  BY BuildingOp DEF SpawnBuild, At
<1>2. /\ Offered /\ op.t \in told /\ op.t \in Turns /\ op.t < next
      /\ (Readable(jour[c]) => jour[c].seen[op.t] = "accepted") /\ comp[op.t] = 0
      /\ \A d \in Children : op.t \notin Holds(d)
  BY <1>1 DEF TurnsInv, OpHolds, OpFits, Accepting, Offered, JournalsSound
<1>3. CASE loop' = [loop EXCEPT ![c] = NewLoop] /\ Advance("publish") /\ UNCHANGED <<jour, faults, comp>>
  <2>1. /\ op' \in Ops /\ op'.k = "spawn" /\ op'.c = c /\ op'.t = op.t /\ op'.pc = "publish"
    BY <1>1, <1>3, AdvanceEffect, AdvancePc DEF TurnsInv
  <2>2. /\ loop' \in [Children -> Loops]
        /\ \A d \in Children : LoopHolds(d)' /\ Holds(d)' = Holds(d)
        /\ \A d \in Children : LoopMatches(d)'
        /\ \A d \in Children : d # c => loop'[d] = loop[d]
    BY <1>1, <1>3, LoopTyped, ReplaceKeeps
  <2>3. Typed'
    BY <1>1, <1>3, <2>1, <2>2 DEF TurnsInv, Typed, manager, slots
  <2>4. HeldOnce'
    BY <1>1, <1>3, <2>1, <2>2, QuietHeld
  <2>5. OpFits'
    BY <1>1, <1>2, <2>1 DEF OpFits, Accepting, manager
  <2>6. LoopsOfKids'
    BY <1>1, <2>1, <2>2 DEF LoopsOfKids, Unborn, manager
  <2>7. OpHolds'
    BY <1>1, <1>2, <1>3, <2>1, <2>2 DEF OpHolds, Offered
  <2>8. JournalsSound'
    <3>1. JournalsKept
      BY <1>1, <1>3, SameKept
    <3> QED
      BY <1>1, <1>2, <1>3, <2>1, <2>2, <3>1, JournalsFrom DEF manager
  <2> QED
    BY <2>2, <2>3, <2>4, <2>5, <2>6, <2>7, <2>8 DEF TurnsInv
<1>4. CASE Record(c, "broken", op.t) /\ Completed({op.t}) /\ Return /\ UNCHANGED loop
  <2>1. PICK w \in Writes(jour[c], "broken", op.t) : Wrote(c, w)
    BY <1>4 DEF Record
  <2>2. Legal(jour[c], "broken", op.t) /\ "broken" \in Records
    BY DEF Legal, Records
  <2>3. Recorded(c, "broken", op.t, w)
    <3> HIDE DEF c
    <3> QED
      BY <1>1, <1>2, <2>1, <2>2, RecordEffect
  <2>4. /\ JournalsKept /\ jour' \in [Children -> Journals]
        /\ \A d \in Children : SameLoop(d) => LoopMatches(d)'
    <3> HIDE DEF c
    <3> QED
      BY <1>1, <1>2, <2>2, <2>3, RecordKept
  <2>5. faults' \in Nat
    BY <2>3 DEF Recorded
  <2>6. \A d \in Children : LoopHolds(d)' /\ Holds(d)' = Holds(d) /\ LoopMatches(d)'
    <3>1. \A d \in Children : SameLoop(d) /\ run'[d] = run[d] /\ steers'[d] = steers[d]
      BY <1>1, <1>4 DEF SameLoop
    <3> QED
      BY <2>4, <3>1, SameLoopKeeps
  <2>7. Typed'
    BY <1>1, <1>4, <2>4, <2>5, ReturnTyped, CompletedTyped DEF TurnsInv, Typed, manager, slots
  <2>8. HeldOnce'
    <3>1. told \subseteq Turns /\ \A t \in told : t < next
      BY DEF TurnsInv, Typed, HeldOnce
    <3> QED
      BY <1>1, <1>2, <1>4, <2>6, <3>1, ToldKeeps
  <2>9. \A d \in Children : d \notin kids' => loop'[d] = NoLoop
    BY <1>1, <1>4 DEF manager
  <2> QED
    BY <1>1, <1>4, <2>4, <2>6, <2>7, <2>8, <2>9, ReturnKeeps DEF manager
<1> QED
  BY <1>3, <1>4 DEF SpawnBuild

LEMMA AbandonKeeps ==
  ASSUME TurnsInv, Abandon
  PROVE  TurnsInv'
<1> DEFINE c == op.c
<1>1. /\ op.pc = "abandon" /\ op.k \in {"spawn", "resume"} /\ c \in Children /\ c \notin kids /\ listed = {}
      /\ loop[c].st = "gone" /\ loop' = [loop EXCEPT ![c] = NoLoop] /\ Return
      /\ \A d \in Children : d \notin kids /\ d # c => loop[d] = NoLoop
      /\ refused' = IF op.k = "spawn" THEN refused \union {op.t} ELSE refused
      /\ UNCHANGED <<disk, manager, run, steers, slots, told, comp, bounds>>
  BY BuildingOp DEF Abandon, At
<1>2. /\ loop' \in [Children -> Loops]
      /\ \A d \in Children : LoopHolds(d)' /\ Holds(d)' = Holds(d)
      /\ \A d \in Children : LoopMatches(d)'
      /\ \A d \in Children : d # c => loop'[d] = loop[d]
      /\ loop'[c] = NoLoop
  BY <1>1, ReplaceKeeps DEF disk
<1>3. refused' \subseteq Turns /\ refused \subseteq refused' /\ (op.t \in refused' \/ op.t \notin told)
  <2>1. CASE op.k = "spawn"
    BY <1>1, <2>1 DEF TurnsInv, OpFits, Accepting, Typed
  <2>2. CASE op.k # "spawn"
    <3>1. ~ Accepting
      BY <1>1, <2>2 DEF Accepting
    <3> QED
      BY <1>1, <2>2, <3>1, NoTurnYet DEF TurnsInv, Typed
  <2> QED
    BY <2>1, <2>2
<1>4. Typed'
  BY <1>1, <1>2, <1>3, ReturnTyped DEF TurnsInv, Typed, disk, manager, slots, bounds
<1>6. HeldOnce'
  BY <1>1, <1>2, <1>3, QuietHeld DEF bounds
<1> QED
  BY <1>1, <1>2, <1>4, <1>6, ReturnQuiet DEF disk, manager, bounds

LEMMA ResumeRebuildKeeps ==
  ASSUME TurnsInv, NEW c \in Children, ResumeRebuild(c)
  PROVE  TurnsInv'
<1>1. /\ Idle /\ c \notin kids /\ c \notin quar
      /\ UNCHANGED <<quar, manager, run, steers, slots, reports, next, restarts>>
  BY DEF ResumeRebuild
<1>2. PICK w \in Reconciled(jour[c]) :
        /\ Wrote(c, w)
        /\ \/ loop' = [loop EXCEPT ![c] = NewLoop] /\ Begin("resume", c, "publish")
           \/ UNCHANGED <<loop, op>>
  BY DEF ResumeRebuild
<1>3. /\ op.t \notin told /\ listed = {} /\ op.pc = "none" /\ op.k = "none"
      /\ \A d \in Children : d \notin kids => loop[d] = NoLoop
  BY <1>1, IdleOp
<1>4. /\ w.j \in Journals /\ w.j.state # "disordered" /\ w.ok \in BOOLEAN
      /\ \A u \in Turns : jour[c].seen[u] = "none" => w.j.seen[u] = "none"
      /\ jour \in [Children -> Journals] /\ faults \in Nat
  BY ReconciledEffect DEF TurnsInv, Typed, JournalsSound
<1> DEFINE k == w.j
<1>5. jour' = [jour EXCEPT ![c] = k] /\ faults' \in Nat
  BY <1>2, <1>4 DEF Wrote
<1>6. JournalsKept /\ jour' \in [Children -> Journals] /\ \A d \in Children : d # c => jour'[d] = jour[d]
  <2>1. k \in Journals /\ k.state # "disordered" /\ \A u \in Turns : jour[c].seen[u] = "none" => k.seen[u] = "none"
    BY <1>4
  <2> HIDE DEF k
  <2> QED
    BY <1>1, <1>4, <1>5, <2>1, WrittenKept
<1>7. loop[c] = NoLoop /\ loop[c].st = "gone"
  BY <1>1, <1>3, LoopTyped
<1>8. CASE loop' = [loop EXCEPT ![c] = NewLoop] /\ Begin("resume", c, "publish")
  <2>1. /\ op' \in Ops /\ op'.k = "resume" /\ op'.c = c /\ op'.t = NoTurn /\ op'.pc = "publish"
    BY <1>8, BegunOp
  <2>2. /\ loop' \in [Children -> Loops]
        /\ \A d \in Children : LoopHolds(d)' /\ Holds(d)' = Holds(d)
        /\ \A d \in Children : LoopMatches(d)'
        /\ \A d \in Children : d # c => loop'[d] = loop[d]
    BY <1>1, <1>6, <1>7, <1>8, ReplaceKeeps
  <2>3. Typed'
    BY <1>1, <1>5, <1>6, <2>1, <2>2 DEF TurnsInv, Typed, manager, slots, reports
  <2>4. HeldOnce'
    BY <1>1, <1>3, <2>2, QuietHeld DEF reports
  <2>5. OpFits'
    BY <1>1, <1>3, <2>1 DEF OpFits, Accepting, manager
  <2>6. LoopsOfKids'
    BY <1>1, <1>3, <2>1, <2>2 DEF LoopsOfKids, Unborn, manager
  <2>7. OpHolds'
    BY <2>1 DEF OpHolds, Offered
  <2>8. JournalsSound'
    BY <1>1, <1>6, <2>1, <2>2, JournalsFrom DEF manager
  <2> QED
    BY <2>2, <2>3, <2>4, <2>5, <2>6, <2>7, <2>8 DEF TurnsInv
<1>9. CASE UNCHANGED <<loop, op>>
  <2>1. \A d \in Children : /\ LoopHolds(d)' /\ Holds(d)' = Holds(d)
                            /\ jour'[d] = jour[d] => LoopMatches(d)'
    <3>1. \A d \in Children : SameLoop(d) /\ run'[d] = run[d] /\ steers'[d] = steers[d]
      BY <1>1, <1>9 DEF SameLoop
    <3> QED
      BY <3>1, SameLoopKeeps
  <2>2. \A d \in Children : LoopMatches(d)'
    <3>1. LoopMatches(c)'
      BY <1>7, <1>9, LoopTyped, EmptyHolds DEF LoopMatches
    <3> QED
      BY <1>6, <2>1, <3>1
  <2>3. Typed'
    BY <1>1, <1>5, <1>6, <1>9 DEF TurnsInv, Typed, manager, slots, reports
  <2>4. HeldOnce'
    BY <1>1, <1>9, <2>1, QuietHeld DEF reports
  <2>5. OpFits' /\ LoopsOfKids' /\ OpHolds'
    BY <1>1, <1>3, <1>9 DEF TurnsInv, OpFits, Accepting, LoopsOfKids, Unborn, OpHolds, Offered, manager
  <2>6. JournalsSound'
    BY <1>1, <1>3, <1>6, <1>9, <2>2, JournalsFrom DEF manager
  <2> QED
    BY <2>1, <2>3, <2>4, <2>5, <2>6 DEF TurnsInv
<1> QED
  BY <1>2, <1>8, <1>9

LEMMA PublishKeeps ==
  ASSUME TurnsInv, Publish
  PROVE  TurnsInv'
<1> DEFINE c == op.c
<1>1. /\ op.pc = "publish" /\ op.k \in {"spawn", "resume"} /\ c \in Children /\ c \notin kids /\ listed = {}
      /\ \A d \in Children : d \notin kids /\ d # c => loop[d] = NoLoop
      /\ UNCHANGED <<disk, closed, closing, reconciled, listed, run, steers, slots, reports, bounds>>
  BY BuildingOp DEF Publish, At
<1>2. /\ op.k = "spawn" => /\ op.t \in Turns /\ op.t < next /\ op.t \in told /\ comp[op.t] = 0
                           /\ Readable(jour[c]) => jour[c].seen[op.t] = "accepted"
                           /\ \A d \in Children : op.t \notin Holds(d)
      /\ op.k = "resume" => op.t = NoTurn
  BY <1>1 DEF TurnsInv, OpHolds, OpFits, Accepting, Offered, JournalsSound
<1>k. JournalsKept
  BY <1>1, SameKept DEF disk, bounds
<1>3. CASE closed
  <2>1. loop' = [loop EXCEPT ![c].cancelled = TRUE] /\ Advance("abandon") /\ UNCHANGED <<kids, recovered>>
    BY <1>3 DEF Publish
  <2>2. /\ op' \in Ops /\ op'.k = op.k /\ op'.c = c /\ op'.t = op.t /\ op'.pc = "abandon"
    BY <2>1, AdvanceEffect, AdvancePc DEF TurnsInv
  <2>3. /\ loop' \in [Children -> Loops]
        /\ \A d \in Children : LoopHolds(d)' /\ Holds(d)' = Holds(d)
        /\ \A d \in Children : LoopMatches(d)'
        /\ \A d \in Children : d # c => loop'[d] = loop[d]
    BY <1>1, <2>1, CancelKeeps DEF disk
  <2>4. Typed'
    BY <1>1, <2>1, <2>2, <2>3 DEF TurnsInv, Typed, disk, slots, reports, bounds
  <2>5. HeldOnce'
    BY <1>1, <2>2, <2>3, QuietHeld DEF reports, bounds
  <2>6. OpFits'
    BY <1>1, <1>2, <2>1, <2>2 DEF OpFits, Accepting, bounds
  <2>7. LoopsOfKids'
    BY <1>1, <2>1, <2>2, <2>3 DEF LoopsOfKids, Unborn
  <2>8. OpHolds'
    BY <1>1, <1>2, <2>2, <2>3 DEF OpHolds, Offered, reports
  <2>9. JournalsSound'
    BY <1>k, <2>1, <2>2, <2>3, JournalsFrom
  <2> QED
    BY <2>3, <2>4, <2>5, <2>6, <2>7, <2>8, <2>9 DEF TurnsInv
<1>4. CASE ~ closed
  <2>1. /\ kids' = kids \union {c} /\ recovered' = [recovered EXCEPT ![c] = "none"]
        /\ Advance(IF op.k = "spawn" THEN "offer" ELSE "accept") /\ UNCHANGED loop
    BY <1>4 DEF Publish
  <2>2. /\ op' \in Ops /\ op'.k = op.k /\ op'.c = c /\ op'.t = op.t
        /\ op'.pc = IF op.k = "spawn" THEN "offer" ELSE "accept"
    <3>1. op'.pc = IF op.k = "spawn" THEN "offer" ELSE "accept"
      BY <2>1, AdvancePc DEF TurnsInv
    <3>2. Advance("offer") \/ Advance("accept")
      BY <2>1
    <3> QED
      BY <3>1, <3>2, AdvanceEffect DEF TurnsInv
  <2>3. /\ \A d \in Children : LoopHolds(d)' /\ Holds(d)' = Holds(d)
        /\ \A d \in Children : LoopMatches(d)'
    <3>1. \A d \in Children : SameLoop(d) /\ run'[d] = run[d] /\ steers'[d] = steers[d] /\ jour'[d] = jour[d]
      BY <1>1, <2>1 DEF SameLoop, disk
    <3> QED
      BY <3>1, SameLoopKeeps
  <2>4. Typed'
    BY <1>1, <2>1, <2>2 DEF TurnsInv, Typed, disk, slots, reports, bounds
  <2>5. HeldOnce'
    BY <1>1, <2>2, <2>3, QuietHeld DEF reports, bounds
  <2>6. OpFits'
    BY <1>1, <1>2, <2>2 DEF OpFits, Accepting, bounds
  <2>7. LoopsOfKids'
    BY <1>1, <2>1, <2>2 DEF LoopsOfKids, Unborn
  <2>8. OpHolds'
    BY <1>1, <1>2, <2>2, <2>3 DEF OpHolds, Offered, reports
  <2>9. JournalsSound'
    <3>1. op'.pc = "offer" => (Readable(jour'[op'.c]) => jour'[op'.c].seen[op'.t] = "accepted")
      BY <1>1, <1>2, <2>2 DEF disk
    <3>2. op'.pc \in {"offer", "accept"}
      BY <2>2
    <3> QED
      BY <1>k, <2>1, <2>2, <2>3, <3>1, <3>2, JournalsFrom
  <2> QED
    BY <2>3, <2>4, <2>5, <2>6, <2>7, <2>8, <2>9 DEF TurnsInv
<1> QED
  BY <1>3, <1>4

LEMMA FollowUpAcceptKeeps ==
  ASSUME TurnsInv, FollowUpAccept
  PROVE  TurnsInv'
<1> DEFINE c == op.c
<1>1. /\ op.pc = "accept" /\ op.k = "resume" /\ c \in Children /\ c \notin quar /\ listed = {}
      /\ ~ Accepting /\ op.t \notin told /\ next <= MaxTurns
      /\ \A d \in Children : d \notin kids => loop[d] = NoLoop
      /\ UNCHANGED <<quar, manager, loop, run, steers, slots, comp, refused, restarts>>
  <2>1. op.pc = "accept" /\ op.k = "resume" /\ c \in Children /\ listed = {} /\ ~ Accepting
    BY DEF FollowUpAccept, At, TurnsInv, OpFits, Accepting
  <2>2. \A d \in Children : d \notin kids => loop[d] = NoLoop
    BY <2>1 DEF TurnsInv, LoopsOfKids, Unborn
  <2> QED
    BY <2>1, <2>2, OpChild, NoTurnYet DEF FollowUpAccept
<1>2. CASE Return /\ UNCHANGED <<jour, faults, told, next>>
  BY <1>1, <1>2, ReturnOnly DEF disk, reports, TurnsInv, Typed
<1>3. ASSUME next' = next + 1, NEW w \in Writes(jour[c], "accepted", next), Wrote(c, w),
             IF w.ok THEN Accepted("offer") /\ told' = told \union {next} ELSE Return /\ UNCHANGED told
      PROVE  TurnsInv'
  <2>1. /\ next \in Turns /\ next \notin told /\ next + 1 \in 1..(MaxTurns + 1) /\ next < next + 1
        /\ comp[next] = 0 /\ \A d \in Children : next \notin Holds(d) /\ jour[d].seen[next] = "none"
    BY <1>1, FreshTurn
  <2>2. Legal(jour[c], "accepted", next) /\ "accepted" \in Records
    BY <1>1, <2>1 DEF Legal, Records
  <2>3. Recorded(c, "accepted", next, w)
    <3> HIDE DEF c
    <3> QED
      BY <1>1, <1>3, <2>1, <2>2, RecordEffect
  <2>4. /\ JournalsKept /\ jour' \in [Children -> Journals]
        /\ \A d \in Children : SameLoop(d) => LoopMatches(d)'
    <3> HIDE DEF c
    <3> QED
      BY <1>1, <1>3, <2>1, <2>2, <2>3, RecordKept
  <2>5. /\ w.ok \in BOOLEAN /\ faults' \in Nat
        /\ w.ok => (Readable(jour'[c]) => jour'[c].seen[next] = "accepted")
    BY <2>3 DEF Recorded, SeenAfter
  <2>6. \A d \in Children : LoopHolds(d)' /\ Holds(d)' = Holds(d) /\ LoopMatches(d)'
    <3>1. \A d \in Children : SameLoop(d) /\ run'[d] = run[d] /\ steers'[d] = steers[d]
      BY <1>1 DEF SameLoop
    <3> QED
      BY <2>4, <3>1, SameLoopKeeps
  <2>7. CASE w.ok
    <3>1. Accepted("offer") /\ told' = told \union {next}
      BY <1>3, <2>7
    <3>2. /\ op' \in Ops /\ op'.k = "resume" /\ op'.c = c /\ op'.t = next /\ op'.pc = "offer"
      BY <1>1, <2>1, <3>1, AcceptedEffect DEF TurnsInv
    <3>3. Typed'
      BY <1>1, <1>3, <2>1, <2>4, <2>5, <3>1, <3>2 DEF TurnsInv, Typed, manager, slots
    <3>4. HeldOnce'
      <4>1. Completed({}) /\ told' \subseteq Turns
        BY <1>1, <2>1, <3>1 DEF Completed, TurnsInv, Typed
      <4>2. \A t \in told' : t < next'
        <5>1. \A t \in told : t < next
          BY DEF TurnsInv, HeldOnce
        <5>2. next \in Int /\ told \subseteq Int
          BY DEF TurnsInv, Typed, Turns
        <5> QED
          BY <1>3, <3>1, <5>1, <5>2
      <4> QED
        BY <1>1, <2>6, <3>1, <3>2, <4>1, <4>2, ToldKeeps
    <3>5. OpFits'
      BY <1>1, <1>3, <2>1, <3>2 DEF OpFits, Accepting, manager
    <3>6. LoopsOfKids'
      BY <1>1, <3>2 DEF LoopsOfKids, Unborn, manager
    <3>7. OpHolds'
      BY <1>1, <2>1, <2>6, <3>1, <3>2 DEF OpHolds, Offered
    <3>8. JournalsSound'
      BY <1>1, <2>4, <2>5, <2>6, <2>7, <3>2, JournalsFrom DEF manager
    <3> QED
      BY <2>6, <3>3, <3>4, <3>5, <3>6, <3>7, <3>8 DEF TurnsInv
  <2>8. CASE ~ w.ok
    <3>1. Return /\ told' = told
      BY <1>3, <2>8
    <3>2. Typed'
      BY <1>1, <1>3, <2>1, <2>4, <2>5, <3>1, ReturnTyped DEF TurnsInv, Typed, manager, slots
    <3>3. HeldOnce'
      BY <1>1, <1>3, <2>6, <3>1, QuietHeld
    <3> QED
      BY <1>1, <2>4, <2>6, <3>1, <3>2, <3>3, ReturnKeeps DEF manager
  <2> QED
    BY <2>5, <2>7, <2>8
<1> QED
  BY <1>2, <1>3 DEF FollowUpAccept

\* A turn at the end of a queue that has not got it.
LEMMA AppendToQueue ==
  ASSUME NEW s \in Seq(Turns), Distinct(s), NEW t \in Turns, t \notin ElementsOf(s)
  PROVE  /\ Append(s, t) \in Seq(Turns) /\ Distinct(Append(s, t))
         /\ ElementsOf(Append(s, t)) = ElementsOf(s) \union {t}
<1> DEFINE q == Append(s, t)
<1>1. /\ q \in Seq(Turns) /\ Len(q) = Len(s) + 1 /\ q[Len(s) + 1] = t
      /\ \A i \in 1..Len(s) : q[i] = s[i]
  BY AppendProperties
<1>2. Len(s) \in Nat /\ DOMAIN s = 1..Len(s) /\ DOMAIN q = 1..(Len(s) + 1)
  BY <1>1, LenProperties
<1> HIDE DEF q
<1>3. \A i \in DOMAIN q : i \in DOMAIN s \/ i = Len(s) + 1
  BY <1>2
<1>4. Len(s) + 1 \in DOMAIN q /\ DOMAIN s \subseteq DOMAIN q
  BY <1>2
<1>5. \A i \in DOMAIN s : q[i] = s[i] /\ q[i] # t
  BY <1>1, <1>2 DEF ElementsOf
<1>6. Distinct(q)
  BY <1>1, <1>3, <1>5 DEF Distinct
<1>7. ElementsOf(q) \subseteq ElementsOf(s) \union {t}
  BY <1>1, <1>3, <1>5 DEF ElementsOf
<1>8. ElementsOf(s) \union {t} \subseteq ElementsOf(q)
  BY <1>1, <1>4, <1>5 DEF ElementsOf
<1> QED
  BY <1>1, <1>6, <1>7, <1>8 DEF q

LEMMA OfferedOp ==
  ASSUME TurnsInv, op.pc = "offer"
  PROVE  /\ op.c \in Children /\ op.k \in {"spawn", "resume"} /\ op.t \in Turns /\ op.t < next
         /\ op.t \in told /\ comp[op.t] = 0 /\ \A d \in Children : op.t \notin Holds(d)
         /\ Readable(jour[op.c]) => jour[op.c].seen[op.t] = "accepted"
         /\ Offered /\ listed = {} /\ op.c \notin quar
         /\ \A d \in Children : d \notin kids => loop[d] = NoLoop
<1>1. op.c \in Children /\ op.k \in {"spawn", "resume"} /\ listed = {}
  BY DEF TurnsInv, Typed, Ops, OpFits
<1>2. op.t \in Turns /\ op.t < next
  BY DEF TurnsInv, OpFits, Accepting
<1>3. /\ op.t \in told /\ comp[op.t] = 0 /\ \A d \in Children : op.t \notin Holds(d)
      /\ (Readable(jour[op.c]) => jour[op.c].seen[op.t] = "accepted") /\ Offered
  BY DEF TurnsInv, OpHolds, Offered, JournalsSound
<1>4. \A d \in Children : d \notin kids => loop[d] = NoLoop
  BY DEF TurnsInv, LoopsOfKids, Unborn
<1> QED
  BY <1>1, <1>2, <1>3, <1>4, OpChild

LEMMA OfferTakenKeeps ==
  ASSUME TurnsInv, OfferTaken
  PROVE  TurnsInv'
<1>c. PICK c \in Children : c = op.c
  BY OfferedOp DEF OfferTaken, At
<1> DEFINE l == loop[c]
           a == [l EXCEPT !.queue = IF l.interrupted THEN @ ELSE Append(@, op.t)]
           p == [op EXCEPT !.pc = IF l.interrupted THEN "refused" ELSE "acked", !.taken = TRUE]
<1>0. op.pc = "offer" /\ l.st = "live" /\ op \in Ops /\ l \in Loops /\ loop \in [Children -> Loops]
  BY <1>c, OfferedOp DEF OfferTaken, At, Selecting, TurnsInv, Typed
<1>1. /\ c \in Children /\ op.k \in {"spawn", "resume"} /\ op.t \in Turns /\ op.t < next
      /\ op.t \in told /\ comp[op.t] = 0 /\ \A d \in Children : op.t \notin Holds(d)
      /\ (Readable(jour[c]) => jour[c].seen[op.t] = "accepted") /\ listed = {}
      /\ \A d \in Children : d \notin kids => loop[d] = NoLoop
  BY <1>c, <1>0, OfferedOp
<1>2. /\ op' = p /\ UNCHANGED <<disk, manager, run, steers, slots, reports, bounds>>
      /\ loop' = [loop EXCEPT ![c] = a]
  BY <1>c, <1>0, <1>1 DEF OfferTaken
<1>3. /\ p \in Ops /\ p.k = op.k /\ p.c = c /\ p.t = op.t /\ p.taken
      /\ p.pc = IF l.interrupted THEN "refused" ELSE "acked"
  BY <1>c, <1>0 DEF Ops
<1> HIDE DEF p
<1>4. c \in kids
  BY <1>0, <1>1, LoopTyped
<1>5. OpFits'
  BY <1>1, <1>2, <1>3 DEF OpFits, Accepting, manager, bounds
<1>6. LoopsOfKids'
  BY <1>1, <1>2, <1>3, <1>4 DEF LoopsOfKids, Unborn, manager
<1>7. JournalsKept
  BY <1>2, SameKept DEF disk, bounds
<1>8. l.queue \in Seq(Turns) /\ Distinct(l.queue) /\ LoopHolds(c)
  BY <1>0, <1>1 DEF TurnsInv, LoopHolds, Loops
<1>9. CASE l.interrupted
  <2>1. a = l
    BY <1>0, <1>9 DEF Loops
  <2>2. loop' = loop
    BY <1>0, <1>2, <2>1
  <2>3. \A d \in Children : SameLoop(d) /\ run'[d] = run[d] /\ steers'[d] = steers[d] /\ jour'[d] = jour[d]
    BY <1>2, <2>2 DEF SameLoop, disk
  <2>4. \A d \in Children : LoopHolds(d)' /\ Holds(d)' = Holds(d) /\ LoopMatches(d)'
    BY <2>3, SameLoopKeeps
  <2>5. Typed'
    BY <1>2, <1>3, <2>2 DEF TurnsInv, Typed, disk, manager, slots, reports, bounds
  <2>6. HeldOnce'
    BY <1>2, <1>3, <2>4, QuietHeld DEF reports, bounds
  <2>7. OpHolds'
    BY <1>c, <1>1, <1>2, <1>3, <1>9, <2>4 DEF OpHolds, Offered, reports
  <2>8. JournalsSound'
    BY <1>c, <1>2, <1>3, <1>7, <1>9, <2>4, JournalsFrom DEF manager
  <2> QED
    BY <1>5, <1>6, <2>4, <2>5, <2>6, <2>7, <2>8 DEF TurnsInv
<1>10. CASE ~ l.interrupted
  <2>0. op.t \notin ElementsOf(l.queue)
    BY <1>1 DEF Holds
  <2>1. /\ Append(l.queue, op.t) \in Seq(Turns) /\ Distinct(Append(l.queue, op.t))
        /\ ElementsOf(Append(l.queue, op.t)) = ElementsOf(l.queue) \union {op.t}
    BY <1>1, <1>8, <2>0, AppendToQueue
  <2>2. /\ a \in Loops /\ a.queue = Append(l.queue, op.t)
        /\ a.st = "live" /\ a.interrupted = l.interrupted /\ a.running = l.running
        /\ a.hit = l.hit /\ a.active = l.active /\ a.dropped = l.dropped
    BY <1>0, <1>10, <2>1 DEF Loops
  <2> HIDE DEF a
  <2>3. loop'[c] = a /\ loop' \in [Children -> Loops] /\ \A d \in Children : d # c => loop'[d] = loop[d]
    BY <1>0, <1>1, <1>2, <2>2
  <2>4. Holds(c)' = Holds(c) \union {op.t}
    BY <2>1, <2>2, <2>3 DEF Holds
  <2>5. \A d \in Children : d # c => LoopHolds(d)' /\ Holds(d)' = Holds(d) /\ LoopMatches(d)'
    <3>1. \A d \in Children : d # c => SameLoop(d) /\ run'[d] = run[d] /\ steers'[d] = steers[d] /\ jour'[d] = jour[d]
      BY <1>2, <2>3 DEF SameLoop, disk
    <3> QED
      BY <3>1, SameLoopKeeps
  <2>6. LoopHolds(c)'
    <3>1. l.running \/ l.hit => l.active # op.t
      BY <1>1, <1>8, <1>10 DEF Holds, LoopHolds
    <3>2. l.running \/ l.hit => l.active \in Turns /\ l.active \notin ElementsOf(l.queue) \union {op.t}
      BY <1>8, <3>1 DEF LoopHolds
    <3>3. run'[c] = run[c] /\ steers'[c] = steers[c] /\ loop'[c] = a
      BY <1>2, <2>3
    <3> QED
      BY <1>0, <1>8, <1>10, <2>1, <2>2, <3>2, <3>3 DEF LoopHolds
  <2>7. LoopMatches(c)'
    <3>1. LoopMatches(c)
      BY <1>1 DEF TurnsInv, JournalsSound
    <3>2. jour'[c] = jour[c]
      BY <1>2 DEF disk
    <3>3. Readable(jour[c]) => \A t \in ElementsOf(l.queue) : jour[c].seen[t] = "accepted"
      BY <1>0, <1>10, <3>1 DEF LoopMatches
    <3>4. Readable(jour[c]) => \A t \in ElementsOf(a.queue) : jour[c].seen[t] = "accepted"
      BY <1>1, <2>1, <2>2, <3>3
    <3>5. Readable(jour[c]) /\ a.running => jour[c].seen[a.active] = "started"
      BY <1>0, <1>10, <2>2, <3>1 DEF LoopMatches
    <3> QED
      BY <2>3, <3>2, <3>4, <3>5 DEF LoopMatches
  <2>8. Typed'
    BY <1>2, <1>3, <2>3 DEF TurnsInv, Typed, disk, manager, slots, reports, bounds
  <2>9. HeldOnce'
    <3>1. /\ \A d \in Children : \A t \in Holds(d) : t \in told /\ comp[t] = 0
          /\ \A d, e \in Children : d # e => Holds(d) \cap Holds(e) = {}
          /\ \A t \in told : t < next
          /\ UNCHANGED <<told, comp, refused, next>>
      BY <1>2 DEF TurnsInv, HeldOnce, reports, bounds
    <3>2. \A d \in Children : \A t \in Holds(d)' : t \in told' /\ comp'[t] = 0
      BY <1>1, <2>4, <2>5, <3>1
    <3>3. \A d, e \in Children : d # e => Holds(d)' \cap Holds(e)' = {}
      <4>1. \A d \in Children : d # c => Holds(d)' \cap Holds(c)' = {}
        BY <1>1, <2>4, <2>5, <3>1
      <4>2. \A d, e \in Children : d # e /\ d # c /\ e # c => Holds(d)' \cap Holds(e)' = {}
        BY <2>5, <3>1
      <4> QED
        BY <4>1, <4>2
    <3>4. TurnsHeld'
      <4>1. \A t \in Turns : \A d \in Children : t \in Holds(d)' <=> t \in Holds(d) \/ (d = c /\ t = op.t)
        BY <2>4, <2>5
      <4> SUFFICES ASSUME NEW t \in Turns
                   PROVE  /\ comp[t] > 0 => comp[t] = 1 /\ t \in told /\ \A d \in Children : t \notin Holds(d)'
                          /\ t \in told /\ comp[t] = 0 =>
                               t \in refused \/ t = op'.t \/ \E d \in Children : t \in Holds(d)'
        BY <3>1 DEF TurnsHeld
      <4>2. /\ comp[t] > 0 => comp[t] = 1 /\ t \in told /\ \A d \in Children : t \notin Holds(d)
            /\ t \in told /\ comp[t] = 0 =>
                 t \in refused \/ t = op.t \/ \E d \in Children : t \in Holds(d)
        BY DEF TurnsInv, HeldOnce, TurnsHeld
      <4>3. comp[op.t] = 0 /\ ~ comp[op.t] > 0
        BY <1>1
      <4>4. comp[t] > 0 => t # op.t
        BY <4>3
      <4> QED
        BY <1>2, <1>3, <4>1, <4>2, <4>4
    <3> QED
      BY <3>1, <3>2, <3>3, <3>4 DEF HeldOnce
  <2>10. OpHolds'
    BY <1>c, <1>1, <1>2, <1>3, <1>10, <2>4 DEF OpHolds, Offered, reports
  <2>11. JournalsSound'
    BY <1>c, <1>2, <1>3, <1>7, <1>10, <2>5, <2>7, JournalsFrom DEF manager
  <2> QED
    BY <1>5, <1>6, <2>5, <2>6, <2>8, <2>9, <2>10, <2>11 DEF TurnsInv
<1> QED
  BY <1>9, <1>10

\* A spawn that is undone: the child is cancelled and no longer known.
LEMMA BeginUndo ==
  ASSUME TurnsInv, op.k = "spawn", op.pc \in {"offer", "acked", "refused"},
         Advance("undo"), kids' = kids \ {op.c}, loop' = [loop EXCEPT ![op.c].cancelled = TRUE],
         refused' = refused \/ refused' = refused \union {op.t},
         UNCHANGED <<disk, closed, closing, reconciled, listed, recovered, run, steers, slots, told, comp, bounds>>
  PROVE  TurnsInv'
<1> DEFINE c == op.c
<1>1. /\ c \in Children /\ op.t \in Turns /\ op.t < next
      /\ \A d \in Children : d \notin kids => loop[d] = NoLoop
      /\ (op.pc \in {"acked", "refused"} => op.taken) /\ listed = {}
  BY DEF TurnsInv, Typed, Ops, OpFits, Accepting, LoopsOfKids, Unborn
<1>2. /\ op' \in Ops /\ op'.k = "spawn" /\ op'.c = c /\ op'.t = op.t /\ op'.pc = "undo"
      /\ op'.taken = op.taken
  BY AdvanceEffect, AdvancePc DEF TurnsInv
<1>3. /\ loop' \in [Children -> Loops]
      /\ \A d \in Children : LoopHolds(d)' /\ Holds(d)' = Holds(d)
      /\ \A d \in Children : LoopMatches(d)'
      /\ \A d \in Children : d # c => loop'[d] = loop[d]
  BY <1>1, CancelKeeps DEF disk
<1>4. Typed'
  BY <1>1, <1>2, <1>3 DEF TurnsInv, Typed, disk, slots, bounds
<1>5. HeldOnce'
  BY <1>2, <1>3, QuietHeld DEF bounds
<1>6. OpFits'
  BY <1>1, <1>2 DEF OpFits, Accepting, bounds
<1>7. LoopsOfKids'
  BY <1>1, <1>2, <1>3 DEF LoopsOfKids, Unborn
<1>8. OpHolds'
  <2>1. ~ op.taken => op.pc = "offer"
    BY <1>1
  <2>2. ~ op.taken => op.t \in told /\ comp[op.t] = 0 /\ \A d \in Children : op.t \notin Holds(d)
    BY <2>1, OfferedOp
  <2> QED
    BY <1>2, <1>3, <2>2 DEF OpHolds, Offered
<1>9. JournalsSound'
  <2>1. JournalsKept
    BY SameKept DEF disk, bounds
  <2> QED
    BY <1>2, <1>3, <2>1, JournalsFrom
<1> QED
  BY <1>3, <1>4, <1>5, <1>6, <1>7, <1>8, <1>9 DEF TurnsInv


LEMMA OfferNotTakenKeeps ==
  ASSUME TurnsInv, OfferGivenUp \/ OfferToCancelled
  PROVE  TurnsInv'
<1>0. PICK why \in BOOLEAN : OfferNotTaken(why)
  BY DEF OfferGivenUp, OfferToCancelled, CallerGone, OfferNotTaken
<1>c. PICK c \in Children : c = op.c
  BY <1>0, OfferedOp DEF OfferNotTaken, At
<1>1. /\ op.pc = "offer" /\ op.k \in {"spawn", "resume"} /\ op.t \in Turns /\ op.t < next
      /\ op.t \in told /\ comp[op.t] = 0 /\ \A d \in Children : op.t \notin Holds(d)
      /\ (Readable(jour[c]) => jour[c].seen[op.t] = "accepted") /\ Offered /\ listed = {} /\ c \notin quar
      /\ \A d \in Children : d \notin kids => loop[d] = NoLoop
      /\ UNCHANGED <<quar, closed, closing, reconciled, listed, recovered, run, steers, slots, told, next, restarts>>
  BY <1>c, <1>0, OfferedOp DEF OfferNotTaken, At
<1>2. CASE op.k = "spawn"
  <2>1. /\ Advance("undo") /\ kids' = kids \ {op.c} /\ loop' = [loop EXCEPT ![op.c].cancelled = TRUE]
        /\ UNCHANGED <<jour, faults, comp, refused>>
    BY <1>0, <1>2 DEF OfferNotTaken
  <2> QED
    BY <1>1, <1>2, <2>1, BeginUndo DEF disk, bounds
<1>3. CASE op.k # "spawn"
  <2>1. /\ IF JournalOpen(c) THEN Record(c, "interrupted", op.t) ELSE UNCHANGED <<jour, faults>>
        /\ Completed({op.t}) /\ refused' = refused \union {op.t} /\ Return /\ UNCHANGED <<kids, loop>>
    BY <1>c, <1>0, <1>3 DEF OfferNotTaken
  <2>2. \A d \in Children : /\ SameLoop(d) /\ run'[d] = run[d] /\ steers'[d] = steers[d]
                             /\ LoopHolds(d)' /\ Holds(d)' = Holds(d) /\ (jour'[d] = jour[d] => LoopMatches(d)')
    <3>1. \A d \in Children : SameLoop(d) /\ run'[d] = run[d] /\ steers'[d] = steers[d]
      BY <1>1, <2>1 DEF SameLoop
    <3> QED
      BY <3>1, SameLoopKeeps
  <2>3. /\ JournalsKept /\ jour' \in [Children -> Journals] /\ faults' \in Nat
        /\ \A d \in Children : LoopMatches(d)'
    <3>1. CASE JournalOpen(c)
      <4>1. PICK w \in Writes(jour[c], "interrupted", op.t) : Wrote(c, w)
        BY <2>1, <3>1 DEF Record
      <4>2. "interrupted" \in Records /\ (Readable(jour[c]) => Legal(jour[c], "interrupted", op.t))
        BY <1>1 DEF Records, Legal
      <4>3. Recorded(c, "interrupted", op.t, w)
        BY <1>1, <4>1, <4>2, RecordEffect
      <4>4. faults' \in Nat
        BY <4>3 DEF Recorded
      <4>5. /\ JournalsKept /\ jour' \in [Children -> Journals]
            /\ \A d \in Children : SameLoop(d) => LoopMatches(d)'
        BY <1>1, <4>2, <4>3, RecordKept
      <4> QED
        BY <2>2, <4>4, <4>5
    <3>2. CASE ~ JournalOpen(c)
      <4>1. JournalsKept
        BY <1>1, <2>1, <3>2, SameKept
      <4> QED
        BY <2>1, <2>2, <3>2, <4>1 DEF TurnsInv, Typed
    <3> QED
      BY <3>1, <3>2
  <2>4. Typed'
    BY <1>1, <2>1, <2>3, ReturnTyped, CompletedTyped DEF TurnsInv, Typed, slots
  <2>5. HeldOnce'
    <3>1. told \subseteq Turns /\ \A t \in told : t < next
      BY DEF TurnsInv, Typed, HeldOnce
    <3> QED
      BY <1>1, <2>1, <2>2, <3>1, ToldKeeps
  <2> QED
    BY <1>1, <2>1, <2>2, <2>3, <2>4, <2>5, ReturnKeeps
<1> QED
  BY <1>2, <1>3

LEMMA OfferAnsweredKeeps ==
  ASSUME TurnsInv, OfferAnswered
  PROVE  TurnsInv'
<1>1. /\ op.pc \in {"acked", "refused"} /\ op.k \in {"spawn", "resume"} /\ listed = {}
      /\ UNCHANGED <<disk, closed, closing, reconciled, listed, recovered, run, steers, slots, told, comp, bounds>>
  BY DEF OfferAnswered, At, TurnsInv, OpFits, Typed, Ops
<1>2. op.t \in Turns
  BY <1>1 DEF TurnsInv, OpFits, Accepting
<1>3. CASE /\ Return /\ UNCHANGED <<kids, loop>>
           /\ \/ op.pc = "acked" /\ refused' = refused
              \/ refused' = refused \union {op.t}
  <2>1. \A d \in Children : LoopHolds(d)' /\ Holds(d)' = Holds(d) /\ LoopMatches(d)'
    <3>1. \A d \in Children : SameLoop(d) /\ run'[d] = run[d] /\ steers'[d] = steers[d] /\ jour'[d] = jour[d]
      BY <1>1, <1>3 DEF SameLoop, disk
    <3> QED
      BY <3>1, SameLoopKeeps
  <2>2. Typed'
    BY <1>1, <1>2, <1>3, ReturnTyped DEF TurnsInv, Typed, disk, slots, bounds
  <2>3. op.pc = "acked" => comp[op.t] > 0 \/ \E d \in Children : op.t \in Holds(d)
    <3>1. op.pc = "acked" => op.c \in Children
      BY DEF TurnsInv, OpFits
    <3> QED
      BY <3>1 DEF TurnsInv, OpHolds
  <2>4. HeldOnce'
    BY <1>1, <1>3, <2>1, <2>3, QuietHeld DEF bounds
  <2>5. \A d \in Children : d \notin kids' => loop'[d] = NoLoop
    BY <1>1, <1>3 DEF TurnsInv, LoopsOfKids, Unborn
  <2> QED
    BY <1>1, <1>3, <2>1, <2>2, <2>4, <2>5, ReturnQuiet DEF disk, bounds
<1>4. CASE /\ op.k = "spawn" /\ Advance("undo") /\ kids' = kids \ {op.c}
           /\ loop' = [loop EXCEPT ![op.c].cancelled = TRUE] /\ refused' = refused \union {op.t}
  BY <1>1, <1>4, BeginUndo
<1>5. \/ op.pc # "refused" /\ Return /\ UNCHANGED <<kids, loop, refused>>
      \/ /\ refused' = refused \union {op.t}
         /\ IF op.k = "spawn"
            THEN /\ Advance("undo") /\ kids' = kids \ {op.c}
                 /\ loop' = [loop EXCEPT ![op.c].cancelled = TRUE]
            ELSE Return /\ UNCHANGED <<kids, loop>>
  BY DEF OfferAnswered
<1> QED
  BY <1>1, <1>3, <1>4, <1>5

LEMMA UndoKeeps ==
  ASSUME TurnsInv, Undo
  PROVE  TurnsInv'
<1> DEFINE c == op.c
<1>1. /\ op.pc = "undo" /\ op.k = "spawn" /\ c \in Children /\ c \notin kids /\ listed = {}
      /\ loop[c].st = "gone" /\ loop' = [loop EXCEPT ![c] = NoLoop] /\ Return
      /\ \A d \in Children : d \notin kids /\ d # c => loop[d] = NoLoop
      /\ refused' = refused \union {op.t}
      /\ UNCHANGED <<disk, manager, run, steers, slots, told, bounds>>
  BY BuildingOp DEF Undo, At, TurnsInv, OpFits
<1>2. /\ loop' \in [Children -> Loops]
      /\ \A d \in Children : LoopHolds(d)' /\ Holds(d)' = Holds(d)
      /\ \A d \in Children : LoopMatches(d)'
      /\ \A d \in Children : d # c => loop'[d] = loop[d]
      /\ loop'[c] = NoLoop
  BY <1>1, ReplaceKeeps DEF disk
<1>3. op.t \in Turns /\ refused' \subseteq Turns /\ refused \subseteq refused'
  BY <1>1 DEF TurnsInv, OpFits, Accepting, Typed
<1>4. Completed(IF op.taken THEN {} ELSE {op.t})
  BY <1>1 DEF Undo, Completed, TurnsInv, Typed
<1>5. Typed'
  BY <1>1, <1>2, <1>3, <1>4, ReturnTyped, CompletedTyped DEF TurnsInv, Typed, disk, manager, slots, bounds
<1>6. HeldOnce'
  <2>1. told \subseteq Turns /\ \A t \in told : t < next
    BY DEF TurnsInv, Typed, HeldOnce
  <2>2. (IF op.taken THEN {} ELSE {op.t}) \in SUBSET {op.t}
    OBVIOUS
  <2>3. (IF op.taken THEN {} ELSE {op.t}) # {} => Offered
    BY <1>1 DEF Offered
  <2> QED
    BY <1>1, <1>2, <1>3, <1>4, <2>1, <2>2, <2>3, ToldKeeps DEF bounds
<1> QED
  BY <1>1, <1>2, <1>5, <1>6, ReturnQuiet DEF disk, manager, bounds

LEMMA InterruptDoneKeeps ==
  ASSUME TurnsInv, InterruptDone
  PROVE  TurnsInv'
<1>1. op.pc = "dropping" /\ op.k = "interrupt" /\ listed = {} /\ ~ Accepting
  BY DEF InterruptDone, At, TurnsInv, OpFits, Accepting
<1>2. \A d \in Children : d \notin kids => loop[d] = NoLoop
  BY <1>1 DEF TurnsInv, LoopsOfKids, Unborn
<1>3. Return /\ UNCHANGED <<disk, manager, loop, run, steers, slots, reports, next, restarts>> /\ faults' \in Nat
  BY DEF InterruptDone, bounds, TurnsInv, Typed
<1> QED
  BY <1>1, <1>2, <1>3, ReturnOnly

\* The end of the wait for a child that is stopped.
LEMMA StopEndKeeps ==
  ASSUME TurnsInv, StopDone \/ StopGivenUp
  PROVE  TurnsInv'
<1> DEFINE c == op.c
<1>1. /\ op.pc = "wait" /\ c \in Children /\ Return /\ ~ Accepting /\ listed = {}
      /\ \A d \in Children : d \notin kids => loop[d] = NoLoop
  BY DEF StopDone, StopGivenUp, At, TurnsInv, OpFits, Accepting, LoopsOfKids, Unborn
<1>3. CASE StopDone
  <2>1. /\ loop[c].st = "gone" /\ kids' = kids \ {c} /\ loop' = [loop EXCEPT ![c] = NoLoop]
        /\ recovered' = [recovered EXCEPT ![c] = loop[c].state]
        /\ UNCHANGED <<disk, closed, closing, reconciled, listed, run, steers, slots, reports, bounds>>
    BY <1>3 DEF StopDone
  <2>2. /\ loop' \in [Children -> Loops]
        /\ \A d \in Children : LoopHolds(d)' /\ Holds(d)' = Holds(d)
        /\ \A d \in Children : LoopMatches(d)'
        /\ \A d \in Children : d # c => loop'[d] = loop[d]
        /\ loop'[c] = NoLoop
    BY <1>1, <2>1, ReplaceKeeps DEF disk
  <2>3. loop[c].state \in ResidentStates
    BY <1>1 DEF TurnsInv, Typed, Loops
  <2>4. Typed'
    BY <1>1, <2>1, <2>2, <2>3, ReturnTyped DEF TurnsInv, Typed, disk, slots, reports, bounds
  <2>5. HeldOnce'
    BY <1>1, <2>1, <2>2, NoTurnYet, QuietHeld DEF reports, bounds
  <2>6. \A d \in Children : d \notin kids' => loop'[d] = NoLoop
    BY <1>1, <2>1, <2>2
  <2> QED
    BY <1>1, <2>1, <2>2, <2>4, <2>5, <2>6, ReturnQuiet DEF disk, bounds
<1>4. CASE StopGivenUp
  BY <1>1, <1>4, ReturnOnly DEF StopGivenUp, TurnsInv, Typed
<1> QED
  BY <1>3, <1>4

----------------------------------------------------------------------------
(* Close, reconciliation and the end of the process.                         *)

\* What is left alone keeps the parts that speak of it.
LEMMA OpFrame ==
  ASSUME TurnsInv, UNCHANGED <<op, next, told, comp, kids, quar>>, listed' \subseteq listed,
         \A d \in Children : Holds(d)' = Holds(d)
  PROVE  OpFits' /\ OpHolds'
<1>1. op.pc # "none" /\ op.pc # "listing" => op.c \in Children
  BY DEF TurnsInv, OpFits
<1>2. OpFits'
  BY <1>1 DEF TurnsInv, OpFits, Accepting
<1>3. OpHolds'
  BY <1>1 DEF TurnsInv, OpHolds, Offered
<1> QED
  BY <1>2, <1>3

LEMMA JournalsFrame ==
  ASSUME TurnsInv, UNCHANGED <<op, next, jour, quar, kids>>, \A d \in Children : LoopMatches(d)'
  PROVE  JournalsSound'
  BY DEF TurnsInv, JournalsSound, SetAside

LEMMA CloseManagerKeeps ==
  ASSUME TurnsInv, CloseManager
  PROVE  TurnsInv'
<1>1. /\ closed' = TRUE /\ closing' \subseteq kids
      /\ UNCHANGED <<disk, reconciled, listed, kids, recovered, op, loop, run, steers, slots, reports, bounds>>
  BY DEF CloseManager
<1>2. \A d \in Children : LoopHolds(d)' /\ Holds(d)' = Holds(d) /\ LoopMatches(d)'
  <2>1. \A d \in Children : SameLoop(d) /\ run'[d] = run[d] /\ steers'[d] = steers[d] /\ jour'[d] = jour[d]
    BY <1>1 DEF SameLoop, disk
  <2> QED
    BY <2>1, SameLoopKeeps
<1>3. Typed'
  BY <1>1 DEF TurnsInv, Typed, disk, slots, reports, bounds
<1>4. HeldOnce'
  BY <1>1, <1>2, QuietHeld DEF reports, bounds
<1>5. LoopsOfKids'
  BY <1>1 DEF TurnsInv, LoopsOfKids, Unborn
<1> QED
  BY <1>1, <1>2, <1>3, <1>4, <1>5, OpFrame, JournalsFrame DEF TurnsInv, disk, reports, bounds

LEMMA CloseChildKeeps ==
  ASSUME TurnsInv, NEW c \in Children, CloseChild(c)
  PROVE  TurnsInv'
<1> DEFINE b == (loop[c].st # "gone") \/ loop[c].cancelled
<1>1. /\ closing' = closing \ {c} /\ loop' = [loop EXCEPT ![c].cancelled = b]
      /\ UNCHANGED <<disk, closed, reconciled, listed, kids, recovered, op, run, steers, slots, reports, bounds>>
  BY DEF CloseChild, TurnsInv, Typed
<1>2. b \in BOOLEAN
  BY DEF TurnsInv, Typed, Loops
<1>3. /\ loop' \in [Children -> Loops]
      /\ \A d \in Children : LoopHolds(d)' /\ Holds(d)' = Holds(d)
      /\ \A d \in Children : LoopMatches(d)'
      /\ \A d \in Children : d # c => loop'[d] = loop[d]
  <2> HIDE DEF b
  <2> QED
    BY <1>1, <1>2, CancelKeeps DEF disk
<1>4. ASSUME loop[c] = NoLoop PROVE loop'[c] = NoLoop
  <2>1. NoLoop \in Loops /\ NoLoop.st = "gone" /\ NoLoop.cancelled = FALSE
    BY LoopTyped DEF NoLoop
  <2>2. [NoLoop EXCEPT !.cancelled = FALSE] = NoLoop
    BY <2>1 DEF Loops
  <2>3. b = FALSE
    BY <1>4, <2>1
  <2> HIDE DEF b
  <2>4. loop'[c] = [loop[c] EXCEPT !.cancelled = FALSE]
    BY <1>1, <2>3 DEF TurnsInv, Typed
  <2> QED
    BY <1>4, <2>2, <2>4
<1> HIDE DEF b
<1>5. Typed'
  BY <1>1, <1>3 DEF TurnsInv, Typed, disk, slots, reports, bounds
<1>6. HeldOnce'
  BY <1>1, <1>3, QuietHeld DEF reports, bounds
<1>7. LoopsOfKids'
  BY <1>1, <1>3, <1>4 DEF TurnsInv, LoopsOfKids, Unborn
<1> QED
  BY <1>1, <1>3, <1>5, <1>6, <1>7, OpFrame, JournalsFrame DEF TurnsInv, disk, reports, bounds

LEMMA ReconcileKeeps ==
  ASSUME TurnsInv, Reconcile
  PROVE  TurnsInv'
<1>1. /\ Idle /\ reconciled' = TRUE /\ recovered' = [c \in Children |-> "none"]
      /\ listed' \subseteq Children /\ listed' \cap kids = {} /\ Begin("reconcile", NoChild, "listing")
      /\ UNCHANGED <<disk, closed, closing, kids, loop, run, steers, slots, reports, bounds>>
  BY DEF Reconcile
<1>2. op.t \notin told /\ \A d \in Children : d \notin kids => loop[d] = NoLoop
  BY <1>1, IdleOp
<1>3. /\ op' \in Ops /\ op'.k = "reconcile" /\ op'.c = NoChild /\ op'.t = NoTurn /\ op'.pc = "listing"
  BY <1>1, BegunOp
<1>4. \A d \in Children : LoopHolds(d)' /\ Holds(d)' = Holds(d) /\ LoopMatches(d)'
  <2>1. \A d \in Children : SameLoop(d) /\ run'[d] = run[d] /\ steers'[d] = steers[d] /\ jour'[d] = jour[d]
    BY <1>1 DEF SameLoop, disk
  <2> QED
    BY <2>1, SameLoopKeeps
<1>5. Typed'
  BY <1>1, <1>3 DEF TurnsInv, Typed, disk, slots, reports, bounds
<1>6. HeldOnce'
  BY <1>1, <1>2, <1>4, QuietHeld DEF reports, bounds
<1>7. OpFits' /\ LoopsOfKids' /\ OpHolds'
  BY <1>1, <1>2, <1>3 DEF OpFits, Accepting, LoopsOfKids, Unborn, OpHolds, Offered
<1>8. JournalsSound'
  <2>1. JournalsKept
    BY <1>1, SameKept DEF disk, bounds
  <2>2. NoChild \notin quar
    BY ResidentsAssumption DEF TurnsInv, Typed
  <2> QED
    BY <1>1, <1>3, <1>4, <2>1, <2>2, JournalsFrom
<1> QED
  BY <1>4, <1>5, <1>6, <1>7, <1>8 DEF TurnsInv

LEMMA ReconcileChildKeeps ==
  ASSUME TurnsInv, NEW c \in Children, ReconcileChild(c)
  PROVE  TurnsInv'
<1>1. /\ op.pc = "listing" /\ op.k = "reconcile" /\ c \in listed /\ listed' = listed \ {c}
      /\ c \notin kids /\ op.c = NoChild /\ loop[c] = NoLoop
      /\ UNCHANGED <<closed, closing, reconciled, kids, op, loop, run, steers, slots, reports, next, restarts>>
  BY DEF ReconcileChild, At, TurnsInv, OpFits, LoopsOfKids, Unborn
<1>2. \A d \in Children : /\ LoopHolds(d)' /\ Holds(d)' = Holds(d)
                          /\ jour'[d] = jour[d] => LoopMatches(d)'
  <2>1. \A d \in Children : SameLoop(d) /\ run'[d] = run[d] /\ steers'[d] = steers[d]
    BY <1>1 DEF SameLoop
  <2> QED
    BY <2>1, SameLoopKeeps
<1>3. HeldOnce'
  BY <1>1, <1>2, QuietHeld DEF reports
<1>4. OpFits' /\ OpHolds'
  <2>1. op'.k = op.k /\ listed' \subseteq listed
    BY <1>1
  <2>2. OpFits'
    BY <1>1 DEF TurnsInv, OpFits, Accepting
  <2>3. OpHolds'
    BY <1>1 DEF OpHolds, Offered
  <2> QED
    BY <2>2, <2>3
<1>5. LoopsOfKids'
  BY <1>1 DEF TurnsInv, LoopsOfKids, Unborn
<1>6. jour[c] \in Journals /\ jour[c].state # "disordered" /\ jour \in [Children -> Journals] /\ faults \in Nat
  BY DEF TurnsInv, Typed, JournalsSound
<1>7. CASE Corrupt(jour[c])
  <2>1. jour' = jour /\ recovered' = recovered /\ faults' \in Nat /\ (quar' = quar \/ quar' = quar \union {c})
    BY <1>6, <1>7 DEF ReconcileChild
  <2>2. Typed'
    BY <1>1, <2>1 DEF TurnsInv, Typed, slots, reports
  <2>3. \A d \in quar' : SetAside(d)'
    <3>1. jour[c].state \in {"empty", "merged"} /\ c # NoChild
      BY <1>6, <1>7, ResidentsAssumption DEF Corrupt, Readable
    <3> QED
      BY <1>1, <2>1, <3>1 DEF TurnsInv, JournalsSound, SetAside
  <2>4. JournalsSound'
    BY <1>1, <1>2, <2>1, <2>3 DEF TurnsInv, JournalsSound
  <2> QED
    BY <1>2, <1>3, <1>4, <1>5, <2>1, <2>2, <2>4 DEF TurnsInv
<1>8. CASE ~ Corrupt(jour[c])
  <2>1. PICK w \in Reconciled(jour[c]) :
          /\ Wrote(c, w)
          /\ recovered' = [recovered EXCEPT ![c] = IF w.ok THEN StateLeft(jour[c]) ELSE @]
    BY <1>8 DEF ReconcileChild
  <2>2. /\ w.j \in Journals /\ w.j.state # "disordered" /\ w.ok \in BOOLEAN
        /\ \A u \in Turns : jour[c].seen[u] = "none" => w.j.seen[u] = "none"
    BY <1>6, ReconciledEffect
  <2> DEFINE k == w.j
  <2>3. jour' = [jour EXCEPT ![c] = k] /\ faults' \in Nat /\ quar' = quar
    BY <1>6, <1>8, <2>1, <2>2 DEF Wrote, ReconcileChild
  <2>4. c \notin quar
    BY <1>8 DEF TurnsInv, JournalsSound, SetAside, Corrupt, Readable
  <2>5. JournalsKept /\ jour' \in [Children -> Journals] /\ \A d \in Children : d # c => jour'[d] = jour[d]
    <3>1. k \in Journals /\ k.state # "disordered" /\ \A u \in Turns : jour[c].seen[u] = "none" => k.seen[u] = "none"
      BY <2>2
    <3> HIDE DEF k
    <3> QED
      BY <1>1, <1>6, <2>3, <2>4, <3>1, WrittenKept
  <2>6. StateLeft(jour[c]) \in ResidentStates \union {"none"}
    BY <1>6, <1>8 DEF StateLeft, Corrupt, Readable, Journals, JournalStates, ResidentStates
  <2>7. Typed'
    <3>1. recovered' \in [Children -> ResidentStates \union {"none"}]
      BY <2>1, <2>6 DEF TurnsInv, Typed
    <3> QED
      BY <1>1, <2>3, <2>5, <3>1 DEF TurnsInv, Typed, slots, reports
  <2>8. \A d \in Children : LoopMatches(d)'
    <3>1. LoopMatches(c)'
      BY <1>1, LoopTyped, EmptyHolds DEF LoopMatches
    <3> QED
      BY <1>2, <2>5, <3>1
  <2>9. JournalsSound'
    BY <1>1, <2>5, <2>8, JournalsFrom
  <2> QED
    BY <1>2, <1>3, <1>4, <1>5, <2>7, <2>9 DEF TurnsInv
<1> QED
  BY <1>7, <1>8

LEMMA ReconcileDoneKeeps ==
  ASSUME TurnsInv, ReconcileDone
  PROVE  TurnsInv'
<1>1. op.pc = "listing" /\ op.k = "reconcile" /\ listed = {} /\ ~ Accepting
  BY DEF ReconcileDone, At, TurnsInv, OpFits, Accepting
<1>2. \A d \in Children : d \notin kids => loop[d] = NoLoop
  BY <1>1 DEF TurnsInv, LoopsOfKids, Unborn
<1>3. Return /\ UNCHANGED <<disk, manager, loop, run, steers, slots, reports, next, restarts>> /\ faults' \in Nat
  BY DEF ReconcileDone, bounds, TurnsInv, Typed
<1> QED
  BY <1>1, <1>2, <1>3, ReturnOnly

\* A process that has just begun: nothing is told, held or reported.
Fresh ==
    /\ closed = FALSE /\ closing = {} /\ reconciled = FALSE /\ listed = {}
    /\ kids = {} /\ recovered = [c \in Children |-> "none"]
    /\ op = NoOp
    /\ loop = [c \in Children |-> NoLoop]
    /\ run = [c \in Children |-> NoRun]
    /\ steers = [c \in Children |-> 0]
    /\ tickets = <<>> /\ reserved = {}
    /\ told = {} /\ refused = {} /\ comp = [t \in Turns |-> 0]

\* What it finds on disk, and has asked for.
Found ==
    /\ jour \in [Children -> Journals] /\ quar \subseteq Children
    /\ next \in 1..(MaxTurns + 1) /\ faults \in Nat /\ restarts \in Nat
    /\ \A d \in Children : jour[d].state # "disordered" /\ \A t \in Turns : t >= next => jour[d].seen[t] = "none"
    /\ \A d \in quar : jour[d].state \in {"empty", "merged"}

LEMMA FreshHolds == Fresh /\ Found => TurnsInv
<1> SUFFICES ASSUME Fresh, Found PROVE TurnsInv
  OBVIOUS
<1>1. op \in Ops /\ op.k = "none" /\ op.pc = "none" /\ op.t = NoTurn /\ op.c = NoChild
  BY NoOpEffect DEF Fresh, NoOp
<1>2. NoRun \in Runs /\ NoRun.pc = "idle"
  BY DEF NoRun, Runs
<1>3. \A d \in Children : /\ loop[d] = NoLoop /\ run[d] = NoRun /\ steers[d] = 0
  BY DEF Fresh
<1>4. <<>> \in Seq(Children) /\ 0 \in 0..1
  BY EmptySeq
<1>5. Typed
  BY <1>1, <1>2, <1>4, LoopTyped DEF Fresh, Typed, Found
<1>6. \A d \in Children : LoopHolds(d) /\ LoopMatches(d) /\ Holds(d) = {}
  BY <1>2, <1>3, LoopTyped, EmptyHolds DEF LoopHolds, LoopMatches, Holds
<1>7. OpFits /\ OpHolds
  BY <1>1 DEF OpFits, Accepting, OpHolds, Offered, Fresh
<1>8. LoopsOfKids
  BY <1>1, <1>3 DEF LoopsOfKids, Fresh
<1>9. HeldOnce
  <2>1. told = {} /\ \A t \in Turns : comp[t] = 0
    BY DEF Fresh
  <2>2. TurnsHeld
    BY <2>1 DEF TurnsHeld
  <2> QED
    BY <1>6, <2>1, <2>2 DEF HeldOnce
<1>10. JournalsSound
  <2>1. \A d \in quar : SetAside(d)
    BY <1>1, ResidentsAssumption DEF SetAside, Found, Fresh
  <2> QED
    BY <1>1, <1>6, <2>1 DEF JournalsSound, Found
<1> QED
  BY <1>5, <1>6, <1>7, <1>8, <1>9, <1>10 DEF TurnsInv

LEMMA RestartKeeps ==
  ASSUME TurnsInv, Restart
  PROVE  TurnsInv'
<1>1. Fresh' /\ restarts' = restarts + 1 /\ UNCHANGED <<disk, next, faults>>
  BY DEF Restart, Fresh
<1>2. /\ jour' \in [Children -> Journals] /\ quar' \subseteq Children /\ next' \in 1..(MaxTurns + 1)
      /\ faults' \in Nat /\ restarts' \in Nat
  BY <1>1 DEF TurnsInv, Typed, JournalsSound, disk
<1>3. /\ \A d \in Children : jour'[d].state # "disordered" /\ \A t \in Turns : t >= next' => jour'[d].seen[t] = "none"
      /\ \A d \in quar' : jour'[d].state \in {"empty", "merged"}
  BY <1>1 DEF TurnsInv, JournalsSound, SetAside, disk
<1>4. Found'
  BY <1>2, <1>3 DEF Found
<1> QED
  BY <1>1, <1>4, FreshHolds, PTL

LEMMA TurnsInvInit ==
  ASSUME Init
  PROVE  TurnsInv
<1>1. NoJournal \in Journals /\ NoJournal.state # "disordered" /\ \A t \in Turns : NoJournal.seen[t] = "none"
  BY DEF NoJournal, Journals, JournalStates, Seens
<1>2. jour \in [Children -> Journals] /\ \A d \in Children : jour[d] = NoJournal
  BY <1>1 DEF Init
<1>3. quar = {} /\ quar \subseteq Children /\ next \in 1..(MaxTurns + 1) /\ faults \in Nat /\ restarts \in Nat
  BY ResidentsAssumption DEF Init
<1>4. Fresh
  BY DEF Init, Fresh
<1>5. Found
  BY <1>1, <1>2, <1>3 DEF Found
<1> QED
  BY <1>4, <1>5, FreshHolds

LEMMA TurnsInvNext ==
  ASSUME TurnsInv, [Next]_vars
  PROVE  TurnsInv'
<1>1. ASSUME NEW c \in Children, ChildStep(c) PROVE TurnsInv'
  BY <1>1, StartTurnKeeps, SeeCancelKeeps, DropQueuedKeeps, EndInterruptedKeeps, TakeResultKeeps, LoopGoneKeeps,
     AdmitKeeps, DispatchEndsKeeps, RunnerEnqueueKeeps, RunnerReadyKeeps, RunnerCancelledKeeps, RunnerTimeoutKeeps,
     RunnerReadsKeeps, RunnerFinishKeeps DEF ChildStep
<1>2. CASE OperationStep
  BY <1>2, SpawnRefusedKeeps, SpawnAcceptKeeps, SpawnBuildKeeps, PublishKeeps, AbandonKeeps, FollowUpAcceptKeeps, OfferTakenKeeps,
     OfferNotTakenKeeps, OfferAnsweredKeeps, UndoKeeps, InterruptDoneKeeps, StopEndKeeps,
     ReconcileChildKeeps, ReconcileDoneKeeps DEF OperationStep
<1>3. CASE Request
  BY <1>3, SpawnOpenKeeps, ResumeRebuildKeeps, ResumeLiveKeeps, SteerKeeps, InterruptKeeps,
     StopBeginKeeps, CloseChildKeeps, ReconcileKeeps, CloseManagerKeeps, RestartKeeps DEF Request
<1>4. CASE UNCHANGED vars
  <2>1. UNCHANGED <<closed, closing, reconciled, listed, kids, recovered, disk, op, loop, run, steers, slots, reports, bounds>>
    BY <1>4 DEF vars, manager
  <2>2. \A d \in Children : LoopHolds(d)' /\ Holds(d)' = Holds(d) /\ LoopMatches(d)'
    <3>1. \A d \in Children : SameLoop(d) /\ run'[d] = run[d] /\ steers'[d] = steers[d] /\ jour'[d] = jour[d]
      BY <2>1 DEF SameLoop, disk
    <3> QED
      BY <3>1, SameLoopKeeps
  <2>3. Typed'
    BY <2>1 DEF TurnsInv, Typed, disk, slots, reports, bounds
  <2>4. HeldOnce'
    BY <2>1, <2>2, QuietHeld DEF reports, bounds
  <2>5. LoopsOfKids'
    BY <2>1 DEF TurnsInv, LoopsOfKids, Unborn
  <2> QED
    BY <2>1, <2>2, <2>3, <2>4, <2>5, OpFrame, JournalsFrame DEF TurnsInv, disk, reports, bounds
<1> QED
  BY <1>1, <1>2, <1>3, <1>4 DEF Next

----------------------------------------------------------------------------
(***************************************************************************)
(* The slots.  SlotsInv says the same as SlotsAccounted in the terms that  *)
(* each step of a dispatch changes: a child wants a slot while its turn    *)
(* waits or works, and then it has a slot or a ticket, never both.         *)
(***************************************************************************)

Wants(c) == run[c].pc \in {"enqueued", "waiting", "working"}

SlotsInv ==
    /\ IsFiniteSet(reserved) /\ Distinct(tickets) /\ Cardinality(reserved) <= Limit
    /\ tickets # <<>> /\ Cardinality(reserved) < Limit => \E c \in Children : Dispatching(c)
    /\ ElementsOf(tickets) \cap reserved = {}
    /\ \A c \in Children : Wants(c) <=> c \in reserved \/ c \in ElementsOf(tickets)
    /\ \A c \in Children : run[c].pc = "working" => c \in reserved

\* Tickets withdrawn.
LEMMA WithoutEffect ==
  ASSUME NEW tk \in Seq(Children), NEW cs, Distinct(tk)
  PROVE  /\ Without(tk, cs) \in Seq(Children) /\ Distinct(Without(tk, cs))
         /\ ElementsOf(Without(tk, cs)) = ElementsOf(tk) \ cs
<1> DEFINE o == Without(tk, cs)
<1>1. o \in Seq(Children)
  BY WithoutTyped
<1>2. /\ DOMAIN o = 1..Len(o) /\ DOMAIN tk = 1..Len(tk)
      /\ \A i \in 1..Len(tk) : tk[i] \in Children
  BY <1>1, LenProperties, ElementOfSeq
<1>3. o = Only(tk, Children \ cs)
  BY DEF Without
<1> HIDE DEF o
<1>k. Retains(o, tk, Children \ cs)
  BY <1>3, OnlyKeeps
<1>4. \A k \in 1..Len(o) : o[k] \in Children \ cs /\ \E i \in 1..Len(tk) : o[k] = tk[i]
  BY <1>k DEF Retains
<1>5. \A i \in 1..Len(tk) : tk[i] \in Children \ cs => \E k \in 1..Len(o) : o[k] = tk[i]
  BY <1>k DEF Retains
<1>6. Distinct(o)
  <2>1. \A k, m \in 1..Len(o) : k < m => \E i, j \in 1..Len(tk) : i < j /\ o[k] = tk[i] /\ o[m] = tk[j]
    BY <1>k DEF Retains
  <2>2. Len(tk) \in Nat /\ Len(o) \in Nat
    BY <1>1, LenProperties
  <2>3. \A i, j \in 1..Len(tk) : i < j => tk[i] # tk[j]
    BY <1>2, <2>2 DEF Distinct
  <2>4. \A k, m \in 1..Len(o) : k < m => o[k] # o[m]
    BY <2>1, <2>3
  <2>5. \A k, m \in 1..Len(o) : k = m \/ k < m \/ m < k
    BY <2>2
  <2> QED
    BY <1>2, <2>4, <2>5 DEF Distinct
<1>7. ElementsOf(o) = ElementsOf(tk) \ cs
  BY <1>2, <1>4, <1>5 DEF ElementsOf
<1> QED
  BY <1>1, <1>6, <1>7 DEF o

\* A step that no slot or ticket is about and that ends no dispatch.
LEMMA SlotsFrame ==
  ASSUME SlotsInv, UNCHANGED slots,
         \A d \in Children : /\ Wants(d)' = Wants(d)
                             /\ run'[d].pc = "working" => d \in reserved
                             /\ Dispatching(d) => Dispatching(d)'
  PROVE  SlotsInv'
  BY DEF SlotsInv, slots

LEMMA SameRunSlots ==
  ASSUME SlotsInv, UNCHANGED <<run, slots>>
  PROVE  SlotsInv'
  BY SlotsFrame DEF SlotsInv, Wants, Dispatching

\* A step of one turn that waits for no slot and dispatches nothing, before and
\* after.
LEMMA IdleSlots ==
  ASSUME TurnsInv, SlotsInv, NEW c \in Children, NEW r \in Runs, run' = [run EXCEPT ![c] = r],
         run[c].pc \in {"idle", "returned"}, r.pc \in {"idle", "begin"}, UNCHANGED slots
  PROVE  SlotsInv'
<1>1. run'[c] = r /\ \A d \in Children : d # c => run'[d] = run[d]
  BY DEF TurnsInv, Typed
<1>2. \A d \in Children : Wants(d)' = Wants(d) /\ (run'[d].pc = "working" => run[d].pc = "working")
  BY <1>1 DEF Wants
<1>3. \A d \in Children : Dispatching(d) => Dispatching(d)'
  BY <1>1 DEF Dispatching
<1> QED
  BY <1>2, <1>3, SlotsFrame DEF SlotsInv

\* A turn that has its slot and goes to work.
LEMMA WorkSlots ==
  ASSUME TurnsInv, SlotsInv, NEW c \in Children, run[c].pc = "waiting", c \in reserved,
         run' = [run EXCEPT ![c].pc = "working"], UNCHANGED slots
  PROVE  SlotsInv'
<1>1. run'[c].pc = "working" /\ \A d \in Children : d # c => run'[d] = run[d]
  BY DEF TurnsInv, Typed, Runs
<1>2. \A d \in Children : Wants(d)' = Wants(d) /\ (run'[d].pc = "working" => d \in reserved)
  BY <1>1 DEF Wants, SlotsInv
<1>3. \A d \in Children : Dispatching(d) => Dispatching(d)'
  BY <1>1 DEF Dispatching
<1> QED
  BY <1>2, <1>3, SlotsFrame

\* The new ticket, and its turn dispatches.
LEMMA EnqueueSlots ==
  ASSUME TurnsInv, SlotsInv, NEW c \in Children, RunnerEnqueue(c)
  PROVE  SlotsInv'
<1> DEFINE tk == Append(tickets, c)
<1>1. /\ run[c].pc = "begin" /\ tickets' = tk /\ reserved' = reserved
      /\ run' = [run EXCEPT ![c].pc = "enqueued"]
  BY DEF RunnerEnqueue
<1>2. run'[c].pc = "enqueued" /\ \A d \in Children : d # c => run'[d] = run[d]
  BY <1>1 DEF TurnsInv, Typed, Runs
<1>3. tickets \in Seq(Children) /\ Distinct(tickets)
  BY DEF TurnsInv, Typed, SlotsInv
<1>4. c \notin ElementsOf(tickets) /\ c \notin reserved
  BY <1>1 DEF SlotsInv, Wants
<1>5. tk \in Seq(Children) /\ Distinct(tk) /\ ElementsOf(tk) = ElementsOf(tickets) \union {c}
  <2>1. /\ tk \in Seq(Children) /\ Len(tk) = Len(tickets) + 1 /\ tk[Len(tickets) + 1] = c
        /\ \A i \in 1..Len(tickets) : tk[i] = tickets[i]
    BY <1>3, AppendProperties
  <2>2. Len(tickets) \in Nat /\ DOMAIN tickets = 1..Len(tickets) /\ DOMAIN tk = 1..(Len(tickets) + 1)
    BY <1>3, <2>1, LenProperties
  <2> HIDE DEF tk
  <2>3. \A i \in DOMAIN tk : i \in DOMAIN tickets \/ i = Len(tickets) + 1
    BY <2>2
  <2>4. Len(tickets) + 1 \in DOMAIN tk /\ DOMAIN tickets \subseteq DOMAIN tk
    BY <2>2
  <2>5. \A i \in DOMAIN tickets : tk[i] = tickets[i] /\ tk[i] # c
    BY <1>4, <2>1, <2>2 DEF ElementsOf
  <2>6. Distinct(tk)
    BY <1>3, <2>1, <2>3, <2>5 DEF Distinct
  <2>7. ElementsOf(tk) \subseteq ElementsOf(tickets) \union {c}
    BY <2>1, <2>3, <2>5 DEF ElementsOf
  <2>8. ElementsOf(tickets) \union {c} \subseteq ElementsOf(tk)
    BY <2>1, <2>4, <2>5 DEF ElementsOf
  <2> QED
    BY <2>1, <2>6, <2>7, <2>8
<1> HIDE DEF tk
<1>6. Dispatching(c)'
  BY <1>2 DEF Dispatching
<1>7. \A d \in Children : Wants(d)' <=> d \in reserved \/ d \in ElementsOf(tk)
  <2>1. Wants(c)' /\ \A d \in Children : d # c => Wants(d)' = Wants(d)
    BY <1>2 DEF Wants
  <2> QED
    BY <1>5, <2>1 DEF SlotsInv
<1>8. \A d \in Children : run'[d].pc = "working" => d \in reserved
  BY <1>2 DEF SlotsInv
<1>9. ElementsOf(tk) \cap reserved = {}
  BY <1>4, <1>5 DEF SlotsInv
<1> QED
  BY <1>1, <1>5, <1>6, <1>7, <1>8, <1>9 DEF SlotsInv

\* A turn that goes back without having worked, or from its work: it wants no
\* slot and dispatches.
LEMMA LeaveSlots ==
  ASSUME TurnsInv, SlotsInv, NEW c \in Children, NEW res, Leave(c, res),
         \/ tickets' = Without(tickets, {c}) /\ reserved' = reserved \ {c}
         \/ tickets' = Without(tickets, {c}) /\ reserved' = reserved /\ c \notin reserved
         \/ tickets' = tickets /\ reserved' = reserved \ {c} /\ c \notin ElementsOf(tickets)
  PROVE  SlotsInv'
<1>1. run'[c].pc = "leaving" /\ \A d \in Children : d # c => run'[d] = run[d]
  BY DEF Leave, TurnsInv, Typed
<1>2. /\ tickets \in Seq(Children) /\ Distinct(tickets)
      /\ IsFiniteSet(reserved) /\ Cardinality(reserved) <= Limit
  BY DEF TurnsInv, Typed, SlotsInv
<1>3. /\ Distinct(Without(tickets, {c}))
      /\ ElementsOf(Without(tickets, {c})) = ElementsOf(tickets) \ {c}
  BY <1>2, WithoutEffect
<1>4. Distinct(tickets') /\ ElementsOf(tickets') = ElementsOf(tickets) \ {c} /\ reserved' = reserved \ {c}
  BY <1>2, <1>3
<1>5. IsFiniteSet(reserved') /\ Cardinality(reserved') <= Limit
  <2>1. IsFiniteSet(reserved \ {c}) /\ Cardinality(reserved \ {c}) <= Cardinality(reserved)
    BY <1>2, FS_Subset
  <2>2. Cardinality(reserved \ {c}) \in Nat /\ Cardinality(reserved) \in Nat /\ Limit \in Nat
    BY <1>2, <2>1, FS_CardinalityType, ResidentsAssumption
  <2>3. Cardinality(reserved \ {c}) <= Limit
    BY <1>2, <2>1, <2>2
  <2> QED
    BY <1>4, <2>1, <2>3
<1>6. Dispatching(c)'
  BY <1>1 DEF Dispatching
<1>7. \A d \in Children : Wants(d)' <=> d \in reserved' \/ d \in ElementsOf(tickets')
  <2>1. ~ Wants(c)' /\ \A d \in Children : d # c => Wants(d)' = Wants(d)
    BY <1>1 DEF Wants
  <2> QED
    BY <1>4, <2>1 DEF SlotsInv
<1>8. \A d \in Children : run'[d].pc = "working" => d \in reserved'
  BY <1>1, <1>4 DEF SlotsInv
<1>9. ElementsOf(tickets') \cap reserved' = {}
  BY <1>4 DEF SlotsInv
<1> QED
  BY <1>4, <1>5, <1>6, <1>7, <1>8, <1>9 DEF SlotsInv

\* One ticket becomes a slot; whoever dispatches goes on.
LEMMA AdmitSlots ==
  ASSUME TurnsInv, SlotsInv, NEW c \in Children, Admit(c)
  PROVE  SlotsInv'
<1>1. PICK k \in Admissible : /\ reserved' = reserved \union {tickets[k]}
                              /\ tickets' = Without(tickets, {tickets[k]})
  BY DEF Admit
<1>2. Dispatching(c) /\ run' = run
  BY DEF Admit
<1>3. tickets \in Seq(Children) /\ Distinct(tickets) /\ IsFiniteSet(reserved)
  BY DEF TurnsInv, Typed, SlotsInv
<1>4. k \in DOMAIN tickets /\ Cardinality(reserved) < Limit
  BY <1>1 DEF Admissible
<1> DEFINE d == tickets[k]
<1>5. d \in ElementsOf(tickets) /\ d \notin reserved
  BY <1>4 DEF ElementsOf, SlotsInv
<1> HIDE DEF d
<1>6. Distinct(tickets') /\ ElementsOf(tickets') = ElementsOf(tickets) \ {d}
  BY <1>1, <1>3, WithoutEffect DEF d
<1>7. IsFiniteSet(reserved \union {d}) /\ Cardinality(reserved \union {d}) = Cardinality(reserved) + 1
  BY <1>3, <1>5, FS_AddElement
<1>8. Cardinality(reserved) \in Nat /\ Limit \in Nat
  BY <1>3, FS_CardinalityType, ResidentsAssumption
<1>9. reserved' = reserved \union {d}
  BY <1>1 DEF d
<1>10. IsFiniteSet(reserved') /\ Cardinality(reserved') <= Limit
  BY <1>4, <1>7, <1>8, <1>9
<1>11. \A e \in Children : Wants(e)' <=> e \in reserved' \/ e \in ElementsOf(tickets')
  BY <1>2, <1>5, <1>6, <1>9 DEF SlotsInv, Wants
<1>12. ElementsOf(tickets') \cap reserved' = {}
  BY <1>6, <1>9 DEF SlotsInv
<1>13. Dispatching(c)' /\ \A e \in Children : run'[e].pc = "working" => e \in reserved'
  BY <1>2, <1>9 DEF Dispatching, SlotsInv
<1> QED
  BY <1>6, <1>10, <1>11, <1>12, <1>13 DEF SlotsInv

\* A dispatch ends only when no waiting child could have a slot.
LEMMA DispatchEndsSlots ==
  ASSUME TurnsInv, SlotsInv, NEW c \in Children, DispatchEnds(c)
  PROVE  SlotsInv'
<1>1. /\ Dispatching(c) /\ Admissible = {} /\ UNCHANGED <<tickets, reserved>>
      /\ run' = [run EXCEPT ![c].pc = IF @ = "enqueued" THEN "waiting" ELSE "returned"]
  BY DEF DispatchEnds, slots
<1>2. /\ run'[c].pc = IF run[c].pc = "enqueued" THEN "waiting" ELSE "returned"
      /\ \A d \in Children : d # c => run'[d] = run[d]
  BY <1>1 DEF TurnsInv, Typed, Runs
<1>3. \A d \in Children : Wants(d)' = Wants(d) /\ (run'[d].pc = "working" => run[d].pc = "working")
  BY <1>1, <1>2 DEF Wants, Dispatching
<1>4. tickets # <<>> => ~ (Cardinality(reserved) < Limit)
  <2> SUFFICES ASSUME tickets # <<>>, Cardinality(reserved) < Limit PROVE FALSE
    OBVIOUS
  <2>1. tickets \in Seq(Children)
    BY DEF TurnsInv, Typed
  <2>2. Len(tickets) \in Nat /\ Len(tickets) # 0 /\ DOMAIN tickets = 1..Len(tickets)
    BY <2>1, EmptySeq, LenProperties
  <2>3. 1 \in DOMAIN tickets
    BY <2>2
  <2>4. tickets[1] \notin reserved
    BY <2>3 DEF ElementsOf, SlotsInv
  <2> QED
    BY <1>1, <2>3, <2>4 DEF Admissible
<1> QED
  BY <1>1, <1>3, <1>4 DEF SlotsInv

LEMMA FreshSlots == Fresh => SlotsInv
<1> SUFFICES ASSUME Fresh PROVE SlotsInv
  OBVIOUS
<1>1. tickets = <<>> /\ reserved = {} /\ \A c \in Children : run[c].pc = "idle"
  BY DEF Fresh, NoRun
<1>2. IsFiniteSet(reserved) /\ Cardinality(reserved) = 0
  BY <1>1, FS_EmptySet
<1>3. Cardinality(reserved) <= Limit
  BY <1>2, ResidentsAssumption
<1> QED
  BY <1>1, <1>2, <1>3, EmptyHolds DEF SlotsInv, Wants

LEMMA SlotsInvNext ==
  ASSUME TurnsInv, SlotsInv, [Next]_vars
  PROVE  SlotsInv'
<1>1. ASSUME NEW c \in Children, ChildStep(c) PROVE SlotsInv'
  <2>1. CASE StartTurn(c)
    <3>1. run[c].pc = "idle"
      BY <2>1 DEF StartTurn, MayStart, TurnsInv, LoopHolds
    <3>2. [NoRun EXCEPT !.pc = "begin"] \in Runs /\ [NoRun EXCEPT !.pc = "begin"].pc = "begin"
      BY DEF NoRun, Runs
    <3>3. UNCHANGED slots /\ (run' = [run EXCEPT ![c] = [NoRun EXCEPT !.pc = "begin"]] \/ run' = run)
      BY <2>1 DEF StartTurn
    <3> QED
      BY <3>1, <3>2, <3>3, IdleSlots, SameRunSlots
  <2>2. CASE TakeResult(c)
    <3>1. NoRun \in Runs /\ NoRun.pc = "idle"
      BY DEF NoRun, Runs
    <3>2. run[c].pc = "returned" /\ run' = [run EXCEPT ![c] = NoRun] /\ UNCHANGED slots
      BY <2>2 DEF TakeResult
    <3> QED
      BY <3>1, <3>2, IdleSlots
  <2>3. CASE SeeCancel(c) \/ DropQueued(c) \/ EndInterrupted(c) \/ LoopGone(c) \/ RunnerReads(c)
    BY <2>3, SameRunSlots DEF SeeCancel, DropQueued, EndInterrupted, LoopGone, RunnerReads
  <2>4. CASE RunnerEnqueue(c)
    BY <2>4, EnqueueSlots
  <2>5. CASE RunnerReady(c)
    BY <2>5, WorkSlots DEF RunnerReady
  <2>6. CASE RunnerCancelled(c)
    BY <2>6, LeaveSlots DEF RunnerCancelled
  <2>7. CASE RunnerTimeout(c)
    BY <2>7, WorkSlots, LeaveSlots DEF RunnerTimeout, slots
  <2>8. CASE RunnerFinish(c)
    <3>1. PICK res : Leave(c, res)
      BY <2>8 DEF RunnerFinish
    <3>2. tickets' = tickets /\ reserved' = reserved \ {c} /\ run[c].pc = "working"
      BY <2>8 DEF RunnerFinish
    <3>3. c \notin ElementsOf(tickets)
      BY <3>2 DEF SlotsInv
    <3> QED
      BY <3>1, <3>2, <3>3, LeaveSlots
  <2>9. CASE Admit(c) \/ DispatchEnds(c)
    BY <2>9, AdmitSlots, DispatchEndsSlots
  <2> QED
    BY <1>1, <2>1, <2>2, <2>3, <2>4, <2>5, <2>6, <2>7, <2>8, <2>9 DEF ChildStep
<1>2. CASE OperationStep
  <2>1. UNCHANGED <<run, slots>>
    BY <1>2 DEF OperationStep, SpawnRefused, SpawnAccept, SpawnBuild, Publish, Abandon, FollowUpAccept,
       OfferTaken, OfferGivenUp, OfferToCancelled, OfferNotTaken, OfferAnswered, Undo, InterruptDone,
       StopDone, StopGivenUp, ReconcileChild, ReconcileDone
  <2> QED
    BY <2>1, SameRunSlots
<1>3. CASE Request
  <2>1. CASE Restart
    <3>1. Fresh'
      BY <2>1 DEF Restart, Fresh
    <3> QED
      BY <3>1, FreshSlots, PTL
  <2>2. CASE ~ Restart
    <3>1. UNCHANGED <<run, slots>>
      BY <1>3, <2>2 DEF Request, SpawnOpen, ResumeRebuild, ResumeLive, Steer, Interrupt, StopBegin,
         CloseChild, Reconcile, CloseManager
    <3> QED
      BY <3>1, SameRunSlots
  <2> QED
    BY <2>1, <2>2
<1>4. CASE UNCHANGED vars
  BY <1>4, SameRunSlots DEF vars
<1> QED
  BY <1>1, <1>2, <1>3, <1>4 DEF Next

----------------------------------------------------------------------------
(* The theorems.                                                             *)

LEMMA ResidentsInvariant == Spec => [](TurnsInv /\ SlotsInv)
<1>1. Init => TurnsInv /\ SlotsInv
  <2> SUFFICES ASSUME Init PROVE TurnsInv /\ SlotsInv
    OBVIOUS
  <2>1. Fresh
    BY DEF Init, Fresh
  <2> QED
    BY <2>1, TurnsInvInit, FreshSlots
<1>2. TurnsInv /\ SlotsInv /\ [Next]_vars => (TurnsInv /\ SlotsInv)'
  BY TurnsInvNext, SlotsInvNext
<1> QED
  BY <1>1, <1>2, PTL DEF Spec

\* Every variable has its type, and what a child has ended with is empty.
THEOREM ResidentsTyped == Spec => []TypeOK
<1>1. TurnsInv => TypeOK
  <2> SUFFICES ASSUME TurnsInv PROVE TypeOK
    OBVIOUS
  <2>1. \A c \in Children : JournalOK(jour[c])
    BY DEF TurnsInv, Typed, Journals, JournalStates, JournalOK, Seens
  <2>2. \A c \in Children : LoopOK(loop[c])
    BY DEF TurnsInv, Typed, Loops, LoopOK
  <2>3. op.t \in Turns \union {NoTurn} /\ op.c \in Children \union {NoChild}
    BY DEF TurnsInv, Typed, Ops
  <2>4. /\ \A c \in Children : loop[c].st # "live" =>
             loop[c].dropped = <<>> /\ ~loop[c].running /\ run[c].pc = "idle"
        /\ \A c \in Children : loop[c].st = "gone" => loop[c].queue = <<>>
    BY DEF TurnsInv, LoopHolds
  <2> QED
    BY <2>1, <2>2, <2>3, <2>4 DEF TurnsInv, Typed, TypeOK, Runs
<1> QED
  BY <1>1, ResidentsInvariant, PTL

\* The slots are those of the turns at work or about to be, never more than
\* the limit, and while one is free and a turn waits somebody is dispatching.
THEOREM ResidentsSlots == Spec => []SlotsAccounted
<1>1. TurnsInv /\ SlotsInv => SlotsAccounted
  <2> SUFFICES ASSUME TurnsInv, SlotsInv PROVE SlotsAccounted
    OBVIOUS
  <2>1. tickets \in Seq(Children) /\ reserved \subseteq Children
    BY DEF TurnsInv, Typed
  <2>2. /\ Len(tickets) \in Nat /\ DOMAIN tickets = 1..Len(tickets)
        /\ \A i \in 1..Len(tickets) : tickets[i] \in Children
    BY <2>1, LenProperties, ElementOfSeq
  <2>3. Cardinality(ElementsOf(tickets)) = Len(tickets)
    <3>1. \A i, j \in 1..Len(tickets) : tickets[i] = tickets[j] => i = j
      BY <2>2 DEF SlotsInv, Distinct
    <3>2. /\ \A i \in 1..Len(tickets) : tickets[i] \in ElementsOf(tickets)
          /\ \A t \in ElementsOf(tickets) : \E i \in 1..Len(tickets) : tickets[i] = t
      BY <2>2 DEF ElementsOf
    <3> QED
      BY <2>2, <3>1, <3>2, InjectiveCount
  <2>4. \A c \in Children : c \in reserved <=>
          run[c].pc = "working" \/ (Queueing(c) /\ c \notin ElementsOf(tickets))
    BY DEF SlotsInv, Wants, Queueing
  <2>5. ElementsOf(tickets) \subseteq Children
    BY <2>2 DEF ElementsOf
  <2>6. ElementsOf(tickets) = {c \in Children : Queueing(c) /\ c \notin reserved}
    BY <2>5 DEF SlotsInv, Wants, Queueing
  <2> QED
    BY <2>3, <2>4, <2>6 DEF SlotsInv, SlotsAccounted
<1> QED
  BY <1>1, ResidentsInvariant, PTL

\* Every turn the observer was told of is reported once, whoever ends it, and
\* what was steered into a turn ends with it.
THEOREM ResidentsTurnsOnce == Spec => []EachTurnOnce
<1>1. TurnsInv => EachTurnOnce
  BY DEF TurnsInv, HeldOnce, LoopHolds, EachTurnOnce, SteersBelongToTurn
<1> QED
  BY <1>1, ResidentsInvariant, PTL

\* No record of a journal is out of the order in which the next reconciliation
\* takes it, whichever failed or was torn and wherever the process ended; a
\* child is set aside only for a spawn that was never accepted or a record
\* appended to a partial line.
THEOREM ResidentsJournals == Spec => []JournalReplays
<1>1. TurnsInv => JournalReplays
  BY DEF TurnsInv, JournalsSound, LoopMatches, SetAside, LoopMatchesJournal, JournalReplays
<1> QED
  BY <1>1, ResidentsInvariant, PTL

=============================================================================
