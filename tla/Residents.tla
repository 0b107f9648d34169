------------------------------ MODULE Residents ------------------------------
(***************************************************************************)
(* The resident subagents of one session: the manager that accepts turns   *)
(* (packages/agent/subagents/resident_manager.go), the control goroutine   *)
(* of each child (resident_child.go), the scheduler that shares the slots  *)
(* (resident_scheduler.go) and the journal each child keeps on disk        *)
(* (resident_journal.go).                                                  *)
(*                                                                         *)
(* Simplifications.  A journal is what a read of it computes (the state,   *)
(* what is known of every turn, whether it is corrupt), kept up to date    *)
(* record by record; the records of the conversation are left out.         *)
(* metadata.json, result.json and the reconcile stamp are rebuilt from the *)
(* journal and not modelled: a failed write of metadata.json leaves the    *)
(* record.  Left out too: work trees, the lease against other processes    *)
(* and the journals of older versions.  Turn and child identifiers are     *)
(* fresh (UUIDs); turns are numbered in the order they are asked for.      *)
(***************************************************************************)
EXTENDS Integers, FiniteSets, Sequences, Filters

CONSTANTS
    Children,     \* identifiers of resident children
    NoChild,      \* no child: the operation is none
    Limit,        \* subagents.max_concurrent
    QueueTimeout, \* whether subagents.queue_timeout is set
    MaxTurns,     \* bound: turns asked for
    MaxFaults,    \* bound: failed writes and waits given up
    MaxRestarts   \* bound: ends of the process

ASSUME ResidentsAssumption ==
    /\ NoChild \notin Children
    /\ Limit \in Nat \ {0}
    /\ QueueTimeout \in BOOLEAN
    /\ MaxTurns \in Nat /\ MaxFaults \in Nat /\ MaxRestarts \in Nat

VARIABLES
    jour,       \* per child, its journal
    quar,       \* children with a quarantine marker
    closed,     \* the manager is closed
    closing,    \* children Close has still to cancel
    reconciled, \* this process has run Reconcile
    listed,     \* children found on disk that Reconcile has still to look at
    kids,       \* live children the manager knows
    recovered,  \* per child, the state of a child that is only on disk
    op,         \* the operation that holds lifecycleMu
    loop,       \* per child, its control goroutine
    run,        \* per child, the goroutine of its turn
    steers,     \* per child, follow-ups steered into the turn and not read
    tickets,    \* children waiting for a slot, oldest first
    reserved,   \* children that hold a slot
    told,       \* turns the accepted observer has been told of
    comp,       \* per turn, how many completions were reported
    refused,    \* turns accepted on disk whose caller got an error
    next, faults, restarts

disk == <<jour, quar>>
manager == <<closed, closing, reconciled, listed, kids, recovered>>
slots == <<tickets, reserved>>
reports == <<told, comp, refused>>
bounds == <<next, faults, restarts>>
vars == <<disk, manager, op, loop, run, steers, slots, reports, bounds>>

Turns == 1..MaxTurns
NoTurn == 0
ResidentStates == {"queued", "running", "idle", "failed", "interrupted"}

ElementsOf(s) == {s[i] : i \in DOMAIN s}

-----------------------------------------------------------------------------
(* The journal *)

\* A journal is empty until the child is accepted, and torn when it ends in a
\* partial line.  It cannot be read once a record was appended to a partial line
\* (merged) or stands where reconciliation does not take it (disordered).
NoJournal == [state |-> "none", seen |-> [t \in Turns |-> "none"], torn |-> FALSE]
Unreadable(state) == [NoJournal EXCEPT !.state = state]
Readable(j) == j.state \notin {"merged", "disordered"}
Corrupt(j) == j.state = "empty" \/ ~Readable(j)

\* What reconciliation knows of a turn after each type of record, and the
\* state of the child after it.
SeenAfter == [child |-> "accepted", accepted |-> "accepted", started |-> "started",
              finished |-> "finished", failed |-> "finished", interrupted |-> "interrupted"]
StateAfter == [child |-> "queued", started |-> "running", finished |-> "idle",
               failed |-> "failed", interrupted |-> "interrupted", broken |-> "failed"]

\* Records that reconciliation takes; any other makes the journal corrupt.
\* (The record of a child that could not be built names no turn.)
Legal(j, type, t) ==
    \/ type = "child" /\ j.state = "empty"
    \/ type = "accepted" /\ j.seen[t] = "none"
    \/ type = "started" /\ j.seen[t] = "accepted"
    \/ type \in {"finished", "failed"} /\ j.seen[t] = "started"
    \/ type = "interrupted" /\ j.seen[t] \in {"accepted", "started"}
    \/ type = "broken"

Put(j, type, t) ==
    IF ~Readable(j) THEN j
    ELSE IF j.torn THEN Unreadable("merged")
    ELSE IF ~Legal(j, type, t) THEN Unreadable("disordered")
    ELSE [j EXCEPT !.seen[t] = IF type \in DOMAIN SeenAfter THEN SeenAfter[type] ELSE @,
                   !.state = IF type \in DOMAIN StateAfter THEN StateAfter[type] ELSE @]
Torn(j) == IF Readable(j) THEN [j EXCEPT !.torn = TRUE] ELSE j

\* The outcomes of a write: it succeeds, or fails and leaves nothing, a part of
\* the line (no space, or a crash within it) or the whole record (the sync or
\* metadata.json failed).
Writes(j, type, t) ==
    {[ok |-> TRUE, j |-> Put(j, type, t)]}
    \union (IF faults < MaxFaults THEN {[ok |-> FALSE, j |-> i] : i \in {j, Torn(j), Put(j, type, t)}} ELSE {})

Wrote(c, w) ==
    /\ jour' = [jour EXCEPT ![c] = w.j]
    /\ faults' = IF w.ok THEN faults ELSE faults + 1

\* A record whose error the code ignores.
Record(c, type, t) == \E w \in Writes(jour[c], type, t) : Wrote(c, w)

\* mutant
OpenTurnsAgain(j) == {t \in Turns : j.seen[t] \in {"accepted", "started", "interrupted"}}
\* reconcileOwnedResidentJournal: a child left queued or running has its open
\* turns recorded as interrupted, one by one.
OpenTurns(j) == {t \in Turns : j.seen[t] \in {"accepted", "started"}}
NeedsInterruption(j) == j.state \in {"queued", "running"}
PutInterrupted(j, turns) ==
    IF turns = {} \/ ~Readable(j) THEN j
    ELSE IF j.torn THEN Unreadable("merged")
    ELSE IF \E t \in turns : ~Legal(j, "interrupted", t) THEN Unreadable("disordered")
    ELSE [j EXCEPT !.seen = [t \in Turns |-> IF t \in turns THEN "interrupted" ELSE @[t]],
                   !.state = "interrupted"]

\* Its outcomes for a journal that is not corrupt: done, or an error after some
\* of the turns, whose next record may be torn.
Reconciled(j) ==
    LET turns == IF NeedsInterruption(j) THEN OpenTurns(j) ELSE {}
        some  == SUBSET turns
    IN {[ok |-> TRUE, j |-> PutInterrupted(j, turns)]}
       \union (IF faults < MaxFaults
               THEN {[ok |-> FALSE, j |-> PutInterrupted(j, S)] : S \in some}
                    \union {[ok |-> FALSE, j |-> Torn(PutInterrupted(j, S))] : S \in some \ {turns}}
               ELSE {})
StateLeft(j) == IF NeedsInterruption(j) THEN "interrupted" ELSE j.state

-----------------------------------------------------------------------------
(* The control goroutine of a child *)

NoLoop == [st |-> "gone", state |-> "queued", cancelled |-> FALSE, interrupted |-> FALSE,
           running |-> FALSE, turnInterrupted |-> FALSE, hit |-> FALSE,
           active |-> NoTurn, queue |-> <<>>, dropped |-> <<>>]
NewLoop == [NoLoop EXCEPT !.st = "live"]

NoRun == [pc |-> "idle", res |-> "ok"]
NoOp == [k |-> "none", c |-> NoChild, t |-> NoTurn, pc |-> "none", taken |-> FALSE]

\* Queued turns are being dropped: by a cancelled loop, behind an end that could
\* not be recorded, or for the manager's interrupt, which waits for it.
Dropping(c) ==
    /\ loop[c].queue # <<>>
    /\ loop[c].interrupted \/ loop[c].st = "leaving" \/ (op.k = "interrupt" /\ op.c = c)

\* The two things the loop does before it waits for a message.
MayStart(c) == LET l == loop[c] IN l.st = "live" /\ ~l.interrupted /\ ~l.running /\ l.queue # <<>>
MayEnd(c) == LET l == loop[c] IN l.st = "live" /\ l.interrupted /\ ~l.running /\ ~Dropping(c)
Selecting(c) == loop[c].st = "live" /\ ~MayStart(c) /\ ~MayEnd(c) /\ ~Dropping(c)
JournalOpen(c) == loop[c].st # "gone"

\* The context of the turn: the child's own, or cancelled by an interrupt.
TurnCancelled(c) == loop[c].cancelled \/ loop[c].turnInterrupted

Completed(turns) == comp' = [t \in Turns |-> IF t \in turns THEN comp[t] + 1 ELSE comp[t]]

\* A queued turn starts, or its start cannot be recorded and the child fails
\* with all it holds.
StartTurn(c) ==
    LET l == loop[c]
        t == Head(l.queue)
    IN /\ MayStart(c)
       /\ \E w \in Writes(jour[c], "started", t) :
            /\ Wrote(c, w)
            /\ IF w.ok
               THEN /\ loop' = [loop EXCEPT ![c] = [l EXCEPT !.active = t, !.queue = Tail(@),
                                    !.running = TRUE, !.turnInterrupted = FALSE, !.state = "running"]]
                    /\ run' = [run EXCEPT ![c] = [NoRun EXCEPT !.pc = "begin"]]
                    /\ UNCHANGED comp
               ELSE /\ loop' = [loop EXCEPT ![c] = [l EXCEPT !.queue = <<>>, !.cancelled = TRUE,
                                    !.state = "failed", !.st = "leaving"]]
                    /\ Completed(ElementsOf(l.queue))
                    /\ UNCHANGED run
    /\ UNCHANGED <<quar, manager, op, steers, slots, told, refused, next, restarts>>

\* The loop sees that it is cancelled: it records the running turn, which is
\* waited for, and then drops what is queued.
SeeCancel(c) ==
    LET l == loop[c]
    IN /\ Selecting(c) /\ l.cancelled /\ ~l.interrupted
       /\ IF l.running THEN Record(c, "interrupted", l.active) ELSE UNCHANGED <<jour, faults>>
       /\ loop' = [loop EXCEPT ![c] = [l EXCEPT !.interrupted = TRUE, !.hit = l.running]]
    /\ UNCHANGED <<quar, manager, op, run, steers, slots, reports, next, restarts>>

\* One queued turn is dropped: a cancelled loop reports it when it ends.
DropQueued(c) ==
    LET l == loop[c]
        t == Head(l.queue)
    IN /\ Dropping(c)
       /\ Record(c, "interrupted", t)
       /\ IF l.interrupted
          THEN /\ loop' = [loop EXCEPT ![c] = [l EXCEPT !.queue = Tail(@), !.dropped = Append(@, t)]]
               /\ UNCHANGED comp
          ELSE /\ loop' = [loop EXCEPT ![c] = [l EXCEPT !.queue = Tail(@)]]
               /\ Completed({t})
    /\ UNCHANGED <<quar, manager, op, run, steers, slots, told, refused, next, restarts>>

\* mutant
EndInterruptedKeeping(c) ==
    LET l == loop[c]
    IN /\ MayEnd(c)
       /\ Completed(ElementsOf(l.dropped) \union (IF l.hit THEN {l.active} ELSE {}))
       /\ steers' = [steers EXCEPT ![c] = IF l.hit THEN 0 ELSE @]
       /\ loop' = [loop EXCEPT ![c] = [l EXCEPT !.st = "leaving", !.state = "interrupted", !.hit = FALSE]]
    /\ UNCHANGED <<disk, manager, op, run, slots, told, refused, bounds>>

\* An interrupted loop with no turn running reports its turns and ends.
EndInterrupted(c) ==
    LET l == loop[c]
    IN /\ MayEnd(c)
       /\ Completed(ElementsOf(l.dropped) \union (IF l.hit THEN {l.active} ELSE {}))
       /\ steers' = [steers EXCEPT ![c] = IF l.hit THEN 0 ELSE @]
       /\ loop' = [loop EXCEPT ![c] = [l EXCEPT !.st = "leaving", !.state = "interrupted",
                                           !.dropped = <<>>, !.hit = FALSE]]
    /\ UNCHANGED <<disk, manager, op, run, slots, told, refused, bounds>>

\* The turn has returned: its end is recorded and reported; when it cannot be
\* recorded the queued turns are dropped and the loop ends.
TakeResult(c) ==
    LET l == loop[c]
        r == IF l.turnInterrupted /\ run[c].res = "finished" THEN "interrupted" ELSE run[c].res
    IN /\ Selecting(c) /\ run[c].pc = "returned"
       /\ run' = [run EXCEPT ![c] = NoRun]
       /\ IF l.interrupted
          THEN /\ loop' = [loop EXCEPT ![c] = [l EXCEPT !.running = FALSE, !.turnInterrupted = FALSE]]
               /\ UNCHANGED <<jour, faults, comp, steers>>
          ELSE /\ steers' = [steers EXCEPT ![c] = 0]
               /\ \E w \in Writes(jour[c], r, l.active) :
                    /\ Wrote(c, w)
                    /\ Completed({l.active})
                    /\ loop' = [loop EXCEPT ![c] = [l EXCEPT !.running = FALSE,
                                    !.active = NoTurn, !.turnInterrupted = FALSE,
                                    !.state = IF w.ok THEN StateAfter[r] ELSE "failed",
                                    !.st = IF w.ok THEN @ ELSE "leaving"]]
    /\ UNCHANGED <<quar, manager, op, slots, told, refused, next, restarts>>

\* The deferred calls: the runtime and the journal are closed; what the
\* goroutine held in its variables is gone.
LoopGone(c) ==
    /\ loop[c].st = "leaving" /\ ~Dropping(c)
    /\ loop' = [loop EXCEPT ![c] = [NoLoop EXCEPT !.state = loop[c].state, !.cancelled = loop[c].cancelled]]
    /\ UNCHANGED <<disk, manager, op, run, steers, slots, reports, bounds>>

-----------------------------------------------------------------------------
(* The goroutine of a turn and the scheduler *)

Without(tk, cs) == Only(tk, Children \ cs)

\* Admit: the oldest ticket whose child is not active gets a free slot.
Admissible == {k \in DOMAIN tickets : tickets[k] \notin reserved /\ Cardinality(reserved) < Limit}
\* Whoever enqueues, cancels or releases then calls dispatch, which admits until
\* nothing can be admitted.  (Several at once are more than its mutex allows.)
Dispatching(c) == run[c].pc \in {"enqueued", "leaving"}

Admit(c) ==
    /\ Dispatching(c)
    /\ \E k \in Admissible :
         /\ \A i \in Admissible : k <= i
         /\ reserved' = reserved \union {tickets[k]}
         /\ tickets' = Without(tickets, {tickets[k]})
    /\ UNCHANGED <<disk, manager, op, loop, run, steers, reports, bounds>>

DispatchEnds(c) ==
    /\ Dispatching(c) /\ Admissible = {}
    /\ run' = [run EXCEPT ![c].pc = IF @ = "enqueued" THEN "waiting" ELSE "returned"]
    /\ UNCHANGED <<disk, manager, op, loop, steers, slots, reports, bounds>>

RunnerEnqueue(c) ==
    /\ run[c].pc = "begin"
    /\ run' = [run EXCEPT ![c].pc = "enqueued"]
    /\ tickets' = Append(tickets, c)
    /\ UNCHANGED <<disk, manager, op, loop, steers, reserved, reports, bounds>>

RunnerReady(c) ==
    /\ run[c].pc = "waiting" /\ c \in reserved
    /\ run' = [run EXCEPT ![c].pc = "working"]
    /\ UNCHANGED <<disk, manager, op, loop, steers, slots, reports, bounds>>

Leave(c, res) == run' = [run EXCEPT ![c] = [pc |-> "leaving", res |-> res]]

\* The turn is cancelled before it has its slot, or as it gets it.
RunnerCancelled(c) ==
    /\ run[c].pc = "waiting" /\ TurnCancelled(c)
    /\ Leave(c, "interrupted")
    /\ tickets' = Without(tickets, {c}) /\ reserved' = reserved \ {c}
    /\ UNCHANGED <<disk, manager, op, loop, steers, reports, bounds>>

\* mutant
RunnerTimeoutAtOnce(c) ==
    /\ QueueTimeout /\ run[c].pc = "waiting"
    /\ Leave(c, "failed")
    /\ tickets' = Without(tickets, {c}) /\ UNCHANGED reserved
    /\ UNCHANGED <<disk, manager, op, loop, steers, reports, bounds>>

\* The queue timeout: too late when the slot has been given.
RunnerTimeout(c) ==
    /\ QueueTimeout /\ run[c].pc = "waiting"
    /\ IF c \in reserved
       THEN run' = [run EXCEPT ![c].pc = "working"] /\ UNCHANGED tickets
       ELSE Leave(c, "failed") /\ tickets' = Without(tickets, {c})
    /\ UNCHANGED <<disk, manager, op, loop, steers, reserved, reports, bounds>>

\* The agent reads what was steered into the turn.
RunnerReads(c) ==
    /\ run[c].pc = "working" /\ steers[c] > 0
    /\ steers' = [steers EXCEPT ![c] = 0]
    /\ UNCHANGED <<disk, manager, op, loop, run, slots, reports, bounds>>

\* The turn ends: successfully only when it has read every steered follow-up.
RunnerFinish(c) ==
    /\ run[c].pc = "working"
    /\ \E res \in {"failed"} \union (IF TurnCancelled(c) THEN {"interrupted"} ELSE {})
                             \union (IF steers[c] = 0 THEN {"finished"} ELSE {}) :
         Leave(c, res)
    /\ reserved' = reserved \ {c}
    /\ UNCHANGED <<disk, manager, op, loop, steers, tickets, reports, bounds>>

-----------------------------------------------------------------------------
(* The operations of the manager, one at a time under lifecycleMu *)

Idle == op.k = "none"
Begin(k, c, pc) == op' = [k |-> k, c |-> c, t |-> NoTurn, pc |-> pc, taken |-> FALSE]
At(pc) == op.k # "none" /\ op.pc = pc
Advance(pc) == op' = [op EXCEPT !.pc = pc]
\* The turn of the operation has been accepted on disk.
Accepted(pc) == op' = [op EXCEPT !.t = next, !.pc = pc]
Return == op' = NoOp

\* Spawn creates the journal; the child is accepted on disk and the observer
\* told, unless its workspace is refused or cannot be prepared.
SpawnOpen(c) ==
    /\ Idle /\ ~closed /\ next <= MaxTurns
    /\ c \notin kids /\ recovered[c] = "none" /\ jour[c].state = "none"
    /\ jour' = [jour EXCEPT ![c].state = "empty"]
    /\ Begin("spawn", c, "opened")
    /\ UNCHANGED <<quar, manager, loop, run, steers, slots, reports, bounds>>

SpawnRefused ==
    /\ At("opened") /\ Return
    /\ UNCHANGED <<disk, manager, loop, run, steers, slots, reports, bounds>>

SpawnAccept ==
    /\ At("opened") /\ next <= MaxTurns
    /\ next' = next + 1
    /\ \E w \in Writes(jour[op.c], "child", next) :
         /\ Wrote(op.c, w)
         /\ IF w.ok THEN Accepted("build") /\ told' = told \union {next}
                    ELSE Return /\ UNCHANGED told
    /\ UNCHANGED <<quar, manager, loop, run, steers, slots, comp, refused, restarts>>

\* The factory builds the runtime, or fails: the failure is recorded, if it can
\* be, and reported.
SpawnBuild ==
    LET c == op.c
    IN /\ At("build")
       /\ \/ /\ loop' = [loop EXCEPT ![c] = NewLoop]
             /\ Advance("publish")
             /\ UNCHANGED <<jour, faults, comp>>
          \/ /\ Record(c, "broken", op.t)
             /\ Completed({op.t})
             /\ Return
             /\ UNCHANGED loop
    /\ UNCHANGED <<quar, manager, run, steers, slots, told, refused, next, restarts>>

\* A follow-up for a child that is only on disk: its journal is reconciled and
\* read again and the child rebuilt, or one of them fails.
ResumeRebuild(c) ==
    /\ Idle /\ ~closed /\ next <= MaxTurns
    /\ c \notin kids /\ recovered[c] # "none" /\ c \notin quar
    /\ ~Corrupt(jour[c])
    /\ \E w \in Reconciled(jour[c]) :
         /\ Wrote(c, w)
         /\ \/ /\ w.ok /\ ~Corrupt(w.j)
               /\ loop' = [loop EXCEPT ![c] = NewLoop]
               /\ Begin("resume", c, "publish")
            \/ UNCHANGED <<loop, op>>
    /\ UNCHANGED <<quar, manager, run, steers, slots, reports, next, restarts>>

\* The new child becomes visible unless the manager was closed meanwhile.
Publish ==
    LET c == op.c
    IN /\ At("publish")
       /\ IF closed
          THEN /\ loop' = [loop EXCEPT ![c].cancelled = TRUE]
               /\ Advance("abandon")
               /\ UNCHANGED <<kids, recovered>>
          ELSE /\ kids' = kids \union {c}
               /\ recovered' = [recovered EXCEPT ![c] = "none"]
               /\ Advance(IF op.k = "spawn" THEN "offer" ELSE "accept")
               /\ UNCHANGED loop
    /\ UNCHANGED <<disk, closed, closing, reconciled, listed, run, steers, slots, reports, bounds>>

\* The child built while the manager closed has ended: only the caller hears
\* of the turn.
Abandon ==
    /\ At("abandon") /\ loop[op.c].st = "gone"
    /\ refused' = IF op.k = "spawn" THEN refused \union {op.t} ELSE refused
    /\ loop' = [loop EXCEPT ![op.c] = NoLoop]
    /\ Return
    /\ UNCHANGED <<disk, manager, run, steers, slots, told, comp, bounds>>

ResumeLive(c) ==
    /\ Idle /\ ~closed /\ next <= MaxTurns /\ c \in kids
    /\ Begin("resume", c, "accept")
    /\ UNCHANGED <<disk, manager, loop, run, steers, slots, reports, bounds>>

\* AcceptFollowUp: the follow-up is on disk before the child hears of it.
FollowUpAccept ==
    LET c == op.c
    IN /\ At("accept") /\ next <= MaxTurns
       /\ IF JournalOpen(c)
          THEN /\ next' = next + 1
               /\ \E w \in Writes(jour[c], "accepted", next) :
                    /\ Wrote(c, w)
                    /\ IF w.ok
                       THEN Accepted("offer") /\ told' = told \union {next}
                       ELSE Return /\ UNCHANGED told
          ELSE Return /\ UNCHANGED <<jour, faults, told, next>>
    /\ UNCHANGED <<quar, manager, loop, run, steers, slots, comp, refused, restarts>>

\* enqueueAccepted: the child takes the prompt.  An interrupted child refuses
\* it, but the caller is told that the child has it.
OfferTaken ==
    LET c == op.c
        l == loop[c]
    IN /\ At("offer") /\ Selecting(c)
       /\ loop' = [loop EXCEPT ![c].queue = IF l.interrupted THEN @ ELSE Append(@, op.t)]
       /\ op' = [op EXCEPT !.pc = IF l.interrupted THEN "refused" ELSE "acked", !.taken = TRUE]
    /\ UNCHANGED <<disk, manager, run, steers, slots, reports, bounds>>

\* The caller's context ends first, or the child is seen to be cancelled.
CallerGone == TRUE
OfferNotTaken(why) ==
    LET c == op.c
    IN /\ At("offer") /\ why
       /\ IF op.k = "spawn"
          THEN /\ Advance("undo")
               /\ kids' = kids \ {c}
               /\ loop' = [loop EXCEPT ![c].cancelled = TRUE]
               /\ UNCHANGED <<jour, faults, comp, refused>>
          ELSE /\ IF JournalOpen(c) THEN Record(c, "interrupted", op.t) ELSE UNCHANGED <<jour, faults>>
               /\ Completed({op.t})
               /\ refused' = refused \union {op.t}
               /\ Return
               /\ UNCHANGED <<kids, loop>>
    /\ UNCHANGED <<quar, closed, closing, reconciled, listed, recovered, run, steers, slots, told, next, restarts>>

OfferGivenUp == OfferNotTaken(CallerGone)
OfferToCancelled == OfferNotTaken(loop[op.c].cancelled)

\* The answer of the child: taken, unless the child is cancelled as well.
OfferAnswered ==
    LET c == op.c
        fails == op.pc = "refused"
    IN /\ At("acked") \/ At("refused")
       /\ \/ ~fails /\ Return /\ UNCHANGED <<kids, loop, refused>>
          \/ /\ fails \/ loop[c].cancelled
             /\ refused' = refused \union {op.t}
             /\ IF op.k = "spawn"
                THEN /\ Advance("undo")
                     /\ kids' = kids \ {c}
                     /\ loop' = [loop EXCEPT ![c].cancelled = TRUE]
                ELSE Return /\ UNCHANGED <<kids, loop>>
    /\ UNCHANGED <<disk, closed, closing, reconciled, listed, recovered, run, steers, slots, told, comp, bounds>>

\* mutant
UndoReporting ==
    /\ At("undo") /\ loop[op.c].st = "gone"
    /\ Completed({op.t})
    /\ refused' = refused \union {op.t}
    /\ loop' = [loop EXCEPT ![op.c] = NoLoop]
    /\ Return
    /\ UNCHANGED <<disk, manager, run, steers, slots, told, bounds>>

\* A spawn undone: the child has ended; the manager reports the turn when the
\* child never took it (its journal is closed, nothing is recorded).
Undo ==
    /\ At("undo") /\ loop[op.c].st = "gone"
    /\ IF op.taken THEN UNCHANGED comp ELSE Completed({op.t})
    /\ refused' = refused \union {op.t}
    /\ loop' = [loop EXCEPT ![op.c] = NoLoop]
    /\ Return
    /\ UNCHANGED <<disk, manager, run, steers, slots, told, bounds>>

\* ResumeFollowUp steers a follow-up into the running turn.
Steer(c) ==
    LET l == loop[c]
    IN /\ Idle /\ c \in kids /\ Selecting(c)
       /\ l.running /\ ~l.interrupted /\ ~l.turnInterrupted /\ l.queue = <<>>
       /\ run[c].pc = "working" /\ steers[c] = 0
       /\ steers' = [steers EXCEPT ![c] = 1]
    /\ UNCHANGED <<disk, manager, op, loop, run, slots, reports, bounds>>

\* Interrupt cancels the running turn and waits for the loop to drop what is
\* queued behind it.
Interrupt(c) ==
    LET l == loop[c]
    IN /\ Idle /\ c \in kids /\ Selecting(c)
       /\ l.running /\ ~l.interrupted /\ ~l.turnInterrupted
       /\ loop' = [loop EXCEPT ![c].turnInterrupted = TRUE]
       /\ Begin("interrupt", c, "dropping")
    /\ UNCHANGED <<disk, manager, run, steers, slots, reports, bounds>>

InterruptDone ==
    /\ At("dropping") /\ ~Dropping(op.c)
    /\ Return
    /\ UNCHANGED <<disk, manager, loop, run, steers, slots, reports, bounds>>

\* Stop cancels a child and waits for it, until the caller gives up: the
\* child then stays among the live ones.
StopBegin(c) ==
    /\ Idle /\ c \in kids
    /\ loop' = [loop EXCEPT ![c].cancelled = TRUE]
    /\ Begin("stop", c, "wait")
    /\ UNCHANGED <<disk, manager, run, steers, slots, reports, bounds>>

StopDone ==
    LET c == op.c
    IN /\ At("wait") /\ loop[c].st = "gone"
       /\ kids' = kids \ {c}
       /\ recovered' = [recovered EXCEPT ![c] = loop[c].state]
       /\ loop' = [loop EXCEPT ![c] = NoLoop]
       /\ Return
    /\ UNCHANGED <<disk, closed, closing, reconciled, listed, run, steers, slots, reports, bounds>>

StopGivenUp ==
    /\ At("wait") /\ loop[op.c].st # "gone"
    /\ faults < MaxFaults /\ faults' = faults + 1
    /\ Return
    /\ UNCHANGED <<disk, manager, loop, run, steers, slots, reports, next, restarts>>

\* Reconcile: journals left by an earlier process, one after the other; a corrupt
\* one is set aside unless the marker cannot be written.
Reconcile ==
    /\ Idle /\ ~reconciled
    /\ reconciled' = TRUE
    /\ recovered' = [c \in Children |-> "none"]
    /\ listed' = {c \in Children : c \notin kids /\ c \notin quar /\ jour[c].state # "none"}
    /\ Begin("reconcile", NoChild, "listing")
    /\ UNCHANGED <<disk, closed, closing, kids, loop, run, steers, slots, reports, bounds>>

ReconcileChild(c) ==
    /\ At("listing") /\ c \in listed
    /\ listed' = listed \ {c}
    /\ IF Corrupt(jour[c])
       THEN /\ \/ quar' = quar \union {c} /\ UNCHANGED faults
               \/ faults < MaxFaults /\ faults' = faults + 1 /\ UNCHANGED quar
            /\ UNCHANGED <<jour, recovered>>
       ELSE /\ \E w \in Reconciled(jour[c]) :
                 /\ Wrote(c, w)
                 /\ recovered' = [recovered EXCEPT ![c] = IF w.ok THEN StateLeft(jour[c]) ELSE @]
            /\ UNCHANGED quar
    /\ UNCHANGED <<closed, closing, reconciled, kids, op, loop, run, steers, slots, reports, next, restarts>>

ReconcileDone ==
    /\ At("listing") /\ listed = {}
    /\ Return
    /\ UNCHANGED <<disk, manager, loop, run, steers, slots, reports, bounds>>

\* Close does not take lifecycleMu: it can run within any operation.
CloseManager ==
    /\ ~closed
    /\ closed' = TRUE
    /\ closing' = {c \in kids : ~loop[c].cancelled /\ loop[c].st # "gone"}
    /\ UNCHANGED <<disk, reconciled, listed, kids, recovered, op, loop, run, steers, slots, reports, bounds>>

\* Each child is cancelled in turn; the wait for it ends with its context.
CloseChild(c) ==
    /\ c \in closing
    /\ closing' = closing \ {c}
    /\ loop' = [loop EXCEPT ![c].cancelled = (loop[c].st # "gone") \/ @]
    /\ UNCHANGED <<disk, closed, reconciled, listed, kids, recovered, op, run, steers, slots, reports, bounds>>

\* The process ends between two records, and another begins.
Restart ==
    /\ restarts < MaxRestarts
    /\ restarts' = restarts + 1
    /\ closed' = FALSE /\ closing' = {} /\ reconciled' = FALSE /\ listed' = {}
    /\ kids' = {} /\ recovered' = [c \in Children |-> "none"]
    /\ op' = NoOp
    /\ loop' = [c \in Children |-> NoLoop]
    /\ run' = [c \in Children |-> NoRun]
    /\ steers' = [c \in Children |-> 0]
    /\ tickets' = <<>> /\ reserved' = {}
    /\ told' = {} /\ refused' = {} /\ comp' = [t \in Turns |-> 0]
    /\ UNCHANGED <<disk, next, faults>>

Init ==
    /\ jour = [c \in Children |-> NoJournal] /\ quar = {}
    /\ closed = FALSE /\ closing = {} /\ reconciled = FALSE /\ listed = {}
    /\ kids = {} /\ recovered = [c \in Children |-> "none"]
    /\ op = NoOp
    /\ loop = [c \in Children |-> NoLoop]
    /\ run = [c \in Children |-> NoRun]
    /\ steers = [c \in Children |-> 0]
    /\ tickets = <<>> /\ reserved = {}
    /\ told = {} /\ refused = {} /\ comp = [t \in Turns |-> 0]
    /\ next = 1 /\ faults = 0 /\ restarts = 0

\* What the goroutines of the process do by themselves.
ChildStep(c) ==
    \/ StartTurn(c) \/ SeeCancel(c) \/ DropQueued(c) \/ EndInterrupted(c) \/ TakeResult(c)
    \/ LoopGone(c) \/ Admit(c) \/ DispatchEnds(c) \/ RunnerEnqueue(c) \/ RunnerReady(c) \/ RunnerCancelled(c) \/ RunnerTimeout(c)
    \/ RunnerReads(c) \/ RunnerFinish(c)

OperationStep ==
    \/ SpawnRefused \/ SpawnAccept \/ SpawnBuild \/ Publish \/ Abandon \/ FollowUpAccept \/ OfferTaken \/ OfferGivenUp
    \/ OfferToCancelled \/ OfferAnswered \/ Undo \/ InterruptDone \/ StopDone \/ StopGivenUp
    \/ (\E c \in Children : ReconcileChild(c)) \/ ReconcileDone

Request ==
    \/ \E c \in Children : \/ SpawnOpen(c) \/ ResumeRebuild(c) \/ ResumeLive(c)
                           \/ Steer(c) \/ Interrupt(c) \/ StopBegin(c) \/ CloseChild(c)
    \/ Reconcile \/ CloseManager \/ Restart

Next == (\E c \in Children : ChildStep(c)) \/ OperationStep \/ Request

Spec == Init /\ [][Next]_vars

-----------------------------------------------------------------------------
(* Properties *)

JournalOK(j) ==
    /\ j.state \in ResidentStates \union {"none", "empty", "merged", "disordered"}
    /\ j.seen \in [Turns -> {"none", "accepted", "started", "finished", "interrupted"}]
    /\ j.torn \in BOOLEAN

LoopOK(l) ==
    /\ l.st \in {"live", "leaving", "gone"} /\ l.state \in ResidentStates
    /\ {l.cancelled, l.interrupted, l.running, l.turnInterrupted, l.hit} \subseteq BOOLEAN
    /\ l.active \in Turns \union {NoTurn}
    /\ l.queue \in Seq(Turns) /\ l.dropped \in Seq(Turns)

\* Every variable has its type, and what a child has ended with is empty: no
\* turn runs or is kept to be reported once the loop ends, and none waits in
\* the loop of a child that is gone.
TypeOK ==
    /\ \A c \in Children : JournalOK(jour[c]) /\ LoopOK(loop[c])
    /\ quar \subseteq Children /\ kids \subseteq Children /\ closing \subseteq Children
    /\ listed \subseteq Children
    /\ closed \in BOOLEAN /\ reconciled \in BOOLEAN
    /\ recovered \in [Children -> ResidentStates \union {"none"}]
    /\ op.t \in Turns \union {NoTurn} /\ op.c \in Children \union {NoChild}
    /\ run \in [Children -> [pc : {"idle", "begin", "enqueued", "waiting", "working", "leaving", "returned"},
                             res : {"ok", "finished", "failed", "interrupted"}]]
    /\ steers \in [Children -> 0..1]
    /\ tickets \in Seq(Children) /\ reserved \subseteq Children
    /\ told \subseteq Turns /\ refused \subseteq Turns /\ comp \in [Turns -> Nat]
    /\ \A c \in Children : loop[c].st # "live" =>
         loop[c].dropped = <<>> /\ ~loop[c].running /\ run[c].pc = "idle"
    /\ \A c \in Children : loop[c].st = "gone" => loop[c].queue = <<>>

\* The slots are exactly those of the turns at work or about to be, never more
\* than the limit; a turn waits for one exactly when it has none, in one ticket,
\* and while a free slot and a waiting turn exist somebody is about to bring them
\* together (ResidentScheduler's dispatch, Cancel racing Admit in scheduledRun).
Queueing(c) == run[c].pc \in {"enqueued", "waiting"}
SlotsAccounted ==
    /\ Cardinality(reserved) <= Limit
    /\ \A c \in Children : c \in reserved <=>
         \/ run[c].pc = "working"
         \/ Queueing(c) /\ c \notin ElementsOf(tickets)
    /\ ElementsOf(tickets) = {c \in Children : Queueing(c) /\ c \notin reserved}
    /\ Len(tickets) = Cardinality(ElementsOf(tickets))
    /\ tickets # <<>> /\ Cardinality(reserved) < Limit => \E c \in Children : Dispatching(c)

\* Turns a child still has to report.
Holds(c) ==
    ElementsOf(loop[c].queue) \union ElementsOf(loop[c].dropped)
    \union (IF loop[c].hit \/ (loop[c].running /\ ~loop[c].interrupted) THEN {loop[c].active} ELSE {})

\* A turn that was reported is no longer held; one that is not is held by its
\* child or by the operation that accepted it, or its caller got the error.
TurnsHeld ==
    \A t \in Turns :
        /\ comp[t] > 0 => comp[t] = 1 /\ t \in told /\ \A c \in Children : t \notin Holds(c)
        /\ t \in told /\ comp[t] = 0 => t \in refused \/ t = op.t \/ \E c \in Children : t \in Holds(c)

\* What is steered into a turn is read by that turn or given back with its
\* completion, never read by the next one.
SteersBelongToTurn == \A c \in Children : steers[c] > 0 => loop[c].running \/ loop[c].hit

\* Every turn the observer was told of is reported once, by whichever of the
\* loop, an interrupt, a cancellation, a start that failed and the manager
\* that undoes an acceptance ends it, and every steered follow-up ends with its turn.
EachTurnOnce == TurnsHeld /\ SteersBelongToTurn

\* What the loop holds is on disk as the next record requires it to be, while the
\* journal can still be read.
LoopMatchesJournal ==
    \A c \in Children : loop[c].st = "live" /\ ~loop[c].interrupted /\ Readable(jour[c]) =>
        /\ \A t \in ElementsOf(loop[c].queue) : jour[c].seen[t] = "accepted"
        /\ loop[c].running => jour[c].seen[loop[c].active] = "started"

\* However the loop, the manager, a failed write, a crash and the
\* reconciliation after it take turns in writing a journal, a turn runs only
\* when its start is on disk, and the records are in an order that the next
\* reconciliation takes: a child is set aside only for a spawn that was never
\* accepted or for a record appended to a partial line.
JournalReplays ==
    /\ LoopMatchesJournal
    /\ \A c \in Children :
         /\ jour[c].state # "disordered"
         /\ c \in quar => jour[c].state \in {"empty", "merged"}

=============================================================================
