---------------------------- MODULE SessionTurn ----------------------------
(***************************************************************************)
(* The inputs of one session and the three things that work on its         *)
(* transcript: the agent's turn, a compaction, and the rescue of a failed  *)
(* turn by another model (session/turn.go, compaction.go, goal.go, and the *)
(* loop of core/agent.go).                                                 *)
(*                                                                         *)
(* Everything but the agent's loop runs on the session's actor, one call   *)
(* after the other.  A session has two queues: the controller's, of inputs *)
(* that start turns, and the agent's, of messages that steer the running   *)
(* turn or wait for the next.  An input is submitted once.                 *)
(***************************************************************************)
EXTENDS Integers, FiniteSets, SequencesExt, Filters

CONSTANTS
  Users,    \* prompts of the user
  Peers,    \* prompts of extensions and other sessions
  Tasks,    \* scheduled prompts
  Reports,  \* host events: the completions of residents
  Goal      \* the hidden follow-up that continues the active goal

Inputs == Users \cup Peers \cup Tasks \cup Reports \cup {Goal}

ASSUME KindsAssumption ==
  /\ Users \cap (Peers \cup Tasks \cup Reports) = {}
  /\ Peers \cap (Tasks \cup Reports) = {} /\ Tasks \cap Reports = {}
  /\ Goal \notin Users \cup Peers \cup Tasks \cup Reports
  /\ IsFiniteSet(Inputs)

VARIABLES
  queue,      \* turnState.queue; stacked prompts run together, so an entry is a set
  pending,    \* Agent.queued
  loop,       \* turnState.busy and where the agent's loop stands
  cancelled,  \* the context of the turn is cancelled
  in,         \* turnState.input: the prompt of the turn, {} when it continues
  compact,    \* compactState, and the prompt that waits for the compaction
  skipOnce,   \* compactState.skipOnce
  rescue,     \* turnState.rescuing and the prompt to retry
  goal,       \* the session's goal, goalState.armed and goalState.run
  fate        \* what has become of each input

turnVars == <<loop, cancelled, in>>
leftVars == <<queue, pending, goal, fate, skipOnce>>
vars     == <<turnVars, compact, rescue, leftVars>>

NoCompaction == [stage |-> "off", aborted |-> FALSE, rescuing |-> FALSE, next |-> {}]
NoRescue     == [stage |-> "off", item |-> {}]

\* What starts a turn: one input, or prompts of the user stacked together.
Items == {{i} : i \in Inputs} \cup ((SUBSET Users) \ {{}})

TypeOK ==
  /\ queue \in Seq(Items) /\ pending \in Seq(Users \cup Reports)
  /\ loop \in {"off", "start", "boundary", "request", "ok", "blocked", "failed",
               "rescuable", "repeated", "cancelled"}
  /\ {cancelled, skipOnce} \subseteq BOOLEAN /\ in \in Items \cup {{}}
  /\ compact \in [stage : {"off", "summary", "asked", "chosen", "again", "ok", "failed"},
                  aborted : BOOLEAN, rescuing : BOOLEAN, next : Items \cup {{}}]
  /\ rescue \in [stage : {"off", "starting", "asked", "chosen", "swapped", "over"},
                 item : Items \cup {{}}]
  /\ goal \in [is : {"none", "stopped", "paused", "active"}, armed : BOOLEAN, run : {"no", "yes", "stale"}]
  /\ fate \in [Inputs -> {"new", "running", "completed", "waiting", "told", "gone", "returned",
                       "cleared"}]

Init ==
  /\ queue = <<>> /\ pending = <<>>
  /\ loop = "off" /\ cancelled = FALSE /\ in = {}
  /\ compact = NoCompaction /\ skipOnce = FALSE /\ rescue = NoRescue
  /\ goal = [is |-> "none", armed |-> FALSE, run |-> "no"]
  /\ fate = [i \in Inputs |-> "new"]

-----------------------------------------------------------------------------
(***************************************************************************)
(* The calls the actor's handlers are built from.  `w' is the session but   *)
(* for the agent's turn.                                                    *)
(***************************************************************************)

Left == [queue |-> queue, pending |-> pending, goal |-> goal, fate |-> fate,
         skip |-> skipOnce, compact |-> compact, rescue |-> rescue]

Becomes(w) ==
  /\ queue' = w.queue /\ pending' = w.pending /\ goal' = w.goal /\ fate' = w.fate
  /\ skipOnce' = w.skip /\ compact' = w.compact /\ rescue' = w.rescue

Keeps(w) == Becomes(w) /\ UNCHANGED turnVars

\* isBusy.
Busy == loop # "off" \/ compact.stage # "off" \/ rescue.stage # "off"

Fated(f, S, what) == [i \in Inputs |-> IF i \in S THEN what ELSE f[i]]
Members(q) == UNION {q[k] : k \in DOMAIN q}

\* No turn runs.
Rests(w) == Becomes(w) /\ loop' = "off" /\ cancelled' = FALSE /\ in' = {}

\* The agent's turn begins, with a prompt or, continuing, with none.
Turns(item, w) == Becomes(w) /\ loop' = "start" /\ cancelled' = FALSE /\ in' = item

\* beginCompact; item waits for it.
Compacts(item, w) ==
  Rests([w EXCEPT !.compact = [NoCompaction EXCEPT !.stage = "summary", !.next = item]])

\* goalBeforeTurn: a prompt of the user handles the interruption.
Reassessed(g, item) == [g EXCEPT !.armed = @ /\ ~ item \subseteq Users]

\* startTurn of an idle session: the context may be full enough to be compacted first,
\* unless it was just compacted.
StartTurn(item, w) ==
  \/ Turns(item, [w EXCEPT !.skip = FALSE, !.goal = Reassessed(@, item)])
  \/ ~ w.skip /\ Compacts(item, w)

\* startQueued: the first input that is not scheduled, with the user's prompts stacked
\* behind it.
FirstReady(q) == LET ready == {k \in DOMAIN q : ~ q[k] \subseteq Tasks}
                 IN IF ready = {} THEN 1 ELSE Min(ready)
LastStacked(q, k) == Max({k} \cup {m \in k..Len(q) : \A n \in k..m : q[n] \subseteq Users})

StartQueued(w) ==
  LET k == FirstReady(w.queue)
      m == LastStacked(w.queue, k)
  IN StartTurn(UNION {w.queue[n] : n \in k..m},
               [w EXCEPT !.queue = SubSeq(@, 1, k - 1) \o SubSeq(@, m + 1, Len(@))])

\* drainQueued of a session that is not busy.
Drain(w) == IF w.queue = <<>> THEN Rests(w) ELSE StartQueued(w)

\* continueGoal of a session that is not busy: lease one follow-up, unless the goal is
\* interrupted, leased already, waits for residents or has used up its tokens.
ContinueGoal(w) ==
  IF w.goal.is = "active" /\ ~ w.goal.armed /\ w.goal.run = "no"
     /\ \A r \in Reports : w.fate[r] # "running"
  THEN \/ StartTurn({Goal}, [w EXCEPT !.goal.run = "yes", !.fate[Goal] = "waiting"])
       \/ Rests([w EXCEPT !.goal.is = "stopped"])
  ELSE Rests(w)

\* Mutant: a follow-up that fails keeps its lease.
GoalAfterTurnLeased(end, w) ==
  LET free == [w EXCEPT !.goal.run = "no"] IN
  \/ end = "error" /\ Rests(w)
  \/ end = "ok" /\ ContinueGoal(free)
  \/ end = "cancelled" /\ Rests(free)

\* goalAfterTurn: give the lease back.  A failed follow-up stops its goal, and so may the
\* end of its budget or of its progress.
GoalAfterTurn(end, w) ==
  LET free == [w EXCEPT !.goal.run = "no"]
      mine == w.goal.run = "yes" /\ w.goal.is = "active"
  IN \/ mine /\ Rests([free EXCEPT !.goal.is = "stopped"])
     \/ end = "ok" /\ ContinueGoal(free)
     \/ end = "cancelled" /\ Rests(free)
     \/ end = "error" /\ ~ mine /\ Rests(free)

\* replaceAgent: the new agent has the transcript but not the queued messages.
Replaced(w) == [w EXCEPT !.pending = <<>>, !.fate = Fated(@, ToSet(w.pending), "gone")]

-----------------------------------------------------------------------------
(***************************************************************************)
(* What clients, extensions, schedules and residents ask for.               *)
(***************************************************************************)

Accepted(i) == [Left EXCEPT !.fate[i] = "waiting"]
Enqueued(i) == [Accepted(i) EXCEPT !.queue = Append(@, {i})]
Steered(i)  == [Accepted(i) EXCEPT !.pending = Append(@, i)]

\* Submit: steer the running turn, wait in the queue, or start a turn.
Submit(i) ==
  /\ i \in Users \cup Peers \cup Tasks /\ fate[i] = "new"
  /\ \/ Busy /\ Keeps(Enqueued(i))
     \/ loop # "off" /\ i \in Users /\ Keeps(Steered(i))
     \/ ~ Busy /\ queue # <<>> /\ Drain(Enqueued(i))
     \/ ~ Busy /\ queue = <<>> /\ StartTurn({i}, Accepted(i))

\* ResolveDeferred: an action that was denied while the user was away is sent to the agent.
SendToAgent(i) ==
  /\ i \in Users /\ fate[i] = "new"
  /\ IF Busy THEN Keeps(Enqueued(i)) ELSE StartTurn({i}, Accepted(i))

\* runPending: the completion of a resident is enqueued, and starts an idle session.
Report(r) ==
  /\ r \in Reports /\ fate[r] = "completed"
  /\ IF Busy THEN Keeps(Enqueued(r)) ELSE Drain(Enqueued(r))

WorkerCompletes(r) ==
  /\ r \in Reports /\ fate[r] = "running"
  /\ fate' = [fate EXCEPT ![r] = "completed"]
  /\ UNCHANGED <<turnVars, compact, rescue, queue, pending, goal, skipOnce>>

\* Abort: of the compaction, or else of the turn and of the question for a rescue model.
\* goalOnAbort arms the interruption of an active goal.
AbortCompaction ==
  /\ compact.stage # "off"
  /\ compact' = [compact EXCEPT !.aborted = TRUE]
  /\ UNCHANGED <<turnVars, rescue, leftVars>>

Abort ==
  /\ compact.stage = "off"
  /\ goal' = [goal EXCEPT !.armed = @ \/ goal.is = "active"]
  /\ cancelled' = (loop # "off")
  /\ rescue' = [rescue EXCEPT !.stage = IF @ = "asked" THEN "over" ELSE @]
  /\ UNCHANGED <<loop, in, compact, queue, pending, skipOnce, fate>>

\* CancelQueued and SlideBackQueued: an entry of the queue is taken back ...
TakeBack(k) ==
  /\ k \in DOMAIN queue
  /\ Keeps([Left EXCEPT !.queue = RemoveAt(@, k), !.fate = Fated(@, queue[k], "returned")])

\* ... or the newest prompt that has not reached the running turn.
SlideBack(k) ==
  /\ k \in DOMAIN pending /\ pending[k] \in Users
  /\ \A m \in (k + 1)..Len(pending) : pending[m] \notin Users
  /\ Keeps([Left EXCEPT !.pending = RemoveAt(@, k), !.fate = Fated(@, {pending[k]}, "returned")])

\* What is cleared of the user's own is taken back; the rest is discarded.
Cleared(S) == Fated(Fated(fate, S \cap Users, "returned"), S \ Users, "cleared")

\* Mutant: reports that wait in the queue are cleared as well.
ClearQueuedAll ==
  Keeps([Left EXCEPT !.queue = <<>>, !.pending = Only(@, Reports),
           !.fate = Cleared(Members(queue) \cup (ToSet(pending) \cap Users))])

\* ClearQueuedUser: host evidence is kept; what extensions, other sessions and schedules
\* asked for is discarded with the user's prompts.
ClearQueuedUser ==
  LET kept   == Only(queue, SUBSET Reports)
      steers == ToSet(pending) \cap Users
  IN Keeps([Left EXCEPT !.queue = kept, !.pending = Only(@, Reports),
              !.fate = Cleared((Members(queue) \ Members(kept)) \cup steers)])

\* Compact, of an idle session.
Compact == ~ Busy /\ Compacts({}, Left)

\* SetModel and the other settings that build a new agent, of an idle session.
SetModel == ~ Busy /\ Keeps(Replaced(Left))

\* SetGoal: each operation clears the interruption; "set" and "resume" continue at once.
\* A goal that is replaced or cleared is not the one its lease was for.
Replaces(op) == op \in {"set", "clear"}
Commanded(op) ==
  [is    |-> [set |-> "active", resume |-> "active", clear |-> "none",
              pause |-> "paused", complete |-> "stopped"][op],
   armed |-> FALSE,
   run   |-> IF Replaces(op) /\ goal.run # "no" THEN "stale" ELSE goal.run]

SetGoal(op) ==
  LET w == [Left EXCEPT !.goal = Commanded(op)] IN
  /\ op \in {"set", "clear", "pause", "resume", "complete"}
  /\ ~ Replaces(op) => goal.is # "none"
  /\ IF ~ Busy /\ op \in {"set", "resume"} THEN ContinueGoal(w) ELSE Keeps(w)

-----------------------------------------------------------------------------
(***************************************************************************)
(* The agent's turn.                                                        *)
(***************************************************************************)

Goes(to) == loop' = to /\ UNCHANGED <<cancelled, in, compact, rescue>>

\* Prompt tells the model; a report is queued for the first boundary.
Start ==
  /\ loop = "start" /\ Goes("boundary")
  /\ IF in # {} /\ in \subseteq Reports
     THEN /\ pending' = Append(pending, CHOOSE r \in in : TRUE)
          /\ UNCHANGED fate
     ELSE /\ fate' = Fated(fate, in, "told")
          /\ UNCHANGED pending
  /\ UNCHANGED <<queue, goal, skipOnce>>

\* The safe boundary before a request: queued messages are told, and an extension may
\* block the turn.
Boundary ==
  /\ loop = "boundary"
  /\ Goes("request") \/ Goes("blocked")
  /\ pending' = <<>> /\ fate' = Fated(fate, ToSet(pending), "told")
  /\ UNCHANGED <<queue, goal, skipOnce>>

\* The model calls tools, is continued, or is asked again after a failure.
More ==
  /\ loop = "request"
  /\ Goes(IF cancelled THEN "cancelled" ELSE "boundary")
  /\ UNCHANGED leftVars

\* The model stops; a message that was queued meanwhile is answered first.
Stops ==
  /\ loop = "request"
  /\ Goes(IF ~ cancelled /\ pending # <<>> THEN "boundary" ELSE "ok")
  /\ UNCHANGED leftVars

\* The request fails.  The repetition guard is off in scheduled turns.
Fails(how) ==
  /\ loop = "request" /\ how \in {"failed", "rescuable", "repeated"}
  /\ how = "repeated" => in = {} \/ ~ in \subseteq Tasks
  /\ Goes(how)
  /\ UNCHANGED leftVars

\* A tool call starts a resident, ...
Spawn(r) ==
  /\ loop = "request" /\ r \in Reports /\ fate[r] = "new"
  /\ fate' = [fate EXCEPT ![r] = "running"]
  /\ UNCHANGED <<turnVars, compact, rescue, queue, pending, goal, skipOnce>>

\* ... or update_goal settles or pauses the active goal, resumes the paused one, starts one
\* or supersedes it.  Each settles an interruption (a paused goal has none).
UpdateGoal(op) ==
  /\ loop = "request"
  /\ \/ op = "set"
     \/ op \in {"pause", "complete"} /\ goal.is = "active"
     \/ op = "resume" /\ goal.is = "paused"
  /\ goal' = Commanded(op)
  /\ UNCHANGED <<turnVars, compact, rescue, queue, pending, fate, skipOnce>>

Ended    == loop \in {"ok", "blocked", "failed", "rescuable", "repeated", "cancelled"}
Erred    == loop \in {"failed", "rescuable", "repeated", "cancelled"}

\* Mutant: whatever waits is discarded.
Discarding ==
  [Left EXCEPT !.queue = <<>>, !.pending = <<>>,
     !.fate = Fated(@, Members(queue) \cup ToSet(pending), "gone")]

\* finishTurn after an error or a cancellation.  Repetition stops autonomous work and
\* keeps explicit prompts; an error keeps host reports for a later turn; a cancellation
\* keeps neither; scheduled work is separate.
Surviving ==
  LET repeated == loop = "repeated"
      explicit == Only(pending, Users)
      hosted   == Only(queue, SUBSET Reports)
      stays    == [queue   |-> IF repeated
                               THEN Only(queue, Items \ ((SUBSET Reports) \cup (SUBSET Tasks)))
                                    \o [k \in DOMAIN explicit |-> {explicit[k]}]
                               ELSE Only(queue, SUBSET Tasks),
                   pending |-> (IF cancelled THEN <<>> ELSE Only(pending, Reports))
                               \o (IF cancelled /\ ~ repeated THEN <<>>
                                   ELSE [k \in DOMAIN hosted |-> CHOOSE r \in hosted[k] : TRUE])]
      gone     == (Members(queue) \cup ToSet(pending))
                    \ (Members(stays.queue) \cup ToSet(stays.pending))
  IN [Left EXCEPT !.queue = stays.queue, !.pending = stays.pending, !.fate = Fated(@, gone, "gone")]

\* rescueTurn, unless the turn was cancelled or had no prompt to retry.
Rescuable == loop = "rescuable" /\ ~ cancelled /\ in # {}

StartsRescue(w) == Rests([w EXCEPT !.rescue = [stage |-> "starting", item |-> in]])

HowEnded ==
  IF loop \in {"failed", "rescuable", "repeated", "blocked"} THEN "error"
  ELSE IF loop = "cancelled" THEN "cancelled" ELSE "ok"

\* Mutant: the goal comes before what is queued.
FinishTurnGoalFirst ==
  LET w == IF Erred \/ cancelled THEN Surviving ELSE Left IN
  /\ Ended
  /\ \/ Rescuable /\ StartsRescue(w)
     \/ ~ Rescuable /\ goal.is # "active" /\ w.queue # <<>> /\ StartQueued(w)
     \/ ~ Rescuable /\ (goal.is = "active" \/ w.queue = <<>>) /\ GoalAfterTurn(HowEnded, w)

\* finishTurn: what is queued runs next, a message that came after the last boundary
\* continues the turn, and only then is it the goal's turn.
FinishTurn ==
  LET w    == IF Erred \/ cancelled THEN Surviving ELSE Left
      late == w.pending # <<>> /\ ~ Erred /\ ~ cancelled
  IN /\ Ended
     /\ \/ Rescuable /\ StartsRescue(w)
        \/ ~ Rescuable /\ w.queue # <<>> /\ StartQueued(w)
        \/ ~ Rescuable /\ w.queue = <<>> /\ late /\ Turns({}, w)
        \/ ~ Rescuable /\ w.queue = <<>> /\ ~ late /\ GoalAfterTurn(HowEnded, w)

-----------------------------------------------------------------------------
(***************************************************************************)
(* Compaction and rescue wait off the actor.                                *)
(***************************************************************************)

CompactGoes(to) == compact' = [compact EXCEPT !.stage = to] /\ UNCHANGED <<turnVars, rescue, leftVars>>

\* The summary is made, also when the abort comes too late, or it is not.
Summarises(result) ==
  /\ compact.stage \in {"summary", "again"} /\ result \in {"ok", "failed"}
  /\ CompactGoes(result)

\* A failure that another model may cure: the user is asked for one.
CompactAsks ==
  /\ compact.stage = "summary" /\ ~ compact.aborted
  /\ compact' = [compact EXCEPT !.stage = "asked", !.rescuing = TRUE]
  /\ UNCHANGED <<turnVars, rescue, leftVars>>

CompactIsAnswered == compact.stage = "asked" /\ CompactGoes("chosen")

\* Nobody is attached, the question is declined or aborted, or no agent can be built.
CompactIsRefused == compact.stage \in {"asked", "chosen"} /\ CompactGoes("failed")

\* The new agent makes the summary; an abort may overtake it once it is installed.
CompactSwaps ==
  /\ compact.stage = "chosen"
  /\ \E to \in {"again"} \cup (IF compact.aborted THEN {"failed"} ELSE {}) :
       Keeps([Replaced(Left) EXCEPT !.compact.stage = to])

Compacted == [Left EXCEPT !.compact = NoCompaction]

\* Mutants: the prompt that waited is lost, is put back when there is none, or nothing runs.
EndsAbortedLosing == IF compact.rescuing THEN Rests(Compacted) ELSE Drain(Compacted)
EndsAbortedUnchecked ==
  LET w == [Compacted EXCEPT !.queue = <<compact.next>> \o @, !.skip = TRUE]
  IN IF compact.rescuing THEN Rests(w) ELSE Drain(w)
EndsAbortedIdle ==
  Rests(IF compact.next = {} THEN Compacted
        ELSE [Compacted EXCEPT !.queue = <<compact.next>> \o @, !.skip = TRUE])

\* The end of an aborted compaction puts its prompt first, and runs the queue unless a
\* rescue was refused with the abort.
EndsAborted ==
  LET w == IF compact.next = {} THEN Compacted
           ELSE [Compacted EXCEPT !.queue = <<compact.next>> \o @, !.skip = TRUE]
  IN IF compact.rescuing THEN Rests(w) ELSE Drain(w)

\* Otherwise the prompt that waited runs, whether or not the summary was made.
CompactEnds ==
  /\ compact.stage \in {"ok", "failed"}
  /\ \/ compact.aborted /\ EndsAborted
     \/ ~ compact.aborted /\ compact.next # {} /\ StartTurn(compact.next, [Compacted EXCEPT !.skip = TRUE])
     \/ ~ compact.aborted /\ compact.next = {} /\ Drain(Compacted)

RescueGoes(to) == rescue' = [rescue EXCEPT !.stage = to] /\ UNCHANGED <<turnVars, compact, leftVars>>

RescueAsks       == rescue.stage = "starting" /\ RescueGoes("asked")
RescueIsAnswered == rescue.stage = "asked" /\ RescueGoes("chosen")

\* Nobody is attached, the question is declined, or no agent can be built.
RescueIsRefused == rescue.stage \in {"starting", "asked", "chosen"} /\ RescueGoes("over")

RescueSwaps == rescue.stage = "chosen" /\ Keeps([Replaced(Left) EXCEPT !.rescue.stage = "swapped"])

\* The prompt is tried again, or else the turn has failed and what is queued runs.
RescueEnds ==
  LET w == [Left EXCEPT !.rescue = NoRescue] IN
  \/ rescue.stage = "swapped" /\ StartTurn(rescue.item, [w EXCEPT !.fate = Fated(@, rescue.item, "waiting")])
  \/ rescue.stage = "over" /\ queue # <<>> /\ StartQueued(w)
  \/ rescue.stage = "over" /\ queue = <<>> /\ GoalAfterTurn("error", w)

-----------------------------------------------------------------------------
Asked ==
  \/ \E i \in Inputs : Submit(i) \/ SendToAgent(i) \/ Report(i)
  \/ Abort \/ AbortCompaction \/ ClearQueuedUser \/ Compact \/ SetModel
  \/ \E k \in 1..(Cardinality(Inputs) + 1) : TakeBack(k) \/ SlideBack(k)
  \/ \E op \in {"set", "clear", "pause", "resume", "complete"} : SetGoal(op)
  \/ CompactIsAnswered \/ RescueIsAnswered

Model ==
  \/ Start \/ Boundary \/ More \/ Stops
  \/ \E how \in {"failed", "rescuable", "repeated"} : Fails(how)
  \/ \E r \in Reports : Spawn(r) \/ WorkerCompletes(r)
  \/ \E op \in {"set", "pause", "resume", "complete"} : UpdateGoal(op)

Controller ==
  \/ FinishTurn
  \/ \E result \in {"ok", "failed"} : Summarises(result)
  \/ CompactAsks \/ CompactIsRefused \/ CompactSwaps \/ CompactEnds
  \/ RescueAsks \/ RescueIsRefused \/ RescueSwaps \/ RescueEnds

Next == Asked \/ Model \/ Controller

Spec == Init /\ [][Next]_vars

\* The agent's loop and the controller's goroutines run on (the one that owns the
\* transcript is the one that can), and the model stops calling tools some time.  Nothing
\* makes the user answer or ask.
RunsOn ==
  \/ Start \/ Boundary \/ FinishTurn
  \/ \E result \in {"ok", "failed"} : Summarises(result)
  \/ CompactSwaps \/ CompactEnds \/ RescueAsks \/ RescueSwaps \/ RescueEnds

Fairness == WF_vars(RunsOn) /\ SF_vars(Stops)

FairSpec == Spec /\ Fairness

-----------------------------------------------------------------------------
(* Properties.                                                             *)

Places(i) ==
  Cardinality({k \in DOMAIN queue : i \in queue[k]}) + Cardinality({k \in DOMAIN pending : pending[k] = i})
  + (IF loop = "start" /\ i \in in THEN 1 ELSE 0) + (IF i \in compact.next THEN 1 ELSE 0)

\* An accepted input that has neither reached the model nor been given up waits in exactly
\* one place: it is not lost between the two queues, the turn about to start and the
\* compaction it waits for, and it does not run twice.  What is settled waits nowhere.
Accounted == \A i \in Inputs : Places(i) = IF fate[i] = "waiting" THEN 1 ELSE 0

\* The transcript has one writer: a turn, a compaction or the rescue of a failed turn.
OneOwner ==
  Cardinality({x \in {<<"turn", loop>>, <<"compact", compact.stage>>, <<"rescue", rescue.stage>>} :
                 x[2] # "off"}) <= 1

TakenBack == \E i \in Inputs : fate[i] \in {"returned", "cleared"}

\* A session goes idle with prompts in its queues only when a compaction is aborted that
\* waited for a rescue model (or when the user has taken back what would have run before
\* them), and no call leaves a prompt in the queue of an idle session.  Host reports may
\* rest in the agent.
NotStranded ==
  [][/\ Busy /\ ~ Busy' =>
          \/ queue' = <<>> /\ ToSet(pending') \subseteq Reports
          \/ compact.aborted /\ compact.rescuing
          \/ TakenBack
     /\ ~ Busy /\ ~ Busy' => Len(queue') <= Len(queue)]_vars

\* A leased goal gets its lease back at the end of a turn: something runs, or prompts are
\* held whose turn will return it, or the user has taken back the prompt that would have.
LeaseHasTurn ==
  goal.run # "no" => Busy \/ queue # <<>> \/ TakenBack

\* What works for the session is known: one thing writes its transcript, and a goal that
\* is leased has something that will return the lease.
WorkIsOwned == OneOwner /\ LeaseHasTurn

\* What a turn's end or a new agent may discard: what a replaced agent had queued, by a
\* repetition scheduled work only, by a cancellation anything else, and by an error neither
\* that nor a report.
MayDiscard(i) ==
  /\ loop = "off" => i \in ToSet(pending)
  /\ loop = "repeated" => i \in Tasks \/ (cancelled /\ i \in Reports)
  /\ loop \notin {"off", "repeated"} => i \notin Tasks /\ (cancelled \/ i \notin Reports)

\* Nothing that was accepted is discarded but so, and a user who clears the queue never
\* discards the report of a resident.
KeptAsPromised ==
  [][\A i \in Inputs : fate'[i] # fate[i] =>
       (fate'[i] = "gone" => MayDiscard(i)) /\ (fate'[i] = "cleared" => i \notin Reports)]_vars

\* An accepted prompt or report is told to the model, given up or, host reports only, kept
\* for later when the session goes idle, unless a question for a model stays unanswered: a
\* goal that continues itself for ever starves nobody.
Settles ==
  \A i \in Inputs \ {Goal} :
    fate[i] = "waiting" ~> \/ fate[i] # "waiting" \/ ~ Busy
                           \/ compact.stage = "asked" \/ rescue.stage = "asked"

=============================================================================
