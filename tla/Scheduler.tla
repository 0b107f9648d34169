----------------------------- MODULE Scheduler -----------------------------
(***************************************************************************)
(* The schedule engine of the daemon (packages/agent/scheduler) and its    *)
(* file store.  One Run loop reserves due tasks, one goroutine per         *)
(* reservation claims and executes it, and every mutation is a transaction *)
(* under persistMu: copy the task map, save the copy, commit the copy.     *)
(* The process may crash, or the machine lose power, between any two       *)
(* steps; a second daemon process may load and re-save the file before it  *)
(* finds the daemon lock taken.                                            *)
(*                                                                         *)
(* A cron expression is its period: Next is the first multiple of it       *)
(* strictly after a time.  Task IDs are fresh (uuid), so each is added at  *)
(* most once.                                                              *)
(***************************************************************************)
EXTENDS Naturals, FiniteSets

CONSTANTS
  Tasks,      \* task IDs that Add may issue
  Sessions,   \* sessions that own tasks
  Owner,      \* [Tasks -> Sessions]: SessionID of a task
  Period,     \* [Tasks -> Nat \ {0}]: its cron expression
  NoTask,     \* the job of an idle goroutine
  Workers,    \* dispatchTask goroutines alive at once (bound)
  MaxTime,    \* last minute of the clock (bound)
  MaxFaults,  \* save errors (bound)
  MaxCrashes, \* crashes, power losses and normal exits (bound)
  MaxRivals   \* second daemon starts (bound)

ASSUME OwnerAssumption   == Owner \in [Tasks -> Sessions]
ASSUME PeriodAssumption  == Period \in [Tasks -> Nat \ {0}]
ASSUME NoTaskAssumption  == NoTask \notin Tasks
ASSUME BoundsAssumption  == {MaxTime, MaxFaults, MaxCrashes, MaxRivals} \subseteq Nat

VARIABLES
  now,        \* Engine.now()
  proc,       \* "down", "loading" (Load) or "up"
  ctxDone,    \* the context of Run is cancelled
  mem,        \* Engine.tasks: ids, NextRun, RunCount, queued, running
  unsaved,    \* Engine.unsaved
  wake,       \* a token is in Engine.wake
  txn,        \* the holder of persistMu that saves a candidate
  loop,       \* where Run stands
  deadline,   \* the timer Run waits for; 0 is none
  work,       \* the dispatchTask goroutines
  disk,       \* the snapshot in the schedules file
  survivors,  \* the snapshots a power loss can leave in the file
  rival,      \* a second daemon: the snapshot it has loaded
  issued,     \* IDs generated by Add
  acked,      \* IDs whose Add returned no error
  removed,    \* IDs whose removal reached the file
  cancelled,  \* IDs whose cancellation was reported as done
  ran,        \* <<id, occurrence>> passed to the executor
  faults, crashes, rivals

engine  == <<mem, unsaved, wake, txn>>
runVars == <<loop, deadline>>
files   == <<disk, survivors>>
history == <<issued, acked, removed, cancelled, ran>>
bounds  == <<faults, crashes, rivals>>
vars    == <<now, proc, ctxDone, engine, runVars, work, files, rival, history, bounds>>

----------------------------------------------------------------------------
Zero == [t \in Tasks |-> 0]

Snapshot == [ids: SUBSET Tasks, next: [Tasks -> Nat], runs: [Tasks -> Nat]]
Memory   == [ids: SUBSET Tasks, next: [Tasks -> Nat], runs: [Tasks -> Nat],
             queued: SUBSET Tasks, running: SUBSET Tasks]
IdleJob  == [pc |-> "idle", id |-> NoTask, sched |-> 0]
Job      == [pc: {"queued", "claimed", "running", "saving"}, id: Tasks, sched: Nat]
            \cup {IdleJob}
Transaction == [op: {"none", "load", "add", "cancel", "session", "finish", "retry"},
                arg: SUBSET Tasks, cand: Memory, keep: BOOLEAN,
                res: {"saving", "ok", "failed", "committed"}]

EmptyFile   == [ids |-> {}, next |-> Zero, runs |-> Zero]
EmptyMemory == [ids |-> {}, next |-> Zero, runs |-> Zero, queued |-> {}, running |-> {}]
NoRival     == [loaded |-> FALSE, snap |-> EmptyFile]
NoTxn       == [op |-> "none", arg |-> {}, cand |-> EmptyMemory, keep |-> FALSE, res |-> "saving"]

\* A mutant: the present minute counts as the next occurrence.
NextFrom(t, time) == ((time + Period[t] - 1) \div Period[t]) * Period[t]

\* Cron.Next: the first occurrence strictly after a time.
NextAfter(t, time) == ((time \div Period[t]) + 1) * Period[t]

\* What the file holds of the task map: queued and running are not exported fields.
Persisted(m) == [ids |-> m.ids, next |-> m.next, runs |-> m.runs]

\* A mutant: the reservation marks outlive the task.
WithoutButMarked(m, S) == [m EXCEPT !.ids = @ \ S]

\* The map without the tasks S.
Without(m, S) ==
  [ids     |-> m.ids \ S,
   next    |-> [t \in Tasks |-> IF t \in S THEN 0 ELSE m.next[t]],
   runs    |-> [t \in Tasks |-> IF t \in S THEN 0 ELSE m.runs[t]],
   queued  |-> m.queued \ S,
   running |-> m.running \ S]

\* The map with a new task, due after the present minute.
With(m, t) ==
  [ids |-> m.ids \cup {t},
   next |-> [m.next EXCEPT ![t] = NextAfter(t, now)], runs |-> [m.runs EXCEPT ![t] = 0],
   queued |-> m.queued, running |-> m.running]

\* A mutant: the completion forgets to clear the running mark.
CompletedStillRunning(m, t) ==
  [m EXCEPT !.runs[t] = @ + 1, !.next[t] = NextAfter(t, now)]

\* The map after the completion of t: running is cleared, the run is counted and stale
\* occurrences are skipped.
Completed(m, t) ==
  [ids |-> m.ids \cup {t},
   next |-> [m.next EXCEPT ![t] = NextAfter(t, now)], runs |-> [m.runs EXCEPT ![t] = @ + 1],
   queued |-> m.queued, running |-> m.running \ {t}]

\* The tasks of a file with deadlines after now; no queued or running state survives.
Restored(f) ==
  [ids |-> f.ids,
   next |-> [t \in Tasks |-> IF t \in f.ids THEN NextAfter(t, now) ELSE 0],
   runs |-> f.runs, queued |-> {}, running |-> {}]

\* A mutant: a running task is reserved again.
DueIfNotQueued(m) == {t \in m.ids : t \notin m.queued /\ m.next[t] <= now}

\* Due tasks that nobody has reserved.
Due(m) == {t \in m.ids : t \notin m.queued /\ t \notin m.running /\ m.next[t] <= now}

\* The goroutine w still holds its reservation: the task is there, queued, for the
\* occurrence it was queued for.
Reserved(w) ==
  /\ work[w].id \in mem.ids
  /\ work[w].id \in mem.queued
  /\ mem.next[work[w].id] = work[w].sched

\* A mutant: the completion does not look whether the task is still there.
AfterRunUnchecked(w) == Completed(mem, work[w].id)

\* The map that finish saves: unchanged when the task was cancelled meanwhile.
AfterRun(w) ==
  IF work[w].id \in mem.ids /\ mem.next[work[w].id] = work[w].sched
  THEN Completed(mem, work[w].id) ELSE mem

Init ==
  /\ now = 0 /\ proc = "down" /\ ctxDone = FALSE
  /\ mem = EmptyMemory /\ unsaved = FALSE /\ wake = FALSE /\ txn = NoTxn
  /\ loop = "off" /\ deadline = 0
  /\ work = [w \in Workers |-> IdleJob]
  /\ disk = EmptyFile /\ survivors = {EmptyFile}
  /\ rival = NoRival
  /\ issued = {} /\ acked = {} /\ removed = {} /\ cancelled = {} /\ ran = {}
  /\ faults = 0 /\ crashes = 0 /\ rivals = 0

----------------------------------------------------------------------------
(***************************************************************************)
(* Transactions: update, saveSnapshot and persistSnapshot.                 *)
(***************************************************************************)

Free == txn.op = "none"

Begin(op, arg, cand, keep) ==
  txn' = [op |-> op, arg |-> arg, cand |-> cand, keep |-> keep, res |-> "saving"]

Removals == {"cancel", "session"}

\* FileStore.Save: the file is replaced and its directory synced.
SaveOk ==
  /\ txn.op # "none" /\ txn.res = "saving"
  /\ disk' = Persisted(txn.cand)
  /\ survivors' = {Persisted(txn.cand)}
  /\ removed' = IF txn.op \in Removals THEN removed \cup txn.arg ELSE removed
  /\ txn' = [txn EXCEPT !.res = "ok"]
  /\ UNCHANGED <<now, proc, ctxDone, mem, unsaved, wake, runVars, work, rival,
                 issued, acked, cancelled, ran, bounds>>

\* An error before the rename: the previous file is intact.
SaveFails ==
  /\ txn.op # "none" /\ txn.res = "saving" /\ faults < MaxFaults
  /\ faults' = faults + 1
  /\ txn' = [txn EXCEPT !.res = "failed"]
  /\ UNCHANGED <<now, proc, ctxDone, mem, unsaved, wake, runVars, work, files, rival,
                 history, crashes, rivals>>

\* An error after the rename: CommittedError.  Until the directory is synced a power
\* loss may bring an earlier file back.
SaveUnsynced ==
  /\ txn.op # "none" /\ txn.res = "saving" /\ faults < MaxFaults
  /\ faults' = faults + 1
  /\ disk' = Persisted(txn.cand)
  /\ survivors' = survivors \cup {Persisted(txn.cand)}
  /\ removed' = IF txn.op \in Removals THEN removed \cup txn.arg ELSE removed
  /\ txn' = [txn EXCEPT !.res = "committed"]
  /\ UNCHANGED <<now, proc, ctxDone, mem, unsaved, wake, runVars, work, rival,
                 issued, acked, cancelled, ran, crashes, rivals>>

\* A mutant: an error after the rename is treated as a save that did not happen.
DurableIfNoError == txn.res = "ok"

Durable == txn.res \in {"ok", "committed"}

\* A mutant: only a completion wakes Run.
WakesOnFinish == txn.op = "finish"

\* saveSnapshot signals the wake channel; retryUnsaved does not.
Wakes == txn.op # "retry"

\* The second half of persistSnapshot: commit or drop the candidate, note unsaved state,
\* wake Run (saveSnapshot only) and report the save error, if any, to the caller.
Commit ==
  /\ txn.op # "none" /\ txn.res # "saving"
  /\ mem' = IF Durable \/ txn.keep THEN txn.cand ELSE mem
  /\ unsaved' = (~ Durable /\ (txn.keep \/ unsaved))
  /\ wake' = (wake \/ Wakes)
  /\ txn' = NoTxn
  /\ acked' = IF txn.op = "add" /\ txn.res = "ok" THEN acked \cup txn.arg ELSE acked
  /\ cancelled' = IF txn.op \in Removals /\ txn.res = "ok"
                  THEN cancelled \cup txn.arg ELSE cancelled
  /\ work' = [w \in Workers |-> IF work[w].pc = "saving" THEN IdleJob ELSE work[w]]
  /\ proc' = IF txn.op # "load" THEN proc ELSE IF txn.res = "ok" THEN "up" ELSE "down"
  /\ loop' = IF txn.op = "retry" THEN "dispatch"
             ELSE IF txn.op = "load" /\ txn.res = "ok" THEN "retry" ELSE loop
  /\ UNCHANGED <<now, ctxDone, deadline, files, rival, issued, removed, ran, bounds>>

----------------------------------------------------------------------------
(***************************************************************************)
(* Starting the daemon: NewPersistentEngine restores the file with         *)
(* deadlines after now and saves it again, then takes the daemon lock.     *)
(***************************************************************************)

Load ==
  /\ proc = "down"
  /\ proc' = "loading" /\ ctxDone' = FALSE
  /\ mem' = EmptyMemory /\ unsaved' = FALSE /\ wake' = FALSE
  /\ Begin("load", {}, Restored(disk), FALSE)
  /\ UNCHANGED <<now, runVars, work, files, rival, history, bounds>>

\* The process ends: goroutines, memory and a transaction that has not renamed are lost.
Exit(file) ==
  /\ proc # "down" /\ crashes < MaxCrashes
  /\ crashes' = crashes + 1
  /\ proc' = "down" /\ ctxDone' = FALSE
  /\ mem' = EmptyMemory /\ unsaved' = FALSE /\ wake' = FALSE /\ txn' = NoTxn
  /\ loop' = "off" /\ deadline' = 0
  /\ work' = [w \in Workers |-> IdleJob]
  /\ rival' = NoRival
  /\ disk' = file
  /\ UNCHANGED <<now, history, faults, rivals>>

Crash     == Exit(disk) /\ UNCHANGED survivors
PowerLoss == \E s \in survivors : Exit(s) /\ survivors' = {s}

\* A second `zut daemon run` loads the file and saves what it loaded before it finds
\* the daemon lock taken.
RivalLoads ==
  /\ proc = "up" /\ ~ rival.loaded /\ rivals < MaxRivals
  /\ rivals' = rivals + 1
  /\ rival' = [loaded |-> TRUE, snap |-> Persisted(Restored(disk))]
  /\ UNCHANGED <<now, proc, ctxDone, engine, runVars, work, files, history, faults, crashes>>

RivalSaves ==
  /\ rival.loaded
  /\ disk' = rival.snap
  /\ survivors' = {rival.snap}
  /\ rival' = NoRival
  /\ UNCHANGED <<now, proc, ctxDone, engine, runVars, work, history, bounds>>

----------------------------------------------------------------------------
(***************************************************************************)
(* Callers of the engine.                                                  *)
(***************************************************************************)

Add(t) ==
  /\ proc = "up" /\ Free /\ t \notin issued
  /\ issued' = issued \cup {t}
  /\ Begin("add", {t}, With(mem, t), FALSE)
  /\ UNCHANGED <<now, proc, ctxDone, mem, unsaved, wake, runVars, work, files, rival,
                 acked, removed, cancelled, ran, bounds>>

Cancel(t) ==
  /\ proc = "up" /\ Free /\ t \in issued
  /\ Begin("cancel", {t} \cap mem.ids, Without(mem, {t}), FALSE)
  /\ UNCHANGED <<now, proc, ctxDone, mem, unsaved, wake, runVars, work, files, rival,
                 history, bounds>>

OwnedBy(s) == {t \in mem.ids : Owner[t] = s}

CancelSession(s) ==
  /\ proc = "up" /\ Free
  /\ Begin("session", OwnedBy(s), Without(mem, OwnedBy(s)), FALSE)
  /\ UNCHANGED <<now, proc, ctxDone, mem, unsaved, wake, runVars, work, files, rival,
                 history, bounds>>

\* The daemon stops: the context of Run and of every executor is cancelled.
Stop ==
  /\ proc = "up" /\ ~ ctxDone
  /\ ctxDone' = TRUE
  /\ UNCHANGED <<now, proc, engine, runVars, work, files, rival, history, bounds>>

Tick ==
  /\ now < MaxTime
  /\ now' = now + 1
  /\ UNCHANGED <<proc, ctxDone, engine, runVars, work, files, rival, history, bounds>>

----------------------------------------------------------------------------
(***************************************************************************)
(* The Run loop.                                                           *)
(***************************************************************************)

\* Top of the loop: leave when the context is done, else retryUnsaved.
LoopLeaves ==
  /\ loop \in {"retry", "wait"} /\ ctxDone
  /\ loop' = "off"
  /\ UNCHANGED <<now, proc, ctxDone, engine, deadline, work, files, rival, history, bounds>>

\* The two looks at the context that find it alive; it may end before the mutex
\* is taken.
LoopGoesOn ==
  /\ ~ ctxDone
  /\ \/ loop = "retry" /\ loop' = "retrying"
     \/ loop = "dispatch" /\ loop' = "dispatching"
  /\ UNCHANGED <<now, proc, ctxDone, engine, deadline, work, files, rival, history, bounds>>

LoopRetries ==
  /\ loop = "retrying" /\ Free
  /\ IF unsaved
     THEN Begin("retry", {}, mem, TRUE) /\ UNCHANGED loop
     ELSE loop' = "dispatch" /\ UNCHANGED txn
  /\ UNCHANGED <<now, proc, ctxDone, mem, unsaved, wake, deadline, work, files, rival,
                 history, bounds>>

Idle == {w \in Workers : work[w].pc = "idle"}

\* dispatchDue: every due task is reserved and handed to a goroutine of its own.
\* (The clock is read with the mutex taken, not just before it: what falls due in
\* between is taken a round earlier than in the code.)
LoopDispatches ==
  /\ loop = "dispatching" /\ Free
  /\ \E hand \in [Due(mem) -> Idle] :
       /\ \A t, u \in Due(mem) : hand[t] = hand[u] => t = u
       /\ work' = [w \in Workers |->
                     IF \E t \in Due(mem) : hand[t] = w
                     THEN LET t == CHOOSE t \in Due(mem) : hand[t] = w
                          IN [pc |-> "queued", id |-> t, sched |-> mem.next[t]]
                     ELSE work[w]]
  /\ mem' = [mem EXCEPT !.queued = @ \cup Due(mem)]
  /\ loop' = "next"
  /\ UNCHANGED <<now, proc, ctxDone, unsaved, wake, txn, deadline, files, rival, history, bounds>>

\* dispatchDue returns at once when the context is done.
LoopDispatchesNothing ==
  /\ loop = "dispatch" /\ ctxDone
  /\ loop' = "next"
  /\ UNCHANGED <<now, proc, ctxDone, engine, deadline, work, files, rival, history, bounds>>

Waiting == {t \in mem.ids : t \notin mem.queued /\ t \notin mem.running}

\* nextRun: the earliest deadline of the tasks that are not reserved, or none.
LoopSleeps ==
  /\ loop = "next"
  /\ loop' = "wait"
  /\ \/ Waiting = {} /\ deadline' = 0
     \/ \E t \in Waiting :
          /\ \A u \in Waiting : mem.next[t] <= mem.next[u]
          /\ deadline' = mem.next[t]
  /\ UNCHANGED <<now, proc, ctxDone, engine, work, files, rival, history, bounds>>

LoopWakes ==
  /\ loop = "wait" /\ wake
  /\ wake' = FALSE /\ loop' = "retry" /\ deadline' = 0
  /\ UNCHANGED <<now, proc, ctxDone, mem, unsaved, txn, work, files, rival, history, bounds>>

LoopTimerFires ==
  /\ loop = "wait" /\ deadline # 0 /\ deadline <= now
  /\ loop' = "retry" /\ deadline' = 0
  /\ UNCHANGED <<now, proc, ctxDone, engine, work, files, rival, history, bounds>>

----------------------------------------------------------------------------
(***************************************************************************)
(* dispatchTask, one goroutine per reservation.                            *)
(***************************************************************************)

\* The context ended first: releaseQueued puts the task back and wakes Run.
ReleaseQueued(w) ==
  /\ work[w].pc = "queued" /\ ctxDone /\ Free
  /\ IF Reserved(w)
     THEN mem' = [mem EXCEPT !.queued = @ \ {work[w].id}] /\ wake' = TRUE
     ELSE UNCHANGED <<mem, wake>>
  /\ work' = [work EXCEPT ![w] = IdleJob]
  /\ UNCHANGED <<now, proc, ctxDone, unsaved, txn, runVars, files, rival, history, bounds>>

Claim(w) ==
  /\ work[w].pc = "queued" /\ Free /\ Reserved(w)
  /\ mem' = [mem EXCEPT !.queued = @ \ {work[w].id}, !.running = @ \cup {work[w].id}]
  /\ work' = [work EXCEPT ![w].pc = "claimed"]
  /\ UNCHANGED <<now, proc, ctxDone, unsaved, wake, txn, runVars, files, rival, history, bounds>>

\* Cancelled or superseded before it was claimed.
Superseded(w) ==
  /\ work[w].pc = "queued" /\ Free /\ ~ Reserved(w)
  /\ work' = [work EXCEPT ![w] = IdleJob]
  /\ UNCHANGED <<now, proc, ctxDone, engine, runVars, files, rival, history, bounds>>

Execute(w) ==
  /\ work[w].pc = "claimed" /\ ~ ctxDone
  /\ work' = [work EXCEPT ![w].pc = "running"]
  /\ ran' = ran \cup {<<work[w].id, work[w].sched>>}
  /\ UNCHANGED <<now, proc, ctxDone, engine, runVars, files, rival,
                 issued, acked, removed, cancelled, bounds>>

\* finish, after the executor or, with the context done, instead of it.  The candidate
\* is kept in memory even if the save fails.
Finish(w) ==
  /\ work[w].pc = "running" \/ (work[w].pc = "claimed" /\ ctxDone)
  /\ Free
  /\ work' = [work EXCEPT ![w].pc = "saving"]
  /\ Begin("finish", {}, AfterRun(w), TRUE)
  /\ UNCHANGED <<now, proc, ctxDone, mem, unsaved, wake, runVars, files, rival, history, bounds>>

----------------------------------------------------------------------------
Persist    == SaveOk \/ SaveFails \/ SaveUnsynced \/ Commit
Process    == Load \/ Crash \/ PowerLoss \/ RivalLoads \/ RivalSaves \/ Stop \/ Tick
Caller     == (\E t \in Tasks : Add(t) \/ Cancel(t)) \/ (\E s \in Sessions : CancelSession(s))
RunLoop    == LoopLeaves \/ LoopGoesOn \/ LoopRetries \/ LoopDispatches \/ LoopDispatchesNothing
              \/ LoopSleeps \/ LoopWakes \/ LoopTimerFires
Dispatch(w) == ReleaseQueued(w) \/ Claim(w) \/ Superseded(w) \/ Execute(w) \/ Finish(w)

Next == Persist \/ Process \/ Caller \/ RunLoop \/ (\E w \in Workers : Dispatch(w))

\* Goroutines are scheduled, saves return, the mutex is handed over (Go's mutexes are
\* starvation free).  Nothing makes the clock, the callers or the operating system act.
Fairness ==
  /\ WF_vars(SaveOk) /\ WF_vars(Commit)
  /\ SF_vars(RunLoop)
  /\ \A w \in Workers : SF_vars(Dispatch(w))

Spec == Init /\ [][Next]_vars /\ Fairness

----------------------------------------------------------------------------
\* Only tasks that are there are marked, and none twice.
MarksOK(m) == m.queued \cup m.running \subseteq m.ids /\ m.queued \cap m.running = {}

TypeOK ==
  /\ now \in Nat /\ proc \in {"down", "loading", "up"} /\ ctxDone \in BOOLEAN
  /\ mem \in Memory /\ MarksOK(mem) /\ MarksOK(txn.cand)
  /\ unsaved \in BOOLEAN /\ wake \in BOOLEAN
  /\ txn \in Transaction
  /\ loop \in {"off", "retry", "retrying", "dispatch", "dispatching", "next", "wait"} /\ deadline \in Nat
  /\ work \in [Workers -> Job]
  /\ disk \in Snapshot /\ survivors \subseteq Snapshot
  /\ rival \in [loaded: BOOLEAN, snap: Snapshot]
  /\ issued \subseteq Tasks /\ acked \subseteq Tasks
  /\ removed \subseteq Tasks /\ cancelled \subseteq Tasks
  /\ ran \subseteq (Tasks \X Nat)
  /\ faults \in Nat /\ crashes \in Nat /\ rivals \in Nat

\* A task is never in the hands of two goroutines past their claim, so an execution that
\* outlasts the next due time delays the task instead of overlapping itself.
SingleExecution ==
  \A v, w \in Workers :
    /\ v # w
    /\ work[v].pc \in {"claimed", "running", "saving"}
    /\ work[w].pc \in {"claimed", "running", "saving"}
    => work[v].id # work[w].id

\* A task that is marked queued or running has the goroutine that will clear the mark: no
\* order of cancellation, context end, failed saves and claims leaves a task that the loop
\* skips for ever.
NoStrandedReservation ==
  /\ \A t \in mem.queued :
       \E w \in Workers : work[w] = [pc |-> "queued", id |-> t, sched |-> mem.next[t]]
  /\ \A t \in mem.running :
       \E w \in Workers : /\ work[w].pc \in {"claimed", "running", "saving"}
                          /\ work[w].id = t /\ work[w].sched = mem.next[t]

\* Between transactions the file holds exactly what memory holds, unless the engine
\* remembers that a completion is still to be saved.
DiskMatchesMemory ==
  proc = "up" /\ Free /\ ~ unsaved => disk = Persisted(mem)

\* Once Add returned without an error the task is in every file a crash or a power loss
\* can leave, until its removal has reached the file.
AcknowledgedSurvives ==
  \A f \in survivors : acked \ removed \subseteq f.ids

\* Once Cancel or CancelSession reported success the task is nowhere: not in memory, and
\* in no file a crash or a power loss can leave.  A completion that was running, or whose
\* save failed, does not bring it back.
CancelledStaysGone ==
  /\ cancelled \cap mem.ids = {}
  /\ \A f \in survivors : cancelled \cap f.ids = {}

\* What the user was told of a task outlives completions, failed saves, crashes and power
\* losses: an accepted one stays, a cancelled one stays away.
TasksSurvive == AcknowledgedSurvives /\ CancelledStaysGone

\* An occurrence is passed to the executor at most once, across completions whose save
\* failed, crashes and restarts: restored deadlines lie strictly after the restart.
OccurrenceOnce ==
  [][\A w \in Workers :
       work[w].pc # "running" /\ work'[w].pc = "running"
       => <<work[w].id, work[w].sched>> \notin ran]_vars

\* A due task is taken by the Run loop: no add, cancellation or completion that commits
\* between nextRun and the wait is missed.
DueIsTaken ==
  \A t \in Tasks :
    (proc = "up" /\ ~ ctxDone /\ t \in Due(mem))
      ~> (proc # "up" \/ ctxDone \/ t \notin Due(mem))
=============================================================================
