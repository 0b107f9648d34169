-------------------------- MODULE SchedulerProofs --------------------------
(***************************************************************************)
(* Proofs about Scheduler, for any tasks, sessions, cron periods, number   *)
(* of goroutines and bounds: reservations, occurrences that run once, and, *)
(* without a second daemon, a file that agrees with memory, keeps every    *)
(* task whose addition was acknowledged and none whose removal was.        *)
(***************************************************************************)
EXTENDS Scheduler, TLAPS

----------------------------------------------------------------------------
(* The operators on task maps and files keep their types.                  *)

\* The deadline of a task is a number, whatever the time.
LEMMA NextAfterType ==
  ASSUME NEW t \in Tasks, NEW time \in Nat PROVE NextAfter(t, time) \in Nat
<1>1. Period[t] \in Nat \ {0}
  BY PeriodAssumption
<1>2. time \div Period[t] \in Nat
  BY <1>1
<1> QED
  BY <1>1, <1>2 DEF NextAfter

LEMMA EmptyType == EmptyFile \in Snapshot /\ EmptyMemory \in Memory /\ MarksOK(EmptyMemory)
  BY DEF EmptyFile, EmptyMemory, Zero, Snapshot, Memory, MarksOK

LEMMA PersistedType ==
  ASSUME NEW m \in Memory PROVE Persisted(m) \in Snapshot
  BY DEF Persisted, Memory, Snapshot

LEMMA WithoutType ==
  ASSUME NEW m \in Memory, MarksOK(m), NEW S \in SUBSET Tasks
  PROVE  Without(m, S) \in Memory /\ MarksOK(Without(m, S))
  BY DEF Without, Memory, MarksOK

LEMMA WithType ==
  ASSUME now \in Nat, NEW m \in Memory, MarksOK(m), NEW t \in Tasks
  PROVE  With(m, t) \in Memory /\ MarksOK(With(m, t))
  BY NextAfterType DEF With, Memory, MarksOK

LEMMA CompletedType ==
  ASSUME now \in Nat, NEW m \in Memory, MarksOK(m), NEW t \in Tasks
  PROVE  Completed(m, t) \in Memory /\ MarksOK(Completed(m, t))
<1>1. m.runs[t] + 1 \in Nat /\ NextAfter(t, now) \in Nat
  BY NextAfterType DEF Memory
<1> QED
  BY <1>1 DEF Completed, Memory, MarksOK

LEMMA RestoredType ==
  ASSUME now \in Nat, NEW f \in Snapshot
  PROVE  Restored(f) \in Memory /\ MarksOK(Restored(f))
  BY NextAfterType DEF Restored, Memory, Snapshot, MarksOK

LEMMA NoTxnType == NoTxn \in Transaction /\ MarksOK(NoTxn.cand)
  BY EmptyType DEF NoTxn, Transaction

LEMMA BeginType ==
  ASSUME NEW op \in {"load", "add", "cancel", "session", "finish", "retry"},
         NEW arg \in SUBSET Tasks, NEW cand \in Memory, MarksOK(cand), NEW keep \in BOOLEAN,
         Begin(op, arg, cand, keep)
  PROVE  txn' \in Transaction /\ MarksOK(txn'.cand)
  BY DEF Begin, Transaction

----------------------------------------------------------------------------
(* Type correctness: one lemma per group of actions.                       *)

LEMMA InitType == Init => TypeOK
<1> SUFFICES ASSUME Init PROVE TypeOK
  OBVIOUS
<1>1. work \in [Workers -> Job]
  BY DEF Init, IdleJob, Job
<1>2. rival \in [loaded: BOOLEAN, snap: Snapshot] /\ survivors \subseteq Snapshot
  BY EmptyType DEF Init, NoRival
<1>3. ran \subseteq Tasks \X Nat
  BY DEF Init
<1> QED
  BY <1>1, <1>2, <1>3, EmptyType, NoTxnType DEF Init, TypeOK

LEMMA PersistType == TypeOK /\ Persist => TypeOK'
<1> SUFFICES ASSUME TypeOK, Persist PROVE TypeOK'
  OBVIOUS
<1>0. Persisted(txn.cand) \in Snapshot
  BY PersistedType DEF TypeOK, Transaction
<1>1. CASE SaveOk
  BY <1>0, <1>1 DEF SaveOk, TypeOK, Transaction, runVars, bounds
<1>2. CASE SaveFails
  BY <1>2 DEF SaveFails, TypeOK, Transaction, runVars, files, history
<1>3. CASE SaveUnsynced
  BY <1>0, <1>3 DEF SaveUnsynced, TypeOK, Transaction, runVars
<1>4. CASE Commit
  <2>1. mem' \in Memory /\ MarksOK(mem')
    BY <1>4 DEF Commit, TypeOK, Transaction
  <2>2. work' \in [Workers -> Job]
    BY <1>4 DEF Commit, TypeOK, Job, IdleJob
  <2>3. acked' \subseteq Tasks /\ cancelled' \subseteq Tasks
    BY <1>4 DEF Commit, TypeOK, Transaction
  <2> QED
    BY <1>4, <2>1, <2>2, <2>3, NoTxnType DEF Commit, TypeOK, files, bounds, Durable
<1> QED
  BY <1>1, <1>2, <1>3, <1>4 DEF Persist

LEMMA ProcessType == TypeOK /\ Process => TypeOK'
<1> SUFFICES ASSUME TypeOK, Process PROVE TypeOK'
  OBVIOUS
<1>0. MarksOK(Restored(disk)) /\ Restored(disk) \in Memory /\ Persisted(Restored(disk)) \in Snapshot
  BY RestoredType, PersistedType DEF TypeOK
<1>1. CASE Load
  <2>1. txn' \in Transaction /\ MarksOK(txn'.cand)
    BY <1>0, <1>1, BeginType DEF Load
  <2> QED
    BY <1>1, <2>1, EmptyType DEF Load, TypeOK, runVars, files, history, bounds
<1>2. ASSUME NEW f \in Snapshot, Exit(f), survivors' \subseteq Snapshot PROVE TypeOK'
  <2>1. work' \in [Workers -> Job] /\ rival' \in [loaded: BOOLEAN, snap: Snapshot]
    BY <1>2, EmptyType DEF Exit, TypeOK, Job, IdleJob, NoRival
  <2>2. mem' \in Memory /\ MarksOK(mem') /\ txn' \in Transaction /\ MarksOK(txn'.cand)
    BY <1>2, EmptyType, NoTxnType DEF Exit
  <2>3. /\ issued' \subseteq Tasks /\ acked' \subseteq Tasks /\ removed' \subseteq Tasks
        /\ cancelled' \subseteq Tasks /\ ran' \subseteq Tasks \X Nat /\ now' \in Nat
        /\ faults' \in Nat /\ crashes' \in Nat /\ rivals' \in Nat
    BY <1>2 DEF Exit, TypeOK, history
  <2>4. /\ proc' = "down" /\ ctxDone' = FALSE /\ unsaved' = FALSE /\ wake' = FALSE
        /\ loop' = "off" /\ deadline' = 0 /\ disk' \in Snapshot
    BY <1>2 DEF Exit
  <2> QED
    BY <1>2, <2>1, <2>2, <2>3, <2>4 DEF TypeOK
<1>3. CASE Crash
  BY <1>2, <1>3 DEF Crash, TypeOK
<1>4. CASE PowerLoss
  BY <1>2, <1>4 DEF PowerLoss, TypeOK
<1>5. CASE RivalLoads
  BY <1>0, <1>5 DEF RivalLoads, TypeOK, engine, runVars, files, history
<1>6. CASE RivalSaves
  BY <1>6, EmptyType DEF RivalSaves, TypeOK, NoRival, engine, runVars, history, bounds
<1>7. CASE Stop
  BY <1>7 DEF Stop, TypeOK, engine, runVars, files, history, bounds
<1>8. CASE Tick
  BY <1>8 DEF Tick, TypeOK, engine, runVars, files, history, bounds
<1> QED
  BY <1>1, <1>3, <1>4, <1>5, <1>6, <1>7, <1>8 DEF Process

LEMMA CallerType == TypeOK /\ Caller => TypeOK'
<1> SUFFICES ASSUME TypeOK, Caller PROVE TypeOK'
  OBVIOUS
<1>0. now \in Nat /\ mem \in Memory /\ MarksOK(mem) /\ mem.ids \subseteq Tasks
  BY DEF TypeOK, Memory
<1>1. ASSUME NEW t \in Tasks, Add(t) PROVE TypeOK'
  <2>1. txn' \in Transaction /\ MarksOK(txn'.cand)
    BY <1>0, <1>1, WithType, BeginType DEF Add
  <2> QED
    BY <1>1, <2>1 DEF Add, TypeOK, runVars, files, bounds
<1>2. ASSUME NEW t \in Tasks, Cancel(t) PROVE TypeOK'
  <2>1. txn' \in Transaction /\ MarksOK(txn'.cand)
    BY <1>0, <1>2, WithoutType, BeginType DEF Cancel
  <2> QED
    BY <1>2, <2>1 DEF Cancel, TypeOK, runVars, files, history, bounds
<1>3. ASSUME NEW s \in Sessions, CancelSession(s) PROVE TypeOK'
  <2>1. OwnedBy(s) \in SUBSET Tasks
    BY <1>0 DEF OwnedBy
  <2>2. txn' \in Transaction /\ MarksOK(txn'.cand)
    BY <1>0, <1>3, <2>1, WithoutType, BeginType DEF CancelSession
  <2> QED
    BY <1>3, <2>2 DEF CancelSession, TypeOK, runVars, files, history, bounds
<1> QED
  BY <1>1, <1>2, <1>3 DEF Caller

LEMMA RunLoopType == TypeOK /\ RunLoop => TypeOK'
<1> SUFFICES ASSUME TypeOK, RunLoop PROVE TypeOK'
  OBVIOUS
<1>1. CASE LoopLeaves
  BY <1>1 DEF LoopLeaves, TypeOK, engine, files, history, bounds
<1>2. CASE LoopRetries
  <2>1. txn' \in Transaction /\ MarksOK(txn'.cand)
    BY <1>2, BeginType DEF LoopRetries, TypeOK
  <2> QED
    BY <1>2, <2>1 DEF LoopRetries, TypeOK, files, history, bounds
<1>3. CASE LoopDispatches
  <2>1. mem' \in Memory /\ MarksOK(mem')
    BY <1>3 DEF LoopDispatches, TypeOK, Memory, MarksOK, Due
  <2>2. work' \in [Workers -> Job]
    <3>1. PICK hand \in [Due(mem) -> Idle] :
            work' = [w \in Workers |->
                       IF \E t \in Due(mem) : hand[t] = w
                       THEN LET t == CHOOSE t \in Due(mem) : hand[t] = w
                            IN [pc |-> "queued", id |-> t, sched |-> mem.next[t]]
                       ELSE work[w]]
      BY <1>3 DEF LoopDispatches
    <3>2. ASSUME NEW w \in Workers, \E t \in Due(mem) : hand[t] = w
          PROVE  LET t == CHOOSE t \in Due(mem) : hand[t] = w
                 IN [pc |-> "queued", id |-> t, sched |-> mem.next[t]] \in Job
      <4> DEFINE t == CHOOSE t \in Due(mem) : hand[t] = w
      <4>1. t \in Due(mem)
        BY <3>2
      <4>2. t \in Tasks /\ mem.next[t] \in Nat
        BY <4>1 DEF Due, TypeOK, Memory
      <4> QED
        BY <4>2 DEF Job
    <3> QED
      BY <3>1, <3>2 DEF TypeOK
  <2> QED
    BY <1>3, <2>1, <2>2 DEF LoopDispatches, TypeOK, files, history, bounds
<1>4. CASE LoopDispatchesNothing \/ LoopGoesOn
  BY <1>4 DEF LoopDispatchesNothing, LoopGoesOn, TypeOK, engine, files, history, bounds
<1>5. CASE LoopSleeps
  <2>1. deadline' \in Nat
    BY <1>5 DEF LoopSleeps, Waiting, TypeOK, Memory
  <2> QED
    BY <1>5, <2>1 DEF LoopSleeps, TypeOK, engine, files, history, bounds
<1>6. CASE LoopWakes
  BY <1>6 DEF LoopWakes, TypeOK, files, history, bounds
<1>7. CASE LoopTimerFires
  BY <1>7 DEF LoopTimerFires, TypeOK, engine, files, history, bounds
<1> QED
  BY <1>1, <1>2, <1>3, <1>4, <1>5, <1>6, <1>7 DEF RunLoop

LEMMA DispatchType == ASSUME NEW w \in Workers PROVE TypeOK /\ Dispatch(w) => TypeOK'
<1> SUFFICES ASSUME TypeOK, Dispatch(w) PROVE TypeOK'
  OBVIOUS
<1>0. work[w] \in Job /\ now \in Nat /\ mem \in Memory /\ MarksOK(mem)
  BY DEF TypeOK
<1>1. CASE ReleaseQueued(w)
  <2>1. mem' \in Memory /\ MarksOK(mem')
    BY <1>0, <1>1 DEF ReleaseQueued, Memory, MarksOK
  <2>2. work' \in [Workers -> Job]
    BY <1>1 DEF ReleaseQueued, TypeOK, Job, IdleJob
  <2> QED
    BY <1>1, <2>1, <2>2 DEF ReleaseQueued, TypeOK, runVars, files, history, bounds
<1>2. CASE Claim(w)
  <2>1. mem' \in Memory /\ MarksOK(mem')
    BY <1>0, <1>2 DEF Claim, Reserved, Memory, MarksOK
  <2>2. work' \in [Workers -> Job]
    BY <1>2 DEF Claim, TypeOK, Job, IdleJob
  <2> QED
    BY <1>2, <2>1, <2>2 DEF Claim, TypeOK, runVars, files, history, bounds
<1>3. CASE Superseded(w)
  <2>1. work' \in [Workers -> Job]
    BY <1>3 DEF Superseded, TypeOK, Job, IdleJob
  <2> QED
    BY <1>3, <2>1 DEF Superseded, TypeOK, engine, runVars, files, history, bounds
<1>4. CASE Execute(w)
  <2>1. work' \in [Workers -> Job]
    BY <1>4 DEF Execute, TypeOK, Job, IdleJob
  <2>2. work[w].id \in Tasks /\ work[w].sched \in Nat
    BY <1>0, <1>4 DEF Execute, Job, IdleJob
  <2>3. ran' \subseteq Tasks \X Nat
    BY <1>4, <2>2 DEF Execute, TypeOK
  <2> QED
    BY <1>4, <2>1, <2>3 DEF Execute, TypeOK, engine, runVars, files, bounds
<1>5. CASE Finish(w)
  <2>1. work[w].id \in Tasks
    BY <1>0, <1>5 DEF Finish, Job, IdleJob
  <2>2. AfterRun(w) \in Memory /\ MarksOK(AfterRun(w))
    BY <1>0, <2>1, CompletedType DEF AfterRun
  <2>3. txn' \in Transaction /\ MarksOK(txn'.cand)
    BY <1>5, <2>2, BeginType DEF Finish
  <2>4. work' \in [Workers -> Job]
    BY <1>5, <2>1 DEF Finish, TypeOK, Job, IdleJob
  <2> QED
    BY <1>5, <2>3, <2>4 DEF Finish, TypeOK, runVars, files, history, bounds
<1> QED
  BY <1>1, <1>2, <1>3, <1>4, <1>5 DEF Dispatch

LEMMA TypeStep == TypeOK /\ [Next]_vars => TypeOK'
<1> SUFFICES ASSUME TypeOK, [Next]_vars PROVE TypeOK'
  OBVIOUS
<1>1. CASE Next
  BY <1>1, PersistType, ProcessType, CallerType, RunLoopType, DispatchType DEF Next
<1>2. CASE UNCHANGED vars
  BY <1>2 DEF vars, engine, runVars, files, history, bounds, TypeOK
<1> QED
  BY <1>1, <1>2

\* Every variable keeps its type, and no task is marked both queued and running.
THEOREM TypeCorrect == Spec => []TypeOK
  BY InitType, TypeStep, PTL DEF Spec

----------------------------------------------------------------------------
(***************************************************************************)
(* Reservations.  SingleExecution and NoStrandedReservation are not        *)
(* inductive: they need to know that a goroutine past its claim holds the  *)
(* running mark of its task (unless the task was removed), that task IDs   *)
(* are fresh, and what the candidate of an open transaction may change.    *)
(***************************************************************************)

Past(w) == work[w].pc \in {"claimed", "running", "saving"}

\* Every ID in memory, in a file or in the hands of a goroutine was issued.
IssuedInv ==
  /\ mem.ids \subseteq issued
  /\ txn.cand.ids \subseteq issued
  /\ disk.ids \subseteq issued /\ rival.snap.ids \subseteq issued
  /\ \A f \in survivors : f.ids \subseteq issued
  /\ \A w \in Workers : work[w].pc # "idle" => work[w].id \in issued

\* A goroutine past its claim holds the running mark and its occurrence is still due.
HolderInv ==
  \A w \in Workers : Past(w) /\ work[w].id \in mem.ids =>
    work[w].id \in mem.running /\ mem.next[work[w].id] = work[w].sched

Finishing == {t \in Tasks : \E w \in Workers : work[w].pc = "saving" /\ work[w].id = t}

\* The candidate differs from memory by the operation that computed it.
CandidateInv ==
  /\ \A w \in Workers : work[w].pc = "saving" => txn.op = "finish"
  /\ \A v, w \in Workers : work[v].pc = "saving" /\ work[w].pc = "saving" => v = w
  /\ txn.op = "finish" => txn.keep
  /\ txn.op = "load" => \A w \in Workers : work[w] = IdleJob
  /\ txn.op = "add" => txn.arg \cap mem.ids = {} /\ \A w \in Workers : work[w].id \notin txn.arg
  /\ txn.op \notin {"none", "load", "add"} => txn.cand.ids \subseteq mem.ids
  /\ txn.op = "add" => txn.cand.ids \subseteq mem.ids \cup txn.arg
  /\ txn.op # "none" =>
       /\ txn.cand.queued = mem.queued \cap txn.cand.ids
       /\ txn.cand.running = (mem.running \cap txn.cand.ids) \ Finishing
       /\ \A t \in (mem.ids \cap txn.cand.ids) \ Finishing : txn.cand.next[t] = mem.next[t]

\* Nothing runs until the file is loaded.
ProcessInv ==
  /\ proc # "up" => /\ loop = "off"
                    /\ \A w \in Workers : work[w] = IdleJob
  /\ proc = "down" => txn.op = "none"
  /\ proc = "loading" => txn.op = "load"
  /\ proc = "up" => txn.op # "load"

ReservationInv ==
  TypeOK /\ ProcessInv /\ IssuedInv /\ HolderInv /\ SingleExecution /\ NoStrandedReservation /\ CandidateInv

LEMMA InitReservation == Init => ReservationInv
<1> SUFFICES ASSUME Init PROVE ReservationInv
  OBVIOUS
<1>1. TypeOK
  BY InitType
<1>2. IssuedInv
  BY DEF Init, IssuedInv, EmptyMemory, EmptyFile, NoTxn, NoRival, IdleJob
<1>3. HolderInv /\ SingleExecution /\ NoStrandedReservation
  BY DEF Init, HolderInv, Past, SingleExecution, NoStrandedReservation, IdleJob, EmptyMemory
<1>4. CandidateInv /\ ProcessInv
  BY DEF Init, CandidateInv, ProcessInv, NoTxn, IdleJob
<1> QED
  BY <1>1, <1>2, <1>3, <1>4 DEF ReservationInv

\* A step that leaves memory and the goroutines alone.
LEMMA QuietReservation ==
  ASSUME ReservationInv, TypeOK', IssuedInv', ProcessInv', mem' = mem, work' = work,
         txn'.op = txn.op, txn'.arg = txn.arg, txn'.cand = txn.cand, txn'.keep = txn.keep
  PROVE  ReservationInv'
<1>1. HolderInv' /\ SingleExecution' /\ NoStrandedReservation'
  BY DEF ReservationInv, HolderInv, Past, SingleExecution, NoStrandedReservation
<1>2. CandidateInv'
  BY DEF ReservationInv, CandidateInv, Finishing
<1> QED
  BY <1>1, <1>2 DEF ReservationInv

LEMMA CommitReservation == ReservationInv /\ TypeOK' /\ Commit => ReservationInv'
<1> SUFFICES ASSUME ReservationInv, TypeOK', Commit PROVE ReservationInv'
  OBVIOUS
<1> USE DEF ReservationInv
<1>0. /\ txn \in Transaction /\ mem \in Memory /\ work \in [Workers -> Job]
      /\ txn' = NoTxn /\ MarksOK(mem)
      /\ work' = [w \in Workers |-> IF work[w].pc = "saving" THEN IdleJob ELSE work[w]]
      /\ mem' = txn.cand \/ mem' = mem
      /\ ~ (Durable \/ txn.keep) => mem' = mem
      /\ (Durable \/ txn.keep) => mem' = txn.cand
      /\ txn.op # "none"
  BY DEF Commit, TypeOK
<1>1. IssuedInv'
  BY <1>0 DEF Commit, IssuedInv, files, NoTxn, EmptyMemory, IdleJob
<1>2. CandidateInv'
  BY <1>0 DEF CandidateInv, NoTxn, IdleJob
<1>6. ProcessInv'
  BY <1>0 DEF Commit, ProcessInv, CandidateInv, NoTxn, IdleJob, TypeOK, Durable
<1>3. SingleExecution'
  BY <1>0 DEF SingleExecution, IdleJob
<1>4. CASE mem' = mem /\ txn.op # "finish"
  <2>1. work' = work
    BY <1>0, <1>4 DEF CandidateInv
  <2> QED
    BY <1>1, <1>2, <1>3, <1>4, <1>6, <2>1 DEF HolderInv, Past, NoStrandedReservation
<1>5. CASE mem' = txn.cand
  <2>1. HolderInv'
    <3> SUFFICES ASSUME NEW w \in Workers, Past(w)', work'[w].id \in mem'.ids
                 PROVE  work'[w].id \in mem'.running /\ mem'.next[work'[w].id] = work'[w].sched
      BY DEF HolderInv
    <3>1. work'[w] = work[w] /\ Past(w) /\ work[w].pc # "saving"
      BY <1>0 DEF Past, IdleJob
    <3>2. work[w].id \in mem.ids
      BY <1>0, <1>5, <3>1 DEF CandidateInv, Past, IdleJob
    <3>3. work[w].id \in mem.running /\ mem.next[work[w].id] = work[w].sched
      BY <3>1, <3>2 DEF HolderInv
    <3>4. work[w].id \notin Finishing
      BY <3>1 DEF SingleExecution, Finishing, Past
    <3> QED
      BY <1>0, <1>5, <3>1, <3>2, <3>3, <3>4 DEF CandidateInv
  <2>2. \A t \in mem.queued : t \notin Finishing
    BY <1>0 DEF Finishing, HolderInv, Past, MarksOK
  <2>3. NoStrandedReservation'
    <3>1. ASSUME NEW t \in mem'.queued
          PROVE  \E w \in Workers : work'[w] = [pc |-> "queued", id |-> t, sched |-> mem'.next[t]]
      <4>1. t \in mem.queued /\ t \in txn.cand.ids /\ t \in mem.ids
        BY <1>0, <1>5, <3>1 DEF CandidateInv, MarksOK
      <4>2. PICK w \in Workers : work[w] = [pc |-> "queued", id |-> t, sched |-> mem.next[t]]
        BY <4>1 DEF NoStrandedReservation
      <4>3. mem'.next[t] = mem.next[t]
        BY <1>0, <1>5, <2>2, <4>1 DEF CandidateInv
      <4> QED
        BY <1>0, <4>2, <4>3
    <3>2. ASSUME NEW t \in mem'.running
          PROVE  \E w \in Workers : Past(w)' /\ work'[w].id = t /\ work'[w].sched = mem'.next[t]
      <4>1. t \in mem.running /\ t \in txn.cand.ids /\ t \in mem.ids /\ t \notin Finishing
        BY <1>0, <1>5, <3>2 DEF CandidateInv, MarksOK
      <4>2. PICK w \in Workers : Past(w) /\ work[w].id = t /\ work[w].sched = mem.next[t]
        BY <4>1 DEF NoStrandedReservation, Past
      <4>3. work[w].pc # "saving" /\ work'[w] = work[w]
        BY <1>0, <4>1, <4>2 DEF Finishing, Memory
      <4>4. mem'.next[t] = mem.next[t]
        BY <1>0, <1>5, <4>1 DEF CandidateInv
      <4> QED
        BY <4>2, <4>3, <4>4 DEF Past
    <3> QED
      BY <3>1, <3>2 DEF NoStrandedReservation, Past
  <2> QED
    BY <1>1, <1>2, <1>3, <1>6, <2>1, <2>3
<1> QED
  BY <1>0, <1>4, <1>5 DEF CandidateInv

LEMMA PersistReservation == ReservationInv /\ TypeOK' /\ Persist => ReservationInv'
<1> SUFFICES ASSUME ReservationInv, TypeOK', Persist PROVE ReservationInv'
  OBVIOUS
<1> USE DEF ReservationInv
<1>1. CASE SaveOk
  <2>1. IssuedInv' /\ ProcessInv'
    BY <1>1 DEF SaveOk, IssuedInv, ProcessInv, runVars, Persisted, TypeOK, Transaction
  <2> QED
    BY <1>1, <2>1, QuietReservation DEF SaveOk, TypeOK, Transaction
<1>2. CASE SaveFails
  <2>1. IssuedInv' /\ ProcessInv'
    BY <1>2 DEF SaveFails, IssuedInv, ProcessInv, runVars, TypeOK, Transaction, files, history
  <2> QED
    BY <1>2, <2>1, QuietReservation DEF SaveFails, TypeOK, Transaction
<1>3. CASE SaveUnsynced
  <2>1. IssuedInv' /\ ProcessInv'
    BY <1>3 DEF SaveUnsynced, IssuedInv, ProcessInv, runVars, Persisted, TypeOK, Transaction
  <2> QED
    BY <1>3, <2>1, QuietReservation DEF SaveUnsynced, TypeOK, Transaction
<1> QED
  BY <1>1, <1>2, <1>3, CommitReservation DEF Persist

LEMMA ProcessReservation == ReservationInv /\ TypeOK' /\ Process => ReservationInv'
<1> SUFFICES ASSUME ReservationInv, TypeOK', Process PROVE ReservationInv'
  OBVIOUS
<1> USE DEF ReservationInv
<1>1. CASE Load
  <2>1. /\ \A w \in Workers : work[w] = IdleJob /\ work'[w] = IdleJob
        /\ mem' = EmptyMemory /\ txn'.op = "load" /\ txn'.cand = Restored(disk)
        /\ disk \in Snapshot /\ disk.ids \subseteq issued
    BY <1>1 DEF Load, ProcessInv, Begin, TypeOK, IssuedInv
  <2>2. IssuedInv'
    BY <1>1, <2>1 DEF Load, IssuedInv, EmptyMemory, Restored, IdleJob, files, history
  <2>3. ProcessInv'
    BY <1>1, <2>1 DEF Load, ProcessInv, runVars
  <2>4. HolderInv' /\ SingleExecution' /\ NoStrandedReservation'
    BY <2>1 DEF HolderInv, Past, SingleExecution, NoStrandedReservation, IdleJob, EmptyMemory
  <2>5. CandidateInv'
    BY <2>1 DEF CandidateInv, IdleJob, EmptyMemory, Restored
  <2> QED
    BY <2>2, <2>3, <2>4, <2>5
<1>2. ASSUME NEW f \in Snapshot, Exit(f), f.ids \subseteq issued,
             \A g \in survivors' : g.ids \subseteq issued
      PROVE  ReservationInv'
  <2>1. /\ \A w \in Workers : work'[w] = IdleJob
        /\ mem' = EmptyMemory /\ txn' = NoTxn /\ issued' = issued
        /\ disk' = f /\ rival' = NoRival /\ proc' = "down" /\ loop' = "off"
    BY <1>2 DEF Exit, history
  <2>2. IssuedInv'
    BY <1>2, <2>1 DEF IssuedInv, EmptyMemory, EmptyFile, NoTxn, NoRival, IdleJob
  <2>3. ProcessInv'
    BY <2>1 DEF ProcessInv, NoTxn
  <2>4. HolderInv' /\ SingleExecution' /\ NoStrandedReservation' /\ CandidateInv'
    BY <2>1 DEF HolderInv, Past, SingleExecution, NoStrandedReservation, CandidateInv,
                IdleJob, EmptyMemory, NoTxn
  <2> QED
    BY <2>2, <2>3, <2>4
<1>3. CASE Crash
  BY <1>2, <1>3 DEF Crash, TypeOK, IssuedInv
<1>4. CASE PowerLoss
  BY <1>2, <1>4 DEF PowerLoss, TypeOK, IssuedInv
<1>5. CASE RivalLoads
  <2>1. IssuedInv' /\ ProcessInv'
    BY <1>5 DEF RivalLoads, IssuedInv, ProcessInv, Restored, Persisted, engine, runVars, files, history
  <2> QED
    BY <1>5, <2>1, QuietReservation DEF RivalLoads, engine
<1>6. CASE RivalSaves
  <2>1. IssuedInv' /\ ProcessInv'
    BY <1>6 DEF RivalSaves, IssuedInv, ProcessInv, NoRival, EmptyFile, engine, runVars, history
  <2> QED
    BY <1>6, <2>1, QuietReservation DEF RivalSaves, engine
<1>7. CASE Stop
  <2>1. IssuedInv' /\ ProcessInv'
    BY <1>7 DEF Stop, IssuedInv, ProcessInv, engine, runVars, files, history
  <2> QED
    BY <1>7, <2>1, QuietReservation DEF Stop, engine
<1>8. CASE Tick
  <2>1. IssuedInv' /\ ProcessInv'
    BY <1>8 DEF Tick, IssuedInv, ProcessInv, engine, runVars, files, history
  <2> QED
    BY <1>8, <2>1, QuietReservation DEF Tick, engine
<1> QED
  BY <1>1, <1>3, <1>4, <1>5, <1>6, <1>7, <1>8 DEF Process

LEMMA CallerReservation == ReservationInv /\ TypeOK' /\ Caller => ReservationInv'
<1> SUFFICES ASSUME ReservationInv, TypeOK', Caller PROVE ReservationInv'
  OBVIOUS
<1> USE DEF ReservationInv
<1>0. mem \in Memory /\ MarksOK(mem)
  BY DEF TypeOK
<1>1. ASSUME mem' = mem, work' = work, Free, CandidateInv', IssuedInv', ProcessInv'
      PROVE  ReservationInv'
  BY <1>1 DEF HolderInv, Past, SingleExecution, NoStrandedReservation
<1>2. ASSUME Free PROVE Finishing = {}
  BY <1>2 DEF Finishing, CandidateInv, Free
<1>3. ASSUME NEW t \in Tasks, Add(t) PROVE ReservationInv'
  <2>1. txn' = [op |-> "add", arg |-> {t}, cand |-> With(mem, t), keep |-> FALSE, res |-> "saving"]
    BY <1>3 DEF Add, Begin
  <2>2. \A w \in Workers : work[w].id # t
    BY <1>3, NoTaskAssumption DEF Add, IssuedInv, TypeOK, Job, IdleJob
  <2>3. CandidateInv'
    BY <1>0, <1>2, <1>3, <2>1, <2>2 DEF Add, CandidateInv, Free, With, Finishing, IssuedInv, Memory, MarksOK
  <2>4. IssuedInv'
    BY <1>3, <2>1 DEF Add, IssuedInv, With, files
  <2>5. ProcessInv'
    BY <1>3, <2>1 DEF Add, ProcessInv, runVars
  <2> QED
    BY <1>1, <1>3, <2>3, <2>4, <2>5 DEF Add
<1>4. ASSUME NEW S \in SUBSET mem.ids, NEW op \in Removals, Free, proc = "up",
             \E T : Begin(op, S, Without(mem, T), FALSE) /\ T \cap mem.ids = S,
             UNCHANGED <<proc, mem, work, files, rival, issued, loop>>
      PROVE  ReservationInv'
  <2>1. PICK T : /\ txn' = [op |-> op, arg |-> S, cand |-> Without(mem, T), keep |-> FALSE,
                            res |-> "saving"]
                 /\ T \cap mem.ids = S
    BY <1>4 DEF Begin
  <2>2. CandidateInv'
    BY <1>0, <1>2, <1>4, <2>1
    DEF CandidateInv, Free, Without, Finishing, Memory, MarksOK, Removals
  <2>3. IssuedInv'
    BY <1>4, <2>1 DEF IssuedInv, Without, files
  <2>4. ProcessInv'
    BY <1>4, <2>1 DEF ProcessInv, Removals
  <2> QED
    BY <1>1, <1>4, <2>2, <2>3, <2>4
<1>5. ASSUME NEW t \in Tasks, Cancel(t) PROVE ReservationInv'
  BY <1>4, <1>5 DEF Cancel, Removals, runVars, history
<1>6. ASSUME NEW s \in Sessions, CancelSession(s) PROVE ReservationInv'
  <2>1. OwnedBy(s) \in SUBSET mem.ids /\ OwnedBy(s) \cap mem.ids = OwnedBy(s)
    BY DEF OwnedBy
  <2>2. \E T : Begin("session", OwnedBy(s), Without(mem, T), FALSE) /\ T \cap mem.ids = OwnedBy(s)
    BY <1>6, <2>1 DEF CancelSession
  <2> QED
    BY <1>4, <1>6, <2>1, <2>2 DEF CancelSession, Removals, runVars, history
<1> QED
  BY <1>3, <1>5, <1>6 DEF Caller

LEMMA RunLoopReservation == ReservationInv /\ TypeOK' /\ RunLoop => ReservationInv'
<1> SUFFICES ASSUME ReservationInv, TypeOK', RunLoop PROVE ReservationInv'
  OBVIOUS
<1> USE DEF ReservationInv
<1>1. CASE LoopLeaves
  <2>1. IssuedInv' /\ ProcessInv'
    BY <1>1 DEF LoopLeaves, IssuedInv, ProcessInv, engine, files, history
  <2> QED
    BY <1>1, <2>1, QuietReservation DEF LoopLeaves, engine
<1>2. CASE LoopRetries
  <2>1. CASE unsaved
    <3>1. /\ txn' = [op |-> "retry", arg |-> {}, cand |-> mem, keep |-> TRUE, res |-> "saving"]
          /\ mem' = mem /\ work' = work /\ Free /\ proc' = proc /\ loop' = loop
      BY <1>2, <2>1 DEF LoopRetries, Begin
    <3>2. IssuedInv' /\ ProcessInv'
      BY <1>2, <3>1 DEF LoopRetries, IssuedInv, ProcessInv, files, history
    <3>3. CandidateInv'
      BY <3>1 DEF CandidateInv, Free, Finishing, TypeOK, Memory, MarksOK
    <3> QED
      BY <3>1, <3>2, <3>3 DEF HolderInv, Past, SingleExecution, NoStrandedReservation
  <2>2. CASE ~ unsaved
    <3>1. IssuedInv' /\ ProcessInv'
      BY <1>2, <2>2 DEF LoopRetries, IssuedInv, ProcessInv, files, history
    <3> QED
      BY <1>2, <2>2, <3>1, QuietReservation DEF LoopRetries
  <2> QED
    BY <2>1, <2>2
<1>3. CASE LoopDispatches
  <2>1. PICK hand \in [Due(mem) -> Idle] :
          /\ \A t, u \in Due(mem) : hand[t] = hand[u] => t = u
          /\ work' = [w \in Workers |->
                        IF \E t \in Due(mem) : hand[t] = w
                        THEN LET t == CHOOSE t \in Due(mem) : hand[t] = w
                             IN [pc |-> "queued", id |-> t, sched |-> mem.next[t]]
                        ELSE work[w]]
    BY <1>3 DEF LoopDispatches
  <2>2. /\ mem' = [mem EXCEPT !.queued = @ \cup Due(mem)] /\ txn' = txn /\ Free
        /\ mem \in Memory /\ MarksOK(mem) /\ Due(mem) \subseteq mem.ids
        /\ Due(mem) \cap mem.running = {}
    BY <1>3 DEF LoopDispatches, TypeOK, Due
  <2>3. /\ mem'.ids = mem.ids /\ mem'.next = mem.next /\ mem'.running = mem.running
        /\ mem'.queued = mem.queued \cup Due(mem)
    BY <2>2 DEF Memory
  <2>4. \A t \in Due(mem) :
          work'[hand[t]] = [pc |-> "queued", id |-> t, sched |-> mem.next[t]]
    <3> SUFFICES ASSUME NEW t \in Due(mem)
                 PROVE  work'[hand[t]] = [pc |-> "queued", id |-> t, sched |-> mem.next[t]]
      OBVIOUS
    <3>1. hand[t] \in Workers /\ \E u \in Due(mem) : hand[u] = hand[t]
      BY DEF Idle
    <3>2. (CHOOSE u \in Due(mem) : hand[u] = hand[t]) = t
      BY <2>1
    <3> QED
      BY <2>1, <3>1, <3>2
  <2>5. ASSUME NEW w \in Workers
        PROVE  \/ work'[w] = work[w]
               \/ work[w].pc = "idle" /\ \E t \in Due(mem) :
                    work'[w] = [pc |-> "queued", id |-> t, sched |-> mem.next[t]]
    <3>1. CASE \E t \in Due(mem) : hand[t] = w
      BY <2>4, <3>1 DEF Idle
    <3>2. CASE ~ \E t \in Due(mem) : hand[t] = w
      BY <2>1, <3>2
    <3> QED
      BY <3>1, <3>2
  <2>6. IssuedInv' /\ ProcessInv'
    BY <1>3, <2>2, <2>3, <2>5 DEF LoopDispatches, IssuedInv, ProcessInv, files, history
  <2>10. ASSUME NEW w \in Workers, work'[w].pc # "queued"
         PROVE  work'[w] = work[w]
    <3>1. CASE work'[w] = work[w]
      BY <3>1
    <3>2. CASE \E t \in Due(mem) :
                 work'[w] = [pc |-> "queued", id |-> t, sched |-> mem.next[t]]
      BY <2>10, <3>2
    <3> QED
      BY <2>5, <3>1, <3>2
  <2>7. HolderInv' /\ SingleExecution'
    <3>1. HolderInv'
      BY <2>3, <2>10 DEF HolderInv, Past
    <3>2. SingleExecution'
      BY <2>10 DEF SingleExecution
    <3> QED
      BY <3>1, <3>2
  <2>8. CandidateInv'
    <3>1. \A w \in Workers : work'[w].pc # "saving"
      BY <2>2, <2>10 DEF CandidateInv, Free
    <3> QED
      BY <2>2, <3>1 DEF CandidateInv, Free
  <2>9. NoStrandedReservation'
    <3>1. ASSUME NEW t \in mem'.queued
          PROVE  \E w \in Workers : work'[w] = [pc |-> "queued", id |-> t, sched |-> mem'.next[t]]
      <4>1. CASE t \in Due(mem)
        BY <2>3, <2>4, <4>1 DEF Idle
      <4>2. CASE t \in mem.queued
        BY <2>3, <2>5, <4>2 DEF NoStrandedReservation
      <4> QED
        BY <2>3, <3>1, <4>1, <4>2
    <3>2. ASSUME NEW t \in mem'.running
          PROVE  \E w \in Workers : /\ work'[w].pc \in {"claimed", "running", "saving"}
                                    /\ work'[w].id = t /\ work'[w].sched = mem'.next[t]
      BY <2>3, <2>5, <3>2 DEF NoStrandedReservation
    <3> QED
      BY <3>1, <3>2 DEF NoStrandedReservation
  <2> QED
    BY <2>6, <2>7, <2>8, <2>9
<1>4. CASE LoopDispatchesNothing \/ LoopGoesOn
  <2>1. IssuedInv' /\ ProcessInv'
    BY <1>4 DEF LoopDispatchesNothing, LoopGoesOn, IssuedInv, ProcessInv, engine, files, history
  <2> QED
    BY <1>4, <2>1, QuietReservation DEF LoopDispatchesNothing, LoopGoesOn, engine
<1>5. CASE LoopSleeps
  <2>1. IssuedInv' /\ ProcessInv'
    BY <1>5 DEF LoopSleeps, IssuedInv, ProcessInv, engine, files, history
  <2> QED
    BY <1>5, <2>1, QuietReservation DEF LoopSleeps, engine
<1>6. CASE LoopWakes
  <2>1. IssuedInv' /\ ProcessInv'
    BY <1>6 DEF LoopWakes, IssuedInv, ProcessInv, files, history
  <2> QED
    BY <1>6, <2>1, QuietReservation DEF LoopWakes
<1>7. CASE LoopTimerFires
  <2>1. IssuedInv' /\ ProcessInv'
    BY <1>7 DEF LoopTimerFires, IssuedInv, ProcessInv, engine, files, history
  <2> QED
    BY <1>7, <2>1, QuietReservation DEF LoopTimerFires, engine
<1> QED
  BY <1>1, <1>2, <1>3, <1>4, <1>5, <1>6, <1>7 DEF RunLoop

LEMMA DispatchReservation ==
  ASSUME NEW w \in Workers PROVE ReservationInv /\ TypeOK' /\ Dispatch(w) => ReservationInv'
<1> SUFFICES ASSUME ReservationInv, TypeOK', Dispatch(w) PROVE ReservationInv'
  OBVIOUS
<1> USE DEF ReservationInv
<1>0. work \in [Workers -> Job] /\ mem \in Memory /\ MarksOK(mem)
  BY DEF TypeOK
<1>1. CASE ReleaseQueued(w)
  <2>1. /\ work' = [work EXCEPT ![w] = IdleJob] /\ work[w].pc = "queued" /\ Free /\ txn' = txn
        /\ mem'.ids = mem.ids /\ mem'.next = mem.next /\ mem'.running = mem.running
        /\ mem'.queued = IF Reserved(w) THEN mem.queued \ {work[w].id} ELSE mem.queued
    BY <1>0, <1>1 DEF ReleaseQueued, Memory
  <2>2. IssuedInv' /\ ProcessInv'
    BY <1>0, <1>1, <2>1 DEF ReleaseQueued, IssuedInv, ProcessInv, runVars, files, history, IdleJob
  <2>3. HolderInv' /\ SingleExecution' /\ CandidateInv'
    BY <1>0, <2>1 DEF HolderInv, Past, SingleExecution, CandidateInv, Free, IdleJob
  <2>4. NoStrandedReservation'
    BY <1>0, <2>1 DEF NoStrandedReservation, Reserved, MarksOK, Memory
  <2> QED
    BY <2>2, <2>3, <2>4
<1>2. CASE Claim(w)
  <2>1. /\ work' = [work EXCEPT ![w].pc = "claimed"] /\ work[w].pc = "queued" /\ Free /\ txn' = txn
        /\ mem'.ids = mem.ids /\ mem'.next = mem.next
        /\ mem'.running = mem.running \cup {work[w].id}
        /\ mem'.queued = mem.queued \ {work[w].id}
        /\ work[w].id \in mem.queued /\ mem.next[work[w].id] = work[w].sched
    BY <1>0, <1>2 DEF Claim, Memory, Reserved
  <2>2. work'[w] = [work[w] EXCEPT !.pc = "claimed"] /\ \A v \in Workers : v # w => work'[v] = work[v]
    BY <1>0, <2>1
  <2>3. work'[w].pc = "claimed" /\ work'[w].id = work[w].id /\ work'[w].sched = work[w].sched
    BY <1>0, <2>1, <2>2 DEF Job, IdleJob
  <2>4. IssuedInv' /\ ProcessInv'
    BY <1>2, <2>1, <2>2, <2>3 DEF Claim, IssuedInv, ProcessInv, runVars, files, history, IdleJob
  <2>5. HolderInv'
    BY <2>1, <2>2, <2>3 DEF HolderInv, Past
  <2>6. SingleExecution'
    <3>1. \A v \in Workers : Past(v) => work[v].id # work[w].id
      BY <1>0, <2>1 DEF HolderInv, MarksOK
    <3>2. ASSUME NEW u \in Workers, NEW v \in Workers, u # v, Past(u)', Past(v)'
          PROVE  work'[u].id # work'[v].id
      <4>1. CASE u # w /\ v # w
        BY <2>2, <3>2, <4>1 DEF SingleExecution, Past
      <4>2. ASSUME NEW x \in Workers, x # w, Past(x)'
            PROVE  work'[x].id # work[w].id
        <5>1. work'[x] = work[x]
          BY <2>2, <4>2
        <5>2. Past(x)
          BY <4>2, <5>1 DEF Past
        <5> QED
          BY <3>1, <5>1, <5>2
      <4> QED
        BY <2>3, <3>2, <4>1, <4>2
    <3> QED
      BY <3>2 DEF SingleExecution, Past
  <2>7. CandidateInv'
    BY <2>1, <2>2, <2>3 DEF CandidateInv, Free
  <2>8. NoStrandedReservation'
    <3>1. ASSUME NEW t \in mem'.queued
          PROVE  \E v \in Workers : work'[v] = [pc |-> "queued", id |-> t, sched |-> mem'.next[t]]
      <4>1. PICK v \in Workers : work[v] = [pc |-> "queued", id |-> t, sched |-> mem.next[t]]
        BY <2>1, <3>1 DEF NoStrandedReservation
      <4>2. v # w
        BY <2>1, <3>1, <4>1
      <4> QED
        BY <2>1, <2>2, <4>1, <4>2
    <3>2. ASSUME NEW t \in mem'.running
          PROVE  \E v \in Workers : /\ work'[v].pc \in {"claimed", "running", "saving"}
                                    /\ work'[v].id = t /\ work'[v].sched = mem'.next[t]
      <4>1. CASE t = work[w].id
        BY <2>1, <2>3, <4>1
      <4>2. CASE t \in mem.running
        BY <2>1, <2>2, <4>2 DEF NoStrandedReservation
      <4> QED
        BY <2>1, <3>2, <4>1, <4>2
    <3> QED
      BY <3>1, <3>2 DEF NoStrandedReservation
  <2> QED
    BY <2>4, <2>5, <2>6, <2>7, <2>8
<1>3. CASE Superseded(w)
  <2>1. /\ work' = [work EXCEPT ![w] = IdleJob] /\ work[w].pc = "queued" /\ ~ Reserved(w)
        /\ mem' = mem /\ txn' = txn /\ Free
    BY <1>3 DEF Superseded, engine
  <2>2. IssuedInv' /\ ProcessInv'
    BY <1>0, <1>3, <2>1 DEF Superseded, IssuedInv, ProcessInv, engine, runVars, files, history, IdleJob
  <2>3. HolderInv' /\ SingleExecution' /\ CandidateInv'
    BY <1>0, <2>1 DEF HolderInv, Past, SingleExecution, CandidateInv, Free, IdleJob
  <2>4. NoStrandedReservation'
    BY <1>0, <2>1 DEF NoStrandedReservation, Reserved, MarksOK
  <2> QED
    BY <2>2, <2>3, <2>4
<1>4. ASSUME NEW pc \in {"running", "saving"}, Past(w), work' = [work EXCEPT ![w].pc = pc],
             mem' = mem, IssuedInv'
      PROVE  HolderInv' /\ SingleExecution' /\ NoStrandedReservation'
  <2>1. /\ work'[w].pc = pc /\ work'[w].id = work[w].id /\ work'[w].sched = work[w].sched
        /\ \A v \in Workers : v # w => work'[v] = work[v]
    BY <1>0, <1>4 DEF Past, Job, IdleJob
  <2>2. HolderInv' /\ SingleExecution'
    BY <1>4, <2>1 DEF HolderInv, SingleExecution, Past
  <2>3. \A t \in mem.queued : \E v \in Workers :
          v # w /\ work[v] = [pc |-> "queued", id |-> t, sched |-> mem.next[t]]
    BY <1>4 DEF NoStrandedReservation, Past
  <2>4. NoStrandedReservation'
    BY <1>4, <2>1, <2>3 DEF NoStrandedReservation, Past
  <2> QED
    BY <2>2, <2>4
<1>5. CASE Execute(w)
  <2>1. IssuedInv' /\ ProcessInv'
    BY <1>0, <1>5 DEF Execute, IssuedInv, ProcessInv, engine, runVars, files, Job, IdleJob
  <2>2. CandidateInv'
    <3>1. \A v \in Workers : work'[v].id = work[v].id /\ (work'[v].pc = "saving" <=> work[v].pc = "saving")
      BY <1>0, <1>5 DEF Execute, Job, IdleJob
    <3>2. Finishing' = Finishing
      BY <3>1 DEF Finishing
    <3>3. txn' = txn /\ mem' = mem /\ (txn.op = "load" => FALSE)
      BY <1>5 DEF Execute, engine, CandidateInv, IdleJob
    <3> QED
      BY <3>1, <3>2, <3>3 DEF CandidateInv
  <2> QED
    BY <1>4, <1>5, <2>1, <2>2 DEF Execute, Past, engine
<1>6. CASE Finish(w)
  <2>1. /\ Past(w) /\ work' = [work EXCEPT ![w].pc = "saving"] /\ mem' = mem /\ Free
        /\ txn' = [op |-> "finish", arg |-> {}, cand |-> AfterRun(w), keep |-> TRUE, res |-> "saving"]
    BY <1>6 DEF Finish, Begin, Past
  <2>2. /\ work'[w].pc = "saving" /\ work'[w].id = work[w].id
        /\ \A v \in Workers : v # w => work'[v] = work[v] /\ work[v].pc # "saving"
        /\ work[w].id \in Tasks
    BY <1>0, <2>1 DEF Job, IdleJob, CandidateInv, Free, Past
  <2>3. Finishing' = {work[w].id}
    BY <2>2 DEF Finishing
  <2>4. AfterRun(w).ids = mem.ids /\ AfterRun(w).queued = mem.queued
    BY <1>0 DEF AfterRun, Completed
  <2>5. AfterRun(w).running = mem.running \ {work[w].id}
    BY <1>0, <2>1, <2>2 DEF AfterRun, Completed, HolderInv, MarksOK
  <2>6. \A t \in mem.ids : t # work[w].id => AfterRun(w).next[t] = mem.next[t]
    BY <1>0 DEF AfterRun, Completed, Memory
  <2>7. CandidateInv'
    BY <1>0, <2>1, <2>2, <2>3, <2>4, <2>5, <2>6 DEF CandidateInv, MarksOK
  <2>8. IssuedInv' /\ ProcessInv'
    BY <1>0, <1>6, <2>1, <2>2, <2>4 DEF Finish, IssuedInv, ProcessInv, Past, runVars, files, history, IdleJob
  <2> QED
    BY <1>4, <2>1, <2>7, <2>8
<1> QED
  BY <1>1, <1>2, <1>3, <1>5, <1>6 DEF Dispatch

LEMMA StepReservation == ReservationInv /\ [Next]_vars => ReservationInv'
<1> SUFFICES ASSUME ReservationInv, [Next]_vars PROVE ReservationInv'
  OBVIOUS
<1>1. TypeOK'
  BY TypeStep DEF ReservationInv
<1>2. CASE Next
  BY <1>1, <1>2, PersistReservation, ProcessReservation, CallerReservation, RunLoopReservation,
     DispatchReservation DEF Next
<1>3. CASE UNCHANGED vars
  BY <1>1, <1>3 DEF vars, engine, runVars, files, history, bounds, ReservationInv, IssuedInv,
     ProcessInv, HolderInv, Past, SingleExecution, NoStrandedReservation, CandidateInv, Finishing
<1> QED
  BY <1>2, <1>3

\* In every run, for any number of tasks and goroutines: no task is executed by two
\* goroutines at a time, and no mark is left without the goroutine that clears it.
THEOREM ReservationsSafe == Spec => [](SingleExecution /\ NoStrandedReservation)
<1>1. ReservationInv => SingleExecution /\ NoStrandedReservation
  BY DEF ReservationInv
<1> QED
  BY InitReservation, StepReservation, <1>1, PTL DEF Spec

\* A mark always has the goroutine that will clear it, so no task is skipped for ever
\* (Engine.dispatchTask, releaseQueued and finish).
THEOREM NoStrandedSafe == Spec => []NoStrandedReservation
  BY ReservationsSafe, PTL

----------------------------------------------------------------------------
(***************************************************************************)
(* Occurrences.  An occurrence that was executed is in the past of the     *)
(* next deadline of its task, in memory and in the candidate of an open    *)
(* transaction, unless the task is still marked running.                   *)
(***************************************************************************)

Later(o, m) == o[1] \in m.ids /\ o[1] \notin m.running => o[2] < m.next[o[1]]

OccurrenceInv ==
  /\ \A w \in Workers : work[w].sched <= now
  /\ \A w \in Workers : work[w].pc = "claimed" => <<work[w].id, work[w].sched>> \notin ran
  /\ \A o \in ran : o[1] \in issued /\ o[2] <= now /\ Later(o, mem)
  /\ txn.op # "none" => \A o \in ran : Later(o, txn.cand)

\* The next deadline is after the present.
LEMMA NextAfterLater ==
  ASSUME NEW t \in Tasks, now \in Nat PROVE now < NextAfter(t, now)
<1>1. Period[t] \in Nat \ {0}
  BY PeriodAssumption
<1>2. ASSUME NEW n \in Nat, NEW p \in Nat \ {0} PROVE n < ((n \div p) + 1) * p
  <2>1. p > 0
    OBVIOUS
  <2> QED
    BY <2>1
<1> QED
  BY <1>1, <1>2 DEF NextAfter

\* The executed occurrences are pairs of a task and a time.
LEMMA RanPairs ==
  ASSUME TypeOK, NEW o \in ran
  PROVE  o[1] \in Tasks /\ o[2] \in Nat /\ o = <<o[1], o[2]>>
  BY DEF TypeOK

\* Steps of nobody who executes, claims, reserves or restores.
LEMMA QuietOccurrence ==
  ASSUME TypeOK, OccurrenceInv, now <= now', now' \in Nat, UNCHANGED <<mem, work, ran>>,
         issued \subseteq issued', txn'.op = "none" \/ (txn'.op = txn.op /\ txn'.cand = txn.cand)
  PROVE  OccurrenceInv'
<1>1. \A w \in Workers : work[w].sched \in Nat /\ work'[w] = work[w]
  BY DEF TypeOK, Job, IdleJob
<1>2. now \in Nat /\ mem' = mem /\ ran' = ran /\ \A o \in ran : o[2] \in Nat
  BY RanPairs DEF TypeOK
<1> QED
  BY <1>1, <1>2 DEF OccurrenceInv, Later

\* A transaction begins with a candidate that the executed occurrences precede.
LEMMA BeginOccurrence ==
  ASSUME OccurrenceInv, UNCHANGED <<now, mem, work, ran>>, issued \subseteq issued',
         \A o \in ran : Later(o, txn'.cand)
  PROVE  OccurrenceInv'
  BY DEF OccurrenceInv, Later

\* The candidate takes the place of memory, or is dropped.
LEMMA CommitOccurrence == ReservationInv /\ OccurrenceInv /\ Commit => OccurrenceInv'
<1> SUFFICES ASSUME ReservationInv, OccurrenceInv, Commit PROVE OccurrenceInv'
  OBVIOUS
<1>1. /\ work' = [w \in Workers |-> IF work[w].pc = "saving" THEN IdleJob ELSE work[w]]
      /\ mem' = txn.cand \/ mem' = mem
      /\ txn.op # "none" /\ txn' = NoTxn /\ UNCHANGED <<now, issued, ran>>
  BY DEF Commit
<1>2. now \in Nat
  BY DEF ReservationInv, TypeOK
<1>3. \A w \in Workers : work'[w].sched <= now
  BY <1>1, <1>2 DEF OccurrenceInv, IdleJob
<1>4. \A w \in Workers : work'[w].pc = "claimed" => work'[w] = work[w]
  BY <1>1 DEF IdleJob
<1>5. \A o \in ran : Later(o, mem')
  BY <1>1 DEF OccurrenceInv
<1>6. txn'.op = "none"
  BY <1>1 DEF NoTxn
<1> QED
  BY <1>1, <1>3, <1>4, <1>5, <1>6 DEF OccurrenceInv, Later

LEMMA PersistOccurrence == ReservationInv /\ OccurrenceInv /\ Persist => OccurrenceInv'
<1> SUFFICES ASSUME ReservationInv, OccurrenceInv, Persist PROVE OccurrenceInv'
  OBVIOUS
<1>1. TypeOK /\ now \in Nat
  BY DEF ReservationInv, TypeOK
<1>2. CASE SaveOk \/ SaveFails \/ SaveUnsynced
  <2>1. UNCHANGED <<now, mem, work, ran, issued>> /\ txn'.op = txn.op /\ txn'.cand = txn.cand
    BY <1>1, <1>2 DEF SaveOk, SaveFails, SaveUnsynced, history, TypeOK, Transaction
  <2> QED
    BY <1>1, <2>1, QuietOccurrence
<1> QED
  BY <1>2, CommitOccurrence DEF Persist

LEMMA ProcessOccurrence == ReservationInv /\ OccurrenceInv /\ Process => OccurrenceInv'
<1> SUFFICES ASSUME ReservationInv, OccurrenceInv, Process PROVE OccurrenceInv'
  OBVIOUS
<1>1. TypeOK /\ now \in Nat /\ disk \in Snapshot
  BY DEF ReservationInv, TypeOK
<1>2. CASE Load
  <2>1. /\ mem' = EmptyMemory /\ txn'.cand = Restored(disk) /\ UNCHANGED <<now, work, ran, issued>>
    BY <1>2 DEF Load, Begin, history
  <2>2. \A o \in ran : Later(o, EmptyMemory)
    BY DEF Later, EmptyMemory
  <2>3. ASSUME NEW o \in ran PROVE Later(o, Restored(disk))
    <3> SUFFICES ASSUME o[1] \in disk.ids PROVE o[2] < Restored(disk).next[o[1]]
      BY DEF Later, Restored
    <3>1. o[1] \in Tasks /\ o[2] \in Nat /\ o[2] <= now
      BY <1>1, RanPairs DEF OccurrenceInv
    <3>2. Restored(disk).next[o[1]] = NextAfter(o[1], now)
      BY <3>1 DEF Restored
    <3> QED
      BY <1>1, <3>1, <3>2, NextAfterLater, NextAfterType
  <2> QED
    BY <2>1, <2>2, <2>3 DEF OccurrenceInv
<1>3. CASE Crash \/ PowerLoss
  <2>1. /\ mem' = EmptyMemory /\ txn' = NoTxn /\ UNCHANGED <<now, ran, issued>>
        /\ work' = [w \in Workers |-> IdleJob]
    BY <1>3 DEF Crash, PowerLoss, Exit, history
  <2>2. \A w \in Workers : work'[w].sched <= now /\ work'[w].pc # "claimed"
    BY <1>1, <2>1 DEF IdleJob
  <2>3. \A o \in ran : Later(o, EmptyMemory)
    BY DEF Later, EmptyMemory
  <2> QED
    BY <2>1, <2>2, <2>3 DEF OccurrenceInv, NoTxn
<1>4. CASE RivalLoads \/ RivalSaves \/ Stop
  BY <1>1, <1>4, QuietOccurrence DEF RivalLoads, RivalSaves, Stop, engine, history
<1>5. CASE Tick
  BY <1>1, <1>5, QuietOccurrence DEF Tick, engine, history
<1> QED
  BY <1>2, <1>3, <1>4, <1>5 DEF Process

LEMMA CallerOccurrence == ReservationInv /\ OccurrenceInv /\ Caller => OccurrenceInv'
<1> SUFFICES ASSUME ReservationInv, OccurrenceInv, Caller PROVE OccurrenceInv'
  OBVIOUS
<1>1. TypeOK /\ now \in Nat /\ mem \in Memory
  BY DEF ReservationInv, TypeOK
<1>2. ASSUME NEW t \in Tasks, Add(t) PROVE OccurrenceInv'
  <2>1. /\ txn'.cand = With(mem, t) /\ UNCHANGED <<now, mem, work, ran>> /\ issued' = issued \cup {t}
        /\ t \notin issued
    BY <1>2 DEF Add, Begin
  <2>2. ASSUME NEW o \in ran PROVE Later(o, With(mem, t))
    <3>1. o[1] \in Tasks /\ o[1] # t /\ Later(o, mem)
      BY <1>1, <2>1, RanPairs DEF OccurrenceInv
    <3>2. With(mem, t).next[o[1]] = mem.next[o[1]]
      BY <1>1, <3>1 DEF With, Memory
    <3> QED
      BY <3>1, <3>2 DEF Later, With
  <2> QED
    BY <2>1, <2>2, BeginOccurrence
<1>3. ASSUME NEW S \in SUBSET Tasks, NEW o \in ran PROVE Later(o, Without(mem, S))
  <2> SUFFICES ASSUME o[1] \in mem.ids, o[1] \notin S, o[1] \notin mem.running
               PROVE  o[2] < Without(mem, S).next[o[1]]
    BY DEF Later, Without
  <2>1. o[1] \in Tasks /\ Later(o, mem)
    BY <1>1, RanPairs DEF OccurrenceInv
  <2> QED
    BY <2>1 DEF Later, Without
<1>4. ASSUME NEW t \in Tasks, Cancel(t) PROVE OccurrenceInv'
  <2>1. txn'.cand = Without(mem, {t}) /\ UNCHANGED <<now, mem, work, ran, issued>>
    BY <1>4 DEF Cancel, Begin, history
  <2> QED
    BY <1>3, <2>1, BeginOccurrence
<1>5. ASSUME NEW s \in Sessions, CancelSession(s) PROVE OccurrenceInv'
  <2>1. txn'.cand = Without(mem, OwnedBy(s)) /\ UNCHANGED <<now, mem, work, ran, issued>>
    BY <1>5 DEF CancelSession, Begin, history
  <2>2. OwnedBy(s) \in SUBSET Tasks
    BY <1>1 DEF OwnedBy, Memory
  <2> QED
    BY <1>3, <2>1, <2>2, BeginOccurrence
<1> QED
  BY <1>2, <1>4, <1>5 DEF Caller

LEMMA RunLoopOccurrence == ReservationInv /\ OccurrenceInv /\ RunLoop => OccurrenceInv'
<1> SUFFICES ASSUME ReservationInv, OccurrenceInv, RunLoop PROVE OccurrenceInv'
  OBVIOUS
<1>1. TypeOK /\ now \in Nat /\ mem \in Memory
  BY DEF ReservationInv, TypeOK
<1>2. CASE LoopLeaves \/ LoopGoesOn \/ LoopDispatchesNothing \/ LoopSleeps \/ LoopWakes \/ LoopTimerFires
  BY <1>1, <1>2, QuietOccurrence DEF LoopLeaves, LoopGoesOn, LoopDispatchesNothing, LoopSleeps, LoopWakes,
     LoopTimerFires, engine, history
<1>3. CASE LoopRetries
  <2>1. UNCHANGED <<now, mem, work, ran, issued>> /\ (txn'.cand = mem \/ txn' = txn)
    BY <1>3 DEF LoopRetries, Begin, history
  <2>2. CASE txn'.cand = mem
    BY <2>1, <2>2, BeginOccurrence DEF OccurrenceInv
  <2>3. CASE txn' = txn
    BY <1>1, <2>1, <2>3, QuietOccurrence
  <2> QED
    BY <2>1, <2>2, <2>3
<1>4. CASE LoopDispatches
  <2>1. PICK hand \in [Due(mem) -> Idle] :
          work' = [w \in Workers |->
                     IF \E t \in Due(mem) : hand[t] = w
                     THEN LET t == CHOOSE t \in Due(mem) : hand[t] = w
                          IN [pc |-> "queued", id |-> t, sched |-> mem.next[t]]
                     ELSE work[w]]
    BY <1>4 DEF LoopDispatches
  <2>2. /\ UNCHANGED <<now, ran, issued, txn>> /\ Free
        /\ mem'.ids = mem.ids /\ mem'.next = mem.next /\ mem'.running = mem.running
    BY <1>1, <1>4 DEF LoopDispatches, history, Memory
  <2>3. ASSUME NEW w \in Workers
        PROVE  work'[w].sched <= now /\ (work'[w].pc = "claimed" => work'[w] = work[w])
    <3>1. CASE \E t \in Due(mem) : hand[t] = w
      <4>1. PICK t \in Due(mem) : work'[w] = [pc |-> "queued", id |-> t, sched |-> mem.next[t]]
        BY <2>1, <3>1
      <4> QED
        BY <4>1 DEF Due
    <3>2. CASE ~ \E t \in Due(mem) : hand[t] = w
      BY <2>1, <3>2 DEF OccurrenceInv
    <3> QED
      BY <3>1, <3>2
  <2> QED
    BY <2>2, <2>3 DEF OccurrenceInv, Later, Free
<1> QED
  BY <1>2, <1>3, <1>4 DEF RunLoop

\* A goroutine claims an occurrence that was not executed, and executes it while the task
\* is marked running or gone.
LEMMA DispatchOccurrence ==
  ASSUME NEW w \in Workers PROVE ReservationInv /\ OccurrenceInv /\ Dispatch(w) => OccurrenceInv'
<1> SUFFICES ASSUME ReservationInv, OccurrenceInv, Dispatch(w) PROVE OccurrenceInv'
  OBVIOUS
<1>0. /\ TypeOK /\ now \in Nat /\ mem \in Memory /\ MarksOK(mem) /\ work \in [Workers -> Job]
      /\ \A v \in Workers : work[v].sched \in Nat
  BY DEF ReservationInv, TypeOK, Job, IdleJob
<1>1. CASE ReleaseQueued(w) \/ Superseded(w)
  <2>1. /\ work' = [work EXCEPT ![w] = IdleJob] /\ UNCHANGED <<now, ran, issued, txn>>
        /\ mem'.ids = mem.ids /\ mem'.next = mem.next /\ mem'.running = mem.running
    BY <1>0, <1>1 DEF ReleaseQueued, Superseded, history, engine, Memory
  <2>2. ASSUME NEW v \in Workers
        PROVE  work'[v].sched <= now /\ (work'[v].pc = "claimed" => work'[v] = work[v])
    BY <1>0, <2>1 DEF OccurrenceInv, IdleJob
  <2> QED
    BY <2>1, <2>2 DEF OccurrenceInv, Later
<1>2. CASE Claim(w)
  <2>1. /\ work' = [work EXCEPT ![w].pc = "claimed"] /\ UNCHANGED <<now, ran, issued, txn>>
        /\ mem'.ids = mem.ids /\ mem'.next = mem.next
        /\ mem.running \subseteq mem'.running /\ Free
        /\ work[w].id \in mem.queued /\ work[w].id \in mem.ids
        /\ mem.next[work[w].id] = work[w].sched
    BY <1>0, <1>2 DEF Claim, Memory, Reserved, history
  <2>2. <<work[w].id, work[w].sched>> \notin ran
    <3> SUFFICES ASSUME NEW o \in ran, o[1] = work[w].id, o[2] = work[w].sched PROVE FALSE
      OBVIOUS
    <3>1. Later(o, mem) /\ o[1] \notin mem.running
      BY <1>0, <2>1 DEF OccurrenceInv, MarksOK
    <3> QED
      BY <1>0, <2>1, <3>1 DEF Later
  <2>3. ASSUME NEW v \in Workers
        PROVE  /\ work'[v].sched = work[v].sched /\ work'[v].id = work[v].id
               /\ work'[v].pc = work[v].pc \/ v = w
    BY <1>0, <2>1 DEF Job, IdleJob
  <2>4. \A v \in Workers : work'[v].pc = "claimed" => <<work'[v].id, work'[v].sched>> \notin ran
    BY <2>2, <2>3 DEF OccurrenceInv
  <2> QED
    BY <2>1, <2>3, <2>4 DEF OccurrenceInv, Later, Free
<1>3. CASE Execute(w)
  <2> DEFINE p == <<work[w].id, work[w].sched>>
  <2>1. /\ work[w].pc = "claimed" /\ work' = [work EXCEPT ![w].pc = "running"]
        /\ UNCHANGED <<now, mem, issued, txn>> /\ ran' = ran \cup {p}
    BY <1>3 DEF Execute, engine
  <2>2. /\ work'[w].pc = "running"
        /\ \A v \in Workers : work'[v].sched = work[v].sched /\ (v # w => work'[v] = work[v])
    BY <1>0, <2>1 DEF Job, IdleJob
  <2>3. Past(w)
    BY <2>1 DEF Past
  <2>4. work[w].id \in issued /\ work[w].sched <= now
    BY <2>1 DEF ReservationInv, IssuedInv, OccurrenceInv
  <2>5. Later(p, mem)
    BY <2>3 DEF Later, ReservationInv, HolderInv
  <2>6. txn.op # "none" => Later(p, txn.cand)
    <3> SUFFICES ASSUME txn.op # "none", work[w].id \in txn.cand.ids
                 PROVE  work[w].id \in txn.cand.running
      BY DEF Later
    <3>1. work[w].id \in mem.ids
      BY <2>1 DEF ReservationInv, CandidateInv, IdleJob
    <3>2. work[w].id \in mem.running
      BY <2>3, <3>1 DEF ReservationInv, HolderInv
    <3>3. work[w].id \notin Finishing
      BY <2>1 DEF ReservationInv, SingleExecution, Finishing
    <3> QED
      BY <3>2, <3>3 DEF ReservationInv, CandidateInv
  <2>7. ASSUME NEW v \in Workers, work'[v].pc = "claimed"
        PROVE  <<work'[v].id, work'[v].sched>> \notin ran'
    <3>1. v # w /\ work'[v] = work[v] /\ work[v].pc = "claimed"
      BY <2>2, <2>7
    <3>2. work[v].id # work[w].id
      BY <2>1, <3>1 DEF ReservationInv, SingleExecution
    <3>3. <<work[v].id, work[v].sched>> \notin ran
      BY <3>1 DEF OccurrenceInv
    <3> QED
      BY <2>1, <3>1, <3>2, <3>3
  <2>8. \A o \in ran' : o[1] \in issued /\ o[2] <= now /\ Later(o, mem)
    BY <2>1, <2>4, <2>5 DEF OccurrenceInv
  <2>9. txn.op # "none" => \A o \in ran' : Later(o, txn.cand)
    BY <2>1, <2>6 DEF OccurrenceInv
  <2> HIDE DEF p
  <2> QED
    BY <2>1, <2>2, <2>7, <2>8, <2>9 DEF OccurrenceInv, Later
<1>4. CASE Finish(w)
  <2>1. /\ work' = [work EXCEPT ![w].pc = "saving"] /\ UNCHANGED <<now, mem, issued, ran>>
        /\ txn'.cand = AfterRun(w) /\ Past(w)
    BY <1>4 DEF Finish, Begin, history, Past
  <2>2. ASSUME NEW v \in Workers
        PROVE  work'[v].sched = work[v].sched /\ (work'[v].pc = "claimed" => work'[v] = work[v])
    BY <1>0, <2>1 DEF Job, IdleJob
  <2>3. work[w].id \in Tasks
    BY <1>0, <2>1 DEF Past, Job, IdleJob
  <2>4. ASSUME NEW o \in ran PROVE Later(o, AfterRun(w))
    <3>1. o[1] \in Tasks /\ o[2] \in Nat /\ o[2] <= now /\ Later(o, mem)
      BY <1>0, RanPairs DEF OccurrenceInv
    <3>2. CASE work[w].id \in mem.ids
      <4>1. AfterRun(w) = Completed(mem, work[w].id)
        BY <2>1, <3>2 DEF AfterRun, ReservationInv, HolderInv
      <4>2. /\ AfterRun(w).ids = mem.ids /\ AfterRun(w).running = mem.running \ {work[w].id}
            /\ AfterRun(w).next = [mem.next EXCEPT ![work[w].id] = NextAfter(work[w].id, now)]
        BY <3>2, <4>1 DEF Completed
      <4>3. CASE o[1] = work[w].id
        <5>1. AfterRun(w).next[o[1]] = NextAfter(work[w].id, now)
          BY <1>0, <2>3, <4>2, <4>3 DEF Memory
        <5> QED
          BY <1>0, <2>3, <3>1, <5>1, NextAfterLater, NextAfterType DEF Later
      <4>4. CASE o[1] # work[w].id
        <5>1. AfterRun(w).next[o[1]] = mem.next[o[1]]
          BY <1>0, <3>1, <4>2, <4>4 DEF Memory
        <5> QED
          BY <3>1, <4>2, <4>4, <5>1 DEF Later
      <4> QED
        BY <4>3, <4>4
    <3>3. CASE work[w].id \notin mem.ids
      BY <3>1, <3>3 DEF AfterRun
    <3> QED
      BY <3>2, <3>3
  <2> QED
    BY <2>1, <2>2, <2>4 DEF OccurrenceInv, Later
<1> QED
  BY <1>1, <1>2, <1>3, <1>4 DEF Dispatch

LEMMA InitOccurrence == Init => OccurrenceInv
  BY DEF Init, OccurrenceInv, IdleJob, NoTxn

LEMMA StepOccurrence == ReservationInv /\ OccurrenceInv /\ [Next]_vars => OccurrenceInv'
<1> SUFFICES ASSUME ReservationInv, OccurrenceInv, [Next]_vars PROVE OccurrenceInv'
  OBVIOUS
<1>1. CASE Next
  BY <1>1, PersistOccurrence, ProcessOccurrence, CallerOccurrence, RunLoopOccurrence,
     DispatchOccurrence DEF Next
<1>2. CASE UNCHANGED vars
  <2>1. UNCHANGED <<now, mem, work, ran, issued, txn>>
    BY <1>2 DEF vars, engine, history
  <2> QED
    BY <2>1 DEF OccurrenceInv, Later
<1> QED
  BY <1>1, <1>2

\* Only Execute starts an execution.
LEMMA StartsExecution ==
  ASSUME TypeOK, [Next]_vars, NEW w \in Workers, work[w].pc # "running", work'[w].pc = "running"
  PROVE  work[w].pc = "claimed"
<1>0. work \in [Workers -> Job]
  BY DEF TypeOK
<1>1. CASE Commit
  BY <1>1 DEF Commit, IdleJob
<1>2. CASE Crash \/ PowerLoss
  BY <1>2 DEF Crash, PowerLoss, Exit, IdleJob
<1>3. CASE LoopDispatches
  <2>1. PICK hand \in [Due(mem) -> Idle] :
          work' = [v \in Workers |->
                     IF \E t \in Due(mem) : hand[t] = v
                     THEN LET t == CHOOSE t \in Due(mem) : hand[t] = v
                          IN [pc |-> "queued", id |-> t, sched |-> mem.next[t]]
                     ELSE work[v]]
    BY <1>3 DEF LoopDispatches
  <2>2. CASE \E t \in Due(mem) : hand[t] = w
    <3>1. work'[w].pc = "queued"
      BY <2>1, <2>2
    <3> QED
      BY <3>1
  <2>3. CASE ~ \E t \in Due(mem) : hand[t] = w
    BY <2>1, <2>3
  <2> QED
    BY <2>2, <2>3
<1>4. ASSUME NEW v \in Workers, Dispatch(v) PROVE work[w].pc = "claimed"
  <2>1. CASE Execute(v)
    BY <1>0, <2>1 DEF Execute
  <2>2. CASE ReleaseQueued(v) \/ Superseded(v)
    BY <1>0, <2>2 DEF ReleaseQueued, Superseded, IdleJob
  <2>3. CASE Claim(v) \/ Finish(v)
    <3>1. \E pc \in {"claimed", "saving"} : work' = [work EXCEPT ![v].pc = pc]
      BY <2>3 DEF Claim, Finish
    <3> QED
      BY <1>0, <3>1
  <2> QED
    BY <1>4, <2>1, <2>2, <2>3 DEF Dispatch
<1>5. ASSUME UNCHANGED work PROVE FALSE
  BY <1>5
<1>6. CASE Persist \/ Process \/ Caller \/ RunLoop
  BY <1>1, <1>2, <1>3, <1>5, <1>6 DEF Persist, Process, Caller, RunLoop, SaveOk, SaveFails, SaveUnsynced,
     Load, RivalLoads, RivalSaves, Stop, Tick, Add, Cancel, CancelSession, LoopLeaves, LoopGoesOn, LoopRetries,
     LoopDispatchesNothing, LoopSleeps, LoopWakes, LoopTimerFires
<1> QED
  BY <1>4, <1>5, <1>6 DEF Next, vars

\* An occurrence is executed at most once, whatever saves fail and however often the
\* daemon crashes or loses power, also with second daemons that write the file back
\* (Engine.dispatchTask, finish and restore).
THEOREM OccurrenceOnceProved == Spec => OccurrenceOnce
<1>1. ReservationInv /\ OccurrenceInv /\ [Next]_vars
        => [\A w \in Workers :
              work[w].pc # "running" /\ work'[w].pc = "running"
              => <<work[w].id, work[w].sched>> \notin ran]_vars
  BY StartsExecution DEF ReservationInv, OccurrenceInv
<1> QED
  BY InitReservation, StepReservation, InitOccurrence, StepOccurrence, <1>1, PTL
     DEF Spec, OccurrenceOnce

----------------------------------------------------------------------------
(***************************************************************************)
(* What the user was told, and the file.  The properties are not inductive: *)
(* they need to know what the candidate of an open transaction holds of    *)
(* the acknowledged and the cancelled tasks, and that a save leaves either *)
(* the old snapshot or the candidate.  A second daemon that writes the     *)
(* file back breaks them, so they are proved without one.                  *)
(***************************************************************************)

\* A removal whose candidate has not reached the file.
Removing == txn.op \in Removals /\ txn.res \in {"saving", "failed"}

\* The tasks that must not be lost.
Kept == acked \ removed

\* The engine alone writes the file.
AloneInv == MaxRivals = 0 /\ ~ rival.loaded

\* What was told is known of tasks that exist.
ToldInv ==
  /\ acked \cup cancelled \subseteq issued
  /\ txn.op # "none" => txn.arg \subseteq issued

FileInv ==
  /\ disk \in survivors
  /\ \A f \in survivors : Kept \subseteq f.ids /\ cancelled \cap f.ids = {}
  /\ txn.op # "none" /\ txn.res = "ok" => survivors = {Persisted(txn.cand)}

MemoryInv ==
  /\ proc = "up" => Kept \subseteq mem.ids
  /\ cancelled \cap mem.ids = {}

\* What the candidate does to the tasks, until it is committed.
OpenInv ==
  txn.op # "none" =>
    /\ Kept \subseteq txn.cand.ids \cup (IF Removing THEN txn.arg ELSE {})
    /\ cancelled \cap txn.cand.ids = {}
    /\ txn.op \in Removals => txn.arg \cap txn.cand.ids = {} /\ ~ txn.keep
    /\ txn.op = "add" => txn.arg \subseteq txn.cand.ids

\* Which of the two maps the file holds.
CopyInv ==
  /\ txn.op = "none" => txn.res = "saving"
  /\ proc = "up" /\ ~ unsaved /\ txn.res \in {"saving", "failed"} => disk = Persisted(mem)
  /\ txn.op # "none" /\ txn.res \in {"ok", "committed"} => disk = Persisted(txn.cand)

HistoryInv == AloneInv /\ ToldInv /\ FileInv /\ MemoryInv /\ OpenInv /\ CopyInv

LEMMA InitHistory == MaxRivals = 0 /\ Init => HistoryInv
<1> SUFFICES ASSUME MaxRivals = 0, Init PROVE HistoryInv
  OBVIOUS
<1>1. AloneInv
  BY DEF Init, AloneInv, NoRival
<1>2. ToldInv /\ FileInv /\ MemoryInv /\ OpenInv /\ CopyInv
  BY DEF Init, ToldInv, FileInv, MemoryInv, OpenInv, CopyInv, Kept, NoTxn
<1> QED
  BY <1>1, <1>2 DEF HistoryInv

\* Steps that leave the task map, the open transaction and the file alone.
LEMMA QuietHistory ==
  ASSUME HistoryInv, UNCHANGED <<proc, unsaved, files, acked, removed, cancelled, rival, txn>>,
         mem'.ids = mem.ids, mem'.next = mem.next, mem'.runs = mem.runs, issued \subseteq issued'
  PROVE  HistoryInv'
<1> USE DEF HistoryInv
<1>1. Kept' = Kept /\ Removing' = Removing /\ disk' = disk /\ survivors' = survivors
      /\ Persisted(mem)' = Persisted(mem)
  BY DEF Kept, Removing, files, Persisted
<1>2. AloneInv' /\ ToldInv'
  BY DEF AloneInv, ToldInv
<1>3. FileInv' /\ MemoryInv' /\ OpenInv'
  BY <1>1 DEF FileInv, MemoryInv, OpenInv
<1>4. CopyInv'
  BY <1>1 DEF CopyInv
<1> QED
  BY <1>2, <1>3, <1>4

\* A save leaves the candidate in the file, alone or beside what a power loss brings back,
\* or it leaves the file as it was.
LEMMA SaveHistory ==
  ReservationInv /\ HistoryInv /\ (SaveOk \/ SaveFails \/ SaveUnsynced) => HistoryInv'
<1> SUFFICES ASSUME ReservationInv, HistoryInv, SaveOk \/ SaveFails \/ SaveUnsynced
             PROVE  HistoryInv'
  OBVIOUS
<1> USE DEF HistoryInv
<1>0. /\ txn.op # "none" /\ txn.res = "saving" /\ txn \in Transaction
      /\ UNCHANGED <<proc, mem, unsaved, rival, issued, acked, cancelled>>
  BY DEF SaveOk, SaveFails, SaveUnsynced, history, ReservationInv, TypeOK
<1>1. AloneInv'
  BY <1>0 DEF AloneInv
<1>2. CASE SaveFails
  <2>1. /\ txn' = [txn EXCEPT !.res = "failed"] /\ UNCHANGED <<disk, survivors, removed>>
        /\ txn'.op = txn.op /\ txn'.arg = txn.arg /\ txn'.cand = txn.cand /\ txn'.res = "failed"
        /\ txn'.keep = txn.keep
    BY <1>0, <1>2 DEF SaveFails, files, history, Transaction
  <2>2. Kept' = Kept /\ Removing' = Removing
    BY <1>0, <2>1 DEF Kept, Removing
  <2>3. ToldInv' /\ FileInv' /\ MemoryInv' /\ OpenInv'
    BY <1>0, <2>1, <2>2 DEF ToldInv, FileInv, MemoryInv, OpenInv
  <2>4. CopyInv'
    BY <1>0, <2>1 DEF CopyInv
  <2> QED
    BY <1>1, <2>3, <2>4
<1>3. ASSUME NEW res \in {"ok", "committed"}, txn' = [txn EXCEPT !.res = res],
             disk' = Persisted(txn.cand),
             IF res = "ok" THEN survivors' = {Persisted(txn.cand)}
                           ELSE survivors' = survivors \cup {Persisted(txn.cand)},
             removed' = IF txn.op \in Removals THEN removed \cup txn.arg ELSE removed
      PROVE  HistoryInv'
  <2>1. /\ txn'.op = txn.op /\ txn'.arg = txn.arg /\ txn'.cand = txn.cand /\ txn'.res = res
        /\ txn'.keep = txn.keep
    BY <1>0, <1>3 DEF Transaction
  <2>2. Kept' \subseteq Kept /\ Kept' \subseteq txn.cand.ids /\ ~ Removing'
    BY <1>0, <1>3, <2>1 DEF Kept, Removing, OpenInv
  <2>3. Persisted(txn.cand).ids = txn.cand.ids
    BY DEF Persisted
  <2>4. cancelled \cap txn.cand.ids = {}
    BY <1>0 DEF OpenInv
  <2>5. ToldInv' /\ MemoryInv'
    BY <1>0, <2>1, <2>2 DEF ToldInv, MemoryInv
  <2>6. FileInv'
    <3>1. ASSUME NEW f \in survivors' PROVE Kept' \subseteq f.ids /\ cancelled' \cap f.ids = {}
      <4>1. CASE f \in survivors
        BY <1>0, <2>2, <4>1 DEF FileInv
      <4>2. CASE f = Persisted(txn.cand)
        BY <1>0, <2>2, <2>3, <2>4, <4>2
      <4> QED
        BY <1>3, <4>1, <4>2
    <3>2. disk' \in survivors' /\ (res = "ok" => survivors' = {Persisted(txn.cand)})
      BY <1>3
    <3> QED
      BY <2>1, <3>1, <3>2 DEF FileInv
  <2>7. OpenInv'
    BY <1>0, <2>1, <2>2 DEF OpenInv
  <2>8. CopyInv'
    BY <1>0, <1>3, <2>1 DEF CopyInv
  <2> QED
    BY <1>1, <2>5, <2>6, <2>7, <2>8
<1> QED
  BY <1>2, <1>3 DEF SaveOk, SaveUnsynced

\* The candidate becomes memory when the file has it, or when a completion must not be lost.
LEMMA CommitHistory == ReservationInv /\ HistoryInv /\ Commit => HistoryInv'
<1> SUFFICES ASSUME ReservationInv, HistoryInv, Commit PROVE HistoryInv'
  OBVIOUS
<1> USE DEF HistoryInv
<1>0. /\ txn.op # "none" /\ txn.res \in {"ok", "failed", "committed"} /\ txn \in Transaction
      /\ txn' = NoTxn /\ UNCHANGED <<disk, survivors, rival, issued, removed>>
  BY DEF Commit, files, ReservationInv, TypeOK, Transaction
<1>1. mem' = IF Durable \/ txn.keep THEN txn.cand ELSE mem
  BY DEF Commit
<1>2. /\ acked' \subseteq acked \cup txn.arg
      /\ acked' # acked => txn.op = "add" /\ txn.res = "ok"
      /\ cancelled' \subseteq cancelled \cup txn.arg
      /\ cancelled' # cancelled => txn.op \in Removals /\ txn.res = "ok"
      /\ txn.op = "add" /\ txn.res = "ok" => acked' = acked \cup txn.arg
  BY DEF Commit
<1>3. proc' = "up" => /\ txn.op = "load" => txn.res = "ok"
                      /\ txn.op # "load" => proc = "up"
  BY DEF Commit
<1>4. txn'.op = "none" /\ txn'.res = "saving" /\ ~ Removing'
  BY <1>0 DEF NoTxn, Removing, Removals
<1>5. AloneInv'
  BY <1>0 DEF AloneInv
<1>6. ToldInv'
  BY <1>0, <1>2, <1>4 DEF ToldInv
<1>7. /\ cancelled' \cap txn.cand.ids = {}
      /\ Durable => Kept' \subseteq txn.cand.ids
  <2>1. cancelled' \cap txn.cand.ids = {}
    BY <1>0, <1>2 DEF OpenInv
  <2>2. ASSUME Durable PROVE Kept' \subseteq txn.cand.ids
    <3>1. ~ Removing
      BY <2>2 DEF Durable, Removing
    <3>2. Kept \subseteq txn.cand.ids
      BY <1>0, <3>1 DEF OpenInv
    <3> QED
      BY <1>0, <1>2, <3>2 DEF OpenInv, Kept
  <2> QED
    BY <2>1, <2>2
<1>8. FileInv'
  <2>1. ASSUME NEW f \in survivors PROVE Kept' \subseteq f.ids /\ cancelled' \cap f.ids = {}
    <3>1. CASE txn.res = "ok"
      <4>1. f.ids = txn.cand.ids
        BY <1>0, <3>1 DEF FileInv, Persisted
      <4> QED
        BY <1>7, <3>1, <4>1 DEF Durable
    <3>2. CASE txn.res # "ok"
      BY <1>0, <1>2, <3>2 DEF FileInv, Kept
    <3> QED
      BY <3>1, <3>2
  <2> QED
    BY <1>0, <1>4, <2>1 DEF FileInv
<1>9. MemoryInv'
  <2>1. CASE Durable
    BY <1>1, <1>7, <2>1 DEF MemoryInv
  <2>2. CASE ~ Durable
    <3>1. acked' = acked /\ cancelled' = cancelled /\ Kept' = Kept
      BY <1>0, <1>2, <2>2 DEF Durable, Kept
    <3>2. CASE txn.keep
      BY <1>0, <1>1, <1>7, <3>1, <3>2 DEF MemoryInv, OpenInv, Removing
    <3>3. CASE ~ txn.keep
      <4>1. mem' = mem /\ (proc' = "up" => proc = "up")
        BY <1>1, <1>3, <2>2, <3>3 DEF Durable
      <4> QED
        BY <3>1, <4>1 DEF MemoryInv
    <3> QED
      BY <3>2, <3>3
  <2> QED
    BY <2>1, <2>2
<1>10. OpenInv'
  BY <1>4 DEF OpenInv
<1>11. CopyInv'
  <2> SUFFICES ASSUME proc' = "up", ~ unsaved' PROVE disk = Persisted(mem')
    BY <1>0, <1>4 DEF CopyInv
  <2>1. unsaved' = (~ Durable /\ (txn.keep \/ unsaved))
    BY DEF Commit
  <2>2. CASE Durable
    BY <1>0, <1>1, <2>2 DEF CopyInv, Durable
  <2>3. CASE ~ Durable
    <3>1. ~ txn.keep /\ ~ unsaved /\ txn.res = "failed"
      BY <1>0, <2>1, <2>3 DEF Durable
    <3>2. mem' = mem /\ proc = "up"
      BY <1>1, <1>3, <2>3, <3>1
    <3> QED
      BY <3>1, <3>2 DEF CopyInv
  <2> QED
    BY <2>2, <2>3
<1> QED
  BY <1>5, <1>6, <1>8, <1>9, <1>10, <1>11

\* An operation opens its transaction.
LEMMA BeginHistory ==
  ASSUME HistoryInv, proc = "up", Free, NEW op \in {"add", "cancel", "session", "finish", "retry"},
         NEW arg, NEW cand, NEW keep, Begin(op, arg, cand, keep),
         UNCHANGED <<proc, mem, unsaved, files, acked, removed, cancelled, rival>>,
         issued \subseteq issued', arg \subseteq issued',
         mem.ids \subseteq cand.ids \cup (IF op \in Removals THEN arg ELSE {}),
         cancelled \cap cand.ids = {},
         op \in Removals => arg \cap cand.ids = {} /\ ~ keep,
         op = "add" => arg \subseteq cand.ids
  PROVE  HistoryInv'
<1> USE DEF HistoryInv
<1>1. /\ txn'.op = op /\ txn'.arg = arg /\ txn'.cand = cand /\ txn'.keep = keep
      /\ txn'.res = "saving" /\ op # "none"
  BY DEF Begin
<1>2. Kept' = Kept /\ disk' = disk /\ survivors' = survivors /\ Kept \subseteq mem.ids
      /\ (Removing' <=> op \in Removals)
  BY <1>1 DEF Kept, files, MemoryInv, Removing
<1>3. AloneInv' /\ ToldInv'
  BY <1>1 DEF AloneInv, ToldInv
<1>4. FileInv' /\ MemoryInv'
  BY <1>1, <1>2 DEF FileInv, MemoryInv
<1>5. OpenInv'
  BY <1>1, <1>2 DEF OpenInv
<1>6. CopyInv'
  BY <1>1, <1>2 DEF CopyInv, Free
<1> QED
  BY <1>3, <1>4, <1>5, <1>6

LEMMA ProcessHistory == ReservationInv /\ HistoryInv /\ Process => HistoryInv'
<1> SUFFICES ASSUME ReservationInv, HistoryInv, Process PROVE HistoryInv'
  OBVIOUS
<1> USE DEF HistoryInv
<1>0. rivals \in Nat /\ MaxRivals = 0 /\ ~ rival.loaded
  BY DEF ReservationInv, TypeOK, AloneInv
<1>1. CASE Load
  <2>1. /\ txn'.op = "load" /\ txn'.arg = {} /\ txn'.cand = Restored(disk)
        /\ txn'.keep = FALSE /\ txn'.res = "saving"
        /\ mem' = EmptyMemory /\ proc' = "loading"
        /\ UNCHANGED <<disk, survivors, rival, issued, acked, removed, cancelled>>
    BY <1>1 DEF Load, Begin, files, history
  <2>2. Kept' = Kept /\ ~ Removing' /\ Restored(disk).ids = disk.ids
        /\ Kept \subseteq disk.ids /\ cancelled \cap disk.ids = {}
    BY <2>1 DEF Kept, Removing, Removals, Restored, FileInv
  <2>3. AloneInv' /\ ToldInv' /\ FileInv'
    BY <2>1, <2>2 DEF AloneInv, ToldInv, FileInv
  <2>4. MemoryInv' /\ CopyInv'
    BY <2>1, <2>2 DEF MemoryInv, CopyInv, EmptyMemory
  <2>5. OpenInv'
    BY <2>1, <2>2 DEF OpenInv, Removals
  <2> QED
    BY <2>3, <2>4, <2>5
<1>2. ASSUME NEW f \in survivors, Exit(f), f \in survivors', survivors' \subseteq survivors
      PROVE  HistoryInv'
  <2>1. /\ txn'.op = "none" /\ txn'.res = "saving" /\ mem' = EmptyMemory /\ proc' = "down"
        /\ disk' = f /\ ~ rival'.loaded
        /\ UNCHANGED <<issued, acked, removed, cancelled>>
    BY <1>2 DEF Exit, history, NoTxn, NoRival
  <2>2. AloneInv' /\ ToldInv' /\ OpenInv' /\ CopyInv'
    BY <2>1 DEF AloneInv, ToldInv, OpenInv, CopyInv
  <2>3. FileInv' /\ MemoryInv'
    BY <1>2, <2>1 DEF FileInv, MemoryInv, Kept, EmptyMemory
  <2> QED
    BY <2>2, <2>3
<1>3. CASE Crash
  BY <1>2, <1>3 DEF Crash, FileInv
<1>4. CASE PowerLoss
  BY <1>2, <1>4 DEF PowerLoss
<1>5. CASE RivalLoads
  BY <1>0, <1>5 DEF RivalLoads
<1>6. CASE RivalSaves
  BY <1>0, <1>6 DEF RivalSaves
<1>7. CASE Stop
  BY <1>7, QuietHistory DEF Stop, engine, history
<1>8. CASE Tick
  BY <1>8, QuietHistory DEF Tick, engine, history
<1> QED
  BY <1>1, <1>3, <1>4, <1>5, <1>6, <1>7, <1>8 DEF Process

LEMMA CallerHistory == ReservationInv /\ HistoryInv /\ Caller => HistoryInv'
<1> SUFFICES ASSUME ReservationInv, HistoryInv, Caller PROVE HistoryInv'
  OBVIOUS
<1>0. cancelled \cap mem.ids = {} /\ cancelled \subseteq issued /\ mem.ids \subseteq issued
  BY DEF HistoryInv, MemoryInv, ToldInv, ReservationInv, IssuedInv
<1>1. ASSUME NEW t \in Tasks, Add(t) PROVE HistoryInv'
  <2>1. With(mem, t).ids = mem.ids \cup {t} /\ t \notin cancelled
    BY <1>0, <1>1 DEF Add, With
  <2>2. /\ proc = "up" /\ Free /\ Begin("add", {t}, With(mem, t), FALSE)
        /\ UNCHANGED <<proc, mem, unsaved, files, acked, removed, cancelled, rival>>
        /\ issued \subseteq issued' /\ {t} \subseteq issued'
    BY <1>1 DEF Add
  <2>3. cancelled \cap With(mem, t).ids = {} /\ "add" \notin Removals
    BY <1>0, <2>1 DEF Removals
  <2> QED
    BY <2>1, <2>2, <2>3, BeginHistory
<1>2. ASSUME NEW T, NEW op \in Removals, proc = "up", Free,
             Begin(op, T \cap mem.ids, Without(mem, T), FALSE),
             UNCHANGED <<proc, mem, unsaved, files, history, rival>>
      PROVE  HistoryInv'
  <2>1. Without(mem, T).ids = mem.ids \ T
    BY DEF Without
  <2>2. /\ UNCHANGED <<proc, mem, unsaved, files, acked, removed, cancelled, rival>>
        /\ issued' = issued /\ T \cap mem.ids \subseteq issued'
    BY <1>0, <1>2 DEF history
  <2>3. /\ mem.ids \subseteq Without(mem, T).ids \cup (T \cap mem.ids)
        /\ cancelled \cap Without(mem, T).ids = {}
        /\ (T \cap mem.ids) \cap Without(mem, T).ids = {}
        /\ op \in {"cancel", "session"} /\ op # "add"
    BY <1>0, <1>2, <2>1 DEF Removals
  <2> QED
    BY <1>2, <2>2, <2>3, BeginHistory
<1>3. ASSUME NEW t \in Tasks, Cancel(t) PROVE HistoryInv'
  BY <1>2, <1>3 DEF Cancel, Removals
<1>4. ASSUME NEW s \in Sessions, CancelSession(s) PROVE HistoryInv'
  <2>1. OwnedBy(s) \cap mem.ids = OwnedBy(s)
    BY DEF OwnedBy
  <2> QED
    BY <1>2, <1>4, <2>1 DEF CancelSession, Removals
<1> QED
  BY <1>1, <1>3, <1>4 DEF Caller

LEMMA RunLoopHistory == ReservationInv /\ HistoryInv /\ RunLoop => HistoryInv'
<1> SUFFICES ASSUME ReservationInv, HistoryInv, RunLoop PROVE HistoryInv'
  OBVIOUS
<1>1. CASE LoopLeaves
  BY <1>1, QuietHistory DEF LoopLeaves, engine, history
<1>2. CASE LoopRetries
  <2>1. CASE unsaved
    <3>1. proc = "up" /\ cancelled \cap mem.ids = {}
      BY <1>2 DEF LoopRetries, ReservationInv, ProcessInv, HistoryInv, MemoryInv
    <3> QED
      BY <1>2, <2>1, <3>1, BeginHistory DEF LoopRetries, Removals, history
  <2>2. CASE ~ unsaved
    BY <1>2, <2>2, QuietHistory DEF LoopRetries, history
  <2> QED
    BY <2>1, <2>2
<1>3. CASE LoopDispatches
  <2>1. mem \in Memory /\ mem' = [mem EXCEPT !.queued = @ \cup Due(mem)]
    BY <1>3 DEF LoopDispatches, ReservationInv, TypeOK
  <2>2. mem'.ids = mem.ids /\ mem'.next = mem.next /\ mem'.runs = mem.runs
    BY <2>1 DEF Memory
  <2> QED
    BY <1>3, <2>2, QuietHistory DEF LoopDispatches, history
<1>4. CASE LoopDispatchesNothing \/ LoopGoesOn
  BY <1>4, QuietHistory DEF LoopDispatchesNothing, LoopGoesOn, engine, history
<1>5. CASE LoopSleeps
  BY <1>5, QuietHistory DEF LoopSleeps, engine, history
<1>6. CASE LoopWakes
  BY <1>6, QuietHistory DEF LoopWakes, history
<1>7. CASE LoopTimerFires
  BY <1>7, QuietHistory DEF LoopTimerFires, engine, history
<1> QED
  BY <1>1, <1>2, <1>3, <1>4, <1>5, <1>6, <1>7 DEF RunLoop

LEMMA DispatchHistory ==
  ASSUME NEW w \in Workers PROVE ReservationInv /\ HistoryInv /\ Dispatch(w) => HistoryInv'
<1> SUFFICES ASSUME ReservationInv, HistoryInv, Dispatch(w) PROVE HistoryInv'
  OBVIOUS
<1>0. mem \in Memory
  BY DEF ReservationInv, TypeOK
<1>1. CASE ReleaseQueued(w)
  <2>1. mem'.ids = mem.ids /\ mem'.next = mem.next /\ mem'.runs = mem.runs
    BY <1>0, <1>1 DEF ReleaseQueued, Memory
  <2> QED
    BY <1>1, <2>1, QuietHistory DEF ReleaseQueued, history
<1>2. CASE Claim(w)
  <2>1. mem'.ids = mem.ids /\ mem'.next = mem.next /\ mem'.runs = mem.runs
    BY <1>0, <1>2 DEF Claim, Memory
  <2> QED
    BY <1>2, <2>1, QuietHistory DEF Claim, history
<1>3. CASE Superseded(w)
  BY <1>3, QuietHistory DEF Superseded, engine, history
<1>4. CASE Execute(w)
  BY <1>4, QuietHistory DEF Execute, engine
<1>5. CASE Finish(w)
  <2>1. proc = "up" /\ cancelled \cap mem.ids = {}
    BY <1>5 DEF Finish, ReservationInv, ProcessInv, HistoryInv, MemoryInv, IdleJob
  <2>2. AfterRun(w).ids = mem.ids
    BY DEF AfterRun, Completed
  <2> QED
    BY <1>5, <2>1, <2>2, BeginHistory DEF Finish, Removals, history
<1> QED
  BY <1>1, <1>2, <1>3, <1>4, <1>5 DEF Dispatch

LEMMA StepHistory == ReservationInv /\ HistoryInv /\ [Next]_vars => HistoryInv'
<1> SUFFICES ASSUME ReservationInv, HistoryInv, [Next]_vars PROVE HistoryInv'
  OBVIOUS
<1>1. CASE Persist
  BY <1>1, SaveHistory, CommitHistory DEF Persist
<1>2. CASE UNCHANGED vars
  BY <1>2, QuietHistory DEF vars, engine, history
<1> QED
  BY <1>1, <1>2, ProcessHistory, CallerHistory, RunLoopHistory, DispatchHistory DEF Next

\* The properties, in the invariant.
LEMMA HistoryImplies == HistoryInv => DiskMatchesMemory /\ TasksSurvive
<1> SUFFICES ASSUME HistoryInv PROVE DiskMatchesMemory /\ TasksSurvive
  OBVIOUS
<1>1. DiskMatchesMemory
  BY DEF HistoryInv, CopyInv, DiskMatchesMemory, Free
<1>2. TasksSurvive
  BY DEF HistoryInv, FileInv, MemoryInv, Kept, TasksSurvive, AcknowledgedSurvives,
         CancelledStaysGone
<1> QED
  BY <1>1, <1>2

\* As long as no second daemon writes the file, it holds what memory holds whenever no
\* transaction is open and no completion is still to be saved (Engine.update and
\* persistSnapshot).
THEOREM DiskSafe == MaxRivals = 0 /\ Spec => []DiskMatchesMemory
  BY InitReservation, StepReservation, InitHistory, StepHistory, HistoryImplies, PTL DEF Spec

\* As long as no second daemon writes the file, an acknowledged task is in every file that
\* a crash or a power loss can leave, and a cancelled one in none of them and not in memory
\* (Engine.Add, Cancel, CancelSession and finish).
THEOREM TasksSafe == MaxRivals = 0 /\ Spec => []TasksSurvive
  BY InitReservation, StepReservation, InitHistory, StepHistory, HistoryImplies, PTL DEF Spec
=============================================================================
