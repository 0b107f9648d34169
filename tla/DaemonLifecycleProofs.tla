----------------------- MODULE DaemonLifecycleProofs -----------------------
(***************************************************************************)
(* Proofs about DaemonLifecycle, for any connections, sessions and         *)
(* transcripts, any number of them at once, and any length of the control  *)
(* queue.                                                                  *)
(***************************************************************************)
EXTENDS DaemonLifecycle, SequenceTheorems, TLAPS

----------------------------------------------------------------------------
(***************************************************************************)
(* Types.                                                                  *)
(***************************************************************************)

Notes == {Taken(s) : s \in Sessions} \cup {Closed(s) : s \in Sessions}
Conns == {"away", "up", "closing", "gone"}

LEMMA NotesAreAbout ==
  ASSUME NEW s \in Sessions
  PROVE  /\ Taken(s) \in Notes /\ Taken(s).on = s
         /\ Closed(s) \in Notes /\ Closed(s).on = s
  BY DEF Notes, Taken, Closed

\* A notification that has no room ends the connection instead of being dropped.
LEMMA EnqueuedEffect ==
  ASSUME TypeOK, NEW cs, NEW note \in Notes, Enqueued(cs, note)
  PROVE  /\ conn' \in [Clients -> Conns] /\ notes' \in [Clients -> Seq(Notes)]
         /\ \A c \in Clients : Len(notes'[c]) <= ControlCap
         /\ \A c \in Clients : conn'[c] = conn[c] \/ (conn[c] = "up" /\ conn'[c] = "closing")
         /\ \A c \in Clients : conn'[c] = "up" =>
              notes'[c] = IF c \in cs THEN Append(notes[c], note) ELSE notes[c]
<1>0. /\ conn \in [Clients -> Conns] /\ notes \in [Clients -> Seq(Notes)]
      /\ \A c \in Clients : Len(notes[c]) <= ControlCap
      /\ ControlCap \in Nat
  BY ControlCapAssumption DEF TypeOK, Conns, Notes
<1>1. ASSUME NEW c \in Clients
      PROVE  /\ notes'[c] \in Seq(Notes) /\ Len(notes'[c]) <= ControlCap
             /\ conn'[c] = "up" => notes'[c] = IF c \in cs THEN Append(notes[c], note) ELSE notes[c]
  <2>1. CASE c \in cs /\ conn[c] = "up" /\ Len(notes[c]) < ControlCap
    <3>1. notes'[c] = Append(notes[c], note)
      BY <2>1 DEF Enqueued
    <3>2. Append(notes[c], note) \in Seq(Notes) /\ Len(Append(notes[c], note)) = Len(notes[c]) + 1
      BY <1>0, AppendProperties
    <3>3. Len(notes[c]) \in Nat
      BY <1>0, LenProperties
    <3> QED
      BY <1>0, <2>1, <3>1, <3>2, <3>3
  <2>2. CASE ~ (c \in cs /\ conn[c] = "up" /\ Len(notes[c]) < ControlCap)
    <3>1. notes'[c] = notes[c]
      BY <2>2 DEF Enqueued
    <3>2. conn'[c] = "up" /\ c \in cs => FALSE
      <4>1. Len(notes[c]) \in Nat
        BY <1>0, LenProperties
      <4>2. conn'[c] = "up" => conn[c] = "up" /\ ~ (c \in cs /\ Len(notes[c]) >= ControlCap)
        BY DEF Enqueued
      <4> QED
        BY <1>0, <2>2, <4>1, <4>2
    <3> QED
      BY <1>0, <3>1, <3>2
  <2> QED
    BY <2>1, <2>2
<1>2. notes' \in [Clients -> Seq(Notes)]
  BY <1>1 DEF Enqueued
<1>3. /\ conn' \in [Clients -> Conns]
      /\ \A c \in Clients : conn'[c] = conn[c] \/ (conn[c] = "up" /\ conn'[c] = "closing")
  BY <1>0 DEF Enqueued, Conns
<1> QED
  BY <1>1, <1>2, <1>3

LEMMA TakeControlType ==
  ASSUME TypeOK, NEW c \in Clients, NEW s \in Sessions, NEW ss \in [Clients -> SUBSET Sessions],
         TakeControl(c, s, ss)
  PROVE  /\ controller' \in [Sessions -> Clients \cup {None}]
         /\ subs' \in [Clients -> SUBSET Sessions]
         /\ conn' \in [Clients -> Conns] /\ notes' \in [Clients -> Seq(Notes)]
         /\ \A d \in Clients : Len(notes'[d]) <= ControlCap
         /\ attach' \in [Sessions -> {"attached", "detached"}]
<1>1. Enqueued({controller[s]} \ {c, None}, Taken(s))
  BY DEF TakeControl
<1>2. attach' \in [Sessions -> {"attached", "detached"}]
  BY DEF TakeControl, SetAttach, TypeOK
<1>3. controller' \in [Sessions -> Clients \cup {None}] /\ subs' \in [Clients -> SUBSET Sessions]
  BY DEF TakeControl, TypeOK
<1> QED
  BY <1>1, <1>2, <1>3, EnqueuedEffect, NotesAreAbout

LEMMA NotifyClosedType ==
  ASSUME TypeOK, NEW s \in Sessions, NotifyClosed(s)
  PROVE  /\ subs' \in [Clients -> SUBSET Sessions] /\ mine' = mine
         /\ conn' \in [Clients -> Conns] /\ notes' \in [Clients -> Seq(Notes)]
         /\ \A d \in Clients : Len(notes'[d]) <= ControlCap
<1>1. Enqueued({c \in Up : s \in subs[c]}, Closed(s))
  BY DEF NotifyClosed
<1>2. subs' \in [Clients -> SUBSET Sessions] /\ mine' = mine
  BY DEF NotifyClosed, TypeOK
<1> QED
  BY <1>1, <1>2, EnqueuedEffect, NotesAreAbout

LEMMA InitType == Init => TypeOK
<1> SUFFICES ASSUME Init PROVE TypeOK
  OBVIOUS
<1>1. ControlCap \in Nat /\ <<>> \in Seq(Notes) /\ Len(<<>>) = 0
  BY ControlCapAssumption, EmptySeq
<1>2. \A c \in Clients : Len(notes[c]) <= ControlCap
  BY <1>1 DEF Init
<1> QED
  BY <1>1, <1>2 DEF Init, TypeOK, Idle, Ops, Notes

\* Requests and events that do not take opMu.
LEMMA ClientType ==
  ASSUME TypeOK, NEW c \in Clients,
         Connect(c) \/ Disconnect(c) \/ Receive(c) \/ ClientGone(c) \/ PortCall(c)
         \/ \E s \in Sessions : PortCheck(c, s)
  PROVE  TypeOK'
<1> USE DEF TypeOK, handleVars, fileVars, clientVars
<1>1. CASE Connect(c)
  BY <1>1 DEF Connect
<1>2. CASE Disconnect(c)
  <2>1. notes \in [Clients -> Seq(Notes)] /\ <<>> \in Seq(Notes) /\ Len(<<>>) = 0
        /\ ControlCap \in Nat
    BY EmptySeq, ControlCapAssumption DEF Notes
  <2>2. notes' = [notes EXCEPT ![c] = <<>>]
    BY <1>2 DEF Disconnect
  <2>3. notes' \in [Clients -> Seq(Notes)]
    BY <2>1, <2>2
  <2>4. \A d \in Clients : Len(notes'[d]) <= ControlCap
    BY <2>1, <2>2
  <2> QED
    BY <1>2, <2>3, <2>4 DEF Disconnect, Notes
<1>3. CASE Receive(c)
  <2>0. notes[c] \in Seq(Notes) /\ notes[c] # <<>> /\ Len(notes[c]) <= ControlCap /\ ControlCap \in Nat
    BY <1>3, ControlCapAssumption DEF Receive, Notes
  <2>1. Tail(notes[c]) \in Seq(Notes) /\ Len(Tail(notes[c])) = Len(notes[c]) - 1 /\ Len(notes[c]) \in Nat
    BY <2>0, HeadTailProperties, LenProperties
  <2>2. Len(Tail(notes[c])) <= ControlCap
    BY <2>0, <2>1
  <2>3. notes' = [notes EXCEPT ![c] = Tail(notes[c])]
    BY <1>3 DEF Receive
  <2>4. \A d \in Clients : notes'[d] \in Seq(Notes) /\ Len(notes'[d]) <= ControlCap
    BY <2>1, <2>2, <2>3 DEF Notes
  <2>5. notes' \in [Clients -> Seq(Notes)]
    BY <2>3, <2>4
  <2> QED
    BY <1>3, <2>4, <2>5 DEF Receive, Notes
<1>4. CASE ClientGone(c)
  <2>1. /\ controller' \in [Sessions -> Clients \cup {None}]
        /\ attach' \in [Sessions -> {"attached", "detached"}]
    <3>1. CASE Stopping
      BY <1>4, <3>1 DEF ClientGone
    <3>2. CASE ~ Stopping
      BY <1>4, <3>2 DEF ClientGone
    <3> QED
      BY <3>1, <3>2
  <2> QED
    BY <1>4, <2>1 DEF ClientGone
<1>5. CASE PortCall(c)
  BY <1>5 DEF PortCall
<1>6. ASSUME NEW s \in Sessions, PortCheck(c, s) PROVE TypeOK'
  BY <1>6 DEF PortCheck
<1> QED
  BY <1>1, <1>2, <1>3, <1>4, <1>5, <1>6

LEMMA SessionType ==
  ASSUME TypeOK, NEW s \in Sessions,
         TurnStarts(s) \/ TurnEnds(s) \/ SelfClose(s) \/ Finishes(s) \/ CollectPicks(s) \/ Forget(s)
  PROVE  TypeOK'
<1> USE DEF TypeOK, handleVars, fileVars, clientVars
<1>1. CASE TurnStarts(s)
  BY <1>1 DEF TurnStarts
<1>2. CASE TurnEnds(s)
  BY <1>2 DEF TurnEnds
<1>3. CASE SelfClose(s)
  BY <1>3 DEF SelfClose, RequestClose
<1>4. CASE Finishes(s)
  BY <1>4 DEF Finishes
<1>5. CASE CollectPicks(s)
  BY <1>5 DEF CollectPicks, Op, Ops
<1>6. CASE Forget(s)
  <2>1. owner' \in [Files -> Sessions \cup {None}]
    BY <1>6 DEF Forget, Unlocked
  <2> QED
    BY <1>6, <2>1, NotifyClosedType DEF Forget, Notes, Conns
<1> QED
  BY <1>1, <1>2, <1>3, <1>4, <1>5, <1>6

LEMMA RequestType ==
  ASSUME TypeOK, NEW c \in Clients, NEW s \in Sessions,
         \/ \E f \in Files \cup {None} : CreateBegin(c, s, f)
         \/ \E controlling \in BOOLEAN : AttachBegin(c, s, controlling)
         \/ AttachRefused(c, s) \/ Detach(c, s) \/ CloseBegin(c, s)
         \/ \E n \in Sessions : ClearBegin(c, s, n)
  PROVE  TypeOK'
<1> USE DEF TypeOK, handleVars, fileVars, clientVars
<1>1. ASSUME NEW f \in Files \cup {None}, CreateBegin(c, s, f) PROVE TypeOK'
  <2>1. owner' \in [Files -> Sessions \cup {None}]
    BY <1>1 DEF CreateBegin
  <2> QED
    BY <1>1, <2>1 DEF CreateBegin, Op, Ops
<1>2. ASSUME NEW b \in BOOLEAN, AttachBegin(c, s, b) PROVE TypeOK'
  BY <1>2 DEF AttachBegin, Op, Ops, Idle
<1>3. CASE AttachRefused(c, s)
  BY <1>3 DEF AttachRefused
<1>4. CASE Detach(c, s)
  <2>1. /\ controller' \in [Sessions -> Clients \cup {None}]
        /\ attach' \in [Sessions -> {"attached", "detached"}]
    BY <1>4 DEF Detach, SetAttach
  <2> QED
    BY <1>4, <2>1 DEF Detach
<1>5. CASE CloseBegin(c, s)
  BY <1>5 DEF CloseBegin, CloseLocked, RequestClose, Op, Ops
<1>6. ASSUME NEW n \in Sessions, ClearBegin(c, s, n) PROVE TypeOK'
  BY <1>6 DEF ClearBegin, Op, Ops
<1> QED
  BY <1>1, <1>2, <1>3, <1>4, <1>5, <1>6

LEMMA UnlockedType ==
  ASSUME TypeOK, NEW s \in Sessions PROVE Unlocked(s) \in [Files -> Sessions \cup {None}]
  BY DEF TypeOK, Unlocked

\* The session of an operation, where it has one.
LEMMA ProceedType ==
  ASSUME TypeOK, Proceed, op.kind # "sweep" => op.on \in Sessions,
         op.kind \in {"attach", "move"} => op.by \in Clients,
         op.kind = "clear" => op.next \in Sessions
  PROVE  TypeOK'
<1> USE DEF TypeOK, handleVars, fileVars, clientVars
<1>1. CASE Created
  <2>1. op.on \in Sessions
    BY <1>1 DEF Created
  <2>2. PICK f \in Files : Register(op.on, f)
    BY <1>1 DEF Created
  <2>3. owner' \in [Files -> Sessions \cup {None}]
    BY <2>1, <2>2, UnlockedType DEF Register
  <2> QED
    BY <1>1, <2>1, <2>2, <2>3 DEF Created, Register, Idle, Ops
<1>2. CASE CreateFails
  BY <1>2, UnlockedType DEF CreateFails, Idle, Ops
<1>3. CASE LockFails
  <2>1. op.on \in Sessions
    BY <1>3 DEF LockFails
  <2>2. file' \in [Sessions -> Files \cup {None}]
    BY <1>3, <2>1 DEF LockFails
  <2> QED
    BY <1>3, <2>1, <2>2, UnlockedType DEF LockFails, Idle, Ops
<1>4. CASE AttachTakes
  <2>1. op.by \in Clients /\ op.on \in Sessions
    BY <1>4 DEF AttachTakes
  <2>2. TakeControl(op.by, op.on, subs) /\ op' \in Ops
    BY <1>4 DEF AttachTakes, Idle, Ops
  <2>3. mine' \in [Clients -> SUBSET Sessions]
    BY <1>4, <2>1 DEF AttachTakes
  <2> QED
    BY <1>4, <2>1, <2>2, <2>3, TakeControlType DEF AttachTakes, Notes, Conns
<1>5. CASE ClearFails
  BY <1>5 DEF ClearFails, Idle, Ops
<1>6. CASE ClearCreated
  <2>1. op.on \in Sessions /\ op.next \in Sessions
    BY <1>6 DEF ClearCreated
  <2>2. PICK f \in Files : Register(op.next, f)
    BY <1>6 DEF ClearCreated
  <2>3. op' \in Ops
    BY <1>6, <2>1 DEF ClearCreated, Op, Ops
  <2>4. owner' \in [Files -> Sessions \cup {None}]
    BY <2>1, <2>2, UnlockedType DEF Register
  <2> QED
    BY <1>6, <2>1, <2>2, <2>3, <2>4 DEF ClearCreated, Register
<1>7. CASE ClearMoves
  <2>1. op.by \in Clients /\ op.on \in Sessions
    BY <1>7 DEF ClearMoves
  <2>2. PICK ss \in [Clients -> SUBSET Sessions] : TakeControl(op.by, op.on, ss)
    <3>1. /\ [subs EXCEPT ![op.by] = @ \cup {op.on}] \in [Clients -> SUBSET Sessions]
          /\ [subs EXCEPT ![op.by] = @ \ {op.on}] \in [Clients -> SUBSET Sessions]
      BY <2>1
    <3> QED
      BY <1>7, <3>1 DEF ClearMoves
  <2> QED
    BY <1>7, <2>1, <2>2, TakeControlType DEF ClearMoves, Idle, Ops, Notes, Conns
<1>8. CASE CollectCloses
  BY <1>8 DEF CollectCloses, CloseLocked, RequestClose, Op, Ops
<1>9. CASE CloseEnd
  <2>1. op.on \in Sessions /\ NotifyClosed(op.on) /\ owner' = Unlocked(op.on)
    BY <1>9 DEF CloseEnd
  <2>2. op' \in Ops
    BY <1>9 DEF CloseEnd, Op, Idle, Ops
  <2> QED
    BY <1>9, <2>1, <2>2, UnlockedType, NotifyClosedType DEF CloseEnd, Notes, Conns
<1>10. CASE SweepEnd
  BY <1>10 DEF SweepEnd, Idle, Ops
<1>11. ASSUME NEW s \in Sessions, SweepUnlocks(s) PROVE TypeOK'
  BY <1>11, UnlockedType DEF SweepUnlocks
<1> QED
  BY <1>1, <1>2, <1>3, <1>4, <1>5, <1>6, <1>7, <1>8, <1>9, <1>10, <1>11 DEF Proceed

LEMMA ShutdownType == ASSUME TypeOK, Stop \/ StopAccepting \/ SweepBegin \/ Exit PROVE TypeOK'
<1> USE DEF TypeOK, handleVars, fileVars, clientVars
<1>1. CASE Stop
  BY <1>1 DEF Stop
<1>2. CASE StopAccepting
  BY <1>2 DEF StopAccepting
<1>3. CASE SweepBegin
  BY <1>3 DEF SweepBegin, Op, Ops
<1>4. CASE Exit
  BY <1>4 DEF Exit
<1> QED
  BY <1>1, <1>2, <1>3, <1>4

----------------------------------------------------------------------------
(***************************************************************************)
(* The invariant.  The properties speak of the moments when opMu is free;   *)
(* to carry them over an operation the invariant says what each operation   *)
(* knows while it holds opMu (OperationOK), how far a session has got and   *)
(* where it is registered meanwhile (LifeOK), which session each lock is    *)
(* for (LockOK), and what the daemon, the session and the clients hold of   *)
(* who controls whom (ControlOK, ClientOK).                                *)
(***************************************************************************)

\* The sweep is over.
Swept == phase \in {"swept", "exited"}

Tells(q, s) == \E i \in DOMAIN q : q[i].on = s

\* The client whose control moves to the successor of a cleared session is not gone.
Follows(c) == c \in Clients /\ (Stopping \/ conn[c] # "gone")

OperationOK ==
  /\ op.kind = "idle" => op = Idle
  /\ op.kind = "create" => op.on \in Sessions \ reg /\ life[op.on] = "opening"
  /\ op.kind = "attach" => /\ op.by \in Clients /\ op.on \in reg
                           /\ conn[op.by] \in {"up", "closing"}
                           /\ conn[op.by] = "up" => op.on \in subs[op.by]
  /\ op.kind = "clear" => op.on \in reg /\ op.next \in Sessions /\ life[op.next] = "opening"
  /\ op.kind = "collect" => op.on \in reg
  /\ op.kind = "close" => /\ op.on \in Sessions \ reg
                          /\ life[op.on] \in {"closing", "done"} /\ file[op.on] \in Files
  /\ op.kind = "close" /\ op.next # None =>
       op.next \in reg /\ controller[op.next] = None /\ Follows(op.by)
  /\ op.kind = "move" => op.on \in reg /\ controller[op.on] = None /\ Follows(op.by)
  /\ op.kind = "sweep" => phase = "stopping"
  /\ Swept => op.kind \in {"idle", "close"} /\ op.next = None

LifeOK ==
  \A s \in Sessions :
    /\ life[s] \in {"unborn", "opening"} => s \notin reg /\ attach[s] = "detached"
    /\ life[s] = "unborn" => file[s] = None
    /\ life[s] = "opening" => \/ op.kind = "create" /\ s = op.on
                              \/ op.kind = "clear" /\ s = op.next /\ file[s] = None
    /\ life[s] = "live" => s \in reg
    /\ s \in reg => file[s] \in Files

LockOK ==
  /\ \A f \in Files : owner[f] # None =>
       /\ file[owner[f]] = f
       /\ \/ owner[f] \in reg
          \/ op.kind \in {"create", "close"} /\ op.on = owner[f]
  /\ Swept => \A f \in Files : owner[f] = None
  /\ ~ Swept /\ op.kind # "sweep" => \A s \in reg : owner[file[s]] = s
  /\ ~ Swept /\ op.kind = "close" => owner[file[op.on]] = op.on
  /\ op.kind = "create" /\ file[op.on] # None => owner[file[op.on]] = op.on

ControlOK ==
  \A s \in Sessions :
    /\ controller[s] # None => s \in reg /\ (Stopping \/ conn[controller[s]] # "gone")
    /\ life[s] = "live" => (attach[s] = "attached" <=> controller[s] # None)
    /\ op.kind = "sweep" \/ Swept => controller[s] = None /\ life[s] # "live"

\* A session that is being closed is forgotten already, its subscribers are told at the end.
Closes(s) == op.kind = "close" /\ op.on = s

ClientOK ==
  \A c \in Clients :
    /\ conn[c] = "away" => subs[c] = {} /\ mine[c] = {}
    /\ conn[c] = "up" =>
         /\ \A s \in subs[c] : s \in reg \/ Closes(s)
         /\ \A s \in mine[c] : \/ Tells(notes[c], s)
                               \/ s \in subs[c] /\ (controller[s] = c \/ Closes(s))

ExitOK == phase = "exited" => Up = {}

DaemonInv == TypeOK /\ OperationOK /\ LifeOK /\ LockOK /\ ControlOK /\ ClientOK /\ ExitOK

LEMMA OperationTyped ==
  ASSUME TypeOK, OperationOK
  PROVE  /\ op.kind \notin {"idle", "sweep"} => op.on \in Sessions
         /\ op.kind \in {"attach", "move"} => op.by \in Clients
         /\ op.kind = "clear" => op.next \in Sessions
  BY DEF TypeOK, OperationOK, Follows, Ops

LEMMA TypeStep == ASSUME TypeOK, OperationOK, Next \/ UNCHANGED vars PROVE TypeOK'
<1>1. op.kind # "idle" /\ op.kind # "sweep" => op.on \in Sessions
  BY OperationTyped
<1>2. ASSUME Proceed PROVE TypeOK'
  <2>1. op.kind # "idle"
    BY <1>2 DEF Proceed, Created, CreateFails, LockFails, AttachTakes, ClearFails, ClearCreated,
                ClearMoves, CollectCloses, CloseEnd, SweepEnd, SweepUnlocks
  <2> QED
    BY <1>1, <1>2, <2>1, OperationTyped, ProceedType
<1>3. CASE UNCHANGED vars
  BY <1>3 DEF TypeOK, vars
<1>4. ASSUME NEW c \in Clients, Requests(c) PROVE TypeOK'
  BY <1>4, ClientType, RequestType DEF Requests
<1>5. CASE Next
  BY <1>2, <1>4, <1>5, ClientType, SessionType, ShutdownType DEF Next
<1> QED
  BY <1>3, <1>5

LEMMA InitDaemon == Init => DaemonInv
<1> SUFFICES ASSUME Init PROVE DaemonInv
  OBVIOUS
<1>1. TypeOK
  BY InitType
<1>2. op.kind = "idle" /\ op = Idle /\ phase = "serving"
  BY DEF Init, Idle
<1>3. OperationOK /\ LifeOK /\ LockOK /\ ExitOK
  BY <1>2 DEF Init, OperationOK, LifeOK, LockOK, ExitOK, Swept
<1>4. ControlOK /\ ClientOK
  BY <1>2 DEF Init, ControlOK, ClientOK, Swept
<1> QED
  BY <1>1, <1>3, <1>4 DEF DaemonInv

----------------------------------------------------------------------------
(***************************************************************************)
(* Steps without opMu.                                                      *)
(***************************************************************************)

\* A step that leaves the registry and the handles alone, and no more than ends connections.
LEMMA QuietDaemon ==
  ASSUME DaemonInv, TypeOK', ClientOK', ExitOK',
         UNCHANGED <<phase, op, reg, controller, life, attach, file, owner>>,
         \A c \in Clients : conn'[c] = "gone" => conn[c] = "gone",
         \A c \in Clients : conn[c] = "closing" => conn'[c] = "closing",
         \A c \in Clients : conn[c] = "up" => conn'[c] \in {"up", "closing"},
         \A c \in Clients : conn[c] = "up" /\ conn'[c] = "up" => subs'[c] = subs[c]
  PROVE  DaemonInv'
<1> USE DEF DaemonInv
<1>1. OperationOK'
  BY DEF OperationOK, Swept, Stopping, Follows
<1>2. LifeOK' /\ LockOK'
  BY DEF LifeOK, LockOK, Swept
<1>3. ControlOK'
  BY DEF ControlOK, Swept, Stopping, TypeOK
<1> QED
  BY <1>1, <1>2, <1>3

\* Of a queue: what it tells and what its tail tells.
LEMMA TailTells ==
  ASSUME NEW q \in Seq(Notes), q # <<>>, NEW s, Tells(q, s), s # Head(q).on
  PROVE  Tells(Tail(q), s)
<1>1. PICK i \in DOMAIN q : q[i].on = s
  BY DEF Tells
<1>2. i \in 1..Len(q) /\ Len(q) \in Nat /\ Head(q) = q[1]
  BY LenProperties, HeadTailProperties
<1>3. i - 1 \in 1..Len(Tail(q)) /\ Len(Tail(q)) = Len(q) - 1
  BY <1>1, <1>2, HeadTailProperties
<1>4. Tail(q) \in Seq(Notes) /\ Tail(q)[i - 1] = q[i]
  BY <1>2, <1>3, HeadTailProperties
<1>5. i - 1 \in DOMAIN Tail(q)
  BY <1>3, <1>4, LenProperties
<1> QED
  BY <1>1, <1>4, <1>5 DEF Tells

LEMMA AppendTells ==
  ASSUME NEW q \in Seq(Notes), NEW n \in Notes, NEW s, Tells(q, s) \/ s = n.on
  PROVE  Tells(Append(q, n), s)
<1>1. /\ Append(q, n) \in Seq(Notes) /\ Len(Append(q, n)) = Len(q) + 1 /\ Len(q) \in Nat
      /\ \A i \in 1..Len(q) : Append(q, n)[i] = q[i]
      /\ Append(q, n)[Len(q) + 1] = n
  BY AppendProperties, LenProperties
<1>2. DOMAIN Append(q, n) = 1..(Len(q) + 1) /\ DOMAIN q = 1..Len(q)
  BY <1>1, LenProperties
<1>3. CASE Tells(q, s)
  <2>1. PICK i \in 1..Len(q) : q[i].on = s
    BY <1>2, <1>3 DEF Tells
  <2>2. i \in 1..(Len(q) + 1) /\ Append(q, n)[i].on = s
    BY <1>1, <2>1
  <2> QED
    BY <1>2, <2>2 DEF Tells
<1>4. CASE s = n.on
  <2>1. Len(q) + 1 \in DOMAIN Append(q, n)
    BY <1>1, <1>2
  <2> QED
    BY <1>1, <1>4, <2>1 DEF Tells
<1> QED
  BY <1>3, <1>4

LEMMA ClientDaemon ==
  ASSUME DaemonInv, TypeOK', NEW c \in Clients, phase # "exited",
         Connect(c) \/ Disconnect(c) \/ Receive(c)
  PROVE  DaemonInv'
<1> USE DEF DaemonInv
<1>0. /\ conn \in [Clients -> Conns] /\ subs \in [Clients -> SUBSET Sessions]
      /\ mine \in [Clients -> SUBSET Sessions] /\ notes \in [Clients -> Seq(Notes)]
      /\ UNCHANGED <<phase, op, reg, controller, life, attach, file, owner>>
  BY DEF Connect, Disconnect, Receive, handleVars, fileVars, TypeOK, Conns, Notes
<1>1. ExitOK'
  BY <1>0 DEF ExitOK
<1>2. CASE Connect(c)
  <2>1. /\ conn[c] = "away" /\ conn' = [conn EXCEPT ![c] = "up"]
        /\ UNCHANGED <<subs, notes, mine>>
    BY <1>2 DEF Connect
  <2>2. ClientOK'
    BY <1>0, <2>1 DEF ClientOK, Closes
  <2> QED
    BY <1>0, <1>1, <2>1, <2>2, QuietDaemon
<1>3. CASE Disconnect(c)
  <2>1. /\ conn[c] = "up" /\ conn' = [conn EXCEPT ![c] = "closing"]
        /\ \A d \in Clients : d # c => /\ subs'[d] = subs[d] /\ notes'[d] = notes[d]
                                       /\ mine'[d] = mine[d]
    BY <1>0, <1>3 DEF Disconnect
  <2>2. ClientOK'
    BY <1>0, <2>1 DEF ClientOK, Closes
  <2> QED
    BY <1>0, <1>1, <2>1, <2>2, QuietDaemon
<1>4. CASE Receive(c)
  <2>1. /\ notes[c] # <<>> /\ notes' = [notes EXCEPT ![c] = Tail(notes[c])]
        /\ mine' = [mine EXCEPT ![c] = mine[c] \ {Head(notes[c]).on}]
        /\ UNCHANGED <<conn, subs>>
    BY <1>4 DEF Receive
  <2>2. \A s \in mine'[c] : Tells(notes[c], s) => Tells(notes'[c], s)
    BY <1>0, <2>1, TailTells
  <2>3. ClientOK'
    BY <1>0, <2>1, <2>2 DEF ClientOK, Closes
  <2> QED
    BY <1>0, <1>1, <2>1, <2>3, QuietDaemon
<1> QED
  BY <1>2, <1>3, <1>4

\* Turns and port calls change nothing the invariant speaks of.
LEMMA TurnDaemon ==
  ASSUME DaemonInv, TypeOK', UNCHANGED <<phase, op, reg, controller, life, attach, fileVars, clientVars>>
  PROVE  DaemonInv'
<1> USE DEF DaemonInv, fileVars, clientVars
<1>1. ClientOK' /\ ExitOK'
  BY DEF ClientOK, Closes, ExitOK, Up
<1> QED
  BY <1>1, QuietDaemon

\* A session asks for its own close, and ends.
LEMMA EndingDaemon ==
  ASSUME DaemonInv, TypeOK', NEW s \in Sessions, SelfClose(s) \/ Finishes(s)
  PROVE  DaemonInv'
<1> USE DEF DaemonInv
<1>1. /\ UNCHANGED <<phase, op, reg, controller, attach, file, owner, conn, subs, notes, mine>>
      /\ life[s] \in {"live", "closing"} /\ life'[s] \in {"closing", "done"}
      /\ \A t \in Sessions : t # s => life'[t] = life[t]
  BY DEF SelfClose, Finishes, RequestClose, Answers, fileVars, clientVars, TypeOK
<1>2. OperationOK'
  BY <1>1 DEF OperationOK, Swept, Stopping, Follows
<1>3. LifeOK' /\ LockOK'
  BY <1>1 DEF LifeOK, LockOK, Swept
<1>4. ControlOK'
  BY <1>1 DEF ControlOK, Swept, Stopping
<1>5. ClientOK' /\ ExitOK'
  BY <1>1 DEF ClientOK, Closes, ExitOK, Up
<1> QED
  BY <1>2, <1>3, <1>4, <1>5

----------------------------------------------------------------------------
(***************************************************************************)
(* Creating a session.                                                     *)
(***************************************************************************)

LEMMA CreateBeginDaemon ==
  ASSUME DaemonInv, TypeOK', NEW c \in Clients, NEW s \in Sessions, NEW f \in Files \cup {None},
         CreateBegin(c, s, f)
  PROVE  DaemonInv'
<1> USE DEF DaemonInv
<1>1. /\ op.kind = "idle" /\ ~ Swept /\ ~ Stopping /\ life[s] = "unborn"
      /\ op'.kind = "create" /\ op'.on = s /\ op'.next = None
      /\ life' = [life EXCEPT ![s] = "opening"] /\ file' = [file EXCEPT ![s] = f]
      /\ UNCHANGED <<phase, reg, controller, attach, conn, subs, notes, mine>>
  BY DEF CreateBegin, Free, Idle, Op, Swept, Stopping, clientVars
<1>2. /\ f = None => owner' = owner
      /\ f # None => f \in Files /\ owner[f] = None /\ owner' = [owner EXCEPT ![f] = s]
  BY DEF CreateBegin
<1>3. s \notin reg /\ file[s] = None /\ life'[s] = "opening" /\ file'[s] = f
  BY <1>1 DEF LifeOK, TypeOK
<1>4. \A t \in Sessions : t # s => life'[t] = life[t] /\ file'[t] = file[t]
  BY <1>1 DEF TypeOK
<1>5. OperationOK'
  BY <1>1, <1>3, <1>4 DEF OperationOK, Swept
<1>6. LifeOK'
  BY <1>1, <1>3, <1>4 DEF LifeOK
<1>7. LockOK'
  <2>1. \A g \in Files : owner[g] # None => owner[g] \in reg /\ owner[g] # s /\ file[owner[g]] = g
    BY <1>1, <1>3 DEF LockOK
  <2>2. ASSUME NEW g \in Files, owner'[g] # None
        PROVE  /\ file'[owner'[g]] = g /\ (owner'[g] \in reg \/ owner'[g] = s)
    <3>1. CASE g = f
      BY <1>2, <1>3, <3>1, NoneAssumption DEF TypeOK
    <3>2. CASE g # f
      <4>1. owner'[g] = owner[g]
        BY <1>2, <3>2 DEF TypeOK
      <4> QED
        BY <1>4, <2>1, <2>2, <4>1 DEF TypeOK
    <3> QED
      BY <3>1, <3>2
  <2>3. ASSUME NEW t \in reg PROVE owner'[file'[t]] = t
    <3>1. owner[file[t]] = t /\ file[t] \in Files /\ t # s /\ file'[t] = file[t]
      BY <1>1, <1>3, <1>4 DEF LockOK, LifeOK, TypeOK
    <3>2. file[t] # f \/ f = None
      BY <1>2, <3>1, NoneAssumption DEF TypeOK
    <3> QED
      BY <1>2, <3>1, <3>2, NoneAssumption DEF TypeOK
  <2>4. f # None => owner'[f] = s
    BY <1>2 DEF TypeOK
  <2> QED
    BY <1>1, <1>3, <2>2, <2>3, <2>4 DEF LockOK, Swept
<1>8. ControlOK' /\ ClientOK' /\ ExitOK'
  <2>1. ControlOK'
    BY <1>1, <1>3, <1>4 DEF ControlOK, Swept, Stopping
  <2>2. ClientOK' /\ ExitOK'
    BY <1>1 DEF ClientOK, Closes, ExitOK, Up
  <2> QED
    BY <2>1, <2>2
<1> QED
  BY <1>5, <1>6, <1>7, <1>8

LEMMA CreatedDaemon == ASSUME DaemonInv, TypeOK', Created PROVE DaemonInv'
<1> USE DEF DaemonInv
<1> DEFINE s == op.on
<1>1. /\ op.kind = "create" /\ op' = Idle /\ op'.kind = "idle" /\ op'.next = None
      /\ s \in Sessions \ reg /\ life[s] = "opening" /\ ~ Swept
  BY DEF Created, Idle, OperationOK
<1>2. /\ life' = [life EXCEPT ![s] = "live"] /\ reg' = reg \cup {s}
      /\ UNCHANGED <<phase, controller, attach, conn, subs, notes, mine>>
  BY DEF Created, clientVars
<1>3. PICK f \in Files : /\ owner[f] \in {None, s}
                         /\ file' = [file EXCEPT ![s] = f]
                         /\ owner' = [Unlocked(s) EXCEPT ![f] = s]
  BY DEF Created, Register
<1>4. /\ life'[s] = "live" /\ file'[s] = f /\ owner'[f] = s
      /\ \A t \in Sessions : t # s => life'[t] = life[t] /\ file'[t] = file[t]
      /\ \A g \in Files : g # f => owner'[g] = IF owner[g] = s THEN None ELSE owner[g]
  BY <1>1, <1>2, <1>3 DEF TypeOK, Unlocked
<1>5. OperationOK'
  BY <1>1, <1>2 DEF OperationOK, Swept
<1>6. LifeOK'
  BY <1>1, <1>2, <1>4 DEF LifeOK
<1>7. LockOK'
  <2>1. ASSUME NEW g \in Files, owner'[g] # None PROVE file'[owner'[g]] = g /\ owner'[g] \in reg'
    <3>1. CASE g = f
      BY <1>2, <1>4, <3>1
    <3>2. CASE g # f
      <4>1. owner'[g] = owner[g] /\ owner[g] # s /\ owner[g] \in Sessions
        BY <1>4, <2>1, <3>2 DEF TypeOK
      <4>2. file[owner[g]] = g /\ owner[g] \in reg
        BY <1>1, <2>1, <4>1 DEF LockOK
      <4> QED
        BY <1>2, <1>4, <4>1, <4>2
    <3> QED
      BY <3>1, <3>2
  <2>2. ASSUME NEW t \in reg' PROVE owner'[file'[t]] = t
    <3>1. CASE t = s
      BY <1>4, <3>1
    <3>2. CASE t # s
      <4>1. t \in reg /\ file'[t] = file[t] /\ file[t] \in Files /\ owner[file[t]] = t
        BY <1>1, <1>2, <1>4, <3>2 DEF LockOK, LifeOK, TypeOK
      <4>2. file[t] # f
        BY <1>3, <3>2, <4>1, NoneAssumption DEF TypeOK
      <4> QED
        BY <1>4, <4>1, <4>2
    <3> QED
      BY <3>1, <3>2
  <2> QED
    BY <1>1, <1>2, <2>1, <2>2 DEF LockOK, Swept
<1>8. ControlOK'
  <2>1. controller[s] = None /\ attach[s] = "detached"
    BY <1>1 DEF ControlOK, LifeOK
  <2> QED
    BY <1>1, <1>2, <1>4, <2>1 DEF ControlOK, Swept, Stopping
<1>9. ClientOK' /\ ExitOK'
  BY <1>1, <1>2 DEF ClientOK, Closes, ExitOK, Up
<1> QED
  BY <1>5, <1>6, <1>7, <1>8, <1>9

\* The handle is not there or cannot be used: its lock, if it has one, is given back.
LEMMA CreateFailsDaemon == ASSUME DaemonInv, TypeOK', CreateFails \/ LockFails PROVE DaemonInv'
<1> USE DEF DaemonInv
<1> DEFINE s == op.on
<1>1. /\ op.kind = "create" /\ op' = Idle /\ op'.kind = "idle" /\ op'.next = None
      /\ s \in Sessions \ reg /\ life[s] = "opening" /\ ~ Swept
  BY DEF CreateFails, LockFails, Idle, OperationOK
<1>2. /\ UNCHANGED <<phase, reg, controller, attach, conn, subs, notes, mine>>
      /\ \A t \in Sessions : t # s => life'[t] = life[t] /\ file'[t] = file[t]
      /\ life'[s] \in {"closing", "done"}
  BY <1>1 DEF CreateFails, LockFails, clientVars, TypeOK
<1>3. \A g \in Files : owner'[g] = IF owner[g] = s THEN None ELSE owner[g]
  <2>1. CASE CreateFails
    BY <2>1 DEF CreateFails, Unlocked
  <2>2. CASE LockFails
    BY <2>2 DEF LockFails, Unlocked
  <2> QED
    BY <2>1, <2>2
<1>4. OperationOK'
  BY <1>1, <1>2 DEF OperationOK, Swept
<1>5. LifeOK'
  BY <1>1, <1>2 DEF LifeOK
<1>6. LockOK'
  <2>1. ASSUME NEW g \in Files, owner'[g] # None PROVE file'[owner'[g]] = g /\ owner'[g] \in reg'
    <3>1. owner'[g] = owner[g] /\ owner[g] # s /\ owner[g] \in Sessions
      BY <1>3, <2>1 DEF TypeOK
    <3> QED
      BY <1>1, <1>2, <2>1, <3>1 DEF LockOK
  <2>2. ASSUME NEW t \in reg PROVE owner'[file'[t]] = t
    <3>1. t # s /\ file'[t] = file[t] /\ file[t] \in Files /\ owner[file[t]] = t
      BY <1>1, <1>2 DEF LockOK, LifeOK, TypeOK
    <3> QED
      BY <1>3, <3>1
  <2> QED
    BY <1>1, <1>2, <2>1, <2>2 DEF LockOK, Swept
<1>7. ControlOK'
  BY <1>1, <1>2 DEF ControlOK, Swept, Stopping
<1>8. ClientOK' /\ ExitOK'
  BY <1>1, <1>2 DEF ClientOK, Closes, ExitOK, Up
<1> QED
  BY <1>4, <1>5, <1>6, <1>7, <1>8

----------------------------------------------------------------------------
(***************************************************************************)
(* Attaching, detaching and the end of a client.                           *)
(***************************************************************************)

\* The parts that a step on clients and controllers alone keeps.
LEMMA RegistryKept ==
  ASSUME DaemonInv, UNCHANGED <<phase, reg, life, file, owner>>,
         op' = op \/ (op.kind \in {"idle", "attach", "move"} /\ op'.kind \in {"idle", "attach"}),
         \A s \in Sessions : life[s] # "live" => attach'[s] = attach[s]
  PROVE  LifeOK' /\ LockOK'
<1> USE DEF DaemonInv
<1>1. CASE op' = op
  BY <1>1 DEF LifeOK, LockOK, Swept
<1>2. CASE op.kind \in {"idle", "attach", "move"} /\ op'.kind \in {"idle", "attach"}
  BY <1>2 DEF LifeOK, LockOK, Swept
<1> QED
  BY <1>1, <1>2

LEMMA AttachBeginDaemon ==
  ASSUME DaemonInv, TypeOK', NEW c \in Clients, NEW s \in Sessions, NEW b \in BOOLEAN,
         AttachBegin(c, s, b)
  PROVE  DaemonInv'
<1> USE DEF DaemonInv
<1>1. /\ op.kind = "idle" /\ op = Idle /\ ~ Stopping /\ ~ Swept /\ s \in reg /\ conn[c] = "up"
      /\ subs' = [subs EXCEPT ![c] = subs[c] \cup {s}]
      /\ UNCHANGED <<phase, reg, controller, life, attach, file, owner, conn, notes, mine>>
  BY DEF AttachBegin, CtxLive, Free, Idle, Stopping, Swept, handleVars, fileVars
<1>2. \/ op' = Idle
      \/ op'.kind = "attach" /\ op'.by = c /\ op'.on = s /\ op'.next = None
  BY DEF AttachBegin, Op
<1>3. op'.kind \in {"idle", "attach"} /\ op'.next = None
  BY <1>2 DEF Idle
<1>4. \A d \in Clients : subs'[d] = IF d = c THEN subs[c] \cup {s} ELSE subs[d]
  BY <1>1 DEF TypeOK
<1>5. OperationOK'
  BY <1>1, <1>2, <1>3, <1>4 DEF OperationOK, Swept, Idle
<1>6. LifeOK' /\ LockOK'
  BY <1>1, <1>3, RegistryKept
<1>7. ControlOK'
  BY <1>1, <1>3 DEF ControlOK, Swept, Stopping
<1>8. ClientOK' /\ ExitOK'
  <2>1. ClientOK'
    BY <1>1, <1>3, <1>4 DEF ClientOK, Closes
  <2> QED
    BY <1>1, <2>1 DEF ExitOK, Up
<1> QED
  BY <1>5, <1>6, <1>7, <1>8

LEMMA AttachRefusedDaemon ==
  ASSUME DaemonInv, TypeOK', NEW c \in Clients, NEW s \in Sessions, AttachRefused(c, s)
  PROVE  DaemonInv'
<1> USE DEF DaemonInv
<1>1. /\ op.kind = "idle"
      /\ subs' = [subs EXCEPT ![c] = subs[c] \ {s}] /\ mine' = [mine EXCEPT ![c] = mine[c] \ {s}]
      /\ UNCHANGED <<phase, op, reg, controller, life, attach, file, owner, conn, notes>>
  BY DEF AttachRefused, Free, Idle, handleVars, fileVars
<1>2. OperationOK'
  BY <1>1 DEF OperationOK, Swept
<1>3. LifeOK' /\ LockOK'
  BY <1>1, RegistryKept
<1>4. ControlOK'
  BY <1>1 DEF ControlOK, Swept, Stopping
<1>5. ClientOK' /\ ExitOK'
  <2>1. \A d \in Clients : /\ subs'[d] = IF d = c THEN subs[c] \ {s} ELSE subs[d]
                           /\ mine'[d] = IF d = c THEN mine[c] \ {s} ELSE mine[d]
    BY <1>1 DEF TypeOK
  <2>2. ClientOK'
    BY <1>1, <2>1 DEF ClientOK, Closes
  <2> QED
    BY <1>1, <2>2 DEF ExitOK, Up
<1> QED
  BY <1>2, <1>3, <1>4, <1>5

\* takeControl, of the client that attaches or of the one that follows to a successor.
LEMMA TakeControlDaemon ==
  ASSUME DaemonInv, TypeOK', op.kind \in {"attach", "move"}, op' = Idle,
         NEW c \in Clients, NEW s \in reg, Follows(c), ~ Swept, phase' = phase,
         NEW ss \in [Clients -> SUBSET Sessions], TakeControl(c, s, ss),
         \A d \in Clients : d # c => ss[d] = subs[d],
         ss[c] \subseteq subs[c] \cup {s}, subs[c] \ {s} \subseteq ss[c],
         conn[c] = "away" => ss[c] = {} /\ mine'[c] = {},
         \A d \in Clients : d # c => mine'[d] = mine[d],
         mine'[c] \subseteq mine[c] \cup {s},
         conn[c] = "up" /\ s \in mine'[c] => s \in ss[c] \/ Tells(notes[c], s),
         UNCHANGED <<reg, life, file, owner>>
  PROVE  DaemonInv'
<1> USE DEF DaemonInv
<1> DEFINE prev == controller[s]
<1>0. /\ s \in Sessions /\ op'.kind = "idle" /\ op'.next = None /\ ~ Swept'
      /\ notes \in [Clients -> Seq(Notes)] /\ controller \in [Sessions -> Clients \cup {None}]
  BY DEF TypeOK, Idle, Swept, Notes
<1>1. /\ controller'[s] = c /\ \A t \in Sessions : t # s => controller'[t] = controller[t]
      /\ \A d \in Clients : subs'[d] = IF d = prev /\ d # c THEN subs[d] \ {s} ELSE ss[d]
  <2>1. controller' = [controller EXCEPT ![s] = c]
    BY DEF TakeControl
  <2>2. \A d \in Clients : subs'[d] = IF d = prev /\ d # c THEN ss[d] \ {s} ELSE ss[d]
    BY DEF TakeControl
  <2> QED
    BY <1>0, <2>1, <2>2
<1>2. Enqueued({prev} \ {c, None}, Taken(s)) /\ Taken(s) \in Notes /\ Taken(s).on = s
  BY <1>0, NotesAreAbout DEF TakeControl
<1>3. /\ \A d \in Clients : conn'[d] = conn[d] \/ (conn[d] = "up" /\ conn'[d] = "closing")
      /\ \A d \in Clients : conn'[d] = "up" =>
           notes'[d] = IF d \in {prev} \ {c, None} THEN Append(notes[d], Taken(s)) ELSE notes[d]
  BY <1>2, EnqueuedEffect
<1>4. /\ \A t \in Sessions : t # s \/ life[t] # "live" => attach'[t] = attach[t]
      /\ life[s] = "live" => (prev = c /\ attach'[s] = attach[s]) \/ attach'[s] = "attached"
  BY <1>0 DEF TakeControl, SetAttach, Answers, TypeOK
<1>5. OperationOK'
  BY <1>0 DEF OperationOK
<1>6. LifeOK' /\ LockOK'
  BY <1>0, <1>4, RegistryKept
<1>7. ControlOK'
  <2>1. ASSUME NEW t \in Sessions, t # s
        PROVE  /\ controller'[t] # None => t \in reg' /\ (Stopping' \/ conn'[controller'[t]] # "gone")
               /\ life'[t] = "live" => (attach'[t] = "attached" <=> controller'[t] # None)
    BY <1>1, <1>3, <1>4, <2>1 DEF ControlOK, Stopping, TypeOK
  <2>2. c # None
    BY NoneAssumption
  <2>3. Stopping' \/ conn'[c] # "gone"
    BY <1>3 DEF Follows, Stopping
  <2>4. life'[s] = "live" => attach'[s] = "attached"
    BY <1>0, <1>4, <2>2 DEF ControlOK
  <2> QED
    BY <1>0, <1>1, <2>1, <2>2, <2>3, <2>4 DEF ControlOK
<1>8. ClientOK'
  <2>0. /\ \A d \in Clients : d # c => subs'[d] \subseteq subs[d]
        /\ \A d \in Clients : \A t \in subs[d] : t # s => t \in subs'[d]
        /\ subs'[c] = ss[c]
        /\ \A d \in Clients : d # c /\ d # prev => subs'[d] = subs[d]
    <3>1. ASSUME NEW d \in Clients, d # c
          PROVE  /\ subs'[d] \subseteq subs[d] /\ (d # prev => subs'[d] = subs[d])
                 /\ \A t \in subs[d] : t # s => t \in subs'[d]
      <4>1. subs'[d] = IF d = prev THEN subs[d] \ {s} ELSE subs[d]
        BY <1>1, <3>1
      <4> HIDE DEF prev
      <4> QED
        BY <4>1
    <3>2. subs'[c] = ss[c]
      BY <1>1
    <3> QED
      BY <3>1, <3>2
  <2>1. ASSUME NEW d \in Clients, conn'[d] = "away" PROVE subs'[d] = {} /\ mine'[d] = {}
    <3>1. conn[d] = "away"
      BY <1>3, <2>1
    <3>2. CASE d = c
      BY <2>0, <3>1, <3>2
    <3>3. CASE d # c
      BY <2>0, <3>1, <3>3 DEF ClientOK
    <3> QED
      BY <3>2, <3>3
  <2>2. ASSUME NEW d \in Clients, conn'[d] = "up" PROVE \A t \in subs'[d] : t \in reg'
    <3>1. conn[d] = "up" /\ \A t \in subs[d] : t \in reg
      BY <1>3, <2>2 DEF ClientOK, Closes
    <3>2. subs'[d] \subseteq subs[d] \cup {s}
      BY <2>0
    <3> QED
      BY <3>1, <3>2
  <2>3. ASSUME NEW d \in Clients, conn'[d] = "up"
        PROVE  /\ \A t : Tells(notes[d], t) => Tells(notes'[d], t)
               /\ d = prev /\ d # c => Tells(notes'[d], s)
    <3>1. notes[d] \in Seq(Notes) /\ Taken(s) \in Notes /\ Taken(s).on = s /\ d # None
      BY <1>0, <1>2, NoneAssumption
    <3>2. CASE d = prev /\ d # c
      <4>1. notes'[d] = Append(notes[d], Taken(s))
        BY <1>3, <2>3, <3>1, <3>2
      <4> QED
        BY <3>1, <4>1, AppendTells
    <3>3. CASE ~ (d = prev /\ d # c)
      <4>1. notes'[d] = notes[d]
        BY <1>3, <2>3, <3>3
      <4> QED
        BY <3>3, <4>1
    <3> QED
      BY <3>2, <3>3
  <2>4. ASSUME NEW d \in Clients, conn'[d] = "up", NEW t \in mine'[d]
        PROVE  Tells(notes'[d], t) \/ (t \in subs'[d] /\ controller'[t] = d)
    <3>0. conn[d] = "up" /\ t \in Sessions
      BY <1>3, <2>4 DEF TypeOK
    <3>1. CASE d = c /\ t = s
      BY <1>1, <2>0, <2>3, <2>4, <3>0, <3>1
    <3>2. CASE ~ (d = c /\ t = s)
      <4>1. t \in mine[d]
        BY <2>4, <3>2
      <4>2. Tells(notes[d], t) \/ (t \in subs[d] /\ controller[t] = d)
        BY <3>0, <4>1 DEF ClientOK, Closes
      <4>3. CASE Tells(notes[d], t)
        BY <2>3, <2>4, <4>3
      <4>4. CASE t # s /\ t \in subs[d] /\ controller[t] = d
        BY <1>1, <2>0, <3>0, <4>4
      <4>5. CASE t = s /\ controller[t] = d
        BY <2>3, <2>4, <3>2, <4>5
      <4> QED
        BY <4>2, <4>3, <4>4, <4>5
    <3> QED
      BY <3>1, <3>2
  <2> QED
    BY <2>1, <2>2, <2>4 DEF ClientOK
<1>9. ExitOK'
  BY DEF ExitOK, Swept
<1> QED
  BY <1>5, <1>6, <1>7, <1>8, <1>9

LEMMA AttachTakesDaemon == ASSUME DaemonInv, TypeOK', AttachTakes PROVE DaemonInv'
<1> USE DEF DaemonInv
<1>1. /\ op.kind = "attach" /\ op' = Idle /\ op.by \in Clients /\ op.on \in reg /\ Follows(op.by)
      /\ conn[op.by] \in {"up", "closing"} /\ (conn[op.by] = "up" => op.on \in subs[op.by])
      /\ ~ Swept
  BY DEF AttachTakes, OperationOK, Follows
<1>2. /\ TakeControl(op.by, op.on, subs) /\ subs \in [Clients -> SUBSET Sessions]
      /\ mine' = [mine EXCEPT ![op.by] = mine[op.by] \cup {op.on}]
      /\ UNCHANGED <<phase, reg, life, file, owner>>
  BY DEF AttachTakes, fileVars, TypeOK
<1>3. /\ mine'[op.by] = mine[op.by] \cup {op.on}
      /\ \A d \in Clients : d # op.by => mine'[d] = mine[d]
  BY <1>1, <1>2 DEF TypeOK
<1> QED
  BY <1>1, <1>2, <1>3, TakeControlDaemon

LEMMA ClearMovesDaemon == ASSUME DaemonInv, TypeOK', ClearMoves PROVE DaemonInv'
<1> USE DEF DaemonInv
<1> DEFINE c == op.by
           s == op.on
           ss == IF CtxLive(c) /\ Answers(s) THEN [subs EXCEPT ![c] = @ \cup {s}]
                 ELSE [subs EXCEPT ![c] = @ \ {s}]
<1>1. /\ op.kind = "move" /\ op' = Idle /\ c \in Clients /\ s \in reg /\ Follows(c)
      /\ controller[s] = None /\ ~ Swept
  BY DEF ClearMoves, OperationOK, Follows
<1>2. /\ TakeControl(c, s, ss) /\ UNCHANGED <<phase, reg, life, file, owner, mine>>
  BY DEF ClearMoves, fileVars
<1>3. /\ ss \in [Clients -> SUBSET Sessions]
      /\ \A d \in Clients : d # c => ss[d] = subs[d]
      /\ ss[c] \subseteq subs[c] \cup {s} /\ subs[c] \ {s} \subseteq ss[c]
      /\ conn[c] # "up" => ss[c] = subs[c] \ {s}
  BY <1>1 DEF TypeOK, CtxLive
<1>4. conn[c] = "away" => ss[c] = {} /\ mine'[c] = {}
  BY <1>1, <1>2, <1>3 DEF ClientOK
<1>5. conn[c] = "up" /\ s \in mine'[c] => Tells(notes[c], s)
  BY <1>1, <1>2, NoneAssumption DEF ClientOK, Closes
<1> HIDE DEF ss
<1> QED
  BY <1>1, <1>2, <1>3, <1>4, <1>5, TakeControlDaemon

LEMMA DetachDaemon ==
  ASSUME DaemonInv, TypeOK', NEW c \in Clients, NEW s \in Sessions, Detach(c, s)
  PROVE  DaemonInv'
<1> USE DEF DaemonInv
<1>1. /\ op.kind = "idle" /\ s \in reg
      /\ subs' = [subs EXCEPT ![c] = subs[c] \ {s}] /\ mine' = [mine EXCEPT ![c] = mine[c] \ {s}]
      /\ UNCHANGED <<phase, op, reg, life, file, owner, conn, notes>>
  BY DEF Detach, Free, Idle, fileVars
<1>2. /\ \A t \in Sessions : t # s => controller'[t] = controller[t] /\ attach'[t] = attach[t]
      /\ controller'[s] = IF controller[s] = c THEN None ELSE controller[s]
      /\ attach'[s] = IF controller[s] = c /\ life[s] = "live" THEN "detached" ELSE attach[s]
  BY DEF Detach, SetAttach, Answers, TypeOK
<1>3. \A d \in Clients : /\ subs'[d] = IF d = c THEN subs[c] \ {s} ELSE subs[d]
                         /\ mine'[d] = IF d = c THEN mine[c] \ {s} ELSE mine[d]
  BY <1>1 DEF TypeOK
<1>4. OperationOK'
  BY <1>1 DEF OperationOK, Swept
<1>5. LifeOK' /\ LockOK'
  BY <1>1, <1>2, RegistryKept
<1>6. ControlOK'
  <2>1. ASSUME NEW t \in Sessions
        PROVE  /\ controller'[t] # None => controller'[t] = controller[t]
               /\ life[t] = "live" => (attach'[t] = "attached" <=> controller'[t] # None)
               /\ controller[t] = None => controller'[t] = None
    <3>1. CASE t = s /\ controller[s] = c
      BY <1>2, <3>1
    <3>2. CASE ~ (t = s /\ controller[s] = c)
      <4>1. controller'[t] = controller[t] /\ attach'[t] = attach[t]
        BY <1>2, <3>2
      <4> QED
        BY <4>1 DEF ControlOK
    <3> QED
      BY <3>1, <3>2
  <2> QED
    BY <1>1, <2>1 DEF ControlOK, Swept, Stopping
<1>7. ClientOK'
  <2>1. ASSUME NEW d \in Clients, NEW t \in mine'[d], controller[t] = d PROVE controller'[t] = d
    <3>1. t \in Sessions /\ ~ (t = s /\ d = c)
      BY <1>3, <2>1 DEF TypeOK
    <3> QED
      BY <1>2, <2>1, <3>1
  <2>2. \A d \in Clients : \A t \in mine'[d] : t \in mine[d] /\ (t \in subs[d] => t \in subs'[d])
    BY <1>3
  <2>3. \A d \in Clients : subs'[d] \subseteq subs[d] /\ mine'[d] \subseteq mine[d]
    BY <1>3
  <2> QED
    BY <1>1, <2>1, <2>2, <2>3 DEF ClientOK, Closes
<1>8. ExitOK'
  BY <1>1 DEF ExitOK, Up
<1> QED
  BY <1>4, <1>5, <1>6, <1>7, <1>8

LEMMA ClientGoneDaemon ==
  ASSUME DaemonInv, TypeOK', NEW c \in Clients, ClientGone(c)
  PROVE  DaemonInv'
<1> USE DEF DaemonInv
<1>1. /\ op.kind = "idle" /\ conn[c] = "closing" /\ conn' = [conn EXCEPT ![c] = "gone"]
      /\ UNCHANGED <<phase, op, reg, life, file, owner, subs, notes, mine>>
  BY DEF ClientGone, Free, Idle, fileVars
<1>2. \A d \in Clients : conn'[d] = IF d = c THEN "gone" ELSE conn[d]
  BY <1>1 DEF TypeOK
<1>3. ASSUME NEW s \in Sessions
      PROVE  /\ controller'[s] = IF ~ Stopping /\ controller[s] = c THEN None ELSE controller[s]
             /\ attach'[s] = IF ~ Stopping /\ controller[s] = c /\ life[s] = "live"
                             THEN "detached" ELSE attach[s]
  <2>1. controller[s] = c => s \in reg
    BY NoneAssumption DEF ControlOK
  <2>2. CASE Stopping
    BY <2>2 DEF ClientGone
  <2>3. CASE ~ Stopping
    BY <2>1, <2>3 DEF ClientGone, Answers
  <2> QED
    BY <2>2, <2>3
<1>4. OperationOK'
  BY <1>1 DEF OperationOK, Swept
<1>5. LifeOK' /\ LockOK'
  BY <1>1, <1>3, RegistryKept
<1>6. ControlOK'
  <2>1. CASE Stopping
    BY <1>1, <1>2, <1>3, <2>1 DEF ControlOK, Swept, Stopping
  <2>2. CASE ~ Stopping
    BY <1>1, <1>2, <1>3, <2>2, NoneAssumption DEF ControlOK, Swept, Stopping, TypeOK
  <2> QED
    BY <2>1, <2>2
<1>7. ClientOK'
  <2>1. ASSUME NEW d \in Clients, conn'[d] \in {"up", "away"}
        PROVE  d # c /\ conn'[d] = conn[d] /\ \A s \in Sessions : controller[s] = d => controller'[s] = d
    BY <1>2, <1>3, <2>1
  <2>2. mine \in [Clients -> SUBSET Sessions]
    BY DEF TypeOK
  <2> QED
    BY <1>1, <2>1, <2>2 DEF ClientOK, Closes
<1>8. ExitOK'
  BY <1>1, <1>2 DEF ExitOK, Up
<1> QED
  BY <1>4, <1>5, <1>6, <1>7, <1>8

----------------------------------------------------------------------------
(***************************************************************************)
(* Closing, clearing and collecting a session.                             *)
(***************************************************************************)

\* Between its request and its end a close knows that s is unregistered and still locked.
LEMMA ClosingDaemon ==
  ASSUME DaemonInv, TypeOK', NEW s \in reg, op.kind \in {"idle", "collect"},
         CloseLocked(s), reg' = reg \ {s},
         UNCHANGED <<phase, attach, fileVars, clientVars>>
  PROVE  DaemonInv'
<1> USE DEF DaemonInv, fileVars, clientVars
<1>1. /\ s \in Sessions /\ op'.kind = "close" /\ op'.on = s /\ op'.next = None
      /\ life[s] \in {"live", "closing", "done"} /\ file[s] \in Files
  BY DEF CloseLocked, Op, LifeOK, TypeOK
<1>2. /\ life'[s] \in {"closing", "done"} /\ controller'[s] = None
      /\ \A t \in Sessions : t # s => life'[t] = life[t] /\ controller'[t] = controller[t]
  BY <1>1 DEF CloseLocked, RequestClose, TypeOK
<1>3. OperationOK'
  BY <1>1, <1>2 DEF OperationOK, Swept
<1>4. LifeOK'
  BY <1>1, <1>2 DEF LifeOK
<1>5. LockOK'
  BY <1>1 DEF LockOK, Swept
<1>6. ControlOK'
  BY <1>1, <1>2 DEF ControlOK, Swept, Stopping
<1>7. ClientOK'
  <2>1. \A c \in Clients : subs'[c] = subs[c] /\ mine'[c] = mine[c] /\ mine[c] \subseteq Sessions
    BY DEF TypeOK
  <2> QED
    BY <1>1, <1>2, <2>1 DEF ClientOK, Closes
<1>8. ExitOK'
  BY DEF ExitOK, Up
<1> QED
  BY <1>3, <1>4, <1>5, <1>6, <1>7, <1>8

LEMMA CloseBeginDaemon ==
  ASSUME DaemonInv, TypeOK', NEW c \in Clients, NEW s \in Sessions, CloseBegin(c, s)
  PROVE  DaemonInv'
  BY ClosingDaemon DEF CloseBegin, MayControl, Free, Idle

LEMMA CollectClosesDaemon == ASSUME DaemonInv, TypeOK', CollectCloses PROVE DaemonInv'
  BY ClosingDaemon DEF CollectCloses, DaemonInv, OperationOK

\* What the operations know when they begin or give up.
LEMMA CollectPicksDaemon ==
  ASSUME DaemonInv, TypeOK', NEW s \in Sessions, CollectPicks(s) PROVE DaemonInv'
<1> USE DEF DaemonInv
<1>1. /\ op.kind = "idle" /\ ~ Stopping /\ ~ Swept /\ s \in reg
      /\ op'.kind = "collect" /\ op'.on = s /\ op'.next = None
      /\ UNCHANGED <<phase, reg, controller, life, attach, file, owner, conn, subs, notes, mine>>
  BY DEF CollectPicks, Free, Idle, Op, Stopping, Swept, handleVars, fileVars, clientVars
<1>2. OperationOK' /\ LifeOK'
  BY <1>1 DEF OperationOK, LifeOK, Swept
<1>3. LockOK' /\ ControlOK'
  BY <1>1 DEF LockOK, ControlOK, Swept, Stopping
<1>4. ClientOK' /\ ExitOK'
  BY <1>1 DEF ClientOK, Closes, ExitOK, Up
<1> QED
  BY <1>2, <1>3, <1>4

LEMMA ClearBeginDaemon ==
  ASSUME DaemonInv, TypeOK', NEW c \in Clients, NEW s \in Sessions, NEW n \in Sessions,
         ClearBegin(c, s, n)
  PROVE  DaemonInv'
<1> USE DEF DaemonInv
<1>1. /\ op.kind = "idle" /\ ~ Stopping /\ ~ Swept /\ s \in reg /\ life[n] = "unborn"
      /\ op'.kind = "clear" /\ op'.on = s /\ op'.next = n
      /\ life' = [life EXCEPT ![n] = "opening"]
      /\ UNCHANGED <<phase, reg, controller, attach, file, owner, conn, subs, notes, mine>>
  BY DEF ClearBegin, MayControl, Free, Idle, Op, Stopping, Swept, fileVars, clientVars
<1>2. \A t \in Sessions : life'[t] = IF t = n THEN "opening" ELSE life[t]
  BY <1>1 DEF TypeOK
<1>3. OperationOK' /\ LifeOK'
  BY <1>1, <1>2 DEF OperationOK, LifeOK, Swept
<1>4. LockOK'
  BY <1>1 DEF LockOK, Swept
<1>5. ControlOK'
  BY <1>1, <1>2 DEF ControlOK, Swept, Stopping
<1>6. ClientOK' /\ ExitOK'
  BY <1>1 DEF ClientOK, Closes, ExitOK, Up
<1> QED
  BY <1>3, <1>4, <1>5, <1>6

LEMMA ClearFailsDaemon == ASSUME DaemonInv, TypeOK', ClearFails PROVE DaemonInv'
<1> USE DEF DaemonInv
<1>1. /\ op.kind = "clear" /\ op.next \in Sessions /\ ~ Swept
      /\ op'.kind = "idle" /\ op'.next = None /\ op' = Idle
      /\ life' = [life EXCEPT ![op.next] = "done"]
      /\ UNCHANGED <<phase, reg, controller, attach, file, owner, conn, subs, notes, mine>>
  BY DEF ClearFails, Idle, OperationOK, fileVars, clientVars
<1>2. \A t \in Sessions : life'[t] = IF t = op.next THEN "done" ELSE life[t]
  BY <1>1 DEF TypeOK
<1>3. OperationOK' /\ LifeOK'
  BY <1>1, <1>2 DEF OperationOK, LifeOK, Swept
<1>4. LockOK'
  BY <1>1 DEF LockOK, Swept
<1>5. ControlOK'
  BY <1>1, <1>2 DEF ControlOK, Swept, Stopping
<1>6. ClientOK' /\ ExitOK'
  BY <1>1 DEF ClientOK, Closes, ExitOK, Up
<1> QED
  BY <1>3, <1>4, <1>5, <1>6

\* The successor takes the place of the session it was cleared to.
LEMMA ClearCreatedDaemon == ASSUME DaemonInv, TypeOK', ClearCreated PROVE DaemonInv'
<1> USE DEF DaemonInv
<1> DEFINE s == op.on
           n == op.next
<1>1. /\ op.kind = "clear" /\ s \in reg /\ s \in Sessions /\ n \in Sessions /\ life[n] = "opening"
      /\ n \notin reg /\ n # s /\ ~ Swept /\ file[n] = None /\ attach[n] = "detached"
      /\ life[s] \in {"live", "closing", "done"} /\ file[s] \in Files
  BY DEF ClearCreated, OperationOK, LifeOK, TypeOK
<1>2. PICK f \in Files : /\ owner[f] = None
                         /\ file' = [file EXCEPT ![n] = f] /\ owner' = [owner EXCEPT ![f] = n]
  <2>1. \A g \in Files : owner[g] # n
    BY <1>1, NoneAssumption DEF LockOK
  <2>2. Unlocked(n) = owner
    BY <2>1 DEF Unlocked, TypeOK
  <2> QED
    BY <2>2 DEF ClearCreated, Register
<1>3. /\ reg' = (reg \cup {n}) \ {s}
      /\ controller' = [controller EXCEPT ![s] = None]
      /\ life' = [life EXCEPT ![n] = "live", ![s] = IF @ = "live" THEN "closing" ELSE @]
      /\ UNCHANGED <<phase, attach, conn, subs, notes, mine>>
  BY DEF ClearCreated, clientVars
<1>4. /\ op'.kind = "close" /\ op'.on = s
      /\ \/ op'.next = None
         \/ op'.next = n /\ op'.by = controller[s] /\ controller[s] # None
  BY DEF ClearCreated, Op
<1>5. /\ life'[n] = "live" /\ life'[s] \in {"closing", "done"} /\ file'[n] = f
      /\ \A t \in Sessions : t \notin {n, s} => life'[t] = life[t]
      /\ \A t \in Sessions : t # n => file'[t] = file[t]
      /\ \A g \in Files : owner'[g] = IF g = f THEN n ELSE owner[g]
      /\ \A t \in Sessions : controller'[t] = IF t = s THEN None ELSE controller[t]
  <2>1. /\ file \in [Sessions -> Files \cup {None}] /\ owner \in [Files -> Sessions \cup {None}]
        /\ controller \in [Sessions -> Clients \cup {None}] /\ DOMAIN life = Sessions
    BY DEF TypeOK
  <2> QED
    BY <1>1, <1>2, <1>3, <2>1
<1>6. controller[n] = None
  BY <1>1 DEF ControlOK
<1>7. OperationOK'
  <2>1. controller[s] # None =>
          controller[s] \in Clients /\ (Stopping \/ conn[controller[s]] # "gone")
    BY <1>1 DEF ControlOK, TypeOK
  <2>2. op'.next # None => op'.by \in Clients /\ (Stopping' \/ conn'[op'.by] # "gone")
    BY <1>3, <1>4, <2>1 DEF Stopping
  <2>3. op'.next # None => op'.next = n /\ n \in reg' /\ controller'[n] = None
    BY <1>1, <1>3, <1>4, <1>5, <1>6
  <2>4. ~ Swept'
    BY <1>1, <1>3 DEF Swept
  <2>5. op'.on \in Sessions \ reg' /\ life'[op'.on] \in {"closing", "done"} /\ file'[op'.on] \in Files
    BY <1>1, <1>3, <1>4, <1>5
  <2> QED
    BY <1>4, <2>2, <2>3, <2>4, <2>5 DEF OperationOK, Follows
<1>8. LifeOK'
  <2>1. ASSUME NEW t \in Sessions, t \notin {n, s}
        PROVE  /\ life'[t] = life[t] /\ file'[t] = file[t] /\ attach'[t] = attach[t]
               /\ (t \in reg' <=> t \in reg) /\ life[t] # "opening"
    BY <1>1, <1>3, <1>5, <2>1 DEF LifeOK
  <2>2. /\ n \in reg' /\ s \notin reg' /\ file'[n] \in Files
        /\ life'[n] = "live" /\ life'[s] \notin {"unborn", "opening", "live"}
    BY <1>1, <1>3, <1>5
  <2> QED
    BY <2>1, <2>2 DEF LifeOK
<1>9. LockOK'
  <2>1. \A g \in Files : owner[g] # None => owner[g] \in reg /\ owner[g] # n /\ file[owner[g]] = g
    BY <1>1 DEF LockOK
  <2>2. ASSUME NEW g \in Files, owner'[g] # None
        PROVE  file'[owner'[g]] = g /\ (owner'[g] \in reg' \/ owner'[g] = s)
    <3>1. CASE g = f
      BY <1>1, <1>3, <1>5, <3>1
    <3>2. CASE g # f
      <4>1. owner'[g] = owner[g] /\ owner[g] \in Sessions
        BY <1>5, <2>2, <3>2 DEF TypeOK
      <4> QED
        BY <1>3, <1>5, <2>1, <2>2, <4>1
    <3> QED
      BY <3>1, <3>2
  <2>3. ASSUME NEW t \in reg PROVE owner'[file'[t]] = t
    <3>1. t \in Sessions /\ t # n /\ owner[file[t]] = t /\ file[t] \in Files
      BY <1>1 DEF LockOK, LifeOK, TypeOK
    <3>2. file[t] # f
      BY <1>2, <3>1, NoneAssumption
    <3> QED
      BY <1>5, <3>1, <3>2
  <2>4. owner'[file'[n]] = n
    BY <1>5
  <2> QED
    BY <1>1, <1>3, <1>4, <2>2, <2>3, <2>4 DEF LockOK, Swept
<1>10. ControlOK'
  <2>1. life'[n] = "live" => (attach'[n] = "attached" <=> controller'[n] # None)
    BY <1>1, <1>3, <1>5, <1>6
  <2>2. ASSUME NEW t \in Sessions, t # n
        PROVE  /\ controller'[t] # None => t \in reg' /\ (Stopping' \/ conn'[controller'[t]] # "gone")
               /\ life'[t] = "live" => (attach'[t] = "attached" <=> controller'[t] # None)
    <3>1. CASE t = s
      BY <1>1, <1>5, <3>1
    <3>2. CASE t # s
      <4>1. life'[t] = life[t] /\ controller'[t] = controller[t] /\ (t \in reg => t \in reg')
        BY <1>3, <1>5, <2>2, <3>2
      <4> QED
        BY <1>3, <4>1 DEF ControlOK, Stopping
    <3> QED
      BY <3>1, <3>2
  <2> QED
    BY <1>1, <1>3, <1>4, <1>5, <1>6, <2>1, <2>2 DEF ControlOK, Swept
<1>11. ClientOK'
  <2>1. \A c \in Clients : mine[c] \subseteq Sessions
    BY DEF TypeOK
  <2> QED
    BY <1>1, <1>3, <1>4, <1>5, <2>1 DEF ClientOK, Closes
<1>12. ExitOK'
  BY <1>3 DEF ExitOK, Up
<1> QED
  BY <1>7, <1>8, <1>9, <1>10, <1>11, <1>12

\* Who is subscribed to a session that has gone is told, so nobody counts on it any more.
LEMMA NotifyClosedClients ==
  ASSUME DaemonInv, NEW s \in Sessions, NotifyClosed(s), op'.kind \in {"idle", "move"},
         op.kind = "close" => op.on = s,
         \A t \in reg : t # s => t \in reg',
         \A t \in Sessions : t # s => controller'[t] = controller[t]
  PROVE  /\ ClientOK'
         /\ \A c \in Clients : conn'[c] = conn[c] \/ (conn[c] = "up" /\ conn'[c] = "closing")
<1> USE DEF DaemonInv
<1> DEFINE told == {c \in Up : s \in subs[c]}
<1>1. /\ Enqueued(told, Closed(s)) /\ Closed(s) \in Notes /\ Closed(s).on = s
      /\ mine' = mine /\ notes \in [Clients -> Seq(Notes)] /\ mine \in [Clients -> SUBSET Sessions]
      /\ subs \in [Clients -> SUBSET Sessions]
      /\ \A c \in Clients : subs'[c] = IF c \in told THEN subs[c] \ {s} ELSE subs[c]
  BY NotesAreAbout DEF NotifyClosed, TypeOK, Notes
<1>2. /\ \A c \in Clients : conn'[c] = conn[c] \/ (conn[c] = "up" /\ conn'[c] = "closing")
      /\ \A c \in Clients : conn'[c] = "up" =>
           notes'[c] = IF c \in told THEN Append(notes[c], Closed(s)) ELSE notes[c]
  BY <1>1, EnqueuedEffect
<1>3. ASSUME NEW c \in Clients, conn'[c] = "away" PROVE subs'[c] = {} /\ mine'[c] = {}
  BY <1>1, <1>2, <1>3 DEF ClientOK
<1>4. ASSUME NEW c \in Clients, conn'[c] = "up"
      PROVE  conn[c] = "up" /\ subs'[c] = subs[c] \ {s} /\ (s \in subs[c] => c \in told)
  BY <1>1, <1>2, <1>4 DEF Up
<1>5. ASSUME NEW c \in Clients, conn'[c] = "up", NEW t \in subs'[c] PROVE t \in reg'
  <2>1. t \in subs[c] /\ t # s /\ conn[c] = "up"
    BY <1>4, <1>5
  <2> QED
    BY <2>1 DEF ClientOK, Closes
<1>6. ASSUME NEW c \in Clients, conn'[c] = "up", NEW t \in mine'[c]
      PROVE  Tells(notes'[c], t) \/ (t \in subs'[c] /\ controller'[t] = c)
  <2>1. /\ conn[c] = "up" /\ t \in Sessions
        /\ Tells(notes[c], t) \/ (t \in subs[c] /\ (controller[t] = c \/ Closes(t)))
    BY <1>1, <1>4, <1>6 DEF ClientOK
  <2>2. CASE Tells(notes[c], t)
    BY <1>1, <1>2, <1>6, <2>2, AppendTells
  <2>3. CASE t \in subs[c] /\ t = s
    BY <1>1, <1>2, <1>4, <1>6, <2>3, AppendTells
  <2>4. CASE t \in subs[c] /\ t # s /\ controller[t] = c
    BY <1>4, <1>6, <2>1, <2>4
  <2> QED
    BY <2>1, <2>2, <2>3, <2>4 DEF Closes
<1> QED
  BY <1>2, <1>3, <1>5, <1>6 DEF ClientOK

LEMMA CloseEndDaemon == ASSUME DaemonInv, TypeOK', CloseEnd PROVE DaemonInv'
<1> USE DEF DaemonInv
<1> DEFINE s == op.on
<1>1. /\ op.kind = "close" /\ s \in Sessions \ reg /\ life[s] \in {"closing", "done"}
      /\ \/ op.next = None /\ op' = Idle /\ op'.kind = "idle" /\ op'.next = None
         \/ /\ op.next # None /\ op'.kind = "move" /\ op'.by = op.by /\ op'.on = op.next
            /\ op'.next = None
      /\ NotifyClosed(s)
      /\ UNCHANGED <<phase, reg, controller, life, attach, file>>
  BY DEF CloseEnd, OperationOK, Op, Idle, handleVars
<1>2. \A g \in Files : owner'[g] = IF owner[g] = s THEN None ELSE owner[g]
  BY DEF CloseEnd, Unlocked
<1>3. /\ ClientOK'
      /\ \A c \in Clients : conn'[c] = conn[c] \/ (conn[c] = "up" /\ conn'[c] = "closing")
  <2>1. op'.kind \in {"idle", "move"}
    BY <1>1
  <2> QED
    BY <1>1, <2>1, NotifyClosedClients
<1>4. OperationOK'
  <2>1. op.next # None =>
          op.next \in reg /\ controller[op.next] = None /\ Follows(op.by) /\ ~ Swept
    BY <1>1 DEF OperationOK
  <2>2. op.next # None => op.by \in Clients /\ (Stopping' \/ conn'[op.by] # "gone")
    BY <1>1, <1>3, <2>1 DEF Follows, Stopping
  <2>3. CASE op.next = None
    BY <1>1, <2>3 DEF OperationOK, Swept
  <2>4. CASE op.next # None
    <3>1. ~ Swept'
      BY <1>1, <2>1, <2>4 DEF Swept
    <3> QED
      BY <1>1, <2>1, <2>2, <2>4, <3>1 DEF OperationOK, Follows
  <2> QED
    BY <2>3, <2>4
<1>5. LifeOK'
  BY <1>1 DEF LifeOK
<1>6. LockOK'
  <2>1. ASSUME NEW g \in Files, owner'[g] # None PROVE file'[owner'[g]] = g /\ owner'[g] \in reg'
    <3>1. owner'[g] = owner[g] /\ owner[g] # s
      BY <1>2, <2>1
    <3> QED
      BY <1>1, <2>1, <3>1 DEF LockOK
  <2>2. ASSUME NEW t \in reg, ~ Swept PROVE owner'[file'[t]] = t
    <3>1. owner[file[t]] = t /\ file[t] \in Files /\ t # s
      BY <1>1, <2>2 DEF LockOK, LifeOK, TypeOK
    <3> QED
      BY <1>1, <1>2, <3>1
  <2>3. Swept => \A g \in Files : owner'[g] = None
    BY <1>2 DEF LockOK
  <2> QED
    BY <1>1, <2>1, <2>2, <2>3 DEF LockOK, Swept
<1>7. ControlOK'
  BY <1>1, <1>3 DEF ControlOK, Swept, Stopping, TypeOK
<1>8. ExitOK'
  BY <1>1, <1>3 DEF ExitOK, Up
<1> QED
  BY <1>3, <1>4, <1>5, <1>6, <1>7, <1>8

\* A session that ended on its own.
LEMMA ForgetDaemon == ASSUME DaemonInv, TypeOK', NEW s \in Sessions, Forget(s) PROVE DaemonInv'
<1> USE DEF DaemonInv
<1>1. /\ op.kind = "idle" /\ ~ Stopping /\ ~ Swept /\ s \in reg /\ life[s] = "done"
      /\ NotifyClosed(s) /\ reg' = reg \ {s}
      /\ UNCHANGED <<phase, op, life, attach, file>>
  BY DEF Forget, Free, Idle, Stopping, Swept, handleVars
<1>2. /\ \A g \in Files : owner'[g] = IF owner[g] = s THEN None ELSE owner[g]
      /\ \A t \in Sessions : controller'[t] = IF t = s THEN None ELSE controller[t]
  BY DEF Forget, Unlocked, TypeOK
<1>3. /\ ClientOK'
      /\ \A c \in Clients : conn'[c] = conn[c] \/ (conn[c] = "up" /\ conn'[c] = "closing")
  BY <1>1, <1>2, NotifyClosedClients
<1>4. OperationOK'
  BY <1>1 DEF OperationOK, Swept
<1>5. LifeOK'
  BY <1>1 DEF LifeOK
<1>6. LockOK'
  <2>1. ASSUME NEW g \in Files, owner'[g] # None PROVE file'[owner'[g]] = g /\ owner'[g] \in reg'
    <3>1. owner'[g] = owner[g] /\ owner[g] # s
      BY <1>2, <2>1
    <3> QED
      BY <1>1, <2>1, <3>1 DEF LockOK
  <2>2. ASSUME NEW t \in reg' PROVE owner'[file'[t]] = t
    <3>1. owner[file[t]] = t /\ file[t] \in Files /\ t # s
      BY <1>1 DEF LockOK, LifeOK, TypeOK
    <3> QED
      BY <1>1, <1>2, <3>1
  <2> QED
    BY <1>1, <2>1, <2>2 DEF LockOK, Swept
<1>7. ControlOK'
  BY <1>1, <1>2, <1>3 DEF ControlOK, Swept, Stopping, TypeOK
<1>8. ExitOK'
  BY <1>1, <1>3 DEF ExitOK, Up
<1> QED
  BY <1>3, <1>4, <1>5, <1>6, <1>7, <1>8

----------------------------------------------------------------------------
(***************************************************************************)
(* Shutdown.                                                               *)
(***************************************************************************)

LEMMA StopDaemon == ASSUME DaemonInv, TypeOK', Stop \/ StopAccepting PROVE DaemonInv'
<1> USE DEF DaemonInv
<1>1. /\ phase \in {"serving", "asked"} /\ phase' \in {"asked", "stopping"}
      /\ UNCHANGED <<op, reg, controller, life, attach, file, owner, conn, subs, notes, mine>>
  BY DEF Stop, StopAccepting, handleVars, fileVars, clientVars
<1>2. op.kind # "sweep" /\ ~ Swept /\ ~ Swept' /\ ~ Stopping
  BY <1>1 DEF OperationOK, Swept, Stopping
<1>3. OperationOK' /\ LifeOK'
  BY <1>1, <1>2 DEF OperationOK, LifeOK, Follows
<1>4. LockOK' /\ ControlOK'
  BY <1>1, <1>2 DEF LockOK, ControlOK
<1>5. ClientOK' /\ ExitOK'
  BY <1>1 DEF ClientOK, Closes, ExitOK
<1> QED
  BY <1>3, <1>4, <1>5

\* The sweep leaves no session live and nobody in control.
LEMMA SweepBeginDaemon == ASSUME DaemonInv, TypeOK', SweepBegin PROVE DaemonInv'
<1> USE DEF DaemonInv
<1>1. /\ phase = "stopping" /\ op.kind = "idle" /\ ~ Swept /\ ~ Swept' /\ Stopping'
      /\ op'.kind = "sweep" /\ op'.next = None
      /\ UNCHANGED <<phase, reg, file, owner, subs, notes, mine>>
  BY DEF SweepBegin, Free, Idle, Op, Swept, Stopping, fileVars
<1>2. \A c \in Clients : conn'[c] # "up" /\ (conn'[c] = "away" => conn[c] = "away")
  BY DEF SweepBegin
<1>3. ASSUME NEW s \in Sessions
      PROVE  /\ controller'[s] = None /\ life'[s] # "live"
             /\ life[s] # "live" => life'[s] = life[s]
             /\ life'[s] # life[s] => life'[s] = "closing"
             /\ life[s] \in {"unborn", "opening"} => attach'[s] = attach[s]
  <2>1. life[s] = "live" => s \in reg
    BY DEF LifeOK
  <2>2. controller[s] # None => s \in reg
    BY DEF ControlOK
  <2> QED
    BY <2>1, <2>2 DEF SweepBegin, Answers
<1>4. OperationOK'
  BY <1>1 DEF OperationOK
<1>5. LifeOK'
  BY <1>1, <1>3 DEF LifeOK
<1>6. LockOK'
  BY <1>1 DEF LockOK
<1>7. ControlOK'
  BY <1>3 DEF ControlOK
<1>8. ClientOK'
  BY <1>1, <1>2 DEF ClientOK
<1>9. ExitOK'
  BY <1>1 DEF ExitOK
<1> QED
  BY <1>4, <1>5, <1>6, <1>7, <1>8, <1>9

LEMMA SweepUnlocksDaemon ==
  ASSUME DaemonInv, TypeOK', NEW s \in Sessions, SweepUnlocks(s) PROVE DaemonInv'
<1> USE DEF DaemonInv
<1>1. /\ op.kind = "sweep" /\ ~ Swept
      /\ \A g \in Files : owner'[g] = IF owner[g] = s THEN None ELSE owner[g]
      /\ UNCHANGED <<phase, op, reg, controller, life, attach, file, conn, subs, notes, mine>>
  BY DEF SweepUnlocks, Unlocked, OperationOK, Swept, handleVars, clientVars
<1>2. OperationOK' /\ LifeOK'
  BY <1>1 DEF OperationOK, LifeOK, Swept
<1>3. LockOK'
  BY <1>1 DEF LockOK, Swept
<1>4. ControlOK'
  BY <1>1 DEF ControlOK, Swept, Stopping
<1>5. ClientOK' /\ ExitOK'
  BY <1>1 DEF ClientOK, Closes, ExitOK, Up
<1> QED
  BY <1>2, <1>3, <1>4, <1>5

\* The sweep ends when the locks of all registered sessions, and so all locks, are released.
LEMMA SweepEndDaemon == ASSUME DaemonInv, TypeOK', SweepEnd PROVE DaemonInv'
<1> USE DEF DaemonInv
<1>1. /\ op.kind = "sweep" /\ phase = "stopping" /\ Swept' /\ Stopping' /\ phase' = "swept"
      /\ op' = Idle /\ op'.kind = "idle" /\ op'.next = None
      /\ UNCHANGED <<reg, controller, life, attach, file, owner, conn, subs, notes, mine>>
  BY DEF SweepEnd, OperationOK, Idle, Swept, Stopping, handleVars, fileVars, clientVars
<1>2. \A f \in Files : owner[f] = None
  BY <1>1 DEF SweepEnd, LockOK
<1>3. OperationOK' /\ LifeOK'
  BY <1>1 DEF OperationOK, LifeOK
<1>4. LockOK'
  BY <1>1, <1>2 DEF LockOK
<1>5. ControlOK'
  BY <1>1 DEF ControlOK, Stopping
<1>6. ClientOK' /\ ExitOK'
  BY <1>1 DEF ClientOK, Closes, ExitOK
<1> QED
  BY <1>3, <1>4, <1>5, <1>6

LEMMA ExitDaemon == ASSUME DaemonInv, TypeOK', Exit PROVE DaemonInv'
<1> USE DEF DaemonInv
<1>1. /\ phase = "swept" /\ phase' = "exited" /\ Swept /\ Swept' /\ Stopping'
      /\ \A c \in Clients : conn[c] \in {"away", "gone"}
      /\ UNCHANGED <<op, reg, controller, life, attach, file, owner, conn, subs, notes, mine>>
  BY DEF Exit, Swept, Stopping, handleVars, fileVars, clientVars
<1>2. OperationOK' /\ LifeOK'
  BY <1>1 DEF OperationOK, LifeOK, Follows
<1>3. LockOK' /\ ControlOK'
  BY <1>1 DEF LockOK, ControlOK
<1>4. ClientOK' /\ ExitOK'
  BY <1>1 DEF ClientOK, ExitOK, Up
<1> QED
  BY <1>2, <1>3, <1>4

----------------------------------------------------------------------------
LEMMA StepDaemon == DaemonInv /\ [Next \/ Exited]_vars => DaemonInv'
<1> SUFFICES ASSUME DaemonInv, Next \/ UNCHANGED vars PROVE DaemonInv'
  BY DEF Exited
<1>1. TypeOK'
  BY TypeStep DEF DaemonInv
<1>2. CASE UNCHANGED vars
  BY <1>1, <1>2, TurnDaemon DEF vars, fileVars, clientVars
<1>3. ASSUME NEW c \in Clients, phase # "exited",
             Connect(c) \/ Disconnect(c) \/ Receive(c) \/ ClientGone(c) \/ Requests(c)
      PROVE  DaemonInv'
  <2>1. CASE Connect(c) \/ Disconnect(c) \/ Receive(c)
    BY <1>1, <1>3, <2>1, ClientDaemon
  <2>2. CASE ClientGone(c)
    BY <1>1, <2>2, ClientGoneDaemon
  <2>3. CASE PortCall(c)
    BY <1>1, <2>3, TurnDaemon DEF PortCall
  <2>4. ASSUME NEW s \in Sessions, PortCheck(c, s) PROVE DaemonInv'
    BY <1>1, <2>4, TurnDaemon DEF PortCheck, handleVars
  <2>5. ASSUME NEW s \in Sessions,
               \/ \E f \in Files \cup {None} : CreateBegin(c, s, f)
               \/ \E controlling \in BOOLEAN : AttachBegin(c, s, controlling)
               \/ AttachRefused(c, s) \/ Detach(c, s) \/ CloseBegin(c, s)
               \/ \E n \in Sessions : ClearBegin(c, s, n)
        PROVE  DaemonInv'
    BY <1>1, <2>5, CreateBeginDaemon, AttachBeginDaemon, AttachRefusedDaemon, DetachDaemon,
       CloseBeginDaemon, ClearBeginDaemon
  <2> QED
    BY <1>3, <2>1, <2>2, <2>3, <2>4, <2>5 DEF Requests
<1>4. ASSUME NEW s \in Sessions,
             TurnStarts(s) \/ TurnEnds(s) \/ SelfClose(s) \/ Finishes(s) \/ CollectPicks(s) \/ Forget(s)
      PROVE  DaemonInv'
  <2>1. CASE TurnStarts(s)
    BY <1>1, <2>1, TurnDaemon DEF TurnStarts
  <2>2. CASE TurnEnds(s)
    BY <1>1, <2>2, TurnDaemon DEF TurnEnds
  <2>3. CASE SelfClose(s) \/ Finishes(s)
    BY <1>1, <2>3, EndingDaemon
  <2>4. CASE CollectPicks(s)
    BY <1>1, <2>4, CollectPicksDaemon
  <2>5. CASE Forget(s)
    BY <1>1, <2>5, ForgetDaemon
  <2> QED
    BY <1>4, <2>1, <2>2, <2>3, <2>4, <2>5
<1>5. CASE Proceed
  BY <1>1, <1>5, CreatedDaemon, CreateFailsDaemon, AttachTakesDaemon, ClearFailsDaemon,
     ClearCreatedDaemon, ClearMovesDaemon, CollectClosesDaemon, CloseEndDaemon, SweepEndDaemon,
     SweepUnlocksDaemon DEF Proceed
<1>6. CASE Stop \/ StopAccepting \/ SweepBegin \/ Exit
  BY <1>1, <1>6, StopDaemon, SweepBeginDaemon, ExitDaemon
<1> QED
  BY <1>2, <1>3, <1>4, <1>5, <1>6 DEF Next

\* The invariant gives the properties.
LEMMA ControlFollows == DaemonInv => ControlAgrees /\ LossOfControlIsTold
<1> SUFFICES ASSUME DaemonInv PROVE ControlAgrees /\ LossOfControlIsTold
  OBVIOUS
<1> USE DEF DaemonInv
<1>1. ControllersAreReachable
  BY DEF ControllersAreReachable, ControlOK
<1>2. AttachAgrees
  BY DEF AttachAgrees, ControlOK, Answers, TypeOK
<1>3. Free => op.kind = "idle"
  BY DEF Free, Idle
<1>4. NoDeadSubscription
  BY <1>3 DEF NoDeadSubscription, ClientOK, Closes, Up
<1>5. LossOfControlIsTold
  BY <1>3 DEF LossOfControlIsTold, ClientOK, Closes, Tells
<1> QED
  BY <1>1, <1>2, <1>4, <1>5 DEF ControlAgrees

LEMMA TranscriptsFollow == DaemonInv => TranscriptsOwned
<1> SUFFICES ASSUME DaemonInv PROVE TranscriptsOwned
  OBVIOUS
<1> USE DEF DaemonInv
<1>1. OneWriter
  <2> SUFFICES ASSUME NEW s \in Sessions, NEW t \in Sessions, s # t, file[s] = file[t],
                      life[s] \in {"live", "closing"}, life[t] \in {"live", "closing"},
                      ~ Abandoned(s), ~ Abandoned(t), ~ Stopping
               PROVE  FALSE
    BY DEF OneWriter
  <2>1. ~ Swept /\ op.kind # "sweep"
    BY DEF Stopping, Swept, OperationOK
  <2>2. ASSUME NEW u \in Sessions, life[u] \in {"live", "closing"}, ~ Abandoned(u)
        PROVE  owner[file[u]] = u
    <3>1. CASE u \in reg
      BY <2>1, <3>1 DEF LockOK
    <3>2. CASE u \notin reg
      <4>1. op = Op("close", op.by, u, op.next)
        BY <2>2, <3>2 DEF Abandoned, LifeOK
      <4>2. op.kind = "close" /\ op.on = u
        BY <4>1 DEF Op
      <4> QED
        BY <2>1, <4>2 DEF LockOK
    <3> QED
      BY <3>1, <3>2
  <2> QED
    BY <2>2
<1>2. LocksMatch
  <2> SUFFICES ASSUME Free, ~ Stopping
               PROVE  /\ \A f \in Files : owner[f] # None => owner[f] \in reg /\ file[owner[f]] = f
                      /\ \A s \in reg : owner[file[s]] = s
    BY DEF LocksMatch
  <2>1. op.kind = "idle" /\ ~ Swept
    BY DEF Free, Idle, Stopping, Swept
  <2> QED
    BY <2>1 DEF LockOK
<1> QED
  BY <1>1, <1>2 DEF TranscriptsOwned

LEMMA ShutdownFollows == DaemonInv => ShutdownIsComplete
<1> SUFFICES ASSUME DaemonInv, phase = "exited"
             PROVE  /\ \A s \in Sessions : life[s] \notin {"opening", "live"} /\ controller[s] = None
                    /\ \A f \in Files : owner[f] = None
                    /\ Up = {}
  BY DEF ShutdownIsComplete
<1>1. Swept
  BY DEF Swept
<1> QED
  BY <1>1 DEF DaemonInv, OperationOK, LifeOK, LockOK, ControlOK, ExitOK

\* The registry, the operations under opMu and the clients' queues keep their types, and a
\* client's control queue never grows past its size (client.enqueueControl).
THEOREM DaemonTypeSafe == Spec => []TypeOK
<1>1. DaemonInv => TypeOK
  BY DEF DaemonInv
<1> QED
  BY InitDaemon, StepDaemon, <1>1, PTL DEF Spec

\* Whoever attaches, detaches, clears, closes, disconnects or outlives its connection: a
\* recorded controller can still let go, the session knows whether it is attached, and no
\* connected client waits for events of a session that is gone (takeControl, clientGone,
\* clear, notifyClosed).
THEOREM ControlSafe == Spec => []ControlAgrees
  BY InitDaemon, StepDaemon, ControlFollows, PTL DEF Spec

\* A connected client that takes itself to control a session does, or the news that it does
\* not is in its queue (takeControl, notifyClosed).
THEOREM LossSafe == Spec => []LossOfControlIsTold
  BY InitDaemon, StepDaemon, ControlFollows, PTL DEF Spec

\* A transcript has one writer, and between operations the locks are those of the
\* registered sessions (create, clear, close, forget).
THEOREM TranscriptsSafe == Spec => []TranscriptsOwned
  BY InitDaemon, StepDaemon, TranscriptsFollow, PTL DEF Spec

\* Whatever was under way when the stop was asked for, an exited daemon leaves no session
\* running unasked, no lock, no controller and no connection (shutdown).
THEOREM ShutdownSafe == Spec => []ShutdownIsComplete
  BY InitDaemon, StepDaemon, ShutdownFollows, PTL DEF Spec
=============================================================================
