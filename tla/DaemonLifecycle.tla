--------------------------- MODULE DaemonLifecycle ---------------------------
(***************************************************************************)
(* The daemon's registry of sessions and its lifecycle operations: create,  *)
(* attach, detach, close, clear, idle collection, a session that ends on    *)
(* its own, a client that disconnects, and shutdown                         *)
(* (packages/agent/daemon: lifecycle.go, gc.go, server.go, registry.go).    *)
(*                                                                          *)
(* Lifecycle operations are serialized by the mutex opMu; `op' is the       *)
(* operation that holds it.  What does not take opMu goes on between its     *)
(* steps: connections come and go, sessions take input and end, request     *)
(* handlers check who controls a session, and the daemon is told to stop.   *)
(***************************************************************************)
EXTENDS Integers, Sequences, FiniteSets

CONSTANTS
  Clients,     \* connections; each connects at most once
  Sessions,    \* session handles; an identity is never used again
  Files,       \* transcripts
  Callers,     \* bound: the clients that make mutating port calls
  Working,     \* bound: the sessions that get input from elsewhere
  ControlCap,  \* controlQueueSize
  None         \* no client, no session or no file

ASSUME ControlCapAssumption == ControlCap \in Nat \ {0}
ASSUME BoundsAssumption == Callers \subseteq Clients /\ Working \subseteq Sessions
ASSUME NoneAssumption == None \notin Clients \cup Sessions \cup Files

VARIABLES
  phase,       \* how far Run has got: serving until the stop is asked for
  op,          \* the operation that holds opMu, or Idle
  reg,         \* Daemon.reg
  controller,  \* Daemon.controller
  life,        \* of each session handle
  busy,        \* a turn runs in the session
  attach,      \* Controller.attach of the session
  file,        \* the transcript of the session
  owner,       \* the session on whose behalf the transcript is flocked
  conn,        \* each connection: Daemon.clients and whether its context is live
  subs,        \* client.subs
  notes,       \* client.control and the frames on their way to the client
  mine,        \* the sessions the client streams from and takes itself to control
  port         \* the session of a mutating port call past checkControl
vars == <<phase, op, reg, controller, life, busy, attach, file, owner,
          conn, subs, notes, mine, port>>
handleVars == <<life, busy, attach>>
fileVars == <<file, owner>>
clientVars == <<conn, subs, notes, mine>>

Idle == [kind |-> "idle", by |-> None, on |-> None, next |-> None]
Op(k, c, s, n) == [kind |-> k, by |-> c, on |-> s, next |-> n]
Ops == [kind : {"idle", "create", "attach", "clear", "collect", "close", "move", "sweep"},
        by : Clients \cup {None}, on : Sessions \cup {None}, next : Sessions \cup {None}]
Taken(s) == [kind |-> "detached_by_other", on |-> s]
Closed(s) == [kind |-> "closed", on |-> s]

TypeOK ==
  /\ phase \in {"serving", "asked", "stopping", "swept", "exited"}
  /\ op \in Ops
  /\ reg \subseteq Sessions
  /\ controller \in [Sessions -> Clients \cup {None}]
  /\ life \in [Sessions -> {"unborn", "opening", "live", "closing", "done"}]
  /\ busy \in [Sessions -> BOOLEAN]
  /\ attach \in [Sessions -> {"attached", "detached"}]
  /\ file \in [Sessions -> Files \cup {None}]
  /\ owner \in [Files -> Sessions \cup {None}]
  /\ conn \in [Clients -> {"away", "up", "closing", "gone"}]
  /\ subs \in [Clients -> SUBSET Sessions]
  /\ notes \in [Clients -> Seq({Taken(s) : s \in Sessions} \cup {Closed(s) : s \in Sessions})]
  /\ \A c \in Clients : Len(notes[c]) <= ControlCap
  /\ mine \in [Clients -> SUBSET Sessions]
  /\ port \in [Clients -> Sessions \cup {None}]

Init ==
  /\ phase = "serving" /\ op = Idle /\ reg = {}
  /\ controller = [s \in Sessions |-> None]
  /\ life = [s \in Sessions |-> "unborn"]
  /\ busy = [s \in Sessions |-> FALSE]
  /\ attach = [s \in Sessions |-> "detached"]
  /\ file = [s \in Sessions |-> None]
  /\ owner = [f \in Files |-> None]
  /\ conn = [c \in Clients |-> "away"]
  /\ subs = [c \in Clients |-> {}]
  /\ notes = [c \in Clients |-> <<>>]
  /\ mine = [c \in Clients |-> {}]
  /\ port = [c \in Clients |-> None]

-----------------------------------------------------------------------------
(* What the operations are built from.                                      *)

Free == op = Idle /\ phase # "exited"
Stopping == phase \in {"stopping", "swept", "exited"}
Up == {c \in Clients : conn[c] = "up"}

(* Handlers run in goroutines of their own: one that was started while the   *)
(* connection was up may get opMu long after the client has gone.            *)
Handler(c) == conn[c] # "away"

(* The context of a client is cancelled when its connection ends and when    *)
(* the daemon is told to stop.                                               *)
CtxLive(c) == conn[c] = "up" /\ phase = "serving"

(* A handle takes no more calls once its close has been requested.           *)
Answers(s) == life[s] = "live"

(* Mutant: a detach never reaches the session.                               *)
SetAttachedOnly(s, state) ==
  attach' = IF Answers(s) /\ state = "attached" THEN [attach EXCEPT ![s] = state] ELSE attach

SetAttach(s, state) ==
  attach' = IF Answers(s) THEN [attach EXCEPT ![s] = state] ELSE attach

RequestClose(s) == life' = [life EXCEPT ![s] = IF @ = "live" THEN "closing" ELSE @]

Unlocked(s) == [f \in Files |-> IF owner[f] = s THEN None ELSE owner[f]]

(* Mutants: the queue grows; a full queue drops the notification.            *)
EnqueuedAnyway(cs, note) ==
  /\ notes' = [c \in Clients |-> IF c \in cs THEN Append(notes[c], note) ELSE notes[c]]
  /\ UNCHANGED conn

EnqueuedOrDropped(cs, note) ==
  /\ notes' = [c \in Clients |-> IF c \in cs /\ conn[c] = "up" /\ Len(notes[c]) < ControlCap
                                 THEN Append(notes[c], note) ELSE notes[c]]
  /\ UNCHANGED conn

(* enqueue: a full control queue disconnects the client.                     *)
Enqueued(cs, note) ==
  /\ notes' = [c \in Clients |-> IF c \in cs /\ conn[c] = "up" /\ Len(notes[c]) < ControlCap
                                 THEN Append(notes[c], note) ELSE notes[c]]
  /\ conn' = [c \in Clients |-> IF c \in cs /\ conn[c] = "up" /\ Len(notes[c]) >= ControlCap
                                THEN "closing" ELSE conn[c]]

(* notifyClosed: every subscriber of s is told and has no subscription now. *)
NotifyClosed(s) ==
  LET told == {c \in Up : s \in subs[c]} IN
  /\ subs' = [c \in Clients |-> IF c \in told THEN subs[c] \ {s} ELSE subs[c]]
  /\ Enqueued(told, Closed(s))
  /\ UNCHANGED mine

(* checkControl: nobody else controls the session.                           *)
MayControl(c, s) == s \in reg /\ controller[s] \in {None, c}

(* takeControl: the previous controller loses its subscription and is told;  *)
(* the session hears of the attach unless c controlled it already.           *)
TakeControl(c, s, subscriptions) ==
  LET prev == controller[s] IN
  /\ controller' = [controller EXCEPT ![s] = c]
  /\ subs' = [d \in Clients |-> IF d = prev /\ d # c THEN subscriptions[d] \ {s} ELSE subscriptions[d]]
  /\ Enqueued({prev} \ {c, None}, Taken(s))
  /\ IF prev = c THEN UNCHANGED attach ELSE SetAttach(s, "attached")

-----------------------------------------------------------------------------
(* Clients and sessions, without opMu.                                      *)

Connect(c) ==
  /\ conn[c] = "away" /\ ~Stopping
  /\ conn' = [conn EXCEPT ![c] = "up"]
  /\ UNCHANGED <<phase, op, reg, controller, handleVars, fileVars, subs, notes, mine, port>>

(* The transport fails, the client hangs up, or its context is cancelled:     *)
(* what it was subscribed to and what was queued for it come to nothing.     *)
Disconnect(c) ==
  /\ conn[c] = "up"
  /\ conn' = [conn EXCEPT ![c] = "closing"]
  /\ subs' = [subs EXCEPT ![c] = {}]
  /\ notes' = [notes EXCEPT ![c] = <<>>]
  /\ mine' = [mine EXCEPT ![c] = {}]
  /\ UNCHANGED <<phase, op, reg, controller, handleVars, fileVars, port>>

(* The client reads a control notification: it controls that session no more. *)
Receive(c) ==
  /\ conn[c] = "up" /\ notes[c] # <<>>
  /\ notes' = [notes EXCEPT ![c] = Tail(@)]
  /\ mine' = [mine EXCEPT ![c] = @ \ {Head(notes[c]).on}]
  /\ UNCHANGED <<phase, op, reg, controller, handleVars, fileVars, conn, subs, port>>

(* A mutating port call: checkControl, then the call to the handle.          *)
PortCheck(c, s) ==
  /\ c \in Callers /\ CtxLive(c) /\ port[c] = None /\ MayControl(c, s)
  /\ port' = [port EXCEPT ![c] = s]
  /\ UNCHANGED <<phase, op, reg, controller, handleVars, fileVars, clientVars>>

Submits(c) == port[c] # None /\ Answers(port[c]) /\ CtxLive(c)

PortCall(c) ==
  /\ port[c] # None
  /\ port' = [port EXCEPT ![c] = None]
  /\ busy' = IF Submits(c) THEN [busy EXCEPT ![port[c]] = TRUE] ELSE busy
  /\ UNCHANGED <<phase, op, reg, controller, life, attach, fileVars, clientVars>>

(* Input from elsewhere: a schedule, another session, Telegram, a goal.      *)
TurnStarts(s) ==
  /\ s \in Working /\ Answers(s) /\ ~busy[s]
  /\ busy' = [busy EXCEPT ![s] = TRUE]
  /\ UNCHANGED <<phase, op, reg, controller, life, attach, fileVars, clientVars, port>>

TurnEnds(s) ==
  /\ busy[s]
  /\ busy' = [busy EXCEPT ![s] = FALSE]
  /\ UNCHANGED <<phase, op, reg, controller, life, attach, fileVars, clientVars, port>>

(* The session asks for its own close, then its actor and cleanup finish.    *)
SelfClose(s) ==
  /\ Answers(s)
  /\ RequestClose(s)
  /\ UNCHANGED <<phase, op, reg, controller, busy, attach, fileVars, clientVars, port>>

Finishes(s) ==
  /\ life[s] = "closing"
  /\ life' = [life EXCEPT ![s] = "done"]
  /\ busy' = [busy EXCEPT ![s] = FALSE]
  /\ UNCHANGED <<phase, op, reg, controller, attach, fileVars, clientVars, port>>

-----------------------------------------------------------------------------
(* Lifecycle operations: each begins when opMu is free and keeps it until op  *)
(* is Idle again.                                                            *)

(* create: the transcript to resume is locked before the handle is built.    *)
CreateBegin(c, s, f) ==
  /\ Free /\ ~Stopping /\ Handler(c) /\ life[s] = "unborn"
  /\ f # None => owner[f] = None
  /\ op' = Op("create", None, s, None)
  /\ life' = [life EXCEPT ![s] = "opening"]
  /\ file' = [file EXCEPT ![s] = f]
  /\ owner' = IF f = None THEN owner ELSE [owner EXCEPT ![f] = s]
  /\ UNCHANGED <<phase, reg, controller, busy, attach, clientVars, port>>

(* createHandleLocked, with the handle built: where the transcript it opened  *)
(* is not the one that was to be resumed, its lock takes the place of that    *)
(* one's. Then the session is registered.                                    *)
Register(s, f) ==
  /\ f # None /\ owner[f] \in {None, s}
  /\ file' = [file EXCEPT ![s] = f]
  /\ owner' = [Unlocked(s) EXCEPT ![f] = s]

Created ==
  LET s == op.on IN
  /\ op.kind = "create"
  /\ \E f \in Files : Register(s, f)
  /\ life' = [life EXCEPT ![s] = "live"]
  /\ reg' = reg \cup {s}
  /\ op' = Idle
  /\ UNCHANGED <<phase, controller, busy, attach, clientVars, port>>

(* Mutant: a failed create keeps the lock of the transcript to resume.       *)
CreateFailsLocked ==
  /\ op.kind = "create"
  /\ life' = [life EXCEPT ![op.on] = "done"]
  /\ op' = Idle
  /\ UNCHANGED <<phase, reg, controller, busy, attach, fileVars, clientVars, port>>

CreateFails ==
  /\ op.kind = "create"
  /\ life' = [life EXCEPT ![op.on] = "done"]
  /\ owner' = Unlocked(op.on)
  /\ op' = Idle
  /\ UNCHANGED <<phase, reg, controller, busy, attach, file, clientVars, port>>

(* The handle has opened a transcript that is locked, by another session or,  *)
(* under another name, for this one: both go, and the handle is closed.      *)
LockFails ==
  LET s == op.on IN
  /\ op.kind = "create"
  /\ \E f \in Files : owner[f] # None /\ file' = [file EXCEPT ![s] = f]
  /\ owner' = Unlocked(s)
  /\ life' = [life EXCEPT ![s] = "closing"]
  /\ op' = Idle
  /\ UNCHANGED <<phase, reg, controller, busy, attach, clientVars, port>>

(* attach: subscribe drops the subscription c has, then asks the session,     *)
(* which refuses when it is closing, when the context is cancelled or when   *)
(* the sequence asked for has left its ring.                                 *)
AttachBegin(c, s, controlling) ==
  /\ Free /\ ~Stopping /\ Handler(c) /\ s \in reg
  /\ CtxLive(c) /\ Answers(s)
  /\ subs' = [subs EXCEPT ![c] = @ \cup {s}]
  /\ op' = IF controlling THEN Op("attach", c, s, None) ELSE Idle
  /\ UNCHANGED <<phase, reg, controller, handleVars, fileVars, conn, notes, mine, port>>

AttachRefused(c, s) ==
  /\ Free /\ ~Stopping /\ Handler(c) /\ s \in reg
  /\ subs' = [subs EXCEPT ![c] = @ \ {s}]
  /\ mine' = [mine EXCEPT ![c] = @ \ {s}]
  /\ UNCHANGED <<phase, op, reg, controller, handleVars, fileVars, conn, notes, port>>

AttachTakes ==
  /\ op.kind = "attach"
  /\ TakeControl(op.by, op.on, subs)
  /\ mine' = [mine EXCEPT ![op.by] = @ \cup {op.on}]
  /\ op' = Idle
  /\ UNCHANGED <<phase, reg, life, busy, fileVars, port>>

Detach(c, s) ==
  /\ Free /\ Handler(c) /\ s \in reg
  /\ subs' = [subs EXCEPT ![c] = @ \ {s}]
  /\ mine' = [mine EXCEPT ![c] = @ \ {s}]
  /\ IF controller[s] = c
     THEN controller' = [controller EXCEPT ![s] = None] /\ SetAttach(s, "detached")
     ELSE UNCHANGED <<controller, attach>>
  /\ UNCHANGED <<phase, op, reg, life, busy, fileVars, conn, notes, port>>

(* clientGone, with opMu: the sessions c controls are released.              *)
ClientGone(c) ==
  LET held == {s \in reg : controller[s] = c} IN
  /\ Free /\ conn[c] = "closing"
  /\ conn' = [conn EXCEPT ![c] = "gone"]
  /\ IF Stopping THEN UNCHANGED <<controller, attach>>
     ELSE /\ controller' = [s \in Sessions |-> IF s \in held THEN None ELSE controller[s]]
          /\ attach' = [s \in Sessions |-> IF s \in held /\ Answers(s) THEN "detached" ELSE attach[s]]
  /\ UNCHANGED <<phase, op, reg, life, busy, fileVars, subs, notes, mine, port>>

(* closeLocked, up to the wait: s is unregistered and asked to close.         *)
CloseLocked(s) ==
  /\ controller' = [controller EXCEPT ![s] = None]
  /\ RequestClose(s)
  /\ op' = Op("close", None, s, None)

CloseBegin(c, s) ==
  /\ Free /\ Handler(c) /\ MayControl(c, s)
  /\ CloseLocked(s)
  /\ reg' = reg \ {s}
  /\ UNCHANGED <<phase, busy, attach, fileVars, clientVars, port>>

ClearBegin(c, s, n) ==
  /\ Free /\ ~Stopping /\ Handler(c) /\ MayControl(c, s) /\ life[n] = "unborn"
  /\ op' = Op("clear", None, s, n)
  /\ life' = [life EXCEPT ![n] = "opening"]
  /\ UNCHANGED <<phase, reg, controller, busy, attach, fileVars, clientVars, port>>

ClearFails ==
  /\ op.kind = "clear"
  /\ life' = [life EXCEPT ![op.next] = "done"]
  /\ op' = Idle
  /\ UNCHANGED <<phase, reg, controller, busy, attach, fileVars, clientVars, port>>

(* The successor is registered and the close of the old session begins.      *)
ClearCreated ==
  LET s == op.on  n == op.next IN
  /\ op.kind = "clear"
  /\ \E f \in Files : owner[f] = None /\ Register(n, f)
  /\ reg' = (reg \cup {n}) \ {s}
  /\ controller' = [controller EXCEPT ![s] = None]
  /\ life' = [life EXCEPT ![n] = "live", ![s] = IF @ = "live" THEN "closing" ELSE @]
  /\ op' = IF controller[s] = None THEN Op("close", None, s, None) ELSE Op("close", controller[s], s, n)
  /\ UNCHANGED <<phase, busy, attach, clientVars, port>>

(* collect: gcEligible holds of s, as far as it can be seen; then s is closed. *)
(* Every entry it visits is a pick of its own here.                          *)
CollectPicks(s) ==
  /\ Free /\ ~Stopping /\ s \in reg
  /\ controller[s] = None /\ attach[s] = "detached"
  /\ Answers(s) /\ ~busy[s]
  /\ op' = Op("collect", None, s, None)
  /\ UNCHANGED <<phase, reg, controller, handleVars, fileVars, clientVars, port>>

CollectCloses ==
  /\ op.kind = "collect"
  /\ CloseLocked(op.on)
  /\ reg' = reg \ {op.on}
  /\ UNCHANGED <<phase, busy, attach, fileVars, clientVars, port>>

(* The handle is done, or the stop timeout has passed: the transcript is      *)
(* unlocked and the subscribers are told.                                    *)
CloseEnd ==
  LET s == op.on IN
  /\ op.kind = "close" /\ life[s] \in {"closing", "done"}
  /\ owner' = Unlocked(s)
  /\ NotifyClosed(s)
  /\ op' = IF op.next = None THEN Idle ELSE Op("move", op.by, op.next, None)
  /\ UNCHANGED <<phase, reg, controller, handleVars, file, port>>

(* clear: the controller follows to the successor, even when it cannot       *)
(* subscribe to it.  It streams from it once it has attached.                *)
ClearMoves ==
  LET c == op.by  n == op.on IN
  /\ op.kind = "move"
  /\ TakeControl(c, n, IF CtxLive(c) /\ Answers(n) THEN [subs EXCEPT ![c] = @ \cup {n}]
                       ELSE [subs EXCEPT ![c] = @ \ {n}])
  /\ op' = Idle
  /\ UNCHANGED <<phase, reg, life, busy, fileVars, mine, port>>

(* Mutant: only a session that somebody controls is forgotten.               *)
ForgetControlled(s) ==
  /\ Free /\ ~Stopping /\ s \in reg /\ life[s] = "done" /\ controller[s] # None
  /\ reg' = reg \ {s}
  /\ controller' = [controller EXCEPT ![s] = None]
  /\ owner' = Unlocked(s)
  /\ NotifyClosed(s)
  /\ UNCHANGED <<phase, op, handleVars, file, port>>

(* forget: the session ended on its own.                                     *)
Forget(s) ==
  /\ Free /\ ~Stopping /\ s \in reg /\ life[s] = "done"
  /\ reg' = reg \ {s}
  /\ controller' = [controller EXCEPT ![s] = None]
  /\ owner' = Unlocked(s)
  /\ NotifyClosed(s)
  /\ UNCHANGED <<phase, op, handleVars, file, port>>

-----------------------------------------------------------------------------
(* Shutdown.                                                                *)

Stop ==
  /\ phase = "serving" /\ phase' = "asked"
  /\ UNCHANGED <<op, reg, controller, handleVars, fileVars, clientVars, port>>

StopAccepting ==
  /\ phase = "asked" /\ phase' = "stopping"
  /\ UNCHANGED <<op, reg, controller, handleVars, fileVars, clientVars, port>>

(* Mutant: only the sessions that somebody controls are closed.              *)
SweepBeginControlled ==
  LET swept == {s \in reg : controller[s] # None} IN
  /\ phase = "stopping" /\ Free
  /\ op' = Op("sweep", None, None, None)
  /\ conn' = [c \in Clients |-> IF conn[c] = "up" THEN "closing" ELSE conn[c]]
  /\ attach' = [s \in Sessions |-> IF s \in swept THEN "detached" ELSE attach[s]]
  /\ controller' = [s \in Sessions |-> IF s \in swept THEN None ELSE controller[s]]
  /\ life' = [s \in Sessions |-> IF s \in swept /\ life[s] = "live" THEN "closing" ELSE life[s]]
  /\ UNCHANGED <<phase, reg, busy, fileVars, subs, notes, mine, port>>

(* Mutant: the sweep waits until no turn runs.                               *)
SweepWaitsForTurns ==
  /\ phase = "stopping" /\ Free /\ \A s \in reg : ~busy[s]
  /\ op' = Op("sweep", None, None, None)
  /\ conn' = [c \in Clients |-> IF conn[c] = "up" THEN "closing" ELSE conn[c]]
  /\ attach' = [s \in Sessions |-> IF s \in reg /\ Answers(s) THEN "detached" ELSE attach[s]]
  /\ controller' = [s \in Sessions |-> None]
  /\ life' = [s \in Sessions |-> IF s \in reg /\ life[s] = "live" THEN "closing" ELSE life[s]]
  /\ UNCHANGED <<phase, reg, busy, fileVars, subs, notes, mine, port>>

(* With opMu: every client is closed and every session asked to close, which  *)
(* the code does for all of them at once.                                    *)
SweepBegin ==
  /\ phase = "stopping" /\ Free
  /\ op' = Op("sweep", None, None, None)
  /\ conn' = [c \in Clients |-> IF conn[c] = "up" THEN "closing" ELSE conn[c]]
  /\ attach' = [s \in Sessions |-> IF s \in reg /\ controller[s] # None /\ Answers(s) THEN "detached" ELSE attach[s]]
  /\ controller' = [s \in Sessions |-> IF s \in reg THEN None ELSE controller[s]]
  /\ life' = [s \in Sessions |-> IF s \in reg /\ life[s] = "live" THEN "closing" ELSE life[s]]
  /\ UNCHANGED <<phase, reg, busy, fileVars, subs, notes, mine, port>>

(* A session is done, or the stop timeout has passed.                        *)
SweepUnlocks(s) ==
  /\ op.kind = "sweep" /\ s \in reg /\ owner[file[s]] = s
  /\ owner' = Unlocked(s)
  /\ UNCHANGED <<phase, op, reg, controller, handleVars, file, clientVars, port>>

SweepEnd ==
  /\ op.kind = "sweep" /\ \A s \in reg : owner[file[s]] # s
  /\ op' = Idle /\ phase' = "swept"
  /\ UNCHANGED <<reg, controller, handleVars, fileVars, clientVars, port>>

(* Run returns once every connection's goroutine has; handlers may linger.   *)
Exit ==
  /\ phase = "swept"
  /\ \A c \in Clients : conn[c] \in {"away", "gone"}
  /\ phase' = "exited"
  /\ UNCHANGED <<op, reg, controller, handleVars, fileVars, clientVars, port>>

Requests(c) ==
  \/ \E s \in Sessions :
       \/ \E f \in Files \cup {None} : CreateBegin(c, s, f)
       \/ \E controlling \in BOOLEAN : AttachBegin(c, s, controlling)
       \/ AttachRefused(c, s) \/ Detach(c, s) \/ CloseBegin(c, s) \/ PortCheck(c, s)
       \/ \E n \in Sessions : ClearBegin(c, s, n)
  \/ PortCall(c)

(* What the holder of opMu does next.                                        *)
Proceed ==
  \/ Created \/ CreateFails \/ LockFails
  \/ AttachTakes
  \/ ClearFails \/ ClearCreated \/ ClearMoves
  \/ CollectCloses \/ CloseEnd
  \/ SweepEnd \/ \E s \in Sessions : SweepUnlocks(s)

Next ==
  /\ phase # "exited"
  /\ \/ \E c \in Clients : Connect(c) \/ Disconnect(c) \/ Receive(c) \/ ClientGone(c) \/ Requests(c)
     \/ \E s \in Sessions :
          TurnStarts(s) \/ TurnEnds(s) \/ SelfClose(s) \/ Finishes(s) \/ CollectPicks(s) \/ Forget(s)
     \/ Proceed
     \/ Stop \/ StopAccepting \/ SweepBegin \/ Exit

(* The process has ended.                                                    *)
Exited == phase = "exited" /\ UNCHANGED vars

Spec == Init /\ [][Next \/ Exited]_vars

(* The goroutine that holds opMu runs on; a Go mutex hands itself to a waiter *)
(* that has starved, so who waits for opMu gets it; a session that was asked  *)
(* to close does; and a cancelled context ends the connection's goroutine.   *)
Fairness ==
  /\ WF_vars(Proceed)
  /\ \A c \in Clients : /\ WF_vars(Disconnect(c) /\ phase # "serving")
                        /\ SF_vars(ClientGone(c))
  /\ \A s \in Sessions : WF_vars(Finishes(s)) /\ SF_vars(Forget(s))
  /\ WF_vars(StopAccepting) /\ SF_vars(SweepBegin) /\ WF_vars(Exit)

FairSpec == Spec /\ Fairness

-----------------------------------------------------------------------------
(* Properties.                                                              *)

(* Who is recorded as the controller of a session can still let go of it: the *)
(* session is registered, and the client's disconnect has not been handled.  *)
(* A request handled after the client's end must not leave it in control, or  *)
(* nobody could be served and idle collection would spare the session        *)
(* forever (takeControl, clientGone, clear).                                 *)
ControllersAreReachable ==
  \A s \in Sessions : controller[s] # None => s \in reg /\ (Stopping \/ conn[controller[s]] # "gone")

(* Between operations the session's own view of being attached, by which it   *)
(* asks for confirmations or denies them, agrees with the daemon's.          *)
AttachAgrees ==
  Free /\ ~Stopping =>
    \A s \in reg : Answers(s) => (attach[s] = "attached" <=> controller[s] # None)

(* The handle was left running by a Close that timed out (or was never        *)
(* registered, its transcript being locked).                                 *)
Abandoned(s) == life[s] = "closing" /\ s \notin reg /\ op # Op("close", op.by, s, op.next)

(* No two running sessions write one transcript, unless the close of one of   *)
(* them timed out: the lock is taken before the session runs and is kept     *)
(* until it has ended, whoever ends it.                                      *)
OneWriter ==
  \A s, t \in Sessions :
    s # t /\ file[s] = file[t] /\ {life[s], life[t]} \subseteq {"live", "closing"}
      => Abandoned(s) \/ Abandoned(t) \/ Stopping

(* Between operations a transcript is locked for exactly the registered       *)
(* sessions: no failed or finished operation leaks a lock, by which the       *)
(* transcript could not be opened again while the daemon runs.               *)
LocksMatch ==
  Free /\ ~Stopping =>
    /\ \A f \in Files : owner[f] # None => owner[f] \in reg /\ file[owner[f]] = f
    /\ \A s \in reg : owner[file[s]] = s

(* Whoever creates, attaches, clears, resumes, closes or ends a session, a    *)
(* transcript has one writer and the locks say which.                        *)
TranscriptsOwned == OneWriter /\ LocksMatch

(* No connected client is left subscribed to a session that the daemon has    *)
(* forgotten: it would wait for events for ever.                             *)
NoDeadSubscription ==
  Free => \A c \in Up : subs[c] \subseteq reg

(* The places that say who serves whom agree: the daemon's controllers, the   *)
(* sessions' own attach states, the connections' subscriptions.  A handler    *)
(* that outlives its connection, a takeover, a clear and a session's own end   *)
(* each change several of them.                                              *)
ControlAgrees == ControllersAreReachable /\ AttachAgrees /\ NoDeadSubscription

(* A client that takes itself to control a session does, or the news that it  *)
(* does not is on its way: a takeover, a close, a clear, the collector and a   *)
(* session's own end all tell it.                                            *)
LossOfControlIsTold ==
  Free /\ phase = "serving" =>
    \A c \in Clients : conn[c] = "up" =>
      \A s \in mine[c] : controller[s] = c \/ \E i \in DOMAIN notes[c] : notes[c][i].on = s

(* When the daemon has exited, every registered session has been asked to     *)
(* close, no transcript is locked and nobody controls a session, whatever     *)
(* was under way when the stop was asked for.                                *)
ShutdownIsComplete ==
  phase = "exited" =>
    /\ \A s \in Sessions : life[s] \notin {"opening", "live"} /\ controller[s] = None
    /\ \A f \in Files : owner[f] = None
    /\ Up = {}

(* A session that ended on its own is unregistered, unless the daemon stops,   *)
(* and a client that has disconnected is let go, its sessions with it.         *)
EndedAreForgotten ==
  /\ \A s \in Sessions : (s \in reg /\ life[s] = "done") ~> (s \notin reg \/ phase # "serving")
  /\ \A c \in Clients : conn[c] = "closing" ~> conn[c] = "gone"

(* The daemon exits once it was asked to, whatever is under way.              *)
StopEnds == phase = "asked" ~> phase = "exited"

=============================================================================
