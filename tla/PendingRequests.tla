-------------------------- MODULE PendingRequests --------------------------
(***************************************************************************)
(* What a session asks its user: confirmations of tool calls, questions of *)
(* the agent and the choice of a rescue model for a turn or a compaction   *)
(* that failed (agent/session/confirm.go, compaction.go),                  *)
(* the gate in front of the tools (core/confirm.go), and the review list   *)
(* that records what was asked while nobody was attached.                  *)
(*                                                                         *)
(* A goroutine that asks (an "asker") posts a function to the controller's *)
(* actor, which registers the request or refuses it; the asker then waits  *)
(* off the actor on the request's channel, its context and the session's   *)
(* end.  Users answer through the actor, clients come and go, the turn is  *)
(* aborted and the session closes while all this is under way.             *)
(***************************************************************************)
EXTENDS Naturals, Sequences, FiniteSets

CONSTANTS
  Askers,      \* goroutines that ask: turns' tool calls, rescues, compactions
  Keys,        \* what a grant is remembered for (confirmationKey)
  MaxAsks,     \* bound: calls of the gate, questions and rescues
  MaxFaults    \* bound: writes of the review store that fail

ASSUME AskersAssumption == Askers # {} /\ IsFiniteSet(Askers)
ASSUME BoundsAssumption == MaxAsks \in Nat /\ MaxFaults \in Nat

VARIABLES
  attach,      \* Controller.attach
  phase,       \* the session: open, close requested, closing, done
  reqs,        \* every request so far: its kind, key and asker; its place is its id
  pending,     \* confirmState.pending: ids registered and not finished
  result,      \* the request's channel, of capacity one
  deferred,    \* confirmState.deferred, the actions to review
  store,       \* FileDeferredStore.actions
  dispatched,  \* confirmState.dispatched
  pc,          \* where each asker is
  cur,         \* the request it has under way, zero before its first
  cancelled,   \* the context of the asker's turn or compaction is cancelled
  allowAll,    \* ConfirmGate.allowAll
  allowed,     \* ConfirmGate.allowedTool
  faults,
  told,        \* history: the answer of a user who was told that it was taken
  ret,         \* history: what the asker was given
  sent,        \* history: how often an approval was sent to the agent
  settled      \* history: actions a user has taken off the review list

actor   == <<attach, phase, pending, result, deferred, store, dispatched, faults>>
gate    == <<allowAll, allowed>>
history == <<told, ret, sent, settled>>
asking  == <<reqs, cur>>
vars    == <<actor, gate, history, asking, pc, cancelled>>

\* A rescue model is asked for by a failed turn or by a failed compaction.
Rescues == {"rescue", "compaction"}
Kinds   == {"confirm", "question"} \cup Rescues
Allows  == {"allow", "allow_tool", "allow_all"}
Answers(kind) == IF kind = "confirm" THEN Allows \cup {"deny", "deny_all"}
                 ELSE {"answers", "declined"}
Denials == {"denied", "recorded", "cancelled", "closed", "unattached"}
Results == Allows \cup {"deny", "deny_all", "answers", "declined"} \cup Denials
None    == "none"
Ids     == 1..MaxAsks
Asked   == DOMAIN reqs

\* The actor still takes what is posted to it.
Running == phase \in {"open", "requested"}
\* Mutant: post only looks at the end of the session.
RefusingLate == phase = "done"
\* post gives up as soon as the close was requested.
Refusing == phase # "open"

Init ==
  /\ attach = "detached"
  /\ phase = "open"
  /\ reqs = <<>>
  /\ pending = {} /\ deferred = {} /\ store = {} /\ dispatched = {}
  /\ result = [i \in Ids |-> None]
  /\ pc = [a \in Askers |-> "idle"] /\ cur = [a \in Askers |-> 0]
  /\ cancelled = [a \in Askers |-> FALSE]
  /\ allowAll = FALSE /\ allowed = {}
  /\ faults = 0
  /\ told = [i \in Ids |-> None] /\ ret = [i \in Ids |-> None]
  /\ sent = [i \in Ids |-> 0] /\ settled = {}

-----------------------------------------------------------------------------
(* The actor's operations on the registry and on the review list.          *)

\* finishPending: the entry leaves the registry and its channel gets the
\* result.  The channel has room, or the actor would stop here.
FinishAll(ids, r(_)) ==
  /\ \A i \in ids : result[i] = None
  /\ pending' = pending \ ids
  /\ result' = [i \in Ids |-> IF i \in ids THEN r(i) ELSE result[i]]

\* Mutant: only what could not be stored is kept in memory.
RecordLost(ids) ==
  \E lost \in SUBSET ids :
    /\ faults + Cardinality(lost) <= MaxFaults
    /\ faults' = faults + Cardinality(lost)
    /\ store' = store \cup (ids \ lost)
    /\ deferred' = deferred \cup lost
\* recordDeferred: an action whose append fails is kept in memory only.
Record(ids) ==
  \E lost \in SUBSET ids :
    /\ faults + Cardinality(lost) <= MaxFaults
    /\ faults' = faults + Cardinality(lost)
    /\ store' = store \cup (ids \ lost)
    /\ deferred' = deferred \cup ids

\* denyAllPending: when nobody is attached, or the reason says so, everything
\* but a rescue is recorded for review; otherwise it is only denied.
Reviewed(detached) == {i \in pending : detached /\ reqs[i].kind \notin Rescues}
\* Mutant: a rescue is not denied.
DenyReviewable(detached) ==
  /\ Record(Reviewed(detached))
  /\ FinishAll({i \in pending : reqs[i].kind \notin Rescues},
               LAMBDA i : IF i \in Reviewed(detached) THEN "recorded" ELSE "denied")
DenyAll(detached) ==
  /\ Record(Reviewed(detached))
  /\ FinishAll(pending, LAMBDA i : IF i \in Reviewed(detached) THEN "recorded" ELSE "denied")

-----------------------------------------------------------------------------
(* The askers.                                                             *)

Granted(key) == allowAll \/ key \in allowed

\* CheckToolCall of a call that needs no confirmation any more.
PassGate(a, key) ==
  /\ pc[a] = "idle" /\ Len(reqs) < MaxAsks
  /\ Granted(key)
  /\ reqs' = Append(reqs, [kind |-> "confirm", key |-> key, by |-> a])
  /\ ret' = [ret EXCEPT ![Len(reqs) + 1] = "allow"]
  /\ UNCHANGED <<actor, gate, told, sent, settled, cur, pc, cancelled>>

\* CheckToolCall past its memory, AskQuestions and awaitPending: the asker is
\* about to post to the actor.  A rescue or a compaction has a context of its own.
Ask(a, kind, key) ==
  /\ pc[a] = "idle" /\ Len(reqs) < MaxAsks
  /\ kind = "confirm" => ~Granted(key)
  /\ reqs' = Append(reqs, [kind |-> kind, key |-> key, by |-> a])
  /\ cur' = [cur EXCEPT ![a] = Len(reqs) + 1]
  /\ pc' = [pc EXCEPT ![a] = "posting"]
  /\ cancelled' = [cancelled EXCEPT ![a] = @ /\ kind \notin Rescues]
  /\ UNCHANGED <<actor, gate, history>>

\* The asker has its outcome; the gate still has to remember a grant.
Return(a, i, r) ==
  /\ ret' = [ret EXCEPT ![i] = r]
  /\ pc' = [pc EXCEPT ![a] = IF reqs[i].kind = "confirm" THEN "returning" ELSE "idle"]
  /\ UNCHANGED <<gate, told, sent, settled, asking, cancelled>>

\* A confirmation has no context: it is asked even in a cancelled turn.  That of
\* a turn's rescue ends with the session only (SessionGone).
Withdrawn(a) == reqs[cur[a]].kind \in {"question", "compaction"} /\ cancelled[a]

\* registerPending, on the actor, in one step with the check that somebody is
\* attached.
Register(a) ==
  LET i == cur[a] IN
  /\ pc[a] = "posting" /\ Running
  /\ ~Withdrawn(a) /\ attach = "attached"
  /\ pending' = pending \cup {i}
  /\ pc' = [pc EXCEPT ![a] = "waiting"]
  /\ UNCHANGED <<attach, phase, result, deferred, store, dispatched, faults,
                 gate, history, asking, cancelled>>

\* Nobody is attached: the request is recorded for review, a rescue refused.
RefuseDetached(a) ==
  LET i == cur[a] IN
  /\ pc[a] = "posting" /\ Running
  /\ ~Withdrawn(a) /\ attach = "detached"
  /\ IF reqs[i].kind \in Rescues
     THEN Return(a, i, "unattached") /\ UNCHANGED <<deferred, store, faults>>
     ELSE Return(a, i, "recorded") /\ Record({i})
  /\ UNCHANGED <<attach, phase, pending, result, dispatched>>

\* The turn or compaction was aborted before its question reached the actor.
RefuseCancelled(a) ==
  /\ pc[a] = "posting" /\ Running
  /\ Withdrawn(a)
  /\ Return(a, cur[a], "cancelled")
  /\ UNCHANGED actor

\* post fails: the session closes.
RefuseClosed(a) ==
  /\ pc[a] = "posting" /\ Refusing
  /\ Return(a, cur[a], "closed")
  /\ UNCHANGED actor

\* waitPending.  When several of its cases are ready any of them is taken.
Receive(a) ==
  /\ pc[a] = "waiting" /\ result[cur[a]] # None
  /\ Return(a, cur[a], result[cur[a]])
  /\ UNCHANGED actor

GiveUp(a) ==
  /\ pc[a] = "waiting" /\ Withdrawn(a)
  /\ pc' = [pc EXCEPT ![a] = "leaving"]
  /\ UNCHANGED <<actor, gate, history, asking, cancelled>>

\* The request of an asker that gave up is withdrawn on the actor, unless it
\* was finished meanwhile.
Withdraw(a) ==
  /\ pc[a] = "leaving" /\ Running
  /\ FinishAll({cur[a]} \cap pending, LAMBDA i : "cancelled")
  /\ Return(a, cur[a], "cancelled")
  /\ UNCHANGED <<attach, phase, deferred, store, dispatched, faults>>

\* Its call fails: the registry is left to the close.
LeaveClosed(a) ==
  /\ pc[a] = "leaving" /\ Refusing
  /\ Return(a, cur[a], "cancelled")
  /\ UNCHANGED actor

SessionGone(a) ==
  /\ pc[a] = "waiting" /\ phase = "done"
  /\ Return(a, cur[a], "closed")
  /\ UNCHANGED actor

\* Mutant: what the user ticked is remembered although the call was denied.
RememberAnyway(a) ==
  LET i == cur[a] IN
  /\ pc[a] = "returning"
  /\ allowAll' = (allowAll \/ ret[i] \in {"allow_all", "deny_all"})
  /\ allowed' = IF ret[i] = "allow_tool" THEN allowed \cup {reqs[i].key} ELSE allowed
  /\ pc' = [pc EXCEPT ![a] = "idle"]
  /\ UNCHANGED <<actor, history, asking, cancelled>>
\* CheckToolCall after the confirmer has returned: only a grant is remembered.
Remember(a) ==
  LET i == cur[a] IN
  /\ pc[a] = "returning"
  /\ allowAll' = (allowAll \/ ret[i] = "allow_all")
  /\ allowed' = IF ret[i] = "allow_tool" THEN allowed \cup {reqs[i].key} ELSE allowed
  /\ pc' = [pc EXCEPT ![a] = "idle"]
  /\ UNCHANGED <<actor, history, asking, cancelled>>

\* The next turn runs under a context of its own.
NextTurn(a) ==
  /\ pc[a] = "idle" /\ cancelled[a] /\ phase = "open"
  /\ cancelled' = [cancelled EXCEPT ![a] = FALSE]
  /\ UNCHANGED <<actor, gate, history, asking, pc>>

-----------------------------------------------------------------------------
(* The users and clients.                                                  *)

\* AnswerConfirmation, AnswerQuestion: an id that is not registered is an
\* unknown request, whoever answered it or took it back.
Known(i) == i \in pending
Answer(i, d) ==
  /\ Running /\ Known(i)
  /\ d \in Answers(reqs[i].kind)
  /\ FinishAll({i}, LAMBDA j : d)
  /\ told' = [told EXCEPT ![i] = d]
  /\ UNCHANGED <<attach, phase, deferred, store, dispatched, faults, gate, ret, sent,
                 settled, asking, pc, cancelled>>

\* setAttachOnActor
Attach ==
  /\ Running /\ attach = "detached"
  /\ attach' = "attached"
  /\ UNCHANGED <<phase, pending, result, deferred, store, dispatched, faults, gate,
                 history, asking, pc, cancelled>>

Detach ==
  /\ Running /\ attach = "attached"
  /\ attach' = "detached"
  /\ DenyAll(TRUE)
  /\ UNCHANGED <<phase, dispatched, gate, history, asking, pc, cancelled>>

\* Abort of a session that compacts: abortCompaction cancels its context only.
Compacting(a) == pc[a] # "idle" /\ reqs[cur[a]].kind = "compaction"
AbortCompaction(a) ==
  /\ Running
  /\ Compacting(a) /\ ~cancelled[a]
  /\ cancelled' = [cancelled EXCEPT ![a] = TRUE]
  /\ UNCHANGED <<actor, gate, history, asking, pc>>

\* Abort, cancelTurn: the context first, then what the turn asks.
Abort ==
  /\ Running
  /\ \A a \in Askers : ~Compacting(a)
  /\ \E a \in Askers : ~cancelled[a]
  /\ cancelled' = [a \in Askers |-> TRUE]
  /\ DenyAll(attach = "detached")
  /\ UNCHANGED <<attach, phase, dispatched, gate, history, asking, pc>>

\* ResolveDeferred: an approval goes to the agent once, even when the action
\* cannot be taken off the store and the user tries again.  (With an agent that
\* cannot be built the approval fails and nothing changes.)
\* Mutant: a second attempt sends again.
SendAlways(i) == i \in deferred
ToSend(i) == i \notin dispatched
Dispatch(i, send) ==
  IF send /\ ToSend(i)
  THEN dispatched' = dispatched \cup {i} /\ sent' = [sent EXCEPT ![i] = @ + 1]
  ELSE UNCHANGED <<dispatched, sent>>

Resolve(i, send) ==
  /\ Running /\ i \in deferred
  /\ Dispatch(i, send)
  /\ store' = store \ {i}
  /\ deferred' = deferred \ {i}
  /\ settled' = settled \cup {i}
  /\ UNCHANGED <<attach, phase, pending, result, faults, gate, told, ret, asking, pc, cancelled>>

\* The store cannot remove the action: it stays on the list.
ResolveFails(i, send) ==
  /\ Running /\ i \in deferred /\ i \in store
  /\ faults < MaxFaults /\ faults' = faults + 1
  /\ Dispatch(i, send)
  /\ UNCHANGED <<attach, phase, pending, result, deferred, store, gate, told, ret, settled,
                 asking, pc, cancelled>>

-----------------------------------------------------------------------------
(* The end of the session.                                                 *)

\* requestClose, or the end of the daemon's context.
RequestClose ==
  /\ phase = "open"
  /\ phase' = "requested"
  /\ UNCHANGED <<attach, pending, result, deferred, store, dispatched, faults, gate, history,
                 asking, pc, cancelled>>

\* closeOnActor: what is asked is denied before the turn is cancelled.  The
\* reason a client gave may speak of detaching.
CloseOnActor(saysDetached) ==
  /\ phase = "requested"
  /\ phase' = "closing"
  /\ DenyAll(attach = "detached" \/ saysDetached)
  /\ cancelled' = [a \in Askers |-> TRUE]
  /\ UNCHANGED <<attach, dispatched, gate, history, asking, pc>>

\* waitBackground: the goroutines of the turn and of the compaction have
\* returned; that of a turn's rescue is not waited for.
Stopped(a) == pc[a] # "idle" => reqs[cur[a]].kind = "rescue"
CloseDone ==
  /\ phase = "closing"
  /\ \A a \in Askers : Stopped(a)
  /\ phase' = "done"
  /\ UNCHANGED <<attach, pending, result, deferred, store, dispatched, faults, gate, history,
                 asking, pc, cancelled>>

\* waitBackground gives up after turnStopTimeout.
CloseTimesOut ==
  /\ phase = "closing"
  /\ \E a \in Askers : ~Stopped(a)
  /\ phase' = "done"
  /\ UNCHANGED <<attach, pending, result, deferred, store, dispatched, faults, gate, history,
                 asking, pc, cancelled>>

-----------------------------------------------------------------------------
AskerStep(a) ==
  \/ Register(a) \/ RefuseDetached(a) \/ RefuseCancelled(a) \/ RefuseClosed(a)
  \/ Receive(a) \/ GiveUp(a) \/ Withdraw(a) \/ LeaveClosed(a) \/ SessionGone(a)
  \/ Remember(a)

Next ==
  \/ \E a \in Askers :
       \/ \E key \in Keys : PassGate(a, key) \/ \E kind \in Kinds : Ask(a, kind, key)
       \/ AskerStep(a)
       \/ NextTurn(a) \/ AbortCompaction(a)
  \/ \E i \in pending : \E d \in Results : Answer(i, d)
  \/ Attach \/ Detach \/ Abort
  \/ \E i \in deferred, send \in BOOLEAN : Resolve(i, send) \/ ResolveFails(i, send)
  \/ RequestClose
  \/ \E saysDetached \in BOOLEAN : CloseOnActor(saysDetached)
  \/ CloseDone \/ CloseTimesOut

Spec == Init /\ [][Next]_vars

\* The askers and the actor's close run; users, clients, the turns and the
\* timeout of the close owe nothing.
Fairness ==
  /\ \A a \in Askers : WF_vars(AskerStep(a))
  /\ WF_vars(CloseOnActor(FALSE))
  /\ WF_vars(CloseDone)
FairSpec == Spec /\ Fairness

-----------------------------------------------------------------------------
(* Properties.                                                             *)

\* The variables have their types: the requests, the registry, the askers, the
\* gate and the review list.
TypeOK ==
  /\ attach \in {"attached", "detached"}
  /\ phase \in {"open", "requested", "closing", "done"}
  /\ reqs \in Seq([kind : Kinds, key : Keys, by : Askers]) /\ Len(reqs) <= MaxAsks
  /\ pending \subseteq Asked /\ deferred \subseteq Asked /\ settled \subseteq Asked
  /\ store \subseteq deferred /\ dispatched \subseteq deferred \cup settled
  /\ result \in [Ids -> Results \cup {None}]
  /\ pc \in [Askers -> {"idle", "posting", "waiting", "leaving", "returning"}]
  /\ cur \in [Askers -> 0..Len(reqs)] /\ cancelled \in [Askers -> BOOLEAN]
  /\ allowAll \in BOOLEAN /\ allowed \subseteq Keys
  /\ faults \in 0..MaxFaults
  /\ told \in [Ids -> Results \cup {None}] /\ ret \in [Ids -> Results \cup {None}]
  /\ sent \in [Ids -> Nat]

\* A prompt exists only for somebody who waits for its answer and only while a
\* user is there to give it, and whoever waits has a prompt or a result: a
\* detach, an abort or a close that races a registration (confirm.go:208) leaves
\* neither a prompt nobody reads nor an asker nobody will ever answer.  (An
\* aborted compaction can no longer take its prompt back once the close was
\* requested: the close that is about to run denies it.)
PromptsHaveAskers ==
  /\ attach = "detached" \/ phase \in {"closing", "done"} => pending = {}
  /\ \A i \in pending :
       /\ result[i] = None
       /\ \/ pc[reqs[i].by] \in {"waiting", "leaving"} /\ cur[reqs[i].by] = i
          \/ phase = "requested" /\ reqs[i].kind = "compaction"
  /\ \A a \in Askers : pc[a] = "waiting" => cur[a] \in pending \/ result[cur[a]] # None

\* A tool runs only when a user allowed that very call, or had granted its tool
\* or every tool before, however late, twice or beside the point the answers
\* came (confirm.go:103, core/confirm.go:128).
Runs(i) == reqs[i].kind = "confirm" /\ ret[i] \in Allows
RunsAreAllowed ==
  \A i \in Asked : Runs(i) =>
    \/ told[i] \in Allows
    \/ \E j \in 1..(i - 1) : /\ told[j] = "allow_all" \/ (told[j] = "allow_tool" /\ reqs[j].key = reqs[i].key)
                             /\ ret[j] = told[j]

\* What was recorded for review stays on the list until a user settles it, and
\* an approval reaches the agent at most once, also when the store fails and the
\* user tries again (confirm.go:266); what is on the list did not run.
ReviewIsKept ==
  \A i \in Asked :
    /\ ret[i] = "recorded" \/ result[i] = "recorded" => i \in deferred \cup settled
    /\ i \in deferred \cup settled => told[i] = None /\ ~Runs(i)
    /\ sent[i] <= 1

\* A session that is asked to close closes without the timeout: the actor waits
\* for the turn, and the turn never waits for the actor (sessionops.go:80).
ClosesUnaided == phase = "requested" ~> phase = "done"
=============================================================================
