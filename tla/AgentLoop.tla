----------------------------- MODULE AgentLoop -----------------------------
(***************************************************************************)
(* The agent's loop of model and tool calls (core/agent.go), what it does   *)
(* to its transcript (dynamic_context.go, compact.go) and the way the       *)
(* transcript reaches the session's file: the hook the loop runs after *)
(* each message it has appended in memory, and the catch-up flush that the *)
(* session's actor runs from time to time (session_assembly.go, cli.go).   *)
(*                                                                         *)
(* The file is modelled by what a load makes of it: a compaction row       *)
(* replaces every row before it.                                           *)
(*                                                                         *)
(* Left out: the repetition guard and the step limit, which end a turn or  *)
(* append a nudge more; the user message that mirrors a result's images;   *)
(* a stop for tool use without a call, which appends a message without     *)
(* results; plans, usage and the tools that results activate.              *)
(***************************************************************************)
EXTENDS Transcripts, Naturals, Sequences, FiniteSets

CONSTANTS
  HostSets,        \* which inputs are the host's (reports): one set of numbers of these
  KeepTail,        \* the messages that a compaction keeps
  MaxInputs, MaxReplies, MaxCalls, MaxRetries, MaxDue,   \* bounds
  MaxIncidents     \* bound: contexts, compactions, aborts, failed writes and crashes in all

ASSUME BoundsAssumption ==
  /\ {KeepTail, MaxInputs, MaxReplies, MaxCalls, MaxRetries, MaxDue, MaxIncidents} \subseteq Nat
  /\ HostSets # {} /\ HostSets \subseteq SUBSET (1..MaxInputs)

VARIABLES
  mem,        \* Agent.messages
  disk,       \* the session's file
  unsaved,    \* what was appended in memory and waits for its hook
  baseline,   \* sessionAssembly.baseline, the messages taken for saved
  broken,     \* a write failed: the buffered writer refuses every later one
  host,       \* QueuedMessage.HostEvent: the inputs that are the host's
  due,        \* the flushes the actor has still to run
  pc,         \* where the loop is
  stop,       \* how the reply it looks at has ended
  queue,      \* Agent.queued
  batch,      \* what it has drained and still has to append
  cancelled,  \* the turn's context is cancelled
  answered,   \* how many calls of the last reply have a result
  skipping,   \* executeTools: the rest of the calls is skipped
  retries,    \* attempts repeated in this step
  recovered,  \* recoveryUsed
  inputs, replies, incidents,   \* counters: inputs accepted, requests that ended, incidents
  dropped,    \* history: failed replies taken out of memory only
  summarised, \* history: messages that a compaction has replaced
  twice,      \* history: messages that the flush wrote before their hook
  resent,     \* history: messages that it wrote again beyond a rolled back compaction
  lost,       \* history: inputs that ended with the process or an abort
  rolledBack  \* history: a compaction is undone in memory only

file    == <<disk, baseline, broken>>
turn    == <<stop, answered, skipping, retries, recovered>>
counts  == <<inputs, replies, incidents>>
history == <<dropped, summarised, twice, resent, lost, rolledBack>>
vars    == <<mem, file, unsaved, host, due, pc, queue, batch, cancelled, turn, counts, history>>

None == [op |-> "none", msgs |-> <<>>]

UserWaits == \E i \in 1..Len(queue) : queue[i] \notin host

\* latestInternalContext: the latest context, and the transcript without any.
Contexts == {i \in 1..Len(mem) : mem[i].kind = "context"}
Talk     == Only(mem, {m \in ToSet(mem) : m.kind # "context"})

\* compactTail
Tailed == IF KeepTail < Len(mem) THEN KeepTail ELSE Len(mem) - 1
\* The transcript a compaction leaves: the latest context, the summary, the tail.
Compacted ==
  LET tail == SubSeq(Talk, Len(Talk) - Tailed + 1, Len(Talk))
      last == IF Contexts = {} THEN <<>> ELSE <<mem[Max(Contexts)]>>
  IN  last \o <<Summary(incidents + 1)>> \o WithoutOrphans(tail)

-----------------------------------------------------------------------------
Init ==
  /\ mem = <<>> /\ disk = <<>> /\ unsaved = None /\ baseline = 0 /\ broken = FALSE /\ host \in HostSets /\ due = 0
  /\ pc = "idle" /\ queue = <<>> /\ batch = <<>> /\ cancelled = FALSE
  /\ stop = "end" /\ answered = 0 /\ skipping = FALSE /\ retries = 0 /\ recovered = FALSE
  /\ inputs = 0 /\ replies = 0 /\ incidents = 0
  /\ dropped = {} /\ summarised = {} /\ twice = {} /\ resent = {} /\ lost = {} /\ rolledBack = FALSE

Incident == incidents < MaxIncidents /\ incidents' = incidents + 1

\* The loop appends a message and then runs OnMessageAppended, or replaces the
\* transcript and runs OnTranscriptCompacted.
AppendMsg(m) == mem' = Append(mem, m) /\ unsaved' = [op |-> "append", msgs |-> <<m>>]
Replace(ms)  == mem' = ms /\ unsaved' = [op |-> "replace", msgs |-> ms]
\* It goes on when the hook has returned and what it has drained is appended.
Free == unsaved = None /\ batch = <<>>

-----------------------------------------------------------------------------
(* The hooks and the flush.  Each runs under the assembly's lock.          *)

\* The event of an assistant message, sent after the hook, makes the actor flush.
Due == IF unsaved.op = "append" /\ unsaved.msgs[1].kind = "reply" /\ due < MaxDue THEN due + 1 ELSE due

\* Mutant: the hook leaves the count to the flush.
CountedLater == baseline
\* OnMessageAppended: the row is written, and counted as saved.
Counted == baseline + 1
SaveAppended ==
  /\ unsaved.op = "append" /\ ~ broken
  /\ disk' = disk \o unsaved.msgs
  /\ baseline' = Counted
  /\ unsaved' = None
  /\ due' = Due
  /\ UNCHANGED <<host, mem, broken, pc, queue, batch, cancelled, turn, counts, history>>

\* OnTranscriptCompacted: one row replaces the transcript.
SaveReplaced ==
  /\ unsaved.op = "replace" /\ ~ broken
  /\ disk' = unsaved.msgs
  /\ baseline' = Len(unsaved.msgs)
  /\ unsaved' = None /\ rolledBack' = FALSE
  /\ UNCHANGED <<host, mem, broken, due, pc, queue, batch, cancelled, turn, counts, dropped, summarised,
                 twice, resent, lost>>

\* A write fails, and the buffered writer refuses every later one; the hooks
\* ignore it.
DiskFails ==
  /\ unsaved # None \/ due > 0 \/ pc \in {"ended", "failed"}
  /\ ~ broken /\ broken' = TRUE /\ Incident
  /\ UNCHANGED <<host, mem, disk, baseline, unsaved, due, pc, queue, batch, cancelled, turn, inputs,
                 replies, history>>
SaveFails ==
  /\ unsaved # None /\ broken
  /\ unsaved' = None
  /\ due' = Due
  /\ UNCHANGED <<host, mem, file, pc, queue, batch, cancelled, turn, counts, history>>

\* FlushSession, writeNewTranscriptLocked: the actor writes what lies beyond the
\* baseline, whether or not its hook is about to write it too.
Beyond == SubSeq(mem, baseline + 1, Len(mem))
FlushRows ==
  /\ disk' = IF broken THEN disk ELSE disk \o Beyond
  /\ baseline' = IF broken /\ Beyond # <<>> THEN baseline ELSE Len(mem)
\* What it writes that a hook will write too, and what it writes beyond the count
\* that a rolled back compaction has left.
WrittenTwice ==
  /\ twice' = IF broken \/ rolledBack THEN twice ELSE twice \cup (ToSet(unsaved.msgs) \cap ToSet(Beyond))
  /\ resent' = IF rolledBack /\ ~ broken THEN resent \cup ToSet(Beyond) ELSE resent
Flush ==
  /\ due > 0 /\ due' = due - 1
  /\ FlushRows /\ WrittenTwice
  /\ UNCHANGED <<host, mem, unsaved, broken, pc, queue, batch, cancelled, turn, counts, dropped,
                 summarised, lost, rolledBack>>

-----------------------------------------------------------------------------
(* The inputs.                                                             *)

\* The call that the gate asks about may run, or has its result: the refusal.
Answer(to) == pc' = to /\ answered' = IF to = "tools" THEN answered + 1 ELSE answered

\* Submit, when the session is idle: a turn begins with the user's message, or
\* with a report of the host at the end of the queue.
Prompt ==
  /\ pc = "idle" /\ Free /\ inputs < MaxInputs
  /\ inputs' = inputs + 1
  /\ IF inputs' \in host THEN queue' = Append(queue, inputs') /\ UNCHANGED <<mem, unsaved>>
     ELSE AppendMsg(User(inputs')) /\ UNCHANGED queue
  /\ pc' = "head"
  /\ UNCHANGED <<host, file, due, batch, cancelled, turn, replies, incidents, history>>

\* Submit, when it is busy: QueuePrompt.
Enqueue ==
  /\ pc # "idle" /\ inputs < MaxInputs
  /\ inputs' = inputs + 1
  /\ queue' = Append(queue, inputs')
  /\ UNCHANGED <<host, mem, file, unsaved, due, pc, batch, cancelled, turn, replies, incidents,
                 history>>

\* cancelTurn: the context is cancelled, and what the gate is asking now denied.
Abort ==
  /\ pc # "idle" /\ ~ cancelled
  /\ cancelled' = TRUE /\ Incident
  /\ IF pc = "asking" THEN Answer("tools") ELSE UNCHANGED <<pc, answered>>
  /\ UNCHANGED <<host, mem, file, unsaved, due, queue, batch, stop, skipping, retries, recovered, inputs,
                 replies, history>>

\* drainQueuedMessages, then appendQueuedAsUser one by one.
Drain ==
  /\ batch' = queue
  /\ queue' = <<>>
AppendDrained ==
  /\ unsaved = None /\ batch # <<>>
  /\ AppendMsg(User(Head(batch)))
  /\ batch' = Tail(batch)
  /\ UNCHANGED <<host, file, due, pc, queue, cancelled, turn, counts, history>>

-----------------------------------------------------------------------------
(* runLoop and oneTurn.                                                    *)

\* The loop returns, with an error or without.
Locals(s, r, k, t, v) == stop' = s /\ answered' = r /\ skipping' = k /\ retries' = t /\ recovered' = v
Return(how) == pc' = how /\ Locals("end", 0, FALSE, 0, FALSE)

\* Mutant: what came too late waits for the next submission.
AfterTurnIdle == "idle"
\* finishTurn, on the actor after the turn's events: it flushes, and discards what
\* is queued when the turn was aborted, the user's part of it when it failed; when
\* it ended well, what came too late for it begins the next one.
Kept(i) == ~ cancelled /\ (pc = "failed" => i \in host)
AfterTurn == IF pc = "ended" /\ queue' # <<>> THEN "head" ELSE "idle"
FinishTurn ==
  /\ pc \in {"ended", "failed"} /\ due = 0
  /\ FlushRows /\ WrittenTwice
  /\ queue' = Only(queue, {i \in ToSet(queue) : Kept(i)})
  /\ lost' = lost \cup (ToSet(queue) \ ToSet(queue'))
  /\ pc' = AfterTurn
  /\ cancelled' = FALSE
  /\ UNCHANGED <<host, mem, unsaved, broken, due, batch, turn, counts, dropped, summarised, rolledBack>>

LoopHead ==
  /\ pc = "head" /\ Free
  /\ Drain
  /\ pc' = "context" /\ retries' = 0
  /\ UNCHANGED <<host, mem, file, unsaved, due, cancelled, stop, answered, skipping, recovered, counts,
                 history>>

\* BeforeTurnContext refuses the turn.
Blocked ==
  /\ pc = "context" /\ Free
  /\ Return("ended")
  /\ UNCHANGED <<host, mem, file, unsaved, due, queue, batch, cancelled, counts, history>>

\* appendDynamicContext: nothing new, the first context in front of everything,
\* or a later one at the end.
SameContext ==
  /\ pc = "context" /\ Free
  /\ pc' = "ready"
  /\ UNCHANGED <<host, mem, file, unsaved, due, queue, batch, cancelled, turn, counts, history>>

NewContext ==
  /\ pc = "context" /\ Free /\ Incident
  /\ IF Contexts = {} THEN Replace(<<Context(incidents + 1)>> \o mem)
     ELSE AppendMsg(Context(incidents + 1))
  /\ pc' = "ready"
  /\ UNCHANGED <<host, file, due, queue, batch, cancelled, turn, inputs, replies, history>>

\* The request is the repaired transcript.
Request == Repair(mem)
Send ==
  /\ pc = "ready" /\ Free
  /\ pc' = "streaming"
  /\ UNCHANGED <<host, mem, file, unsaved, due, queue, batch, cancelled, turn, counts, history>>

OpenFails ==
  /\ pc = "ready" /\ Free
  /\ Return("failed")
  /\ UNCHANGED <<host, mem, file, unsaved, due, queue, batch, cancelled, counts, history>>

\* Mutant: only an event of the provider is looked at.
NoticesNever == FALSE
\* The stream's loop sees the cancellation even when the provider is silent.
Notices == cancelled
StreamCancelled ==
  /\ pc = "streaming" /\ Notices
  /\ Return("failed")
  /\ UNCHANGED <<host, mem, file, unsaved, due, queue, batch, cancelled, counts, history>>

\* EventDone with a reply that is kept; one that stops for tools calls some.
StreamEnds(how, calls) ==
  /\ pc = "streaming" /\ replies < MaxReplies
  /\ how = "tools" => calls # {}
  /\ how = "continue" => calls = {}
  /\ how = "aborted" => cancelled /\ calls = {}
  /\ replies' = replies + 1
  /\ AppendMsg(Reply(replies + 1, calls))
  /\ stop' = how /\ pc' = "replied"
  /\ UNCHANGED <<host, file, due, queue, batch, cancelled, answered, skipping, retries, recovered, inputs,
                 incidents, history>>

\* It ends without anything that is kept: an empty reply, a timeout, an error
\* before the first content, an aborted reply that calls tools.
StreamEndsEmpty(how) ==
  /\ pc = "streaming" /\ replies < MaxReplies
  /\ replies' = replies + 1
  /\ how = "aborted" => cancelled
  /\ stop' = IF how = "failed" THEN "failed_empty" ELSE how
  /\ pc' = "replied"
  /\ UNCHANGED <<host, mem, file, unsaved, due, queue, batch, cancelled, answered, skipping, retries,
                 recovered, inputs, incidents, history>>

\* A failed attempt is repeated: what it appended is taken out of memory, not
\* out of the file.
TakenOut == IF stop = "failed" THEN SubSeq(mem, 1, Len(mem) - 1) ELSE mem
Retry ==
  /\ pc = "replied" /\ Free /\ stop \in {"failed", "failed_empty"}
  /\ ~ cancelled /\ retries < MaxRetries
  /\ retries' = retries + 1
  /\ mem' = TakenOut
  /\ dropped' = IF stop = "failed" THEN dropped \cup {Last(mem)} ELSE dropped
  /\ pc' = "backoff"
  /\ UNCHANGED <<host, file, unsaved, due, queue, batch, cancelled, stop, answered, skipping, recovered,
                 counts, summarised, twice, resent, lost, rolledBack>>

GiveUp ==
  /\ pc = "replied" /\ Free /\ stop \in {"failed", "failed_empty"}
  /\ Return("failed")
  /\ UNCHANGED <<host, mem, file, unsaved, due, queue, batch, cancelled, counts, history>>

\* The wait before the next attempt, and the inputs queued meanwhile.
Wait ==
  /\ pc = "backoff" /\ Free
  /\ IF cancelled THEN Return("failed") /\ UNCHANGED <<queue, batch>>
     ELSE Drain /\ pc' = "ready" /\ UNCHANGED turn
  /\ UNCHANGED <<host, mem, file, unsaved, due, cancelled, counts, history>>

\* The reply wants to go on, or ended while an input was queued.
GoOn ==
  /\ pc = "replied" /\ Free /\ ~ cancelled
  /\ stop = "continue" \/ (stop = "end" /\ queue # <<>>)
  /\ pc' = "head"
  /\ UNCHANGED <<host, mem, file, unsaved, due, queue, batch, cancelled, turn, counts, history>>

\* A reply without an answer is continued once.
Recover ==
  /\ pc = "replied" /\ Free /\ stop = "end" /\ queue = <<>> /\ ~ cancelled /\ ~ recovered
  /\ recovered' = TRUE
  /\ AppendMsg(Nudge)
  /\ pc' = "head"
  /\ UNCHANGED <<host, file, due, queue, batch, cancelled, stop, answered, skipping, retries, counts,
                 history>>

TurnEnds ==
  /\ pc = "replied" /\ Free
  /\ \/ stop = "continue" /\ cancelled /\ Return("failed")
     \/ stop = "aborted" /\ Return("ended")
     \/ stop = "end" /\ (cancelled \/ queue = <<>>) /\ Return("ended")
     \/ stop = "end" /\ recovered /\ (cancelled \/ queue = <<>>) /\ Return("failed")
  /\ UNCHANGED <<host, mem, file, unsaved, due, queue, batch, cancelled, counts, history>>

-----------------------------------------------------------------------------
(* executeTools                                                            *)

Calling == Last(mem)
\* Mutant: a call too many.
LeftOver == {i \in Calling.calls : i >= answered}
Left    == {i \in Calling.calls : i > answered}
Skips   == skipping \/ (answered > 0 /\ UserWaits)

ToolsBegin ==
  /\ pc = "replied" /\ Free /\ stop = "tools"
  /\ answered' = 0 /\ skipping' = FALSE
  /\ pc' = "tools"
  /\ UNCHANGED <<host, mem, file, unsaved, due, queue, batch, cancelled, stop, retries, recovered, counts,
                 history>>

\* A user message has come: the calls that were not started are skipped.
SkipCall ==
  /\ pc = "tools" /\ Left # {} /\ Skips
  /\ skipping' = TRUE
  /\ answered' = answered + 1
  /\ UNCHANGED <<host, mem, file, unsaved, due, pc, queue, batch, cancelled, stop, retries, recovered,
                 counts, history>>

\* runOneTool: the gate or an extension refuses the call at once, or the tool
\* runs, or the gate asks first.
RefuseCall ==
  /\ pc = "tools" /\ Left # {} /\ ~ Skips
  /\ answered' = answered + 1
  /\ UNCHANGED <<host, mem, file, unsaved, due, pc, queue, batch, cancelled, stop, skipping, retries,
                 recovered, counts, history>>

StartTool ==
  /\ pc = "tools" /\ Left # {} /\ ~ Skips
  /\ pc' = "running"
  /\ UNCHANGED <<host, mem, file, unsaved, due, queue, batch, cancelled, turn, counts, history>>

\* The gate asks, whether or not the turn is aborted, and waits without the
\* turn's context: for the user, a detach, or an abort after the question.
AskUser ==
  /\ pc = "tools" /\ Left # {} /\ ~ Skips
  /\ pc' = "asking"
  /\ UNCHANGED <<host, mem, file, unsaved, due, queue, batch, cancelled, turn, counts, history>>

UserAnswers ==
  /\ pc = "asking"
  /\ \E to \in {"running", "tools"} : Answer(to)
  /\ UNCHANGED <<host, mem, file, unsaved, due, queue, batch, cancelled, stop, skipping, retries,
                 recovered, counts, history>>

ToolReturns ==
  /\ pc = "running"
  /\ answered' = answered + 1
  /\ pc' = "tools"
  /\ UNCHANGED <<host, mem, file, unsaved, due, queue, batch, cancelled, stop, skipping, retries,
                 recovered, counts, history>>

ToolsEnd ==
  /\ pc = "tools" /\ Left = {}
  /\ AppendMsg(Results(Calling.n, {<<i, "result">> : i \in Calling.calls}))
  /\ pc' = "answered"
  /\ UNCHANGED <<host, file, due, queue, batch, cancelled, turn, counts, history>>

AfterTools ==
  /\ pc = "answered" /\ Free
  /\ IF cancelled THEN Return("failed")
     ELSE pc' = "head" /\ Locals(stop, 0, FALSE, retries, recovered)
  /\ UNCHANGED <<host, mem, file, unsaved, due, queue, batch, cancelled, counts, history>>

-----------------------------------------------------------------------------
(* Compaction between turns, and the end of the process.                   *)

\* It owns the transcript from its snapshot to its replacement; a failure leaves
\* everything as it was.
CanCompact == pc = "idle" /\ Free /\ mem # <<>> /\ Tailed < Len(Talk) /\ Incident
Compact ==
  /\ CanCompact
  /\ Replace(Compacted)
  /\ summarised' = summarised \cup (ToSet(mem) \ ToSet(Compacted))
  /\ UNCHANGED <<host, file, due, pc, queue, batch, cancelled, turn, inputs, replies, dropped, twice,
                 resent, lost, rolledBack>>

\* The user has aborted it, but the summary has won: beginCompact puts the
\* messages back in memory, and the file stays as the hook has left it.
RollBack ==
  /\ CanCompact
  /\ disk' = IF broken THEN disk ELSE Compacted
  /\ baseline' = IF broken THEN baseline ELSE Len(Compacted)
  /\ rolledBack' = (rolledBack \/ ~ broken)
  /\ summarised' = summarised \cup (ToSet(mem) \ ToSet(Compacted))
  /\ UNCHANGED <<host, mem, unsaved, broken, due, pc, queue, batch, cancelled, turn, inputs, replies,
                 dropped, twice, resent, lost>>

\* The process ends, and a later one resumes the session.
AtRisk == ToSet(queue) \cup ToSet(batch)
          \cup {n \in 1..inputs : /\ User(n) \notin ToSet(disk) \cup summarised
                                  /\ broken \/ unsaved.msgs = <<User(n)>>}
Restart ==
  /\ Incident
  /\ mem' = Repair(disk)
  /\ baseline' = Len(mem')
  /\ unsaved' = None /\ broken' = FALSE /\ due' = 0
  /\ Return("idle") /\ queue' = <<>> /\ batch' = <<>> /\ cancelled' = FALSE
  /\ lost' = lost \cup AtRisk
  /\ dropped' = {} /\ rolledBack' = FALSE
  /\ UNCHANGED <<host, disk, inputs, replies, summarised, twice, resent>>

-----------------------------------------------------------------------------
LoopStep ==
  \/ AppendDrained \/ LoopHead \/ Blocked \/ SameContext \/ NewContext \/ Send \/ OpenFails
  \/ StreamCancelled \/ Retry \/ GiveUp \/ Wait \/ GoOn \/ Recover \/ TurnEnds
  \/ ToolsBegin \/ SkipCall \/ RefuseCall \/ StartTool \/ AskUser \/ ToolReturns \/ ToolsEnd \/ AfterTools
Hook == SaveAppended \/ SaveReplaced \/ SaveFails
Provider ==
  \/ \E how \in {"continue", "tools", "end", "failed", "aborted"}, c \in {0, MaxCalls} : StreamEnds(how, 1..c)
  \/ \E how \in {"end", "failed", "aborted"} : StreamEndsEmpty(how)

Next ==
  \/ LoopStep \/ Hook \/ Provider \/ DiskFails \/ Flush \/ FinishTurn
  \/ Prompt \/ Enqueue \/ Abort \/ UserAnswers
  \/ Compact \/ RollBack \/ Restart

Spec == Init /\ [][Next]_vars
\* While an abort is pending, the loop, its hooks and the actor run, and tools
\* return because their context is cancelled; the provider and the user owe
\* nothing.
FairSpec ==
  /\ Spec
  /\ WF_vars(cancelled /\ LoopStep) /\ WF_vars(cancelled /\ Hook)
  /\ WF_vars(cancelled /\ (Flush \/ FinishTurn))

-----------------------------------------------------------------------------
(* Properties.                                                             *)

Messages == [kind : {"user", "context", "reply", "results", "summary", "nudge"}, n : Nat,
             calls : SUBSET (1..MaxCalls), res : SUBSET ((1..MaxCalls) \X Outcomes)]

\* The variables have their types.
TypeOK ==
  /\ {mem, disk} \subseteq Seq(Messages)
  /\ unsaved = None \/ (unsaved.op \in {"append", "replace"} /\ unsaved.msgs \in Seq(Messages))
  /\ {baseline, due, inputs, replies, incidents} \subseteq Nat
  /\ {broken, cancelled, skipping, recovered, rolledBack} \subseteq BOOLEAN
  /\ pc \in {"idle", "head", "context", "ready", "streaming", "replied", "backoff", "tools",
             "asking", "running", "answered", "ended", "failed"}
  /\ stop \in {"continue", "tools", "end", "failed", "failed_empty", "aborted"} /\ host \in HostSets
  /\ {queue, batch} \subseteq Seq(1..MaxInputs)
  /\ answered \in 0..MaxCalls /\ retries \in 0..MaxRetries
  /\ dropped \cup summarised \cup twice \cup resent \subseteq Messages
  /\ lost \subseteq 1..MaxInputs

\* What the provider is asked is a transcript it accepts, every call followed by
\* its results and no result without its call, after aborts, failed attempts,
\* compactions and restarts alike (agent.go:1222); and the repair that makes it so
\* replaces no result the loop has recorded by a stub (compact.go:169).
RequestsAreFaithful ==
  pc = "streaming" =>
    LET sent == Request IN
    /\ \A i \in 1..Len(sent) :
         /\ CallsTools(sent[i]) =>
              /\ i < Len(sent) /\ sent[i + 1].kind = "results" /\ sent[i + 1].n = sent[i].n
              /\ {r[1] : r \in sent[i + 1].res} = sent[i].calls
         /\ sent[i].kind = "results" => i > 1 /\ CallsTools(sent[i - 1])
    /\ \A i \in 1..Len(mem) : mem[i].kind = "results" /\ ~ Stubbed(mem[i]) => mem[i] \in ToSet(sent)

\* While the file takes writes it holds the transcript in its order, besides it
\* only replies of attempts that were repeated and what was written again beyond a
\* rolled back compaction, and no row twice but those and the ones that the flush
\* took before their hook: retries, replacements, the flush and a resume move the
\* baseline away from the transcript's length, and no row may be missed for it
\* (session_assembly.go:488, cli.go:1036).
FileFollowsMemory ==
  unsaved = None /\ ~ broken /\ ~ rolledBack =>
    /\ \A m \in ToSet(mem) : Stubbed(m) \/ m \in ToSet(disk)
    /\ \A i, j \in 1..Len(mem) : i < j /\ ~ Stubbed(mem[i]) /\ ~ Stubbed(mem[j]) =>
         \E p, q \in 1..Len(disk) : p < q /\ disk[p] = mem[i] /\ disk[q] = mem[j]
    /\ \A m \in ToSet(disk) : Stubbed(m) \/ m \in ToSet(mem) \cup dropped \cup resent
    /\ \A i, j \in 1..Len(disk) : i < j /\ disk[i] = disk[j] =>
         Stubbed(disk[i]) \/ disk[i] \in twice \cup resent \cup {Nudge}

\* No tool runs before its call is in the file: whoever resumes the session after
\* a crash learns that it may have run (agent.go:1375).
RunsAreRecorded == pc = "running" /\ ~ broken => Calling \in ToSet(disk)

TranscriptIsKept == FileFollowsMemory /\ RunsAreRecorded

\* An accepted input is queued, in the transcript or in its summary, in the order
\* of acceptance but for reports of the host that waited and for what was written
\* again beyond a rolled back compaction, unless its turn was aborted or failed or
\* the process ended before it was saved; and none of the user's waits while
\* nothing runs (turn.go:424).
InputsAreKept ==
  /\ \A n \in 1..inputs :
       n \in ToSet(queue) \cup ToSet(batch) \cup lost \/ User(n) \in ToSet(mem) \cup summarised
  /\ LET order == [i \in 1..Len(mem) |-> IF mem[i].kind = "user" THEN mem[i].n ELSE 0]
         all   == order \o batch \o queue
     IN  \A i, j \in 1..Len(all) :
           i < j /\ 0 \notin {all[i], all[j]} /\ all[j] \notin host /\ User(all[j]) \notin resent
             => all[i] <= all[j]
  /\ pc = "idle" => ToSet(queue) \subseteq host

\* An aborted turn ends, whatever is queued and however silent the provider is,
\* unless the gate asks after the abort (confirm.go:193) and is never answered.
AbortEnds == []<>(pc # "asking") => (cancelled ~> ~ cancelled)
=============================================================================
