# A TLA+ verification of zut

zut is a coding agent. A daemon runs its sessions, keeps their transcripts and
schedules, and serves them over a local socket to clients that attach and detach
(terminal UI, headless runs, RPC, bots). This directory holds TLA+ models of its
concurrent core, TLC instances that check them and TLAPS proofs about them.

Contents: [the system](#the-system) (inventory), [modules](#modules) (how state and
actions correspond to the code), [runs](#runs) (bounds and what they show),
[findings](#findings), [proofs](#proofs), [what is not modelled](#what-is-not-modelled),
[plan](#plan).

To check: `tlc -workers 2 -config X.cfg M` for each row of the table of runs, and
`tlapm M.tla` for each module whose name ends in `Proofs` and for `SequenceFacts`. `PROJECT.json` lists every component, run, hazard and
theorem, maps each definition to the lines it models, and names for each property a
mutated definition (marked "mutant" in the modules) under which TLC finds it violated.

## The system

Paths are relative to `packages/`. "Hard" is what tests of one goroutine do not reach.

| component | state it keeps | operations | hard | what makes it correct |
|---|---|---|---|---|
| schedule engine (`agent/scheduler`) | task map with queued/running marks, the schedules file | Add, Cancel, CancelSession, Run loop, claim, execute, finish, load | transactions over a file that may fail, be unsynced or lost in a crash; wake-ups; a second process | an acknowledged task survives, a cancelled one stays gone, an occurrence runs once, a due task is taken |
| cron (`agent/scheduler/cron.go`) | none | Parse, Next | calendar search, impossible dates | Next is the first match after a time |
| session actor and event stream (`agent/session/controller.go`, `agent/daemon/server.go`, `agent/daemonclient/port.go`) | sequence, ring, subscriptions; forwarders; the client's cursor and channel | publish, subscribe, forward, deliver, recover, close | slow consumers on both sides, cancelled forwarders, gaps, lost connections | the consumer reads every event once and in order or is told to refetch; the actor never waits for a consumer |
| daemon lifecycle (`agent/daemon/lifecycle.go`, `gc.go`, `server.go`, `registry.go`) | registry, control of sessions, transcript locks, connections | create, attach, detach, close, clear, collect, disconnect, shut down | operations of one mutex against connections, sessions that end, handlers that check and act later | one writer per transcript, no leaked lock, no session controlled by a connection that has gone, shutdown ends |
| session turns (`agent/session/turn.go`, `compaction.go`, `goal.go`, `settings.go`) | the controller's and the agent's queues, the running turn, compaction, rescue, goal lease | submit, abort, take back, compact, set model, set goal, finish a turn | callbacks that arrive after the state they were about has changed | no prompt is lost, doubled or stranded; one owner of the transcript; the goal goes on, and stops when interrupted |
| session prompts (`agent/session/confirm.go`, `deferred_store.go`, `core/confirm.go`) | pending confirmations and questions, the gate's grants, the review list and its file | ask, answer, deny on detach, defer, approve, close | an answer that races a detach, an abort or the close | an asker is answered exactly once; nothing runs that nobody allowed; a denied action is kept for review |
| directory and bots (`agent/daemon/directory.go`, `bot.go`) | delivery queue per target, bot ownership | send, deliver, register, resume | delivery to a session that closes | a message is delivered once or reported |
| protocol and client connection (`agent/daemonproto`, `agent/daemonclient`) | request table, codec | request, respond, notify, ensure a daemon | late responses, start races | a request is answered once or fails with its connection |
| daemon process (`agent/daemoncmd.go`, `agent/daemon/lock.go`) | pid file, lock, socket | start, stop | two starts at a time | one daemon |
| agent loop (`core/agent.go`, `compact.go`, `dynamic_context.go`, `turn_recovery.go`) | messages, queued messages, repetition guard | prompt, continue, run tools, retry, compact | cancellation between a tool's effect and its result; inputs that arrive at any point | every request is a transcript the provider accepts; no queued input is lost |
| transcripts (`core/session.go`, `agent/session_assembly.go`, `agent/cli.go`) | an append-only file, the count of what is saved | append, replace, flush, load, repair | the hook of a message against the actor's flush; a crash or a failed write in between | what was said is in the file, in order, once |
| residents (`agent/subagents`) | children, their journals, the slots | spawn, resume, steer, interrupt, stop, reconcile | acceptance, control loop, runner and disk each fail or end on their own | each accepted turn is reported once; slots are not leaked; a journal can be replayed |
| resident reports (`agent/session/residents.go`, `resident_mailbox.go`) | a mailbox of completions | offer, deliver, acknowledge | a report that races the end of a turn | each accepted completion is delivered once |
| orchestration (`agent/internal/orchestration`) | waves of workers and their completions | accept, complete, run start and end | completions that race the end of the manager's turn | each completion is reported once |
| MCP, language servers, extensions (`agent/mcp`, `agent/lsp`, `agent/extensions`) | pools of subprocesses, request tables | acquire, release, call, idle close | a server that dies while it is acquired | a lease keeps its server alive, a call ends |
| ordered pipe (`agent/internal/ndjson`) | a bounded queue before a handler | push, drain, close | close against push | order is kept |
| tools, providers, front ends, skills, configuration, updates, dictation | files, network, terminal | | little concurrency of their own | not modelled |

How they interact: a connection's handlers call the lifecycle (under `opMu`) or a
session's port. A session is an actor: every call is a closure on one channel, and
the agent's loop, compactions, rescues, residents and timers are goroutines that post
their results back to it. The actor publishes events; the daemon forwards them. The
scheduler, residents, extensions and other sessions submit input to sessions they do
not control. `PROJECT.json` lists the hazards of these, with the line where each bites and the
properties that catch it; those where the code itself goes the wrong way, so that no property can hold, are under [findings](#findings).

## Modules

| module | role |
|---|---|
| `Scheduler`, `MCScheduler`, `SchedulerProofs` | the schedule engine and its file store; instance; theorems on reservations, and on what is remembered |
| `EventStream`, `MCEventStream`, `EventStreamProofs` | one session's events on their way to one remote subscriber |
| `SessionReader` | the abstract specification `EventStream` implements (`ReadsInOrder`) |
| `DaemonLifecycle`, `MCDaemonLifecycle`, `DaemonLifecycleProofs` | the registry of sessions and its lifecycle operations |
| `SessionTurn`, `MCSessionTurn`, `SessionTurnProofs` | the inputs of one session and what works on its transcript |
| `Transcripts` | the messages of a transcript and its two repairs, in closed form and as the loops of the code |
| `AgentLoop`, `AgentLoopProofs` | the loop below a session's turn: messages, requests, tool calls, and the file they are saved in |
| `PendingRequests`, `PendingRequestsProofs` | what a session asks its user, the gate in front of the tools, the review list |
| `Residents`, `MCResidents`, `ResidentsProofs` | the resident subagents of a session: manager, control loops, slots, journals |
| `Filters`, `SequenceFacts` | the part of a sequence that lies in a set, in closed form; what the proofs need to know of it |

How they fit: `DaemonLifecycle` takes a session as busy or not; `SessionTurn` is what goes on inside one, with the agent's
loop reduced to its boundaries and a choice of a rescue model to an answer that may come; `AgentLoop` and `PendingRequests` are those two in full,
each with the actor reduced to what it does to them. They are not composed in one state space: their
interfaces are the actor's calls, which each module takes at any time.

### Scheduler

`mem` is `Engine.tasks`; `txn` is the holder of `persistMu`, which copies the map, saves
the copy (`Persist`: written, written but not synced, or failed) and commits it. `loop` is where
`Run` stands (load, reserve, wait for the timer, the wake-up token or the end), `work` the
goroutines of `dispatchTask` (queued, claimed, running, saving). `disk` is what a
reader of the file sees and `survivors` what a power loss may leave of it. `rival` is a second
daemon process that loads and re-saves the file before it finds the daemon lock taken. `acked`,
`removed`, `cancelled` and `ran` are history. A cron expression is its period; task IDs are
fresh, as uuids are.

`Run` looks at its context and takes `persistMu` afterwards: `LoopGoesOn` is the look, and the end may come before the lock. Abstractions: a step that
reads the clock under the mutex reads it when it takes the mutex; `finish` deletes a task whose cron expression has no next
match, which a period always has.

### EventStream and SessionReader

`Publish` numbers an event, appends it to a ring cut at a count and a byte limit, and offers
it to the subscriptions; one with a full channel is dropped with a last `slow` item. Each attach
makes a subscription with a forwarder (`Slots`); a forwarder that was cancelled may still send,
because its `select` picks at random among what is ready. The outbox of a connection and the
wire behind it are one FIFO queue (`pipe`); the read loop of a dead connection may still deliver
what it had read (`stale`). On the client `last`, `out`, `paused`, `gap`, `resub` and `done` are the fields of
`subscription`, and `sup` is where `supervise` and `reattach` stand.

`SessionReader` says what a consumer of the client's channel is promised: it reads the next
event, or is told to refetch from a later snapshot, or that the stream has ended, and never anything
twice. `EventStream` implements it with the mapping of its `Reader` instance.

Abstractions: session IDs are random (`session_factory.go`), so a sequence does not restart; one
dead connection's read loop is alive at a time; a detach that cancels the subscription, a second
`Subscribe` on one port and the cache of session infos are left out; an event that cannot be
encoded fails in both encoders. `MaxStale <= SubBuf` assumes that a cancelled forwarder does not
win its random choice more often than its channel is long; with the 512 of the code the probability
of the contrary is about 2^-512.

### DaemonLifecycle

`op` is the operation that holds `opMu`; operations are split into steps exactly where something
that does not take `opMu` can come between: connections (`conn`, `subs`, the bounded `notes`), sessions
that take input (`busy`) or end on their own (`life`), handlers that have passed `checkControl`
(`port`), and the stop of the daemon (`phase`). `owner` says on whose behalf a transcript is flocked.

Abstractions: handles are fresh, so the duplicate-ID branch of create cannot be taken; the collector
visits each session in an operation of its own (the code visits all in one: a superset of the
interleavings); a handle that was never registered is not waited for; the sweep of a shutdown starts all
closes in one step; a handler may act after its connection has gone (a superset); a new transcript is any
unlocked file; what a dead connection held is cleared when it disconnects; the removal from `d.clients` is one
step with `clientGone`. A create may be asked to resume one transcript and build a session on another (`Created`, `LockFails`):
the lock of the second takes the place of the first's, or both are given back. `TranscriptsOwned` (in its part `OneWriter`) excepts sessions whose `Close` timed out, as the code does. Once exited the daemon
stutters by an action of its own, so TLC looks for deadlocks in everything before.

### SessionTurn

`queue` is `turnState.queue` and `pending` the queue inside the agent; prompts the user stacked run together, so an
entry is a set. `loop` joins `turnState.busy` with where `runLoop` stands: about to prompt, at the safe
boundary, in a request (with its tools), or at one of the ends that `finishTurn` tells apart. `compact` and
`rescue` are the two goroutines that wait off the actor, for a summary or for the user to choose a
model; `in`, `compact.next` and `rescue.item` hold a prompt that none of the queues holds. `goal` is the goal's status, the
interruption (`armed`) and the lease (`run`, `stale` when the goal was replaced since). `fate` is
history: what has become of each input ("cleared" is what `ClearQueuedUser` discards with the queue without giving it back). Each handler of the actor is one action, with all the
handlers it calls in turn: `finishTurn` starts what is queued, a compaction, the goal's follow-up or a
rescue in the same step.

Abstractions: an agent can always be built and a prompt is never empty, so starts do not fail; goals are
always saved; `TakeBack` takes any entry of the queue, which covers `CancelQueued` and the entries
`SlideBackQueued` chooses; the retry of a request is one with its next boundary; a completion reaches the
actor at any later time; budgets and progress of a goal are nondeterministic; an `update_goal` is saved and observed
in one step; only prompts of users steer (no client of the repository sends the explicit steer mode). Telegram prompts, hidden context,
titles and the session's close are left out.

### Transcripts and AgentLoop

`mem` is `Agent.messages`, `disk` what a load of the session's file returns, `unsaved` the message that was appended in memory and whose
hook has not run, `baseline` the count the hooks and the flush keep of what is saved. `pc` says where `runLoop` stands: before a request,
in it, with a reply at hand (`stop` is how it ended), waiting to try again, among the calls of a reply, or in the gate, which asks the user about
a call (`asking`). An abort denies what is being asked then; what the gate asks after it waits for the user (`UserAnswers`), as its context is not the turn's. The hook is a step of its own, because
the actor's flush (`Flush`, run as often as `due` says) can come between a message and its hook. `queue` and
`batch` are the queued inputs and those drained and not yet appended. A provider accepts a transcript in which each reply that calls tools is followed by
one message with one result per call, and no result stands elsewhere. `Repair` is what the load and each request make of a transcript (`repairSessionMessages`), `WithoutOrphans` what a
compaction makes of its tail (`RepairOrphanedToolResults`). Both are loops in the code and say in `Transcripts` what the loop keeps, because such a definition can be reasoned about: a message
gives way to up to two slots, some of them empty; a result is kept if a call was open for it. `LoadLoop` and `OrphanLoop` are the loops themselves, as relations between a transcript and the values of their variables after each message; `AgentLoopProofs` proves that they make `Repair` and `WithoutOrphans` of every transcript. A crash loses memory and leaves the file; `Restart` loads and repairs it. `RollBack` is the
aborted compaction whose summary has been accepted. `dropped`, `summarised`, `twice`, `resent`, `lost` and `rolledBack` are history: the reasons for which the file may differ from memory
(`twice` are the rows that the flush wrote before their hook, `resent` those it wrote beyond the count that a rolled back compaction has left).

Abstractions: a message is its kind, a number and the calls or results in it; a compaction happens between turns and its summary is
one message; a tool's refusal and its result are both results, only the stub that the repair makes is told apart. Left out: plans,
the user message that mirrors a result's images (`agent.go:860`), the repetition guard and `MaxSteps`, which end a turn or append one nudge more, a stop for tool use without a call,
which appends a message without results, usage rows, activated tools, the trim to 100 messages of a resume, rows of a message that are written in part, and
taking back queued messages (which is in `SessionTurn`). `InSlot` gives no slot to the rows that only name tools that were added (`AddedToolNames`, `session.go:719`), which the repair of a load carries along
and a provider never sees as messages of their own.

### PendingRequests

`reqs` numbers everything asked, `pending` is the actor's registry and `result` the request's channel of capacity one; `pc` says where an asker's
goroutine stands: about to pass the gate, about to post to the actor, waiting on its channel, its context and the session's end, or withdrawing its request.
`attach` is the session's attach state: a detach denies what is pending and records it. A cancelled asker withdraws by a second post, so
an answer may reach its channel first; this goes for requests of every kind that carry the turn's context (a question, the choice of a rescue model), and not for the gate's, which carry none.
`deferred` is the review list and `store` the file it is saved in, whose writes may fail;
`dispatched` remembers an approval that the agent was told of. `allowAll` and `allowed` are the gate's grants, which every asker of the session shares.

Abstractions: the three kinds of requests differ in who may answer, not in their wording; a key stands for a tool's `confirmationKey`; contexts of turns are per asker; an approved action
reaches the agent as a prompt, whose further way is in `SessionTurn`.

### Residents

`jour` is what a read of a child's journal computes: its state, what is known of each turn, and whether it can be read. A journal is *empty* from the
moment it is created until the child is accepted, *torn* when an append left a part of a line, *merged* when a record was appended to such a part, and *disordered* when a record stands where
reconciliation does not take it; the last is what must not happen. `loop` is the child's control goroutine
with its queue and its running turn; `run` its runner, which waits for a slot (`tickets`, `reserved`) and works; `op` is the manager's operation
under way, split at each record it writes and at each point where it gives its mutex back. Enqueueing, cancelling and releasing are steps of
their own, followed by dispatches, one admission at a time, each under the scheduler's mutex (`Admit`, `DispatchEnds`). Turns that are dropped are recorded one by one (`DropQueued`), and an
`Interrupt` waits until they are. A failed write (`faults`) leaves nothing, a part of the line or the whole record, and undoes an acceptance, ends the loop
or is ignored as the code does; `Restart` ends the process at any point and begins another, and `Reconcile` goes from child to child
(`ReconcileChild`), writes what they lack, and sets aside what it cannot read (`quar`). Reports of turns to the observer are history.

Abstractions: `metadata.json`, `result.json` and the reconcile stamp, which are rebuilt from the journal, work trees, the lease
against other processes, the records of the conversation (tool calls without a result among them) and journals of older versions are left out. Several runners may dispatch at once, between
two admissions of another, which `dispatchMu` excludes: a superset. `Legal` wants "started" to follow "accepted"; the code takes
it for the first turn too, which "child" accepts, so the model is not laxer. A child found running has an open turn, so an interruption without any, which the code allows for, is not reached.
`refused` are turns whose caller got an error; `EachTurnOnce` says of them and of all others that none is reported twice, and does not say that a refused one is reported.

## Runs

All numbers are distinct states. Bounds are constants; a clock, a sequence or a fault that could go on
for ever is capped in the guard that advances it.

| run | instance | states | question |
|---|---|---|---|
| `scheduler` | 2 tasks of 2 sessions with periods 1 and 2, 2 goroutines, 1 failed save, 1 crash | 3.1M | reservations, file and memory, acknowledged and cancelled tasks |
| `scheduler_live` | 1 task, 1 restart, 1 failed save, a rival process | 972k | is an occurrence executed at most once and a due task taken |
| `scheduler_rival` | 2 tasks, a rival, no fault | | does an acknowledged task survive a second daemon (it does not) |
| `stream` | 3 events, one unencodable or too large, ring 2, channels of 1, 2 forwarders, 1 lost connection | 2.2M | order, gaps, nobody blocks, `SessionReader` |
| `stream_live` | 2 events, one unencodable or too large, 1 lost connection | 144k | does the client catch up and learn of the end |
| `daemon` | 2 connections, 2 sessions, 2 transcripts, notices of 1 | 2.3M | control, locks, writers, subscriptions, notices, shutdown |
| `daemon_live` | 2 connections, 1 session, port calls, input | 64k | do disconnects, ends and a stop come to an end |
| `turn` | 2 prompts of the user, one scheduled, one resident | 2.7M | where every input is, who owns the transcript, what an end discards |
| `turn_live` | a prompt of the user, one of an extension, an endless goal | 49k | does every prompt settle |
| `agent` | 2 inputs (one may be the host's), 2 requests that end, 2 calls each, 1 retry, 2 incidents | 1.2M | requests the provider accepts, file and memory, queued inputs, aborts |
| `pending` | 2 askers, 2 requests of any kind, 1 key, 1 failed write | 941k | answers, grants, the review list, the close |
| `residents` | 2 children, 1 slot, 2 turns, 1 fault (a failed or torn write, or a wait given up), 1 restart; children are symmetric | 2.5M | slots, reports, journals |

Why the bounds are enough. Scheduler: two tasks are what a session's cancellation, a rival's
overwrite and the order of two transactions need; a third minute makes an occurrence stale while another runs. Stream:
with a ring of 2 and channels of 1 every buffer overflows, every cut-off happens, and three events
let one be lost on each side of a recovered one; two forwarders are a cancelled one and its successor. Daemon: two connections
are a controller and the one that takes over; a second session competes for the transcript or is
the successor that clear makes. Turn: four inputs and the goal's fill both queues and leave one in flight, of the kinds `finishTurn`
tells apart; two prompts of the user are stacked or kept apart by what is between them; the goal may go on for ever. Agent:
a reply with two calls can be cut between them and skipped from one on; two requests are a reply with calls and what follows, or an attempt and its repetition; two incidents are a fault and the crash, flush or
compaction that shows its effect; `KeepTail` is 2 where the code has 4, so that a compaction has something to summarise. Pending: one key lets a grant
to one asker reach the other, two requests meet in every pair of places. Residents: two children compete for one slot, and a turn, its follow-up and one fault or
restart cover each pair of neighbours in the journal. Symmetry is used for goroutines, forwarders, connections, sessions, transcripts, resident children and the user's
prompts, in runs without liveness. Every bound is a constant of the `.cfg`.

Fairness. Scheduler: a save that is begun ends and is committed (weak fairness), and `Run` and the goroutines, which wait for
`persistMu`, get it in the end (strong fairness, Go's mutex again); nothing makes the clock advance or a task be added.
`stream_live`: the actor's forwarders, the wire, the read loop and `supervise` run on and the consumer reads;
the gap timer (400 ms, `reconnectMax`) does not fire while an attach or a frame that can be sent is
under way (`TimelySpec`). Without that assumption TLC finds a livelock in which each recovery
is interrupted by a gap timer that a stale frame armed. `daemon_live`: weak fairness of what holds `opMu`, of
closing sessions, of handlers whose context is cancelled and of the steps of a stop; strong fairness of what waits for `opMu`, which Go's
mutex guarantees by its starvation mode. `turn_live`: whoever owns the transcript goes on, and the model stops calling
tools some time (strong fairness of `Stops`, as the loop's boundaries interrupt the request); nobody makes the user answer a
question, so a session may wait for ever for a rescue model, and `Settles` says so. `agent`: after an abort the loop, its hook and the actor's flush and end of the turn are
taken (weak fairness while `cancelled`); tools return when their context is cancelled; the provider owes nothing, as the code never waits for it after a
cancellation. Nor does the user: the gate waits on `context.Background()` (`confirm.go:193`), so a confirmation asked after the abort holds the turn until it is answered, and
`AbortEnds` promises the end of the turn only where the loop does not stay in the gate for ever. `pending`: askers' goroutines and the close run on; nobody owes an answer.

`CHECK_DEADLOCK FALSE` stands where the system may stop: a bounded clock, sequence or set of inputs is used up.

What the passing runs show beside the obvious:

- `NotStranded`: the only idle session with a runnable prompt in its queue is the one the code announces ("queued prompts held; they run on your next message").
- `WorkIsOwned`: one thing works on the transcript, and the goal's lease always has something that will give it back, unless the user took it away from the queue.
- `TranscriptsOwned`: no transcript has two writers and no lock outlives its reason, across failed creates, clears and sessions that end on their own.
- `LossOfControlIsTold`: a bounded queue of notices loses none without ending the connection.
- `RequestsAreFaithful`: whatever the faults, a request says each call's outcome once, and never a stub for a result that memory had, outside what a crash, a rolled-back compaction or the flush race explains.
- `TranscriptIsKept`: at rest the file loads as memory, but for failed attempts that memory alone has dropped and for rows that the flush wrote before their hook; and a tool that ran has its call in the file.
- `RunsAreAllowed`, `ReviewIsKept`: no tool runs by a grant that was not given, however late; an action refused for want of a user is on the review list or was dealt with, and approved once.
- `EachTurnOnce`: whichever of loop, interrupt, cancellation, failed start and undone acceptance ends a turn, it is never reported twice.
- `JournalReplays`: however these take turns in writing, and wherever a write fails or the process ends, a turn runs only when its start is on disk and the records are in an order the next reconciliation takes. A child
  is set aside for two reasons only, both under [findings](#findings): its spawn was never accepted, or a record was appended to a part of a line.
- `AbortEnds`: an aborted turn ends whatever is queued and however silent the provider is, but for a confirmation that is asked after the abort and never answered.
- `SlotsAccounted`: an admission that races a cancellation or a queue timeout leaks no slot, and while a slot is free and a ticket waits, somebody is dispatching.

## Findings

One run ends in a counterexample to what the repository says of itself; `PROJECT.json` quotes the lines.

- `scheduler_rival`: a second `zut daemon run` rewrites the schedules file before it tries the lock, and loses a task added meanwhile.

Seen while modelling, permitted by the models as the code does it, and not the subject of a run:

Daemon and turns
- a port call that has passed `checkControl` is applied after another client took control (`server.go:548`, against the comment at 510);
- a session is collected although input was accepted after `Idle` answered (`gc.go:69`);
- a goal set during a compaction is not started when it ends: `continueGoal` runs in `setGoal` when the session is idle, and at the end of a turn (`goal.go:173`, against `README.md:376`);
- taking back what is queued (`ClearQueuedUser`) discards the prompts of extensions, which are submitted without `HostEvent` (`exthost.go:268`, `495`; only `residents.go:231` and `238` set it), against the comment at `turn.go:205`:
  "Host-queued inputs (extension events, subagent reports) are kept"; `KeptAsPromised` has a fate of its own for them ("cleared");
- what is typed after `esc` and before the cancelled turn has returned is discarded with it (`turn.go:369`);
- reports that `finishTurn` keeps in the agent after an error are lost with the agent when the model changes (`settings.go:56`), and are else appended after the user's next prompt;
- a goal's follow-up put back by the abort of a compaction's rescue starts although the user interrupted the goal since (`compaction.go:168`);
- when the user takes back a prompt that an aborted compaction put in front, `skipOnce` stays set for the next prompt, and the goal's lease may stay until the end of the next turn.

Agent loop and transcripts
- when `esc` comes after the summary of a compaction was accepted, the messages are put back in memory only (`compaction.go:161`, against `README.md:582`: "`esc` aborts without changing the transcript"); the file
  stays compacted, a resume reads the summary, and what the next flush writes beyond the wrong count stands again, in another order, behind it. `rolledBack` and `resent` keep this apart from the promises of `TranscriptIsKept`;
- the actor's flush can write a message whose hook has not run; the hook then writes it again, and a resume reads the reply twice with a stub between (`cli.go:1044`, against the comment at 1035);
- a failed attempt's reply is taken out of memory only: the file keeps it and a resume brings it back (`agent.go:1089`);
- `BeforeAssistantMessage` is said to suppress the append on refusal (`agent.go:126`); the code appends always and suppresses the event (`agent.go:1371`);
- a resume trims memory to 100 messages (`cli.go:237`); the trimmed transcript may have lost its context message, and the next turn's context then replaces the file's transcript by the trimmed one (`dynamic_context.go:50`). The trim is not modelled.

Prompts
- closing an attached session denies what is pending without recording it, although the comment of `Close` (`sessionops.go`) says it is resolved as for a detach;
- a confirmation that is posted after an abort is still asked, and holds the aborted turn until the user answers: the gate waits on `context.Background()` (`confirm.go:193`) and `cancelTurn` denies only what is
  pending then (`turn.go:607`), against `core/confirm.go:31`, which has an implementation return when "the agent's context is cancelled, in which case they should return Allow=false with a cancellation reason";
- a compaction that is aborted after the session was asked to close keeps the prompt of its rescue until the close denies it;
- the review list is never loaded by a later session.

Residents
- an append that was torn merges with the next record and quarantines the child (`resident_journal.go:744`, against `docs/subagents.md:119`). Reconciliation itself takes a torn tail, but what it then appends
  is merged with it, and the process after it quarantines the child;
- `OpenResidentJournal` creates the transcript before anything is accepted (`resident_journal.go:496`); a refused workspace, a failed acceptance or a crash leaves it empty, and the next
  reconciliation reports "missing accepted child record" (`:932`) and quarantines it (`:889`);
- a follow-up accepted on an idle child whose process then ends stays accepted and does not run (`docs/subagents.md:81` says otherwise);
- a stop that timed out and a resume after it leave the refused turn unreported, against a comment at `resident_child.go:377`;
- `Spawn` on a manager that is closed between acceptance and publication is told its child but gets no completion.

## Proofs

Each theorem holds for every value of the constants that the named assumptions of its module allow: any sets of tasks, clients, sessions,
transcripts, inputs, askers or children, any sizes of buffers and limits of slots, any number of faults, crashes and lost connections. The bounds of the instances
are the same constants, so nothing is said of a small instance only. Each proof has one lemma per action; a last step collects them.

| theorem | states | from |
|---|---|---|
| `SchedulerProofs!TypeCorrect`, `ReservationsSafe`, `NoStrandedSafe` | `TypeOK`, `SingleExecution`, `NoStrandedReservation` | `ReservationInv` |
| `SchedulerProofs!OccurrenceOnceProved` | `OccurrenceOnce` (an action property) | `ReservationInv`, `OccurrenceInv` |
| `SchedulerProofs!DiskSafe`, `TasksSafe` | `DiskMatchesMemory`, `TasksSurvive`, if `MaxRivals = 0` | `ReservationInv`, `HistoryInv` |
| `EventStreamProofs!StreamInvariant`, `NeverBlocksSafe`, `GaplessSafe` | `TypeOK`, `NeverBlocks`, `Gapless` | `StreamInv` |
| `EventStreamProofs!ReadsInOrderProved` | `ReadsInOrder`: `EventStream` implements `SessionReader` | `StreamInv` |
| `DaemonLifecycleProofs!DaemonTypeSafe`, `ControlSafe`, `LossSafe`, `TranscriptsSafe`, `ShutdownSafe` | `TypeOK`, `ControlAgrees`, `LossOfControlIsTold`, `TranscriptsOwned`, `ShutdownIsComplete` | `DaemonInv` |
| `PendingRequestsProofs!RequestInvariant`, `PromptsSafe`, `RunsSafe`, `ReviewSafe` | `TypeOK`, `PromptsHaveAskers`, `RunsAreAllowed`, `ReviewIsKept` | `RequestInv` |
| `SessionTurnProofs!TurnTypeCorrect`, `InputsAccounted`, `SessionWorkOwned` | `TypeOK`, `Accounted`, `WorkIsOwned` | `TurnInv` |
| `SessionTurnProofs!InputsKeptAsPromised`, `PromptsNotStranded` | `KeptAsPromised`, `NotStranded` (action properties) | `TurnInv` |
| `AgentLoopProofs!TypeCorrect`, `RequestsFaithful`, `TranscriptKept`, `InputsAccounted` | `TypeOK`, `RequestsAreFaithful`, `TranscriptIsKept`, `InputsAreKept` | `AgentInv` |
| `AgentLoopProofs!LoadRepairs`, `OrphansDropped` | the loops of the two repairs make `Repair` and `WithoutOrphans` of every transcript | `LoopMakesOnly`, `Tally` |
| `AgentLoopProofs!LoadLoopRuns`, `OrphanLoopRuns` | each of the two loops has values of its variables for every transcript, so the two theorems before speak of something | |
| `SequenceFacts!LoopMakesOnly` | a loop that appends what passes a test makes the sequence `Only` defines | |
| `ResidentsProofs!ResidentsTyped`, `ResidentsSlots`, `ResidentsTurnsOnce`, `ResidentsJournals` | `TypeOK`, `SlotsAccounted`, `EachTurnOnce`, `JournalReplays` | `TurnsInv`, `SlotsInv` |

None of the properties is inductive by itself; this is what the invariants add and why.

- Scheduler (`OwnerAssumption`, `PeriodAssumption`, `NoTaskAssumption`, `BoundsAssumption`). That a mark has a goroutine depends on what the
  transaction under way will commit. `IssuedInv`: every ID in memory, a file or a goroutine's hands was issued, so an added one is fresh. `HolderInv`: a goroutine past its claim
  holds the running mark, for the occurrence it claimed. `CandidateInv`: the candidate differs from memory in what its operation changes only. `ProcessInv`: nothing runs until the
  file is loaded. `OccurrenceInv`: an occurrence that ran lies before the next deadline of its task, in memory and in the candidate, unless the task is marked running. `HistoryInv`
  says of memory, the candidate, the file and what a power loss may leave which of the acknowledged and removed tasks each has, for each stage of a transaction.
  `MaxRivals = 0` is needed: `scheduler_rival` is the counterexample with one.
- EventStream (`SizeAssumption`, `StaleAssumption`, `BoundAssumption`). Everything that is queued anywhere was published, and a subscription that is served keeps the slot of its terminal event free; the
  buffers on the way hold consecutive events from what the client has read on, or the client is paused or has a gap; once a recovery has its snapshot it is not before `last`. The invariant shows that one branch of
  `Resume`, for a snapshot older than what was read, is never reached. The refinement maps each step of session, daemon, read loop and supervisor to a step of the reader or to none.
- DaemonLifecycle (`ControlCapAssumption`, `BoundsAssumption`, `NoneAssumption`). Controller and attach state disagree in the middle of an operation, a transcript is locked before its session is registered and
  for a while after it has gone: `OperationOK`, `LifeOK`, `LockOK`, `ControlOK` and `ClientOK` say for each operation and step how far they may, and `ExitOK` what the last one leaves.
- PendingRequests (`AskersAssumption`, `BoundsAssumption`). Where an asker's goroutine is says what has become of its request (`PlaceInv`); a registered one has a waiting asker, an attached client and no
  outcome yet (`PendingInv`); a number not yet given has no history (`FreshInv`); an answer, a grant and a record for review agree with what the user was asked (`AnswerInv`, `GateInv`, `SentInv`).
- SessionTurn (`KindsAssumption`). `Accounted` counts places, which no step can be reasoned about; `Sound` says the same of sets: the entries of the queue are
  apart, the agent's queue has no repetition, the two and what is about to start (`Hand`) are disjoint, and together they are what waits. `Owners` says which of turn, compaction and
  rescue may hold a prompt, `Told` that a prompt a rescue will retry was told to the model (so the retry makes it wait again, once), `Leased` and the last conjunct of `Sound` that a follow-up has its lease
  wherever it is, and `Resting` what an idle session may still hold. Each handler is the calls it is built from, and so is the proof: `StartTurnTo`, `StartQueuedTo`, `DrainTo`,
  `ContinueGoalTo` and `GoalAfterTurnTo` say what each call makes of a session that is idle but for one prompt (`Ready`), and are cited by every handler that ends in one. `KeptQueueIs` and
  `KeptPendingIs` are what `finishTurn` keeps, by kind.
- AgentLoop (`BoundsAssumption`). What the properties say of memory and file at rest has to be said of every step between a message, its hook and a flush. `Pending` and `Places`: what waits for its hook
  is the last message or all of them, and where the loop stands then; `Replying`: while calls are worked on, the last message is their reply, and no results of it are anywhere. `Coherent`: a number names one
  message, in memory and in the file, and results answer all calls of their reply; a new number is therefore in neither. For requests, `Pairs`: a result that is no stub stands right behind its reply, in memory and
  in the file (unless it was written again beyond a rolled back compaction), or its reply is the last row and the result is what waits for its hook; so the repair of a resume, and of a request, loses none. For the
  file, `Written` and `Repeated`: all of memory but what waits is in the file, in memory's order, the count is not more than one short of it, and what stands twice has its reason in the history. For
  inputs, `Waiting`, `Saved` and `Ordered`: those that wait are new to both, none is in two queues, each is accounted for in memory and file, and transcript, batch and queue follow each other in the order of
  acceptance. Lemmas on `Transcripts` (`RepairHas`, `RepairNeighbours`, `RepairOrder`, `CompactedIs`) say what the repairs and a compaction keep: a selection of the messages, in order.
- The two loops. `LoadLoop` takes a message and the results behind it at once, `Repair` gives every message two slots; `LoadRepairs` shows by induction over the messages that what the loop has written after each is what the slots so far hold.
  `OrphanLoop` counts the open calls of each number, `WithoutOrphans` asks `Open`, whether from some place on calls outnumber results; `Tally` is the invariant between them: the count is the most by which they do.
- Residents (`ResidentsAssumption`). A turn is held in one place: in a queue without repetition, as the running turn, or by the operation that accepted it (`LoopHolds`, `HeldOnce`, `OpHolds`, with `OpFits` and `LoopsOfKids` for
  the operations under way), and the journal says of it what the place requires (`JournalsSound`). `SlotsInv` relates tickets, slots and the places of runners; that a free slot and a waiting ticket
  have a dispatcher holds because every step that makes one of them leaves its runner dispatching, and a dispatcher ends only when nothing can be admitted. That no record is out of order (`JournalReplays`) needs the journal only as long as it can be read: after a torn
  append every further one makes it "merged", and nothing is claimed of its order.

What the proofs changed in the models. `Scheduler`'s `Commit` chose among overlapping cases, where TLC takes the first and the logic takes any: it is now a conditional. `SlotsAccounted` said in two one-way parts what the proof needed as an
equivalence, and says the equivalence; where it once said that a free slot and a waiting ticket never meet, it says that somebody is dispatching then, as the code dispatches in a critical section of its own. `Residents` selects from sequences by `Only` (module `Filters`), and so does `SessionTurn`, since the provers know nothing of the library's `SelectSeq`; `OnlyKeeps` in `SequenceFacts` is what is known of it: order, members and length.
Induction is made from `LeastNumber`: every nonempty set of numbers has a least one. `SessionTurn`'s `TypeOK` let any set of inputs be an entry of the queue; the proof needs and `TypeOK` now says what entries
there are (`Items`: one input, or stacked prompts of the user), since what `finishTurn` keeps is decided entry by entry. Its `CASE`s, which the prover's arithmetic backend does not read, became conditionals and disjuncts. `AgentLoop`'s repairs were recursive; they are now in closed form (`Transcripts`), and `LoadRepairs` and `OrphansDropped` tie them to the loops.
The repair had taken over results of calls that the reply does not make; the code drops them, and now it does too. `TranscriptIsKept` compared sets of rows; the proof needed their order, and the property says it. It failed then for rows that the
flush writes beyond a rolled back compaction, which `resent` names. `TypeOK` of `AgentLoop` has the messages' fields.

Model-checked only: liveness (`DueIsTaken`, `EventArrives`, `EndsWhenClosed`, `EndedAreForgotten`, `StopEnds`, `Settles`, `AbortEnds`, `ClosesUnaided`), since fairness and enabledness are beyond the prover.
Every other property of a passing run, 32 of 40, is proved.

## What is not modelled

Everything the inventory lists without a module. Most of the repository's lines are there: the terminal front end and its
renderers, providers' wire formats, tools, configuration, generated mocks and tests are sequential code over files, networks and a screen,
with no state that several actors share; a model of them would restate them. The share of the repository's lines that the map names
is therefore small, and is that of the concurrent core. MCP pools, language servers, extensions, the directory, the connection's request table, the mailbox of reports and the
coordinator do have such state and are left for later. Inside the modelled components: calendar search, pid and socket files, fork
policy, launch arguments, failing agent builds, snapshots too large to send, and what each module above lists as left out.

## Plan

In this order:

1. `Reports`: the mailbox and the coordinator, each completion reported once, on top of what `EachTurnOnce` shows.
2. `McpPool` (leases and a server that dies), `OrderedPipe`, `Directory` (delivery against close).
3. `Cron`: parsing and Next as pure functions, checked against the first match by definition.
