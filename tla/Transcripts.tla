---------------------------- MODULE Transcripts ----------------------------
(***************************************************************************)
(* The messages of a transcript and the rules that make one acceptable to  *)
(* a provider: what a load of the session's file repairs (core/session.go) *)
(* and what a compaction leaves of the tail it keeps (provider.go).        *)
(*                                                                         *)
(* A message is its kind, a number, and the calls of a reply or the        *)
(* results of them.  A result is the tool's or the stub of the repair.     *)
(* The rows that record the activation of a deferred tool, results without *)
(* a call which the repair keeps (session.go:719), are not in the model:   *)
(* they are not part of a request.                                         *)
(***************************************************************************)
EXTENDS Filters, SequencesExt

Msg(kind, n, calls, res) == [kind |-> kind, n |-> n, calls |-> calls, res |-> res]
User(n)    == Msg("user", n, {}, {})
Context(n) == Msg("context", n, {}, {})
Reply(n, calls) == Msg("reply", n, calls, {})
Results(n, res) == Msg("results", n, {}, res)
Summary(n) == Msg("summary", n, {}, {})
Nudge      == Msg("nudge", 0, {}, {})

IsResults(m)  == m.kind = "results"
CallsTools(m) == m.kind = "reply" /\ m.calls # {}
Outcomes  == {"result", "stub"}
Stubbed(m) == \E r \in m.res : r[2] = "stub"
Answered(m) == {r[1] : r \in m.res}

\* What a loop leaves that skips some of the messages it reads.
Gap == Msg("gap", 0, {}, {})
Present(ms) == Only(ms, ToSet(ms) \ {Gap})

-----------------------------------------------------------------------------
(* repairSessionMessages: every reply that calls tools is followed by one  *)
(* message with a result for each call, and no result stands elsewhere.    *)

\* Mutant: the repair completes no results.
CompletedBare(m, res) == Results(m.n, res)
\* The results that answer a call of the reply, and a stub for each call that has none.
Completed(m, res) ==
  Results(m.n, {r \in res : r[1] \in m.calls}
               \cup {<<i, "stub">> : i \in m.calls \ {r[1] : r \in res}})
\* The results that stand right behind the reply at i.
AnswerIn(ms, i) ==
  IF i < Len(ms) /\ IsResults(ms[i + 1]) /\ ms[i + 1].n = ms[i].n THEN ms[i + 1].res ELSE {}
\* Each message has two slots, the second for the results of its calls.
InSlot(ms, k) ==
  LET i == (k + 1) \div 2 IN
  IF k = 2 * i THEN IF CallsTools(ms[i]) THEN Completed(ms[i], AnswerIn(ms, i)) ELSE Gap
  ELSE IF IsResults(ms[i]) THEN Gap ELSE ms[i]
Repair(ms) == Present([k \in 1..(2 * Len(ms)) |-> InSlot(ms, k)])

\* The same as a loop, by what its variables are after i messages: what it has made,
\* and whether the next one, the results behind a reply, has gone into it already.
LoadLoop(ms, taken, out) ==
  /\ taken[0] = FALSE /\ out[0] = <<>>
  /\ \A i \in 1..Len(ms) :
       LET m      == ms[i]
           follow == i < Len(ms) /\ IsResults(ms[i + 1])
           kept   == IF follow /\ ms[i + 1].n = m.n THEN {r \in ms[i + 1].res : r[1] \in m.calls} ELSE {}
           stubs  == {<<c, "stub">> : c \in {x \in m.calls : \A r \in kept : r[1] # x}}
       IN  /\ taken[i] = (~ taken[i - 1] /\ CallsTools(m) /\ follow)
           /\ out[i] = IF taken[i - 1] THEN out[i - 1]
                       ELSE IF CallsTools(m) THEN Append(Append(out[i - 1], m), Results(m.n, kept \cup stubs))
                       ELSE IF IsResults(m) THEN out[i - 1]
                       ELSE Append(out[i - 1], m)

-----------------------------------------------------------------------------
(* RepairOrphanedToolResults: a result needs a call before it that no      *)
(* other result has answered.  The loop counts calls that are open, and    *)
(* drops a result when there is none: it keeps one at i if, from some      *)
(* place on, there were more calls than results.                           *)

Between(ms, kind, n, j, i) == Cardinality({k \in j..(i - 1) : ms[k].kind = kind /\ ms[k].n = n})
Open(ms, i) ==
  \E j \in 1..(i - 1) : Between(ms, "reply", ms[i].n, j, i) > Between(ms, "results", ms[i].n, j, i)
WithoutOrphans(ms) ==
  Present([i \in 1..Len(ms) |-> IF IsResults(ms[i]) /\ ~ Open(ms, i) THEN Gap ELSE ms[i]])

\* The same as a loop: open[i][n] are the open calls of reply n after i messages.
OrphanLoop(ms, open, out) ==
  /\ open[0] = [n \in Nat |-> 0] /\ out[0] = <<>>
  /\ \A i \in 1..Len(ms) :
       LET m      == ms[i]
           orphan == IsResults(m) /\ open[i - 1][m.n] = 0
       IN  /\ open[i] = IF m.kind = "reply" THEN [open[i - 1] EXCEPT ![m.n] = @ + 1]
                        ELSE IF IsResults(m) /\ ~ orphan THEN [open[i - 1] EXCEPT ![m.n] = @ - 1]
                        ELSE open[i - 1]
           /\ out[i] = IF orphan THEN out[i - 1] ELSE Append(out[i - 1], m)

=============================================================================
