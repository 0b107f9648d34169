-------------------------- MODULE AgentLoopProofs --------------------------
(***************************************************************************)
(* Theorems about AgentLoop: what holds of the transcript, of the file and *)
(* of the inputs for every bound.  AgentInv is the inductive invariant.    *)
(***************************************************************************)
EXTENDS AgentLoop, SequenceFacts

(* The parts of the invariant.                                             *)

Told == ToSet(mem) \cup ToSet(disk)
LastOf(ms) == ms[Len(ms)]

\* Numbers are given once: a message's is at most the counter of its kind.
Formed(m) ==
  /\ m.kind # "reply" => m.calls = {}
  /\ m.kind # "results" => m.res = {}
  /\ m.kind = "user" => m.n \in 1..inputs
  /\ m.kind \in {"context", "summary"} => m.n <= incidents
  /\ m.kind \in {"reply", "results"} => m.n <= replies
  /\ m.kind = "nudge" => m = Nudge
Coherent ==
  /\ \A m \in Told : Formed(m)
  /\ \A x, y \in Told : x.kind = "reply" /\ y.kind = "reply" /\ x.n = y.n => x = y
  /\ \A x, y \in Told : x.kind = "reply" /\ IsResults(y) /\ x.n = y.n => Answered(y) = x.calls

\* What waits for its hook is at the end of the transcript, or all of it.
Pending ==
  /\ unsaved.op \in {"none", "append", "replace"}
  /\ unsaved.op = "none" => unsaved = None
  /\ unsaved.op = "append" => mem # <<>> /\ unsaved.msgs = <<LastOf(mem)>>
  /\ unsaved.op = "replace" => mem # <<>> /\ unsaved.msgs = mem

\* Where the loop stands when something waits for it.
Places ==
  /\ unsaved.op = "append" => pc \in {"head", "context", "ready", "replied", "answered"}
  /\ unsaved.op = "replace" => pc \in {"idle", "ready"}
  /\ batch # <<>> => pc \in {"context", "ready"}
  /\ pc = "idle" => due = 0 /\ ToSet(queue) \subseteq host

\* The reply that is looked at is the last message.
Asking == (pc = "replied" /\ stop = "tools") \/ pc \in {"tools", "asking", "running"}
Replying ==
  /\ pc = "replied" /\ stop = "failed" => mem # <<>> /\ LastOf(mem).kind = "reply"
  /\ Asking => /\ mem # <<>> /\ CallsTools(LastOf(mem))
               /\ \A m \in Told : IsResults(m) => m.n # LastOf(mem).n
  /\ pc \in {"asking", "running"} => Left # {}

\* Inputs that wait are in no transcript yet, and wait once.
Waiting ==
  /\ inputs <= MaxInputs
  /\ ToSet(queue) \cup ToSet(batch) \subseteq 1..inputs
  /\ \A n \in ToSet(queue) \cup ToSet(batch) : User(n) \notin Told
  /\ \A i, j \in 1..Len(queue) : queue[i] = queue[j] => i = j
  /\ \A i, j \in 1..Len(batch) : batch[i] = batch[j] => i = j
  /\ ToSet(queue) \cap ToSet(batch) = {}

\* A result that is no stub stands behind its reply.
Answers(reply, m) == CallsTools(reply) /\ reply.n = m.n
Whole(m) == IsResults(m) /\ ~ Stubbed(m)
Paired(ms) == \A j \in 1..Len(ms) : Whole(ms[j]) => j > 1 /\ Answers(ms[j - 1], ms[j])
HasPair(m) == \E i \in 1..(Len(disk) - 1) : disk[i + 1] = m /\ Answers(disk[i], m)
Pairs ==
  /\ Paired(mem)
  /\ \A m \in ToSet(disk) : Whole(m) => m \in resent \/ HasPair(m)
  /\ ~ broken /\ Asking /\ unsaved = None => disk # <<>> /\ LastOf(disk) = LastOf(mem)
  /\ ~ broken /\ unsaved.op = "append" /\ IsResults(unsaved.msgs[1]) =>
       \/ disk # <<>> /\ Answers(LastOf(disk), unsaved.msgs[1])
       \/ unsaved.msgs[1] \in resent \/ HasPair(unsaved.msgs[1])

\* What the file has of the transcript.
Settled(i) ==
  \/ unsaved.op = "none"
  \/ unsaved.op = "append" /\ i # Len(mem)
  \/ unsaved.op = "replace" /\ pc # "idle" /\ i # 1
Before(x, y) == \E p, q \in 1..Len(disk) : p < q /\ disk[p] = x /\ disk[q] = y
Written ==
  ~ broken /\ ~ rolledBack =>
    /\ Len(mem) <= baseline + (IF unsaved.op = "none" THEN 0 ELSE 1)
    /\ \A i \in 1..Len(mem) : Settled(i) /\ ~ Stubbed(mem[i]) => mem[i] \in ToSet(disk)
    /\ unsaved.op # "replace" =>
         /\ \A i, j \in 1..Len(mem) : i < j /\ Settled(j) /\ ~ Stubbed(mem[i]) /\ ~ Stubbed(mem[j])
              => Before(mem[i], mem[j])
         /\ \A m \in ToSet(disk) : Stubbed(m) \/ m \in ToSet(mem) \cup dropped \cup resent
Twofold(m) == Stubbed(m) \/ m \in twice \cup resent \cup {Nudge}
Single(ms) == \A i, j \in 1..Len(ms) : i < j /\ ms[i] = ms[j] => Twofold(ms[i])
Repeated ==
  /\ Single(mem) /\ Single(disk)
  /\ unsaved.op = "append" /\ unsaved.msgs[1] \in ToSet(disk) => Twofold(unsaved.msgs[1])

\* Where the inputs are, and in what order.
AccountedFor(n) == n \in ToSet(queue) \cup ToSet(batch) \cup lost \/ User(n) \in ToSet(mem) \cup summarised
Saved ==
  /\ \A n \in 1..inputs : AccountedFor(n)
  /\ ~ broken => \A n \in 1..inputs : User(n) \in ToSet(mem) =>
       User(n) \in ToSet(disk) \cup summarised \/ unsaved.msgs = <<User(n)>>
  /\ ~ broken /\ ~ (pc = "idle" /\ unsaved.op = "replace") =>
       \A m \in ToSet(disk) : m.kind = "user" => m \in ToSet(mem)
Late(n) == n \in host \/ User(n) \in resent
UsersInOrder(ms) ==
  \A i, j \in 1..Len(ms) : i < j /\ ms[i].kind = "user" /\ ms[j].kind = "user" =>
    Late(ms[j].n) \/ ms[i].n <= ms[j].n
Ascending(ns) == \A i, j \in 1..Len(ns) : i < j => Late(ns[j]) \/ ns[i] <= ns[j]
Ordered ==
  /\ UsersInOrder(mem) /\ UsersInOrder(disk)
  /\ Ascending(batch) /\ Ascending(queue)
  /\ \A m \in ToSet(mem), n \in ToSet(batch) \cup ToSet(queue) : m.kind = "user" => Late(n) \/ m.n <= n
  /\ \A m \in ToSet(batch), n \in ToSet(queue) : Late(n) \/ m <= n

AgentInv ==
  /\ TypeOK /\ Coherent /\ Pending /\ Places /\ Replying /\ Waiting
  /\ Pairs /\ Written /\ Repeated /\ Saved /\ Ordered

-----------------------------------------------------------------------------
(* Messages and their lists.                                               *)

\* A message that the repair completes has a result for each call and no other.
LEMMA CompletedIs ==
  ASSUME NEW m, NEW res
  PROVE  /\ IsResults(Completed(m, res)) /\ Completed(m, res).n = m.n
         /\ Completed(m, res).calls = {} /\ Answered(Completed(m, res)) = m.calls
         /\ m.calls \subseteq {r[1] : r \in res} => \A r \in Completed(m, res).res : r \in res
         /\ ~ Stubbed(Completed(m, res)) => m.calls \subseteq {r[1] : r \in res}
<1> DEFINE c == Completed(m, res)
<1>1. /\ c.kind = "results" /\ c.n = m.n /\ c.calls = {}
      /\ c.res = {r \in res : r[1] \in m.calls} \cup {<<i, "stub">> : i \in m.calls \ {r[1] : r \in res}}
  BY DEF Completed, Results, Msg
<1> HIDE DEF c
<1>2. ASSUME NEW i \in m.calls PROVE i \in {r[1] : r \in c.res}
  <2>1. CASE i \in {r[1] : r \in res}
    <3>1. PICK r \in res : r[1] = i
      BY <2>1
    <3>2. r \in c.res
      BY <1>1, <3>1
    <3> QED
      BY <3>1, <3>2
  <2>2. CASE i \notin {r[1] : r \in res}
    <3>1. <<i, "stub">> \in c.res
      BY <1>1, <2>2
    <3>2. <<i, "stub">>[1] = i
      OBVIOUS
    <3> QED
      BY <3>1, <3>2
  <2> QED
    BY <2>1, <2>2
<1>3. ASSUME NEW r \in c.res PROVE r[1] \in m.calls
  BY <1>1
<1>4. Answered(c) = m.calls
  BY <1>2, <1>3 DEF Answered
<1>5. m.calls \subseteq {r[1] : r \in res} => \A r \in c.res : r \in res
  BY <1>1
<1>6. ~ Stubbed(c) => m.calls \subseteq {r[1] : r \in res}
  <2> SUFFICES ASSUME NEW i \in m.calls, i \notin {r[1] : r \in res} PROVE Stubbed(c)
    OBVIOUS
  <2>1. <<i, "stub">> \in c.res
    BY <1>1
  <2>2. <<i, "stub">>[2] = "stub"
    OBVIOUS
  <2> QED
    BY <2>1, <2>2 DEF Stubbed
<1> QED
  BY <1>1, <1>4, <1>5, <1>6 DEF c, IsResults

LEMMA CompletedType ==
  ASSUME NEW m \in Messages, NEW res \in SUBSET ((1..MaxCalls) \X Outcomes)
  PROVE  Completed(m, res) \in Messages
<1>1. m.n \in Nat /\ m.calls \in SUBSET (1..MaxCalls)
  BY DEF Messages
<1>2. {<<i, "stub">> : i \in m.calls \ {r[1] : r \in res}} \in SUBSET ((1..MaxCalls) \X Outcomes)
  BY <1>1 DEF Outcomes
<1> QED
  BY <1>1, <1>2 DEF Completed, Results, Msg, Messages

LEMMA AnswerInType ==
  ASSUME NEW ms \in Seq(Messages), NEW i \in 1..Len(ms)
  PROVE  AnswerIn(ms, i) \in SUBSET ((1..MaxCalls) \X Outcomes)
<1>1. Len(ms) \in Nat
  BY LenProperties
<1>2. i < Len(ms) => ms[i + 1] \in Messages
  BY <1>1, ElementOfSeq
<1> QED
  BY <1>2 DEF AnswerIn, Messages

LEMMA GapIsNone == Gap \notin Messages /\ Gap.kind = "gap"
  BY DEF Gap, Msg, Messages

\* A list with gaps, and what is left of it: which places, each and no other.
Fills(out, ms) ==
  \E f : /\ Picks(f, out, ms)
         /\ \A k \in 1..Len(out) : ms[f[k]] # Gap
         /\ \A i \in 1..Len(ms) : ms[i] # Gap => \E k \in 1..Len(out) : f[k] = i
LEMMA PresentPicks ==
  ASSUME NEW S, NEW ms \in Seq(S)
  PROVE  Present(ms) \in Seq(S \ {Gap}) /\ Len(Present(ms)) <= Len(ms) /\ Fills(Present(ms), ms)
<1> DEFINE T == ToSet(ms) \ {Gap}
<1>1. DOMAIN ms = 1..Len(ms) /\ \A i \in 1..Len(ms) : ms[i] \in S
  BY LenProperties, ElementOfSeq
<1>2. \A i \in 1..Len(ms) : ms[i] \in T <=> ms[i] # Gap
  BY <1>1 DEF ToSet
<1>3. T \subseteq S \ {Gap}
  BY <1>1 DEF ToSet
<1> HIDE DEF T
<1>4. /\ Only(ms, T) \in Seq(S \cap T) /\ Len(Only(ms, T)) <= Len(ms)
      /\ \E f : /\ Picks(f, Only(ms, T), ms)
                /\ \A k \in 1..Len(Only(ms, T)) : ms[f[k]] \in T
                /\ \A i \in 1..Len(ms) : ms[i] \in T => \E k \in 1..Len(Only(ms, T)) : f[k] = i
  BY OnlyPicks
<1>5. Only(ms, T) = Present(ms)
  BY DEF Present, T
<1>6. S \cap T \subseteq S \ {Gap}
  BY <1>3
<1>7. Present(ms) \in Seq(S \ {Gap})
  <2>1. Seq(S \cap T) \subseteq Seq(S \ {Gap})
    BY <1>6
  <2> QED
    BY <2>1, <1>4, <1>5
<1>8. PICK f : /\ Picks(f, Present(ms), ms)
               /\ \A k \in 1..Len(Present(ms)) : ms[f[k]] \in T
               /\ \A i \in 1..Len(ms) : ms[i] \in T => \E k \in 1..Len(Present(ms)) : f[k] = i
  BY <1>4, <1>5
<1>9. \A k \in 1..Len(Present(ms)) : ms[f[k]] # Gap
  BY <1>8, <1>3
<1>10. \A i \in 1..Len(ms) : ms[i] # Gap => \E k \in 1..Len(Present(ms)) : f[k] = i
  BY <1>8, <1>2
<1>11. Fills(Present(ms), ms)
  BY <1>8, <1>9, <1>10 DEF Fills
<1> QED
  BY <1>4, <1>5, <1>7, <1>11

\* Neighbours in what is picked are neighbours but for what was left out.
LEMMA PickedNext ==
  ASSUME NEW f, NEW o, NEW s, Picks(f, o, s), Len(o) \in Nat, Len(s) \in Nat,
         NEW k \in 1..Len(o), NEW m \in 1..Len(o), f[m] = f[k] + 1
  PROVE  m = k + 1
<1>1. \A i \in 1..Len(o) : f[i] \in 1..Len(s)
  BY DEF Picks
<1>2. \A i, j \in 1..Len(o) : i < j => f[i] < f[j]
  BY DEF Picks
<1>3. k < m
  <2>1. m < k => f[m] < f[k]
    BY <1>2
  <2> QED
    BY <2>1, <1>1
<1>4. k + 1 < m => f[k] < f[k + 1] /\ f[k + 1] < f[m] /\ f[k + 1] \in 1..Len(s)
  BY <1>1, <1>2, <1>3
<1> QED
  BY <1>1, <1>3, <1>4

-----------------------------------------------------------------------------
(* The repair of a transcript.                                             *)

Slots(ms) == [k \in 1..(2 * Len(ms)) |-> InSlot(ms, k)]

\* The slots of the message at i: itself, and the results of its calls.
LEMMA SlotsAre ==
  ASSUME NEW ms \in Seq(Messages)
  PROVE  /\ Slots(ms) \in Seq(Messages \cup {Gap}) /\ Len(Slots(ms)) = 2 * Len(ms)
         /\ \A i \in 1..Len(ms) :
              /\ 2 * i - 1 \in 1..(2 * Len(ms)) /\ 2 * i \in 1..(2 * Len(ms))
              /\ Slots(ms)[2 * i - 1] = IF IsResults(ms[i]) THEN Gap ELSE ms[i]
              /\ Slots(ms)[2 * i] = IF CallsTools(ms[i]) THEN Completed(ms[i], AnswerIn(ms, i)) ELSE Gap
         /\ \A k \in 1..(2 * Len(ms)) : \E i \in 1..Len(ms) : k = 2 * i - 1 \/ k = 2 * i
<1>1. Len(ms) \in Nat /\ \A i \in 1..Len(ms) : ms[i] \in Messages
  BY LenProperties, ElementOfSeq
<1>2. \A i \in Nat : (2 * i - 1 + 1) \div 2 = i /\ (2 * i + 1) \div 2 = i
  OBVIOUS
<1>3. \A i \in 1..Len(ms) : 2 * i - 1 \in 1..(2 * Len(ms)) /\ 2 * i \in 1..(2 * Len(ms)) /\ 2 * i - 1 # 2 * i
  BY <1>1
<1>4. ASSUME NEW i \in 1..Len(ms)
      PROVE  /\ InSlot(ms, 2 * i - 1) = IF IsResults(ms[i]) THEN Gap ELSE ms[i]
             /\ InSlot(ms, 2 * i) = IF CallsTools(ms[i]) THEN Completed(ms[i], AnswerIn(ms, i)) ELSE Gap
  <2>1. (2 * i - 1 + 1) \div 2 = i /\ (2 * i + 1) \div 2 = i /\ 2 * i - 1 # 2 * i
    BY <1>2, <1>3
  <2> QED
    BY <2>1, Zenon DEF InSlot
<1>5. \A k \in 1..(2 * Len(ms)) : \E i \in 1..Len(ms) : k = 2 * i - 1 \/ k = 2 * i
  <2> SUFFICES ASSUME NEW k \in 1..(2 * Len(ms))
               PROVE  \E i \in 1..Len(ms) : k = 2 * i - 1 \/ k = 2 * i
    OBVIOUS
  <2> DEFINE i == (k + 1) \div 2
  <2>1. i \in 1..Len(ms) /\ (k = 2 * i - 1 \/ k = 2 * i)
    BY <1>1
  <2> QED
    BY <2>1
<1>6. \A i \in 1..Len(ms) : /\ Slots(ms)[2 * i - 1] = InSlot(ms, 2 * i - 1)
                            /\ Slots(ms)[2 * i] = InSlot(ms, 2 * i)
  BY <1>3 DEF Slots
<1>7. \A i \in 1..Len(ms) : AnswerIn(ms, i) \in SUBSET ((1..MaxCalls) \X Outcomes)
  BY AnswerInType
<1>8. \A i \in 1..Len(ms) : Completed(ms[i], AnswerIn(ms, i)) \in Messages
  BY <1>1, <1>7, CompletedType
<1>9. ASSUME NEW k \in 1..(2 * Len(ms)) PROVE InSlot(ms, k) \in Messages \cup {Gap}
  <2>1. PICK i \in 1..Len(ms) : k = 2 * i - 1 \/ k = 2 * i
    BY <1>5
  <2> QED
    BY <2>1, <1>1, <1>4, <1>8
<1>10. Slots(ms) \in [1..(2 * Len(ms)) -> Messages \cup {Gap}]
  BY <1>9 DEF Slots
<1>11. 2 * Len(ms) \in Nat
  BY <1>1
<1>12. Slots(ms) \in Seq(Messages \cup {Gap}) /\ Len(Slots(ms)) = 2 * Len(ms)
  <2>1. Slots(ms) \in Seq(Messages \cup {Gap})
    BY <1>10, <1>11, IsASeq
  <2>2. DOMAIN Slots(ms) = 1..(2 * Len(ms))
    BY DEF Slots
  <2> QED
    BY <2>1, <2>2, <1>11, LenProperties
<1> QED
  BY <1>3, <1>4, <1>5, <1>6, <1>12

\* The repair picks the slots that are filled.
LEMMA RepairPicks ==
  ASSUME NEW ms \in Seq(Messages)
  PROVE  /\ Repair(ms) \in Seq(Messages) /\ Len(Repair(ms)) \in Nat
         /\ \E f : /\ Picks(f, Repair(ms), Slots(ms))
                   /\ \A k \in 1..Len(Repair(ms)) : Slots(ms)[f[k]] # Gap
                   /\ \A i \in 1..(2 * Len(ms)) :
                        Slots(ms)[i] # Gap => \E k \in 1..Len(Repair(ms)) : f[k] = i
<1> DEFINE w == Slots(ms)
<1>1. Repair(ms) = Present(w)
  BY DEF Repair, Slots
<1>2. w \in Seq(Messages \cup {Gap}) /\ Len(w) = 2 * Len(ms)
  BY SlotsAre
<1> HIDE DEF w
<1>3. /\ Present(w) \in Seq((Messages \cup {Gap}) \ {Gap})
      /\ \E f : /\ Picks(f, Present(w), w)
                /\ \A k \in 1..Len(Present(w)) : w[f[k]] # Gap
                /\ \A i \in 1..Len(w) : w[i] # Gap => \E k \in 1..Len(Present(w)) : f[k] = i
  <2> DEFINE S == Messages \cup {Gap}
  <2>1. w \in Seq(S)
    BY <1>2
  <2> HIDE DEF S
  <2>2. Present(w) \in Seq(S \ {Gap}) /\ Len(Present(w)) <= Len(w) /\ Fills(Present(w), w)
    BY <2>1, PresentPicks
  <2> QED
    BY <2>2 DEF S, Fills
<1>4. (Messages \cup {Gap}) \ {Gap} = Messages
  BY GapIsNone
<1>5. Repair(ms) \in Seq(Messages)
  BY <1>1, <1>3, <1>4
<1>6. Len(Repair(ms)) \in Nat
  BY <1>5, LenProperties
<1>7. \E f : /\ Picks(f, Repair(ms), w)
             /\ \A k \in 1..Len(Repair(ms)) : w[f[k]] # Gap
             /\ \A i \in 1..(2 * Len(ms)) : w[i] # Gap => \E k \in 1..Len(Repair(ms)) : f[k] = i
  BY <1>1, <1>2, <1>3, Zenon
<1> QED
  BY <1>5, <1>6, <1>7 DEF w

\* What a slot holds tells which one it is.
LEMMA SlotHolds ==
  ASSUME NEW ms \in Seq(Messages), NEW k \in 1..(2 * Len(ms)), Slots(ms)[k] # Gap
  PROVE  \E i \in 1..Len(ms) :
           \/ /\ k = 2 * i - 1 /\ Slots(ms)[k] = ms[i] /\ ~ IsResults(ms[i])
           \/ /\ k = 2 * i /\ CallsTools(ms[i]) /\ Slots(ms)[k] = Completed(ms[i], AnswerIn(ms, i))
              /\ IsResults(Slots(ms)[k])
<1>1. PICK i \in 1..Len(ms) : k = 2 * i - 1 \/ k = 2 * i
  BY SlotsAre
<1>2. /\ Slots(ms)[2 * i - 1] = IF IsResults(ms[i]) THEN Gap ELSE ms[i]
      /\ Slots(ms)[2 * i] = IF CallsTools(ms[i]) THEN Completed(ms[i], AnswerIn(ms, i)) ELSE Gap
  BY SlotsAre
<1>3. IsResults(Completed(ms[i], AnswerIn(ms, i)))
  BY CompletedIs
<1>4. CASE k = 2 * i - 1
  BY <1>2, <1>4
<1>5. CASE k = 2 * i
  BY <1>2, <1>3, <1>5
<1> QED
  BY <1>1, <1>4, <1>5

\* What is in a repaired transcript: all but the results, and each call's results.
LEMMA RepairHas ==
  ASSUME NEW ms \in Seq(Messages)
  PROVE  /\ \A m \in ToSet(Repair(ms)) :
              \/ ~ IsResults(m) /\ m \in ToSet(ms)
              \/ \E i \in 1..Len(ms) : CallsTools(ms[i]) /\ m = Completed(ms[i], AnswerIn(ms, i))
         /\ \A m \in ToSet(ms) : ~ IsResults(m) => m \in ToSet(Repair(ms))
         /\ \A i \in 1..Len(ms) :
              CallsTools(ms[i]) => Completed(ms[i], AnswerIn(ms, i)) \in ToSet(Repair(ms))
<1>1. PICK f : /\ Picks(f, Repair(ms), Slots(ms))
               /\ \A k \in 1..Len(Repair(ms)) : Slots(ms)[f[k]] # Gap
               /\ \A i \in 1..(2 * Len(ms)) :
                    Slots(ms)[i] # Gap => \E k \in 1..Len(Repair(ms)) : f[k] = i
  BY RepairPicks
<1>2. Len(Slots(ms)) = 2 * Len(ms)
  BY SlotsAre
<1>3. \A k \in 1..Len(Repair(ms)) : f[k] \in 1..(2 * Len(ms)) /\ Repair(ms)[k] = Slots(ms)[f[k]]
  BY <1>1, <1>2 DEF Picks
<1>4. DOMAIN Repair(ms) = 1..Len(Repair(ms)) /\ DOMAIN ms = 1..Len(ms)
  BY RepairPicks, LenProperties
<1>5. \A i \in 1..Len(ms) : ms[i] \in Messages /\ ms[i] # Gap
  BY ElementOfSeq, GapIsNone
<1>6. ASSUME NEW k \in 1..(2 * Len(ms)), Slots(ms)[k] # Gap PROVE Slots(ms)[k] \in ToSet(Repair(ms))
  <2>1. PICK q \in 1..Len(Repair(ms)) : f[q] = k
    BY <1>1, <1>6
  <2>2. Repair(ms)[q] = Slots(ms)[k]
    BY <2>1, <1>3
  <2> QED
    BY <2>2, <1>4 DEF ToSet
<1>7. ASSUME NEW m \in ToSet(Repair(ms))
      PROVE  \/ ~ IsResults(m) /\ m \in ToSet(ms)
             \/ \E i \in 1..Len(ms) : CallsTools(ms[i]) /\ m = Completed(ms[i], AnswerIn(ms, i))
  <2>1. PICK k \in 1..Len(Repair(ms)) : m = Repair(ms)[k]
    BY <1>4 DEF ToSet
  <2>2. f[k] \in 1..(2 * Len(ms)) /\ m = Slots(ms)[f[k]] /\ Slots(ms)[f[k]] # Gap
    BY <2>1, <1>1, <1>3
  <2>3. PICK i \in 1..Len(ms) :
           \/ Slots(ms)[f[k]] = ms[i] /\ ~ IsResults(ms[i])
           \/ CallsTools(ms[i]) /\ Slots(ms)[f[k]] = Completed(ms[i], AnswerIn(ms, i))
    BY <2>2, SlotHolds
  <2>4. ms[i] \in ToSet(ms)
    BY <1>4 DEF ToSet
  <2> QED
    BY <2>2, <2>3, <2>4
<1>8. ASSUME NEW m \in ToSet(ms), ~ IsResults(m) PROVE m \in ToSet(Repair(ms))
  <2>1. PICK i \in 1..Len(ms) : m = ms[i]
    BY <1>4 DEF ToSet
  <2>2. Slots(ms)[2 * i - 1] = m /\ 2 * i - 1 \in 1..(2 * Len(ms))
    BY <2>1, <1>8, SlotsAre
  <2> QED
    BY <2>1, <2>2, <1>5, <1>6
<1>9. ASSUME NEW i \in 1..Len(ms), CallsTools(ms[i])
      PROVE  Completed(ms[i], AnswerIn(ms, i)) \in ToSet(Repair(ms))
  <2>1. Slots(ms)[2 * i] = Completed(ms[i], AnswerIn(ms, i)) /\ 2 * i \in 1..(2 * Len(ms))
    BY <1>9, SlotsAre
  <2>2. Slots(ms)[2 * i] # Gap
    BY <2>1, CompletedIs, GapIsNone DEF IsResults
  <2> QED
    BY <2>1, <2>2, <1>6
<1> QED
  BY <1>7, <1>8, <1>9

\* Results that answer each call and stand behind it stay as they are.
LEMMA CompletedKeeps ==
  ASSUME NEW ms \in Seq(Messages), NEW i \in 1..Len(ms), i < Len(ms), CallsTools(ms[i]),
         IsResults(ms[i + 1]), ms[i + 1].n = ms[i].n, ms[i + 1].calls = {},
         Answered(ms[i + 1]) = ms[i].calls
  PROVE  Completed(ms[i], AnswerIn(ms, i)) = ms[i + 1]
<1> DEFINE y == ms[i + 1]
<1>1. Len(ms) \in Nat
  BY LenProperties
<1>2. y \in Messages
  BY <1>1, ElementOfSeq
<1>3. AnswerIn(ms, i) = y.res
  BY DEF AnswerIn
<1>4. /\ IsResults(y) /\ y.n = ms[i].n /\ y.calls = {} /\ Answered(y) = ms[i].calls
  OBVIOUS
<1> HIDE DEF y
<1>5. {r \in y.res : r[1] \in ms[i].calls} \cup {<<c, "stub">> : c \in ms[i].calls \ {r[1] : r \in y.res}} = y.res
  <2>1. {r[1] : r \in y.res} = ms[i].calls
    BY <1>4 DEF Answered
  <2>2. \A r \in y.res : r[1] \in ms[i].calls
    BY <2>1
  <2>3. {<<c, "stub">> : c \in ms[i].calls \ {r[1] : r \in y.res}} = {}
    BY <2>1
  <2> QED
    BY <2>2, <2>3
<1>6. Completed(ms[i], y.res) = [kind |-> "results", n |-> ms[i].n, calls |-> {}, res |-> y.res]
  BY <1>5 DEF Completed, Results, Msg
<1>7. y = [kind |-> "results", n |-> ms[i].n, calls |-> {}, res |-> y.res]
  BY <1>2, <1>4 DEF Messages, IsResults
<1> QED
  BY <1>3, <1>6, <1>7 DEF y

\* The results in ms answer the calls of the replies with their number.
Sound(ms) ==
  /\ \A m \in ToSet(ms) : IsResults(m) => m.calls = {}
  /\ \A x, y \in ToSet(ms) : x.kind = "reply" /\ IsResults(y) /\ x.n = y.n => Answered(y) = x.calls

\* Results without a stub are those that stood there before.
LEMMA WholeStood ==
  ASSUME NEW ms \in Seq(Messages), Sound(ms), NEW i \in 1..Len(ms), CallsTools(ms[i]),
         ~ Stubbed(Completed(ms[i], AnswerIn(ms, i)))
  PROVE  i + 1 \in 1..Len(ms) /\ IsResults(ms[i + 1]) /\ Completed(ms[i], AnswerIn(ms, i)) = ms[i + 1]
<1>1. Len(ms) \in Nat /\ DOMAIN ms = 1..Len(ms)
  BY LenProperties
<1>2. ms[i].calls # {} /\ ms[i].kind = "reply"
  BY DEF CallsTools
<1>3. AnswerIn(ms, i) # {}
  <2>1. ms[i].calls \subseteq {r[1] : r \in AnswerIn(ms, i)}
    BY CompletedIs
  <2> QED
    BY <2>1, <1>2
<1>4. i < Len(ms) /\ IsResults(ms[i + 1]) /\ ms[i + 1].n = ms[i].n
  BY <1>3 DEF AnswerIn
<1>5. ms[i] \in ToSet(ms) /\ ms[i + 1] \in ToSet(ms)
  BY <1>1, <1>4 DEF ToSet
<1>6. ms[i + 1].calls = {} /\ Answered(ms[i + 1]) = ms[i].calls
  BY <1>2, <1>4, <1>5 DEF Sound
<1> QED
  BY <1>1, <1>4, <1>6, CompletedKeeps

\* In a repaired transcript a reply that calls tools stands before its results, and
\* results stand nowhere else.
LEMMA RepairNeighbours ==
  ASSUME NEW ms \in Seq(Messages), NEW k \in 1..Len(Repair(ms))
  PROVE  /\ CallsTools(Repair(ms)[k]) =>
              /\ k + 1 \in 1..Len(Repair(ms))
              /\ \E i \in 1..Len(ms) : /\ ms[i] = Repair(ms)[k]
                                       /\ Repair(ms)[k + 1] = Completed(ms[i], AnswerIn(ms, i))
         /\ IsResults(Repair(ms)[k]) =>
              /\ k - 1 \in 1..Len(Repair(ms))
              /\ \E i \in 1..Len(ms) : /\ ms[i] = Repair(ms)[k - 1] /\ CallsTools(ms[i])
                                       /\ Repair(ms)[k] = Completed(ms[i], AnswerIn(ms, i))
<1> DEFINE R == Repair(ms)
           w == Slots(ms)
<1>1. PICK f : /\ Picks(f, R, w)
               /\ \A j \in 1..Len(R) : w[f[j]] # Gap
               /\ \A i \in 1..(2 * Len(ms)) : w[i] # Gap => \E j \in 1..Len(R) : f[j] = i
  BY RepairPicks
<1>2. Len(R) \in Nat /\ Len(ms) \in Nat /\ Len(w) = 2 * Len(ms)
  BY RepairPicks, SlotsAre, LenProperties
<1>3. \A i \in 1..Len(ms) :
        /\ 2 * i - 1 \in 1..(2 * Len(ms)) /\ 2 * i \in 1..(2 * Len(ms))
        /\ w[2 * i - 1] = IF IsResults(ms[i]) THEN Gap ELSE ms[i]
        /\ w[2 * i] = IF CallsTools(ms[i]) THEN Completed(ms[i], AnswerIn(ms, i)) ELSE Gap
  BY SlotsAre
<1>4. \A j \in 1..(2 * Len(ms)) : w[j] # Gap =>
        \E i \in 1..Len(ms) :
          \/ j = 2 * i - 1 /\ w[j] = ms[i] /\ ~ IsResults(ms[i])
          \/ j = 2 * i /\ CallsTools(ms[i]) /\ w[j] = Completed(ms[i], AnswerIn(ms, i)) /\ IsResults(w[j])
  BY SlotHolds
<1>5. \A i \in 1..Len(ms) : ms[i] # Gap /\ Completed(ms[i], AnswerIn(ms, i)) # Gap
  <2>1. \A i \in 1..Len(ms) : ms[i] \in Messages
    BY ElementOfSeq
  <2>2. \A i \in 1..Len(ms) : Completed(ms[i], AnswerIn(ms, i)).kind = "results"
    BY CompletedIs DEF IsResults
  <2> QED
    BY <2>1, <2>2, GapIsNone
<1>6. k \in 1..Len(R)
  OBVIOUS
<1> HIDE DEF R, w
<1>7. \A j \in 1..Len(R) : f[j] \in 1..(2 * Len(ms)) /\ R[j] = w[f[j]] /\ w[f[j]] # Gap
  BY <1>1, <1>2 DEF Picks
<1>8. PICK i \in 1..Len(ms) :
         \/ f[k] = 2 * i - 1 /\ R[k] = ms[i] /\ ~ IsResults(ms[i])
         \/ f[k] = 2 * i /\ CallsTools(ms[i]) /\ R[k] = Completed(ms[i], AnswerIn(ms, i)) /\ IsResults(R[k])
  <2>1. f[k] \in 1..(2 * Len(ms)) /\ R[k] = w[f[k]] /\ w[f[k]] # Gap
    BY <1>6, <1>7
  <2>2. PICK i \in 1..Len(ms) :
           \/ f[k] = 2 * i - 1 /\ w[f[k]] = ms[i] /\ ~ IsResults(ms[i])
           \/ /\ f[k] = 2 * i /\ CallsTools(ms[i]) /\ w[f[k]] = Completed(ms[i], AnswerIn(ms, i))
              /\ IsResults(w[f[k]])
    BY <1>4, <2>1
  <2> QED
    BY <2>1, <2>2
<1>9. ASSUME CallsTools(R[k]) PROVE k + 1 \in 1..Len(R) /\ R[k] = ms[i]
                                    /\ R[k + 1] = Completed(ms[i], AnswerIn(ms, i))
  <2>1. f[k] = 2 * i - 1 /\ R[k] = ms[i]
    BY <1>8, <1>9 DEF CallsTools, IsResults
  <2>2. w[2 * i] = Completed(ms[i], AnswerIn(ms, i)) /\ w[2 * i] # Gap /\ 2 * i \in 1..(2 * Len(ms))
    BY <2>1, <1>3, <1>5, <1>9
  <2>3. PICK m \in 1..Len(R) : f[m] = 2 * i
    BY <2>2, <1>1
  <2>4. f[m] = f[k] + 1
    BY <2>1, <2>3, <1>2
  <2>5. m = k + 1
    <3>1. Len(w) \in Nat
      BY <1>2
    <3> QED
      BY <3>1, <2>4, <1>1, <1>2, <1>6, PickedNext
  <2> QED
    BY <2>1, <2>2, <2>3, <2>5, <1>7
<1>10. ASSUME IsResults(R[k]) PROVE k - 1 \in 1..Len(R) /\ R[k - 1] = ms[i] /\ CallsTools(ms[i])
                                     /\ R[k] = Completed(ms[i], AnswerIn(ms, i))
  <2>1. f[k] = 2 * i /\ CallsTools(ms[i]) /\ R[k] = Completed(ms[i], AnswerIn(ms, i))
    BY <1>8, <1>10
  <2>2. w[2 * i - 1] = ms[i] /\ w[2 * i - 1] # Gap /\ 2 * i - 1 \in 1..(2 * Len(ms))
    BY <2>1, <1>3, <1>5 DEF CallsTools, IsResults
  <2>3. PICK m \in 1..Len(R) : f[m] = 2 * i - 1
    BY <2>2, <1>1
  <2>4. f[k] = f[m] + 1
    BY <2>1, <2>3, <1>2
  <2>5. k = m + 1
    <3>1. Len(w) \in Nat
      BY <1>2
    <3> QED
      BY <3>1, <2>4, <1>1, <1>2, <1>6, PickedNext
  <2>6. k - 1 = m
    BY <2>5, <1>2
  <2> QED
    BY <2>1, <2>2, <2>3, <2>6, <1>7
<1>11. IsResults(R[k]) =>
         /\ k - 1 \in 1..Len(R)
         /\ \E j \in 1..Len(ms) : /\ ms[j] = R[k - 1] /\ CallsTools(ms[j])
                                  /\ R[k] = Completed(ms[j], AnswerIn(ms, j))
  BY <1>10
<1>12. CallsTools(R[k]) =>
         /\ k + 1 \in 1..Len(R)
         /\ \E j \in 1..Len(ms) : ms[j] = R[k] /\ R[k + 1] = Completed(ms[j], AnswerIn(ms, j))
  BY <1>9
<1> QED
  BY <1>11, <1>12 DEF R

\* What is in a slot and no stub stood in the transcript, at a place that the slot tells.
LEMMA SlotPlace ==
  ASSUME NEW ms \in Seq(Messages), Sound(ms), NEW k \in 1..(2 * Len(ms)),
         Slots(ms)[k] # Gap, ~ Stubbed(Slots(ms)[k])
  PROVE  \E p \in 1..Len(ms) :
           /\ ms[p] = Slots(ms)[k]
           /\ (k = 2 * p - 1 /\ ~ IsResults(ms[p])) \/ (k = 2 * p - 2 /\ IsResults(ms[p]))
<1>1. PICK i \in 1..Len(ms) :
           \/ k = 2 * i - 1 /\ Slots(ms)[k] = ms[i] /\ ~ IsResults(ms[i])
           \/ k = 2 * i /\ CallsTools(ms[i]) /\ Slots(ms)[k] = Completed(ms[i], AnswerIn(ms, i))
  BY SlotHolds
<1>2. CASE k = 2 * i - 1 /\ Slots(ms)[k] = ms[i] /\ ~ IsResults(ms[i])
  BY <1>2
<1>3. CASE k = 2 * i /\ CallsTools(ms[i]) /\ Slots(ms)[k] = Completed(ms[i], AnswerIn(ms, i))
  <2>1. i + 1 \in 1..Len(ms) /\ IsResults(ms[i + 1]) /\ Slots(ms)[k] = ms[i + 1]
    BY <1>3, WholeStood
  <2>2. k = 2 * (i + 1) - 2
    BY <1>3
  <2> QED
    BY <2>1, <2>2
<1> QED
  BY <1>1, <1>2, <1>3

\* The repair keeps the order of all that is no stub.
LEMMA RepairOrder ==
  ASSUME NEW ms \in Seq(Messages), Sound(ms),
         NEW j \in 1..Len(Repair(ms)), NEW k \in 1..Len(Repair(ms)), j < k,
         ~ Stubbed(Repair(ms)[j]), ~ Stubbed(Repair(ms)[k])
  PROVE  \E p, q \in 1..Len(ms) : p < q /\ ms[p] = Repair(ms)[j] /\ ms[q] = Repair(ms)[k]
<1>1. PICK f : Picks(f, Repair(ms), Slots(ms)) /\ \A i \in 1..Len(Repair(ms)) : Slots(ms)[f[i]] # Gap
  BY RepairPicks
<1>2. Len(Slots(ms)) = 2 * Len(ms) /\ Len(ms) \in Nat
  BY SlotsAre, LenProperties
<1>3. f[j] < f[k] /\ f[j] \in 1..(2 * Len(ms)) /\ f[k] \in 1..(2 * Len(ms))
  BY <1>1, <1>2 DEF Picks
<1>4. Slots(ms)[f[j]] = Repair(ms)[j] /\ Slots(ms)[f[k]] = Repair(ms)[k]
  BY <1>1 DEF Picks
<1>5. PICK p \in 1..Len(ms) :
         /\ ms[p] = Repair(ms)[j]
         /\ (f[j] = 2 * p - 1 /\ ~ IsResults(ms[p])) \/ (f[j] = 2 * p - 2 /\ IsResults(ms[p]))
  <2>1. Slots(ms)[f[j]] # Gap /\ ~ Stubbed(Slots(ms)[f[j]]) /\ f[j] \in 1..(2 * Len(ms))
    BY <1>1, <1>3, <1>4
  <2>2. PICK p \in 1..Len(ms) :
           /\ ms[p] = Slots(ms)[f[j]]
           /\ (f[j] = 2 * p - 1 /\ ~ IsResults(ms[p])) \/ (f[j] = 2 * p - 2 /\ IsResults(ms[p]))
    BY <2>1, SlotPlace
  <2> QED
    BY <2>2, <1>4
<1>6. PICK q \in 1..Len(ms) :
         /\ ms[q] = Repair(ms)[k]
         /\ (f[k] = 2 * q - 1 /\ ~ IsResults(ms[q])) \/ (f[k] = 2 * q - 2 /\ IsResults(ms[q]))
  <2>1. Slots(ms)[f[k]] # Gap /\ ~ Stubbed(Slots(ms)[f[k]]) /\ f[k] \in 1..(2 * Len(ms))
    BY <1>1, <1>3, <1>4
  <2>2. PICK q \in 1..Len(ms) :
           /\ ms[q] = Slots(ms)[f[k]]
           /\ (f[k] = 2 * q - 1 /\ ~ IsResults(ms[q])) \/ (f[k] = 2 * q - 2 /\ IsResults(ms[q]))
    BY <2>1, SlotPlace
  <2> QED
    BY <2>2, <1>4
<1>7. p # q \/ f[j] = f[k]
  BY <1>5, <1>6
<1>8. p < q
  BY <1>2, <1>3, <1>5, <1>6, <1>7
<1> QED
  BY <1>5, <1>6, <1>8

-----------------------------------------------------------------------------
(* What a compaction leaves.                                               *)

LEMMA PicksOfPicks ==
  ASSUME NEW a, NEW b, NEW c, NEW f, NEW g, Picks(f, a, b), Picks(g, b, c)
  PROVE  Picks([k \in 1..Len(a) |-> g[f[k]]], a, c)
<1>1. \A k \in 1..Len(a) : f[k] \in 1..Len(b) /\ a[k] = b[f[k]]
  BY DEF Picks
<1>2. \A k \in 1..Len(b) : g[k] \in 1..Len(c) /\ b[k] = c[g[k]]
  BY DEF Picks
<1>3. \A k, m \in 1..Len(a) : k < m => g[f[k]] < g[f[m]]
  BY <1>1 DEF Picks
<1> QED
  BY <1>1, <1>2, <1>3 DEF Picks

\* Pairs stay when each reply does, and results at the beginning do not.
LEMMA PairedPicked ==
  ASSUME NEW s, NEW o, NEW f, Picks(f, o, s), Len(o) \in Nat, Len(s) \in Nat,
         \A j \in 1..Len(s) : j > 1 /\ Whole(s[j]) => Answers(s[j - 1], s[j]),
         \A i \in 1..Len(s) : s[i].kind = "reply" => \E k \in 1..Len(o) : f[k] = i,
         \A k \in 1..Len(o) : Whole(o[k]) => f[k] > 1
  PROVE  Paired(o)
<1> SUFFICES ASSUME NEW k \in 1..Len(o), Whole(o[k]) PROVE k > 1 /\ Answers(o[k - 1], o[k])
  BY DEF Paired
<1>1. \A i \in 1..Len(o) : f[i] \in 1..Len(s) /\ o[i] = s[f[i]]
  BY DEF Picks
<1>2. f[k] > 1 /\ f[k] \in 1..Len(s) /\ f[k] - 1 \in 1..Len(s) /\ o[k] = s[f[k]]
  BY <1>1
<1>3. Answers(s[f[k] - 1], s[f[k]])
  BY <1>2
<1>4. PICK m \in 1..Len(o) : f[m] = f[k] - 1
  BY <1>2, <1>3 DEF Answers, CallsTools
<1>5. f[k] = f[m] + 1
  BY <1>2, <1>4
<1>6. k = m + 1
  BY <1>5, PickedNext
<1>7. k - 1 = m /\ k > 1
  BY <1>6
<1>8. o[k - 1] = s[f[k] - 1]
  BY <1>1, <1>4, <1>7
<1> QED
  BY <1>2, <1>3, <1>7, <1>8

\* Orphans are results, and those that stand first are.
LEMMA OrphansPicks ==
  ASSUME NEW ms \in Seq(Messages)
  PROVE  /\ WithoutOrphans(ms) \in Seq(Messages) /\ Len(WithoutOrphans(ms)) <= Len(ms)
         /\ \E f : /\ Picks(f, WithoutOrphans(ms), ms)
                   /\ \A k \in 1..Len(WithoutOrphans(ms)) : IsResults(WithoutOrphans(ms)[k]) => f[k] > 1
                   /\ \A i \in 1..Len(ms) :
                        ~ IsResults(ms[i]) => \E k \in 1..Len(WithoutOrphans(ms)) : f[k] = i
<1> DEFINE w == [i \in 1..Len(ms) |-> IF IsResults(ms[i]) /\ ~ Open(ms, i) THEN Gap ELSE ms[i]]
           o == Present(w)
<1>1. WithoutOrphans(ms) = o
  BY DEF WithoutOrphans
<1>2. Len(ms) \in Nat /\ \A i \in 1..Len(ms) : ms[i] \in Messages /\ ms[i] # Gap
  BY LenProperties, ElementOfSeq, GapIsNone
<1>3. w \in Seq(Messages \cup {Gap}) /\ Len(w) = Len(ms)
  <2>1. w \in [1..Len(ms) -> Messages \cup {Gap}]
    BY <1>2
  <2>2. DOMAIN w = 1..Len(ms)
    OBVIOUS
  <2>3. w \in Seq(Messages \cup {Gap})
    BY <1>2, <2>1, IsASeq
  <2> HIDE DEF w
  <2> QED
    BY <1>2, <2>2, <2>3, LenProperties
<1>4. \A i \in 1..Len(ms) : /\ w[i] # Gap => w[i] = ms[i] /\ (IsResults(ms[i]) => Open(ms, i))
                            /\ ~ IsResults(ms[i]) => w[i] # Gap
  BY <1>2
<1>5. \A i \in 1..Len(ms) : Open(ms, i) => i > 1
  BY <1>2 DEF Open
<1> HIDE DEF w
<1>6. /\ o \in Seq((Messages \cup {Gap}) \ {Gap}) /\ Len(o) <= Len(w)
      /\ \E f : /\ Picks(f, o, w)
                /\ \A k \in 1..Len(o) : w[f[k]] # Gap
                /\ \A i \in 1..Len(w) : w[i] # Gap => \E k \in 1..Len(o) : f[k] = i
  <2> DEFINE S == Messages \cup {Gap}
  <2>1. w \in Seq(S)
    BY <1>3
  <2> HIDE DEF S
  <2>2. Present(w) \in Seq(S \ {Gap}) /\ Len(Present(w)) <= Len(w) /\ Fills(Present(w), w)
    BY <2>1, PresentPicks
  <2> QED
    BY <2>2 DEF S, Fills
<1> HIDE DEF o
<1>7. o \in Seq(Messages) /\ Len(o) <= Len(ms)
  <2>1. (Messages \cup {Gap}) \ {Gap} = Messages
    BY GapIsNone
  <2> QED
    BY <1>3, <1>6, <2>1
<1>8. PICK f : /\ Picks(f, o, w)
               /\ \A k \in 1..Len(o) : w[f[k]] # Gap
               /\ \A i \in 1..Len(w) : w[i] # Gap => \E k \in 1..Len(o) : f[k] = i
  BY <1>6
<1>9. \A k \in 1..Len(o) : f[k] \in 1..Len(ms) /\ o[k] = w[f[k]] /\ w[f[k]] # Gap
  BY <1>3, <1>8 DEF Picks
<1>10. \A k \in 1..Len(o) : o[k] = ms[f[k]] /\ (IsResults(o[k]) => f[k] > 1)
  BY <1>4, <1>5, <1>9
<1>11. Picks(f, o, ms)
  BY <1>3, <1>8, <1>10 DEF Picks
<1>12. \A i \in 1..Len(ms) : ~ IsResults(ms[i]) => \E k \in 1..Len(o) : f[k] = i
  BY <1>3, <1>4, <1>8
<1> QED
  BY <1>1, <1>7, <1>10, <1>11, <1>12

LEMMA TalkPicks ==
  ASSUME mem \in Seq(Messages)
  PROVE  /\ Talk \in Seq(Messages) /\ Len(Talk) <= Len(mem)
         /\ \A k \in 1..Len(Talk) : Talk[k].kind # "context"
         /\ \E f : /\ Picks(f, Talk, mem)
                   /\ \A i \in 1..Len(mem) : mem[i].kind # "context" => \E k \in 1..Len(Talk) : f[k] = i
<1> DEFINE T == {m \in ToSet(mem) : m.kind # "context"}
<1>1. Len(mem) \in Nat /\ \A i \in 1..Len(mem) : mem[i] \in ToSet(mem)
  BY LenProperties DEF ToSet
<1>2. \A i \in 1..Len(mem) : mem[i].kind # "context" => mem[i] \in T
  BY <1>1
<1>3. \A m \in T : m.kind # "context"
  OBVIOUS
<1>4. Talk = Only(mem, T)
  BY DEF Talk
<1> HIDE DEF T
<1>5. /\ Only(mem, T) \in Seq(Messages \cap T) /\ Len(Only(mem, T)) <= Len(mem)
      /\ \E f : /\ Picks(f, Only(mem, T), mem)
                /\ \A k \in 1..Len(Only(mem, T)) : mem[f[k]] \in T
                /\ \A i \in 1..Len(mem) : mem[i] \in T => \E k \in 1..Len(Only(mem, T)) : f[k] = i
  BY OnlyPicks
<1>6. Talk \in Seq(Messages)
  BY <1>4, <1>5, SeqMonotonic
<1>7. PICK f : /\ Picks(f, Talk, mem)
               /\ \A k \in 1..Len(Talk) : mem[f[k]] \in T
               /\ \A i \in 1..Len(mem) : mem[i] \in T => \E k \in 1..Len(Talk) : f[k] = i
  BY <1>4, <1>5
<1>8. \A k \in 1..Len(Talk) : Talk[k].kind # "context"
  BY <1>3, <1>7 DEF Picks
<1> QED
  BY <1>2, <1>4, <1>5, <1>6, <1>7, <1>8

\* The tail that a compaction keeps: its replies stay with their results.
Rest == WithoutOrphans(SubSeq(Talk, Len(Talk) - Tailed + 1, Len(Talk)))
LEMMA RestPicks ==
  ASSUME mem \in Seq(Messages), KeepTail \in Nat, mem # <<>>, Paired(mem), Tailed < Len(Talk)
  PROVE  /\ Rest \in Seq(Messages) /\ Len(Rest) <= Tailed /\ Tailed < Len(mem)
         /\ \A k \in 1..Len(Rest) : Rest[k].kind # "context"
         /\ Paired(Rest)
         /\ \E h : Picks(h, Rest, mem)
<1> DEFINE d == Len(Talk) - Tailed
           t == SubSeq(Talk, d + 1, Len(Talk))
           g == [k \in 1..Len(t) |-> k + d]
<1>1. /\ Talk \in Seq(Messages) /\ Len(Talk) <= Len(mem)
      /\ \A k \in 1..Len(Talk) : Talk[k].kind # "context"
  BY TalkPicks
<1>2. PICK f : /\ Picks(f, Talk, mem)
               /\ \A i \in 1..Len(mem) : mem[i].kind # "context" => \E k \in 1..Len(Talk) : f[k] = i
  BY TalkPicks
<1>3. Len(mem) \in Nat \ {0} /\ Len(Talk) \in Nat
  BY <1>1, EmptySeq, LenProperties
<1>4. Tailed \in Nat /\ Tailed < Len(mem) /\ d \in Nat \ {0} /\ d + Tailed = Len(Talk)
  <2>1. Tailed \in Nat /\ Tailed < Len(mem)
    BY <1>3 DEF Tailed
  <2> QED
    BY <2>1, <1>3
<1>5. Paired(Talk)
  <2>1. \A k \in 1..Len(Talk) : Whole(Talk[k]) => f[k] > 1
    BY <1>2 DEF Picks, Paired
  <2>2. \A i \in 1..Len(mem) : mem[i].kind = "reply" => \E k \in 1..Len(Talk) : f[k] = i
    BY <1>2
  <2>3. \A j \in 1..Len(mem) : j > 1 /\ Whole(mem[j]) => Answers(mem[j - 1], mem[j])
    BY DEF Paired
  <2> QED
    BY <2>1, <2>2, <2>3, <1>2, <1>3, PairedPicked
<1>6. Rest = WithoutOrphans(t)
  BY DEF Rest
<1> HIDE DEF d
<1>7. /\ t \in Seq(Messages) /\ Len(t) = Tailed
      /\ \A k \in 1..Len(t) : k + d \in 1..Len(Talk) /\ t[k] = Talk[k + d]
  <2>1. \A i \in (d + 1)..Len(Talk) : Talk[i] \in Messages
    BY <1>1, <1>3, <1>4, ElementOfSeq
  <2>2. /\ t \in Seq(Messages) /\ Len(t) = IF d + 1 <= Len(Talk) THEN Len(Talk) - (d + 1) + 1 ELSE 0
        /\ \A i \in 1..(Len(Talk) - (d + 1) + 1) : t[i] = Talk[(d + 1) + i - 1]
    BY <2>1, <1>3, <1>4, SubSeqProperties
  <2>3. \A k \in 1..Tailed : k \in 1..(Len(Talk) - (d + 1) + 1) /\ (d + 1) + k - 1 = k + d /\ k + d \in 1..Len(Talk)
    BY <1>3, <1>4
  <2> QED
    BY <2>2, <2>3, <1>3, <1>4
<1> HIDE DEF t
<1>8. Picks(g, t, Talk)
  BY <1>4, <1>7 DEF Picks
<1>9. \A j \in 1..Len(t) : j > 1 /\ Whole(t[j]) => Answers(t[j - 1], t[j])
  <2> SUFFICES ASSUME NEW j \in 1..Len(t), j > 1, Whole(t[j]) PROVE Answers(t[j - 1], t[j])
    OBVIOUS
  <2>1. Len(t) \in Nat /\ d \in Nat
    BY <1>4, <1>7
  <2>2. j - 1 \in 1..Len(t) /\ (j - 1) + d = (j + d) - 1
    BY <2>1
  <2>3. t[j] = Talk[j + d] /\ t[j - 1] = Talk[(j - 1) + d] /\ j + d \in 1..Len(Talk)
    BY <2>2, <1>7
  <2>4. Whole(Talk[j + d])
    BY <2>3
  <2>5. Answers(Talk[(j + d) - 1], Talk[j + d])
    BY <2>3, <2>4, <1>5 DEF Paired
  <2> QED
    BY <2>2, <2>3, <2>5
<1> HIDE DEF g
<1>10. /\ WithoutOrphans(t) \in Seq(Messages) /\ Len(WithoutOrphans(t)) <= Len(t)
       /\ \E e : /\ Picks(e, WithoutOrphans(t), t)
                 /\ \A k \in 1..Len(WithoutOrphans(t)) : IsResults(WithoutOrphans(t)[k]) => e[k] > 1
                 /\ \A i \in 1..Len(t) : ~ IsResults(t[i]) => \E k \in 1..Len(WithoutOrphans(t)) : e[k] = i
  BY <1>7, OrphansPicks
<1>11. PICK e : /\ Picks(e, Rest, t)
                /\ \A k \in 1..Len(Rest) : IsResults(Rest[k]) => e[k] > 1
                /\ \A i \in 1..Len(t) : ~ IsResults(t[i]) => \E k \in 1..Len(Rest) : e[k] = i
  BY <1>6, <1>10
<1>12. Rest \in Seq(Messages) /\ Len(Rest) <= Tailed /\ Len(Rest) \in Nat
  BY <1>6, <1>7, <1>10, LenProperties
<1>13. Paired(Rest)
  <2>1. \A i \in 1..Len(t) : t[i].kind = "reply" => \E k \in 1..Len(Rest) : e[k] = i
    BY <1>11 DEF IsResults
  <2>2. \A k \in 1..Len(Rest) : Whole(Rest[k]) => e[k] > 1
    BY <1>11 DEF Whole
  <2> QED
    BY <2>1, <2>2, <1>4, <1>7, <1>9, <1>11, <1>12, PairedPicked
<1>14. \E h : Picks(h, Rest, mem)
  <2>1. Picks([k \in 1..Len(Rest) |-> g[e[k]]], Rest, Talk)
    BY <1>8, <1>11, PicksOfPicks
  <2> DEFINE e2 == [k \in 1..Len(Rest) |-> g[e[k]]]
         h == [k \in 1..Len(Rest) |-> f[e2[k]]]
  <2>2. Picks(h, Rest, mem)
    BY <2>1, <1>2, PicksOfPicks
  <2> HIDE DEF h
  <2> QED
    BY <2>2
<1>15. \A k \in 1..Len(Rest) : Rest[k].kind # "context"
  <2>1. \A k \in 1..Len(Rest) : e[k] \in 1..Len(t) /\ Rest[k] = t[e[k]]
    BY <1>11 DEF Picks
  <2>2. \A k \in 1..Len(t) : t[k].kind # "context"
    BY <1>1, <1>7
  <2> QED
    BY <2>1, <2>2
<1> QED
  BY <1>4, <1>12, <1>13, <1>14, <1>15


\* The transcript that a compaction leaves: shorter by all but the tail, each
\* message new or an old one in its old order, and paired.
LEMMA CompactedIs ==
  ASSUME mem \in Seq(Messages), KeepTail \in Nat, incidents \in Nat, mem # <<>>, Paired(mem),
         Tailed < Len(Talk)
  PROVE  /\ Compacted \in Seq(Messages) /\ Compacted # <<>> /\ Len(Compacted) <= Len(mem) + 1
         /\ \A m \in ToSet(Compacted) : m \in ToSet(mem) \/ m = Summary(incidents + 1)
         /\ Paired(Compacted)
         /\ \A i, j \in 1..Len(Compacted) : i < j =>
              \/ \E p, q \in 1..Len(mem) : p < q /\ mem[p] = Compacted[i] /\ mem[q] = Compacted[j]
              \/ Compacted[i].kind = "context" /\ Compacted[j].kind # "context"
              \/ Compacted[i] = Summary(incidents + 1) /\ Compacted[j] \in ToSet(mem)
<1> DEFINE last == IF Contexts = {} THEN <<>> ELSE <<mem[Max(Contexts)]>>
           sum == Summary(incidents + 1)
           n == Len(last)
<1>1. /\ Rest \in Seq(Messages) /\ Len(Rest) <= Tailed /\ Tailed < Len(mem)
      /\ \A k \in 1..Len(Rest) : Rest[k].kind # "context"
      /\ Paired(Rest)
  BY RestPicks
<1>2. PICK h : Picks(h, Rest, mem)
  BY RestPicks
<1>3. Len(mem) \in Nat \ {0} /\ Len(Rest) \in Nat /\ \A i \in 1..Len(mem) : mem[i] \in Messages /\ mem[i] \in ToSet(mem)
  BY <1>1, EmptySeq, LenProperties, ElementOfSeq DEF ToSet
<1>4. Tailed \in Nat
  BY <1>3 DEF Tailed
<1>5. ASSUME Contexts # {} PROVE Max(Contexts) \in Contexts
  <2> DEFINE below == {Len(mem) - i : i \in Contexts}
  <2>1. Contexts \subseteq 1..Len(mem)
    BY DEF Contexts
  <2>2. below \in SUBSET Nat /\ below # {}
    <3>1. \A c \in Contexts : Len(mem) - c \in Nat
      BY <2>1, <1>3
    <3> QED
      BY <3>1, <1>5
  <2>3. PICK b \in below : \A c \in below : b <= c
    <3> HIDE DEF below
    <3> QED
      BY <2>2, LeastNumber
  <2>4. PICK i \in Contexts : b = Len(mem) - i
    BY <2>3
  <2>5. \A c \in Contexts : Len(mem) - i <= Len(mem) - c
    BY <2>3, <2>4
  <2>6. \A c \in Contexts : i >= c
    BY <2>1, <2>4, <2>5, <1>3
  <2> QED
    BY <2>4, <2>6 DEF Max
<1>6. /\ last \in Seq(Messages) /\ n \in {0, 1}
      /\ \A k \in 1..n : last[k] \in ToSet(mem) /\ last[k].kind = "context"
  <2>1. CASE Contexts = {}
    BY <2>1, EmptySeq
  <2>2. CASE Contexts # {}
    <3>1. Max(Contexts) \in 1..Len(mem) /\ mem[Max(Contexts)].kind = "context"
      BY <2>2, <1>5 DEF Contexts
    <3> DEFINE m == mem[Max(Contexts)]
    <3>2. last = <<m>> /\ m \in Messages /\ m \in ToSet(mem) /\ m.kind = "context"
      BY <2>2, <3>1, <1>3
    <3> HIDE DEF m, last
    <3> QED
      BY <3>2
  <2> QED
    BY <2>1, <2>2
<1>7. sum \in Messages /\ sum.kind = "summary"
  BY DEF Summary, Msg, Messages
<1>8. Compacted = (last \o <<sum>>) \o Rest
  BY DEF Compacted, Rest
<1> HIDE DEF last, sum
<1>9. /\ last \o <<sum>> \in Seq(Messages) /\ Len(last \o <<sum>>) = n + 1
      /\ \A k \in 1..n : (last \o <<sum>>)[k] = last[k]
      /\ (last \o <<sum>>)[n + 1] = sum
  <2>1. <<sum>> \in Seq(Messages) /\ Len(<<sum>>) = 1 /\ <<sum>>[1] = sum
    BY <1>7
  <2>2. /\ last \o <<sum>> \in Seq(Messages) /\ Len(last \o <<sum>>) = Len(last) + Len(<<sum>>)
        /\ \A i \in 1..(Len(last) + Len(<<sum>>)) :
             (last \o <<sum>>)[i] = IF i <= Len(last) THEN last[i] ELSE <<sum>>[i - Len(last)]
    BY <2>1, <1>6, ConcatProperties
  <2>3. n + 1 \in 1..(Len(last) + 1) /\ ~ (n + 1 <= n) /\ (n + 1) - n = 1 /\ \A k \in 1..n : k <= n /\ k \in 1..(n + 1)
    BY <1>6
  <2> QED
    BY <2>1, <2>2, <2>3
<1> DEFINE pre == last \o <<sum>>
<1> HIDE DEF pre
<1>10. pre \in Seq(Messages) /\ Len(pre) = n + 1 /\ (\A k \in 1..n : pre[k] = last[k]) /\ pre[n + 1] = sum
  BY <1>9 DEF pre
<1>11. /\ Compacted \in Seq(Messages) /\ Len(Compacted) = n + 1 + Len(Rest)
       /\ \A i \in 1..(n + 1 + Len(Rest)) : Compacted[i] = IF i <= n + 1 THEN pre[i] ELSE Rest[i - (n + 1)]
  BY <1>1, <1>8, <1>10, ConcatProperties DEF pre
<1>12. Len(Compacted) <= Len(mem) + 1 /\ Compacted # <<>>
  <2>1. Len(Compacted) # 0
    BY <1>3, <1>6, <1>11
  <2>2. Compacted # <<>>
    BY <2>1
  <2>3. Len(Compacted) <= Tailed + 2
    <3>1. Len(Rest) <= Tailed /\ Len(Compacted) = n + 1 + Len(Rest) /\ n \in {0, 1}
      BY <1>1, <1>6, <1>11
    <3> HIDE DEF n
    <3> QED
      BY <3>1, <1>3, <1>4
  <2>4. Len(Compacted) \in Nat
    BY <1>11, LenProperties
  <2> QED
    BY <2>2, <2>3, <2>4, <1>1, <1>3, <1>4
<1>13. \A i \in 1..Len(Compacted) :
         \/ i \in 1..n /\ Compacted[i] \in ToSet(mem) /\ Compacted[i].kind = "context"
         \/ i = n + 1 /\ Compacted[i] = sum
         \/ /\ i > n + 1 /\ i - (n + 1) \in 1..Len(Rest) /\ Compacted[i] = Rest[i - (n + 1)]
            /\ Compacted[i].kind # "context" /\ Compacted[i] \in ToSet(mem)
  <2> SUFFICES ASSUME NEW i \in 1..Len(Compacted)
               PROVE  \/ i \in 1..n /\ Compacted[i] \in ToSet(mem) /\ Compacted[i].kind = "context"
                      \/ i = n + 1 /\ Compacted[i] = sum
                      \/ /\ i > n + 1 /\ i - (n + 1) \in 1..Len(Rest) /\ Compacted[i] = Rest[i - (n + 1)]
                         /\ Compacted[i].kind # "context" /\ Compacted[i] \in ToSet(mem)
    OBVIOUS
  <2>1. CASE i <= n
    BY <2>1, <1>3, <1>6, <1>10, <1>11
  <2>2. CASE i = n + 1
    BY <2>2, <1>3, <1>6, <1>10, <1>11
  <2>3. CASE i > n + 1
    <3>1. i - (n + 1) \in 1..Len(Rest) /\ Compacted[i] = Rest[i - (n + 1)]
      BY <2>3, <1>3, <1>6, <1>11
    <3> DEFINE k == i - (n + 1)
    <3>2. Rest[k] = mem[h[k]] /\ h[k] \in 1..Len(mem)
      BY <3>1, <1>2 DEF Picks
    <3> QED
      BY <3>1, <3>2, <2>3, <1>1, <1>3
  <2> QED
    BY <2>1, <2>2, <2>3, <1>6
<1>14. \A m \in ToSet(Compacted) : m \in ToSet(mem) \/ m = sum
  <2>1. DOMAIN Compacted = 1..Len(Compacted)
    BY <1>11, LenProperties
  <2> QED
    BY <2>1, <1>13 DEF ToSet
<1>15. Paired(Compacted)
  <2> SUFFICES ASSUME NEW j \in 1..Len(Compacted), Whole(Compacted[j])
               PROVE  j > 1 /\ Answers(Compacted[j - 1], Compacted[j])
    BY DEF Paired
  <2> DEFINE r == j - (n + 1)
  <2>1. j > n + 1 /\ r \in 1..Len(Rest) /\ Compacted[j] = Rest[r]
    BY <1>7, <1>13 DEF Whole, IsResults
  <2>2. r > 1 /\ Answers(Rest[r - 1], Rest[r])
    BY <2>1, <1>1 DEF Paired
  <2>3. j - 1 \in 1..(n + 1 + Len(Rest)) /\ ~ (j - 1 <= n + 1) /\ (j - 1) - (n + 1) = r - 1
    BY <2>1, <2>2, <1>3, <1>6
  <2>4. Compacted[j - 1] = Rest[r - 1]
    BY <2>3, <1>11
  <2> QED
    BY <2>1, <2>2, <2>4, <1>6
<1>16. ASSUME NEW i \in 1..Len(Compacted), NEW j \in 1..Len(Compacted), i < j
       PROVE  \/ \E p, q \in 1..Len(mem) : p < q /\ mem[p] = Compacted[i] /\ mem[q] = Compacted[j]
              \/ Compacted[i].kind = "context" /\ Compacted[j].kind # "context"
              \/ Compacted[i] = sum /\ Compacted[j] \in ToSet(mem)
  <2>1. CASE i \in 1..n
    <3>1. j > n
      BY <2>1, <1>6, <1>16
    <3> QED
      BY <2>1, <3>1, <1>6, <1>7, <1>13
  <2>2. CASE i = n + 1
    <3>1. j > n + 1 /\ Compacted[i] = sum
      BY <2>2, <1>6, <1>13, <1>16
    <3> QED
      BY <3>1, <1>6, <1>13
  <2>3. CASE i > n + 1
    <3> DEFINE a == i - (n + 1)
               b == j - (n + 1)
    <3>1. j > n + 1 /\ a < b
      BY <2>3, <1>3, <1>6, <1>11, <1>16
    <3>2. a \in 1..Len(Rest) /\ Compacted[i] = Rest[a] /\ b \in 1..Len(Rest) /\ Compacted[j] = Rest[b]
      <4>1. i > n + 1 /\ j > n + 1
        BY <2>3, <3>1
      <4> QED
        BY <4>1, <1>6, <1>13
    <3> HIDE DEF a, b
    <3>3. h[a] \in 1..Len(mem) /\ h[b] \in 1..Len(mem) /\ h[a] < h[b] /\ mem[h[a]] = Rest[a] /\ mem[h[b]] = Rest[b]
      BY <3>1, <3>2, <1>2 DEF Picks
    <3> QED
      BY <3>2, <3>3
  <2> QED
    BY <2>1, <2>2, <2>3, <1>6
<1> QED
  BY <1>11, <1>12, <1>14, <1>15, <1>16 DEF sum


-----------------------------------------------------------------------------
(* Lists and what is in them.                                              *)

LEMMA ListHas ==
  ASSUME NEW S, NEW s \in Seq(S)
  PROVE  /\ Len(s) \in Nat /\ ToSet(s) \subseteq S
         /\ \A i \in 1..Len(s) : s[i] \in ToSet(s) /\ s[i] \in S
         /\ \A x \in ToSet(s) : \E i \in 1..Len(s) : s[i] = x
         /\ s # <<>> => Len(s) \in 1..Len(s) /\ LastOf(s) \in ToSet(s)
         /\ s = <<>> => Len(s) = 0 /\ ToSet(s) = {}
<1>1. Len(s) \in Nat /\ DOMAIN s = 1..Len(s) /\ \A i \in 1..Len(s) : s[i] \in S
  BY LenProperties, ElementOfSeq
<1>2. ToSet(s) = {s[i] : i \in 1..Len(s)}
  BY <1>1 DEF ToSet
<1>3. s # <<>> => Len(s) \in Nat \ {0}
  BY EmptySeq
<1>4. s = <<>> => Len(s) = 0
  BY EmptySeq
<1> QED
  BY <1>1, <1>2, <1>3, <1>4 DEF LastOf

LEMMA OneMessage ==
  ASSUME NEW S, NEW m \in S
  PROVE  <<m>> \in Seq(S) /\ Len(<<m>>) = 1 /\ <<m>>[1] = m /\ ToSet(<<m>>) = {m} /\ <<m>> # <<>>
<1>1. <<m>> \in Seq(S) /\ Len(<<m>>) = 1 /\ <<m>>[1] = m
  OBVIOUS
<1>2. \A x \in ToSet(<<m>>) : \E i \in 1..1 : <<m>>[i] = x
  BY <1>1, ListHas
<1>3. <<m>>[1] \in ToSet(<<m>>)
  BY <1>1, ListHas
<1> QED
  BY <1>1, <1>2, <1>3

\* What a list has that is another one's continuation.
LEMMA Joined ==
  ASSUME NEW S, NEW s \in Seq(S), NEW t \in Seq(S)
  PROVE  /\ s \o t \in Seq(S) /\ Len(s \o t) = Len(s) + Len(t)
         /\ ToSet(s \o t) = ToSet(s) \cup ToSet(t)
         /\ \A i \in 1..Len(s) : i \in 1..Len(s \o t) /\ (s \o t)[i] = s[i]
         /\ \A i \in 1..Len(t) : Len(s) + i \in 1..Len(s \o t) /\ (s \o t)[Len(s) + i] = t[i]
         /\ \A i \in 1..Len(s \o t) : \/ i \in 1..Len(s) /\ (s \o t)[i] = s[i]
                                      \/ i > Len(s) /\ i - Len(s) \in 1..Len(t) /\ (s \o t)[i] = t[i - Len(s)]
<1> DEFINE c == s \o t
<1>1. /\ c \in Seq(S) /\ Len(c) = Len(s) + Len(t)
      /\ \A i \in 1..(Len(s) + Len(t)) : c[i] = IF i <= Len(s) THEN s[i] ELSE t[i - Len(s)]
  BY ConcatProperties
<1>2. Len(s) \in Nat /\ Len(t) \in Nat
  BY LenProperties
<1> HIDE DEF c
<1>3. \A i \in 1..Len(s) : i \in 1..Len(c) /\ c[i] = s[i]
  BY <1>1, <1>2
<1>4. ASSUME NEW i \in 1..Len(t) PROVE Len(s) + i \in 1..Len(c) /\ c[Len(s) + i] = t[i]
  <2>1. Len(s) + i \in 1..(Len(s) + Len(t)) /\ ~ (Len(s) + i <= Len(s)) /\ (Len(s) + i) - Len(s) = i
    BY <1>2
  <2> QED
    BY <2>1, <1>1
<1>5. ASSUME NEW i \in 1..Len(c)
      PROVE  \/ i \in 1..Len(s) /\ c[i] = s[i]
             \/ i > Len(s) /\ i - Len(s) \in 1..Len(t) /\ c[i] = t[i - Len(s)]
  BY <1>1, <1>2
<1>6. \A x \in ToSet(c) : x \in ToSet(s) \cup ToSet(t)
  <2> SUFFICES ASSUME NEW x \in ToSet(c) PROVE x \in ToSet(s) \cup ToSet(t)
    OBVIOUS
  <2>1. PICK i \in 1..Len(c) : c[i] = x
    BY <1>1, ListHas
  <2>2. \A k \in 1..Len(s) : s[k] \in ToSet(s)
    BY ListHas
  <2>3. \A k \in 1..Len(t) : t[k] \in ToSet(t)
    BY ListHas
  <2> QED
    BY <2>1, <2>2, <2>3, <1>5
<1>7. \A i \in 1..Len(c) : c[i] \in ToSet(c)
  BY <1>1, ListHas
<1>8. ToSet(s) \subseteq ToSet(c)
  <2>1. \A x \in ToSet(s) : \E i \in 1..Len(s) : s[i] = x
    BY ListHas
  <2> QED
    BY <2>1, <1>3, <1>7
<1>9. ToSet(t) \subseteq ToSet(c)
  <2>1. \A x \in ToSet(t) : \E i \in 1..Len(t) : t[i] = x
    BY ListHas
  <2> QED
    BY <2>1, <1>4, <1>7
<1>10. ToSet(c) = ToSet(s) \cup ToSet(t)
  BY <1>6, <1>8, <1>9
<1> QED
  BY <1>1, <1>3, <1>4, <1>5, <1>10 DEF c

LEMMA Appended ==
  ASSUME NEW S, NEW s \in Seq(S), NEW m \in S
  PROVE  /\ Append(s, m) \in Seq(S) /\ Len(Append(s, m)) = Len(s) + 1 /\ Append(s, m) # <<>>
         /\ ToSet(Append(s, m)) = ToSet(s) \cup {m} /\ LastOf(Append(s, m)) = m
         /\ \A i \in 1..Len(s) : i \in 1..Len(Append(s, m)) /\ Append(s, m)[i] = s[i]
         /\ \A i \in 1..Len(Append(s, m)) : \/ i \in 1..Len(s) /\ Append(s, m)[i] = s[i]
                                            \/ i = Len(s) + 1 /\ Append(s, m)[i] = m
<1> DEFINE a == Append(s, m)
<1>1. /\ a \in Seq(S) /\ a # <<>> /\ Len(a) = Len(s) + 1
      /\ \A i \in 1..Len(s) : a[i] = s[i]
      /\ a[Len(s) + 1] = m
  BY AppendProperties
<1>2. a = s \o <<m>>
  BY AppendIsConcat
<1>3. <<m>> \in Seq(S) /\ ToSet(<<m>>) = {m}
  BY OneMessage
<1>4. ToSet(s \o <<m>>) = ToSet(s) \cup ToSet(<<m>>)
  <2> DEFINE t == <<m>>
  <2>1. t \in Seq(S)
    BY <1>3
  <2> HIDE DEF t
  <2>2. ToSet(s \o t) = ToSet(s) \cup ToSet(t)
    BY <2>1, Joined
  <2> QED
    BY <2>2 DEF t
<1>5. ToSet(a) = ToSet(s) \cup {m}
  BY <1>2, <1>3, <1>4
<1>6. Len(s) \in Nat
  BY LenProperties
<1> HIDE DEF a
<1>7. LastOf(a) = m
  BY <1>1 DEF LastOf
<1>8. \A i \in 1..Len(s) : i \in 1..Len(a)
  BY <1>1, <1>6
<1>9. \A i \in 1..Len(a) : i \in 1..Len(s) \/ i = Len(s) + 1
  BY <1>1, <1>6
<1> QED
  BY <1>1, <1>5, <1>7, <1>8, <1>9 DEF a


\* The kinds of message, told apart by their kind and their number.
LEMMA MessagesAre ==
  /\ Nudge \in Messages /\ Nudge.kind = "nudge" /\ Nudge.n = 0
  /\ \A n \in Nat : /\ User(n) \in Messages /\ User(n).kind = "user" /\ User(n).n = n
                    /\ Context(n) \in Messages /\ Context(n).kind = "context" /\ Context(n).n = n
                    /\ Summary(n) \in Messages /\ Summary(n).kind = "summary" /\ Summary(n).n = n
  /\ \A n \in Nat, c \in SUBSET (1..MaxCalls) :
       /\ Reply(n, c) \in Messages /\ Reply(n, c).kind = "reply" /\ Reply(n, c).n = n /\ Reply(n, c).calls = c
  /\ \A n \in Nat, res \in SUBSET ((1..MaxCalls) \X Outcomes) :
       /\ Results(n, res) \in Messages /\ Results(n, res).kind = "results"
       /\ Results(n, res).n = n /\ Results(n, res).res = res
<1>1. Nudge \in Messages /\ Nudge.kind = "nudge" /\ Nudge.n = 0
  BY DEF Nudge, Msg, Messages
<1>2. \A n \in Nat : /\ User(n) \in Messages /\ User(n).kind = "user" /\ User(n).n = n
                     /\ Context(n) \in Messages /\ Context(n).kind = "context" /\ Context(n).n = n
                     /\ Summary(n) \in Messages /\ Summary(n).kind = "summary" /\ Summary(n).n = n
  BY DEF User, Context, Summary, Msg, Messages
<1>3. \A n \in Nat, c \in SUBSET (1..MaxCalls) :
        /\ Reply(n, c) \in Messages /\ Reply(n, c).kind = "reply" /\ Reply(n, c).n = n /\ Reply(n, c).calls = c
  BY DEF Reply, Msg, Messages
<1>4. \A n \in Nat, res \in SUBSET ((1..MaxCalls) \X Outcomes) :
        /\ Results(n, res) \in Messages /\ Results(n, res).kind = "results"
        /\ Results(n, res).n = n /\ Results(n, res).res = res
  BY DEF Results, Msg, Messages
<1> QED
  BY <1>1, <1>2, <1>3, <1>4

LEMMA UserIs == \A x, y : User(x) = User(y) => x = y
  BY DEF User, Msg

LEMMA Bounds ==
  /\ KeepTail \in Nat /\ MaxInputs \in Nat /\ MaxReplies \in Nat /\ MaxCalls \in Nat
  /\ MaxRetries \in Nat /\ MaxDue \in Nat /\ MaxIncidents \in Nat
  /\ \A h \in HostSets : h \subseteq 1..MaxInputs
  BY BoundsAssumption

\* Only the queue's order is kept of what is discarded.
LEMMA QueueKept ==
  ASSUME NEW S, NEW q \in Seq(S), NEW T
  PROVE  /\ Only(q, T) \in Seq(S) /\ ToSet(Only(q, T)) \subseteq ToSet(q) \cap T
         /\ ToSet(q) \cap T \subseteq ToSet(Only(q, T))
         /\ \A i, j \in 1..Len(Only(q, T)) : i < j =>
              \E a, b \in 1..Len(q) : a < b /\ q[a] = Only(q, T)[i] /\ q[b] = Only(q, T)[j]
<1> DEFINE o == Only(q, T)
<1>1. /\ o \in Seq(S \cap T)
      /\ \E f : /\ Picks(f, o, q)
                /\ \A k \in 1..Len(o) : q[f[k]] \in T
                /\ \A i \in 1..Len(q) : q[i] \in T => \E k \in 1..Len(o) : f[k] = i
  BY OnlyPicks
<1> HIDE DEF o
<1>2. PICK f : /\ Picks(f, o, q)
               /\ \A k \in 1..Len(o) : q[f[k]] \in T
               /\ \A i \in 1..Len(q) : q[i] \in T => \E k \in 1..Len(o) : f[k] = i
  BY <1>1
<1>3. o \in Seq(S)
  BY <1>1, SeqMonotonic
<1>4. \A k \in 1..Len(o) : f[k] \in 1..Len(q) /\ o[k] = q[f[k]] /\ o[k] \in T /\ q[f[k]] \in ToSet(q)
  <2>1. \A i \in 1..Len(q) : q[i] \in ToSet(q)
    BY ListHas
  <2> QED
    BY <2>1, <1>2 DEF Picks
<1>5. ToSet(o) \subseteq ToSet(q) \cap T
  <2>1. \A x \in ToSet(o) : \E k \in 1..Len(o) : o[k] = x
    BY <1>3, ListHas
  <2> QED
    BY <2>1, <1>4
<1>6. ToSet(q) \cap T \subseteq ToSet(o)
  <2> SUFFICES ASSUME NEW x \in ToSet(q), x \in T PROVE x \in ToSet(o)
    OBVIOUS
  <2>1. PICK i \in 1..Len(q) : q[i] = x
    BY ListHas
  <2>2. PICK k \in 1..Len(o) : f[k] = i
    BY <2>1, <1>2
  <2>3. \A n \in 1..Len(o) : o[n] \in ToSet(o)
    BY <1>3, ListHas
  <2> QED
    BY <2>1, <2>2, <2>3, <1>4
<1>7. ASSUME NEW i \in 1..Len(o), NEW j \in 1..Len(o), i < j
      PROVE  \E a, b \in 1..Len(q) : a < b /\ q[a] = o[i] /\ q[b] = o[j]
  <2>1. f[i] < f[j]
    BY <1>2, <1>7 DEF Picks
  <2>2. f[i] \in 1..Len(q) /\ f[j] \in 1..Len(q) /\ q[f[i]] = o[i] /\ q[f[j]] = o[j]
    BY <1>4
  <2> QED
    BY <2>1, <2>2
<1> QED
  BY <1>3, <1>5, <1>6, <1>7 DEF o


-----------------------------------------------------------------------------
(* The steps keep the types.                                               *)

Inner == Blocked \/ SameContext \/ Send \/ OpenFails \/ StreamCancelled \/ GiveUp \/ GoOn \/ TurnEnds
         \/ ToolsBegin \/ SkipCall \/ RefuseCall \/ StartTool \/ AskUser \/ UserAnswers \/ ToolReturns
         \/ AfterTools \/ Abort
         \/ \E how \in {"end", "failed", "aborted"} : StreamEndsEmpty(how)

\* A call that is left is one of the reply's.
LEMMA OneMoreCall ==
  ASSUME TypeOK, Replying, pc \in {"tools", "asking", "running"}, Left # {}
  PROVE  answered + 1 \in 0..MaxCalls
<1>1. mem # <<>> /\ mem \in Seq(Messages)
  BY DEF Replying, Asking, TypeOK
<1>2. LastOf(mem) \in Messages
  BY <1>1, ListHas
<1>3. Left \subseteq {i \in 1..MaxCalls : i > answered}
  BY <1>2 DEF Left, Calling, Last, LastOf, Messages
<1>4. answered \in 0..MaxCalls /\ MaxCalls \in Nat
  BY Bounds DEF TypeOK
<1>5. PICK i \in 1..MaxCalls : i > answered
  BY <1>3
<1> QED
  BY <1>4, <1>5

LEMMA NoneYet == 0 \in 0..MaxCalls /\ 0 \in 0..MaxRetries
  BY Bounds

LEMMA InnerTyped ==
  ASSUME TypeOK, Replying, Inner
  PROVE  TypeOK'
<1>1. CASE Blocked
  BY <1>1, NoneYet DEF Blocked, Return, Locals, TypeOK, file, counts, history
<1>2. CASE SameContext
  BY <1>2 DEF SameContext, TypeOK, file, turn, counts, history
<1>3. CASE Send
  BY <1>3 DEF Send, TypeOK, file, turn, counts, history
<1>4. CASE OpenFails
  BY <1>4, NoneYet DEF OpenFails, Return, Locals, TypeOK, file, counts, history
<1>5. CASE StreamCancelled
  BY <1>5, NoneYet DEF StreamCancelled, Return, Locals, TypeOK, file, counts, history
<1>6. CASE GiveUp
  BY <1>6, NoneYet DEF GiveUp, Return, Locals, TypeOK, file, counts, history
<1>7. CASE GoOn
  BY <1>7 DEF GoOn, TypeOK, file, turn, counts, history
<1>8. CASE TurnEnds
  BY <1>8, NoneYet DEF TurnEnds, Return, Locals, TypeOK, file, counts, history
<1>9. CASE ToolsBegin
  BY <1>9, NoneYet DEF ToolsBegin, TypeOK, file, counts, history
<1>10. CASE SkipCall
  <2>1. answered' \in 0..MaxCalls
    BY <1>10, OneMoreCall DEF SkipCall
  <2> QED
    BY <2>1, <1>10 DEF SkipCall, TypeOK, file, counts, history
<1>11. CASE RefuseCall
  <2>1. answered' \in 0..MaxCalls
    BY <1>11, OneMoreCall DEF RefuseCall
  <2> QED
    BY <2>1, <1>11 DEF RefuseCall, TypeOK, file, counts, history
<1>12. CASE StartTool
  BY <1>12 DEF StartTool, TypeOK, file, turn, counts, history
<1>13. CASE ToolReturns
  <2>1. answered' \in 0..MaxCalls
    BY <1>13, OneMoreCall DEF ToolReturns, Replying
  <2> QED
    BY <2>1, <1>13 DEF ToolReturns, TypeOK, file, counts, history
<1>14. CASE AfterTools
  BY <1>14, NoneYet DEF AfterTools, Return, Locals, TypeOK, file, counts, history
<1>15. CASE Abort
  <2>1. answered' \in 0..MaxCalls
    BY <1>15, OneMoreCall DEF Abort, Answer, Replying, TypeOK
  <2>2. pc' \in {pc, "tools"}
    BY <1>15 DEF Abort, Answer
  <2> QED
    BY <2>1, <2>2, <1>15 DEF Abort, Incident, TypeOK, file, history
<1>a. CASE AskUser
  BY <1>a DEF AskUser, TypeOK, file, turn, counts, history
<1>b. CASE UserAnswers
  <2>1. answered' \in 0..MaxCalls
    BY <1>b, OneMoreCall DEF UserAnswers, Answer, Replying, TypeOK
  <2>2. pc' \in {"tools", "running"}
    BY <1>b DEF UserAnswers, Answer
  <2> QED
    BY <2>1, <2>2, <1>b DEF UserAnswers, TypeOK, file, counts, history
<1>16. ASSUME NEW how \in {"end", "failed", "aborted"}, StreamEndsEmpty(how) PROVE TypeOK'
  <2>1. stop' \in {"continue", "tools", "end", "failed", "failed_empty", "aborted"} /\ pc' = "replied"
    BY <1>16 DEF StreamEndsEmpty
  <2>2. replies' \in Nat
    BY <1>16 DEF StreamEndsEmpty, TypeOK
  <2> QED
    BY <2>1, <2>2, <1>16 DEF StreamEndsEmpty, TypeOK, file, history
<1> QED
  BY <1>1, <1>2, <1>3, <1>4, <1>5, <1>6, <1>7, <1>8, <1>9, <1>10, <1>11, <1>12, <1>13, <1>14, <1>15, <1>a, <1>b,
     <1>16 DEF Inner


LEMMA BeyondIs ==
  ASSUME TypeOK
  PROVE  /\ Beyond \in Seq(Messages) /\ Len(Beyond) \in Nat
         /\ Len(mem) <= baseline => Beyond = <<>>
         /\ Len(mem) > baseline => Len(Beyond) = Len(mem) - baseline
         /\ \A k \in 1..Len(Beyond) : baseline + k \in 1..Len(mem) /\ Beyond[k] = mem[baseline + k]
         /\ ToSet(Beyond) \subseteq ToSet(mem) /\ ToSet(Beyond) \subseteq Messages
<1>1. mem \in Seq(Messages) /\ Len(mem) \in Nat /\ baseline \in Nat
  BY LenProperties DEF TypeOK
<1>2. \A i \in (baseline + 1)..Len(mem) : i \in 1..Len(mem) /\ mem[i] \in Messages
  BY <1>1, ElementOfSeq
<1>3. /\ Beyond \in Seq(Messages)
      /\ Len(Beyond) = IF baseline + 1 <= Len(mem) THEN Len(mem) - (baseline + 1) + 1 ELSE 0
      /\ \A i \in 1..(Len(mem) - (baseline + 1) + 1) : Beyond[i] = mem[(baseline + 1) + i - 1]
  <2>1. baseline + 1 \in Int /\ Len(mem) \in Int
    BY <1>1
  <2> QED
    BY <2>1, <1>2, SubSeqProperties DEF Beyond
<1>4. Len(Beyond) \in Nat
  BY <1>3, LenProperties
<1>5. Len(mem) <= baseline => Beyond = <<>>
  <2>1. Len(mem) <= baseline => Len(mem) < baseline + 1
    BY <1>1
  <2> QED
    BY <2>1, <1>1, SubSeqEmpty DEF Beyond
<1>6. Len(mem) > baseline => Len(Beyond) = Len(mem) - baseline
  BY <1>1, <1>3
<1>7. \A k \in 1..Len(Beyond) : baseline + k \in 1..Len(mem) /\ Beyond[k] = mem[baseline + k]
  <2> SUFFICES ASSUME NEW k \in 1..Len(Beyond) PROVE baseline + k \in 1..Len(mem) /\ Beyond[k] = mem[baseline + k]
    OBVIOUS
  <2>1. k \in 1..(Len(mem) - (baseline + 1) + 1) /\ (baseline + 1) + k - 1 = baseline + k
    BY <1>1, <1>3
  <2> QED
    BY <2>1, <1>1, <1>3
<1>8. \A x \in ToSet(Beyond) : x \in ToSet(mem)
  <2>1. \A x \in ToSet(Beyond) : \E k \in 1..Len(Beyond) : Beyond[k] = x
    BY <1>3, ListHas
  <2>2. \A i \in 1..Len(mem) : mem[i] \in ToSet(mem)
    BY <1>1, ListHas
  <2> QED
    BY <2>1, <2>2, <1>7
<1>9. ToSet(mem) \subseteq Messages
  BY <1>1, ListHas
<1> QED
  BY <1>3, <1>4, <1>5, <1>6, <1>7, <1>8, <1>9

LEMMA PendingTyped ==
  ASSUME TypeOK, Pending
  PROVE  /\ unsaved.msgs \in Seq(Messages)
         /\ unsaved.op = "none" <=> unsaved = None
         /\ unsaved = None => unsaved.msgs = <<>>
         /\ unsaved.op = "append" => unsaved.msgs[1] = LastOf(mem) /\ Len(mem) \in Nat \ {0}
<1>1. <<>> \in Seq(Messages)
  BY EmptySeq
<1>2. unsaved.msgs \in Seq(Messages)
  <2>1. None.msgs = <<>>
    BY DEF None
  <2>2. unsaved = None \/ unsaved.msgs \in Seq(Messages)
    BY DEF TypeOK
  <2> QED
    BY <2>1, <2>2, <1>1
<1>3. unsaved.op = "append" => unsaved.msgs[1] = LastOf(mem) /\ Len(mem) \in Nat \ {0}
  <2>1. mem # <<>> => Len(mem) \in Nat \ {0}
    BY EmptySeq DEF TypeOK
  <2> QED
    BY <2>1 DEF Pending
<1> QED
  BY <1>2, <1>3 DEF Pending, None

LEMMA SavingTyped ==
  ASSUME TypeOK, Pending, Places,
         SaveAppended \/ SaveReplaced \/ SaveFails \/ DiskFails \/ Flush \/ FinishTurn
  PROVE  TypeOK'
<1>1. /\ disk \in Seq(Messages) /\ mem \in Seq(Messages) /\ unsaved.msgs \in Seq(Messages)
      /\ Beyond \in Seq(Messages) /\ ToSet(Beyond) \subseteq Messages
      /\ baseline \in Nat /\ due \in Nat /\ queue \in Seq(1..MaxInputs)
  BY PendingTyped, BeyondIs DEF TypeOK
<1>2. Due \in Nat
  BY <1>1 DEF Due
<1>3. Len(mem) \in Nat /\ Len(unsaved.msgs) \in Nat
  BY <1>1, LenProperties
<1>4. disk \o unsaved.msgs \in Seq(Messages) /\ disk \o Beyond \in Seq(Messages)
  BY <1>1, Joined
<1>5. None = None'
  BY DEF None
<1>6. CASE SaveAppended
  BY <1>1, <1>2, <1>4, <1>6 DEF SaveAppended, Counted, TypeOK, file, turn, counts, history
<1>7. CASE SaveReplaced
  BY <1>1, <1>3, <1>7 DEF SaveReplaced, TypeOK, turn, counts, history
<1>8. CASE SaveFails
  BY <1>2, <1>8 DEF SaveFails, TypeOK, file, turn, counts, history
<1>9. CASE DiskFails
  BY <1>9 DEF DiskFails, Incident, TypeOK, turn, history
<1>10. ASSUME FlushRows, WrittenTwice
       PROVE  disk' \in Seq(Messages) /\ baseline' \in Nat /\ twice' \cup resent' \subseteq Messages
  <2>1. twice \cup resent \subseteq Messages
    BY DEF TypeOK
  <2>2. disk' \in Seq(Messages) /\ baseline' \in Nat
    BY <1>1, <1>3, <1>4, <1>10 DEF FlushRows
  <2>3. twice' \subseteq Messages /\ resent' \subseteq Messages
    BY <2>1, <1>1, <1>10 DEF WrittenTwice
  <2> QED
    BY <2>2, <2>3
<1>11. CASE Flush
  <2>1. due - 1 \in Nat
    BY <1>1, <1>11 DEF Flush
  <2> QED
    BY <2>1, <1>10, <1>11 DEF Flush, TypeOK, turn, counts
<1>12. CASE FinishTurn
  <2> DEFINE T == {i \in ToSet(queue) : Kept(i)}
  <2>1. queue' = Only(queue, T)
    BY <1>12 DEF FinishTurn
  <2> HIDE DEF T
  <2>5. Only(queue, T) \in Seq(1..MaxInputs)
    BY <1>1, QueueKept
  <2>6. ToSet(queue) \subseteq 1..MaxInputs
    BY <1>1, ListHas
  <2>2. queue' \in Seq(1..MaxInputs) /\ ToSet(queue) \subseteq 1..MaxInputs
    BY <2>1, <2>5, <2>6
  <2>3. lost' \subseteq 1..MaxInputs
    BY <2>2, <1>12 DEF FinishTurn, TypeOK
  <2>4. pc' \in {"head", "idle"}
    BY <1>12 DEF FinishTurn, AfterTurn
  <2> QED
    BY <2>2, <2>3, <2>4, <1>10, <1>12 DEF FinishTurn, TypeOK, turn, counts
<1> QED
  BY <1>6, <1>7, <1>8, <1>9, <1>11, <1>12


\* What the loop appends waits for its hook.
LEMMA AppendMsgTyped ==
  ASSUME TypeOK, NEW m \in Messages, AppendMsg(m)
  PROVE  /\ mem' \in Seq(Messages) /\ unsaved'.op = "append" /\ unsaved'.msgs = <<m>>
         /\ unsaved'.msgs \in Seq(Messages) /\ ToSet(mem') = ToSet(mem) \cup {m} /\ LastOf(mem') = m
         /\ Len(mem') = Len(mem) + 1 /\ mem' # <<>> /\ Len(mem) \in Nat
         /\ \A i \in 1..Len(mem) : i \in 1..Len(mem') /\ mem'[i] = mem[i]
         /\ \A i \in 1..Len(mem') : \/ i \in 1..Len(mem) /\ mem'[i] = mem[i]
                                    \/ i = Len(mem) + 1 /\ mem'[i] = m
<1>1. mem \in Seq(Messages) /\ mem' = Append(mem, m) /\ unsaved' = [op |-> "append", msgs |-> <<m>>]
  BY DEF AppendMsg, TypeOK
<1>2. /\ Append(mem, m) \in Seq(Messages) /\ Len(Append(mem, m)) = Len(mem) + 1 /\ Append(mem, m) # <<>>
      /\ ToSet(Append(mem, m)) = ToSet(mem) \cup {m} /\ LastOf(Append(mem, m)) = m
      /\ \A i \in 1..Len(mem) : i \in 1..Len(Append(mem, m)) /\ Append(mem, m)[i] = mem[i]
      /\ \A i \in 1..Len(Append(mem, m)) : \/ i \in 1..Len(mem) /\ Append(mem, m)[i] = mem[i]
                                           \/ i = Len(mem) + 1 /\ Append(mem, m)[i] = m
  BY <1>1, Appended
<1>3. Len(mem) \in Nat
  BY <1>1, LenProperties
<1>4. unsaved'.op = "append" /\ unsaved'.msgs = <<m>>
  BY <1>1
<1>5. <<m>> \in Seq(Messages)
  BY OneMessage
<1>6. (LastOf(mem))' = LastOf(mem')
  BY DEF LastOf
<1> QED
  BY <1>1, <1>2, <1>3, <1>4, <1>5, <1>6

\* The reply that calls, and what answers it.
LEMMA CallingIs ==
  ASSUME TypeOK, Replying, Asking
  PROVE  /\ Calling = LastOf(mem) /\ Calling \in ToSet(mem) /\ Calling \in Messages /\ CallsTools(Calling)
         /\ {<<i, "result">> : i \in Calling.calls} \in SUBSET ((1..MaxCalls) \X Outcomes)
         /\ Results(Calling.n, {<<i, "result">> : i \in Calling.calls}) \in Messages
<1>1. mem # <<>> /\ mem \in Seq(Messages) /\ CallsTools(LastOf(mem))
  BY DEF Replying, TypeOK
<1>2. LastOf(mem) \in ToSet(mem) /\ LastOf(mem) \in Messages
  BY <1>1, ListHas
<1>3. Calling = LastOf(mem)
  BY DEF Calling, Last, LastOf
<1>4. Calling.calls \subseteq 1..MaxCalls /\ Calling.n \in Nat
  BY <1>2, <1>3 DEF Messages
<1>5. \A i \in Calling.calls : <<i, "result">> \in (1..MaxCalls) \X Outcomes
  BY <1>4 DEF Outcomes
<1>6. {<<i, "result">> : i \in Calling.calls} \in SUBSET ((1..MaxCalls) \X Outcomes)
  BY <1>5
<1> DEFINE R == {<<i, "result">> : i \in Calling.calls}
<1> HIDE DEF R
<1>7. R \in SUBSET ((1..MaxCalls) \X Outcomes)
  BY <1>6 DEF R
<1>8. Results(Calling.n, R) \in Messages
  BY <1>4, <1>7, MessagesAre
<1> QED
  BY <1>1, <1>2, <1>3, <1>6, <1>8 DEF R

LEMMA AppendingTyped ==
  ASSUME TypeOK, Replying,
         \/ Prompt \/ AppendDrained \/ NewContext \/ Recover \/ ToolsEnd
         \/ \E how \in {"continue", "tools", "end", "failed", "aborted"}, c \in {0, MaxCalls} :
              StreamEnds(how, 1..c)
  PROVE  TypeOK'
<1>1. /\ mem \in Seq(Messages) /\ queue \in Seq(1..MaxInputs) /\ batch \in Seq(1..MaxInputs)
      /\ inputs \in Nat /\ replies \in Nat /\ incidents \in Nat
  BY DEF TypeOK
<1>2. ASSUME NEW m \in Messages, AppendMsg(m)
      PROVE  mem' \in Seq(Messages) /\ unsaved'.op \in {"append", "replace"} /\ unsaved'.msgs \in Seq(Messages)
  BY <1>2, AppendMsgTyped
<1>3. CASE Prompt
  <2>1. inputs' \in Nat /\ inputs' \in 1..MaxInputs
    BY <1>1, <1>3, Bounds DEF Prompt
  <2>2. CASE inputs' \in host
    <3>1. queue' = Append(queue, inputs') /\ UNCHANGED <<mem, unsaved>>
      BY <2>2, <1>3 DEF Prompt
    <3>2. queue' \in Seq(1..MaxInputs)
      BY <2>1, <3>1, <1>1, Appended
    <3> QED
      BY <2>1, <3>1, <3>2, <1>3 DEF Prompt, TypeOK, None, file, turn, history
  <2>3. CASE ~ (inputs' \in host)
    <3>1. AppendMsg(User(inputs')) /\ UNCHANGED queue
      BY <2>3, <1>3 DEF Prompt
    <3>2. User(inputs') \in Messages
      BY <2>1, MessagesAre
    <3>3. mem' \in Seq(Messages) /\ unsaved'.op \in {"append", "replace"} /\ unsaved'.msgs \in Seq(Messages)
      BY <3>1, <3>2, AppendMsgTyped
    <3> QED
      BY <2>1, <3>1, <3>3, <1>3 DEF Prompt, TypeOK, file, turn, history
  <2> QED
    BY <2>2, <2>3
<1>4. CASE AppendDrained
  <2>1. batch # <<>>
    BY <1>4 DEF AppendDrained
  <2>2. Head(batch) \in 1..MaxInputs /\ Tail(batch) \in Seq(1..MaxInputs)
    BY <2>1, <1>1, HeadTailProperties
  <2>3. Head(batch) \in Nat
    BY <2>2, Bounds
  <2>4. mem' \in Seq(Messages) /\ unsaved'.op \in {"append", "replace"} /\ unsaved'.msgs \in Seq(Messages)
    BY <2>3, <1>4, AppendMsgTyped, MessagesAre DEF AppendDrained
  <2> QED
    BY <2>2, <2>4, <1>4 DEF AppendDrained, TypeOK, file, turn, counts, history
<1>5. CASE NewContext
  <2>1. incidents + 1 \in Nat
    BY <1>1
  <2>2. incidents' \in Nat /\ Context(incidents + 1) \in Messages
    BY <2>1, <1>5, MessagesAre DEF NewContext, Incident
  <2>3. mem' \in Seq(Messages) /\ unsaved'.op \in {"append", "replace"} /\ unsaved'.msgs \in Seq(Messages)
    <3>1. CASE Contexts = {}
      <4>1. <<Context(incidents + 1)>> \in Seq(Messages)
        BY <2>2, OneMessage
      <4> DEFINE ms == <<Context(incidents + 1)>> \o mem
      <4>2. ms \in Seq(Messages)
        BY <4>1, <1>1, ConcatProperties
      <4>3. Replace(ms)
        BY <3>1, <1>5 DEF NewContext
      <4> HIDE DEF ms
      <4> QED
        BY <4>2, <4>3 DEF Replace
    <3>2. CASE Contexts # {}
      BY <3>2, <2>2, <1>5, AppendMsgTyped DEF NewContext
    <3> QED
      BY <3>1, <3>2
  <2> QED
    BY <2>2, <2>3, <1>5 DEF NewContext, TypeOK, file, turn, history
<1>6. CASE Recover
  <2>1. mem' \in Seq(Messages) /\ unsaved'.op \in {"append", "replace"} /\ unsaved'.msgs \in Seq(Messages)
    BY <1>6, AppendMsgTyped, MessagesAre DEF Recover
  <2> QED
    BY <2>1, <1>6 DEF Recover, TypeOK, file, counts, history
<1>7. CASE ToolsEnd
  <2>1. Asking
    BY <1>7 DEF ToolsEnd, Asking
  <2> DEFINE m == Results(Calling.n, {<<i, "result">> : i \in Calling.calls})
  <2>2. m \in Messages /\ AppendMsg(m)
    BY <2>1, <1>7, CallingIs DEF ToolsEnd
  <2> HIDE DEF m
  <2>3. mem' \in Seq(Messages) /\ unsaved'.op \in {"append", "replace"} /\ unsaved'.msgs \in Seq(Messages)
    BY <2>2, AppendMsgTyped
  <2> QED
    BY <2>3, <1>7 DEF ToolsEnd, TypeOK, file, turn, counts, history
<1>8. ASSUME NEW how \in {"continue", "tools", "end", "failed", "aborted"}, NEW c \in {0, MaxCalls},
             StreamEnds(how, 1..c)
      PROVE  TypeOK'
  <2>1. 1..c \in SUBSET (1..MaxCalls) /\ replies + 1 \in Nat
    BY <1>1, Bounds
  <2>2. Reply(replies + 1, 1..c) \in Messages
    BY <2>1, MessagesAre
  <2>3. mem' \in Seq(Messages) /\ unsaved'.op \in {"append", "replace"} /\ unsaved'.msgs \in Seq(Messages)
    BY <2>2, <1>8, AppendMsgTyped DEF StreamEnds
  <2> QED
    BY <2>1, <2>3, <1>8 DEF StreamEnds, TypeOK, file, history
<1> QED
  BY <1>3, <1>4, <1>5, <1>6, <1>7, <1>8

LEMMA QueueingTyped ==
  ASSUME TypeOK, Enqueue \/ LoopHead \/ Wait
  PROVE  TypeOK'
<1>1. /\ queue \in Seq(1..MaxInputs) /\ batch \in Seq(1..MaxInputs) /\ inputs \in Nat /\ <<>> \in Seq(1..MaxInputs)
  BY EmptySeq DEF TypeOK
<1>2. CASE Enqueue
  <2>1. inputs' \in Nat /\ inputs' \in 1..MaxInputs
    BY <1>1, <1>2, Bounds DEF Enqueue
  <2>2. queue' \in Seq(1..MaxInputs)
    BY <2>1, <1>1, <1>2, Appended DEF Enqueue
  <2> QED
    BY <2>1, <2>2, <1>2 DEF Enqueue, TypeOK, None, file, turn, history
<1>3. CASE LoopHead
  BY <1>1, <1>3, NoneYet DEF LoopHead, Drain, TypeOK, None, file, counts, history
<1>4. CASE Wait
  BY <1>1, <1>4, NoneYet DEF Wait, Drain, Return, Locals, TypeOK, None, file, turn, counts, history
<1> QED
  BY <1>2, <1>3, <1>4

LEMMA RewritingTyped ==
  ASSUME TypeOK, Replying, Waiting, Pairs, Retry \/ Compact \/ RollBack \/ Restart
  PROVE  TypeOK'
<1>1. /\ mem \in Seq(Messages) /\ disk \in Seq(Messages) /\ queue \in Seq(1..MaxInputs) /\ batch \in Seq(1..MaxInputs)
      /\ inputs \in Nat /\ incidents \in Nat /\ KeepTail \in Nat /\ Paired(mem)
      /\ dropped \subseteq Messages /\ ToSet(mem) \subseteq Messages /\ summarised \subseteq Messages
  BY Bounds, ListHas DEF TypeOK, Pairs
<1>2. CASE Retry
  <2>1. retries' \in 0..MaxRetries
    BY <1>2, Bounds DEF Retry, TypeOK
  <2>2. stop = "failed" => mem # <<>>
    BY <1>2 DEF Retry, Replying
  <2>3. stop = "failed" => Last(mem) \in Messages
    BY <2>2, <1>1, ListHas DEF Last, LastOf
  <2>4. mem' \in Seq(Messages)
    <3>1. CASE stop = "failed"
      <4>1. Len(mem) \in Nat /\ \A i \in 1..(Len(mem) - 1) : mem[i] \in Messages
        BY <1>1, LenProperties, ElementOfSeq
      <4>2. 1 \in Int /\ Len(mem) - 1 \in Int
        BY <4>1
      <4>3. SubSeq(mem, 1, Len(mem) - 1) \in Seq(Messages)
        BY <4>1, <4>2, SubSeqProperties
      <4> QED
        BY <4>3, <3>1, <1>2 DEF Retry, TakenOut
    <3>2. CASE stop # "failed"
      BY <3>2, <1>1, <1>2 DEF Retry, TakenOut
    <3> QED
      BY <3>1, <3>2
  <2>5. dropped' \subseteq Messages
    BY <2>3, <1>1, <1>2 DEF Retry
  <2> QED
    BY <2>1, <2>4, <2>5, <1>2 DEF Retry, TypeOK, None, file, counts
<1>3. ASSUME CanCompact PROVE Compacted \in Seq(Messages) /\ Len(Compacted) \in Nat
  BY <1>1, <1>3, CompactedIs, LenProperties DEF CanCompact
<1>4. ASSUME Incident PROVE incidents' \in Nat
  BY <1>1, <1>4 DEF Incident
<1>5. CASE Compact
  <2>1. Compacted \in Seq(Messages) /\ incidents' \in Nat /\ summarised' \subseteq Messages
    BY <1>1, <1>3, <1>4, <1>5 DEF Compact, CanCompact
  <2>2. mem' = Compacted /\ unsaved'.op = "replace" /\ unsaved'.msgs = Compacted
    BY <1>5 DEF Compact, Replace
  <2> QED
    BY <2>1, <2>2, <1>5 DEF Compact, TypeOK, None, file, turn
<1>6. CASE RollBack
  <2>1. Compacted \in Seq(Messages) /\ Len(Compacted) \in Nat /\ incidents' \in Nat /\ summarised' \subseteq Messages
    BY <1>1, <1>3, <1>4, <1>6 DEF RollBack, CanCompact
  <2> QED
    BY <2>1, <1>6 DEF RollBack, TypeOK, None, turn
<1>7. CASE Restart
  <2>1. mem' \in Seq(Messages) /\ Len(mem') \in Nat
    BY <1>1, <1>7, RepairPicks DEF Restart
  <2>2. AtRisk \subseteq 1..MaxInputs
    <3>1. ToSet(queue) \subseteq 1..MaxInputs /\ ToSet(batch) \subseteq 1..MaxInputs
      BY <1>1, ListHas
    <3>2. 1..inputs \subseteq 1..MaxInputs
      BY <1>1, Bounds DEF Waiting
    <3> QED
      BY <3>1, <3>2 DEF AtRisk
  <2>3. lost' \subseteq 1..MaxInputs
    BY <2>2, <1>7 DEF Restart, TypeOK
  <2>4. incidents' \in Nat /\ baseline' \in Nat /\ queue' \in Seq(1..MaxInputs) /\ batch' \in Seq(1..MaxInputs)
    BY <2>1, <1>4, <1>7, EmptySeq DEF Restart
  <2>5. /\ mem' \in Seq(Messages) /\ UNCHANGED <<host, disk, inputs, replies, summarised, twice, resent>>
        /\ unsaved' = None /\ broken' = FALSE /\ due' = 0 /\ pc' = "idle" /\ cancelled' = FALSE
        /\ stop' = "end" /\ answered' = 0 /\ skipping' = FALSE /\ retries' = 0 /\ recovered' = FALSE
        /\ dropped' = {} /\ rolledBack' = FALSE
    BY <2>1, <1>7 DEF Restart, Return, Locals
  <2>6. dropped' \cup summarised' \cup twice' \cup resent' \subseteq Messages
    BY <2>5 DEF TypeOK
  <2>7. {mem', disk'} \subseteq Seq(Messages) /\ {baseline', due', inputs', replies', incidents'} \subseteq Nat
    BY <2>4, <2>5 DEF TypeOK
  <2>8. answered' \in 0..MaxCalls /\ retries' \in 0..MaxRetries
    BY <2>5, NoneYet
  <2>9. {broken', cancelled', skipping', recovered', rolledBack'} \subseteq BOOLEAN
    BY <2>5
  <2> QED
    BY <2>3, <2>4, <2>5, <2>6, <2>7, <2>8, <2>9 DEF TypeOK, None
<1> QED
  BY <1>2, <1>5, <1>6, <1>7


-----------------------------------------------------------------------------
(* Steps that leave the transcript, the file and what waits for a hook.    *)

Transcript == <<mem, disk, baseline, broken, unsaved, host>>
Records    == <<dropped, summarised, twice, resent, rolledBack>>

\* The counters only grow.
Counting == /\ inputs' \in Nat /\ replies' \in Nat /\ incidents' \in Nat
            /\ inputs <= inputs' /\ replies <= replies' /\ incidents <= incidents'

LEMMA FormedStays ==
  ASSUME TypeOK, Counting, NEW m \in Messages, Formed(m)
  PROVE  Formed(m)'
<1>1. m.n \in Nat /\ inputs \in Nat /\ replies \in Nat /\ incidents \in Nat
  BY DEF TypeOK, Messages
<1>2. m.kind = "user" => m.n \in 1..inputs'
  BY <1>1 DEF Formed, Counting
<1>3. m.kind \in {"context", "summary"} => m.n <= incidents'
  BY <1>1 DEF Formed, Counting
<1>4. m.kind \in {"reply", "results"} => m.n <= replies'
  BY <1>1 DEF Formed, Counting
<1> QED
  BY <1>2, <1>3, <1>4 DEF Formed, Nudge, Msg

LEMMA ToldTyped ==
  ASSUME TypeOK
  PROVE  Told \subseteq Messages /\ ToSet(mem) \subseteq Messages /\ ToSet(disk) \subseteq Messages
<1>1. mem \in Seq(Messages) /\ disk \in Seq(Messages)
  BY DEF TypeOK
<1>2. ToSet(mem) \subseteq Messages /\ ToSet(disk) \subseteq Messages
  BY <1>1, ListHas
<1> QED
  BY <1>2 DEF Told

LEMMA QuietKeeps ==
  ASSUME TypeOK, Coherent, Pending, Pairs, Written, Repeated,
         UNCHANGED Transcript, UNCHANGED Records, Counting,
         Asking' => Asking, unsaved.op = "replace" => (pc = "idle" <=> pc' = "idle")
  PROVE  Coherent' /\ Pending' /\ Pairs' /\ Written' /\ Repeated'
<1>1. /\ mem' = mem /\ disk' = disk /\ baseline' = baseline /\ broken' = broken /\ unsaved' = unsaved
      /\ dropped' = dropped /\ twice' = twice /\ resent' = resent /\ rolledBack' = rolledBack
  BY DEF Transcript, Records
<1>2. Told' = Told
  BY <1>1 DEF Told
<1>3. Coherent'
  <2>1. \A m \in Told : m \in Messages /\ Formed(m)
    BY ToldTyped DEF Coherent
  <2>2. \A m \in Told : Formed(m)'
    BY <2>1, FormedStays
  <2> QED
    BY <2>2, <1>2 DEF Coherent
<1>4. Pending'
  BY <1>1 DEF Pending, LastOf, None
<1>5. Pairs'
  BY <1>1 DEF Pairs, HasPair, LastOf, None
<1>6. Written'
  <2>1. \A i \in 1..Len(mem) : Settled(i)' <=> Settled(i)
    BY <1>1 DEF Settled
  <2>2. \A x, y : Before(x, y)' <=> Before(x, y)
    BY <1>1 DEF Before
  <2> QED
    BY <2>1, <2>2, <1>1 DEF Written
<1>7. Repeated'
  BY <1>1 DEF Repeated, Single, Twofold
<1> QED
  BY <1>3, <1>4, <1>5, <1>6, <1>7

LEMMA InnerFrame ==
  ASSUME TypeOK, Places, Replying, Inner
  PROVE  /\ UNCHANGED Transcript /\ UNCHANGED Records /\ UNCHANGED <<queue, batch, inputs, lost>> /\ Counting
         /\ pc # "idle" /\ pc' # "idle"
         /\ pc' = pc \/ (unsaved.op = "none" /\ batch = <<>>)
         /\ Asking' => Asking
         /\ pc' = "replied" /\ stop' = "failed" => pc = "replied" /\ stop = "failed"
         /\ pc' \in {"asking", "running"} => Left' # {}
<1> USE DEF Transcript, Records, Counting, file, turn, counts, history, Asking
<1>1. inputs \in Nat /\ replies \in Nat /\ incidents \in Nat /\ (unsaved = None => unsaved.op = "none")
  BY DEF TypeOK, None
<1>2. CASE Blocked
  BY <1>1, <1>2 DEF Blocked, Return, Locals, Free
<1>3. CASE SameContext
  BY <1>1, <1>3 DEF SameContext, Free
<1>4. CASE Send
  BY <1>1, <1>4 DEF Send, Free
<1>5. CASE OpenFails
  BY <1>1, <1>5 DEF OpenFails, Return, Locals, Free
<1>6. CASE StreamCancelled
  <2>1. unsaved.op = "none" /\ batch = <<>>
    BY <1>6 DEF StreamCancelled, Places, TypeOK, None
  <2> QED
    BY <2>1, <1>1, <1>6 DEF StreamCancelled, Return, Locals
<1>7. CASE GiveUp
  BY <1>1, <1>7 DEF GiveUp, Return, Locals, Free
<1>8. CASE GoOn
  BY <1>1, <1>8 DEF GoOn, Free
<1>9. CASE TurnEnds
  BY <1>1, <1>9 DEF TurnEnds, Return, Locals, Free
<1>10. CASE ToolsBegin
  BY <1>1, <1>10 DEF ToolsBegin, Free
<1>11. CASE SkipCall
  BY <1>1, <1>11 DEF SkipCall
<1>12. CASE RefuseCall
  BY <1>1, <1>12 DEF RefuseCall
<1>13. CASE StartTool
  <2>1. unsaved.op = "none" /\ batch = <<>>
    BY <1>13 DEF StartTool, Places, TypeOK, None
  <2>2. Left' = Left /\ Left # {}
    BY <1>13 DEF StartTool, Left, Calling, Last
  <2> QED
    BY <2>1, <2>2, <1>1, <1>13 DEF StartTool
<1>14. CASE ToolReturns
  <2>1. unsaved.op = "none" /\ batch = <<>>
    BY <1>14 DEF ToolReturns, Places, TypeOK, None
  <2> QED
    BY <2>1, <1>1, <1>14 DEF ToolReturns
<1>15. CASE AfterTools
  BY <1>1, <1>15 DEF AfterTools, Return, Locals, Free
<1>16. CASE Abort
  <2>1. pc' \in {"asking", "running"} => pc' = pc /\ answered' = answered
    BY <1>16 DEF Abort, Answer
  <2>2. pc' \in {"asking", "running"} => Left' # {}
    BY <2>1, <1>16 DEF Abort, Replying, Left, Calling, Last
  <2>3. pc = "asking" => unsaved.op = "none" /\ batch = <<>>
    BY DEF Places, TypeOK, None
  <2> QED
    BY <2>2, <2>3, <1>1, <1>16 DEF Abort, Answer, Incident
<1>a. CASE AskUser
  <2>1. unsaved.op = "none" /\ batch = <<>>
    BY <1>a DEF AskUser, Places, TypeOK, None
  <2>2. Left' = Left /\ Left # {}
    BY <1>a DEF AskUser, Left, Calling, Last
  <2> QED
    BY <2>1, <2>2, <1>1, <1>a DEF AskUser
<1>b. CASE UserAnswers
  <2>1. unsaved.op = "none" /\ batch = <<>>
    BY <1>b DEF UserAnswers, Places, TypeOK, None
  <2>2. pc' \in {"tools", "running"} /\ (pc' = "running" => answered' = answered)
    BY <1>b DEF UserAnswers, Answer
  <2>3. pc' = "running" => Left' # {}
    BY <2>2, <1>b DEF UserAnswers, Replying, Left, Calling, Last
  <2> QED
    BY <2>1, <2>2, <2>3, <1>1, <1>b DEF UserAnswers
<1>17. ASSUME NEW how \in {"end", "failed", "aborted"}, StreamEndsEmpty(how)
       PROVE  /\ UNCHANGED Transcript /\ UNCHANGED Records /\ UNCHANGED <<queue, batch, inputs, lost>> /\ Counting
              /\ pc = "streaming" /\ pc' = "replied" /\ stop' \notin {"failed", "tools"}
              /\ unsaved.op = "none" /\ batch = <<>>
  <2>1. unsaved.op = "none" /\ batch = <<>>
    BY <1>17 DEF StreamEndsEmpty, Places, TypeOK, None
  <2> QED
    BY <2>1, <1>1, <1>17 DEF StreamEndsEmpty
<1> QED
  BY <1>2, <1>3, <1>4, <1>5, <1>6, <1>7, <1>8, <1>9, <1>10, <1>11, <1>12, <1>13, <1>14, <1>15, <1>16, <1>a, <1>b,
     <1>17 DEF Inner


LEMMA InnerKeeps ==
  ASSUME AgentInv, Inner
  PROVE  AgentInv'
<1>1. /\ TypeOK /\ Coherent /\ Pending /\ Places /\ Replying /\ Waiting
      /\ Pairs /\ Written /\ Repeated /\ Saved /\ Ordered
  BY DEF AgentInv
<1>2. /\ UNCHANGED Transcript /\ UNCHANGED Records /\ UNCHANGED <<queue, batch, inputs, lost>> /\ Counting
      /\ pc # "idle" /\ pc' # "idle"
      /\ pc' = pc \/ (unsaved.op = "none" /\ batch = <<>>)
      /\ Asking' => Asking
      /\ pc' = "replied" /\ stop' = "failed" => pc = "replied" /\ stop = "failed"
      /\ pc' \in {"asking", "running"} => Left' # {}
  BY <1>1, InnerFrame
<1>3. TypeOK'
  BY <1>1, InnerTyped
<1>4. Coherent' /\ Pending' /\ Pairs' /\ Written' /\ Repeated'
  BY <1>1, <1>2, QuietKeeps
<1>5. /\ mem' = mem /\ disk' = disk /\ broken' = broken /\ unsaved' = unsaved /\ host' = host
      /\ queue' = queue /\ batch' = batch /\ inputs' = inputs /\ lost' = lost
      /\ summarised' = summarised /\ resent' = resent
  BY <1>2 DEF Transcript, Records
<1>6. Told' = Told
  BY <1>5 DEF Told
<1>7. Places'
  BY <1>1, <1>2, <1>5 DEF Places
<1>8. Replying'
  BY <1>1, <1>2, <1>5, <1>6 DEF Replying, LastOf
<1>9. Waiting'
  BY <1>1, <1>5, <1>6 DEF Waiting
<1>10. Saved'
  BY <1>1, <1>2, <1>5 DEF Saved, AccountedFor
<1>11. Ordered'
  BY <1>1, <1>5 DEF Ordered, UsersInOrder, Ascending, Late
<1> QED
  BY <1>3, <1>4, <1>7, <1>8, <1>9, <1>10, <1>11 DEF AgentInv


-----------------------------------------------------------------------------
(* An input is accepted, or drained.                                       *)

\* A number that was not given yet is nowhere.
LEMMA UserIsNew ==
  ASSUME TypeOK, Coherent
  PROVE  /\ User(inputs + 1) \notin Told
         /\ \A m \in Told : m.kind = "user" => m.n <= inputs /\ m.n \in Nat
<1>1. inputs \in Nat
  BY DEF TypeOK
<1>2. \A m \in Told : m.kind = "user" => m.n \in 1..inputs
  BY DEF Coherent, Formed
<1>3. User(inputs + 1).kind = "user" /\ User(inputs + 1).n = inputs + 1
  BY DEF User, Msg
<1> QED
  BY <1>1, <1>2, <1>3

LEMMA QueuedKeeps ==
  ASSUME TypeOK, Coherent, Waiting, Saved, Ordered,
         UNCHANGED Transcript, UNCHANGED Records, UNCHANGED <<batch, lost>>,
         inputs < MaxInputs, inputs' = inputs + 1, queue' = Append(queue, inputs'),
         unsaved.op = "replace" => (pc = "idle" <=> pc' = "idle")
  PROVE  Waiting' /\ Saved' /\ Ordered'
<1> DEFINE new == inputs + 1
<1>1. /\ inputs \in Nat /\ queue \in Seq(1..MaxInputs) /\ batch \in Seq(1..MaxInputs)
      /\ MaxInputs \in Nat /\ new \in 1..MaxInputs
  BY Bounds DEF TypeOK
<1>2. /\ mem' = mem /\ disk' = disk /\ broken' = broken /\ unsaved' = unsaved /\ host' = host
      /\ batch' = batch /\ lost' = lost /\ summarised' = summarised /\ resent' = resent
  BY DEF Transcript, Records
<1>3. queue' = Append(queue, new)
  OBVIOUS
<1> HIDE DEF new
<1>4. /\ Append(queue, new) \in Seq(1..MaxInputs)
      /\ ToSet(Append(queue, new)) = ToSet(queue) \cup {new}
      /\ \A i \in 1..Len(Append(queue, new)) : \/ i \in 1..Len(queue) /\ Append(queue, new)[i] = queue[i]
                                               \/ i = Len(queue) + 1 /\ Append(queue, new)[i] = new
  BY <1>1, Appended
<1>5. /\ ToSet(queue') = ToSet(queue) \cup {new}
      /\ \A i \in 1..Len(queue') : \/ i \in 1..Len(queue) /\ queue'[i] = queue[i]
                                   \/ i = Len(queue) + 1 /\ queue'[i] = new
  BY <1>3, <1>4
<1>6. /\ Len(queue) \in Nat /\ Len(batch) \in Nat
      /\ \A i \in 1..Len(queue) : queue[i] \in ToSet(queue)
      /\ \A i \in 1..Len(batch) : batch[i] \in ToSet(batch)
  BY <1>1, ListHas
<1>7. Told' = Told /\ ToSet(mem) \subseteq Told /\ ToSet(disk) \subseteq Told
  BY <1>2 DEF Told
<1>8. new = inputs + 1 /\ new = inputs'
  BY DEF new
<1>9. User(new) \notin Told /\ \A m \in Told : m.kind = "user" => m.n <= inputs /\ m.n \in Nat
  BY <1>8, UserIsNew
<1>10. \A n \in ToSet(queue) \cup ToSet(batch) : n \in 1..inputs /\ n # new
  BY <1>1, <1>8 DEF Waiting
<1>11. Waiting'
  <2>1. inputs' <= MaxInputs /\ ToSet(queue') \cup ToSet(batch') \subseteq 1..inputs'
    BY <1>1, <1>2, <1>5, <1>8, <1>10
  <2>2. \A n \in ToSet(queue') \cup ToSet(batch') : User(n) \notin Told'
    BY <1>2, <1>5, <1>7, <1>9 DEF Waiting
  <2>3. \A i, j \in 1..Len(queue') : queue'[i] = queue'[j] => i = j
    BY <1>5, <1>6, <1>10 DEF Waiting
  <2>4. ToSet(queue') \cap ToSet(batch') = {}
    BY <1>2, <1>5, <1>10 DEF Waiting
  <2> QED
    BY <2>1, <2>2, <2>3, <2>4, <1>2 DEF Waiting
<1>12. \A n \in 1..inputs' : n \in 1..inputs \/ n = new
  BY <1>1, <1>8
<1>13. Saved'
  <2>1. \A n \in 1..inputs' : AccountedFor(n)'
    BY <1>2, <1>5, <1>12 DEF Saved, AccountedFor
  <2>2. \A n \in 1..inputs' : User(n) \in ToSet(mem) => n \in 1..inputs
    BY <1>7, <1>9, <1>12
  <2> QED
    BY <2>1, <2>2, <1>2 DEF Saved
<1>14. Ordered'
  <2>1. \A n : Late(n)' <=> Late(n)
    BY <1>2 DEF Late
  <2>2. UsersInOrder(mem)' /\ UsersInOrder(disk)' /\ Ascending(batch)'
    BY <2>1, <1>2 DEF Ordered, UsersInOrder, Ascending
  <2>3. Ascending(queue)'
    <3> SUFFICES ASSUME NEW i \in 1..Len(queue'), NEW j \in 1..Len(queue'), i < j
                 PROVE  (queue'[j] \in host' \/ User(queue'[j]) \in resent') \/ queue'[i] <= queue'[j]
      BY DEF Ascending, Late
    <3>1. CASE j \in 1..Len(queue) /\ queue'[j] = queue[j]
      <4>1. i \in 1..Len(queue) /\ queue'[i] = queue[i]
        BY <3>1, <1>5, <1>6
      <4> QED
        BY <3>1, <4>1, <1>2 DEF Ordered, Ascending, Late
    <3>2. CASE j = Len(queue) + 1 /\ queue'[j] = new
      <4>1. i \in 1..Len(queue) /\ queue'[i] = queue[i]
        BY <3>2, <1>5, <1>6
      <4> QED
        BY <3>2, <4>1, <1>1, <1>6, <1>8, <1>10
    <3> QED
      BY <3>1, <3>2, <1>5
  <2>4. \A m \in ToSet(mem'), n \in ToSet(batch') \cup ToSet(queue') : m.kind = "user" => Late(n)' \/ m.n <= n
    <3> SUFFICES ASSUME NEW m \in ToSet(mem), NEW n \in ToSet(batch') \cup ToSet(queue'), m.kind = "user"
                 PROVE  Late(n) \/ m.n <= n
      BY <1>2, <2>1
    <3>1. CASE n = new
      BY <3>1, <1>1, <1>7, <1>8, <1>9
    <3>2. CASE n \in ToSet(batch) \cup ToSet(queue)
      BY <3>2 DEF Ordered
    <3> QED
      BY <3>1, <3>2, <1>2, <1>5
  <2>5. \A m \in ToSet(batch'), n \in ToSet(queue') : Late(n)' \/ m <= n
    <3> SUFFICES ASSUME NEW m \in ToSet(batch), NEW n \in ToSet(queue')
                 PROVE  Late(n) \/ m <= n
      BY <1>2, <2>1
    <3>1. CASE n = new
      BY <3>1, <1>1, <1>8, <1>10
    <3>2. CASE n \in ToSet(queue)
      BY <3>2 DEF Ordered
    <3> QED
      BY <3>1, <3>2, <1>5
  <2> QED
    BY <2>2, <2>3, <2>4, <2>5 DEF Ordered
<1> QED
  BY <1>11, <1>13, <1>14

LEMMA DrainedKeeps ==
  ASSUME TypeOK, Waiting, Saved, Ordered,
         UNCHANGED Transcript, UNCHANGED Records, UNCHANGED <<inputs, lost>>,
         batch = <<>>, batch' = queue, queue' = <<>>, unsaved.op # "replace"
  PROVE  Waiting' /\ Saved' /\ Ordered'
<1>1. queue \in Seq(1..MaxInputs) /\ <<>> \in Seq(1..MaxInputs)
  BY EmptySeq DEF TypeOK
<1>2. /\ mem' = mem /\ disk' = disk /\ broken' = broken /\ unsaved' = unsaved /\ host' = host
      /\ inputs' = inputs /\ lost' = lost /\ summarised' = summarised /\ resent' = resent
  BY DEF Transcript, Records
<1>3. ToSet(<<>>) = {} /\ Len(<<>>) = 0
  BY <1>1, ListHas
<1>4. Told' = Told
  BY <1>2 DEF Told
<1>5. Waiting'
  BY <1>2, <1>3, <1>4 DEF Waiting
<1>6. Saved'
  <2>1. \A n \in 1..inputs : AccountedFor(n)'
    BY <1>2, <1>3 DEF Saved, AccountedFor
  <2> QED
    BY <2>1, <1>2 DEF Saved
<1>7. Ordered'
  <2>1. \A n : Late(n)' <=> Late(n)
    BY <1>2 DEF Late
  <2>2. UsersInOrder(mem)' /\ UsersInOrder(disk)' /\ Ascending(batch)'
    BY <2>1, <1>2 DEF Ordered, UsersInOrder, Ascending
  <2>3. Ascending(queue)'
    BY <1>3 DEF Ascending
  <2> QED
    BY <2>1, <2>2, <2>3, <1>2, <1>3 DEF Ordered
<1> QED
  BY <1>5, <1>6, <1>7

LEMMA QueueingKeeps ==
  ASSUME AgentInv, Enqueue \/ LoopHead \/ Wait
  PROVE  AgentInv'
<1>1. /\ TypeOK /\ Coherent /\ Pending /\ Places /\ Replying /\ Waiting
      /\ Pairs /\ Written /\ Repeated /\ Saved /\ Ordered
  BY DEF AgentInv
<1>2. TypeOK'
  BY <1>1, QueueingTyped
<1>3. inputs \in Nat /\ replies \in Nat /\ incidents \in Nat /\ (unsaved = None => unsaved.op = "none")
  BY <1>1 DEF TypeOK, None
<1>4. /\ UNCHANGED Transcript /\ UNCHANGED Records /\ UNCHANGED lost /\ Counting
      /\ pc # "idle" /\ pc' # "idle" /\ (Asking' => Asking)
      /\ (unsaved.op = "replace" => (pc = "idle" <=> pc' = "idle"))
  <2> USE DEF Transcript, Records, Counting, file, turn, counts, history
  <2>1. CASE Enqueue
    BY <2>1, <1>3 DEF Enqueue, Asking
  <2>2. CASE LoopHead
    BY <2>2, <1>3 DEF LoopHead, Asking
  <2>3. CASE Wait
    BY <2>3, <1>3 DEF Wait, Return, Locals, Asking
  <2> QED
    BY <2>1, <2>2, <2>3
<1>5. Coherent' /\ Pending' /\ Pairs' /\ Written' /\ Repeated'
  BY <1>1, <1>4, QuietKeeps
<1> USE DEF Transcript, Records, file, turn, counts, history
<1>6. Places'
  <2>1. CASE Enqueue
    BY <2>1, <1>1, <1>4 DEF Enqueue, Places
  <2>2. CASE LoopHead
    BY <2>2, <1>3, <1>4 DEF LoopHead, Free, Places
  <2>3. CASE Wait
    BY <2>3, <1>3, <1>4 DEF Wait, Return, Locals, Free, Places
  <2> QED
    BY <2>1, <2>2, <2>3
<1>7. Replying'
  <2>1. Told' = Told /\ mem' = mem
    BY <1>4 DEF Told
  <2>2. CASE Enqueue
    BY <2>1, <2>2, <1>1 DEF Enqueue, Replying, Asking, LastOf, Left, Calling, Last
  <2>3. CASE LoopHead
    BY <2>1, <2>3 DEF LoopHead, Replying, Asking
  <2>4. CASE Wait
    BY <2>1, <2>4 DEF Wait, Return, Locals, Replying, Asking
  <2> QED
    BY <2>2, <2>3, <2>4
<1> HIDE DEF Transcript, Records, file, turn, counts, history
<1>8. Waiting' /\ Saved' /\ Ordered'
  <2>1. CASE Enqueue
    <3>1. /\ inputs < MaxInputs /\ inputs' = inputs + 1 /\ queue' = Append(queue, inputs') /\ UNCHANGED batch
      BY <2>1 DEF Enqueue
    <3> QED
      BY <3>1, <1>1, <1>4, QueuedKeeps
  <2>2. ASSUME batch = <<>>, batch' = queue, queue' = <<>>, unsaved = None, inputs' = inputs
        PROVE  Waiting' /\ Saved' /\ Ordered'
    BY <2>2, <1>1, <1>3, <1>4, DrainedKeeps
  <2>3. CASE LoopHead
    BY <2>2, <2>3 DEF LoopHead, Free, Drain, counts
  <2>4. CASE Wait /\ ~ cancelled
    BY <2>2, <2>4 DEF Wait, Free, Drain, counts
  <2>5. CASE Wait /\ cancelled
    <3>1. UNCHANGED <<queue, batch, inputs>> /\ unsaved = None
      BY <2>5 DEF Wait, Free, counts
    <3>2. Told' = Told
      BY <1>4 DEF Told, Transcript
    <3>3. Waiting'
      BY <3>1, <3>2, <1>1 DEF Waiting
    <3>4. Saved'
      BY <3>1, <1>1, <1>3, <1>4 DEF Saved, AccountedFor, Transcript, Records
    <3>5. Ordered'
      BY <3>1, <1>1, <1>4 DEF Ordered, UsersInOrder, Ascending, Late, Transcript, Records
    <3> QED
      BY <3>3, <3>4, <3>5
  <2> QED
    BY <2>1, <2>3, <2>4, <2>5
<1> QED
  BY <1>1, <1>2, <1>5, <1>6, <1>7, <1>8 DEF AgentInv


-----------------------------------------------------------------------------
(* The loop appends a message.                                             *)

LEMMA AppendKeeps ==
  ASSUME TypeOK, Coherent, Pending, Pairs, Written, Repeated, unsaved.op = "none",
         NEW m \in Messages, AppendMsg(m), UNCHANGED <<disk, baseline, broken>>, UNCHANGED Records,
         Counting, Formed(m)',
         m = Nudge \/ m \notin Told,
         m.kind = "reply" => \A x \in Told : x.kind = "reply" \/ IsResults(x) => x.n # m.n,
         IsResults(m) => /\ Asking /\ LastOf(mem) \in Told /\ Answers(LastOf(mem), m)
                         /\ Answered(m) = LastOf(mem).calls /\ mem # <<>>
  PROVE  Coherent' /\ Pending' /\ Pairs' /\ Written' /\ Repeated'
<1>1. /\ mem' \in Seq(Messages) /\ unsaved'.op = "append" /\ unsaved'.msgs = <<m>>
      /\ ToSet(mem') = ToSet(mem) \cup {m} /\ LastOf(mem') = m
      /\ Len(mem') = Len(mem) + 1 /\ mem' # <<>> /\ Len(mem) \in Nat
      /\ \A i \in 1..Len(mem) : i \in 1..Len(mem') /\ mem'[i] = mem[i]
      /\ \A i \in 1..Len(mem') : \/ i \in 1..Len(mem) /\ mem'[i] = mem[i]
                                 \/ i = Len(mem) + 1 /\ mem'[i] = m
  BY AppendMsgTyped
<1>2. /\ disk' = disk /\ baseline' = baseline /\ broken' = broken
      /\ dropped' = dropped /\ twice' = twice /\ resent' = resent /\ rolledBack' = rolledBack
  BY DEF Records
<1>3. Told' = Told \cup {m}
  BY <1>1, <1>2 DEF Told
<1>4. /\ mem \in Seq(Messages) /\ disk \in Seq(Messages) /\ unsaved = None /\ unsaved.op = "none"
      /\ \A i \in 1..Len(mem) : mem[i] \in ToSet(mem)
  BY PendingTyped, ListHas DEF TypeOK
<1>5. Coherent'
  <2>1. \A x \in Told : x \in Messages /\ Formed(x)
    BY ToldTyped DEF Coherent
  <2>2. \A x \in Told' : Formed(x)'
    BY <2>1, <1>3, FormedStays
  <2>3. m.kind = "results" => m.kind # "reply"
    OBVIOUS
  <2>4. \A x, y \in Told' : x.kind = "reply" /\ y.kind = "reply" /\ x.n = y.n => x = y
    BY <1>3 DEF Coherent
  <2>5. \A x, y \in Told' : x.kind = "reply" /\ IsResults(y) /\ x.n = y.n => Answered(y) = x.calls
    <3> SUFFICES ASSUME NEW x \in Told', NEW y \in Told', x.kind = "reply", IsResults(y), x.n = y.n
                 PROVE  Answered(y) = x.calls
      OBVIOUS
    <3>1. CASE y = m
      <4>1. x \in Told
        BY <3>1, <1>3 DEF IsResults
      <4>2. LastOf(mem).kind = "reply" /\ LastOf(mem).n = m.n /\ LastOf(mem) \in Told
        BY <3>1 DEF Answers, CallsTools
      <4>3. x = LastOf(mem)
        BY <4>1, <4>2, <3>1 DEF Coherent
      <4> QED
        BY <4>3, <3>1
    <3>2. CASE y # m
      <4>1. y \in Told
        BY <3>2, <1>3
      <4> QED
        BY <4>1, <1>3 DEF Coherent
    <3> QED
      BY <3>1, <3>2
  <2> QED
    BY <2>2, <2>4, <2>5 DEF Coherent
<1>6. Pending'
  BY <1>1 DEF Pending, LastOf
<1>7. Pairs'
  <2>1. Paired(mem')
    <3> SUFFICES ASSUME NEW j \in 1..Len(mem'), Whole(mem'[j]) PROVE j > 1 /\ Answers(mem'[j - 1], mem'[j])
      BY DEF Paired
    <3>1. CASE j \in 1..Len(mem) /\ mem'[j] = mem[j]
      <4>1. j > 1 /\ Answers(mem[j - 1], mem[j])
        BY <3>1 DEF Pairs, Paired
      <4>2. j - 1 \in 1..Len(mem)
        BY <4>1, <1>1
      <4> QED
        BY <4>1, <4>2, <3>1, <1>1
    <3>2. CASE j = Len(mem) + 1 /\ mem'[j] = m
      <4>1. IsResults(m)
        BY <3>2 DEF Whole
      <4>2. Len(mem) \in 1..Len(mem) /\ LastOf(mem) = mem[Len(mem)]
        BY <4>1, <1>4, ListHas DEF LastOf
      <4>3. j - 1 = Len(mem) /\ j > 1
        BY <3>2, <4>2, <1>1
      <4> QED
        BY <4>1, <4>2, <4>3, <3>2, <1>1
    <3> QED
      BY <3>1, <3>2, <1>1
  <2>2. \A x \in ToSet(disk) : Whole(x) => x \in resent' \/ HasPair(x)'
    BY <1>2 DEF Pairs, HasPair
  <2>3. unsaved' # None
    BY <1>1 DEF None
  <2>4. unsaved'.msgs[1] = m
    BY <1>1
  <2>5. ~ broken /\ IsResults(m) => disk # <<>> /\ LastOf(disk) = LastOf(mem)
    BY <1>4 DEF Pairs
  <2>6. (LastOf(disk))' = LastOf(disk)
    BY <1>2 DEF LastOf
  <2>7. ~ broken' /\ unsaved'.op = "append" /\ IsResults(unsaved'.msgs[1]) =>
           disk' # <<>> /\ Answers((LastOf(disk))', unsaved'.msgs[1])
    BY <2>4, <2>5, <2>6, <1>2
  <2>8. ~ broken' /\ Asking' /\ unsaved' = None => disk' # <<>> /\ (LastOf(disk))' = (LastOf(mem))'
    BY <2>3
  <2>9. None' = None
    BY DEF None
  <2> QED
    BY <2>1, <2>2, <2>7, <2>8, <2>9, <1>2 DEF Pairs
<1>8. Written'
  <2> SUFFICES ASSUME ~ broken, ~ rolledBack
               PROVE  /\ Len(mem') <= baseline + 1
                      /\ \A i \in 1..Len(mem') : i # Len(mem') /\ ~ Stubbed(mem'[i]) => mem'[i] \in ToSet(disk)
                      /\ \A i, j \in 1..Len(mem') : i < j /\ j # Len(mem') /\ ~ Stubbed(mem'[i]) /\ ~ Stubbed(mem'[j])
                           => Before(mem'[i], mem'[j])
                      /\ \A x \in ToSet(disk) : Stubbed(x) \/ x \in ToSet(mem') \cup dropped \cup resent
    BY <1>1, <1>2 DEF Written, Settled, Before
  <2>1. Len(mem) <= baseline + 0
    BY <1>4 DEF Written
  <2>2. Len(mem') <= baseline + 1
    BY <2>1, <1>1 DEF TypeOK
  <2>3. \A i \in 1..Len(mem') : i # Len(mem') => i \in 1..Len(mem) /\ mem'[i] = mem[i]
    BY <1>1
  <2>4. \A i \in 1..Len(mem) : Settled(i)
    BY <1>4 DEF Settled
  <2>5. \A i \in 1..Len(mem') : i # Len(mem') /\ ~ Stubbed(mem'[i]) => mem'[i] \in ToSet(disk)
    BY <2>3, <2>4 DEF Written
  <2>6. \A i, j \in 1..Len(mem) : i < j /\ ~ Stubbed(mem[i]) /\ ~ Stubbed(mem[j]) => Before(mem[i], mem[j])
    BY <2>4, <1>4 DEF Written
  <2>7. \A i, j \in 1..Len(mem') : i < j /\ j # Len(mem') => i # Len(mem')
    BY <1>1
  <2>8. \A i, j \in 1..Len(mem') : i < j /\ j # Len(mem') /\ ~ Stubbed(mem'[i]) /\ ~ Stubbed(mem'[j])
           => Before(mem'[i], mem'[j])
    BY <2>3, <2>6, <2>7
  <2>9. \A x \in ToSet(disk) : Stubbed(x) \/ x \in ToSet(mem') \cup dropped \cup resent
    BY <1>1, <1>4 DEF Written
  <2> QED
    BY <2>2, <2>5, <2>8, <2>9
<1>9. Repeated'
  <2>1. m \in Told => Twofold(m)
    BY DEF Twofold
  <2>2. \A x : Twofold(x)' <=> Twofold(x)
    BY <1>2 DEF Twofold
  <2>3. Single(disk)'
    BY <2>2, <1>2 DEF Repeated, Single
  <2>4. Single(mem)'
    <3> SUFFICES ASSUME NEW i \in 1..Len(mem'), NEW j \in 1..Len(mem'), i < j, mem'[i] = mem'[j]
                 PROVE  Twofold(mem'[i])
      BY <2>2 DEF Single
    <3>1. i \in 1..Len(mem) /\ mem'[i] = mem[i]
      BY <1>1
    <3>2. CASE j \in 1..Len(mem) /\ mem'[j] = mem[j]
      BY <3>1, <3>2 DEF Repeated, Single
    <3>3. CASE mem'[j] = m
      BY <3>1, <3>3, <2>1, <1>4 DEF Told
    <3> QED
      BY <3>2, <3>3, <1>1
  <2>5. unsaved'.msgs[1] = m /\ (m \in ToSet(disk) => m \in Told)
    BY <1>1 DEF Told
  <2> QED
    BY <2>1, <2>2, <2>3, <2>4, <2>5, <1>2 DEF Repeated
<1> QED
  BY <1>5, <1>6, <1>7, <1>8, <1>9


\* A message that is no user's leaves the inputs as they are.
LEMMA AppendOther ==
  ASSUME TypeOK, Waiting, Saved, Ordered, unsaved.op = "none",
         NEW m \in Messages, AppendMsg(m), m.kind # "user", UNCHANGED <<disk, broken, host>>,
         UNCHANGED Records, UNCHANGED <<queue, batch, inputs, lost>>
  PROVE  Waiting' /\ Saved' /\ Ordered'
<1>1. /\ ToSet(mem') = ToSet(mem) \cup {m} /\ Len(mem) \in Nat
      /\ \A i \in 1..Len(mem') : \/ i \in 1..Len(mem) /\ mem'[i] = mem[i]
                                 \/ i = Len(mem) + 1 /\ mem'[i] = m
      /\ unsaved'.op = "append"
  BY AppendMsgTyped
<1>2. /\ disk' = disk /\ broken' = broken /\ host' = host /\ queue' = queue /\ batch' = batch
      /\ inputs' = inputs /\ lost' = lost /\ summarised' = summarised /\ resent' = resent
  BY DEF Records
<1>3. Told' = Told \cup {m}
  BY <1>1, <1>2 DEF Told
<1>4. \A n : User(n) # m
  BY DEF User, Msg
<1>5. Waiting'
  BY <1>2, <1>3, <1>4 DEF Waiting
<1>6. Saved'
  <2>1. \A n \in 1..inputs : AccountedFor(n)'
    BY <1>1, <1>2 DEF Saved, AccountedFor
  <2>2. \A n \in 1..inputs : User(n) \in ToSet(mem') => User(n) \in ToSet(mem)
    BY <1>1, <1>4
  <2>3. unsaved = None
    BY DEF TypeOK
  <2>4. \A n : unsaved.msgs # <<User(n)>>
    BY <2>3 DEF None
  <2>5. ~ broken => \A x \in ToSet(disk) : x.kind = "user" => x \in ToSet(mem)
    BY DEF Saved
  <2> QED
    BY <2>1, <2>2, <2>4, <2>5, <1>1, <1>2 DEF Saved
<1>7. Ordered'
  <2>1. UsersInOrder(mem)'
    BY <1>1, <1>2 DEF Ordered, UsersInOrder, Late
  <2>2. UsersInOrder(disk)' /\ Ascending(batch)' /\ Ascending(queue)'
    BY <1>2 DEF Ordered, UsersInOrder, Ascending, Late
  <2>3. \A x \in ToSet(mem'), n \in ToSet(batch) \cup ToSet(queue) : x.kind = "user" => Late(n) \/ x.n <= n
    BY <1>1 DEF Ordered
  <2> QED
    BY <2>1, <2>2, <2>3, <1>2 DEF Ordered, Late
<1> QED
  BY <1>5, <1>6, <1>7

\* A user's message comes behind those of lower numbers.
LEMMA AppendUser ==
  ASSUME TypeOK, Saved, Ordered, unsaved.op = "none", NEW n \in Nat, AppendMsg(User(n)),
         UNCHANGED <<disk, broken, host>>, UNCHANGED Records, UNCHANGED lost,
         \A x \in ToSet(mem) : x.kind = "user" => Late(n) \/ x.n <= n,
         inputs' \in Nat, \A k \in 1..inputs' : k \in 1..inputs \/ k = n,
         \A k \in 1..inputs' : k \in ToSet(queue) \cup ToSet(batch) => k = n \/ k \in ToSet(queue') \cup ToSet(batch')
  PROVE  Saved' /\ UsersInOrder(mem)' /\ UsersInOrder(disk)'
<1> DEFINE m == User(n)
<1>1. m \in Messages /\ m.kind = "user" /\ m.n = n
  BY MessagesAre
<1>2. AppendMsg(m)
  OBVIOUS
<1>3. \A k : m = User(k) <=> k = n
  BY UserIs
<1> HIDE DEF m
<1>4. /\ ToSet(mem') = ToSet(mem) \cup {m} /\ Len(mem) \in Nat
      /\ \A i \in 1..Len(mem') : \/ i \in 1..Len(mem) /\ mem'[i] = mem[i]
                                 \/ i = Len(mem) + 1 /\ mem'[i] = m
      /\ unsaved'.op = "append" /\ unsaved'.msgs = <<m>>
  BY <1>1, <1>2, AppendMsgTyped
<1>5. /\ disk' = disk /\ broken' = broken /\ host' = host /\ lost' = lost
      /\ summarised' = summarised /\ resent' = resent
  BY DEF Records
<1>6. \A i \in 1..Len(mem) : mem[i] \in ToSet(mem)
  BY ListHas DEF TypeOK
<1>7. Saved'
  <2>1. \A k \in 1..inputs' : AccountedFor(k)'
    <3> SUFFICES ASSUME NEW k \in 1..inputs' PROVE AccountedFor(k)'
      OBVIOUS
    <3>1. CASE k = n
      BY <3>1, <1>3, <1>4 DEF AccountedFor
    <3>2. CASE k # n
      <4>1. AccountedFor(k)
        BY <3>2 DEF Saved
      <4> QED
        BY <3>2, <4>1, <1>4, <1>5 DEF AccountedFor
    <3> QED
      BY <3>1, <3>2
  <2>2. \A k \in 1..inputs' : User(k) \in ToSet(mem') => k = n \/ (k \in 1..inputs /\ User(k) \in ToSet(mem))
    BY <1>3, <1>4
  <2>3. unsaved = None
    BY DEF TypeOK
  <2>4. \A k : unsaved.msgs # <<User(k)>>
    BY <2>3 DEF None
  <2>5. ~ broken => \A x \in ToSet(disk) : x.kind = "user" => x \in ToSet(mem)
    BY DEF Saved
  <2>6. <<User(n)>> = unsaved'.msgs
    BY <1>3, <1>4
  <2>7. ~ broken' => \A k \in 1..inputs' : User(k) \in ToSet(mem') =>
          User(k) \in ToSet(disk') \cup summarised' \/ unsaved'.msgs = <<User(k)>>
    BY <2>2, <2>4, <2>6, <1>5 DEF Saved
  <2> QED
    BY <2>1, <2>5, <2>7, <1>4, <1>5 DEF Saved
<1>8. UsersInOrder(mem)'
  <2> SUFFICES ASSUME NEW i \in 1..Len(mem'), NEW j \in 1..Len(mem'), i < j,
                      mem'[i].kind = "user", mem'[j].kind = "user"
               PROVE  (mem'[j].n \in host \/ User(mem'[j].n) \in resent) \/ mem'[i].n <= mem'[j].n
    BY <1>5 DEF UsersInOrder, Late
  <2>1. i \in 1..Len(mem) /\ mem'[i] = mem[i]
    BY <1>4
  <2>2. CASE j \in 1..Len(mem) /\ mem'[j] = mem[j]
    BY <2>1, <2>2 DEF Ordered, UsersInOrder, Late
  <2>3. CASE mem'[j] = m
    BY <2>1, <2>3, <1>1, <1>6 DEF Late
  <2> QED
    BY <2>2, <2>3, <1>4
<1>9. UsersInOrder(disk)'
  BY <1>5 DEF Ordered, UsersInOrder, Late
<1> QED
  BY <1>7, <1>8, <1>9


LEMMA TailHas ==
  ASSUME NEW S, NEW s \in Seq(S), s # <<>>
  PROVE  /\ Head(s) = s[1] /\ 1 \in 1..Len(s) /\ Tail(s) \in Seq(S)
         /\ ToSet(s) = ToSet(Tail(s)) \cup {Head(s)}
         /\ \A i \in 1..Len(Tail(s)) : Tail(s)[i] = s[i + 1] /\ i + 1 \in 1..Len(s)
<1> DEFINE t == Tail(s)
<1>1. t \in Seq(S) /\ Len(t) = Len(s) - 1 /\ \A i \in 1..Len(t) : t[i] = s[i + 1]
  BY HeadTailProperties
<1>2. Head(s) = s[1] /\ Len(s) \in Nat \ {0}
  BY EmptySeq
<1> HIDE DEF t
<1>3. \A i \in 1..Len(t) : i + 1 \in 1..Len(s)
  BY <1>1, <1>2
<1>4. \A i \in 1..Len(s) : i = 1 \/ (i - 1 \in 1..Len(t) /\ (i - 1) + 1 = i)
  BY <1>1, <1>2
<1>5. ToSet(s) \subseteq ToSet(t) \cup {s[1]}
  <2> SUFFICES ASSUME NEW x \in ToSet(s) PROVE x \in ToSet(t) \cup {s[1]}
    OBVIOUS
  <2>1. PICK i \in 1..Len(s) : s[i] = x
    BY ListHas
  <2>2. \A k \in 1..Len(t) : t[k] \in ToSet(t)
    BY <1>1, ListHas
  <2>3. CASE i # 1
    <3>1. i - 1 \in 1..Len(t) /\ t[i - 1] = s[(i - 1) + 1] /\ (i - 1) + 1 = i
      BY <2>3, <1>1, <1>4
    <3> QED
      BY <2>1, <2>2, <3>1
  <2> QED
    BY <2>1, <2>3
<1>6. ToSet(t) \cup {s[1]} \subseteq ToSet(s)
  <2>1. \A x \in ToSet(t) : \E k \in 1..Len(t) : t[k] = x
    BY <1>1, ListHas
  <2>2. \A i \in 1..Len(s) : s[i] \in ToSet(s)
    BY ListHas
  <2> QED
    BY <2>1, <2>2, <1>1, <1>2, <1>3
<1>7. ToSet(s) = ToSet(t) \cup {s[1]}
  BY <1>5, <1>6
<1>8. 1 \in 1..Len(s)
  BY <1>2
<1> QED
  BY <1>1, <1>2, <1>3, <1>7, <1>8 DEF t

LEMMA PromptKeeps ==
  ASSUME AgentInv, Prompt
  PROVE  AgentInv'
<1>0. PICK new : new = inputs + 1
  OBVIOUS
<1>1. /\ TypeOK /\ Coherent /\ Pending /\ Places /\ Replying /\ Waiting
      /\ Pairs /\ Written /\ Repeated /\ Saved /\ Ordered
  BY DEF AgentInv
<1>2. TypeOK'
  BY <1>1, AppendingTyped
<1>3. /\ inputs \in Nat /\ replies \in Nat /\ incidents \in Nat /\ MaxInputs \in Nat /\ inputs < MaxInputs
      /\ unsaved = None /\ unsaved.op = "none" /\ batch = <<>>
  BY <1>1, Bounds DEF Prompt, Free, TypeOK, None
<1>4. /\ UNCHANGED <<disk, baseline, broken, host>> /\ UNCHANGED Records /\ UNCHANGED <<batch, lost>>
      /\ Counting /\ inputs' = new /\ pc = "idle" /\ pc' = "head"
  BY <1>0, <1>3 DEF Prompt, Records, Counting, file, history
<1>5. ~ Asking'
  BY <1>4 DEF Asking
<1>6. Places' /\ Replying'
  BY <1>3, <1>4, <1>5 DEF Places, Replying, AppendMsg, Prompt, None
<1>7. ToSet(queue) \subseteq host
  BY <1>1, <1>4 DEF Places
<1>8. CASE new \in host
  <2>1. queue' = Append(queue, new) /\ UNCHANGED <<mem, unsaved>>
    BY <1>4, <1>8 DEF Prompt
  <2>2. UNCHANGED Transcript
    BY <2>1, <1>4 DEF Transcript
  <2>3. Coherent' /\ Pending' /\ Pairs' /\ Written' /\ Repeated'
    BY <2>2, <1>1, <1>3, <1>4, <1>5, QuietKeeps
  <2>4. Waiting' /\ Saved' /\ Ordered'
    BY <2>1, <2>2, <1>0, <1>1, <1>3, <1>4, QueuedKeeps
  <2> QED
    BY <2>3, <2>4, <1>2, <1>6 DEF AgentInv
<1>9. CASE new \notin host
  <2>1. AppendMsg(User(new)) /\ UNCHANGED queue
    BY <1>4, <1>9 DEF Prompt
  <2>2. /\ User(new) \notin Told /\ new \in Nat
        /\ \A m \in Told : m.kind = "user" => m.n <= inputs /\ m.n \in Nat
    BY <1>0, <1>1, <1>3, UserIsNew
  <2>3. User(new) \in Messages /\ User(new).kind = "user" /\ User(new).n = new
    BY <2>2, MessagesAre
  <2>4. Formed(User(new))'
    <3>1. new \in 1..inputs'
      BY <1>0, <1>3, <1>4
    <3> QED
      BY <3>1 DEF Formed, User, Msg
  <2>5. Coherent' /\ Pending' /\ Pairs' /\ Written' /\ Repeated'
    <3>1. User(new).kind # "reply" /\ ~ IsResults(User(new))
      BY <2>3 DEF IsResults
    <3> QED
      BY <2>1, <2>2, <2>3, <2>4, <3>1, <1>1, <1>3, <1>4, AppendKeeps
  <2>6. /\ queue \in Seq(1..MaxInputs) /\ ToSet(batch) = {} /\ Len(batch) = 0
    BY <1>1, <1>3, ListHas DEF TypeOK
  <2>7. Saved' /\ UsersInOrder(mem)' /\ UsersInOrder(disk)'
    <3>1. \A x \in ToSet(mem) : x.kind = "user" => Late(new) \/ x.n <= new
      BY <2>2, <1>0, <1>3 DEF Told
    <3>2. \A k \in 1..inputs' : k \in 1..inputs \/ k = new
      BY <1>0, <1>3, <1>4
    <3>3. inputs' \in Nat
      BY <1>0, <1>3, <1>4
    <3> QED
      BY <2>1, <2>2, <3>1, <3>2, <3>3, <1>1, <1>3, <1>4, AppendUser
  <2>8. Told' = Told \cup {User(new)}
    <3>1. ToSet(mem') = ToSet(mem) \cup {User(new)}
      BY <2>1, <2>3, <1>1, AppendMsgTyped
    <3> QED
      BY <3>1, <1>4 DEF Told
  <2>9. Waiting'
    <3>1. \A n \in ToSet(queue) : n \in 1..inputs /\ n # new /\ n \in 1..inputs'
      BY <1>0, <1>1, <1>3, <1>4 DEF Waiting
    <3>2. \A n \in ToSet(queue) : User(n) \notin Told'
      BY <2>8, <3>1, <1>1, UserIs DEF Waiting
    <3> QED
      BY <2>1, <2>6, <3>1, <3>2, <1>0, <1>1, <1>3, <1>4 DEF Waiting
  <2>10. Ordered'
    <3>1. host' = host /\ resent' = resent
      BY <1>4 DEF Records
    <3>2. Ascending(batch)' /\ Ascending(queue)'
      BY <2>1, <3>1, <1>1, <1>4 DEF Ordered, Ascending, Late
    <3>3. \A n \in ToSet(queue) : Late(n)'
      BY <3>1, <1>7 DEF Late
    <3> QED
      BY <2>1, <2>6, <2>7, <3>2, <3>3, <1>4 DEF Ordered
  <2> QED
    BY <2>5, <2>7, <2>9, <2>10, <1>2, <1>6 DEF AgentInv
<1> QED
  BY <1>8, <1>9

LEMMA AppendDrainedKeeps ==
  ASSUME AgentInv, AppendDrained
  PROVE  AgentInv'
<1>0. PICK n : n = Head(batch)
  OBVIOUS
<1>1. /\ TypeOK /\ Coherent /\ Pending /\ Places /\ Replying /\ Waiting
      /\ Pairs /\ Written /\ Repeated /\ Saved /\ Ordered
  BY DEF AgentInv
<1>2. TypeOK'
  BY <1>1, AppendingTyped
<1>3. /\ inputs \in Nat /\ replies \in Nat /\ incidents \in Nat /\ MaxInputs \in Nat
      /\ unsaved = None /\ unsaved.op = "none" /\ batch # <<>> /\ batch \in Seq(1..MaxInputs)
  BY <1>1, Bounds DEF AppendDrained, TypeOK, None
<1>4. /\ UNCHANGED <<disk, baseline, broken, host>> /\ UNCHANGED Records /\ UNCHANGED <<queue, lost, inputs, pc, due>>
      /\ Counting /\ batch' = Tail(batch) /\ AppendMsg(User(n)) /\ pc \in {"context", "ready"}
  BY <1>0, <1>1, <1>3 DEF AppendDrained, Places, Records, Counting, file, counts, history
<1>5. /\ n = batch[1] /\ 1 \in 1..Len(batch)
      /\ ToSet(batch) = ToSet(Tail(batch)) \cup {n}
      /\ \A i \in 1..Len(Tail(batch)) : Tail(batch)[i] = batch[i + 1] /\ i + 1 \in 1..Len(batch)
      /\ Tail(batch) \in Seq(1..MaxInputs)
  BY <1>0, <1>3, TailHas
<1>6. Len(Tail(batch)) \in Nat /\ \A i \in 1..Len(Tail(batch)) : Tail(batch)[i] \in ToSet(Tail(batch))
  <2>1. Tail(batch) \in Seq(1..MaxInputs)
    BY <1>5
  <2> QED
    BY <2>1, ListHas
<1>7. n \in 1..inputs /\ n \in Nat /\ User(n) \notin Told
  BY <1>1, <1>3, <1>5 DEF Waiting
<1>8. User(n) \in Messages /\ User(n).kind = "user" /\ User(n).n = n
  BY <1>7, MessagesAre
<1>9. ~ Asking'
  BY <1>4 DEF Asking
<1>10. Places' /\ Replying'
  BY <1>4, <1>9 DEF Places, Replying, AppendMsg
<1>11. Coherent' /\ Pending' /\ Pairs' /\ Written' /\ Repeated'
  <2>1. User(n).kind # "reply" /\ ~ IsResults(User(n))
    BY <1>8 DEF IsResults
  <2>2. Formed(User(n))'
    BY <1>4, <1>7 DEF Formed, User, Msg
  <2> QED
    BY <2>1, <2>2, <1>1, <1>3, <1>4, <1>7, <1>8, AppendKeeps
<1>12. Saved' /\ UsersInOrder(mem)' /\ UsersInOrder(disk)'
  <2>1. \A x \in ToSet(mem) : x.kind = "user" => Late(n) \/ x.n <= n
    BY <1>1, <1>5 DEF Ordered
  <2>2. inputs' \in Nat /\ \A k \in 1..inputs' : k \in 1..inputs \/ k = n
    BY <1>3, <1>4
  <2>3. \A k \in 1..inputs' :
          k \in ToSet(queue) \cup ToSet(batch) => k = n \/ k \in ToSet(queue') \cup ToSet(batch')
    BY <1>4, <1>5
  <2> QED
    BY <2>1, <2>2, <2>3, <1>1, <1>3, <1>4, <1>7, AppendUser
<1>13. ToSet(mem') = ToSet(mem) \cup {User(n)}
  BY <1>1, <1>4, <1>8, AppendMsgTyped
<1>14. Told' = Told \cup {User(n)}
  BY <1>4, <1>13 DEF Told
<1>15. \A k \in ToSet(Tail(batch)) : k # n
  <2> SUFFICES ASSUME NEW k \in ToSet(Tail(batch)) PROVE k # n
    OBVIOUS
  <2>1. PICK i \in 1..Len(Tail(batch)) : Tail(batch)[i] = k
    BY <1>5, ListHas
  <2>2. k = batch[i + 1] /\ i + 1 \in 1..Len(batch) /\ i + 1 # 1
    BY <2>1, <1>5, <1>6
  <2> QED
    BY <2>2, <1>1, <1>5 DEF Waiting
<1>16. Waiting'
  <2>1. n \notin ToSet(queue)
    BY <1>1, <1>5 DEF Waiting
  <2>2. \A k \in ToSet(queue) \cup ToSet(Tail(batch)) : User(k) \notin Told'
    BY <2>1, <1>1, <1>5, <1>14, <1>15, UserIs DEF Waiting
  <2>3. \A i, j \in 1..Len(Tail(batch)) : Tail(batch)[i] = Tail(batch)[j] => i = j
    <3> SUFFICES ASSUME NEW i \in 1..Len(Tail(batch)), NEW j \in 1..Len(Tail(batch)),
                        Tail(batch)[i] = Tail(batch)[j]
                 PROVE  i = j
      OBVIOUS
    <3>1. i + 1 = j + 1
      BY <1>1, <1>5 DEF Waiting
    <3> QED
      BY <3>1, <1>6
  <2> QED
    BY <2>2, <2>3, <1>1, <1>4, <1>5 DEF Waiting
<1>17. Ordered'
  <2>1. host' = host /\ resent' = resent
    BY <1>4 DEF Records
  <2>2. Ascending(queue)'
    BY <2>1, <1>1, <1>4 DEF Ordered, Ascending, Late
  <2>3. Ascending(batch)'
    <3> SUFFICES ASSUME NEW i \in 1..Len(Tail(batch)), NEW j \in 1..Len(Tail(batch)), i < j
                 PROVE  (Tail(batch)[j] \in host \/ User(Tail(batch)[j]) \in resent) \/ Tail(batch)[i] <= Tail(batch)[j]
      BY <2>1, <1>4 DEF Ascending, Late
    <3>1. i + 1 < j + 1 /\ i + 1 \in 1..Len(batch) /\ j + 1 \in 1..Len(batch)
      BY <1>5, <1>6
    <3> QED
      BY <3>1, <1>1, <1>5 DEF Ordered, Ascending, Late
  <2>4. \A k \in ToSet(Tail(batch)) : Late(k) \/ n <= k
    <3> SUFFICES ASSUME NEW k \in ToSet(Tail(batch)) PROVE Late(k) \/ n <= k
      OBVIOUS
    <3>1. PICK i \in 1..Len(Tail(batch)) : Tail(batch)[i] = k
      BY <1>5, ListHas
    <3>2. k = batch[i + 1] /\ i + 1 \in 1..Len(batch) /\ 1 < i + 1
      BY <3>1, <1>5, <1>6
    <3> QED
      BY <3>2, <1>1, <1>5 DEF Ordered, Ascending
  <2>5. \A k \in ToSet(queue) : Late(k) \/ n <= k
    BY <1>1, <1>5 DEF Ordered
  <2>6. \A m \in ToSet(mem'), k \in ToSet(batch') \cup ToSet(queue') : m.kind = "user" => Late(k) \/ m.n <= k
    BY <2>4, <2>5, <1>1, <1>4, <1>5, <1>8, <1>13 DEF Ordered
  <2>7. \A m \in ToSet(batch'), k \in ToSet(queue') : Late(k) \/ m <= k
    BY <1>1, <1>4, <1>5 DEF Ordered
  <2>8. \A k : Late(k)' <=> Late(k)
    BY <2>1 DEF Late
  <2> QED
    BY <2>2, <2>3, <2>6, <2>7, <2>8, <1>12 DEF Ordered
<1> QED
  BY <1>2, <1>10, <1>11, <1>12, <1>16, <1>17 DEF AgentInv


LEMMA RecoverKeeps ==
  ASSUME AgentInv, Recover
  PROVE  AgentInv'
<1>1. /\ TypeOK /\ Coherent /\ Pending /\ Places /\ Replying /\ Waiting
      /\ Pairs /\ Written /\ Repeated /\ Saved /\ Ordered
  BY DEF AgentInv
<1>2. TypeOK'
  BY <1>1, AppendingTyped
<1>3. /\ inputs \in Nat /\ replies \in Nat /\ incidents \in Nat /\ unsaved.op = "none" /\ batch = <<>>
  BY <1>1 DEF Recover, Free, TypeOK, None
<1>4. /\ UNCHANGED <<disk, baseline, broken, host>> /\ UNCHANGED Records
      /\ UNCHANGED <<queue, batch, inputs, lost, due>> /\ Counting /\ AppendMsg(Nudge) /\ pc' = "head"
  BY <1>3 DEF Recover, Records, Counting, file, counts, history
<1>5. Nudge \in Messages /\ Nudge.kind = "nudge" /\ ~ IsResults(Nudge)
  BY MessagesAre DEF IsResults
<1>6. Formed(Nudge)'
  BY DEF Formed, Nudge, Msg
<1>7. Coherent' /\ Pending' /\ Pairs' /\ Written' /\ Repeated'
  BY <1>1, <1>3, <1>4, <1>5, <1>6, AppendKeeps
<1>8. Waiting' /\ Saved' /\ Ordered'
  BY <1>1, <1>3, <1>4, <1>5, AppendOther
<1>9. Places' /\ Replying'
  BY <1>3, <1>4 DEF Places, Replying, Asking, AppendMsg
<1> QED
  BY <1>2, <1>7, <1>8, <1>9 DEF AgentInv

LEMMA StreamEndsKeeps ==
  ASSUME AgentInv, NEW how \in {"continue", "tools", "end", "failed", "aborted"}, NEW c \in {0, MaxCalls},
         StreamEnds(how, 1..c)
  PROVE  AgentInv'
<1>1. /\ TypeOK /\ Coherent /\ Pending /\ Places /\ Replying /\ Waiting
      /\ Pairs /\ Written /\ Repeated /\ Saved /\ Ordered
  BY DEF AgentInv
<1>2. TypeOK'
  BY <1>1, AppendingTyped
<1>3. /\ inputs \in Nat /\ replies \in Nat /\ incidents \in Nat /\ unsaved.op = "none" /\ batch = <<>>
  BY <1>1 DEF StreamEnds, Places, Pending, TypeOK
<1>4. PICK m : m = Reply(replies + 1, 1..c)
  OBVIOUS
<1>5. /\ UNCHANGED <<disk, baseline, broken, host>> /\ UNCHANGED Records
      /\ UNCHANGED <<queue, batch, inputs, lost, due>> /\ Counting /\ AppendMsg(m) /\ pc' = "replied"
      /\ replies' = replies + 1 /\ stop' = how /\ (how = "tools" => 1..c # {})
  BY <1>3, <1>4 DEF StreamEnds, Records, Counting, file, history
<1>6. m \in Messages /\ m.kind = "reply" /\ m.n = replies + 1 /\ m.calls = 1..c /\ m.res = {} /\ ~ IsResults(m)
  <2>1. 1..c \in SUBSET (1..MaxCalls) /\ replies + 1 \in Nat
    BY <1>3, Bounds
  <2>2. m.res = {}
    BY <1>4 DEF Reply, Msg
  <2> QED
    BY <2>1, <2>2, <1>4, MessagesAre DEF IsResults
<1>7. \A x \in Told : x.kind \in {"reply", "results"} => x.n < m.n
  <2>1. \A x \in Told : x.n \in Nat
    BY <1>1, ToldTyped DEF Messages
  <2> QED
    BY <2>1, <1>1, <1>3, <1>6 DEF Coherent, Formed
<1>8. \A x \in Told : x.kind = "reply" \/ IsResults(x) => x.n # m.n
  <2>1. \A x \in Told : x.n \in Nat
    BY <1>1, ToldTyped DEF Messages
  <2> QED
    BY <2>1, <1>3, <1>6, <1>7 DEF IsResults
<1>9. m \notin Told
  BY <1>6, <1>8
<1>10. Formed(m)'
  <2>1. m.n <= replies'
    BY <1>3, <1>5, <1>6
  <2> QED
    BY <2>1, <1>6 DEF Formed
<1>11. Coherent' /\ Pending' /\ Pairs' /\ Written' /\ Repeated'
  BY <1>1, <1>3, <1>5, <1>6, <1>8, <1>9, <1>10, AppendKeeps
<1>12. Waiting' /\ Saved' /\ Ordered'
  BY <1>1, <1>3, <1>5, <1>6, AppendOther
<1>13. Places'
  BY <1>3, <1>5 DEF Places, AppendMsg
<1>14. Replying'
  <2>1. /\ mem' # <<>> /\ (LastOf(mem))' = m /\ ToSet(mem') = ToSet(mem) \cup {m}
    <3>1. mem' # <<>> /\ LastOf(mem') = m /\ ToSet(mem') = ToSet(mem) \cup {m}
      BY <1>1, <1>5, <1>6, AppendMsgTyped
    <3> QED
      BY <3>1 DEF LastOf
  <2>2. \A x \in Told' : IsResults(x) => x.n # m.n
    BY <2>1, <1>5, <1>6, <1>8 DEF Told
  <2>3. Asking' => CallsTools(m)
    BY <1>5, <1>6 DEF Asking, CallsTools
  <2> QED
    BY <2>1, <2>2, <2>3, <1>5, <1>6 DEF Replying
<1> QED
  BY <1>2, <1>11, <1>12, <1>13, <1>14 DEF AgentInv

LEMMA ToolsEndKeeps ==
  ASSUME AgentInv, ToolsEnd
  PROVE  AgentInv'
<1>1. /\ TypeOK /\ Coherent /\ Pending /\ Places /\ Replying /\ Waiting
      /\ Pairs /\ Written /\ Repeated /\ Saved /\ Ordered
  BY DEF AgentInv
<1>2. TypeOK'
  BY <1>1, AppendingTyped
<1>3. /\ inputs \in Nat /\ replies \in Nat /\ incidents \in Nat /\ unsaved.op = "none" /\ batch = <<>> /\ Asking
  BY <1>1 DEF ToolsEnd, Places, Pending, TypeOK, Asking
<1>4. /\ Calling = LastOf(mem) /\ Calling \in ToSet(mem) /\ Calling \in Messages /\ CallsTools(Calling)
      /\ Results(Calling.n, {<<i, "result">> : i \in Calling.calls}) \in Messages /\ mem # <<>>
  BY <1>1, <1>3, CallingIs DEF Replying
<1>5. PICK m : m = Results(Calling.n, {<<i, "result">> : i \in Calling.calls})
  OBVIOUS
<1>6. /\ UNCHANGED <<disk, baseline, broken, host>> /\ UNCHANGED Records
      /\ UNCHANGED <<queue, batch, inputs, lost, due>> /\ Counting /\ AppendMsg(m) /\ pc' = "answered"
      /\ replies' = replies
  BY <1>3, <1>5 DEF ToolsEnd, Records, Counting, file, counts, history
<1>7. /\ m \in Messages /\ m.kind = "results" /\ m.n = LastOf(mem).n /\ m.calls = {} /\ IsResults(m)
      /\ m.res = {<<i, "result">> : i \in Calling.calls}
  BY <1>4, <1>5 DEF Results, Msg, IsResults
<1>8. Answered(m) = LastOf(mem).calls
  <2> DEFINE C == Calling.calls
  <2>1. Answered(m) = {r[1] : r \in {<<i, "result">> : i \in C}}
    BY <1>7 DEF Answered
  <2> HIDE DEF C
  <2> DEFINE R == {<<i, "result">> : i \in C}
  <2>2. \A i \in C : <<i, "result">> \in R /\ <<i, "result">>[1] = i
    OBVIOUS
  <2>3. \A r \in R : r[1] \in C
    OBVIOUS
  <2>4. Answered(m) = {r[1] : r \in R}
    BY <2>1
  <2> HIDE DEF R
  <2>5. \A i \in C : \E r \in R : r[1] = i
    <3> SUFFICES ASSUME NEW i \in C PROVE \E r \in R : r[1] = i
      OBVIOUS
    <3>1. PICK r : r = <<i, "result">>
      OBVIOUS
    <3>2. r \in R /\ r[1] = i
      BY <3>1, <2>2
    <3> QED
      BY <3>2
  <2>6. {r[1] : r \in R} = C
    BY <2>3, <2>5
  <2>7. LastOf(mem).calls = C
    BY <1>4 DEF C
  <2> QED
    BY <2>4, <2>6, <2>7
<1>9. m \notin Told
  BY <1>1, <1>3, <1>7 DEF Replying
<1>10. LastOf(mem) \in Told /\ LastOf(mem).n <= replies
  BY <1>1, <1>4 DEF Told, Coherent, Formed, CallsTools
<1>11. Formed(m)'
  BY <1>6, <1>7, <1>10 DEF Formed
<1>12. Answers(LastOf(mem), m)
  BY <1>4, <1>7 DEF Answers
<1>13. Coherent' /\ Pending' /\ Pairs' /\ Written' /\ Repeated'
  BY <1>1, <1>3, <1>4, <1>6, <1>7, <1>8, <1>9, <1>10, <1>11, <1>12, AppendKeeps
<1>14. Waiting' /\ Saved' /\ Ordered'
  BY <1>1, <1>3, <1>6, <1>7, AppendOther
<1>15. Places' /\ Replying'
  BY <1>3, <1>6 DEF Places, Replying, Asking, AppendMsg
<1> QED
  BY <1>2, <1>13, <1>14, <1>15 DEF AgentInv


\* The first context stands in front of everything.
LEMMA FirstContext ==
  ASSUME AgentInv, unsaved.op = "none", NEW m \in Messages, m.kind = "context", m \notin Told, Formed(m)',
         ~ Whole(m), ~ IsResults(m), Replace(<<m>> \o mem),
         UNCHANGED <<disk, baseline, broken, host>>, UNCHANGED Records,
         UNCHANGED <<queue, batch, inputs, lost>>, Counting, pc' = "ready"
  PROVE  Coherent' /\ Pending' /\ Pairs' /\ Written' /\ Repeated' /\ Waiting' /\ Saved' /\ Ordered'
<1>1. /\ TypeOK /\ Coherent /\ Pending /\ Places /\ Replying /\ Waiting
      /\ Pairs /\ Written /\ Repeated /\ Saved /\ Ordered
  BY DEF AgentInv
<1>2. mem \in Seq(Messages) /\ disk \in Seq(Messages) /\ baseline \in Nat /\ Len(mem) \in Nat
  BY <1>1, LenProperties DEF TypeOK
<1>3. PICK ms : ms = <<m>> \o mem
  OBVIOUS
<1>4. <<m>> \in Seq(Messages) /\ Len(<<m>>) = 1 /\ <<m>>[1] = m /\ ToSet(<<m>>) = {m}
  BY OneMessage
<1>5. /\ ms \in Seq(Messages) /\ Len(ms) = 1 + Len(mem) /\ ToSet(ms) = {m} \cup ToSet(mem)
      /\ \A i \in 1..Len(mem) : 1 + i \in 1..Len(ms) /\ ms[1 + i] = mem[i]
      /\ \A i \in 1..Len(ms) : \/ i = 1 /\ ms[i] = m
                               \/ i > 1 /\ i - 1 \in 1..Len(mem) /\ ms[i] = mem[i - 1]
  <2>0. PICK one : one = <<m>>
    OBVIOUS
  <2>1. one \in Seq(Messages) /\ Len(one) = 1 /\ one[1] = m /\ ToSet(one) = {m} /\ ms = one \o mem
    BY <2>0, <1>3, <1>4
  <2>2. /\ one \o mem \in Seq(Messages) /\ Len(one \o mem) = Len(one) + Len(mem)
        /\ ToSet(one \o mem) = ToSet(one) \cup ToSet(mem)
        /\ \A i \in 1..Len(mem) : Len(one) + i \in 1..Len(one \o mem) /\ (one \o mem)[Len(one) + i] = mem[i]
        /\ \A i \in 1..Len(one \o mem) :
             \/ i \in 1..Len(one) /\ (one \o mem)[i] = one[i]
             \/ i > Len(one) /\ i - Len(one) \in 1..Len(mem) /\ (one \o mem)[i] = mem[i - Len(one)]
    <3>1. one \in Seq(Messages) /\ mem \in Seq(Messages)
      BY <2>1, <1>2
    <3> QED
      BY ONLY <3>1, Joined
  <2> QED
    BY <2>1, <2>2, <1>2
<1>6. /\ mem' = ms /\ unsaved'.op = "replace" /\ unsaved'.msgs = ms
      /\ disk' = disk /\ baseline' = baseline /\ broken' = broken /\ host' = host
      /\ dropped' = dropped /\ twice' = twice /\ resent' = resent /\ rolledBack' = rolledBack
      /\ summarised' = summarised
  BY <1>3 DEF Replace, Records
<1>7. Told' = Told \cup {m} /\ ms # <<>>
  <2>1. ms # <<>>
    BY <1>2, <1>5
  <2> QED
    BY <2>1, <1>5, <1>6 DEF Told
<1>8. \A i \in 1..Len(mem) : mem[i] \in ToSet(mem)
  BY <1>2, ListHas
<1>9. Coherent'
  <2>1. \A x \in Told : x \in Messages /\ Formed(x)
    BY <1>1, ToldTyped DEF Coherent
  <2>2. \A x \in Told' : Formed(x)'
    BY <2>1, <1>1, <1>7, FormedStays
  <2> QED
    BY <2>2, <1>1, <1>7 DEF Coherent
<1>10. Pending'
  BY <1>6, <1>7 DEF Pending
<1>11. Pairs'
  <2>1. Paired(ms)
    <3> SUFFICES ASSUME NEW j \in 1..Len(ms), Whole(ms[j]) PROVE j > 1 /\ Answers(ms[j - 1], ms[j])
      BY DEF Paired
    <3>1. j > 1 /\ j - 1 \in 1..Len(mem) /\ ms[j] = mem[j - 1]
      BY <1>5
    <3>2. j - 1 > 1 /\ Answers(mem[(j - 1) - 1], mem[j - 1])
      BY <3>1, <1>1 DEF Pairs, Paired
    <3>3. (j - 1) - 1 \in 1..Len(mem) /\ 1 + ((j - 1) - 1) = j - 1
      BY <3>1, <3>2, <1>2
    <3>4. ms[j - 1] = mem[(j - 1) - 1]
      BY <3>3, <1>5
    <3> QED
      BY <3>1, <3>2, <3>4
  <2>2. \A x \in ToSet(disk) : Whole(x) => x \in resent' \/ HasPair(x)'
    BY <1>1, <1>6 DEF Pairs, HasPair
  <2>3. ~ Asking'
    BY DEF Asking
  <2> QED
    BY <2>1, <2>2, <2>3, <1>6 DEF Pairs
<1>12. Written'
  <2> SUFFICES ASSUME ~ broken, ~ rolledBack
               PROVE  /\ Len(ms) <= baseline + 1
                      /\ \A i \in 1..Len(ms) : i # 1 /\ ~ Stubbed(ms[i]) => ms[i] \in ToSet(disk)
    BY <1>6 DEF Written, Settled
  <2>1. Len(mem) <= baseline + 0 /\ \A i \in 1..Len(mem) : ~ Stubbed(mem[i]) => mem[i] \in ToSet(disk)
    BY <1>1 DEF Written, Settled
  <2> QED
    BY <2>1, <1>2, <1>5
<1>13. Repeated'
  <2>1. \A x : Twofold(x)' <=> Twofold(x)
    BY <1>6 DEF Twofold
  <2>2. Single(disk)'
    BY <2>1, <1>1, <1>6 DEF Repeated, Single
  <2>3. Single(mem)'
    <3> SUFFICES ASSUME NEW i \in 1..Len(ms), NEW j \in 1..Len(ms), i < j, ms[i] = ms[j]
                 PROVE  Twofold(ms[i])
      BY <2>1, <1>6 DEF Single
    <3>1. j - 1 \in 1..Len(mem) /\ ms[j] = mem[j - 1]
      BY <1>5
    <3>2. i - 1 \in 1..Len(mem) /\ ms[i] = mem[i - 1]
      BY <3>1, <1>5, <1>8 DEF Told
    <3> QED
      BY <3>1, <3>2, <1>1 DEF Repeated, Single
  <2> QED
    BY <2>2, <2>3, <1>6 DEF Repeated
<1>14. \A n : User(n) # m
  BY DEF User, Msg
<1>15. Waiting'
  BY <1>1, <1>7, <1>14 DEF Waiting
<1>16. Saved'
  <2>1. \A n \in 1..inputs : AccountedFor(n)'
    BY <1>1, <1>5, <1>6 DEF Saved, AccountedFor
  <2>2. \A n \in 1..inputs : User(n) \in ToSet(ms) => User(n) \in ToSet(mem)
    BY <1>5, <1>14
  <2>3. \A n : unsaved.msgs # <<User(n)>>
    <3>1. unsaved = None
      BY <1>1 DEF TypeOK
    <3> QED
      BY <3>1 DEF None
  <2>4. ~ broken => \A x \in ToSet(disk) : x.kind = "user" => x \in ToSet(mem)
    BY <1>1 DEF Saved
  <2> QED
    BY <2>1, <2>2, <2>3, <2>4, <1>1, <1>5, <1>6 DEF Saved
<1>17. Ordered'
  <2>1. UsersInOrder(mem)'
    <3> SUFFICES ASSUME NEW i \in 1..Len(ms), NEW j \in 1..Len(ms), i < j, ms[i].kind = "user", ms[j].kind = "user"
                 PROVE  Late(ms[j].n) \/ ms[i].n <= ms[j].n
      BY <1>6 DEF UsersInOrder, Late
    <3>1. /\ i - 1 \in 1..Len(mem) /\ ms[i] = mem[i - 1] /\ j - 1 \in 1..Len(mem) /\ ms[j] = mem[j - 1]
          /\ i - 1 < j - 1
      BY <1>5
    <3> QED
      BY <3>1, <1>1 DEF Ordered, UsersInOrder
  <2>2. UsersInOrder(disk)' /\ Ascending(batch)' /\ Ascending(queue)'
    BY <1>1, <1>6 DEF Ordered, UsersInOrder, Ascending, Late
  <2>3. \A x \in ToSet(ms), n \in ToSet(batch) \cup ToSet(queue) : x.kind = "user" => Late(n) \/ x.n <= n
    BY <1>1, <1>5 DEF Ordered
  <2> QED
    BY <2>1, <2>2, <2>3, <1>1, <1>6 DEF Ordered, Late
<1> QED
  BY <1>9, <1>10, <1>11, <1>12, <1>13, <1>15, <1>16, <1>17

LEMMA NewContextKeeps ==
  ASSUME AgentInv, NewContext
  PROVE  AgentInv'
<1>1. /\ TypeOK /\ Coherent /\ Pending /\ Places /\ Replying /\ Waiting
      /\ Pairs /\ Written /\ Repeated /\ Saved /\ Ordered
  BY DEF AgentInv
<1>2. TypeOK'
  BY <1>1, AppendingTyped
<1>3. /\ inputs \in Nat /\ replies \in Nat /\ incidents \in Nat /\ unsaved.op = "none" /\ batch = <<>>
  BY <1>1 DEF NewContext, Free, TypeOK, None
<1>4. PICK m : m = Context(incidents + 1)
  OBVIOUS
<1>5. /\ UNCHANGED <<disk, baseline, broken, host>> /\ UNCHANGED Records
      /\ UNCHANGED <<queue, batch, inputs, lost, due>> /\ Counting /\ pc' = "ready" /\ incidents' = incidents + 1
      /\ IF Contexts = {} THEN Replace(<<m>> \o mem) ELSE AppendMsg(m)
  BY <1>3, <1>4 DEF NewContext, Incident, Records, Counting, file, history
<1>6. m \in Messages /\ m.kind = "context" /\ m.n = incidents + 1 /\ ~ IsResults(m) /\ ~ Whole(m)
  <2>1. incidents + 1 \in Nat
    BY <1>3
  <2> QED
    BY <2>1, <1>4, MessagesAre DEF IsResults, Whole
<1>7. m \notin Told
  BY <1>1, <1>3, <1>6 DEF Coherent, Formed
<1>8. Formed(m)'
  <2>1. incidents + 1 <= incidents'
    BY <1>3, <1>5
  <2> QED
    BY <2>1, <1>4 DEF Formed, Context, Msg
<1>9. Places' /\ Replying'
  BY <1>3, <1>5 DEF Places, Replying, Asking, AppendMsg, Replace
<1>10. CASE Contexts = {}
  BY <1>2, <1>3, <1>5, <1>6, <1>7, <1>8, <1>9, <1>10, FirstContext DEF AgentInv
<1>11. CASE Contexts # {}
  <2>1. AppendMsg(m)
    BY <1>5, <1>11
  <2>2. Coherent' /\ Pending' /\ Pairs' /\ Written' /\ Repeated'
    BY <2>1, <1>1, <1>3, <1>5, <1>6, <1>7, <1>8, AppendKeeps
  <2>3. Waiting' /\ Saved' /\ Ordered'
    BY <2>1, <1>1, <1>3, <1>5, <1>6, AppendOther
  <2> QED
    BY <2>2, <2>3, <1>2, <1>9 DEF AgentInv
<1> QED
  BY <1>10, <1>11


-----------------------------------------------------------------------------
(* The hooks.                                                              *)

LEMMA FailingKeeps ==
  ASSUME AgentInv, SaveFails \/ DiskFails
  PROVE  AgentInv'
<1>1. /\ TypeOK /\ Coherent /\ Pending /\ Places /\ Replying /\ Waiting
      /\ Pairs /\ Written /\ Repeated /\ Saved /\ Ordered
  BY DEF AgentInv
<1>2. TypeOK'
  BY <1>1, SavingTyped
<1>3. inputs \in Nat /\ replies \in Nat /\ incidents \in Nat
  BY <1>1 DEF TypeOK
<1>4. /\ mem' = mem /\ disk' = disk /\ baseline' = baseline /\ host' = host /\ UNCHANGED Records
      /\ UNCHANGED <<queue, batch, inputs, lost, pc, stop, answered>> /\ Counting
      /\ broken' = TRUE /\ (unsaved' = unsaved \/ unsaved' = None)
      /\ due' = due \/ (due' = Due /\ broken)
  BY <1>3 DEF SaveFails, DiskFails, Incident, Records, Counting, file, turn, counts, history
<1>5. Told' = Told
  BY <1>4 DEF Told
<1>6. summarised' = summarised /\ twice' = twice /\ resent' = resent
  BY <1>4 DEF Records
<1>7. None.op = "none" /\ None.msgs = <<>>
  BY DEF None
<1>8. Coherent'
  <2>1. \A x \in Told : x \in Messages /\ Formed(x)
    BY <1>1, ToldTyped DEF Coherent
  <2>2. \A x \in Told : Formed(x)'
    BY <2>1, <1>1, <1>4, FormedStays
  <2> QED
    BY <2>2, <1>1, <1>5 DEF Coherent
<1>9. Pending'
  BY <1>1, <1>4, <1>7 DEF Pending, LastOf, None
<1>10. Places'
  BY <1>1, <1>4, <1>7 DEF Places, Due
<1>11. Replying'
  BY <1>1, <1>4, <1>5 DEF Replying, Asking, LastOf, Left, Calling, Last
<1>12. Waiting'
  BY <1>1, <1>4, <1>5 DEF Waiting
<1>13. Pairs'
  BY <1>1, <1>4, <1>6 DEF Pairs, HasPair
<1>14. Written'
  BY <1>4 DEF Written
<1>15. Repeated'
  BY <1>1, <1>4, <1>6, <1>7 DEF Repeated, Single, Twofold
<1>16. Saved'
  BY <1>1, <1>4, <1>6 DEF Saved, AccountedFor
<1>17. Ordered'
  BY <1>1, <1>4, <1>6 DEF Ordered, UsersInOrder, Ascending, Late
<1> QED
  BY <1>2, <1>8, <1>9, <1>10, <1>11, <1>12, <1>13, <1>14, <1>15, <1>16, <1>17 DEF AgentInv

LEMMA SaveReplacedKeeps ==
  ASSUME AgentInv, SaveReplaced
  PROVE  AgentInv'
<1>1. /\ TypeOK /\ Coherent /\ Pending /\ Places /\ Replying /\ Waiting
      /\ Pairs /\ Written /\ Repeated /\ Saved /\ Ordered
  BY DEF AgentInv
<1>2. TypeOK'
  BY <1>1, SavingTyped
<1>3. unsaved.op = "replace" /\ unsaved.msgs = mem /\ mem # <<>> /\ mem \in Seq(Messages)
  BY <1>1 DEF SaveReplaced, Pending, TypeOK
<1>4. /\ mem' = mem /\ disk' = mem /\ baseline' = Len(mem) /\ broken = FALSE /\ broken' = FALSE /\ host' = host
      /\ UNCHANGED <<queue, batch, inputs, replies, incidents, lost, pc, stop, answered, due>>
      /\ unsaved' = None /\ dropped' = dropped /\ summarised' = summarised /\ twice' = twice /\ resent' = resent
  BY <1>1, <1>3 DEF SaveReplaced, turn, counts, TypeOK
<1>5. Len(mem) \in Nat \ {0} /\ \A i \in 1..Len(mem) : mem[i] \in ToSet(mem)
  BY <1>3, EmptySeq, ListHas
<1>6. Told' \subseteq Told
  BY <1>4 DEF Told
<1>7. unsaved'.op = "none"
  BY <1>4 DEF None
<1>8. Coherent'
  BY <1>1, <1>4, <1>6 DEF Coherent, Formed
<1>9. Pending' /\ Places'
  BY <1>1, <1>4, <1>7 DEF Pending, Places, None
<1>10. Replying'
  BY <1>1, <1>4, <1>6 DEF Replying, Asking, LastOf, Left, Calling, Last
<1>11. Waiting'
  BY <1>1, <1>4, <1>6 DEF Waiting
<1>12. Pairs'
  <2>1. \A m \in ToSet(mem) : Whole(m) => \E i \in 1..(Len(mem) - 1) : mem[i + 1] = m /\ Answers(mem[i], m)
    <3> SUFFICES ASSUME NEW m \in ToSet(mem), Whole(m)
                 PROVE  \E i \in 1..(Len(mem) - 1) : mem[i + 1] = m /\ Answers(mem[i], m)
      OBVIOUS
    <3>1. PICK j \in 1..Len(mem) : mem[j] = m
      BY <1>3, ListHas
    <3>2. j > 1 /\ Answers(mem[j - 1], m)
      BY <3>1, <1>1 DEF Pairs, Paired
    <3>3. j - 1 \in 1..(Len(mem) - 1) /\ (j - 1) + 1 = j
      BY <3>2, <1>5
    <3> QED
      BY <3>1, <3>2, <3>3
  <2>2. \A m \in ToSet(mem) : Whole(m) => HasPair(m)'
    BY <2>1, <1>4 DEF HasPair
  <2> QED
    BY <2>2, <1>1, <1>3, <1>4, <1>7 DEF Pairs, LastOf
<1>13. Written'
  <2>1. \A i, j \in 1..Len(mem) : i < j => Before(mem[i], mem[j])'
    BY <1>4 DEF Before
  <2>2. Len(mem) <= Len(mem) + 0
    BY <1>5
  <2> QED
    BY <2>1, <2>2, <1>4, <1>5, <1>7 DEF Written
<1>14. Repeated'
  BY <1>1, <1>4, <1>7 DEF Repeated, Single, Twofold
<1>15. Saved'
  BY <1>1, <1>4 DEF Saved, AccountedFor
<1>16. Ordered'
  BY <1>1, <1>4 DEF Ordered, UsersInOrder, Ascending, Late
<1> QED
  BY <1>2, <1>8, <1>9, <1>10, <1>11, <1>12, <1>13, <1>14, <1>15, <1>16 DEF AgentInv

LEMMA SaveAppendedKeeps ==
  ASSUME AgentInv, SaveAppended
  PROVE  AgentInv'
<1>1. /\ TypeOK /\ Coherent /\ Pending /\ Places /\ Replying /\ Waiting
      /\ Pairs /\ Written /\ Repeated /\ Saved /\ Ordered
  BY DEF AgentInv
<1>2. TypeOK'
  BY <1>1, SavingTyped
<1>3. /\ unsaved.op = "append" /\ mem # <<>> /\ unsaved.msgs = <<LastOf(mem)>> /\ unsaved.msgs[1] = LastOf(mem)
      /\ mem \in Seq(Messages) /\ disk \in Seq(Messages) /\ baseline \in Nat
  BY <1>1 DEF SaveAppended, Pending, TypeOK
<1>4. PICK m : m = LastOf(mem)
  OBVIOUS
<1>5. /\ mem' = mem /\ disk' = Append(disk, m) /\ baseline' = baseline + 1 /\ broken = FALSE /\ broken' = FALSE
      /\ host' = host /\ UNCHANGED Records
      /\ UNCHANGED <<queue, batch, inputs, replies, incidents, lost, pc, stop, answered>>
      /\ unsaved' = None /\ due' = Due
  <2>1. LastOf(mem) \in Messages
    BY <1>3, ListHas
  <2>2. disk \o <<m>> = Append(disk, m)
    BY <2>1, <1>3, <1>4, AppendIsConcat
  <2> QED
    BY <2>2, <1>1, <1>3, <1>4 DEF SaveAppended, Counted, turn, counts, history, Records, TypeOK
<1>6. Len(mem) \in 1..Len(mem) /\ Len(mem) \in Nat /\ m = mem[Len(mem)] /\ m \in ToSet(mem) /\ m \in Messages
  BY <1>3, <1>4, ListHas DEF LastOf
<1>7. /\ disk' # <<>> /\ Len(disk') = Len(disk) + 1 /\ ToSet(disk') = ToSet(disk) \cup {m} /\ LastOf(disk') = m
      /\ \A i \in 1..Len(disk) : i \in 1..Len(disk') /\ disk'[i] = disk[i]
      /\ \A i \in 1..Len(disk') : \/ i \in 1..Len(disk) /\ disk'[i] = disk[i]
                                  \/ i = Len(disk) + 1 /\ disk'[i] = m
  BY <1>3, <1>5, <1>6, Appended
<1>8. /\ Len(disk) \in Nat /\ Len(disk) + 1 \in 1..Len(disk') /\ disk'[Len(disk) + 1] = m
      /\ \A i \in 1..Len(disk) : disk[i] \in ToSet(disk)
  <2>1. Len(disk) \in Nat /\ \A i \in 1..Len(disk) : disk[i] \in ToSet(disk)
    BY <1>3, ListHas
  <2>2. Len(disk) + 1 \in 1..Len(disk')
    BY <2>1, <1>7
  <2> QED
    BY <2>1, <2>2, <1>7
<1>9. Told' = Told
  BY <1>5, <1>6, <1>7 DEF Told
<1>10. /\ unsaved'.op = "none" /\ dropped' = dropped /\ summarised' = summarised /\ twice' = twice
       /\ resent' = resent /\ rolledBack' = rolledBack
  BY <1>5 DEF None, Records
<1>11. Coherent'
  BY <1>1, <1>5, <1>9 DEF Coherent, Formed
<1>12. Pending' /\ Places'
  BY <1>1, <1>3, <1>5, <1>10 DEF Pending, Places, None
<1>13. Replying'
  BY <1>1, <1>5, <1>9 DEF Replying, Asking, LastOf, Left, Calling, Last
<1>14. Waiting'
  BY <1>1, <1>5, <1>9 DEF Waiting
<1>15. Pairs'
  <2>1. \A x : HasPair(x) => HasPair(x)'
    <3> SUFFICES ASSUME NEW x, HasPair(x) PROVE HasPair(x)'
      OBVIOUS
    <3>1. PICK i \in 1..(Len(disk) - 1) : disk[i + 1] = x /\ Answers(disk[i], x)
      BY DEF HasPair
    <3>2. i \in 1..Len(disk) /\ i + 1 \in 1..Len(disk) /\ i \in 1..(Len(disk') - 1)
      BY <1>7, <1>8
    <3>3. disk'[i + 1] = x /\ Answers(disk'[i], x)
      BY <3>1, <3>2, <1>7
    <3> QED
      BY <3>2, <3>3 DEF HasPair
  <2>2. disk # <<>> /\ Answers(LastOf(disk), m) => HasPair(m)'
    <3> SUFFICES ASSUME disk # <<>>, Answers(LastOf(disk), m) PROVE HasPair(m)'
      OBVIOUS
    <3>1. Len(disk) \in 1..Len(disk) /\ LastOf(disk) = disk[Len(disk)]
      BY <1>3, ListHas DEF LastOf
    <3>2. Len(disk) \in 1..(Len(disk') - 1) /\ disk'[Len(disk)] = disk[Len(disk)]
      BY <3>1, <1>7, <1>8
    <3>3. disk'[Len(disk) + 1] = m /\ Answers(disk'[Len(disk)], m)
      BY <3>1, <3>2, <1>8
    <3> QED
      BY <3>2, <3>3 DEF HasPair
  <2>3. IsResults(m) => m \in resent \/ HasPair(m)'
    BY <2>1, <2>2, <1>1, <1>3, <1>4, <1>5 DEF Pairs
  <2>4. \A x \in ToSet(disk') : Whole(x) => x \in resent' \/ HasPair(x)'
    BY <2>1, <2>3, <1>1, <1>7, <1>10 DEF Pairs, Whole
  <2>5. (LastOf(disk))' = (LastOf(mem))'
    BY <1>4, <1>5, <1>7 DEF LastOf
  <2> QED
    BY <2>4, <2>5, <1>1, <1>5, <1>7, <1>10 DEF Pairs
<1>16. Written'
  <2> SUFFICES ASSUME ~ rolledBack PROVE Written'
    BY <1>10 DEF Written
  <2>1. Len(mem) <= baseline + 1 /\ Len(mem) <= (baseline + 1) + 0
    BY <1>1, <1>3, <1>5, <1>6 DEF Written
  <2>2. \A i \in 1..Len(mem) : i # Len(mem) /\ ~ Stubbed(mem[i]) => mem[i] \in ToSet(disk)
    BY <1>1, <1>3, <1>5 DEF Written, Settled
  <2>3. \A i \in 1..Len(mem) : ~ Stubbed(mem[i]) => mem[i] \in ToSet(disk')
    BY <2>2, <1>6, <1>7
  <2>4. \A x, y : Before(x, y) => Before(x, y)'
    BY <1>7 DEF Before
  <2>5. \A x \in ToSet(disk) : Before(x, m)'
    <3> SUFFICES ASSUME NEW x \in ToSet(disk) PROVE Before(x, m)'
      OBVIOUS
    <3>1. PICK p \in 1..Len(disk) : disk[p] = x
      BY <1>3, ListHas
    <3>2. p \in 1..Len(disk') /\ disk'[p] = x /\ p < Len(disk) + 1
      BY <3>1, <1>7, <1>8
    <3> QED
      BY <3>2, <1>8 DEF Before
  <2>6. \A i, j \in 1..Len(mem) : i < j /\ ~ Stubbed(mem[i]) /\ ~ Stubbed(mem[j]) => Before(mem[i], mem[j])'
    <3> SUFFICES ASSUME NEW i \in 1..Len(mem), NEW j \in 1..Len(mem), i < j,
                        ~ Stubbed(mem[i]), ~ Stubbed(mem[j])
                 PROVE  Before(mem[i], mem[j])'
      BY <1>5
    <3>1. CASE j = Len(mem)
      <4>1. mem[i] \in ToSet(disk)
        BY <3>1, <2>2, <1>6
      <4>2. mem' = mem /\ mem[j] = m
        BY <3>1, <1>5, <1>6
      <4> QED
        BY <4>1, <4>2, <2>5 DEF Before
    <3>2. CASE j # Len(mem)
      <4>1. Before(mem[i], mem[j])
        BY <3>2, <1>1, <1>3, <1>5 DEF Written, Settled
      <4> QED
        BY <4>1, <2>4, <1>5 DEF Before
    <3> QED
      BY <3>1, <3>2
  <2>7. \A x \in ToSet(disk') : Stubbed(x) \/ x \in ToSet(mem) \cup dropped \cup resent
    BY <1>1, <1>3, <1>5, <1>6, <1>7 DEF Written
  <2> QED
    BY <2>1, <2>3, <2>6, <2>7, <1>5, <1>10 DEF Written
<1>17. Repeated'
  <2>1. \A x : Twofold(x)' <=> Twofold(x)
    BY <1>10 DEF Twofold
  <2>2. m \in ToSet(disk) => Twofold(m)
    BY <1>1, <1>3, <1>4 DEF Repeated
  <2>3. Single(disk)'
    <3> SUFFICES ASSUME NEW i \in 1..Len(disk'), NEW j \in 1..Len(disk'), i < j, disk'[i] = disk'[j]
                 PROVE  Twofold(disk'[i])
      BY <2>1 DEF Single
    <3>1. i \in 1..Len(disk) /\ disk'[i] = disk[i]
      BY <1>7, <1>8
    <3>2. CASE j \in 1..Len(disk) /\ disk'[j] = disk[j]
      BY <3>1, <3>2, <1>1 DEF Repeated, Single
    <3>3. CASE disk'[j] = m
      BY <3>1, <3>3, <2>2, <1>8
    <3> QED
      BY <3>2, <3>3, <1>7
  <2>4. Single(mem)'
    BY <2>1, <1>1, <1>5 DEF Repeated, Single
  <2> QED
    BY <2>3, <2>4, <1>10 DEF Repeated
<1>18. Saved'
  <2>1. \A n \in 1..inputs : AccountedFor(n)'
    BY <1>1, <1>5, <1>10 DEF Saved, AccountedFor
  <2>2. \A n \in 1..inputs : unsaved.msgs = <<User(n)>> => User(n) \in ToSet(disk')
    BY <1>3, <1>4, <1>7
  <2>3. \A n \in 1..inputs : User(n) \in ToSet(mem) => User(n) \in ToSet(disk') \cup summarised
    BY <2>2, <1>1, <1>5, <1>7 DEF Saved
  <2>4. \A x \in ToSet(disk') : x.kind = "user" => x \in ToSet(mem)
    BY <1>1, <1>3, <1>5, <1>6, <1>7 DEF Saved
  <2> QED
    BY <2>1, <2>3, <2>4, <1>5, <1>10 DEF Saved
<1>19. Ordered'
  <2>1. UsersInOrder(disk)'
    <3> SUFFICES ASSUME NEW i \in 1..Len(disk'), NEW j \in 1..Len(disk'), i < j,
                        disk'[i].kind = "user", disk'[j].kind = "user"
                 PROVE  Late(disk'[j].n) \/ disk'[i].n <= disk'[j].n
      BY <1>5, <1>10 DEF UsersInOrder, Late
    <3>1. i \in 1..Len(disk) /\ disk'[i] = disk[i]
      BY <1>7, <1>8
    <3>2. CASE j \in 1..Len(disk) /\ disk'[j] = disk[j]
      BY <3>1, <3>2, <1>1 DEF Ordered, UsersInOrder
    <3>3. CASE disk'[j] = m
      <4>1. disk[i] \in ToSet(mem)
        BY <3>1, <1>1, <1>3, <1>5, <1>8 DEF Saved
      <4>2. PICK k \in 1..Len(mem) : mem[k] = disk[i]
        BY <4>1, <1>3, ListHas
      <4>3. CASE k = Len(mem)
        <5>1. disk[i].n = m.n /\ m.n \in Nat
          BY <4>2, <4>3, <1>6 DEF Messages
        <5> QED
          BY <5>1, <3>1, <3>3
      <4>4. CASE k # Len(mem)
        <5>1. k < Len(mem)
          BY <4>4, <1>6
        <5> QED
          BY <5>1, <4>2, <3>1, <3>3, <1>1, <1>6 DEF Ordered, UsersInOrder
      <4> QED
        BY <4>3, <4>4
    <3> QED
      BY <3>2, <3>3, <1>7
  <2>2. UsersInOrder(mem)' /\ Ascending(batch)' /\ Ascending(queue)'
    BY <1>1, <1>5, <1>10 DEF Ordered, UsersInOrder, Ascending, Late
  <2> QED
    BY <2>1, <2>2, <1>1, <1>5, <1>10 DEF Ordered, Late
<1> QED
  BY <1>2, <1>11, <1>12, <1>13, <1>14, <1>15, <1>16, <1>17, <1>18, <1>19 DEF AgentInv


-----------------------------------------------------------------------------
(* The flush.                                                              *)

\* What the flush writes is what it writes again after a rolled back compaction, or
\* the message that its hook will write too.
LEMMA FlushWrites ==
  ASSUME AgentInv, FlushRows, WrittenTwice, ~ broken, pc # "idle"
  PROVE  /\ disk' = disk \o Beyond /\ twice \subseteq twice' /\ resent \subseteq resent'
         /\ ToSet(Beyond) \subseteq twice' \cup resent'
         /\ rolledBack => ToSet(Beyond) \subseteq resent'
         /\ ~ rolledBack /\ Beyond # <<>> =>
              /\ Len(Beyond) = 1 /\ Beyond[1] = LastOf(mem) /\ mem # <<>>
              /\ unsaved.op \in {"append", "replace"}
         /\ Beyond # <<>> => mem # <<>> /\ LastOf(Beyond) = LastOf(mem)
<1>1. TypeOK /\ Pending /\ Written
  BY DEF AgentInv
<1>2. /\ Beyond \in Seq(Messages) /\ Len(Beyond) \in Nat
      /\ Len(mem) <= baseline => Beyond = <<>>
      /\ Len(mem) > baseline => Len(Beyond) = Len(mem) - baseline
      /\ \A k \in 1..Len(Beyond) : baseline + k \in 1..Len(mem) /\ Beyond[k] = mem[baseline + k]
  BY <1>1, BeyondIs
<1>3. mem \in Seq(Messages) /\ Len(mem) \in Nat /\ baseline \in Nat /\ unsaved.msgs \in Seq(Messages)
  BY <1>1, LenProperties, PendingTyped DEF TypeOK
<1>4. disk' = disk \o Beyond /\ twice \subseteq twice' /\ resent \subseteq resent'
  BY DEF FlushRows, WrittenTwice
<1>5. rolledBack => ToSet(Beyond) \subseteq resent'
  BY DEF WrittenTwice
<1>6. ASSUME Beyond # <<>>
      PROVE  /\ Len(mem) > baseline /\ Len(Beyond) = Len(mem) - baseline /\ mem # <<>>
             /\ LastOf(Beyond) = LastOf(mem)
  <2>1. Len(mem) > baseline /\ Len(Beyond) = Len(mem) - baseline
    BY <1>2, <1>3, <1>6
  <2>2. Len(Beyond) \in 1..Len(Beyond) /\ baseline + Len(Beyond) = Len(mem)
    BY <2>1, <1>2, <1>3
  <2>3. Beyond[Len(Beyond)] = mem[Len(mem)]
    BY <2>2, <1>2
  <2>4. mem # <<>>
    BY <2>1, <1>3
  <2> QED
    BY <2>1, <2>3, <2>4 DEF LastOf
<1>7. ASSUME ~ rolledBack, Beyond # <<>>
      PROVE  /\ Len(Beyond) = 1 /\ Beyond[1] = LastOf(mem) /\ mem # <<>> /\ unsaved.op \in {"append", "replace"}
             /\ ToSet(Beyond) \subseteq twice'
  <2>1. Len(mem) <= baseline + (IF unsaved.op = "none" THEN 0 ELSE 1)
    BY <1>1, <1>7 DEF Written
  <2>2. unsaved.op # "none" /\ Len(Beyond) = 1
    <3>1. Len(mem) > baseline /\ Len(Beyond) = Len(mem) - baseline /\ Len(mem) \in Nat /\ baseline \in Nat
      BY <1>3, <1>6, <1>7
    <3> QED
      BY <2>1, <3>1
  <2>3. Beyond[1] = LastOf(mem)
    BY <2>2, <1>6, <1>7 DEF LastOf
  <2>4. unsaved.op \in {"append", "replace"}
    BY <2>2, <1>1 DEF Pending
  <2>5. LastOf(mem) \in ToSet(unsaved.msgs)
    <3>1. LastOf(mem) \in ToSet(mem) /\ LastOf(mem) \in Messages
      BY <1>3, <1>6, <1>7, ListHas
    <3>2. CASE unsaved.op = "append"
      BY <3>1, <3>2, <1>1, OneMessage DEF Pending
    <3>3. CASE unsaved.op = "replace"
      BY <3>1, <3>3, <1>1 DEF Pending
    <3> QED
      BY <3>2, <3>3, <2>4
  <2>6. \A x \in ToSet(Beyond) : x = LastOf(mem)
    <3>1. \A x \in ToSet(Beyond) : \E k \in 1..Len(Beyond) : Beyond[k] = x
      BY <1>2, ListHas
    <3> QED
      BY <3>1, <2>2, <2>3
  <2>7. ToSet(Beyond) \subseteq twice'
    BY <2>5, <2>6, <1>7 DEF WrittenTwice
  <2> QED
    BY <2>2, <2>3, <2>4, <2>7, <1>6, <1>7
<1>8. Beyond = <<>> => ToSet(Beyond) = {}
  BY <1>2, ListHas
<1> QED
  BY <1>4, <1>5, <1>6, <1>7, <1>8

FlushFrame == /\ FlushRows /\ WrittenTwice
              /\ UNCHANGED <<mem, unsaved, broken, host, dropped, summarised, rolledBack, inputs, replies, incidents>>
              /\ pc # "idle" /\ (unsaved.op = "replace" => pc' # "idle") /\ (Asking' => Asking)

LEMMA FlushDisk ==
  ASSUME AgentInv, FlushFrame
  PROVE  /\ Told' = Told /\ disk' \in Seq(Messages)
         /\ ToSet(disk) \subseteq ToSet(disk') /\ ToSet(disk') \subseteq ToSet(disk) \cup ToSet(mem)
         /\ \A n : Late(n) => Late(n)'
         /\ \A x : Twofold(x) => Twofold(x)'
         /\ \A x : HasPair(x) => HasPair(x)'
         /\ \A x, y : Before(x, y) => Before(x, y)'
         /\ resent \subseteq resent'
<1>1. TypeOK
  BY DEF AgentInv
<1>2. disk \in Seq(Messages) /\ Beyond \in Seq(Messages) /\ ToSet(Beyond) \subseteq ToSet(mem) /\ Len(disk) \in Nat
  BY <1>1, BeyondIs, LenProperties DEF TypeOK
<1>3. mem' = mem /\ host' = host
  BY DEF FlushFrame
<1>4. CASE broken
  <2>1. disk' = disk /\ twice' = twice /\ resent' = resent
    BY <1>4 DEF FlushFrame, FlushRows, WrittenTwice
  <2> QED
    BY <2>1, <1>2, <1>3 DEF Told, Late, Twofold, HasPair, Before
<1>5. CASE ~ broken
  <2>1. disk' = disk \o Beyond /\ twice \subseteq twice' /\ resent \subseteq resent'
    BY <1>5, FlushWrites DEF FlushFrame
  <2>2. /\ disk' \in Seq(Messages) /\ ToSet(disk') = ToSet(disk) \cup ToSet(Beyond)
        /\ \A i \in 1..Len(disk) : i \in 1..Len(disk') /\ disk'[i] = disk[i]
    BY <2>1, <1>2, Joined
  <2>3. Told' = Told
    BY <2>2, <1>2, <1>3 DEF Told
  <2>4. \A x : HasPair(x) => HasPair(x)'
    <3> SUFFICES ASSUME NEW x, HasPair(x) PROVE HasPair(x)'
      OBVIOUS
    <3>1. PICK i \in 1..(Len(disk) - 1) : disk[i + 1] = x /\ Answers(disk[i], x)
      BY DEF HasPair
    <3>2. i \in 1..Len(disk) /\ i + 1 \in 1..Len(disk)
      BY <1>2
    <3>3. i + 1 \in 1..Len(disk') /\ i \in 1..Len(disk')
      BY <3>2, <2>2
    <3>4. i \in 1..(Len(disk') - 1)
      BY <3>3, <2>2, LenProperties
    <3>5. disk'[i + 1] = x /\ Answers(disk'[i], x)
      BY <3>1, <3>2, <2>2
    <3> QED
      BY <3>4, <3>5 DEF HasPair
  <2>5. \A x, y : Before(x, y) => Before(x, y)'
    BY <2>2 DEF Before
  <2> QED
    BY <2>1, <2>2, <2>3, <2>4, <2>5, <1>2, <1>3 DEF Late, Twofold
<1> QED
  BY <1>4, <1>5


LEMMA FlushKeeps ==
  ASSUME AgentInv, FlushFrame
  PROVE  Coherent' /\ Pairs' /\ Written' /\ Repeated' /\ UsersInOrder(mem)' /\ UsersInOrder(disk)'
<1>1. /\ TypeOK /\ Coherent /\ Pending /\ Places /\ Pairs /\ Written /\ Repeated /\ Saved /\ Ordered
  BY DEF AgentInv
<1>2. /\ Told' = Told /\ disk' \in Seq(Messages)
      /\ ToSet(disk) \subseteq ToSet(disk') /\ ToSet(disk') \subseteq ToSet(disk) \cup ToSet(mem)
      /\ \A n : Late(n) => Late(n)'
      /\ \A x : Twofold(x) => Twofold(x)'
      /\ \A x : HasPair(x) => HasPair(x)'
      /\ \A x, y : Before(x, y) => Before(x, y)'
      /\ resent \subseteq resent'
  BY FlushDisk
<1>3. /\ mem' = mem /\ unsaved' = unsaved /\ broken' = broken /\ host' = host /\ dropped' = dropped
      /\ summarised' = summarised /\ rolledBack' = rolledBack /\ inputs' = inputs /\ replies' = replies
      /\ incidents' = incidents /\ pc # "idle" /\ (unsaved.op = "replace" => pc' # "idle") /\ (Asking' => Asking)
      /\ FlushRows /\ WrittenTwice
  BY DEF FlushFrame
<1>4. /\ mem \in Seq(Messages) /\ disk \in Seq(Messages) /\ Len(mem) \in Nat /\ Len(disk) \in Nat
      /\ Beyond \in Seq(Messages) /\ ToSet(Beyond) \subseteq ToSet(mem) /\ baseline \in Nat
      /\ \A i \in 1..Len(disk) : disk[i] \in ToSet(disk)
  BY <1>1, BeyondIs, LenProperties, ListHas DEF TypeOK
<1>5. Coherent'
  BY <1>1, <1>2, <1>3 DEF Coherent, Formed
<1>6. UsersInOrder(mem)'
  BY <1>1, <1>2, <1>3 DEF Ordered, UsersInOrder
<1>7. Single(mem)'
  BY <1>1, <1>2, <1>3 DEF Repeated, Single
<1>8. CASE broken
  <2>1. disk' = disk /\ twice' = twice /\ resent' = resent
    BY <1>3, <1>8 DEF FlushRows, WrittenTwice
  <2>2. Pairs'
    BY <2>1, <1>1, <1>3, <1>8 DEF Pairs, HasPair
  <2>3. Written'
    BY <1>3, <1>8 DEF Written
  <2>4. Repeated'
    BY <2>1, <1>1, <1>3, <1>7 DEF Repeated, Single, Twofold
  <2>5. UsersInOrder(disk)'
    BY <2>1, <1>1, <1>3 DEF Ordered, UsersInOrder, Late
  <2> QED
    BY <2>2, <2>3, <2>4, <2>5, <1>5, <1>6
<1>9. CASE ~ broken
  <2>1. /\ disk' = disk \o Beyond /\ twice \subseteq twice' /\ resent \subseteq resent'
        /\ ToSet(Beyond) \subseteq twice' \cup resent'
        /\ rolledBack => ToSet(Beyond) \subseteq resent'
        /\ ~ rolledBack /\ Beyond # <<>> =>
             /\ Len(Beyond) = 1 /\ Beyond[1] = LastOf(mem) /\ mem # <<>>
             /\ unsaved.op \in {"append", "replace"}
        /\ Beyond # <<>> => mem # <<>> /\ LastOf(Beyond) = LastOf(mem)
    BY <1>3, <1>9, FlushWrites
  <2>2. /\ Len(disk') = Len(disk) + Len(Beyond) /\ ToSet(disk') = ToSet(disk) \cup ToSet(Beyond)
        /\ \A i \in 1..Len(disk) : i \in 1..Len(disk') /\ disk'[i] = disk[i]
        /\ \A i \in 1..Len(Beyond) : Len(disk) + i \in 1..Len(disk') /\ disk'[Len(disk) + i] = Beyond[i]
        /\ \A i \in 1..Len(disk') : \/ i \in 1..Len(disk) /\ disk'[i] = disk[i]
                                    \/ i > Len(disk) /\ i - Len(disk) \in 1..Len(Beyond) /\ disk'[i] = Beyond[i - Len(disk)]
    BY <2>1, <1>4, Joined
  <2>3. /\ Len(Beyond) \in Nat /\ \A i \in 1..Len(Beyond) : Beyond[i] \in ToSet(Beyond)
        /\ \A x \in ToSet(Beyond) : \E i \in 1..Len(Beyond) : Beyond[i] = x
        /\ Beyond = <<>> => Len(Beyond) = 0 /\ ToSet(Beyond) = {}
        /\ Beyond # <<>> => Len(Beyond) \in 1..Len(Beyond) /\ LastOf(Beyond) = Beyond[Len(Beyond)]
    BY <1>4, ListHas DEF LastOf
  <2>4. Beyond = <<>> => disk' = disk
    BY <2>1, <1>4, ConcatEmptySeq
  <2>5. Beyond # <<>> => disk' # <<>> /\ LastOf(disk') = LastOf(mem)
    <3> SUFFICES ASSUME Beyond # <<>> PROVE disk' # <<>> /\ LastOf(disk') = LastOf(mem)
      OBVIOUS
    <3>1. Len(disk) + Len(Beyond) \in 1..Len(disk') /\ disk'[Len(disk) + Len(Beyond)] = Beyond[Len(Beyond)]
      BY <2>2, <2>3
    <3>2. disk' # <<>>
      <4>1. Len(disk') # 0
        BY <3>1
      <4> QED
        BY <4>1
    <3>3. LastOf(disk') = Beyond[Len(Beyond)]
      BY <3>1, <2>2 DEF LastOf
    <3> QED
      BY <3>2, <3>3, <2>1, <2>3
  <2>6. \A x \in ToSet(Beyond) : Twofold(x)'
    BY <2>1 DEF Twofold
  <2>7. ASSUME ~ rolledBack, Beyond # <<>>
        PROVE  \A x \in ToSet(Beyond) : x = LastOf(mem)
    <3>1. Len(Beyond) = 1 /\ Beyond[1] = LastOf(mem)
      BY <2>1, <2>7
    <3>2. \A x \in ToSet(Beyond) : \E i \in 1..Len(Beyond) : Beyond[i] = x
      BY <2>3
    <3> HIDE DEF Beyond
    <3> QED
      BY ONLY <3>1, <3>2
  <2>8. ASSUME unsaved.op = "append", IsResults(unsaved.msgs[1])
        PROVE  \/ disk' # <<>> /\ Answers(LastOf(disk'), unsaved.msgs[1])
               \/ unsaved.msgs[1] \in resent' \/ HasPair(unsaved.msgs[1])'
    <3> DEFINE m == unsaved.msgs[1]
    <3>1. m = LastOf(mem)
      BY <2>8, <1>1 DEF Pending
    <3>2. (disk # <<>> /\ Answers(LastOf(disk), m)) \/ m \in resent \/ HasPair(m)
      BY <2>8, <1>1, <1>9 DEF Pairs
    <3>3. CASE Beyond = <<>>
      <4>1. disk' = disk
        BY <3>3, <2>4
      <4>2. m \in resent => m \in resent'
        BY <1>2
      <4>3. HasPair(m) => HasPair(unsaved.msgs[1])'
        BY <1>2, <1>3
      <4> QED
        BY <3>2, <4>1, <4>2, <4>3 DEF LastOf
    <3>4. CASE m \in resent \/ HasPair(m)
      BY <3>4, <1>2, <1>3
    <3>5. CASE Beyond # <<>> /\ rolledBack
      <4>1. LastOf(mem) \in ToSet(Beyond)
        BY <3>5, <2>1, <2>3
      <4> QED
        BY <4>1, <3>1, <3>5, <2>1
    <3>6. CASE Beyond # <<>> /\ ~ rolledBack /\ disk # <<>> /\ Answers(LastOf(disk), m)
      <4>1. Len(Beyond) = 1 /\ Beyond[1] = m
        BY <3>1, <3>6, <2>1
      <4>2. Len(disk) + 1 \in 1..Len(disk') /\ disk'[Len(disk) + 1] = m
        BY <4>1, <2>2
      <4>3. Len(disk) \in 1..Len(disk) /\ LastOf(disk) = disk[Len(disk)]
        BY <3>6, <1>4, ListHas DEF LastOf
      <4>4. Len(disk) \in 1..(Len(disk') - 1) /\ disk'[Len(disk)] = LastOf(disk)
        BY <4>1, <4>3, <2>2, <1>4
      <4>5. \E i \in 1..(Len(disk') - 1) : disk'[i + 1] = m /\ Answers(disk'[i], m)
        BY <4>2, <4>4, <3>6
      <4>6. HasPair(unsaved.msgs[1])'
        BY <4>5, <1>3 DEF HasPair
      <4> QED
        BY <4>6
    <3> QED
      BY <3>2, <3>3, <3>4, <3>5, <3>6
  <2>9. \A x \in ToSet(Beyond) : Whole(x) => x \in resent' \/ HasPair(x)'
    <3> SUFFICES ASSUME NEW x \in ToSet(Beyond), Whole(x) PROVE x \in resent' \/ HasPair(x)'
      OBVIOUS
    <3>1. CASE rolledBack
      BY <3>1, <2>1
    <3>2. CASE ~ rolledBack
      <4>1. Beyond # <<>> /\ x = LastOf(mem) /\ Len(Beyond) = 1 /\ Beyond[1] = x /\ mem # <<>>
        BY <3>2, <2>1, <2>3, <2>7
      <4>2. CASE unsaved.op = "append"
        <5>1. unsaved.msgs[1] = x /\ IsResults(x)
          BY <4>1, <4>2, <1>1 DEF Pending, Whole
        <5>2. (disk # <<>> /\ Answers(LastOf(disk), x)) \/ x \in resent \/ HasPair(x)
          BY <4>2, <5>1, <1>1, <1>9 DEF Pairs
        <5>3. CASE disk # <<>> /\ Answers(LastOf(disk), x)
          <6>1. Len(disk) + 1 \in 1..Len(disk') /\ disk'[Len(disk) + 1] = x
            BY <4>1, <2>2
          <6>2. Len(disk) \in 1..Len(disk) /\ LastOf(disk) = disk[Len(disk)]
            BY <5>3, <1>4, ListHas DEF LastOf
          <6>3. Len(disk) \in 1..(Len(disk') - 1) /\ disk'[Len(disk)] = LastOf(disk)
            BY <4>1, <6>2, <2>2, <1>4
          <6> QED
            BY <6>1, <6>3, <5>3 DEF HasPair
        <5> QED
          BY <5>2, <5>3, <1>2
      <4>3. CASE unsaved.op = "replace"
        <5>1. Len(mem) \in 1..Len(mem) /\ x = mem[Len(mem)]
          BY <4>1, <1>4, ListHas DEF LastOf
        <5>2. Len(mem) > 1
          BY <5>1, <1>1 DEF Pairs, Paired
        <5>3. Settled(Len(mem))
          BY <4>3, <5>2, <1>3 DEF Settled
        <5>4. x \in ToSet(disk)
          BY <3>2, <5>1, <5>3, <1>1, <1>9 DEF Written, Whole
        <5> QED
          BY <5>4, <1>1, <1>2 DEF Pairs
      <4> QED
        BY <4>1, <4>2, <4>3, <3>2, <2>1
    <3> QED
      BY <3>1, <3>2
  <2>10. Pairs'
    <3>1. \A x \in ToSet(disk') : Whole(x) => x \in resent' \/ HasPair(x)'
      BY <2>2, <2>9, <1>1, <1>2 DEF Pairs
    <3>2. Asking /\ unsaved = None => disk' # <<>> /\ LastOf(disk') = LastOf(mem)
      <4>1. Asking /\ unsaved = None => disk # <<>> /\ LastOf(disk) = LastOf(mem)
        BY <1>1, <1>9 DEF Pairs
      <4> QED
        BY <4>1, <2>4, <2>5
    <3>3. LastOf(disk') = (LastOf(disk))' /\ LastOf(mem) = (LastOf(mem))' /\ None' = None
      BY <1>3 DEF LastOf, None
    <3>4. Paired(mem)'
      BY <1>1, <1>3 DEF Pairs, Paired
    <3>5. ~ broken' /\ unsaved'.op = "append" /\ IsResults(unsaved'.msgs[1]) =>
            \/ disk' # <<>> /\ Answers((LastOf(disk))', unsaved'.msgs[1])
            \/ unsaved'.msgs[1] \in resent' \/ HasPair(unsaved.msgs[1])'
      BY <2>8, <3>3, <1>3
    <3> QED
      BY <3>1, <3>2, <3>3, <3>4, <3>5, <1>3 DEF Pairs
  <2>11. Written'
    <3> SUFFICES ASSUME ~ rolledBack PROVE Written'
      BY <1>3 DEF Written
    <3>1. baseline' = Len(mem)
      BY <1>3, <1>9 DEF FlushRows
    <3>2. Len(mem) <= Len(mem) + 0 /\ Len(mem) <= Len(mem) + 1
      BY <1>4
    <3>3. \A i \in 1..Len(mem) : Settled(i)' => Settled(i)
      BY <1>3 DEF Settled
    <3>4. \A i \in 1..Len(mem) : Settled(i) /\ ~ Stubbed(mem[i]) => mem[i] \in ToSet(disk')
      BY <1>1, <1>2, <1>9 DEF Written
    <3>5. unsaved.op # "replace" =>
            \A i, j \in 1..Len(mem) : i < j /\ Settled(j) /\ ~ Stubbed(mem[i]) /\ ~ Stubbed(mem[j])
              => Before(mem[i], mem[j])'
      <4> SUFFICES ASSUME unsaved.op # "replace", NEW i \in 1..Len(mem), NEW j \in 1..Len(mem), i < j, Settled(j),
                          ~ Stubbed(mem[i]), ~ Stubbed(mem[j])
                   PROVE  Before(mem[i], mem[j])'
        OBVIOUS
      <4>1. PICK x, y : x = mem[i] /\ y = mem[j]
        OBVIOUS
      <4>2. Before(x, y)
        BY <4>1, <1>1, <1>9 DEF Written
      <4>3. Before(x, y)'
        BY <4>2, <1>2
      <4> QED
        BY <4>1, <4>3, <1>3 DEF Before
    <3>6. unsaved.op # "replace" => \A x \in ToSet(disk') : Stubbed(x) \/ x \in ToSet(mem) \cup dropped \cup resent'
      <4> SUFFICES ASSUME unsaved.op # "replace", NEW x \in ToSet(disk')
                   PROVE  Stubbed(x) \/ x \in ToSet(mem) \cup dropped \cup resent'
        OBVIOUS
      <4>1. x \in ToSet(disk) \/ x \in ToSet(mem)
        BY <1>2
      <4>2. x \in ToSet(disk) => Stubbed(x) \/ x \in ToSet(mem) \cup dropped \cup resent
        BY <1>1, <1>9 DEF Written
      <4> QED
        BY <4>1, <4>2, <1>2
    <3> QED
      BY <3>1, <3>2, <3>3, <3>4, <3>5, <3>6, <1>3 DEF Written
  <2>12. Repeated'
    <3>1. Single(disk)'
      <4> SUFFICES ASSUME NEW i \in 1..Len(disk'), NEW j \in 1..Len(disk'), i < j, disk'[i] = disk'[j]
                   PROVE  Stubbed(disk'[i]) \/ disk'[i] \in twice' \cup resent' \cup {Nudge}
        BY DEF Single, Twofold, Nudge, Msg
      <4>1. CASE j \in 1..Len(disk) /\ disk'[j] = disk[j]
        <5>1. i \in 1..Len(disk) /\ disk'[i] = disk[i]
          BY <4>1, <2>2, <1>4
        <5>2. PICK x : x = disk[i]
          OBVIOUS
        <5>3. Twofold(x)
          BY <4>1, <5>1, <5>2, <1>1 DEF Repeated, Single
        <5>4. Twofold(x)'
          BY <5>3, <1>2
        <5> QED
          BY <5>1, <5>2, <5>4 DEF Twofold
      <4>2. CASE j - Len(disk) \in 1..Len(Beyond) /\ disk'[j] = Beyond[j - Len(disk)]
        <5>1. disk'[i] \in ToSet(Beyond)
          BY <4>2, <2>3
        <5> QED
          BY <5>1, <2>1
      <4> QED
        BY <4>1, <4>2, <2>2
    <3>2. unsaved.op = "append" /\ unsaved.msgs[1] \in ToSet(disk') => Twofold(unsaved.msgs[1])'
      <4>1. unsaved.op = "append" /\ unsaved.msgs[1] \in ToSet(disk) => Twofold(unsaved.msgs[1])
        BY <1>1 DEF Repeated
      <4> QED
        BY <4>1, <2>2, <2>6, <1>2, <1>3
    <3> QED
      BY <3>1, <3>2, <1>3, <1>7 DEF Repeated
  <2>13. UsersInOrder(disk)'
    <3> SUFFICES ASSUME NEW i \in 1..Len(disk'), NEW j \in 1..Len(disk'), i < j,
                        disk'[i].kind = "user", disk'[j].kind = "user"
                 PROVE  (disk'[j].n \in host' \/ User(disk'[j].n) \in resent') \/ disk'[i].n <= disk'[j].n
      BY DEF UsersInOrder, Late
    <3>1. CASE j \in 1..Len(disk) /\ disk'[j] = disk[j]
      <4>1. i \in 1..Len(disk) /\ disk'[i] = disk[i]
        BY <3>1, <2>2, <1>4
      <4> QED
        BY <3>1, <4>1, <1>1, <1>2, <1>3 DEF Ordered, UsersInOrder, Late
    <3>2. CASE j - Len(disk) \in 1..Len(Beyond) /\ disk'[j] = Beyond[j - Len(disk)]
      <4>1. disk'[j] \in ToSet(Beyond) /\ disk'[j] \in Told /\ Beyond # <<>>
        BY <3>2, <2>3, <1>4 DEF Told
      <4>2. CASE rolledBack
        <5>1. disk'[j] = User(disk'[j].n)
          BY <4>1, <1>1, ToldTyped DEF Coherent, Formed, User, Msg, Messages
        <5> QED
          BY <4>1, <4>2, <5>1, <2>1
      <4>3. CASE ~ rolledBack
        <5>1. disk'[j] = LastOf(mem) /\ Len(mem) \in 1..Len(mem) /\ LastOf(mem) = mem[Len(mem)]
          BY <4>1, <4>3, <2>1, <2>7, <1>4, ListHas DEF LastOf
        <5>2. disk'[i] \in ToSet(mem)
          <6>1. disk'[i] \in ToSet(disk) \/ disk'[i] \in ToSet(mem)
            BY <2>2, <2>3, <1>4
          <6> QED
            BY <6>1, <1>1, <1>3, <1>9 DEF Saved
        <5>3. PICK k \in 1..Len(mem) : mem[k] = disk'[i]
          BY <5>2, <1>4, ListHas
        <5>4. CASE k = Len(mem)
          <6>1. disk'[i].n = disk'[j].n /\ disk'[j].n \in Nat
            BY <5>1, <5>3, <5>4, <4>1, <1>1, ToldTyped DEF Messages
          <6> QED
            BY <6>1
        <5>5. CASE k # Len(mem)
          <6>1. k < Len(mem)
            BY <5>5, <1>4
          <6> QED
            BY <5>1, <5>3, <6>1, <1>1, <1>2, <1>3 DEF Ordered, UsersInOrder, Late
        <5> QED
          BY <5>4, <5>5
      <4> QED
        BY <4>2, <4>3
    <3> QED
      BY <3>1, <3>2, <2>2
  <2> QED
    BY <2>10, <2>11, <2>12, <2>13, <1>5, <1>6
<1> QED
  BY <1>8, <1>9


\* The inputs that wait keep their order when some of them are discarded.
LEMMA FlushWaits ==
  ASSUME AgentInv, FlushFrame, batch' = batch, ToSet(queue') \subseteq ToSet(queue),
         ToSet(queue) \subseteq ToSet(queue') \cup lost', lost \subseteq lost', Len(queue') \in Nat,
         \A i, j \in 1..Len(queue') : i < j =>
           \E a, b \in 1..Len(queue) : a < b /\ queue[a] = queue'[i] /\ queue[b] = queue'[j]
  PROVE  Waiting' /\ Saved' /\ Ordered'
<1>1. TypeOK /\ Places /\ Waiting /\ Saved /\ Ordered
  BY DEF AgentInv
<1>2. /\ mem' = mem /\ unsaved' = unsaved /\ broken' = broken /\ host' = host
      /\ summarised' = summarised /\ inputs' = inputs /\ pc # "idle"
  BY DEF FlushFrame
<1>3. /\ Told' = Told /\ ToSet(disk) \subseteq ToSet(disk') /\ ToSet(disk') \subseteq ToSet(disk) \cup ToSet(mem)
      /\ \A n : Late(n) => Late(n)'
  BY FlushDisk
<1>4. Waiting'
  <2>1. \A i, j \in 1..Len(queue') : i < j => queue'[i] # queue'[j]
    <3> SUFFICES ASSUME NEW i \in 1..Len(queue'), NEW j \in 1..Len(queue'), i < j, queue'[i] = queue'[j]
                 PROVE  FALSE
      OBVIOUS
    <3>1. PICK a \in 1..Len(queue), b \in 1..Len(queue) : a < b /\ queue[a] = queue[b]
      OBVIOUS
    <3> QED
      BY <3>1, <1>1 DEF Waiting
  <2>2. \A i, j \in 1..Len(queue') : queue'[i] = queue'[j] => i = j
    <3> SUFFICES ASSUME NEW i \in 1..Len(queue'), NEW j \in 1..Len(queue'), queue'[i] = queue'[j]
                 PROVE  i = j
      OBVIOUS
    <3>1. i < j \/ j < i \/ i = j
      OBVIOUS
    <3> QED
      BY <3>1, <2>1
  <2>3. ToSet(queue') \cup ToSet(batch') \subseteq ToSet(queue) \cup ToSet(batch)
    OBVIOUS
  <2>4. \A n \in ToSet(queue') \cup ToSet(batch') : User(n) \notin Told'
    BY <2>3, <1>1, <1>3 DEF Waiting
  <2>5. ToSet(queue') \cap ToSet(batch') = {}
    BY <1>1 DEF Waiting
  <2>6. ToSet(queue') \cup ToSet(batch') \subseteq 1..inputs'
    BY <2>3, <1>1, <1>2 DEF Waiting
  <2> QED
    BY <2>2, <2>4, <2>5, <2>6, <1>1, <1>2 DEF Waiting
<1>5. Saved'
  <2>1. \A n \in 1..inputs' : AccountedFor(n)'
    BY <1>1, <1>2 DEF Saved, AccountedFor
  <2>2. ~ broken' => \A n \in 1..inputs' : User(n) \in ToSet(mem') =>
          User(n) \in ToSet(disk') \cup summarised' \/ unsaved'.msgs = <<User(n)>>
    BY <1>1, <1>2, <1>3 DEF Saved
  <2>3. ~ broken' => \A m \in ToSet(disk') : m.kind = "user" => m \in ToSet(mem')
    BY <1>1, <1>2, <1>3 DEF Saved
  <2> QED
    BY <2>1, <2>2, <2>3 DEF Saved
<1>6. Ordered'
  <2>1. UsersInOrder(mem)' /\ UsersInOrder(disk)'
    BY FlushKeeps
  <2>2. \A n : Late(n) => n \in host' \/ User(n) \in resent'
    BY <1>3 DEF Late
  <2>3. Ascending(batch)'
    BY <2>2, <1>1 DEF Ordered, Ascending, Late
  <2>4. Ascending(queue)'
    <3> SUFFICES ASSUME NEW i \in 1..Len(queue'), NEW j \in 1..Len(queue'), i < j
                 PROVE  (queue'[j] \in host' \/ User(queue'[j]) \in resent') \/ queue'[i] <= queue'[j]
      BY DEF Ascending, Late
    <3>1. PICK a \in 1..Len(queue), b \in 1..Len(queue) : a < b /\ queue[a] = queue'[i] /\ queue[b] = queue'[j]
      OBVIOUS
    <3>2. Late(queue[b]) \/ queue[a] <= queue[b]
      BY <3>1, <1>1 DEF Ordered, Ascending
    <3> QED
      BY <3>1, <3>2, <2>2
  <2>5. \A m \in ToSet(mem'), n \in ToSet(batch') \cup ToSet(queue') :
           m.kind = "user" => (n \in host' \/ User(n) \in resent') \/ m.n <= n
    BY <2>2, <1>1, <1>2 DEF Ordered
  <2>6. \A m \in ToSet(batch'), n \in ToSet(queue') : (n \in host' \/ User(n) \in resent') \/ m <= n
    BY <2>2, <1>1, <1>2 DEF Ordered
  <2> QED
    BY <2>1, <2>3, <2>4, <2>5, <2>6 DEF Ordered, Late
<1> QED
  BY <1>4, <1>5, <1>6

LEMMA FlushStepKeeps ==
  ASSUME AgentInv, Flush
  PROVE  AgentInv'
<1>1. /\ TypeOK /\ Coherent /\ Pending /\ Places /\ Replying /\ Waiting
      /\ Pairs /\ Written /\ Repeated /\ Saved /\ Ordered
  BY DEF AgentInv
<1>2. /\ due > 0 /\ due' = due - 1 /\ FlushRows /\ WrittenTwice
      /\ UNCHANGED <<host, mem, unsaved, broken, pc, queue, batch, cancelled, stop, answered, inputs, replies,
                     incidents, dropped, summarised, lost, rolledBack>>
  BY DEF Flush, turn, counts
<1>3. pc # "idle"
  BY <1>1, <1>2 DEF Places, TypeOK
<1>4. FlushFrame
  BY <1>2, <1>3 DEF FlushFrame, Asking
<1>5. TypeOK'
  BY <1>1, SavingTyped
<1>6. Coherent' /\ Pairs' /\ Written' /\ Repeated'
  BY <1>4, FlushKeeps
<1>7. queue \in Seq(1..MaxInputs) /\ Len(queue) \in Nat
  BY <1>1, LenProperties DEF TypeOK
<1>8. Waiting' /\ Saved' /\ Ordered'
  BY <1>2, <1>4, <1>7, FlushWaits
<1>9. Pending'
  BY <1>1, <1>2 DEF Pending, LastOf, None
<1>10. Places'
  BY <1>1, <1>2, <1>3 DEF Places
<1>11. Replying'
  <2>1. Told' = Told
    BY <1>4, FlushDisk
  <2> QED
    BY <2>1, <1>1, <1>2 DEF Replying, Asking, LastOf, Left, Calling, Last
<1> QED
  BY <1>5, <1>6, <1>8, <1>9, <1>10, <1>11 DEF AgentInv

LEMMA FinishTurnKeeps ==
  ASSUME AgentInv, FinishTurn
  PROVE  AgentInv'
<1>1. /\ TypeOK /\ Coherent /\ Pending /\ Places /\ Replying /\ Waiting
      /\ Pairs /\ Written /\ Repeated /\ Saved /\ Ordered
  BY DEF AgentInv
<1> DEFINE kept == {i \in ToSet(queue) : Kept(i)}
<1>2. /\ pc \in {"ended", "failed"} /\ due = 0 /\ due' = due /\ FlushRows /\ WrittenTwice
      /\ queue' = Only(queue, kept) /\ lost' = lost \cup (ToSet(queue) \ ToSet(queue'))
      /\ pc' = AfterTurn /\ cancelled' = FALSE
      /\ UNCHANGED <<host, mem, unsaved, broken, batch, stop, inputs, replies, incidents, dropped, summarised,
                     rolledBack>>
  BY DEF FinishTurn, turn, counts
<1>3. pc' \in {"head", "idle"} /\ unsaved.op = "none" /\ batch = <<>>
  BY <1>1, <1>2 DEF AfterTurn, Places, Pending
<1>4. FlushFrame
  BY <1>2, <1>3 DEF FlushFrame, Asking
<1>5. TypeOK'
  BY <1>1, SavingTyped
<1>6. Coherent' /\ Pairs' /\ Written' /\ Repeated'
  BY <1>4, FlushKeeps
<1>7. \A i \in kept : pc = "failed" => i \in host
  BY DEF Kept
<1> HIDE DEF kept
<1>8. queue \in Seq(1..MaxInputs)
  BY <1>1 DEF TypeOK
<1>9. /\ queue' \in Seq(1..MaxInputs) /\ ToSet(queue') \subseteq ToSet(queue) \cap kept
      /\ \A i, j \in 1..Len(queue') : i < j =>
           \E a, b \in 1..Len(queue) : a < b /\ queue[a] = queue'[i] /\ queue[b] = queue'[j]
  <2>1. /\ Only(queue, kept) \in Seq(1..MaxInputs) /\ ToSet(Only(queue, kept)) \subseteq ToSet(queue) \cap kept
        /\ \A i, j \in 1..Len(Only(queue, kept)) : i < j =>
             \E a, b \in 1..Len(queue) : a < b /\ queue[a] = Only(queue, kept)[i] /\ queue[b] = Only(queue, kept)[j]
    BY ONLY <1>8, QueueKept
  <2> QED
    BY ONLY <2>1, <1>2
<1>10. Len(queue') \in Nat /\ (queue' = <<>> => ToSet(queue') = {})
  BY <1>9, ListHas
<1>11. Waiting' /\ Saved' /\ Ordered'
  <2>1. ToSet(queue) \subseteq ToSet(queue') \cup lost' /\ lost \subseteq lost' /\ batch' = batch
    BY <1>2
  <2> QED
    BY <2>1, <1>4, <1>9, <1>10, FlushWaits
<1>12. Pending'
  BY <1>1, <1>2 DEF Pending, LastOf, None
<1>13. Places'
  <2>1. pc' = "idle" => ToSet(queue') \subseteq host
    <3>1. CASE pc = "ended"
      BY <3>1, <1>2, <1>10 DEF AfterTurn
    <3>2. CASE pc = "failed"
      BY <3>2, <1>7, <1>9
    <3> QED
      BY <3>1, <3>2, <1>2
  <2> QED
    BY <2>1, <1>2, <1>3 DEF Places
<1>14. Replying'
  BY <1>3 DEF Replying, Asking
<1> QED
  BY <1>5, <1>6, <1>11, <1>12, <1>13, <1>14 DEF AgentInv


-----------------------------------------------------------------------------
(* A failed attempt is repeated.                                           *)

LEMMA ButLast ==
  ASSUME NEW S, NEW s \in Seq(S), s # <<>>
  PROVE  LET o == SubSeq(s, 1, Len(s) - 1) IN
         /\ o \in Seq(S) /\ Len(o) = Len(s) - 1 /\ Len(s) \in Nat
         /\ \A i \in 1..Len(o) : i \in 1..Len(s) /\ o[i] = s[i] /\ i # Len(s)
         /\ ToSet(s) = ToSet(o) \cup {LastOf(s)}
<1> DEFINE o == SubSeq(s, 1, Len(s) - 1)
<1>1. Len(s) \in Nat /\ Len(s) \in 1..Len(s) /\ \A i \in 1..Len(s) : s[i] \in S
  BY ListHas
<1>2. \A i \in 1..(Len(s) - 1) : s[i] \in S
  BY <1>1
<1>3. /\ o \in Seq(S) /\ Len(o) = IF 1 <= Len(s) - 1 THEN (Len(s) - 1) - 1 + 1 ELSE 0
      /\ \A i \in 1..((Len(s) - 1) - 1 + 1) : o[i] = s[1 + i - 1]
  <2>1. 1 \in Int /\ Len(s) - 1 \in Int
    BY <1>1
  <2> QED
    BY <2>1, <1>2, SubSeqProperties
<1> HIDE DEF o
<1>4. Len(o) = Len(s) - 1
  <2>1. Len(s) \in Nat /\ Len(s) >= 1
    BY <1>1
  <2>2. Len(o) = IF 1 <= Len(s) - 1 THEN (Len(s) - 1) - 1 + 1 ELSE 0
    BY <1>3
  <2>3. PICK k \in Nat : k = Len(s)
    BY <2>1
  <2>4. CASE 1 <= k - 1
    BY <2>2, <2>3, <2>4
  <2>5. CASE ~ (1 <= k - 1)
    <3>1. k = 1
      BY <2>1, <2>3, <2>5
    <3> QED
      BY <2>2, <2>3, <3>1
  <2> QED
    BY <2>4, <2>5
<1>5. ASSUME NEW i \in 1..Len(o) PROVE i \in 1..Len(s) /\ o[i] = s[i] /\ i # Len(s)
  <2>1. i \in 1..((Len(s) - 1) - 1 + 1) /\ 1 + i - 1 = i /\ i \in 1..Len(s) /\ i # Len(s)
    BY <1>1, <1>4
  <2> QED
    BY <2>1, <1>3
<1>6. \A i \in 1..Len(o) : o[i] \in ToSet(o)
  BY <1>3, ListHas
<1>7. \A x \in ToSet(o) : \E i \in 1..Len(o) : o[i] = x
  BY <1>3, ListHas
<1>8. /\ \A i \in 1..Len(s) : s[i] \in ToSet(s)
      /\ \A x \in ToSet(s) : \E i \in 1..Len(s) : s[i] = x
      /\ LastOf(s) \in ToSet(s)
  BY ListHas
<1>9. \A x \in ToSet(s) : x \in ToSet(o) \/ x = LastOf(s)
  <2> SUFFICES ASSUME NEW i \in 1..Len(s) PROVE s[i] \in ToSet(o) \/ s[i] = LastOf(s)
    BY <1>8
  <2>1. i = Len(s) \/ i \in 1..Len(o)
    BY <1>1, <1>4
  <2>2. i \in 1..Len(o) => s[i] = o[i]
    BY <1>5
  <2> QED
    BY <2>1, <2>2, <1>6 DEF LastOf
<1>10. ToSet(o) \subseteq ToSet(s)
  BY <1>5, <1>7, <1>8
<1>11. ToSet(s) = ToSet(o) \cup {LastOf(s)}
  BY <1>8, <1>9, <1>10
<1> QED
  BY <1>1, <1>3, <1>4, <1>5, <1>11 DEF o

\* The reply that a repeated attempt takes out of memory is in the file at most.
LEMMA TakenKeeps ==
  ASSUME AgentInv, unsaved = None, NEW x, NEW ms \in Seq(Messages), x.kind = "reply",
         ToSet(mem) = ToSet(ms) \cup {x}, Len(ms) <= Len(mem),
         \A i \in 1..Len(ms) : i \in 1..Len(mem) /\ ms[i] = mem[i],
         mem' = ms, dropped' = dropped \cup {x},
         UNCHANGED <<disk, unsaved, baseline, broken, host, queue, batch, inputs, replies, incidents, summarised,
                     twice, resent, lost, rolledBack>>,
         pc' = "backoff"
  PROVE  Coherent' /\ Pending' /\ Pairs' /\ Written' /\ Repeated' /\ Waiting' /\ Saved' /\ Ordered'
<1>1. /\ TypeOK /\ Coherent /\ Waiting /\ Pairs /\ Written /\ Repeated /\ Saved /\ Ordered
      /\ unsaved.op = "none" /\ unsaved'.op = "none"
  BY DEF AgentInv, None
<1>2. Len(mem) \in Nat /\ Len(ms) \in Nat /\ baseline \in Nat
  BY <1>1, LenProperties DEF TypeOK
<1>3. Told' \subseteq Told /\ ToSet(ms) \subseteq ToSet(mem)
  BY DEF Told
<1>4. Coherent'
  BY <1>1, <1>3 DEF Coherent, Formed
<1>5. Pending'
  BY <1>1 DEF Pending, None
<1>6. Pairs'
  <2>1. Paired(ms)
    <3> SUFFICES ASSUME NEW j \in 1..Len(ms), Whole(ms[j]) PROVE j > 1 /\ Answers(ms[j - 1], ms[j])
      BY DEF Paired
    <3>1. j > 1 /\ Answers(mem[j - 1], mem[j])
      BY <1>1 DEF Pairs, Paired
    <3>2. j - 1 \in 1..Len(ms)
      BY <3>1, <1>2
    <3> QED
      BY <3>1, <3>2
  <2>2. ~ Asking'
    BY DEF Asking
  <2>3. \A m \in ToSet(disk) : Whole(m) => m \in resent' \/ HasPair(m)'
    BY <1>1 DEF Pairs, HasPair
  <2> QED
    BY <2>1, <2>2, <2>3, <1>1 DEF Pairs
<1>7. Written'
  <2> SUFFICES ASSUME ~ broken, ~ rolledBack
               PROVE  /\ Len(ms) <= baseline
                      /\ \A i \in 1..Len(ms) : ~ Stubbed(ms[i]) => ms[i] \in ToSet(disk)
                      /\ \A i, j \in 1..Len(ms) : i < j /\ ~ Stubbed(ms[i]) /\ ~ Stubbed(ms[j]) => Before(ms[i], ms[j])
                      /\ \A m \in ToSet(disk) : Stubbed(m) \/ m \in ToSet(ms) \cup dropped' \cup resent
    BY <1>1, <1>2 DEF Written, Settled, Before
  <2>1. /\ Len(mem) <= baseline
        /\ \A i \in 1..Len(mem) : ~ Stubbed(mem[i]) => mem[i] \in ToSet(disk)
        /\ \A i, j \in 1..Len(mem) : i < j /\ ~ Stubbed(mem[i]) /\ ~ Stubbed(mem[j]) => Before(mem[i], mem[j])
        /\ \A m \in ToSet(disk) : Stubbed(m) \/ m \in ToSet(mem) \cup dropped \cup resent
    BY <1>1, <1>2 DEF Written, Settled
  <2> QED
    BY <2>1, <1>2
<1>8. Repeated'
  <2>1. \A m : Twofold(m)' <=> Twofold(m)
    BY DEF Twofold
  <2>2. Single(disk)'
    BY <2>1, <1>1 DEF Repeated, Single
  <2>3. \A i, j \in 1..Len(ms) : i < j /\ ms[i] = ms[j] => Twofold(ms[i])
    BY <1>1 DEF Repeated, Single
  <2>4. Single(mem)'
    BY <2>1, <2>3 DEF Single
  <2> QED
    BY <2>2, <2>4, <1>1 DEF Repeated
<1>9. Waiting'
  BY <1>1, <1>3 DEF Waiting
<1>10. \A n : User(n) # x
  BY DEF User, Msg
<1>11. Saved'
  <2>1. \A n \in 1..inputs : AccountedFor(n)'
    BY <1>1, <1>10 DEF Saved, AccountedFor
  <2>2. ~ broken => \A m \in ToSet(disk) : m.kind = "user" => m \in ToSet(ms)
    BY <1>1 DEF Saved
  <2> QED
    BY <2>1, <2>2, <1>1, <1>3 DEF Saved
<1>12. Ordered'
  <2>1. \A n : Late(n)' <=> Late(n)
    BY DEF Late
  <2>2. UsersInOrder(disk)' /\ Ascending(batch)' /\ Ascending(queue)'
    BY <2>1, <1>1 DEF Ordered, UsersInOrder, Ascending
  <2>3. \A i, j \in 1..Len(ms) : i < j /\ ms[i].kind = "user" /\ ms[j].kind = "user" =>
           Late(ms[j].n) \/ ms[i].n <= ms[j].n
    BY <1>1 DEF Ordered, UsersInOrder
  <2>4. UsersInOrder(mem)'
    BY <2>3 DEF UsersInOrder, Late
  <2>5. \A m \in ToSet(ms), n \in ToSet(batch) \cup ToSet(queue) : m.kind = "user" => Late(n) \/ m.n <= n
    BY <1>1, <1>3 DEF Ordered
  <2> QED
    BY <2>1, <2>2, <2>4, <2>5, <1>1 DEF Ordered
<1> QED
  BY <1>4, <1>5, <1>6, <1>7, <1>8, <1>9, <1>11, <1>12

LEMMA RetryKeeps ==
  ASSUME AgentInv, Retry
  PROVE  AgentInv'
<1>1. /\ TypeOK /\ Coherent /\ Pending /\ Places /\ Replying /\ Waiting
      /\ Pairs /\ Written /\ Repeated /\ Saved /\ Ordered
  BY DEF AgentInv
<1>2. /\ pc = "replied" /\ unsaved = None /\ pc' = "backoff" /\ mem' = TakenOut
      /\ dropped' = IF stop = "failed" THEN dropped \cup {Last(mem)} ELSE dropped
      /\ UNCHANGED <<host, disk, baseline, broken, unsaved, due, queue, batch, inputs, replies, incidents, summarised,
                     twice, resent, lost, rolledBack>>
  BY DEF Retry, Free, file, counts
<1>3. TypeOK'
  BY <1>1, RewritingTyped
<1>4. unsaved.op = "none" /\ mem \in Seq(Messages)
  BY <1>1, <1>2 DEF None, TypeOK
<1>5. Places'
  BY <1>1, <1>2, <1>4 DEF Places
<1>6. Replying'
  BY <1>2 DEF Replying, Asking
<1>7. CASE stop = "failed"
  <2>1. mem # <<>> /\ LastOf(mem).kind = "reply"
    BY <1>1, <1>2, <1>7 DEF Replying
  <2>2. mem' = SubSeq(mem, 1, Len(mem) - 1) /\ dropped' = dropped \cup {LastOf(mem)}
    BY <1>2, <1>7 DEF TakenOut, Last, LastOf
  <2>3. PICK ms : ms = SubSeq(mem, 1, Len(mem) - 1)
    OBVIOUS
  <2>4. /\ ms \in Seq(Messages) /\ Len(ms) = Len(mem) - 1 /\ Len(mem) \in Nat
        /\ \A i \in 1..Len(ms) : i \in 1..Len(mem) /\ ms[i] = mem[i]
        /\ ToSet(mem) = ToSet(ms) \cup {LastOf(mem)}
    BY <2>1, <2>3, <1>4, ButLast
  <2>5. Len(ms) <= Len(mem)
    BY <2>4
  <2>6. PICK x : x = LastOf(mem)
    OBVIOUS
  <2>7. /\ ms \in Seq(Messages) /\ x.kind = "reply" /\ ToSet(mem) = ToSet(ms) \cup {x}
        /\ mem' = ms /\ dropped' = dropped \cup {x}
    BY <2>1, <2>2, <2>3, <2>4, <2>6
  <2>8. Coherent' /\ Pending' /\ Pairs' /\ Written' /\ Repeated' /\ Waiting' /\ Saved' /\ Ordered'
    BY <2>4, <2>5, <2>7, <1>2, TakenKeeps
  <2> QED
    BY <2>8, <1>3, <1>5, <1>6 DEF AgentInv
<1>8. CASE stop # "failed"
  <2>1. mem' = mem /\ dropped' = dropped
    BY <1>2, <1>8 DEF TakenOut
  <2>2. Told' = Told
    BY <2>1, <1>2 DEF Told
  <2>3. Coherent' /\ Pending' /\ Pairs' /\ Written' /\ Repeated'
    <3>1. UNCHANGED Transcript /\ UNCHANGED Records /\ Counting /\ ~ Asking'
      BY <2>1, <1>1, <1>2 DEF Transcript, Records, Counting, TypeOK, Asking
    <3> QED
      BY <3>1, <1>1, <1>4, QuietKeeps
  <2>4. Waiting'
    BY <2>2, <1>1, <1>2 DEF Waiting
  <2>5. Saved'
    BY <2>1, <1>1, <1>2, <1>4 DEF Saved, AccountedFor
  <2>6. Ordered'
    BY <2>1, <1>1, <1>2 DEF Ordered, UsersInOrder, Ascending, Late
  <2> QED
    BY <2>3, <2>4, <2>5, <2>6, <1>3, <1>5, <1>6 DEF AgentInv
<1> QED
  BY <1>7, <1>8


-----------------------------------------------------------------------------
(* Compactions.                                                            *)

\* What a compaction leaves is as sound as the transcript it is made of.
LEMMA CompactedSound ==
  ASSUME AgentInv, CanCompact
  PROVE  /\ Compacted \in Seq(Messages) /\ Compacted # <<>> /\ Len(Compacted) \in Nat
         /\ Len(Compacted) <= Len(mem) + 1
         /\ Summary(incidents + 1) \notin Told
         /\ \A m \in ToSet(Compacted) : m \in ToSet(mem) \/ m = Summary(incidents + 1)
         /\ Paired(Compacted) /\ Single(Compacted) /\ UsersInOrder(Compacted)
<1>1. TypeOK /\ Coherent /\ Pairs /\ Repeated /\ Ordered
  BY DEF AgentInv
<1>2. /\ mem \in Seq(Messages) /\ KeepTail \in Nat /\ incidents \in Nat /\ mem # <<>> /\ Paired(mem)
      /\ Tailed < Len(Talk) /\ incidents' = incidents + 1
  BY <1>1, Bounds DEF TypeOK, Pairs, CanCompact, Incident
<1>3. PICK C : C = Compacted
  OBVIOUS
<1>4. PICK s : s = Summary(incidents + 1)
  OBVIOUS
<1>5. s.kind = "summary" /\ s.n = incidents + 1 /\ s.calls = {} /\ s.res = {}
  BY <1>4 DEF Summary, Msg
<1>6. s \notin Told
  BY <1>1, <1>2, <1>5 DEF Coherent, Formed
<1>8. /\ C \in Seq(Messages) /\ C # <<>> /\ Len(C) <= Len(mem) + 1
      /\ \A m \in ToSet(C) : m \in ToSet(mem) \/ m = s
      /\ Paired(C)
      /\ \A i, j \in 1..Len(C) : i < j =>
           \/ \E p, q \in 1..Len(mem) : p < q /\ mem[p] = C[i] /\ mem[q] = C[j]
           \/ C[i].kind = "context" /\ C[j].kind # "context"
           \/ C[i] = s /\ C[j] \in ToSet(mem)
  BY <1>2, <1>3, <1>4, CompactedIs
<1>9. Len(C) \in Nat
  BY <1>8, LenProperties
<1>10. ToSet(mem) \subseteq Told
  BY DEF Told
<1>11. Single(C)
  <2> SUFFICES ASSUME NEW i \in 1..Len(C), NEW j \in 1..Len(C), i < j, C[i] = C[j]
               PROVE  Twofold(C[i])
    BY DEF Single
  <2>1. CASE \E p, q \in 1..Len(mem) : p < q /\ mem[p] = C[i] /\ mem[q] = C[j]
    BY <2>1, <1>1 DEF Repeated, Single
  <2>2. CASE C[i] = s /\ C[j] \in ToSet(mem)
    BY <2>2, <1>6, <1>10
  <2> QED
    BY <2>1, <2>2, <1>8
<1>12. UsersInOrder(C)
  <2> SUFFICES ASSUME NEW i \in 1..Len(C), NEW j \in 1..Len(C), i < j, C[i].kind = "user", C[j].kind = "user"
               PROVE  Late(C[j].n) \/ C[i].n <= C[j].n
    BY DEF UsersInOrder
  <2>1. PICK p \in 1..Len(mem), q \in 1..Len(mem) : p < q /\ mem[p] = C[i] /\ mem[q] = C[j]
    BY <1>5, <1>8
  <2> QED
    BY <2>1, <1>1 DEF Ordered, UsersInOrder
<1> QED
  BY <1>3, <1>4, <1>6, <1>8, <1>9, <1>11, <1>12

LEMMA CompactKeeps ==
  ASSUME AgentInv, Compact
  PROVE  AgentInv'
<1>1. /\ TypeOK /\ Coherent /\ Pending /\ Places /\ Replying /\ Waiting
      /\ Pairs /\ Written /\ Repeated /\ Saved /\ Ordered
  BY DEF AgentInv
<1>2. PICK C, s : C = Compacted /\ s = Summary(incidents + 1)
  OBVIOUS
<1>3. /\ C \in Seq(Messages) /\ C # <<>> /\ Len(C) \in Nat /\ Len(C) <= Len(mem) + 1
      /\ s \notin Told /\ (\A m \in ToSet(C) : m \in ToSet(mem) \/ m = s)
      /\ Paired(C) /\ Single(C) /\ UsersInOrder(C)
  BY <1>2, CompactedSound DEF Compact
<1>4. /\ mem' = C /\ unsaved'.op = "replace" /\ unsaved'.msgs = C /\ unsaved = None /\ pc = "idle" /\ pc' = "idle"
      /\ summarised' = summarised \cup (ToSet(mem) \ ToSet(C)) /\ incidents' = incidents + 1 /\ batch = <<>>
      /\ UNCHANGED <<host, disk, baseline, broken, due, queue, batch, inputs, replies, dropped, twice, resent,
                     lost, rolledBack>>
  BY <1>2 DEF Compact, CanCompact, Free, Incident, Replace, file
<1>5. TypeOK'
  BY <1>1, RewritingTyped
<1>6. unsaved.op = "none" /\ inputs \in Nat /\ replies \in Nat /\ incidents \in Nat /\ Len(mem) \in Nat /\ baseline \in Nat
  BY <1>1, <1>4, LenProperties DEF None, TypeOK
<1>7. s.kind = "summary" /\ (\A n : User(n) # s)
  BY <1>2 DEF Summary, User, Msg
<1>8. Told' \subseteq Told \cup {s}
  BY <1>3, <1>4 DEF Told
<1>9. Coherent'
  <2>1. Counting
    BY <1>4, <1>6 DEF Counting
  <2>2. \A x \in Told : x \in Messages /\ Formed(x)
    BY <1>1, ToldTyped DEF Coherent
  <2>3. \A x \in Told : Formed(x)'
    BY <2>1, <2>2, <1>1, FormedStays
  <2>4. Formed(s)'
    <3>1. s.n <= incidents'
      BY <1>2, <1>4, <1>6 DEF Summary, Msg
    <3> QED
      BY <3>1, <1>2 DEF Formed, Summary, Msg
  <2>5. \A x \in Told' : Formed(x)'
    BY <2>3, <2>4, <1>8
  <2> QED
    BY <2>5, <1>1, <1>7, <1>8 DEF Coherent, IsResults
<1>10. Pending' /\ Places' /\ Replying'
  BY <1>1, <1>3, <1>4 DEF Pending, Places, Replying, Asking
<1>11. Waiting'
  BY <1>1, <1>4, <1>7, <1>8 DEF Waiting
<1>12. Pairs'
  <2>1. ~ Asking'
    BY <1>4 DEF Asking
  <2> QED
    BY <2>1, <1>1, <1>3, <1>4 DEF Pairs, HasPair
<1>13. Written'
  <2> SUFFICES ASSUME ~ broken, ~ rolledBack PROVE Len(C) <= baseline + 1
    BY <1>4 DEF Written, Settled
  <2>1. Len(mem) <= baseline + 0
    BY <1>1, <1>6 DEF Written
  <2> QED
    BY <2>1, <1>3, <1>6
<1>14. Repeated'
  <2>1. \A m : Twofold(m)' <=> Twofold(m)
    BY <1>4 DEF Twofold
  <2>2. Single(mem)' /\ Single(disk)'
    BY <2>1, <1>1, <1>3, <1>4 DEF Repeated, Single
  <2> QED
    BY <2>2, <1>4 DEF Repeated
<1>15. Saved'
  <2>1. \A n \in 1..inputs : AccountedFor(n)'
    BY <1>1, <1>4 DEF Saved, AccountedFor
  <2>2. \A n : User(n) \in ToSet(C) => User(n) \in ToSet(mem)
    BY <1>3, <1>7
  <2>3. \A n : unsaved.msgs # <<User(n)>>
    BY <1>4 DEF None
  <2>4. ~ broken => \A n \in 1..inputs : User(n) \in ToSet(C) => User(n) \in ToSet(disk) \cup summarised
    BY <2>2, <2>3, <1>1 DEF Saved
  <2> QED
    BY <2>1, <2>4, <1>4 DEF Saved
<1>16. Ordered'
  <2>1. \A n : Late(n)' <=> Late(n)
    BY <1>4 DEF Late
  <2>2. UsersInOrder(mem)' /\ UsersInOrder(disk)' /\ Ascending(batch)' /\ Ascending(queue)'
    BY <2>1, <1>1, <1>3, <1>4 DEF Ordered, UsersInOrder, Ascending
  <2>3. \A m \in ToSet(C), n \in ToSet(batch) \cup ToSet(queue) : m.kind = "user" => Late(n) \/ m.n <= n
    BY <1>1, <1>3, <1>7 DEF Ordered
  <2> QED
    BY <2>1, <2>2, <2>3, <1>1, <1>4 DEF Ordered
<1> QED
  BY <1>5, <1>9, <1>10, <1>11, <1>12, <1>13, <1>14, <1>15, <1>16 DEF AgentInv

LEMMA RollBackKeeps ==
  ASSUME AgentInv, RollBack
  PROVE  AgentInv'
<1>1. /\ TypeOK /\ Coherent /\ Pending /\ Places /\ Replying /\ Waiting
      /\ Pairs /\ Written /\ Repeated /\ Saved /\ Ordered
  BY DEF AgentInv
<1>2. PICK C, s : C = Compacted /\ s = Summary(incidents + 1)
  OBVIOUS
<1>3. /\ C \in Seq(Messages) /\ Len(C) \in Nat
      /\ s \notin Told /\ (\A m \in ToSet(C) : m \in ToSet(mem) \/ m = s)
      /\ Paired(C) /\ Single(C) /\ UsersInOrder(C)
  BY <1>2, CompactedSound DEF RollBack
<1>4. /\ disk' = (IF broken THEN disk ELSE C) /\ rolledBack' = (rolledBack \/ ~ broken)
      /\ unsaved = None /\ pc = "idle" /\ pc' = "idle"
      /\ summarised' = summarised \cup (ToSet(mem) \ ToSet(C)) /\ incidents' = incidents + 1 /\ batch = <<>>
      /\ (broken => baseline' = baseline)
      /\ UNCHANGED <<host, mem, unsaved, broken, due, queue, batch, inputs, replies, dropped, twice, resent, lost>>
  BY <1>2 DEF RollBack, CanCompact, Free, Incident
<1>5. TypeOK'
  BY <1>1, RewritingTyped
<1>6. unsaved.op = "none" /\ inputs \in Nat /\ replies \in Nat /\ incidents \in Nat
  BY <1>1, <1>4 DEF None, TypeOK
<1>7. s.kind = "summary" /\ (\A n : User(n) # s)
  BY <1>2 DEF Summary, User, Msg
<1>8. Told' \subseteq Told \cup {s}
  BY <1>3, <1>4 DEF Told
<1>9. Coherent'
  <2>1. Counting
    BY <1>4, <1>6 DEF Counting
  <2>2. \A x \in Told : x \in Messages /\ Formed(x)
    BY <1>1, ToldTyped DEF Coherent
  <2>3. \A x \in Told : Formed(x)'
    BY <2>1, <2>2, <1>1, FormedStays
  <2>4. Formed(s)'
    <3>1. s.n <= incidents'
      BY <1>2, <1>4, <1>6 DEF Summary, Msg
    <3> QED
      BY <3>1, <1>2 DEF Formed, Summary, Msg
  <2>5. \A x \in Told' : Formed(x)'
    BY <2>3, <2>4, <1>8
  <2> QED
    BY <2>5, <1>1, <1>7, <1>8 DEF Coherent, IsResults
<1>10. Pending' /\ Places' /\ Replying'
  BY <1>1, <1>4, <1>6 DEF Pending, Places, Replying, Asking, LastOf
<1>11. Waiting'
  BY <1>1, <1>4, <1>7, <1>8 DEF Waiting
<1>12. \A m : Twofold(m)' <=> Twofold(m)
  BY <1>4 DEF Twofold
<1>13. Repeated'
  <2>1. Single(mem)' /\ Single(disk)'
    BY <1>1, <1>3, <1>4, <1>12 DEF Repeated, Single
  <2> QED
    BY <2>1, <1>4, <1>6 DEF Repeated
<1>14. Pairs'
  <2>1. ~ Asking'
    BY <1>4 DEF Asking
  <2>2. \A m \in ToSet(disk') : Whole(m) => m \in resent \/ HasPair(m)'
    <3>1. CASE broken
      BY <3>1, <1>1, <1>4 DEF Pairs, HasPair
    <3>2. CASE ~ broken
      <4> SUFFICES ASSUME NEW m \in ToSet(C), Whole(m)
                   PROVE  \E i \in 1..(Len(C) - 1) : C[i + 1] = m /\ Answers(C[i], m)
        BY <3>2, <1>4 DEF HasPair
      <4>1. PICK j \in 1..Len(C) : C[j] = m
        BY <1>3, ListHas
      <4>2. j > 1 /\ Answers(C[j - 1], C[j])
        BY <4>1, <1>3 DEF Paired
      <4>3. j - 1 \in 1..(Len(C) - 1) /\ (j - 1) + 1 = j
        BY <4>2, <1>3
      <4> QED
        BY <4>1, <4>2, <4>3
    <3> QED
      BY <3>1, <3>2
  <2> QED
    BY <2>1, <2>2, <1>1, <1>4, <1>6 DEF Pairs
<1>15. Written'
  BY <1>1, <1>4 DEF Written, Settled, Before
<1>16. Saved'
  <2>1. \A n \in 1..inputs : AccountedFor(n)'
    BY <1>1, <1>4 DEF Saved, AccountedFor
  <2>2. \A n : unsaved.msgs # <<User(n)>>
    BY <1>4 DEF None
  <2>3. ~ broken => \A n \in 1..inputs : User(n) \in ToSet(mem) => User(n) \in ToSet(disk') \cup summarised'
    BY <1>4
  <2>4. ~ broken => \A m \in ToSet(disk') : m.kind = "user" => m \in ToSet(mem)
    BY <1>3, <1>4, <1>7
  <2> QED
    BY <2>1, <2>3, <2>4, <1>4 DEF Saved
<1>17. Ordered'
  <2>1. \A n : Late(n)' <=> Late(n)
    BY <1>4 DEF Late
  <2>2. UsersInOrder(mem)' /\ UsersInOrder(disk)' /\ Ascending(batch)' /\ Ascending(queue)'
    BY <2>1, <1>1, <1>3, <1>4 DEF Ordered, UsersInOrder, Ascending
  <2> QED
    BY <2>1, <2>2, <1>1, <1>4 DEF Ordered
<1> QED
  BY <1>5, <1>9, <1>10, <1>11, <1>13, <1>14, <1>15, <1>16, <1>17 DEF AgentInv


-----------------------------------------------------------------------------
(* A later process resumes the session.                                    *)

\* What the repair makes of a file that the loop has written.
LEMMA ResumedIs ==
  ASSUME AgentInv
  PROVE  /\ Sound(disk) /\ Repair(disk) \in Seq(Messages) /\ Len(Repair(disk)) \in Nat
         /\ \A m \in ToSet(Repair(disk)) : ~ IsResults(m) => m \in ToSet(disk)
         /\ \A m \in ToSet(Repair(disk)) : IsResults(m) =>
              \E x \in ToSet(disk) : CallsTools(x) /\ m.n = x.n /\ m.calls = {} /\ Answered(m) = x.calls
         /\ \A m \in ToSet(Repair(disk)) : ~ Stubbed(m) => m \in ToSet(disk)
         /\ \A m \in ToSet(disk) : ~ IsResults(m) => m \in ToSet(Repair(disk))
         /\ \A m \in ToSet(disk) : ~ Stubbed(m) => m \in ToSet(Repair(disk)) \cup resent
         /\ Paired(Repair(disk))
<1>1. TypeOK /\ Coherent /\ Pairs
  BY DEF AgentInv
<1>2. disk \in Seq(Messages) /\ Len(disk) \in Nat /\ \A i \in 1..Len(disk) : disk[i] \in ToSet(disk)
  BY <1>1, ListHas DEF TypeOK
<1>3. Sound(disk)
  BY <1>1 DEF Coherent, Formed, Told, Sound, IsResults
<1>4. PICK R : R = Repair(disk)
  OBVIOUS
<1>5. R \in Seq(Messages) /\ Len(R) \in Nat
  BY <1>2, <1>4, RepairPicks
<1>6. /\ \A m \in ToSet(R) :
           \/ ~ IsResults(m) /\ m \in ToSet(disk)
           \/ \E i \in 1..Len(disk) : CallsTools(disk[i]) /\ m = Completed(disk[i], AnswerIn(disk, i))
      /\ \A m \in ToSet(disk) : ~ IsResults(m) => m \in ToSet(R)
      /\ \A i \in 1..Len(disk) : CallsTools(disk[i]) => Completed(disk[i], AnswerIn(disk, i)) \in ToSet(R)
  BY <1>2, <1>4, RepairHas
<1>7. ASSUME NEW i \in 1..Len(disk)
      PROVE  /\ IsResults(Completed(disk[i], AnswerIn(disk, i))) /\ Completed(disk[i], AnswerIn(disk, i)).n = disk[i].n
             /\ Completed(disk[i], AnswerIn(disk, i)).calls = {}
             /\ Answered(Completed(disk[i], AnswerIn(disk, i))) = disk[i].calls
  BY CompletedIs
<1>8. \A m \in ToSet(R) : ~ IsResults(m) => m \in ToSet(disk)
  BY <1>6, <1>7
<1>9. ASSUME NEW m \in ToSet(R), IsResults(m)
      PROVE  \E x \in ToSet(disk) : CallsTools(x) /\ m.n = x.n /\ m.calls = {} /\ Answered(m) = x.calls
  <2>1. PICK i \in 1..Len(disk) : CallsTools(disk[i]) /\ m = Completed(disk[i], AnswerIn(disk, i))
    BY <1>6, <1>9
  <2> QED
    BY <2>1, <1>2, <1>7
<1>10. ASSUME NEW m \in ToSet(R), ~ Stubbed(m) PROVE m \in ToSet(disk)
  <2>1. CASE ~ IsResults(m)
    BY <2>1, <1>8
  <2>2. CASE IsResults(m)
    <3>1. PICK i \in 1..Len(disk) : CallsTools(disk[i]) /\ m = Completed(disk[i], AnswerIn(disk, i))
      BY <2>2, <1>6
    <3>2. i + 1 \in 1..Len(disk) /\ m = disk[i + 1]
      BY <3>1, <1>2, <1>3, <1>10, WholeStood
    <3> QED
      BY <3>2, <1>2
  <2> QED
    BY <2>1, <2>2
<1>11. ASSUME NEW m \in ToSet(disk), ~ Stubbed(m) PROVE m \in ToSet(R) \cup resent
  <2>1. CASE ~ IsResults(m)
    BY <2>1, <1>6
  <2>2. CASE IsResults(m) /\ m \notin resent
    <3>1. PICK i \in 1..(Len(disk) - 1) : disk[i + 1] = m /\ Answers(disk[i], m)
      BY <2>2, <1>1, <1>11 DEF Pairs, Whole, HasPair
    <3>2. i \in 1..Len(disk) /\ i < Len(disk) /\ i + 1 \in 1..Len(disk)
      BY <1>2
    <3>3. CallsTools(disk[i]) /\ IsResults(disk[i + 1]) /\ disk[i + 1].n = disk[i].n
      BY <2>2, <3>1 DEF Answers
    <3>4. disk[i + 1].calls = {} /\ Answered(disk[i + 1]) = disk[i].calls
      BY <3>2, <3>3, <1>2, <1>3 DEF Sound, CallsTools
    <3>5. Completed(disk[i], AnswerIn(disk, i)) = disk[i + 1]
      BY <3>2, <3>3, <3>4, <1>2, CompletedKeeps
    <3> QED
      BY <3>1, <3>2, <3>3, <3>5, <1>6
  <2> QED
    BY <2>1, <2>2
<1>12. Paired(R)
  <2> SUFFICES ASSUME NEW k \in 1..Len(R), Whole(R[k]) PROVE k > 1 /\ Answers(R[k - 1], R[k])
    BY DEF Paired
  <2>1. IsResults(Repair(disk)[k])
    BY <1>4 DEF Whole
  <2>2. /\ k - 1 \in 1..Len(Repair(disk))
        /\ \E i \in 1..Len(disk) : /\ disk[i] = Repair(disk)[k - 1] /\ CallsTools(disk[i])
                                   /\ Repair(disk)[k] = Completed(disk[i], AnswerIn(disk, i))
    BY <2>1, <1>2, <1>4, RepairNeighbours
  <2>3. k > 1
    BY <2>2, <1>4, <1>5
  <2> QED
    BY <2>2, <2>3, <1>4, <1>7 DEF Answers
<1> QED
  BY <1>3, <1>4, <1>5, <1>6, <1>8, <1>9, <1>10, <1>11, <1>12

LEMMA RestartKeeps ==
  ASSUME AgentInv, Restart
  PROVE  AgentInv'
<1>1. /\ TypeOK /\ Coherent /\ Pending /\ Places /\ Replying /\ Waiting
      /\ Pairs /\ Written /\ Repeated /\ Saved /\ Ordered
  BY DEF AgentInv
<1>2. PICK R : R = Repair(disk)
  OBVIOUS
<1>3. /\ R \in Seq(Messages) /\ Len(R) \in Nat
      /\ \A m \in ToSet(R) : ~ IsResults(m) => m \in ToSet(disk)
      /\ \A m \in ToSet(R) : IsResults(m) =>
           \E x \in ToSet(disk) : CallsTools(x) /\ m.n = x.n /\ m.calls = {} /\ Answered(m) = x.calls
      /\ \A m \in ToSet(R) : ~ Stubbed(m) => m \in ToSet(disk)
      /\ \A m \in ToSet(disk) : ~ IsResults(m) => m \in ToSet(R)
      /\ \A m \in ToSet(disk) : ~ Stubbed(m) => m \in ToSet(R) \cup resent
      /\ Paired(R)
  BY <1>2, ResumedIs
<1>4. \A j, k \in 1..Len(R) : j < k /\ ~ Stubbed(R[j]) /\ ~ Stubbed(R[k]) =>
        \E p, q \in 1..Len(disk) : p < q /\ disk[p] = R[j] /\ disk[q] = R[k]
  <2>1. disk \in Seq(Messages) /\ Sound(disk)
    BY <1>1, ResumedIs DEF TypeOK
  <2> QED
    BY <2>1, <1>2, RepairOrder
<1>5. /\ mem' = R /\ baseline' = Len(R) /\ unsaved' = None /\ broken' = FALSE /\ due' = 0 /\ pc' = "idle"
      /\ queue' = <<>> /\ batch' = <<>> /\ lost' = lost \cup AtRisk /\ dropped' = {} /\ rolledBack' = FALSE
      /\ incidents' = incidents + 1
      /\ UNCHANGED <<host, disk, inputs, replies, summarised, twice, resent>>
  BY <1>2 DEF Restart, Return, Incident
<1>6. TypeOK'
  BY <1>1, RewritingTyped
<1>7. unsaved'.op = "none" /\ unsaved'.msgs = <<>> /\ inputs \in Nat /\ replies \in Nat /\ incidents \in Nat
  BY <1>1, <1>5 DEF None, TypeOK
<1>8. <<>> \in Seq(1..MaxInputs) /\ ToSet(<<>>) = {} /\ Len(<<>>) = 0
  <2>1. <<>> \in Seq(1..MaxInputs)
    BY EmptySeq
  <2> QED
    BY <2>1, ListHas
<1>9. ToSet(queue') = {} /\ ToSet(batch') = {} /\ Len(queue') = 0 /\ Len(batch') = 0
  BY <1>5, <1>8
<1>10. Told' = ToSet(R) \cup ToSet(disk) /\ ToSet(disk) \subseteq Told
  BY <1>5 DEF Told
<1>11. \A n : User(n).kind = "user" /\ User(n).n = n /\ ~ IsResults(User(n)) /\ ~ Stubbed(User(n))
  BY DEF User, Msg, IsResults, Stubbed
<1>12. Coherent'
  <2>1. Counting
    BY <1>5, <1>7 DEF Counting
  <2>2. \A x \in ToSet(disk) : x \in Messages /\ Formed(x)
    BY <1>1, <1>10, ToldTyped DEF Coherent
  <2>3. \A x \in ToSet(disk) : Formed(x)'
    BY <2>1, <2>2, <1>1, FormedStays
  <2>4. ASSUME NEW m \in ToSet(R), IsResults(m) PROVE Formed(m)'
    <3>1. PICK x \in ToSet(disk) : CallsTools(x) /\ m.n = x.n /\ m.calls = {}
      BY <2>4, <1>3
    <3>2. x.n <= replies'
      BY <3>1, <2>3 DEF Formed, CallsTools
    <3> QED
      BY <3>1, <3>2, <2>4 DEF Formed, IsResults
  <2>5. \A m \in Told' : Formed(m)'
    BY <2>3, <2>4, <1>3, <1>10
  <2>6. \A m \in Told' : m.kind = "reply" => m \in ToSet(disk)
    BY <1>3, <1>10 DEF IsResults
  <2>7. \A x, y \in Told' : x.kind = "reply" /\ y.kind = "reply" /\ x.n = y.n => x = y
    BY <2>6, <1>1, <1>10 DEF Coherent
  <2>8. ASSUME NEW x \in Told', NEW y \in Told', x.kind = "reply", IsResults(y), x.n = y.n
        PROVE  Answered(y) = x.calls
    <3>1. x \in ToSet(disk)
      BY <2>6, <2>8
    <3>2. CASE y \in ToSet(disk)
      BY <3>1, <3>2, <2>8, <1>1, <1>10 DEF Coherent
    <3>3. CASE y \in ToSet(R)
      <4>1. PICK z \in ToSet(disk) : CallsTools(z) /\ y.n = z.n /\ Answered(y) = z.calls
        BY <2>8, <3>3, <1>3
      <4>2. z = x
        BY <3>1, <4>1, <2>8, <1>1, <1>10 DEF Coherent, CallsTools
      <4> QED
        BY <4>1, <4>2
    <3> QED
      BY <3>2, <3>3, <1>10
  <2> QED
    BY <2>5, <2>7, <2>8 DEF Coherent
<1>13. Pending' /\ Places' /\ Replying'
  BY <1>5, <1>7, <1>9 DEF Pending, Places, Replying, Asking, None
<1>14. Waiting'
  BY <1>1, <1>5, <1>9 DEF Waiting
<1>15. Pairs'
  <2>1. ~ Asking'
    BY <1>5 DEF Asking
  <2> QED
    BY <2>1, <1>1, <1>3, <1>5, <1>7 DEF Pairs, HasPair
<1>16. \A i \in 1..Len(R) : R[i] \in ToSet(R)
  BY <1>3, ListHas
<1>17. Written'
  <2>1. Len(R) <= Len(R) + 0
    BY <1>3
  <2>2. \A i \in 1..Len(R) : ~ Stubbed(R[i]) => R[i] \in ToSet(disk)
    BY <1>3, <1>16
  <2>3. \A m \in ToSet(disk) : Stubbed(m) \/ m \in ToSet(R) \cup {} \cup resent
    BY <1>3
  <2> QED
    BY <2>1, <2>2, <2>3, <1>4, <1>5, <1>7 DEF Written, Before
<1>18. Repeated'
  <2>1. \A m : Twofold(m)' <=> Twofold(m)
    BY <1>5 DEF Twofold
  <2>2. Single(disk)'
    BY <2>1, <1>1, <1>5 DEF Repeated, Single
  <2>3. ASSUME NEW i \in 1..Len(R), NEW j \in 1..Len(R), i < j, R[i] = R[j] PROVE Twofold(R[i])
    <3>1. CASE Stubbed(R[i])
      BY <3>1 DEF Twofold
    <3>2. CASE ~ Stubbed(R[i])
      <4>1. PICK p \in 1..Len(disk), q \in 1..Len(disk) : p < q /\ disk[p] = R[i] /\ disk[q] = R[j]
        BY <2>3, <3>2, <1>4
      <4> QED
        BY <2>3, <4>1, <1>1 DEF Repeated, Single
    <3> QED
      BY <3>1, <3>2
  <2>4. Single(mem)'
    BY <2>1, <2>3, <1>5 DEF Single
  <2> QED
    BY <2>2, <2>4, <1>7 DEF Repeated
<1>19. Saved'
  <2>1. ASSUME NEW n \in 1..inputs PROVE n \in lost' \/ User(n) \in ToSet(R) \cup summarised
    <3>1. n \in ToSet(queue) \cup ToSet(batch) \cup lost \/ User(n) \in ToSet(mem) \cup summarised
      BY <1>1 DEF Saved, AccountedFor
    <3>2. CASE n \in ToSet(queue) \cup ToSet(batch) \cup lost
      BY <3>2, <1>5 DEF AtRisk
    <3>3. CASE User(n) \in ToSet(disk) \cup summarised
      BY <3>3, <1>3, <1>11
    <3>4. CASE User(n) \in ToSet(mem) /\ User(n) \notin ToSet(disk) \cup summarised
      <4>1. broken \/ unsaved.msgs = <<User(n)>>
        BY <3>4, <1>1 DEF Saved
      <4> QED
        BY <3>4, <4>1, <1>5 DEF AtRisk
    <3> QED
      BY <3>1, <3>2, <3>3, <3>4
  <2>2. \A n \in 1..inputs' : AccountedFor(n)'
    BY <2>1, <1>5 DEF AccountedFor
  <2>3. \A n : User(n) \in ToSet(R) => User(n) \in ToSet(disk)
    BY <1>3, <1>11
  <2>4. \A m \in ToSet(disk) : m.kind = "user" => m \in ToSet(R)
    BY <1>3 DEF IsResults
  <2> QED
    BY <2>2, <2>3, <2>4, <1>5 DEF Saved
<1>20. Ordered'
  <2>1. \A n : Late(n)' <=> Late(n)
    BY <1>5 DEF Late
  <2>2. UsersInOrder(disk)'
    BY <2>1, <1>1, <1>5 DEF Ordered, UsersInOrder
  <2>3. ASSUME NEW i \in 1..Len(R), NEW j \in 1..Len(R), i < j, R[i].kind = "user", R[j].kind = "user"
        PROVE  Late(R[j].n) \/ R[i].n <= R[j].n
    <3>1. R[i] \in ToSet(disk) /\ R[j] \in ToSet(disk)
      BY <2>3, <1>3, <1>16 DEF IsResults
    <3>2. ~ Stubbed(R[i]) /\ ~ Stubbed(R[j])
      BY <2>3, <3>1, <1>1, <1>10 DEF Coherent, Formed, Stubbed
    <3>3. PICK p \in 1..Len(disk), q \in 1..Len(disk) : p < q /\ disk[p] = R[i] /\ disk[q] = R[j]
      BY <2>3, <3>2, <1>4
    <3> QED
      BY <2>3, <3>3, <1>1 DEF Ordered, UsersInOrder
  <2>4. UsersInOrder(mem)'
    BY <2>1, <2>3, <1>5 DEF UsersInOrder
  <2>5. Ascending(batch)' /\ Ascending(queue)'
    BY <1>9 DEF Ascending
  <2> QED
    BY <2>2, <2>4, <2>5, <1>9 DEF Ordered
<1> QED
  BY <1>6, <1>12, <1>13, <1>14, <1>15, <1>17, <1>18, <1>19, <1>20 DEF AgentInv


-----------------------------------------------------------------------------
(* The invariant is inductive.                                             *)

LEMMA InitKeeps == Init => AgentInv
<1> SUFFICES ASSUME Init PROVE AgentInv
  OBVIOUS
<1>1. /\ mem = <<>> /\ disk = <<>> /\ unsaved = None /\ baseline = 0 /\ host \in HostSets /\ due = 0
      /\ pc = "idle" /\ queue = <<>> /\ batch = <<>> /\ inputs = 0 /\ replies = 0 /\ incidents = 0
      /\ broken = FALSE /\ cancelled = FALSE /\ stop = "end" /\ answered = 0 /\ skipping = FALSE /\ retries = 0
      /\ recovered = FALSE
      /\ dropped = {} /\ summarised = {} /\ twice = {} /\ resent = {} /\ lost = {} /\ rolledBack = FALSE
  BY DEF Init
<1>2. /\ <<>> \in Seq(Messages) /\ <<>> \in Seq(1..MaxInputs) /\ Len(<<>>) = 0
  BY EmptySeq
<1>3. ToSet(<<>>) = {}
  BY <1>2, ListHas
<1>4. ToSet(mem) = {} /\ ToSet(disk) = {} /\ ToSet(queue) = {} /\ ToSet(batch) = {} /\ Told = {}
  BY <1>1, <1>3 DEF Told
<1>5. Len(mem) = 0 /\ Len(disk) = 0 /\ Len(queue) = 0 /\ Len(batch) = 0
  BY <1>1, <1>2
<1>6. unsaved.op = "none" /\ unsaved.msgs = <<>>
  BY <1>1 DEF None
<1>7. TypeOK
  <2>1. {mem, disk} \subseteq Seq(Messages) /\ {queue, batch} \subseteq Seq(1..MaxInputs)
    BY <1>1, <1>2
  <2>2. {baseline, due, inputs, replies, incidents} \subseteq Nat /\ answered \in 0..MaxCalls /\ retries \in 0..MaxRetries
    BY <1>1, NoneYet
  <2>3. {broken, cancelled, skipping, recovered, rolledBack} \subseteq BOOLEAN
    BY <1>1
  <2>4. dropped \cup summarised \cup twice \cup resent \subseteq Messages /\ lost \subseteq 1..MaxInputs
    BY <1>1
  <2>5. pc \in {"idle", "head", "context", "ready", "streaming", "replied", "backoff", "tools",
                "asking", "running", "answered", "ended", "failed"}
        /\ stop \in {"continue", "tools", "end", "failed", "failed_empty", "aborted"} /\ host \in HostSets
    BY <1>1
  <2> QED
    BY <2>1, <2>2, <2>3, <2>4, <2>5, <1>1 DEF TypeOK
<1>8. Coherent
  BY <1>4 DEF Coherent
<1>9. Pending /\ Places /\ Replying
  BY <1>1, <1>4, <1>6 DEF Pending, Places, Replying, Asking
<1>10. Waiting
  <2>1. inputs <= MaxInputs
    BY <1>1, Bounds
  <2> QED
    BY <2>1, <1>4, <1>5 DEF Waiting
<1>11. Pairs
  BY <1>1, <1>4, <1>5, <1>6 DEF Pairs, Paired, Asking
<1>12. Written
  BY <1>1, <1>4, <1>5, <1>6 DEF Written
<1>13. Repeated
  BY <1>5, <1>6 DEF Repeated, Single
<1>14. Saved
  BY <1>1, <1>4 DEF Saved
<1>15. Ordered
  BY <1>4, <1>5 DEF Ordered, UsersInOrder, Ascending
<1> QED
  BY <1>7, <1>8, <1>9, <1>10, <1>11, <1>12, <1>13, <1>14, <1>15 DEF AgentInv

LEMMA StutterKeeps == AgentInv /\ UNCHANGED vars => AgentInv'
<1> SUFFICES ASSUME AgentInv, UNCHANGED vars PROVE AgentInv'
  OBVIOUS
<1>1. /\ TypeOK /\ Coherent /\ Pending /\ Places /\ Replying /\ Waiting
      /\ Pairs /\ Written /\ Repeated /\ Saved /\ Ordered
  BY DEF AgentInv
<1>2. /\ UNCHANGED Transcript /\ UNCHANGED Records
      /\ UNCHANGED <<due, pc, queue, batch, cancelled, turn, inputs, replies, incidents, lost>>
  BY DEF vars, file, counts, history, Transcript, Records
<1>3. UNCHANGED <<mem, disk, baseline, broken, unsaved, host>> /\ UNCHANGED <<dropped, summarised, twice, resent, rolledBack>>
      /\ UNCHANGED <<stop, answered, skipping, retries, recovered>>
  BY <1>2 DEF Transcript, Records, turn
<1>4. TypeOK'
  BY <1>1, <1>2, <1>3 DEF TypeOK, None
<1>5. Told' = Told
  BY <1>3 DEF Told
<1>6. Coherent' /\ Pending' /\ Pairs' /\ Written' /\ Repeated'
  <2>1. Counting /\ (Asking' => Asking)
    BY <1>1, <1>2, <1>3 DEF Counting, TypeOK, Asking
  <2> QED
    BY <2>1, <1>1, <1>2, QuietKeeps
<1>7. Places'
  BY <1>1, <1>2, <1>3 DEF Places
<1>8. Replying'
  BY <1>1, <1>2, <1>3, <1>5 DEF Replying, Asking, LastOf, Left, Calling, Last
<1>9. Waiting'
  BY <1>1, <1>2, <1>5 DEF Waiting
<1>10. Saved'
  BY <1>1, <1>2, <1>3 DEF Saved, AccountedFor
<1>11. Ordered'
  BY <1>1, <1>2, <1>3 DEF Ordered, UsersInOrder, Ascending, Late
<1> QED
  BY <1>4, <1>6, <1>7, <1>8, <1>9, <1>10, <1>11 DEF AgentInv

LEMMA NextKeeps == AgentInv /\ [Next]_vars => AgentInv'
<1> SUFFICES ASSUME AgentInv, [Next]_vars PROVE AgentInv'
  OBVIOUS
<1>1. CASE UNCHANGED vars
  BY <1>1, StutterKeeps
<1>2. CASE LoopStep
  <2>1. \/ Inner \/ LoopHead \/ Wait \/ AppendDrained \/ NewContext \/ Retry \/ Recover \/ ToolsEnd
    BY <1>2 DEF LoopStep, Inner
  <2> QED
    BY <2>1, InnerKeeps, QueueingKeeps, AppendDrainedKeeps, NewContextKeeps, RetryKeeps, RecoverKeeps, ToolsEndKeeps
<1>3. CASE Hook
  BY <1>3, SaveAppendedKeeps, SaveReplacedKeeps, FailingKeeps DEF Hook
<1>4. CASE Provider
  <2>1. ASSUME NEW how \in {"continue", "tools", "end", "failed", "aborted"}, NEW c \in {0, MaxCalls},
               StreamEnds(how, 1..c)
        PROVE  AgentInv'
    BY <2>1, StreamEndsKeeps
  <2>2. ASSUME NEW how \in {"end", "failed", "aborted"}, StreamEndsEmpty(how)
        PROVE  AgentInv'
    BY <2>2, InnerKeeps DEF Inner
  <2> QED
    BY <2>1, <2>2, <1>4 DEF Provider
<1>5. CASE DiskFails
  BY <1>5, FailingKeeps
<1>6. CASE Flush \/ FinishTurn
  BY <1>6, FlushStepKeeps, FinishTurnKeeps
<1>7. CASE Prompt \/ Enqueue
  BY <1>7, PromptKeeps, QueueingKeeps
<1>8. CASE Abort \/ UserAnswers
  BY <1>8, InnerKeeps DEF Inner
<1>9. CASE Compact \/ RollBack \/ Restart
  BY <1>9, CompactKeeps, RollBackKeeps, RestartKeeps
<1> QED
  BY <1>1, <1>2, <1>3, <1>4, <1>5, <1>6, <1>7, <1>8, <1>9 DEF Next

\* What the loop, its hooks and the flush keep of the transcript, of the file and of
\* the inputs, whatever fails, is aborted, compacted or resumed.
THEOREM Invariance == Spec => []AgentInv
<1>1. Init => AgentInv
  BY InitKeeps
<1>2. AgentInv /\ [Next]_vars => AgentInv'
  BY NextKeeps
<1> QED
  BY <1>1, <1>2, PTL DEF Spec


-----------------------------------------------------------------------------
(* The properties.                                                         *)

LEMMA Faithful == AgentInv => RequestsAreFaithful
<1> SUFFICES ASSUME AgentInv PROVE RequestsAreFaithful
  OBVIOUS
<1>1. TypeOK /\ Coherent /\ Pairs /\ mem \in Seq(Messages) /\ Len(mem) \in Nat
  BY LenProperties DEF AgentInv, TypeOK
<1>2. PICK R : R = Repair(mem)
  OBVIOUS
<1>3. Len(R) \in Nat
  BY <1>1, <1>2, RepairPicks
<1>4. ASSUME NEW i \in 1..Len(mem)
      PROVE  /\ IsResults(Completed(mem[i], AnswerIn(mem, i))) /\ Completed(mem[i], AnswerIn(mem, i)).n = mem[i].n
             /\ Answered(Completed(mem[i], AnswerIn(mem, i))) = mem[i].calls
  BY CompletedIs
<1>5. ASSUME NEW k \in 1..Len(R)
      PROVE  /\ CallsTools(R[k]) => /\ k + 1 \in 1..Len(R)
                                    /\ \E i \in 1..Len(mem) : mem[i] = R[k] /\ R[k + 1] = Completed(mem[i], AnswerIn(mem, i))
             /\ IsResults(R[k]) => /\ k - 1 \in 1..Len(R)
                                   /\ \E i \in 1..Len(mem) : mem[i] = R[k - 1] /\ CallsTools(mem[i])
  <2>1. k \in 1..Len(Repair(mem))
    BY <1>2
  <2> QED
    BY <2>1, <1>1, <1>2, RepairNeighbours
<1>6. ASSUME NEW k \in 1..Len(R), CallsTools(R[k])
      PROVE  k < Len(R) /\ R[k + 1].kind = "results" /\ R[k + 1].n = R[k].n /\ {r[1] : r \in R[k + 1].res} = R[k].calls
  <2>1. PICK i \in 1..Len(mem) : mem[i] = R[k] /\ R[k + 1] = Completed(mem[i], AnswerIn(mem, i))
    BY <1>5, <1>6
  <2>2. k < Len(R)
    BY <1>3, <1>5, <1>6
  <2> QED
    BY <2>1, <2>2, <1>4 DEF IsResults, Answered
<1>7. ASSUME NEW k \in 1..Len(R), R[k].kind = "results"
      PROVE  k > 1 /\ CallsTools(R[k - 1])
  <2>1. k - 1 \in 1..Len(R) /\ CallsTools(R[k - 1])
    BY <1>5, <1>7 DEF IsResults
  <2> QED
    BY <2>1, <1>3
<1>8. ASSUME NEW i \in 1..Len(mem), mem[i].kind = "results", ~ Stubbed(mem[i])
      PROVE  mem[i] \in ToSet(R)
  <2>1. i > 1 /\ Answers(mem[i - 1], mem[i])
    BY <1>1, <1>8 DEF Pairs, Paired, Whole, IsResults
  <2>2. PICK j : j = i - 1
    OBVIOUS
  <2>3. j \in 1..Len(mem) /\ j < Len(mem) /\ j + 1 = i
    BY <2>1, <2>2, <1>1
  <2>4. CallsTools(mem[j]) /\ IsResults(mem[j + 1]) /\ mem[j + 1].n = mem[j].n
    BY <2>1, <2>2, <2>3, <1>8 DEF Answers, IsResults
  <2>5. mem[j] \in Told /\ mem[j + 1] \in Told
    BY <2>3, <1>1, ListHas DEF Told
  <2>6. mem[j + 1].calls = {} /\ Answered(mem[j + 1]) = mem[j].calls
    BY <2>4, <2>5, <1>1 DEF Coherent, Formed, IsResults, CallsTools
  <2>7. Completed(mem[j], AnswerIn(mem, j)) = mem[j + 1]
    BY <2>3, <2>4, <2>6, <1>1, CompletedKeeps
  <2>8. Completed(mem[j], AnswerIn(mem, j)) \in ToSet(R)
    BY <2>3, <2>4, <1>1, <1>2, RepairHas
  <2> QED
    BY <2>3, <2>7, <2>8
<1> QED
  BY <1>2, <1>6, <1>7, <1>8 DEF RequestsAreFaithful, Request

LEMMA Recorded == AgentInv => TranscriptIsKept
<1> SUFFICES ASSUME AgentInv PROVE TranscriptIsKept
  OBVIOUS
<1>1. TypeOK /\ Pending /\ Places /\ Replying /\ Pairs /\ Written /\ Repeated
  BY DEF AgentInv
<1>2. mem \in Seq(Messages) /\ disk \in Seq(Messages)
  BY <1>1 DEF TypeOK
<1>3. ASSUME unsaved = None, ~ broken, ~ rolledBack
      PROVE  /\ \A m \in ToSet(mem) : Stubbed(m) \/ m \in ToSet(disk)
             /\ \A i, j \in 1..Len(mem) : i < j /\ ~ Stubbed(mem[i]) /\ ~ Stubbed(mem[j]) =>
                  \E p, q \in 1..Len(disk) : p < q /\ disk[p] = mem[i] /\ disk[q] = mem[j]
             /\ \A m \in ToSet(disk) : Stubbed(m) \/ m \in ToSet(mem) \cup dropped \cup resent
             /\ \A i, j \in 1..Len(disk) : i < j /\ disk[i] = disk[j] =>
                  Stubbed(disk[i]) \/ disk[i] \in twice \cup resent \cup {Nudge}
  <2>1. unsaved.op = "none"
    BY <1>3 DEF None
  <2>2. /\ \A i \in 1..Len(mem) : ~ Stubbed(mem[i]) => mem[i] \in ToSet(disk)
        /\ \A i, j \in 1..Len(mem) : i < j /\ ~ Stubbed(mem[i]) /\ ~ Stubbed(mem[j]) => Before(mem[i], mem[j])
        /\ \A m \in ToSet(disk) : Stubbed(m) \/ m \in ToSet(mem) \cup dropped \cup resent
    BY <2>1, <1>1, <1>3 DEF Written, Settled
  <2>3. \A m \in ToSet(mem) : \E i \in 1..Len(mem) : mem[i] = m
    BY <1>2, ListHas
  <2>4. \A m \in ToSet(mem) : Stubbed(m) \/ m \in ToSet(disk)
    BY <2>2, <2>3
  <2>5. \A i, j \in 1..Len(disk) : i < j /\ disk[i] = disk[j] =>
          Stubbed(disk[i]) \/ disk[i] \in twice \cup resent \cup {Nudge}
    BY <1>1 DEF Repeated, Single, Twofold
  <2> QED
    BY <2>2, <2>4, <2>5 DEF Before
<1>4. FileFollowsMemory
  BY <1>3 DEF FileFollowsMemory
<1>5. ASSUME pc = "running", ~ broken PROVE Calling \in ToSet(disk)
  <2>1. unsaved = None
    BY <1>1, <1>5 DEF Places, Pending
  <2>2. disk # <<>> /\ LastOf(disk) = LastOf(mem)
    BY <2>1, <1>1, <1>5 DEF Pairs, Asking
  <2>3. LastOf(disk) \in ToSet(disk)
    BY <2>2, <1>2, ListHas
  <2> QED
    BY <2>2, <2>3 DEF Calling, Last, LastOf
<1> QED
  BY <1>4, <1>5 DEF TranscriptIsKept, RunsAreRecorded

\* The inputs of the transcript, of the batch and of the queue, one behind the other.
LEMMA InOrder ==
  ASSUME NEW a \in Seq(Nat), NEW b \in Seq(Nat), NEW c \in Seq(Nat),
         \A i, j \in 1..Len(a) : i < j /\ a[i] # 0 /\ a[j] # 0 => Late(a[j]) \/ a[i] <= a[j],
         Ascending(b), Ascending(c),
         \A x \in ToSet(a), y \in ToSet(b) \cup ToSet(c) : x # 0 => Late(y) \/ x <= y,
         \A x \in ToSet(b), y \in ToSet(c) : Late(y) \/ x <= y,
         NEW i \in 1..Len(a \o b \o c), NEW j \in 1..Len(a \o b \o c), i < j,
         (a \o b \o c)[i] # 0, (a \o b \o c)[j] # 0
  PROVE  Late((a \o b \o c)[j]) \/ (a \o b \o c)[i] <= (a \o b \o c)[j]
<1>1. PICK d : d = a \o b
  OBVIOUS
<1>2. PICK e : e = d \o c
  OBVIOUS
<1>3. e = a \o b \o c
  BY <1>1, <1>2
<1>4. /\ d \in Seq(Nat) /\ ToSet(d) = ToSet(a) \cup ToSet(b)
      /\ \A k \in 1..Len(d) : \/ k \in 1..Len(a) /\ d[k] = a[k]
                              \/ k > Len(a) /\ k - Len(a) \in 1..Len(b) /\ d[k] = b[k - Len(a)]
  <2>1. a \in Seq(Nat) /\ b \in Seq(Nat)
    OBVIOUS
  <2> QED
    BY ONLY <2>1, <1>1, Joined
<1>5. \A k \in 1..Len(e) : \/ k \in 1..Len(d) /\ e[k] = d[k]
                           \/ k > Len(d) /\ k - Len(d) \in 1..Len(c) /\ e[k] = c[k - Len(d)]
  <2>1. d \in Seq(Nat) /\ c \in Seq(Nat)
    BY <1>4
  <2> QED
    BY ONLY <2>1, <1>2, Joined
<1>6. /\ Len(a) \in Nat /\ Len(b) \in Nat /\ Len(c) \in Nat /\ Len(d) \in Nat
      /\ (\A k \in 1..Len(a) : a[k] \in ToSet(a)) /\ (\A k \in 1..Len(b) : b[k] \in ToSet(b))
      /\ (\A k \in 1..Len(c) : c[k] \in ToSet(c)) /\ (\A k \in 1..Len(d) : d[k] \in ToSet(d))
  BY <1>4, ListHas
<1>7. ASSUME NEW k \in 1..Len(d), NEW m \in 1..Len(d), k < m, d[k] # 0, d[m] # 0
      PROVE  Late(d[m]) \/ d[k] <= d[m]
  <2>1. CASE m \in 1..Len(a) /\ d[m] = a[m]
    <3>1. k \in 1..Len(a) /\ d[k] = a[k]
      <4>1. \/ k \in 1..Len(a) /\ d[k] = a[k]
            \/ k > Len(a)
        BY <1>4
      <4>2. Len(a) \in Nat /\ Len(d) \in Nat /\ m <= Len(a)
        BY <2>1, <1>6
      <4> QED
        BY <4>1, <4>2, <1>7
    <3> QED
      BY <2>1, <3>1, <1>7
  <2>2. CASE m - Len(a) \in 1..Len(b) /\ d[m] = b[m - Len(a)]
    <3>1. CASE k \in 1..Len(a) /\ d[k] = a[k]
      BY <2>2, <3>1, <1>6, <1>7
    <3>2. CASE k - Len(a) \in 1..Len(b) /\ d[k] = b[k - Len(a)]
      <4>1. k - Len(a) < m - Len(a)
        BY <1>6, <1>7
      <4> QED
        BY <2>2, <3>2, <4>1 DEF Ascending
    <3> QED
      BY <3>1, <3>2, <1>4
  <2> QED
    BY <2>1, <2>2, <1>4
<1>8. Late(e[j]) \/ e[i] <= e[j]
  <2>1. i \in 1..Len(e) /\ j \in 1..Len(e) /\ e[i] # 0 /\ e[j] # 0
    BY <1>3
  <2>2. CASE j \in 1..Len(d) /\ e[j] = d[j]
    <3>1. i \in 1..Len(d) /\ e[i] = d[i]
      BY <2>1, <2>2, <1>5, <1>6
    <3> QED
      BY <2>1, <2>2, <3>1, <1>7
  <2>3. CASE j - Len(d) \in 1..Len(c) /\ e[j] = c[j - Len(d)]
    <3>1. CASE i \in 1..Len(d) /\ e[i] = d[i]
      <4>1. e[i] \in ToSet(a) \cup ToSet(b) /\ e[j] \in ToSet(c)
        BY <2>3, <3>1, <1>4, <1>6
      <4> QED
        BY <2>1, <4>1
    <3>2. CASE i - Len(d) \in 1..Len(c) /\ e[i] = c[i - Len(d)]
      <4>1. i - Len(d) < j - Len(d)
        BY <1>6
      <4> QED
        BY <2>3, <3>2, <4>1 DEF Ascending
    <3> QED
      BY <2>1, <3>1, <3>2, <1>5
  <2> QED
    BY <2>1, <2>2, <2>3, <1>5
<1> QED
  BY <1>3, <1>8

LEMMA InputsKept == AgentInv => InputsAreKept
<1> SUFFICES ASSUME AgentInv PROVE InputsAreKept
  OBVIOUS
<1>1. TypeOK /\ Coherent /\ Places /\ Waiting /\ Saved /\ Ordered
  BY DEF AgentInv
<1>2. /\ mem \in Seq(Messages) /\ Len(mem) \in Nat /\ batch \in Seq(1..MaxInputs) /\ queue \in Seq(1..MaxInputs)
      /\ \A i \in 1..Len(mem) : mem[i] \in ToSet(mem) /\ mem[i] \in Messages
  BY <1>1, ListHas DEF TypeOK
<1>3. batch \in Seq(Nat) /\ queue \in Seq(Nat)
  <2>1. 1..MaxInputs \subseteq Nat
    BY Bounds
  <2> QED
    BY <2>1, <1>2, SeqMonotonic
<1>4. PICK a : a = [i \in 1..Len(mem) |-> IF mem[i].kind = "user" THEN mem[i].n ELSE 0]
  OBVIOUS
<1>5. \A i \in 1..Len(mem) : mem[i].n \in Nat
  BY <1>2 DEF Messages
<1>6. a \in Seq(Nat) /\ Len(a) = Len(mem)
  <2>1. a \in [1..Len(mem) -> Nat]
    BY <1>4, <1>5
  <2>2. a \in Seq(Nat)
    BY <2>1, <1>2, IsASeq
  <2>3. DOMAIN a = 1..Len(mem)
    BY <1>4
  <2> QED
    BY <2>2, <2>3, <1>2, LenProperties
<1>7. \A i \in 1..Len(a) : a[i] # 0 => mem[i].kind = "user" /\ a[i] = mem[i].n
  BY <1>4, <1>6
<1>8. \A i, j \in 1..Len(a) : i < j /\ a[i] # 0 /\ a[j] # 0 => Late(a[j]) \/ a[i] <= a[j]
  BY <1>1, <1>6, <1>7 DEF Ordered, UsersInOrder
<1>9. ASSUME NEW x \in ToSet(a), NEW y \in ToSet(batch) \cup ToSet(queue), x # 0 PROVE Late(y) \/ x <= y
  <2>1. PICK i \in 1..Len(a) : a[i] = x
    BY <1>6, ListHas
  <2>2. mem[i].kind = "user" /\ x = mem[i].n /\ mem[i] \in ToSet(mem)
    BY <2>1, <1>2, <1>6, <1>7, <1>9
  <2> QED
    BY <2>2, <1>1 DEF Ordered
<1>10. Ascending(batch) /\ Ascending(queue) /\ \A x \in ToSet(batch), y \in ToSet(queue) : Late(y) \/ x <= y
  BY <1>1 DEF Ordered
<1>11. PICK all : all = a \o batch \o queue
  OBVIOUS
<1>12. ASSUME NEW i \in 1..Len(all), NEW j \in 1..Len(all), i < j, all[i] # 0, all[j] # 0
       PROVE  Late(all[j]) \/ all[i] <= all[j]
  BY <1>3, <1>6, <1>8, <1>9, <1>10, <1>11, <1>12, InOrder
<1>13. \A i, j \in 1..Len(all) :
          i < j /\ 0 \notin {all[i], all[j]} /\ all[j] \notin host /\ User(all[j]) \notin resent => all[i] <= all[j]
  BY <1>12 DEF Late
<1>14. \A n \in 1..inputs :
          n \in ToSet(queue) \cup ToSet(batch) \cup lost \/ User(n) \in ToSet(mem) \cup summarised
  BY <1>1 DEF Saved, AccountedFor
<1>15. pc = "idle" => ToSet(queue) \subseteq host
  BY <1>1 DEF Places
<1> QED
  BY <1>4, <1>11, <1>13, <1>14, <1>15 DEF InputsAreKept

\* Each variable has its type in every reachable state.
THEOREM TypeCorrect == Spec => []TypeOK
<1>1. AgentInv => TypeOK
  BY DEF AgentInv
<1> QED
  BY <1>1, Invariance, PTL

\* Each request is a transcript that the provider accepts: a reply's calls are followed
\* by a result for each, no result stands without its call, and no result that the loop
\* has recorded gives way to a stub.
THEOREM RequestsFaithful == Spec => []RequestsAreFaithful
<1>1. AgentInv => RequestsAreFaithful
  BY Faithful
<1> QED
  BY <1>1, Invariance, PTL

\* While the file takes writes it holds the transcript in its order, with nothing else and
\* nothing twice but what the code writes so, and the call of each tool that runs.
THEOREM TranscriptKept == Spec => []TranscriptIsKept
<1>1. AgentInv => TranscriptIsKept
  BY Recorded
<1> QED
  BY <1>1, Invariance, PTL

\* Each accepted input is queued, told or summarised unless an abort, a failure or the end
\* of the process took it, in the order of acceptance; none of the user's waits while the
\* loop is idle.
THEOREM InputsAccounted == Spec => []InputsAreKept
<1>1. AgentInv => InputsAreKept
  BY InputsKept
<1> QED
  BY <1>1, Invariance, PTL

-----------------------------------------------------------------------------
(* The two repairs are what the loops of the code make of a transcript.     *)

\* Whatever transcript is loaded, the loop of repairSessionMessages makes Repair of it.
THEOREM LoadRepairs ==
  ASSUME NEW ms \in Seq(Messages), NEW taken, NEW out, LoadLoop(ms, taken, out)
  PROVE  out[Len(ms)] = Repair(ms)
<1> DEFINE w == Slots(ms)
           T == ToSet(w) \ {Gap}
           made(k) == LET i == k \div 2 IN
                      IF k = 2 * i \/ IsResults(ms[i + 1]) THEN out[i] ELSE Append(out[i], ms[i + 1])
           big == [k \in 0..(2 * Len(ms)) |-> made(k)]
<1>1. Len(ms) \in Nat /\ \A i \in 1..Len(ms) : ms[i] \in Messages
  BY LenProperties, ElementOfSeq
<1>2. /\ w \in Seq(Messages \cup {Gap}) /\ Len(w) = 2 * Len(ms)
      /\ \A i \in 1..Len(ms) :
           /\ w[2 * i - 1] = IF IsResults(ms[i]) THEN Gap ELSE ms[i]
           /\ w[2 * i] = IF CallsTools(ms[i]) THEN Completed(ms[i], AnswerIn(ms, i)) ELSE Gap
      /\ \A k \in 1..(2 * Len(ms)) : \E i \in 1..Len(ms) : k = 2 * i - 1 \/ k = 2 * i
  BY SlotsAre
<1>3. Repair(ms) = Only(w, T)
  BY DEF Repair, Slots, Present
<1> HIDE DEF w
<1>4. \A k \in 1..Len(w) : w[k] \in T <=> w[k] # Gap
  <2>1. DOMAIN w = 1..Len(w)
    BY <1>2, LenProperties
  <2> QED
    BY <2>1 DEF ToSet
<1> HIDE DEF T
<1>5. \A i \in Nat : (2 * i) \div 2 = i /\ (i > 0 => (2 * i - 1) \div 2 = i - 1 /\ 2 * i - 1 # 2 * (i - 1))
  OBVIOUS
<1>6. ASSUME NEW i \in 1..Len(ms)
      PROVE  /\ big[2 * i] = out[i] /\ big[2 * i - 2] = out[i - 1]
             /\ big[2 * i - 1] = IF IsResults(ms[i]) THEN out[i - 1] ELSE Append(out[i - 1], ms[i])
  <2>1. /\ i \in Nat /\ i - 1 \in Nat /\ i > 0 /\ 2 * i - 2 = 2 * (i - 1) /\ i - 1 + 1 = i
        /\ 2 * i \in 0..(2 * Len(ms)) /\ 2 * i - 1 \in 0..(2 * Len(ms)) /\ 2 * i - 2 \in 0..(2 * Len(ms))
    BY <1>1
  <2>2. made(2 * i) = out[i]
    BY <2>1, <1>5
  <2>3. made(2 * (i - 1)) = out[i - 1]
    BY <2>1, <1>5
  <2>4. made(2 * i - 1) = IF IsResults(ms[i]) THEN out[i - 1] ELSE Append(out[i - 1], ms[i])
    BY <2>1, <1>5
  <2> HIDE DEF made
  <2> QED
    BY <2>1, <2>2, <2>3, <2>4
<1>7. big[0] = <<>>
  <2>1. 0 \div 2 = 0 /\ 0 = 2 * 0 /\ 0 \in 0..(2 * Len(ms))
    BY <1>1
  <2>2. out[0] = <<>>
    BY DEF LoadLoop
  <2> QED
    BY <2>1, <2>2
<1> HIDE DEF big
<1>8. ASSUME NEW i \in 1..Len(ms), taken[i - 1] PROVE IsResults(ms[i])
  <2>1. i # 1
    BY <1>8 DEF LoadLoop
  <2>2. i - 1 \in 1..Len(ms) /\ i - 1 + 1 = i
    BY <2>1, <1>1
  <2>3. taken[i - 1] => IsResults(ms[i - 1 + 1])
    BY <2>2 DEF LoadLoop
  <2> QED
    BY <2>2, <2>3, <1>8
<1>9. \A m : CallsTools(m) => ~ IsResults(m)
  BY DEF CallsTools, IsResults
<1>10. ASSUME NEW i \in 1..Len(ms)
       PROVE  big[2 * i - 1] = IF w[2 * i - 1] \in T THEN Append(big[2 * i - 2], w[2 * i - 1]) ELSE big[2 * i - 2]
  <2>1. 2 * i - 1 \in 1..Len(w)
    BY <1>1, <1>2
  <2>2. ms[i] # Gap
    BY <1>1, GapIsNone
  <2>3. w[2 * i - 1] = IF IsResults(ms[i]) THEN Gap ELSE ms[i]
    BY <1>2
  <2>4. w[2 * i - 1] \in T <=> w[2 * i - 1] # Gap
    BY <2>1, <1>4
  <2> QED
    BY <2>2, <2>3, <2>4, <1>6
<1>11. ASSUME NEW i \in 1..Len(ms)
       PROVE  big[2 * i] = IF w[2 * i] \in T THEN Append(big[2 * i - 1], w[2 * i]) ELSE big[2 * i - 1]
  <2> DEFINE m == ms[i]
             c == Completed(m, AnswerIn(ms, i))
  <2>1. w[2 * i] \in T <=> w[2 * i] # Gap
    <3>1. 2 * i \in 1..Len(w)
      BY <1>1, <1>2
    <3> QED
      BY <3>1, <1>4
  <2>2. w[2 * i] = IF CallsTools(m) THEN c ELSE Gap
    BY <1>2
  <2>3. c # Gap
    <3>1. c.kind = "results"
      BY DEF Completed, Results, Msg
    <3> HIDE DEF c
    <3> QED
      BY <3>1, GapIsNone
  <2>4. out[i] = IF taken[i - 1] THEN out[i - 1]
                 ELSE IF CallsTools(m) THEN Append(Append(out[i - 1], m), c)
                 ELSE IF IsResults(m) THEN out[i - 1]
                 ELSE Append(out[i - 1], m)
    <3> DEFINE follow == i < Len(ms) /\ IsResults(ms[i + 1])
               kept == IF follow /\ ms[i + 1].n = m.n THEN {r \in ms[i + 1].res : r[1] \in m.calls} ELSE {}
               d == Results(m.n, kept \cup {<<x, "stub">> : x \in {x \in m.calls : \A r \in kept : r[1] # x}})
    <3>1. c = d
      <4> DEFINE a == AnswerIn(ms, i)
                 calls == m.calls
      <4>1. kept = {r \in a : r[1] \in calls}
        BY DEF AnswerIn
      <4> HIDE DEF a, calls, kept
      <4>2. calls \ {r[1] : r \in a} = {x \in calls : \A r \in kept : r[1] # x}
        BY <4>1
      <4> QED
        BY <4>1, <4>2 DEF Completed, a, calls
    <3>2. out[i] = IF taken[i - 1] THEN out[i - 1]
                   ELSE IF CallsTools(m) THEN Append(Append(out[i - 1], m), d)
                   ELSE IF IsResults(m) THEN out[i - 1]
                   ELSE Append(out[i - 1], m)
      BY DEF LoadLoop
    <3> HIDE DEF c, d
    <3> QED
      BY <3>1, <3>2
  <2> HIDE DEF c
  <2>5. taken[i - 1] => IsResults(m)
    BY <1>8
  <2> QED
    BY <2>1, <2>2, <2>3, <2>4, <2>5, <1>6, <1>9
<1>12. FilterLoop(w, T, big)
  <2>1. ASSUME NEW k \in 1..Len(w)
        PROVE  big[k] = IF w[k] \in T THEN Append(big[k - 1], w[k]) ELSE big[k - 1]
    <3>1. PICK i \in 1..Len(ms) : k = 2 * i - 1 \/ k = 2 * i
      BY <1>2
    <3>2. 2 * i - 1 - 1 = 2 * i - 2
      BY <1>1
    <3>3. CASE k = 2 * i - 1
      BY <3>2, <3>3, <1>10
    <3>4. CASE k = 2 * i
      BY <3>4, <1>11
    <3> QED
      BY <3>1, <3>3, <3>4
  <2> QED
    BY <2>1, <1>7 DEF FilterLoop
<1>13. big[Len(w)] = Only(w, T)
  <2> DEFINE S == Messages \cup {Gap}
  <2>1. w \in Seq(S)
    BY <1>2
  <2> HIDE DEF S
  <2> QED
    BY <2>1, <1>12, LoopMakesOnly
<1>14. big[Len(w)] = out[Len(ms)]
  <2>1. CASE Len(ms) = 0
    BY <2>1, <1>2, <1>7 DEF LoadLoop
  <2>2. CASE Len(ms) # 0
    <3>1. Len(ms) \in 1..Len(ms)
      BY <2>2, <1>1
    <3> QED
      BY <3>1, <1>2, <1>6
  <2> QED
    BY <2>1, <2>2
<1> QED
  BY <1>3, <1>13, <1>14


\* The messages of a kind and a number from j on, when one more is counted.
OneMore(ms, kind, n, i) ==
  \A j \in 1..i :
    /\ Between(ms, kind, n, j, i) \in Nat
    /\ Between(ms, kind, n, j, i + 1) =
         Between(ms, kind, n, j, i) + (IF ms[i].kind = kind /\ ms[i].n = n THEN 1 ELSE 0)
LEMMA BetweenSteps ==
  ASSUME NEW ms, NEW kind, NEW n, NEW i \in Nat
  PROVE  Between(ms, kind, n, i, i) = 0 /\ OneMore(ms, kind, n, i)
<1> DEFINE P(k) == ms[k].kind = kind /\ ms[k].n = n
<1>1. Between(ms, kind, n, i, i) = 0
  <2>1. {k \in i..(i - 1) : P(k)} = {}
    OBVIOUS
  <2>2. Cardinality({}) = 0
    BY FS_EmptySet
  <2> QED
    BY <2>1, <2>2 DEF Between
<1>2. ASSUME NEW j \in 1..i
      PROVE  /\ Between(ms, kind, n, j, i) \in Nat
             /\ Between(ms, kind, n, j, i + 1) = Between(ms, kind, n, j, i) + (IF P(i) THEN 1 ELSE 0)
  <2> DEFINE before == {k \in j..(i - 1) : P(k)}
             upto   == {k \in j..(i + 1 - 1) : P(k)}
  <2>1. Between(ms, kind, n, j, i) = Cardinality(before) /\ Between(ms, kind, n, j, i + 1) = Cardinality(upto)
    BY DEF Between
  <2>2. IsFiniteSet(before)
    <3>1. IsFiniteSet(j..(i - 1))
      BY FS_Interval
    <3>2. before \subseteq j..(i - 1)
      OBVIOUS
    <3> HIDE DEF before
    <3> QED
      BY <3>1, <3>2, FS_Subset
  <2>3. i \notin before /\ upto = IF P(i) THEN before \cup {i} ELSE before
    <3>1. \A k : k \in j..(i + 1 - 1) <=> k \in j..(i - 1) \/ k = i
      OBVIOUS
    <3>2. i \notin j..(i - 1)
      OBVIOUS
    <3> QED
      BY <3>1, <3>2
  <2> HIDE DEF before, upto, P
  <2>4. Cardinality(before) \in Nat /\ Cardinality(before \cup {i}) = Cardinality(before) + 1
    BY <2>2, <2>3, FS_CardinalityType, FS_AddElement
  <2> QED
    BY <2>1, <2>3, <2>4
<1> QED
  BY <1>1, <1>2 DEF OneMore

\* What the loop counts: the most by which calls outnumber results from some place on.
Tally(ms, n, i, count) ==
  /\ count \in Nat
  /\ \A j \in 1..(i + 1) : Between(ms, "reply", n, j, i + 1) <= Between(ms, "results", n, j, i + 1) + count
  /\ \E j \in 1..(i + 1) : Between(ms, "reply", n, j, i + 1) = Between(ms, "results", n, j, i + 1) + count

LEMMA TallySteps ==
  ASSUME NEW ms, NEW n, NEW i \in Nat, i > 0, NEW count, Tally(ms, n, i - 1, count), NEW next,
         next = IF ms[i].n # n THEN count
                ELSE IF ms[i].kind = "reply" THEN count + 1
                ELSE IF ms[i].kind = "results" /\ count # 0 THEN count - 1
                ELSE count
  PROVE  Tally(ms, n, i, next)
<1> DEFINE calls(j, k)   == Between(ms, "reply", n, j, k)
           results(j, k) == Between(ms, "results", n, j, k)
           call   == IF ms[i].kind = "reply" /\ ms[i].n = n THEN 1 ELSE 0
           result == IF ms[i].kind = "results" /\ ms[i].n = n THEN 1 ELSE 0
<1>1. /\ count \in Nat
      /\ \A j \in 1..i : calls(j, i) <= results(j, i) + count
      /\ \E j \in 1..i : calls(j, i) = results(j, i) + count
  <2>1. i - 1 + 1 = i
    OBVIOUS
  <2> QED
    BY <2>1 DEF Tally
<1>2. \A j \in 1..i : /\ calls(j, i) \in Nat /\ calls(j, i + 1) = calls(j, i) + call
                      /\ results(j, i) \in Nat /\ results(j, i + 1) = results(j, i) + result
  <2>1. OneMore(ms, "reply", n, i) /\ OneMore(ms, "results", n, i)
    BY BetweenSteps
  <2> QED
    BY <2>1 DEF OneMore
<1>3. calls(i + 1, i + 1) = 0 /\ results(i + 1, i + 1) = 0
  <2>1. i + 1 \in Nat
    OBVIOUS
  <2> QED
    BY <2>1, BetweenSteps
<1> HIDE DEF calls, results
<1>4. \/ call = 0 /\ result = 0 /\ next = count
      \/ call = 1 /\ result = 0 /\ next = count + 1
      \/ call = 0 /\ result = 1 /\ count # 0 /\ next = count - 1
      \/ call = 0 /\ result = 1 /\ count = 0 /\ next = 0
  <2>1. "reply" # "results"
    OBVIOUS
  <2> QED
    BY <2>1
<1> HIDE DEF call, result
<1>5. next \in Nat
  BY <1>1, <1>4
<1>6. ASSUME NEW j \in 1..(i + 1) PROVE calls(j, i + 1) <= results(j, i + 1) + next
  <2>1. CASE j = i + 1
    BY <2>1, <1>3, <1>5
  <2>2. CASE j # i + 1
    <3>1. j \in 1..i
      BY <2>2
    <3> QED
      BY <3>1, <1>1, <1>2, <1>4
  <2> QED
    BY <2>1, <2>2
<1>7. \E j \in 1..(i + 1) : calls(j, i + 1) = results(j, i + 1) + next
  <2>1. CASE result = 1 /\ count = 0
    <3>1. next = 0 /\ i + 1 \in 1..(i + 1)
      BY <2>1, <1>4
    <3> QED
      BY <3>1, <1>3
  <2>2. CASE ~ (result = 1 /\ count = 0)
    <3>1. PICK j \in 1..i : calls(j, i) = results(j, i) + count
      BY <1>1
    <3>2. j \in 1..(i + 1) /\ calls(j, i + 1) = results(j, i + 1) + next
      BY <2>2, <3>1, <1>1, <1>2, <1>4
    <3> QED
      BY <3>2
  <2> QED
    BY <2>1, <2>2
<1> QED
  BY <1>5, <1>6, <1>7 DEF Tally, calls, results

\* Whatever tail a compaction keeps, the loop of RepairOrphanedToolResults makes
\* WithoutOrphans of it: where it finds no call open, none was.
THEOREM OrphansDropped ==
  ASSUME NEW ms \in Seq(Messages), NEW open, NEW out, OrphanLoop(ms, open, out)
  PROVE  out[Len(ms)] = WithoutOrphans(ms)
<1>1. Len(ms) \in Nat /\ \A i \in 1..Len(ms) : ms[i] \in Messages /\ ms[i] # Gap /\ ms[i].n \in Nat
  <2>1. Len(ms) \in Nat /\ \A i \in 1..Len(ms) : ms[i] \in Messages
    BY LenProperties, ElementOfSeq
  <2>2. \A m \in Messages : m # Gap /\ m.n \in Nat
    BY GapIsNone DEF Messages
  <2> QED
    BY <2>1, <2>2
<1>2. ASSUME NEW i \in 1..Len(ms), open[i - 1] \in [Nat -> Nat]
      PROVE  /\ open[i] \in [Nat -> Nat]
             /\ \A n \in Nat : open[i][n] = IF ms[i].n # n THEN open[i - 1][n]
                                            ELSE IF ms[i].kind = "reply" THEN open[i - 1][n] + 1
                                            ELSE IF ms[i].kind = "results" /\ open[i - 1][n] # 0
                                                 THEN open[i - 1][n] - 1
                                            ELSE open[i - 1][n]
  <2> DEFINE b == open[i - 1]
             x == ms[i].n
  <2>1. open[i] = IF ms[i].kind = "reply" THEN [b EXCEPT ![x] = @ + 1]
                  ELSE IF IsResults(ms[i]) /\ ~ (IsResults(ms[i]) /\ b[x] = 0) THEN [b EXCEPT ![x] = @ - 1]
                  ELSE b
    BY DEF OrphanLoop
  <2>2. b \in [Nat -> Nat] /\ x \in Nat
    BY <1>1, <1>2
  <2> HIDE DEF b, x
  <2>3. b[x] \in Nat
    BY <2>2
  <2>4. CASE ms[i].kind = "reply"
    <3> DEFINE y == b[x] + 1
    <3>1. open[i] = [b EXCEPT ![x] = y]
      BY <2>1, <2>4
    <3>2. y \in Nat
      BY <2>3
    <3> HIDE DEF y
    <3>3. open[i] \in [Nat -> Nat]
      BY <3>1, <3>2, <2>2
    <3>4. ASSUME NEW n \in Nat PROVE open[i][n] = IF x # n THEN b[n] ELSE y
      BY <3>1, <2>2
    <3> QED
      BY <3>3, <3>4, <2>4 DEF b, x, y
  <2>5. CASE ms[i].kind = "results" /\ b[x] # 0
    <3>1. open[i] = [b EXCEPT ![x] = @ - 1]
      BY <2>1, <2>5 DEF IsResults
    <3>2. b[x] - 1 \in Nat
      BY <2>3, <2>5
    <3>3. open[i] \in [Nat -> Nat]
      BY <3>1, <3>2, <2>2
    <3> QED
      BY <3>1, <3>3, <2>2, <2>5 DEF b, x
  <2>6. CASE ms[i].kind # "reply" /\ ~ (ms[i].kind = "results" /\ b[x] # 0)
    <3>1. open[i] = b
      BY <2>1, <2>6 DEF IsResults
    <3> QED
      BY <3>1, <2>2, <2>6 DEF b, x
  <2> QED
    BY <2>4, <2>5, <2>6
<1> DEFINE Right(i) == open[i] \in [Nat -> Nat] /\ \A n \in Nat : Tally(ms, n, i, open[i][n])
           Wrong == {i \in 0..Len(ms) : ~ Right(i)}
<1>3. Right(0)
  <2>1. open[0] = [n \in Nat |-> 0]
    BY DEF OrphanLoop
  <2>2. ASSUME NEW n \in Nat PROVE Tally(ms, n, 0, 0)
    <3>1. Between(ms, "reply", n, 1, 1) = 0 /\ Between(ms, "results", n, 1, 1) = 0
      BY BetweenSteps
    <3>2. \A j \in 1..(0 + 1) : j = 1
      OBVIOUS
    <3> QED
      BY <3>1, <3>2 DEF Tally
  <2> QED
    BY <2>1, <2>2
<1>4. ASSUME NEW i \in 1..Len(ms), Right(i - 1) PROVE Right(i)
  <2>1. open[i - 1] \in [Nat -> Nat] /\ open[i] \in [Nat -> Nat] /\ i \in Nat /\ i > 0
    <3>1. open[i - 1] \in [Nat -> Nat]
      BY <1>4
    <3>2. open[i] \in [Nat -> Nat]
      BY <3>1, <1>2
    <3>3. i \in Nat /\ i > 0
      BY <1>1
    <3> HIDE DEF Right
    <3> QED
      BY <3>1, <3>2, <3>3
  <2>2. ASSUME NEW n \in Nat PROVE Tally(ms, n, i, open[i][n])
    <3> DEFINE c == open[i - 1][n]
               d == open[i][n]
    <3>1. Tally(ms, n, i - 1, c)
      BY <1>4
    <3>2. d = IF ms[i].n # n THEN c
              ELSE IF ms[i].kind = "reply" THEN c + 1
              ELSE IF ms[i].kind = "results" /\ c # 0 THEN c - 1
              ELSE c
      BY <2>1, <1>2
    <3> HIDE DEF c, d
    <3>3. Tally(ms, n, i, d)
      BY <2>1, <3>1, <3>2, TallySteps
    <3> QED
      BY <3>3 DEF d
  <2> QED
    BY <2>1, <2>2
<1>5. \A i \in 0..Len(ms) : Right(i)
  <2> HIDE DEF Right
  <2>1. SUFFICES ASSUME Wrong # {} PROVE FALSE
    OBVIOUS
  <2>2. Wrong \in SUBSET Nat
    BY <1>1
  <2>3. /\ \A i \in Wrong : i \in 0..Len(ms) /\ ~ Right(i)
        /\ \A i \in 0..Len(ms) : i \notin Wrong => Right(i)
    OBVIOUS
  <2> HIDE DEF Wrong
  <2>4. PICK i \in Wrong : \A m \in Wrong : i <= m
    BY <2>1, <2>2, LeastNumber
  <2>5. i \in 1..Len(ms) /\ i - 1 \in 0..Len(ms) /\ i - 1 \notin Wrong
    BY <2>3, <2>4, <1>1, <1>3
  <2> QED
    BY <2>3, <2>5, <1>4
<1> HIDE DEF Wrong
<1>6. ASSUME NEW i \in 1..Len(ms) PROVE Open(ms, i) <=> open[i - 1][ms[i].n] # 0
  <2> DEFINE n == ms[i].n
             c == open[i - 1][n]
             calls(j)   == Between(ms, "reply", n, j, i)
             results(j) == Between(ms, "results", n, j, i)
  <2>1. /\ c \in Nat
        /\ \A j \in 1..i : calls(j) <= results(j) + c
        /\ \E j \in 1..i : calls(j) = results(j) + c
    <3>1. i - 1 \in 0..Len(ms) /\ i - 1 + 1 = i /\ n \in Nat
      BY <1>1
    <3>2. Tally(ms, n, i - 1, c)
      BY <3>1, <1>5
    <3> HIDE DEF n, c
    <3> QED
      BY <3>1, <3>2 DEF Tally
  <2>2. \A j \in 1..i : calls(j) \in Nat /\ results(j) \in Nat
    <3>1. i \in Nat
      BY <1>1
    <3> HIDE DEF n
    <3>2. OneMore(ms, "reply", n, i) /\ OneMore(ms, "results", n, i)
      BY <3>1, BetweenSteps
    <3> QED
      BY <3>2 DEF OneMore
  <2>3. calls(i) = 0 /\ results(i) = 0
    <3>1. i \in Nat
      BY <1>1
    <3> HIDE DEF n
    <3> QED
      BY <3>1, BetweenSteps
  <2>4. Open(ms, i) <=> \E j \in 1..(i - 1) : calls(j) > results(j)
    BY DEF Open
  <2>5. \A j : j \in 1..i <=> j \in 1..(i - 1) \/ j = i
    BY <1>1
  <2> HIDE DEF n, c, calls, results
  <2>6. ASSUME NEW j \in 1..(i - 1), calls(j) > results(j) PROVE c # 0
    BY <2>1, <2>2, <2>5, <2>6
  <2>7. ASSUME c # 0 PROVE \E j \in 1..(i - 1) : calls(j) > results(j)
    <3>1. PICK j \in 1..i : calls(j) = results(j) + c
      BY <2>1
    <3>2. calls(j) > results(j)
      BY <3>1, <2>1, <2>2, <2>7
    <3>3. j # i
      BY <3>2, <2>3
    <3> QED
      BY <3>2, <3>3, <2>5
  <2>8. Open(ms, i) <=> c # 0
    BY <2>4, <2>6, <2>7
  <2> QED
    BY <2>8 DEF c, n
<1> DEFINE w == [i \in 1..Len(ms) |-> IF IsResults(ms[i]) /\ ~ Open(ms, i) THEN Gap ELSE ms[i]]
           T == ToSet(w) \ {Gap}
           S == Messages \cup {Gap}
<1>7. WithoutOrphans(ms) = Only(w, T)
  BY DEF WithoutOrphans, Present
<1>8. w \in Seq(S) /\ Len(w) = Len(ms) /\ DOMAIN w = 1..Len(ms)
  <2>1. w \in [1..Len(ms) -> S] /\ DOMAIN w = 1..Len(ms)
    BY <1>1
  <2> HIDE DEF w, S
  <2>2. w \in Seq(S)
    BY <2>1, <1>1, IsASeq
  <2> QED
    BY <2>1, <2>2, <1>1, LenProperties
<1>9. \A i \in 1..Len(ms) : w[i] = IF IsResults(ms[i]) /\ ~ Open(ms, i) THEN Gap ELSE ms[i]
  OBVIOUS
<1> HIDE DEF w, S
<1>10. \A i \in 1..Len(ms) : w[i] \in T <=> w[i] # Gap
  BY <1>8 DEF ToSet
<1> HIDE DEF T
<1>11. FilterLoop(w, T, out)
  <2>1. ASSUME NEW i \in 1..Len(ms)
        PROVE  out[i] = IF w[i] \in T THEN Append(out[i - 1], w[i]) ELSE out[i - 1]
    <3>1. out[i] = IF IsResults(ms[i]) /\ open[i - 1][ms[i].n] = 0 THEN out[i - 1] ELSE Append(out[i - 1], ms[i])
      BY DEF OrphanLoop
    <3>2. ms[i] # Gap
      BY <1>1
    <3>3. w[i] = IF IsResults(ms[i]) /\ ~ Open(ms, i) THEN Gap ELSE ms[i]
      BY <1>9
    <3>4. w[i] \in T <=> w[i] # Gap
      BY <1>10
    <3>5. Open(ms, i) <=> open[i - 1][ms[i].n] # 0
      BY <1>6
    <3> QED
      BY <3>1, <3>2, <3>3, <3>4, <3>5
  <2>2. out[0] = <<>>
    BY DEF OrphanLoop
  <2> QED
    BY <2>1, <2>2, <1>8 DEF FilterLoop
<1>12. out[Len(w)] = Only(w, T)
  BY <1>8, <1>11, LoopMakesOnly
<1> QED
  BY <1>7, <1>8, <1>12



-----------------------------------------------------------------------------
(* Both loops run to their end on every transcript: what the two theorems  *)
(* above assume of one always is.                                          *)

\* The variables of the load's loop have values after every message.
THEOREM LoadLoopRuns ==
  ASSUME NEW ms, Len(ms) \in Nat
  PROVE  \E taken, out : LoadLoop(ms, taken, out)
<1> DEFINE follow(i) == i < Len(ms) /\ IsResults(ms[i + 1])
           kept(i)   == IF follow(i) /\ ms[i + 1].n = ms[i].n THEN {r \in ms[i + 1].res : r[1] \in ms[i].calls} ELSE {}
           stubs(i)  == {<<c, "stub">> : c \in {x \in ms[i].calls : \A r \in kept(i) : r[1] # x}}
           Taken(i, t)  == ~ t /\ CallsTools(ms[i]) /\ follow(i)
           Out(i, t, o) == IF t THEN o
                           ELSE IF CallsTools(ms[i]) THEN Append(Append(o, ms[i]), Results(ms[i].n, kept(i) \cup stubs(i)))
                           ELSE IF IsResults(ms[i]) THEN o
                           ELSE Append(o, ms[i])
           After(k, taken, out) ==
             /\ taken[0] = FALSE /\ out[0] = <<>>
             /\ \A i \in 1..k : taken[i] = Taken(i, taken[i - 1]) /\ out[i] = Out(i, taken[i - 1], out[i - 1])
           Stuck == {k \in Nat : ~ \E taken, out : After(k, taken, out)}
<1>1. ASSUME NEW taken, NEW out, After(Len(ms), taken, out) PROVE LoadLoop(ms, taken, out)
  BY <1>1 DEF LoadLoop
<1> HIDE DEF Taken, Out
<1>2. \E taken, out : After(0, taken, out)
  <2>1. After(0, [i \in {0} |-> FALSE], [i \in {0} |-> <<>>])
    OBVIOUS
  <2> HIDE DEF After
  <2> QED
    BY <2>1
<1>3. ASSUME NEW k \in Nat, NEW taken, NEW out, After(k, taken, out)
      PROVE  \E t, o : After(k + 1, t, o)
  <2> DEFINE t == [i \in 0..(k + 1) |-> IF i = k + 1 THEN Taken(i, taken[k]) ELSE taken[i]]
             o == [i \in 0..(k + 1) |-> IF i = k + 1 THEN Out(i, taken[k], out[k]) ELSE out[i]]
  <2>1. /\ \A i \in 0..k : t[i] = taken[i] /\ o[i] = out[i]
        /\ t[k + 1] = Taken(k + 1, taken[k]) /\ o[k + 1] = Out(k + 1, taken[k], out[k])
    OBVIOUS
  <2> HIDE DEF t, o
  <2>2. ASSUME NEW i \in 1..(k + 1)
        PROVE  t[i] = Taken(i, t[i - 1]) /\ o[i] = Out(i, t[i - 1], o[i - 1])
    <3>1. t[i - 1] = taken[i - 1] /\ o[i - 1] = out[i - 1]
      BY <2>1
    <3>2. CASE i = k + 1
      <4>1. i - 1 = k
        BY <3>2
      <4> QED
        BY <4>1, <3>1, <3>2, <2>1
    <3>3. CASE i # k + 1
      <4>1. i \in 1..k /\ i \in 0..k
        BY <3>3
      <4> QED
        BY <4>1, <3>1, <2>1, <1>3
    <3> QED
      BY <3>2, <3>3
  <2>3. t[0] = FALSE /\ o[0] = <<>>
    BY <2>1, <1>3
  <2>4. After(k + 1, t, o)
    BY <2>2, <2>3
  <2> HIDE DEF After
  <2> QED
    BY <2>4
<1> HIDE DEF After
<1>4. Stuck = {}
  <2>1. SUFFICES ASSUME Stuck # {} PROVE FALSE
    OBVIOUS
  <2>2. Stuck \in SUBSET Nat
    OBVIOUS
  <2>3. \A k \in Nat : k \in Stuck <=> ~ \E taken, out : After(k, taken, out)
    OBVIOUS
  <2> HIDE DEF Stuck
  <2>4. PICK k \in Stuck : \A m \in Stuck : k <= m
    BY <2>1, <2>2, LeastNumber
  <2>5. k \in Nat /\ k # 0
    BY <2>2, <2>3, <2>4, <1>2
  <2>6. k - 1 \in Nat /\ k - 1 \notin Stuck /\ k - 1 + 1 = k
    BY <2>4, <2>5
  <2> QED
    BY <2>3, <2>4, <2>5, <2>6, <1>3
<1> QED
  BY <1>1, <1>4

\* The count of open calls has a value after every message, and so has what the loop keeps.
THEOREM OrphanLoopRuns ==
  ASSUME NEW ms, Len(ms) \in Nat
  PROVE  \E open, out : OrphanLoop(ms, open, out)
<1> DEFINE orphan(i, c) == IsResults(ms[i]) /\ c[ms[i].n] = 0
           Open1(i, c)   == IF ms[i].kind = "reply" THEN [c EXCEPT ![ms[i].n] = @ + 1]
                            ELSE IF IsResults(ms[i]) /\ ~ orphan(i, c) THEN [c EXCEPT ![ms[i].n] = @ - 1]
                            ELSE c
           Out(i, c, o)  == IF orphan(i, c) THEN o ELSE Append(o, ms[i])
           none == [n \in Nat |-> 0]
           After(k, open, out) ==
             /\ open[0] = none /\ out[0] = <<>>
             /\ \A i \in 1..k : open[i] = Open1(i, open[i - 1]) /\ out[i] = Out(i, open[i - 1], out[i - 1])
           Stuck == {k \in Nat : ~ \E open, out : After(k, open, out)}
<1>1. ASSUME NEW open, NEW out, After(Len(ms), open, out) PROVE OrphanLoop(ms, open, out)
  BY <1>1 DEF OrphanLoop
<1> HIDE DEF Open1, Out, none
<1>2. \E open, out : After(0, open, out)
  <2>1. After(0, [i \in {0} |-> none], [i \in {0} |-> <<>>])
    OBVIOUS
  <2> HIDE DEF After
  <2> QED
    BY <2>1
<1>3. ASSUME NEW k \in Nat, NEW open, NEW out, After(k, open, out)
      PROVE  \E c, o : After(k + 1, c, o)
  <2> DEFINE c == [i \in 0..(k + 1) |-> IF i = k + 1 THEN Open1(i, open[k]) ELSE open[i]]
             o == [i \in 0..(k + 1) |-> IF i = k + 1 THEN Out(i, open[k], out[k]) ELSE out[i]]
  <2>1. /\ \A i \in 0..k : c[i] = open[i] /\ o[i] = out[i]
        /\ c[k + 1] = Open1(k + 1, open[k]) /\ o[k + 1] = Out(k + 1, open[k], out[k])
    OBVIOUS
  <2> HIDE DEF c, o
  <2>2. ASSUME NEW i \in 1..(k + 1)
        PROVE  c[i] = Open1(i, c[i - 1]) /\ o[i] = Out(i, c[i - 1], o[i - 1])
    <3>1. c[i - 1] = open[i - 1] /\ o[i - 1] = out[i - 1]
      BY <2>1
    <3>2. CASE i = k + 1
      <4>1. i - 1 = k
        BY <3>2
      <4> QED
        BY <4>1, <3>1, <3>2, <2>1
    <3>3. CASE i # k + 1
      <4>1. i \in 1..k /\ i \in 0..k
        BY <3>3
      <4> QED
        BY <4>1, <3>1, <2>1, <1>3
    <3> QED
      BY <3>2, <3>3
  <2>3. c[0] = none /\ o[0] = <<>>
    BY <2>1, <1>3
  <2>4. After(k + 1, c, o)
    BY <2>2, <2>3
  <2> HIDE DEF After
  <2> QED
    BY <2>4
<1> HIDE DEF After
<1>4. Stuck = {}
  <2>1. SUFFICES ASSUME Stuck # {} PROVE FALSE
    OBVIOUS
  <2>2. Stuck \in SUBSET Nat
    OBVIOUS
  <2>3. \A k \in Nat : k \in Stuck <=> ~ \E open, out : After(k, open, out)
    OBVIOUS
  <2> HIDE DEF Stuck
  <2>4. PICK k \in Stuck : \A m \in Stuck : k <= m
    BY <2>1, <2>2, LeastNumber
  <2>5. k \in Nat /\ k # 0
    BY <2>2, <2>3, <2>4, <1>2
  <2>6. k - 1 \in Nat /\ k - 1 \notin Stuck /\ k - 1 + 1 = k
    BY <2>4, <2>5
  <2> QED
    BY <2>3, <2>4, <2>5, <2>6, <1>3
<1> QED
  BY <1>1, <1>4

=============================================================================
