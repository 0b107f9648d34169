----------------------- MODULE PendingRequestsProofs -----------------------
(***************************************************************************)
(* Proofs about PendingRequests, for any askers, keys and bounds.          *)
(***************************************************************************)
EXTENDS PendingRequests, FiniteSetTheorems, TLAPS

Request == [kind : Kinds, key : Keys, by : Askers]

----------------------------------------------------------------------------
(* The inductive invariant.                                                *)

Done(i) == i \in deferred \cup settled

\* An asker at work has a request of its own.
AskInv ==
  \A a \in Askers : pc[a] # "idle" => cur[a] \in Asked /\ reqs[cur[a]].by = a

\* Where an asker is says what has become of its request: nothing before the
\* actor takes it, no outcome before the asker has left the actor, and only what
\* has a context that was cancelled is withdrawn.
PlaceInv ==
  \A a \in Askers :
    /\ pc[a] = "posting" => /\ cur[a] \notin pending /\ ~Done(cur[a])
                            /\ result[cur[a]] = None /\ told[cur[a]] = None
    /\ pc[a] \in {"posting", "waiting", "leaving"} => ret[cur[a]] = None
    /\ pc[a] = "waiting" => cur[a] \in pending \/ result[cur[a]] # None
    /\ pc[a] = "leaving" => Withdrawn(a)

\* A registered request waits for a user who is there, for an asker that waits
\* for it, and has no outcome of any kind.  Only the compaction's outlives its
\* cancelled context, and its asker when the close was requested.
Awaited(i) == pc[reqs[i].by] = "waiting" /\ cur[reqs[i].by] = i /\ ret[i] = None
Outlived(i) ==
  /\ reqs[i].kind = "compaction" /\ ret[i] \in {None, "cancelled"}
  /\ phase = "requested" \/ (pc[reqs[i].by] = "leaving" /\ cur[reqs[i].by] = i)

PendingInv ==
  /\ attach = "detached" \/ phase \in {"closing", "done"} => pending = {}
  /\ \A i \in pending :
       /\ (Awaited(i) /\ (reqs[i].kind = "question" => ~cancelled[reqs[i].by])) \/ Outlived(i)
       /\ result[i] = None /\ told[i] = None /\ ~Done(i)

\* A number that was not given out yet has no history.
FreshInv ==
  \A i \in Ids \ Asked : result[i] = None /\ told[i] = None /\ ret[i] = None

\* A grant that an asker is given is the answer of a user to its request.
AnswerInv ==
  \A i \in Ids : /\ result[i] \in Allows => told[i] = result[i]
                 /\ ret[i] \in {"allow_tool", "allow_all"} => told[i] = ret[i]

\* What the gate remembers was granted by a user to a call that has returned.
GateInv ==
  /\ allowAll => \E j \in Asked : told[j] = "allow_all" /\ ret[j] = told[j]
  /\ \A key \in allowed :
       \E j \in Asked : told[j] = "allow_tool" /\ ret[j] = told[j] /\ reqs[j].key = key

\* An approval was sent exactly if it is marked as dispatched.
SentInv == \A i \in Ids : sent[i] = IF i \in dispatched THEN 1 ELSE 0

RequestInv ==
  /\ AskInv /\ PlaceInv /\ PendingInv /\ FreshInv /\ AnswerInv /\ GateInv /\ SentInv
  /\ RunsAreAllowed /\ ReviewIsKept

----------------------------------------------------------------------------
(* What the model's operators do to their variables.                       *)

\* A request is asked at the end of the list.
LEMMA AppendRequest ==
  ASSUME reqs \in Seq(Request), NEW r \in Request, reqs' = Append(reqs, r)
  PROVE  /\ reqs' \in Seq(Request)
         /\ Len(reqs) \in Nat /\ Len(reqs') = Len(reqs) + 1
         /\ Asked = 1..Len(reqs) /\ Asked' = Asked \cup {Len(reqs')}
         /\ Len(reqs') \notin Asked
         /\ reqs'[Len(reqs')] = r /\ \A i \in Asked : reqs'[i] = reqs[i] /\ reqs[i] \in Request
  BY DEF Asked

\* Recording requests puts them on the review list, and some of them into the store.
LEMMA RecordEffect ==
  ASSUME NEW ids, Record(ids), IsFiniteSet(ids), faults \in 0..MaxFaults
  PROVE  /\ faults' \in 0..MaxFaults
         /\ deferred' = deferred \cup ids
         /\ store \subseteq store' /\ store' \subseteq store \cup ids
<1>1. PICK lost \in SUBSET ids : /\ faults + Cardinality(lost) <= MaxFaults
                                 /\ faults' = faults + Cardinality(lost)
                                 /\ store' = store \cup (ids \ lost)
                                 /\ deferred' = deferred \cup ids
  BY DEF Record
<1>2. IsFiniteSet(lost) /\ Cardinality(lost) \in Nat
  BY FS_Subset, FS_CardinalityType
<1>3. faults' \in 0..MaxFaults
  BY <1>1, <1>2, BoundsAssumption
<1> QED
  BY <1>1, <1>3

\* A denial empties the registry; what is reviewed is recorded for it.
LEMMA DenyAllEffect ==
  ASSUME TypeOK, NEW d \in BOOLEAN, DenyAll(d)
  PROVE  /\ faults' \in 0..MaxFaults
         /\ deferred' = deferred \cup Reviewed(d)
         /\ store \subseteq store' /\ store' \subseteq store \cup Reviewed(d)
         /\ pending' = {} /\ Reviewed(d) \subseteq pending
         /\ \A i \in pending : result[i] = None
         /\ result' = [i \in Ids |-> IF i \in pending
                                     THEN IF i \in Reviewed(d) THEN "recorded" ELSE "denied"
                                     ELSE result[i]]
<1>1. IsFiniteSet(Reviewed(d)) /\ Reviewed(d) \subseteq pending
  <2>1. Asked = 1..Len(reqs) /\ Len(reqs) \in Nat
    BY DEF Asked, TypeOK
  <2>2. IsFiniteSet(Asked)
    BY <2>1, FS_Interval
  <2> QED
    BY <2>2, FS_Subset DEF Reviewed, TypeOK
<1>2. Record(Reviewed(d)) /\ faults \in 0..MaxFaults
  BY DEF DenyAll, TypeOK
<1>3. /\ pending' = {}
      /\ \A i \in pending : result[i] = None
      /\ result' = [i \in Ids |-> IF i \in pending
                                  THEN IF i \in Reviewed(d) THEN "recorded" ELSE "denied"
                                  ELSE result[i]]
  BY DEF DenyAll, FinishAll
<1> QED
  BY <1>1, <1>2, <1>3, RecordEffect

----------------------------------------------------------------------------
(* Type correctness.                                                       *)

LEMMA InitType == Init => TypeOK
<1> SUFFICES ASSUME Init PROVE TypeOK
  OBVIOUS
<1>1. reqs \in Seq(Request) /\ Len(reqs) = 0
  BY DEF Init
<1>2. 0 \in 0..MaxFaults /\ 0 \in 0..Len(reqs)
  BY <1>1, BoundsAssumption
<1>3. /\ pending \subseteq Asked /\ deferred \subseteq Asked /\ settled \subseteq Asked
      /\ store \subseteq deferred /\ dispatched \subseteq deferred \cup settled
  BY DEF Init
<1>4. /\ result \in [Ids -> Results \cup {None}] /\ told \in [Ids -> Results \cup {None}]
      /\ ret \in [Ids -> Results \cup {None}] /\ sent \in [Ids -> Nat]
  BY DEF Init
<1>5. /\ pc \in [Askers -> {"idle", "posting", "waiting", "leaving", "returning"}]
      /\ cur \in [Askers -> 0..Len(reqs)] /\ cancelled \in [Askers -> BOOLEAN]
  BY <1>2 DEF Init
<1>6. /\ attach \in {"attached", "detached"} /\ phase \in {"open", "requested", "closing", "done"}
      /\ allowAll \in BOOLEAN /\ allowed \subseteq Keys
  BY DEF Init
<1>7. Len(reqs) <= MaxAsks /\ faults \in 0..MaxFaults
  BY <1>1, <1>2, BoundsAssumption DEF Init
<1> QED
  BY <1>1, <1>3, <1>4, <1>5, <1>6, <1>7, Zenon DEF TypeOK, Request

LEMMA AskType ==
  ASSUME TypeOK, NEW a \in Askers, NEW key \in Keys,
         PassGate(a, key) \/ \E kind \in Kinds : Ask(a, kind, key)
  PROVE  TypeOK'
<1>0. PICK r \in Request : reqs' = Append(reqs, r) /\ Len(reqs) < MaxAsks
  BY DEF PassGate, Ask, Request, Kinds
<1>1. /\ reqs' \in Seq(Request) /\ Len(reqs) \in Nat /\ Len(reqs') = Len(reqs) + 1
      /\ Asked \subseteq Asked' /\ Len(reqs') <= MaxAsks /\ Len(reqs) + 1 \in Ids
  BY <1>0, AppendRequest, BoundsAssumption DEF TypeOK, Request, Ids
<1>2. CASE PassGate(a, key)
  BY <1>1, <1>2 DEF PassGate, TypeOK, Request, actor, gate, Results, Allows
<1>3. CASE \E kind \in Kinds : Ask(a, kind, key)
  BY <1>1, <1>3 DEF Ask, TypeOK, Request, actor, gate, history
<1> QED
  BY <1>2, <1>3

\* The request of an asker at work is one that was asked.
LEMMA CurrentIsAsked ==
  ASSUME TypeOK, NEW a \in Askers
  PROVE  /\ Asked = 1..Len(reqs) /\ Asked \subseteq Ids
         /\ cur[a] # 0 => cur[a] \in Asked
         /\ \A i \in Asked : reqs[i] \in Request
<1>1. reqs \in Seq(Request) /\ Len(reqs) \in Nat /\ Len(reqs) <= MaxAsks /\ Asked = 1..Len(reqs)
  BY DEF TypeOK, Request, Asked
<1>2. \A i \in Asked : reqs[i] \in Request
  BY <1>1
<1> QED
  BY <1>1, <1>2, BoundsAssumption DEF TypeOK, Ids

\* No action but the askers' adds a request or takes up another one.
LEMMA TypeKept ==
  ASSUME TypeOK, UNCHANGED asking,
         attach' \in {"attached", "detached"}, phase' \in {"open", "requested", "closing", "done"},
         pending' \subseteq Asked, deferred' \subseteq Asked, settled' \subseteq Asked,
         store' \subseteq deferred', dispatched' \subseteq deferred' \cup settled',
         result' \in [Ids -> Results \cup {None}],
         pc' \in [Askers -> {"idle", "posting", "waiting", "leaving", "returning"}],
         cancelled' \in [Askers -> BOOLEAN], allowAll' \in BOOLEAN, allowed' \subseteq Keys,
         faults' \in 0..MaxFaults, told' \in [Ids -> Results \cup {None}],
         ret' \in [Ids -> Results \cup {None}], sent' \in [Ids -> Nat]
  PROVE  TypeOK'
  BY DEF TypeOK, asking, Asked

LEMMA ReturnType ==
  ASSUME TypeOK, NEW a \in Askers, NEW i \in Ids, NEW r \in Results, Return(a, i, r)
  PROVE  /\ pc' \in [Askers -> {"idle", "posting", "waiting", "leaving", "returning"}]
         /\ ret' \in [Ids -> Results \cup {None}]
         /\ UNCHANGED <<asking, cancelled, allowAll, allowed, told, sent, settled>>
  BY DEF TypeOK, Return, gate

\* The actions that deny everything pending.
LEMMA DenyAllType ==
  ASSUME TypeOK, NEW d \in BOOLEAN, DenyAll(d),
         attach' \in {"attached", "detached"}, phase' \in {"open", "requested", "closing", "done"},
         cancelled' \in [Askers -> BOOLEAN], UNCHANGED <<dispatched, gate, history, asking, pc>>
  PROVE  TypeOK'
<1>1. /\ faults' \in 0..MaxFaults /\ pending' = {}
      /\ deferred' = deferred \cup Reviewed(d) /\ Reviewed(d) \subseteq pending
      /\ store' \subseteq store \cup Reviewed(d)
      /\ result' = [i \in Ids |-> IF i \in pending
                                  THEN IF i \in Reviewed(d) THEN "recorded" ELSE "denied"
                                  ELSE result[i]]
  BY DenyAllEffect
<1>2. result' \in [Ids -> Results \cup {None}]
  BY <1>1 DEF TypeOK, Results, Denials
<1> QED
  BY <1>1, <1>2, TypeKept DEF TypeOK, gate, history

\* The steps of an asker.
LEMMA AskerType ==
  ASSUME TypeOK, AskInv, NEW a \in Askers, AskerStep(a)
  PROVE  TypeOK'
<1>0. /\ pc[a] # "idle" /\ cur[a] \in Asked /\ cur[a] \in Ids
      /\ Asked \subseteq Ids
  BY CurrentIsAsked DEF AskInv, AskerStep, Register, RefuseDetached, RefuseCancelled, RefuseClosed,
     Receive, GiveUp, Withdraw, LeaveClosed, SessionGone, Remember
<1> DEFINE i == cur[a]
<1>1. CASE Register(a)
  BY <1>0, <1>1, TypeKept DEF TypeOK, Register, gate, history
<1>2. CASE RefuseDetached(a)
  <2>1. PICK r \in Results : Return(a, i, r)
    BY <1>2 DEF RefuseDetached, Results, Denials
  <2>2. /\ faults' \in 0..MaxFaults /\ deferred \subseteq deferred' /\ deferred' \subseteq deferred \cup {i}
        /\ store' \subseteq deferred'
    <3>1. CASE UNCHANGED <<deferred, store, faults>>
      BY <3>1 DEF TypeOK
    <3>2. CASE Record({i})
      <4>1. IsFiniteSet({i}) /\ faults \in 0..MaxFaults /\ store \subseteq deferred
        BY FS_Singleton DEF TypeOK
      <4>2. /\ faults' \in 0..MaxFaults /\ deferred' = deferred \cup {i}
            /\ store' \subseteq store \cup {i}
        BY <3>2, <4>1, RecordEffect
      <4> QED
        BY <4>1, <4>2
    <3> QED
      BY <1>2, <3>1, <3>2 DEF RefuseDetached
  <2> QED
    BY <1>0, <1>2, <2>1, <2>2, ReturnType, TypeKept DEF TypeOK, RefuseDetached
<1>3. CASE RefuseCancelled(a) \/ RefuseClosed(a) \/ Receive(a) \/ LeaveClosed(a) \/ SessionGone(a)
  <2>1. UNCHANGED actor /\ \E r \in Results : Return(a, i, r)
    <3>1. {"cancelled", "closed"} \subseteq Results
      BY DEF Results, Denials
    <3>2. result[i] # None => result[i] \in Results
      BY <1>0 DEF TypeOK
    <3> QED
      BY <1>3, <3>1, <3>2 DEF RefuseCancelled, RefuseClosed, Receive, LeaveClosed, SessionGone
  <2> QED
    BY <1>0, <2>1, ReturnType, TypeKept DEF TypeOK, actor
<1>4. CASE GiveUp(a)
  BY <1>4, TypeKept DEF TypeOK, GiveUp, actor, gate, history
<1>5. CASE Withdraw(a)
  <2>1. Return(a, i, "cancelled") /\ "cancelled" \in Results
    BY <1>5 DEF Withdraw, Results, Denials
  <2>2. pending' \subseteq Asked /\ result' \in [Ids -> Results \cup {None}]
    BY <1>5 DEF Withdraw, FinishAll, TypeOK, Results, Denials
  <2> QED
    BY <1>0, <1>5, <2>1, <2>2, ReturnType, TypeKept DEF TypeOK, Withdraw
<1>6. CASE Remember(a)
  <2>1. reqs[i].key \in Keys
    BY <1>0, CurrentIsAsked DEF Request
  <2>2. allowAll' \in BOOLEAN
    <3>1. allowAll' = (allowAll \/ ret[i] = "allow_all")
      BY <1>6 DEF Remember
    <3> QED
      BY <3>1
  <2> QED
    BY <1>6, <2>1, <2>2, TypeKept DEF TypeOK, Remember, actor, history
<1> QED
  BY <1>1, <1>2, <1>3, <1>4, <1>5, <1>6 DEF AskerStep

\* What users and clients do.
LEMMA UserType ==
  ASSUME TypeOK,
         \/ \E i \in pending : \E d \in Results : Answer(i, d)
         \/ Attach
         \/ \E i \in deferred, send \in BOOLEAN : Resolve(i, send) \/ ResolveFails(i, send)
  PROVE  TypeOK'
<1>1. ASSUME NEW i \in pending, NEW d \in Results, Answer(i, d) PROVE TypeOK'
  <2>1. pending' \subseteq Asked /\ result' \in [Ids -> Results \cup {None}]
        /\ told' \in [Ids -> Results \cup {None}]
    BY <1>1 DEF Answer, FinishAll, TypeOK
  <2> QED
    BY <1>1, <2>1, TypeKept DEF Answer, TypeOK, gate
<1>2. CASE Attach
  BY <1>2, TypeKept DEF Attach, TypeOK, gate, history
<1>3. ASSUME NEW i \in deferred, NEW send \in BOOLEAN, Resolve(i, send) \/ ResolveFails(i, send)
      PROVE  TypeOK'
  <2>1. /\ dispatched' \subseteq dispatched \cup {i} /\ sent' \in [Ids -> Nat]
        /\ UNCHANGED <<attach, phase, pending, result, gate, told, ret, asking, pc, cancelled>>
    BY <1>3 DEF Resolve, ResolveFails, Dispatch, TypeOK
  <2>2. /\ deferred' \subseteq Asked /\ settled' \subseteq Asked /\ store' \subseteq deferred'
        /\ deferred \cup settled \subseteq deferred' \cup settled'
    BY <1>3 DEF Resolve, ResolveFails, TypeOK
  <2>3. faults' \in 0..MaxFaults
    BY <1>3, BoundsAssumption DEF Resolve, ResolveFails, TypeOK
  <2> QED
    BY <2>1, <2>2, <2>3, TypeKept DEF TypeOK, gate
<1> QED
  BY <1>1, <1>2, <1>3

LEMMA NextType == TypeOK /\ AskInv /\ [Next]_vars => TypeOK'
<1> SUFFICES ASSUME TypeOK, AskInv, [Next]_vars PROVE TypeOK'
  OBVIOUS
<1>1. ASSUME NEW a \in Askers, NextTurn(a) PROVE TypeOK'
  BY <1>1, TypeKept DEF NextTurn, TypeOK, actor, gate, history
<1>2. CASE Detach
  BY <1>2, DenyAllType DEF Detach, TypeOK
<1>3. CASE Abort
  BY <1>3, DenyAllType DEF Abort, TypeOK
<1>4. ASSUME NEW saysDetached \in BOOLEAN, CloseOnActor(saysDetached) PROVE TypeOK'
  BY <1>4, DenyAllType DEF CloseOnActor, TypeOK
<1>5. CASE RequestClose \/ CloseDone \/ CloseTimesOut
  BY <1>5, TypeKept DEF RequestClose, CloseDone, CloseTimesOut, TypeOK, gate, history
<1>6. CASE UNCHANGED vars
  BY <1>6, TypeKept DEF vars, actor, gate, history, TypeOK
<1>7. ASSUME NEW a \in Askers, AbortCompaction(a) PROVE TypeOK'
  BY <1>7, TypeKept DEF AbortCompaction, TypeOK, actor, gate, history
<1> QED
  BY <1>1, <1>2, <1>3, <1>4, <1>5, <1>6, <1>7, AskType, AskerType, UserType DEF Next

----------------------------------------------------------------------------
(* The invariant is inductive.                                             *)

LEMMA InitInv == Init => RequestInv
<1> SUFFICES ASSUME Init PROVE RequestInv
  OBVIOUS
<1>1. AskInv /\ PlaceInv /\ PendingInv /\ FreshInv /\ SentInv
  BY DEF Init, AskInv, PlaceInv, PendingInv, Awaited, Outlived, FreshInv, SentInv
<1>2. AnswerInv /\ GateInv
  BY DEF Init, AnswerInv, GateInv, None, Allows
<1>3. RunsAreAllowed /\ ReviewIsKept
  BY DEF Init, RunsAreAllowed, ReviewIsKept, Asked
<1> QED
  BY <1>1, <1>2, <1>3 DEF RequestInv

\* An asker leaves with an outcome that is nobody else's, and that is its
\* user's answer if it is a grant.
LEMMA ReturnKeeps ==
  ASSUME TypeOK, RequestInv, NEW a \in Askers, pc[a] \in {"posting", "waiting", "leaving"},
         NEW r \in Results, Return(a, cur[a], r),
         cur[a] \notin pending' \/ (phase = "requested" /\ pc[a] = "leaving" /\ r = "cancelled"),
         pending' = pending \/ pending' = pending \ {cur[a]},
         result' \in [Ids -> Results \cup {None}],
         \A j \in Ids : result'[j] = result[j] \/ (j = cur[a] /\ j \notin pending' /\ result'[j] = "cancelled"),
         r \in Allows => told[cur[a]] = r,
         r = "recorded" => cur[a] \in deferred' \cup settled,
         deferred' = deferred \/ (deferred' = deferred \cup {cur[a]} /\ pc[a] = "posting" /\ r \notin Allows),
         UNCHANGED <<attach, phase, dispatched>>
  PROVE  RequestInv'
<1> DEFINE i == cur[a]
<1>0. /\ i \in Asked /\ i \in Ids /\ reqs[i].by = a /\ ret[i] = None
      /\ Asked \subseteq Ids /\ pending \subseteq Asked /\ \A j \in Asked : reqs[j].by \in Askers
      /\ "cancelled" \notin Allows \cup {None, "recorded"}
  BY CurrentIsAsked DEF RequestInv, AskInv, PlaceInv, Request, TypeOK, Allows, None
<1>1. /\ ret' = [ret EXCEPT ![i] = r] /\ pc' = [pc EXCEPT ![a] = pc'[a]]
      /\ pc'[a] \in {"returning", "idle"}
      /\ UNCHANGED <<told, sent, settled, reqs, cur, cancelled, allowAll, allowed>>
  BY DEF Return, gate, asking, TypeOK
<1>2. AskInv'
  BY <1>0, <1>1 DEF RequestInv, AskInv, TypeOK, Asked
<1>3. PlaceInv'
  <2> SUFFICES ASSUME NEW b \in Askers, pc'[b] # "idle"
               PROVE  /\ pc'[b] = "posting" => /\ cur[b] \notin pending' /\ ~Done(cur[b])'
                                               /\ result'[cur[b]] = None /\ told[cur[b]] = None
                      /\ pc'[b] \in {"posting", "waiting", "leaving"} => ret'[cur[b]] = None
                      /\ pc'[b] = "waiting" => cur[b] \in pending' \/ result'[cur[b]] # None
                      /\ pc'[b] = "leaving" => Withdrawn(b)'
    BY <1>1 DEF PlaceInv
  <2>1. CASE b = a
    BY <1>1, <2>1
  <2>2. CASE b # a
    <3>1. pc'[b] = pc[b] /\ cur[b] \in Asked /\ cur[b] # i /\ cur[b] \in Ids
      BY <1>0, <1>1, <2>2 DEF RequestInv, AskInv, TypeOK
    <3>2. /\ result'[cur[b]] = result[cur[b]] /\ ret'[cur[b]] = ret[cur[b]]
          /\ cur[b] \in pending' <=> cur[b] \in pending
          /\ Done(cur[b])' => Done(cur[b])
      BY <1>0, <1>1, <3>1 DEF TypeOK, Done
    <3>3. Withdrawn(b)' <=> Withdrawn(b)
      BY <1>1 DEF Withdrawn
    <3> QED
      BY <3>1, <3>2, <3>3 DEF RequestInv, PlaceInv
  <2> QED
    BY <2>1, <2>2
<1>4. PendingInv'
  <2>1. attach' = "detached" \/ phase' \in {"closing", "done"} => pending' = {}
    BY DEF RequestInv, PendingInv, Awaited, Outlived
  <2>2. ASSUME NEW j \in pending'
        PROVE  /\ (Awaited(j)' /\ (reqs'[j].kind = "question" => ~cancelled'[reqs'[j].by])) \/ Outlived(j)'
               /\ result'[j] = None /\ told'[j] = None /\ ~Done(j)'
    <3>0. /\ j \in pending /\ j \in Ids
          /\ (Awaited(j) /\ (reqs[j].kind = "question" => ~cancelled[reqs[j].by])) \/ Outlived(j)
          /\ result[j] = None /\ told[j] = None /\ ~Done(j)
      BY <1>0, <2>2 DEF RequestInv, PendingInv, Awaited, Outlived
    <3>1. CASE j = i
      <4>1. phase = "requested" /\ pc[a] = "leaving" /\ r = "cancelled" /\ pending' = pending
        BY <2>2, <3>1
      <4>2. Outlived(i) /\ ret'[i] = "cancelled"
        BY <1>0, <1>1, <3>0, <3>1, <4>1 DEF Awaited, TypeOK
      <4>5. cur' = cur /\ reqs' = reqs /\ phase' = phase
        BY <1>1
      <4>3. deferred' = deferred /\ Outlived(i)'
        BY <4>1, <4>2, <4>5 DEF Outlived
      <4>4. result'[i] = None
        BY <2>2, <3>0, <3>1
      <4> QED
        BY <1>1, <3>0, <3>1, <4>3, <4>4 DEF Done
    <3>2. CASE j # i
      <4>1. result'[j] = None /\ told'[j] = None /\ ~Done(j)' /\ ret'[j] = ret[j]
        BY <1>0, <1>1, <3>0, <3>2 DEF Done, TypeOK
      <4>2. pc'[reqs[j].by] = pc[reqs[j].by] \/ cur[reqs[j].by] # j
        BY <1>0, <1>1, <3>0, <3>2 DEF TypeOK
      <4> QED
        BY <1>1, <3>0, <4>1, <4>2 DEF Awaited, Outlived
    <3> QED
      BY <3>1, <3>2
  <2> QED
    BY <2>1, <2>2 DEF PendingInv, Awaited, Outlived
<1>5. FreshInv' /\ SentInv'
  BY <1>0, <1>1 DEF RequestInv, FreshInv, SentInv, TypeOK, Asked
<1>6. AnswerInv'
  BY <1>0, <1>1 DEF RequestInv, AnswerInv, TypeOK, Allows
<1>7. GateInv'
  BY <1>0, <1>1 DEF RequestInv, GateInv, TypeOK, Asked, None
<1>8. RunsAreAllowed'
  <2> SUFFICES ASSUME NEW j \in Asked, Runs(j)'
               PROVE  \/ told[j] \in Allows
                      \/ \E k \in 1..(j - 1) :
                           /\ told[k] = "allow_all" \/ (told[k] = "allow_tool" /\ reqs[k].key = reqs[j].key)
                           /\ ret'[k] = told[k]
    BY <1>1 DEF RunsAreAllowed, Asked
  <2>1. CASE j = i
    BY <1>0, <1>1, <2>1 DEF Runs, TypeOK
  <2>2. CASE j # i
    <3>1. Runs(j)
      BY <1>0, <1>1, <2>2 DEF Runs, TypeOK
    <3>2. CASE told[j] \in Allows
      BY <3>2
    <3>3. ASSUME NEW k \in 1..(j - 1), ret[k] = told[k],
                 told[k] = "allow_all" \/ (told[k] = "allow_tool" /\ reqs[k].key = reqs[j].key)
          PROVE  ret'[k] = told[k]
      BY <1>0, <1>1, <3>3 DEF TypeOK, None
    <3> QED
      BY <3>1, <3>2, <3>3 DEF RequestInv, RunsAreAllowed
  <2> QED
    BY <2>1, <2>2
<1>9. ReviewIsKept'
  BY <1>0, <1>1 DEF RequestInv, PlaceInv, ReviewIsKept, Runs, Done, TypeOK, Asked, None
<1> QED
  BY <1>2, <1>3, <1>4, <1>5, <1>6, <1>7, <1>8, <1>9 DEF RequestInv

\* A denial of everything leaves nothing pending and no outcome but a refusal.
LEMMA DenyAllKeeps ==
  ASSUME TypeOK, RequestInv, NEW d \in BOOLEAN, DenyAll(d),
         cancelled' = cancelled \/ cancelled' = [a \in Askers |-> TRUE],
         UNCHANGED <<dispatched, gate, history, asking, pc>>
  PROVE  RequestInv'
<1>0. /\ pending' = {} /\ Reviewed(d) \subseteq pending
      /\ deferred' = deferred \cup Reviewed(d)
      /\ result' = [i \in Ids |-> IF i \in pending
                                  THEN IF i \in Reviewed(d) THEN "recorded" ELSE "denied"
                                  ELSE result[i]]
  BY DenyAllEffect
<1>1. UNCHANGED <<reqs, cur, allowAll, allowed, told, ret, sent, settled, dispatched, pc>>
  BY DEF gate, history, asking
<1>2. /\ Asked \subseteq Ids /\ pending \subseteq Ids /\ Asked' = Asked
      /\ \A a \in Askers : pc[a] # "idle" => cur[a] \in Asked
  BY <1>1, CurrentIsAsked DEF RequestInv, AskInv, TypeOK, Asked
<1>3. \A a \in Askers : Withdrawn(a) => Withdrawn(a)'
  BY <1>1 DEF Withdrawn
<1>4. AskInv'
  BY <1>1, <1>2 DEF RequestInv, AskInv
<1>5. PlaceInv'
  BY <1>0, <1>1, <1>2, <1>3 DEF RequestInv, PlaceInv, Done, None
<1>6. PendingInv'
  BY <1>0 DEF PendingInv, Awaited, Outlived
<1>7. FreshInv' /\ SentInv'
  BY <1>0, <1>1, <1>2 DEF RequestInv, FreshInv, SentInv, TypeOK
<1>8. AnswerInv'
  BY <1>0, <1>1 DEF RequestInv, AnswerInv, Allows
<1>9. GateInv' /\ RunsAreAllowed'
  BY <1>1, <1>2 DEF RequestInv, GateInv, RunsAreAllowed, Runs
<1>10. ReviewIsKept'
  BY <1>0, <1>1, <1>2 DEF RequestInv, PendingInv, Awaited, Outlived, ReviewIsKept, Runs, Done, Allows, None
<1> QED
  BY <1>4, <1>5, <1>6, <1>7, <1>8, <1>9, <1>10 DEF RequestInv

\* A new request has no history; it passes the gate only by an earlier grant.
LEMMA AskKeeps ==
  ASSUME TypeOK, RequestInv, NEW a \in Askers, NEW key \in Keys,
         PassGate(a, key) \/ \E kind \in Kinds : Ask(a, kind, key)
  PROVE  RequestInv'
<1> DEFINE n == Len(reqs) + 1
<1>0. PICK r \in Request : reqs' = Append(reqs, r) /\ Len(reqs) < MaxAsks /\ r.by = a /\ r.key = key
  <2>1. CASE PassGate(a, key)
    BY <2>1 DEF PassGate, Request, Kinds
  <2>2. CASE \E kind \in Kinds : Ask(a, kind, key)
    BY <2>2 DEF Ask, Request
  <2> QED
    BY <2>1, <2>2
<1>1. /\ Asked = 1..Len(reqs) /\ Len(reqs) \in Nat /\ Asked' = Asked \cup {n} /\ n \notin Asked /\ n \in Ids
      /\ reqs'[n] = r /\ \A i \in Asked : reqs'[i] = reqs[i]
  BY <1>0, AppendRequest, BoundsAssumption DEF TypeOK, Request, Ids
<1>2. /\ Asked \subseteq Ids /\ \A i \in Asked : reqs[i].by \in Askers
      /\ result[n] = None /\ told[n] = None /\ ret[n] = None
      /\ n \notin pending /\ ~Done(n) /\ n \notin dispatched
  BY <1>1, CurrentIsAsked DEF RequestInv, FreshInv, TypeOK, Request, Done
<1>3. /\ UNCHANGED <<attach, phase, pending, result, deferred, store, dispatched, faults,
                     allowAll, allowed, told, sent, settled>>
      /\ pc[a] = "idle" /\ \A b \in Askers : b # a => cancelled'[b] = cancelled[b]
  BY DEF PassGate, Ask, actor, gate, history, TypeOK
<1>4. \/ /\ UNCHANGED <<cur, pc>> /\ ret' = [ret EXCEPT ![n] = "allow"] /\ Granted(key)
      \/ /\ cur' = [cur EXCEPT ![a] = n] /\ pc' = [pc EXCEPT ![a] = "posting"] /\ ret' = ret
  BY DEF PassGate, Ask, history
<1>5. AskInv'
  BY <1>0, <1>1, <1>4 DEF RequestInv, AskInv, TypeOK
<1>6. PlaceInv'
  <2> SUFFICES ASSUME NEW b \in Askers
               PROVE  /\ pc'[b] = "posting" => /\ cur'[b] \notin pending /\ ~Done(cur'[b])
                                               /\ result[cur'[b]] = None /\ told[cur'[b]] = None
                      /\ pc'[b] \in {"posting", "waiting", "leaving"} => ret'[cur'[b]] = None
                      /\ pc'[b] = "waiting" => cur'[b] \in pending \/ result[cur'[b]] # None
                      /\ pc'[b] = "leaving" => Withdrawn(b)'
    BY <1>3 DEF PlaceInv, Done
  <2>1. CASE pc'[b] = pc[b] /\ cur'[b] = cur[b] /\ pc[b] # "idle"
    <3>1. cur[b] \in Asked /\ ret'[cur[b]] = ret[cur[b]]
      BY <1>1, <1>2, <1>4, <2>1 DEF RequestInv, AskInv, TypeOK
    <3>2. Withdrawn(b) => Withdrawn(b)'
      BY <1>1, <1>3, <2>1, <3>1 DEF Withdrawn
    <3> QED
      BY <2>1, <3>1, <3>2 DEF RequestInv, PlaceInv
  <2>2. CASE pc'[b] = "posting" /\ cur'[b] = n /\ ret' = ret
    BY <1>2, <2>2
  <2>3. CASE pc'[b] = "idle"
    BY <2>3
  <2> QED
    BY <1>3, <1>4, <2>1, <2>2, <2>3 DEF TypeOK
<1>7. PendingInv'
  <2>1. attach' = "detached" \/ phase' \in {"closing", "done"} => pending' = {}
    BY <1>3 DEF RequestInv, PendingInv, Awaited, Outlived
  <2>2. ASSUME NEW i \in pending
        PROVE  /\ (Awaited(i)' /\ (reqs'[i].kind = "question" => ~cancelled'[reqs'[i].by])) \/ Outlived(i)'
               /\ result'[i] = None /\ told'[i] = None /\ ~Done(i)'
    <3>1. /\ i \in Asked /\ reqs'[i] = reqs[i] /\ reqs[i].by \in Askers /\ ret'[i] = ret[i]
      BY <1>1, <1>2, <1>4 DEF TypeOK
    <3>2. /\ (Awaited(i) /\ (reqs[i].kind = "question" => ~cancelled[reqs[i].by])) \/ Outlived(i)
          /\ result[i] = None /\ told[i] = None /\ ~Done(i)
      BY DEF RequestInv, PendingInv, Awaited, Outlived
    <3>3. result'[i] = None /\ told'[i] = None /\ ~Done(i)'
      BY <1>3, <3>2 DEF Done
    <3>4. pc[reqs[i].by] # "idle" => /\ pc'[reqs[i].by] = pc[reqs[i].by]
                                     /\ cur'[reqs[i].by] = cur[reqs[i].by]
                                     /\ cancelled'[reqs[i].by] = cancelled[reqs[i].by]
      BY <1>3, <1>4, <3>1 DEF TypeOK
    <3>5. CASE Awaited(i) /\ (reqs[i].kind = "question" => ~cancelled[reqs[i].by])
      BY <3>1, <3>3, <3>4, <3>5 DEF Awaited
    <3>6. CASE Outlived(i)
      BY <1>3, <3>1, <3>3, <3>4, <3>6 DEF Outlived
    <3> QED
      BY <3>2, <3>5, <3>6
  <2> QED
    BY <1>3, <2>1, <2>2 DEF PendingInv, Awaited, Outlived
<1>8. FreshInv' /\ SentInv'
  BY <1>1, <1>3, <1>4 DEF RequestInv, FreshInv, SentInv, TypeOK
<1>9. AnswerInv'
  BY <1>2, <1>3, <1>4 DEF RequestInv, AnswerInv, TypeOK
<1>10. GateInv'
  <2>1. \A j \in Asked : told[j] # None /\ ret[j] = told[j] => ret'[j] = told'[j]
    BY <1>1, <1>2, <1>3, <1>4 DEF TypeOK
  <2>2. \A j \in Asked : reqs'[j].key = reqs[j].key
    BY <1>1
  <2> QED
    BY <1>1, <1>3, <2>1, <2>2 DEF RequestInv, GateInv, None
<1>11. RunsAreAllowed'
  <2>0. told' = told
    BY <1>3
  <2> SUFFICES ASSUME NEW i \in Asked', Runs(i)'
               PROVE  \/ told'[i] \in Allows
                      \/ \E j \in 1..(i - 1) :
                           /\ told'[j] = "allow_all" \/ (told'[j] = "allow_tool" /\ reqs'[j].key = reqs'[i].key)
                           /\ ret'[j] = told'[j]
    BY DEF RunsAreAllowed
  <2>1. \A j \in Asked : ret'[j] = ret[j] /\ reqs'[j] = reqs[j]
    BY <1>1, <1>2, <1>4 DEF TypeOK
  <2>2. CASE i = n
    <3>1. ret'[n] \in Allows
      BY <2>2 DEF Runs
    <3>2. Granted(key)
      BY <1>2, <1>4, <3>1 DEF Allows, None
    <3>3. 1..(i - 1) = Asked /\ reqs'[i].key = key
      BY <1>0, <1>1, <2>2
    <3>4. PICK j \in Asked : /\ told[j] = "allow_all" \/ (told[j] = "allow_tool" /\ reqs[j].key = key)
                             /\ ret[j] = told[j]
      BY <3>2 DEF Granted, RequestInv, GateInv
    <3> QED
      BY <2>0, <2>1, <3>3, <3>4
  <2>3. CASE i \in Asked
    <3>1. Runs(i) /\ 1..(i - 1) \subseteq Asked
      BY <1>1, <2>1, <2>3 DEF Runs
    <3> QED
      BY <2>0, <2>1, <2>3, <3>1 DEF RequestInv, RunsAreAllowed
  <2> QED
    BY <1>1, <2>2, <2>3
<1>12. ReviewIsKept'
  <2> SUFFICES ASSUME NEW i \in Asked'
               PROVE  /\ ret'[i] = "recorded" \/ result[i] = "recorded" => Done(i)
                      /\ Done(i) => told[i] = None /\ ~Runs(i)'
                      /\ sent[i] <= 1
    BY <1>3 DEF ReviewIsKept, Done
  <2>1. CASE i = n
    <3>1. ret'[i] # "recorded" /\ result[i] # "recorded"
      BY <1>1, <1>2, <1>4, <2>1 DEF None, TypeOK
    <3> QED
      BY <1>1, <1>2, <2>1, <3>1 DEF RequestInv, SentInv
  <2>2. CASE i \in Asked
    <3>1. ret'[i] = ret[i] /\ reqs'[i] = reqs[i]
      BY <1>1, <1>2, <1>4, <2>2 DEF TypeOK
    <3> QED
      BY <2>2, <3>1 DEF RequestInv, ReviewIsKept, Runs, Done
  <2> QED
    BY <1>1, <2>1, <2>2
<1> QED
  BY <1>5, <1>6, <1>7, <1>8, <1>9, <1>10, <1>11, <1>12 DEF RequestInv

LEMMA AskerKeeps ==
  ASSUME TypeOK, RequestInv, NEW a \in Askers, AskerStep(a)
  PROVE  RequestInv'
<1> DEFINE i == cur[a]
<1>0. /\ pc[a] # "idle" /\ i \in Asked /\ i \in Ids /\ reqs[i].by = a
      /\ Asked = 1..Len(reqs) /\ Asked \subseteq Ids /\ \A j \in Asked : reqs[j].by \in Askers
  BY CurrentIsAsked DEF RequestInv, AskInv, AskerStep, Register, RefuseDetached, RefuseCancelled,
     RefuseClosed, Receive, GiveUp, Withdraw, LeaveClosed, SessionGone, Remember, Request
<1>1. CASE Register(a)
  <2>1. /\ pending' = pending \cup {i} /\ pc' = [pc EXCEPT ![a] = "waiting"] /\ pc[a] = "posting"
        /\ attach = "attached" /\ phase \in {"open", "requested"} /\ ~Withdrawn(a)
        /\ UNCHANGED <<attach, phase, result, deferred, store, dispatched, faults, allowAll, allowed,
                       told, ret, sent, settled, reqs, cur, cancelled>>
    BY <1>1 DEF Register, Running, gate, history, asking
  <2>2. AskInv' /\ FreshInv' /\ SentInv' /\ AnswerInv' /\ GateInv' /\ RunsAreAllowed' /\ ReviewIsKept'
    BY <1>0, <2>1 DEF RequestInv, AskInv, FreshInv, SentInv, AnswerInv, GateInv, RunsAreAllowed,
       ReviewIsKept, Runs, Asked, TypeOK
  <2>3. PlaceInv'
    BY <1>0, <2>1 DEF RequestInv, AskInv, PlaceInv, Done, Withdrawn, TypeOK
  <2>4. PendingInv'
    BY <1>0, <2>1 DEF RequestInv, PlaceInv, PendingInv, Awaited, Outlived, Done, Withdrawn, TypeOK
  <2> QED
    BY <2>2, <2>3, <2>4 DEF RequestInv
<1>2. CASE RefuseDetached(a)
  <2>1. /\ pc[a] = "posting" /\ i \notin pending
        /\ UNCHANGED <<attach, phase, pending, result, dispatched>>
        /\ result \in [Ids -> Results \cup {None}]
    BY <1>2 DEF RefuseDetached, RequestInv, PlaceInv, TypeOK
  <2>2. CASE Return(a, i, "unattached") /\ UNCHANGED deferred
    BY <2>1, <2>2, ReturnKeeps DEF Results, Denials, Allows
  <2>3. CASE Return(a, i, "recorded") /\ Record({i})
    <3>1. deferred' = deferred \cup {i}
      BY <2>3, RecordEffect, FS_Singleton DEF TypeOK
    <3> QED
      BY <2>1, <2>3, <3>1, ReturnKeeps DEF Results, Denials, Allows
  <2> QED
    BY <1>2, <2>2, <2>3 DEF RefuseDetached
<1>3. CASE RefuseCancelled(a) \/ RefuseClosed(a) \/ LeaveClosed(a) \/ SessionGone(a)
  <2>1. PICK r \in {"cancelled", "closed"} : Return(a, i, r)
    BY <1>3 DEF RefuseCancelled, RefuseClosed, LeaveClosed, SessionGone
  <2>2. /\ pc[a] \in {"posting", "waiting", "leaving"} /\ result \in [Ids -> Results \cup {None}]
        /\ UNCHANGED <<attach, phase, pending, result, dispatched, deferred>>
    BY <1>0, <1>3 DEF RefuseCancelled, RefuseClosed, LeaveClosed, SessionGone, actor, TypeOK
  <2>4. i \notin pending \/ (phase = "requested" /\ pc[a] = "leaving" /\ r = "cancelled")
    <3>1. CASE RefuseCancelled(a) \/ RefuseClosed(a)
      BY <3>1 DEF RefuseCancelled, RefuseClosed, RequestInv, PlaceInv
    <3>2. CASE SessionGone(a)
      BY <3>2 DEF SessionGone, RequestInv, PendingInv, Awaited, Outlived
    <3>3. CASE LeaveClosed(a)
      <4>1. pc[a] = "leaving" /\ phase \in {"requested", "closing", "done"}
        BY <3>3 DEF LeaveClosed, Refusing, TypeOK
      <4>2. r = "cancelled"
        BY <1>0, <2>1, <3>3 DEF LeaveClosed, Return, TypeOK
      <4> QED
        BY <4>1, <4>2 DEF RequestInv, PendingInv, Awaited, Outlived
    <3> QED
      BY <1>3, <3>1, <3>2, <3>3
  <2>3. r \in Results /\ r \notin Allows /\ r # "recorded"
    BY DEF Results, Denials, Allows
  <2> QED
    BY <2>1, <2>2, <2>3, <2>4, ReturnKeeps
<1>4. CASE Receive(a)
  <2>1. /\ pc[a] = "waiting" /\ result[i] # None /\ Return(a, i, result[i])
        /\ UNCHANGED <<attach, phase, pending, result, dispatched, deferred>>
        /\ result \in [Ids -> Results \cup {None}]
    BY <1>4 DEF Receive, actor, TypeOK
  <2>2. /\ result[i] \in Results /\ i \notin pending
        /\ result[i] \in Allows => told[i] = result[i]
        /\ result[i] = "recorded" => Done(i)
    BY <1>0, <2>1 DEF TypeOK, RequestInv, PendingInv, Awaited, Outlived, AnswerInv, ReviewIsKept, Done
  <2> QED
    BY <2>1, <2>2, ReturnKeeps DEF Done
<1>5. CASE GiveUp(a)
  <2>1. /\ pc' = [pc EXCEPT ![a] = "leaving"] /\ pc[a] = "waiting" /\ Withdrawn(a)
        /\ UNCHANGED <<attach, phase, pending, result, deferred, store, dispatched, faults, allowAll,
                       allowed, told, ret, sent, settled, reqs, cur, cancelled>>
    BY <1>5 DEF GiveUp, actor, gate, history, asking
  <2>2. AskInv' /\ FreshInv' /\ SentInv' /\ AnswerInv' /\ GateInv' /\ RunsAreAllowed' /\ ReviewIsKept'
    BY <1>0, <2>1 DEF RequestInv, AskInv, FreshInv, SentInv, AnswerInv, GateInv, RunsAreAllowed,
       ReviewIsKept, Runs, Asked, TypeOK
  <2>3. PlaceInv'
    BY <1>0, <2>1 DEF RequestInv, PlaceInv, Done, Withdrawn, TypeOK
  <2>4. PendingInv'
    BY <1>0, <2>1 DEF RequestInv, PendingInv, Awaited, Outlived, Done, Withdrawn, TypeOK
  <2> QED
    BY <2>2, <2>3, <2>4 DEF RequestInv
<1>6. CASE Withdraw(a)
  <2>1. /\ pending' = pending \ {i} /\ result' \in [Ids -> Results \cup {None}]
        /\ \A j \in Ids : result'[j] = result[j] \/ (j = i /\ result'[j] = "cancelled")
    BY <1>6 DEF Withdraw, FinishAll, TypeOK, Results, Denials
  <2>2. /\ pc[a] = "leaving" /\ Return(a, i, "cancelled")
        /\ UNCHANGED <<attach, phase, dispatched, deferred>>
    BY <1>6 DEF Withdraw
  <2> QED
    BY <2>1, <2>2, ReturnKeeps DEF Results, Denials, Allows
<1>7. CASE Remember(a)
  <2>1. /\ pc' = [pc EXCEPT ![a] = "idle"] /\ pc[a] = "returning"
        /\ allowAll' = (allowAll \/ ret[i] = "allow_all")
        /\ allowed' \subseteq allowed \cup {key \in Keys : ret[i] = "allow_tool" /\ key = reqs[i].key}
        /\ UNCHANGED <<attach, phase, pending, result, deferred, store, dispatched, faults, told, ret,
                       sent, settled, reqs, cur, cancelled>>
    <3>1. reqs[i].key \in Keys
      BY <1>0, CurrentIsAsked DEF Request
    <3> QED
      BY <1>7, <3>1 DEF Remember, actor, history, asking
  <2>2. AskInv' /\ FreshInv' /\ SentInv' /\ AnswerInv' /\ RunsAreAllowed' /\ ReviewIsKept'
    BY <1>0, <2>1 DEF RequestInv, AskInv, FreshInv, SentInv, AnswerInv, RunsAreAllowed,
       ReviewIsKept, Runs, Asked, TypeOK
  <2>3. PlaceInv' /\ PendingInv'
    BY <1>0, <2>1 DEF RequestInv, PlaceInv, PendingInv, Awaited, Outlived, Done, Withdrawn, TypeOK
  <2>4. GateInv'
    <3>1. ret[i] \in {"allow_tool", "allow_all"} => told[i] = ret[i]
      BY <1>0 DEF RequestInv, AnswerInv
    <3> QED
      BY <1>0, <2>1, <3>1 DEF RequestInv, GateInv, Asked
  <2> QED
    BY <2>2, <2>3, <2>4 DEF RequestInv
<1> QED
  BY <1>1, <1>2, <1>3, <1>4, <1>5, <1>6, <1>7 DEF AskerStep

LEMMA UserKeeps ==
  ASSUME TypeOK, RequestInv,
         \/ \E i \in pending : \E d \in Results : Answer(i, d)
         \/ Attach
         \/ \E i \in deferred, send \in BOOLEAN : Resolve(i, send) \/ ResolveFails(i, send)
  PROVE  RequestInv'
<1>0. /\ Asked \subseteq Ids /\ Asked = 1..Len(reqs) /\ deferred \subseteq Asked /\ pending \subseteq Asked
      /\ \A j \in Asked : reqs[j].by \in Askers
  BY CurrentIsAsked, AskersAssumption DEF TypeOK, Request
<1>1. ASSUME NEW i \in pending, NEW d \in Results, Answer(i, d) PROVE RequestInv'
  <2>1. /\ i \in Ids /\ i \in Asked /\ ret[i] \in {None, "cancelled"} /\ told[i] = None
        /\ result[i] = None /\ ~Done(i)
        /\ \A b \in Askers : pc[b] = "posting" => cur[b] # i
    BY <1>0 DEF RequestInv, PendingInv, PlaceInv, Awaited, Outlived
  <2>2. d \in Answers(reqs[i].kind) /\ d # None /\ d # "recorded"
    BY <1>1 DEF Answer, Answers, Allows, None
  <2>3. /\ result' = [result EXCEPT ![i] = d] /\ told' = [told EXCEPT ![i] = d]
        /\ pending' = pending \ {i}
    BY <1>0, <1>1 DEF Answer, FinishAll, TypeOK
  <2>4. UNCHANGED <<attach, phase, deferred, store, dispatched, faults, allowAll, allowed, ret, sent,
                    settled, reqs, cur, pc, cancelled>>
    BY <1>1 DEF Answer, gate, asking
  <2>5. AskInv' /\ FreshInv' /\ SentInv'
    BY <2>1, <2>3, <2>4 DEF RequestInv, AskInv, FreshInv, SentInv, Asked, TypeOK
  <2>6. PlaceInv'
    BY <1>0, <2>1, <2>2, <2>3, <2>4 DEF RequestInv, AskInv, PlaceInv, Done, Withdrawn, TypeOK
  <2>7. PendingInv'
    BY <1>0, <2>1, <2>3, <2>4 DEF RequestInv, PendingInv, Awaited, Outlived, Done, Withdrawn, TypeOK
  <2>8. AnswerInv'
    BY <1>0, <2>1, <2>3, <2>4 DEF RequestInv, AnswerInv, None, TypeOK
  <2>9. \A j \in Asked : ret[j] \notin {None, "cancelled"} => told'[j] = told[j]
    BY <1>0, <2>1, <2>3 DEF TypeOK
  <2>10. GateInv'
    BY <2>4, <2>9 DEF RequestInv, GateInv, Asked, None
  <2>11. RunsAreAllowed'
    <3> SUFFICES ASSUME NEW j \in Asked, Runs(j)
                 PROVE  \/ told'[j] \in Allows
                        \/ \E k \in 1..(j - 1) :
                             /\ told'[k] = "allow_all" \/ (told'[k] = "allow_tool" /\ reqs[k].key = reqs[j].key)
                             /\ ret[k] = told'[k]
      BY <2>4 DEF RunsAreAllowed, Runs, Asked
    <3>1. told'[j] = told[j]
      BY <2>9 DEF Runs, Allows, None
    <3>2. 1..(j - 1) \subseteq Asked
      BY <1>0
    <3> QED
      BY <2>9, <3>1, <3>2 DEF RequestInv, RunsAreAllowed, None
  <2>12. ReviewIsKept'
    BY <1>0, <2>1, <2>2, <2>3, <2>4 DEF RequestInv, ReviewIsKept, Runs, Done, Asked, TypeOK
  <2> QED
    BY <2>5, <2>6, <2>7, <2>8, <2>10, <2>11, <2>12 DEF RequestInv
<1>2. CASE Attach
  <2>1. /\ attach' = "attached" /\ phase \in {"open", "requested"}
        /\ UNCHANGED <<phase, pending, result, deferred, store, dispatched, faults, allowAll, allowed, told,
                       ret, sent, settled, reqs, cur, pc, cancelled>>
    BY <1>2 DEF Attach, Running, gate, history, asking
  <2>2. PendingInv'
    BY <2>1 DEF RequestInv, PendingInv, Awaited, Outlived, Done, Withdrawn
  <2> QED
    BY <2>1, <2>2 DEF RequestInv, AskInv, PlaceInv, FreshInv, AnswerInv, GateInv, SentInv, RunsAreAllowed,
       ReviewIsKept, Runs, Done, Withdrawn, Asked
<1>3. ASSUME NEW i \in deferred, NEW send \in BOOLEAN, Resolve(i, send) \/ ResolveFails(i, send)
      PROVE  RequestInv'
  <2>1. /\ UNCHANGED <<attach, phase, pending, result, allowAll, allowed, told, ret, reqs, cur, pc, cancelled>>
        /\ deferred' \cup settled' = deferred \cup settled
    BY <1>3 DEF Resolve, ResolveFails, gate, asking
  <2>2. \A j : Done(j)' <=> Done(j)
    BY <2>1 DEF Done
  <2>3. SentInv'
    BY <1>0, <1>3 DEF Resolve, ResolveFails, Dispatch, ToSend, RequestInv, SentInv, TypeOK
  <2>4. AskInv' /\ FreshInv' /\ AnswerInv' /\ GateInv' /\ RunsAreAllowed'
    BY <2>1 DEF RequestInv, AskInv, FreshInv, AnswerInv, GateInv, RunsAreAllowed, Runs, Asked
  <2>5. PlaceInv' /\ PendingInv'
    BY <2>1, <2>2 DEF RequestInv, PlaceInv, PendingInv, Awaited, Outlived, Withdrawn
  <2>6. ReviewIsKept'
    BY <1>0, <2>1, <2>2, <2>3 DEF RequestInv, ReviewIsKept, Runs, Done, Asked, SentInv
  <2> QED
    BY <2>3, <2>4, <2>5, <2>6 DEF RequestInv
<1> QED
  BY <1>1, <1>2, <1>3

LEMMA NextInv == TypeOK /\ RequestInv /\ [Next]_vars => RequestInv'
<1> SUFFICES ASSUME TypeOK, RequestInv, [Next]_vars PROVE RequestInv'
  OBVIOUS
<1>1. ASSUME NEW a \in Askers, NextTurn(a) PROVE RequestInv'
  <2>1. /\ pc[a] = "idle" /\ cancelled' = [cancelled EXCEPT ![a] = FALSE]
        /\ UNCHANGED <<attach, phase, pending, result, deferred, store, dispatched, faults, allowAll, allowed,
                       told, ret, sent, settled, reqs, cur, pc>>
    BY <1>1 DEF NextTurn, actor, gate, history, asking
  <2>2. PlaceInv' /\ PendingInv'
    BY <2>1, CurrentIsAsked DEF RequestInv, PlaceInv, PendingInv, Awaited, Outlived, Done, Withdrawn, Request, TypeOK
  <2> QED
    BY <2>1, <2>2 DEF RequestInv, AskInv, FreshInv, AnswerInv, GateInv, SentInv, RunsAreAllowed,
       ReviewIsKept, Runs, Asked
<1>2. CASE Detach
  BY <1>2, DenyAllKeeps DEF Detach
<1>3. CASE Abort
  BY <1>3, DenyAllKeeps DEF Abort
<1>4. ASSUME NEW saysDetached \in BOOLEAN, CloseOnActor(saysDetached) PROVE RequestInv'
  BY <1>4, DenyAllKeeps DEF CloseOnActor
<1>5. CASE RequestClose \/ CloseDone \/ CloseTimesOut
  <2>1. /\ phase' \in {"closing", "done"} => phase = "closing"
        /\ phase = "requested" => phase' = "requested"
        /\ UNCHANGED <<attach, pending, result, deferred, store, dispatched, faults, allowAll, allowed,
                       told, ret, sent, settled, reqs, cur, pc, cancelled>>
    BY <1>5 DEF RequestClose, CloseDone, CloseTimesOut, gate, history, asking
  <2>2. PendingInv'
    BY <2>1 DEF RequestInv, PendingInv, Awaited, Outlived, Done, Withdrawn
  <2> QED
    BY <2>1, <2>2 DEF RequestInv, AskInv, PlaceInv, FreshInv, AnswerInv, GateInv, SentInv, RunsAreAllowed,
       ReviewIsKept, Runs, Done, Withdrawn, Asked
<1>7. ASSUME NEW a \in Askers, AbortCompaction(a) PROVE RequestInv'
  <2>1. /\ pc[a] # "idle" /\ reqs[cur[a]].kind = "compaction"
        /\ cancelled' = [cancelled EXCEPT ![a] = TRUE]
        /\ UNCHANGED <<attach, phase, pending, result, deferred, store, dispatched, faults, allowAll, allowed,
                       told, ret, sent, settled, reqs, cur, pc>>
    BY <1>7 DEF AbortCompaction, Compacting, actor, gate, history, asking
  <2>2. PlaceInv'
    BY <2>1 DEF RequestInv, PlaceInv, Done, Withdrawn, TypeOK
  <2>3. PendingInv'
    BY <2>1, CurrentIsAsked DEF RequestInv, PendingInv, Awaited, Outlived, Done, Request, TypeOK
  <2> QED
    BY <2>1, <2>2, <2>3 DEF RequestInv, AskInv, FreshInv, AnswerInv, GateInv, SentInv, RunsAreAllowed,
       ReviewIsKept, Runs, Asked
<1>6. CASE UNCHANGED vars
  BY <1>6 DEF vars, actor, gate, history, asking, RequestInv, AskInv, PlaceInv, PendingInv, Awaited, Outlived, FreshInv, AnswerInv,
     GateInv, SentInv, RunsAreAllowed, ReviewIsKept, Runs, Done, Withdrawn, Asked
<1> QED
  BY <1>1, <1>2, <1>3, <1>4, <1>5, <1>6, <1>7, AskKeeps, AskerKeeps, UserKeeps DEF Next

----------------------------------------------------------------------------
(* The theorems.                                                           *)

\* Every reachable state satisfies the types and the inductive invariant.
THEOREM RequestInvariant == Spec => [](TypeOK /\ RequestInv)
<1>1. Init => TypeOK /\ RequestInv
  BY InitType, InitInv
<1>2. (TypeOK /\ RequestInv) /\ [Next]_vars => (TypeOK /\ RequestInv)'
  BY NextType, NextInv DEF RequestInv
<1> QED
  BY <1>1, <1>2, PTL DEF Spec

\* A prompt is there only for an asker that waits for it and a user who can
\* answer it, and whoever waits has a prompt or a result: no detach, abort or
\* close in between leaves one without the other (confirm.go:208).
THEOREM PromptsSafe == Spec => []PromptsHaveAskers
<1>1. TypeOK /\ RequestInv => PromptsHaveAskers
  BY DEF TypeOK, RequestInv, PlaceInv, PendingInv, Awaited, Outlived, PromptsHaveAskers
<1> QED
  BY <1>1, RequestInvariant, PTL

\* No tool runs without the grant of a user, given to its call or before to its
\* tool, however late and in whatever order the answers come (core/confirm.go:128).
THEOREM RunsSafe == Spec => []RunsAreAllowed
<1>1. RequestInv => RunsAreAllowed
  BY DEF RequestInv
<1> QED
  BY <1>1, RequestInvariant, PTL

\* What is recorded stays reviewable until a user settles it, does not run, and
\* is approved at most once, whatever writes of the store fail (confirm.go:266).
THEOREM ReviewSafe == Spec => []ReviewIsKept
<1>1. RequestInv => ReviewIsKept
  BY DEF RequestInv
<1> QED
  BY <1>1, RequestInvariant, PTL

=============================================================================
