------------------------- MODULE SessionTurnProofs -------------------------
(***************************************************************************)
(* Proofs about SessionTurn, for any prompts, reports and scheduled tasks. *)
(***************************************************************************)
EXTENDS SessionTurn, SequenceFacts

----------------------------------------------------------------------------
(* The inductive invariant.                                                *)

Fates == {"new", "running", "completed", "waiting", "told", "gone", "returned", "cleared"}
Goals == [is : {"none", "stopped", "paused", "active"}, armed : BOOLEAN, run : {"no", "yes", "stale"}]
Compactions == [stage : {"off", "summary", "asked", "chosen", "again", "ok", "failed"},
                aborted : BOOLEAN, rescuing : BOOLEAN, next : Items \cup {{}}]
Rescues == [stage : {"off", "starting", "asked", "chosen", "swapped", "over"}, item : Items \cup {{}}]
Lefts == [queue : Seq(Items), pending : Seq(Users \cup Reports), goal : Goals,
          fate : [Inputs -> Fates], skip : BOOLEAN, compact : Compactions, rescue : Rescues]

Distinct(s) == \A i, j \in DOMAIN s : s[i] = s[j] => i = j
Apart(q) == \A i, j \in DOMAIN q : q[i] \cap q[j] # {} => i = j

Queued(w) == Members(w.queue) \cup ToSet(w.pending)
GivenBack(w) == \E i \in Inputs : w.fate[i] \in {"returned", "cleared"}

\* What waits is in one place: an entry of the queue, a place of the agent's queue, or
\* X, which is about to start.  A follow-up of the goal waits under a lease.
Sound(w, X) ==
  /\ Apart(w.queue) /\ Distinct(w.pending)
  /\ Members(w.queue) \cap ToSet(w.pending) = {}
  /\ X \cap Queued(w) = {}
  /\ \A i \in Inputs : w.fate[i] = "waiting" <=> i \in Queued(w) \cup X
  /\ Goal \in Queued(w) \cup X => w.goal.run # "no"

\* What holds of a session that is idle, but for Y, which is about to start.
Resting(w, Y) ==
  \/ w.goal.run = "no" /\ ToSet(w.pending) \subseteq Reports
  \/ w.queue # <<>> \/ GivenBack(w) \/ Y # {}

Owners ==
  /\ loop = "off" => in = {} /\ ~ cancelled
  /\ compact.stage = "off" => compact = NoCompaction
  /\ rescue.stage = "off" => rescue = NoRescue
  /\ rescue.stage # "off" => rescue.item # {}
  /\ loop # "off" => compact.stage = "off" /\ rescue.stage = "off"
  /\ compact.stage # "off" => rescue.stage = "off"

Starting == IF loop = "start" THEN in ELSE {}
Hand == Starting \cup compact.next

\* What a turn began with has reached the model when its first request is sent.
Told ==
  /\ loop = "boundary" => \A i \in in : fate[i] = "told" \/ i \in ToSet(pending) \cap Reports
  /\ loop \notin {"off", "start", "boundary"} => \A i \in in : fate[i] = "told"
  /\ \A i \in rescue.item : fate[i] = "told"

Leased == Goal \in in \cup rescue.item => goal.run # "no"

TurnInv ==
  /\ Left \in Lefts /\ in \in Items \cup {{}} /\ cancelled \in BOOLEAN
  /\ loop \in {"off", "start", "boundary", "request", "ok", "blocked", "failed",
               "rescuable", "repeated", "cancelled"}
  /\ Owners /\ Sound(Left, Hand) /\ Told /\ Leased
  /\ loop = "off" /\ rescue.stage = "off" => Resting(Left, compact.next)
  /\ rescue.stage # "off" => ToSet(pending) \subseteq Reports \/ queue # <<>> \/ GivenBack(Left)

----------------------------------------------------------------------------
(***************************************************************************)
(* Sequences without repetition, of elements and of sets, under the        *)
(* operations of the two queues.                                           *)
(***************************************************************************)

LEMMA InMembers ==
  ASSUME NEW S, NEW q \in Seq(S)
  PROVE  \A x : x \in Members(q) <=> \E k \in 1..Len(q) : x \in q[k]
<1>1. DOMAIN q = 1..Len(q)
  BY LenProperties
<1> QED
  BY <1>1 DEF Members

LEMMA InToSet ==
  ASSUME NEW S, NEW p \in Seq(S)
  PROVE  \A x : x \in ToSet(p) <=> \E k \in 1..Len(p) : p[k] = x
<1>1. DOMAIN p = 1..Len(p)
  BY LenProperties
<1> QED
  BY <1>1 DEF ToSet

LEMMA EmptyFacts ==
  /\ Members(<<>>) = {} /\ Apart(<<>>)
  /\ ToSet(<<>>) = {} /\ Distinct(<<>>)
  BY DEF Members, Apart, ToSet, Distinct

\* A sequence without its places from k to m.
Cut(q, k, m) == SubSeq(q, 1, k - 1) \o SubSeq(q, m + 1, Len(q))

LEMMA CutFacts ==
  ASSUME NEW S, NEW q \in Seq(S), NEW k \in 1..Len(q), NEW m \in k..Len(q)
  PROVE  /\ Cut(q, k, m) \in Seq(S)
         /\ Len(Cut(q, k, m)) = Len(q) - (m - k + 1)
         /\ \A j \in 1..Len(Cut(q, k, m)) :
              Cut(q, k, m)[j] = IF j < k THEN q[j] ELSE q[j + (m - k + 1)]
<1> DEFINE a == SubSeq(q, 1, k - 1)
           b == SubSeq(q, m + 1, Len(q))
           r == Cut(q, k, m)
<1>1. Len(q) \in Nat /\ k \in Nat /\ m \in Nat /\ 1 <= k /\ k <= m /\ m <= Len(q)
      /\ \A i \in 1..Len(q) : q[i] \in S
  BY LenProperties, ElementOfSeq
<1>2. a \in Seq(S) /\ Len(a) = k - 1 /\ \A i \in 1..(k - 1) : a[i] = q[i]
  <2>1. 1 \in Int /\ k - 1 \in Int /\ \A i \in 1..(k - 1) : q[i] \in S
    BY <1>1
  <2>2. /\ a \in Seq(S) /\ Len(a) = IF 1 <= k - 1 THEN k - 1 - 1 + 1 ELSE 0
        /\ \A i \in 1..(k - 1 - 1 + 1) : a[i] = q[1 + i - 1]
    BY <2>1, SubSeqProperties
  <2> HIDE DEF a
  <2> QED
    BY <1>1, <2>2
<1>3. b \in Seq(S) /\ Len(b) = Len(q) - m /\ \A i \in 1..(Len(q) - m) : b[i] = q[m + i]
  <2>1. m + 1 \in Int /\ Len(q) \in Int /\ \A i \in (m + 1)..Len(q) : q[i] \in S
    BY <1>1
  <2>2. /\ b \in Seq(S) /\ Len(b) = IF m + 1 <= Len(q) THEN Len(q) - (m + 1) + 1 ELSE 0
        /\ \A i \in 1..(Len(q) - (m + 1) + 1) : b[i] = q[m + 1 + i - 1]
    BY <2>1, SubSeqProperties
  <2> HIDE DEF b
  <2> QED
    BY <1>1, <2>2
<1>4. r = a \o b
  BY DEF Cut
<1> HIDE DEF a, b, r
<1>5. /\ r \in Seq(S) /\ Len(r) = Len(a) + Len(b)
      /\ \A i \in 1..(Len(a) + Len(b)) : r[i] = IF i <= Len(a) THEN a[i] ELSE b[i - Len(a)]
  <2>1. /\ a \o b \in Seq(S) /\ Len(a \o b) = Len(a) + Len(b)
        /\ \A i \in 1..(Len(a) + Len(b)) : (a \o b)[i] = IF i <= Len(a) THEN a[i] ELSE b[i - Len(a)]
    BY <1>2, <1>3, ConcatProperties
  <2> QED
    BY <1>4, <2>1
<1>6. Len(r) = Len(q) - (m - k + 1)
  BY <1>1, <1>2, <1>3, <1>5
<1>7. ASSUME NEW j \in 1..Len(r)
      PROVE  r[j] = IF j < k THEN q[j] ELSE q[j + (m - k + 1)]
  <2>0. j \in Nat /\ 1 <= j /\ j <= Len(q) - (m - k + 1) /\ j \in 1..(Len(a) + Len(b))
    BY <1>1, <1>2, <1>3, <1>5, <1>6
  <2>1. CASE j < k
    <3>1. j <= Len(a) /\ j \in 1..(k - 1)
      BY <1>1, <1>2, <2>0, <2>1
    <3> QED
      BY <1>2, <1>5, <2>0, <2>1, <3>1
  <2>2. CASE ~ j < k
    <3>1. ~ j <= Len(a) /\ j - Len(a) \in 1..(Len(q) - m) /\ m + (j - Len(a)) = j + (m - k + 1)
      BY <1>1, <1>2, <2>0, <2>2
    <3>2. r[j] = b[j - Len(a)]
      BY <1>5, <2>0, <3>1
    <3>3. b[j - Len(a)] = q[m + (j - Len(a))]
      BY <1>3, <3>1
    <3> QED
      BY <2>2, <3>1, <3>2, <3>3
  <2> QED
    BY <2>1, <2>2
<1> QED
  BY <1>5, <1>6, <1>7 DEF r

\* It has the places that are left, each once.
CutsTo(q, k, m, r) ==
  /\ \A i, j \in 1..Len(r) : i # j =>
       \E x, y \in 1..Len(q) : x # y /\ r[i] = q[x] /\ r[j] = q[y]
  /\ \A i \in 1..Len(r) : \E x \in 1..Len(q) : x \notin k..m /\ r[i] = q[x]
  /\ \A x \in 1..Len(q) : x \notin k..m => \E i \in 1..Len(r) : r[i] = q[x]

LEMMA CutPlaces ==
  ASSUME NEW S, NEW q \in Seq(S), NEW k \in 1..Len(q), NEW m \in k..Len(q)
  PROVE  /\ Cut(q, k, m) \in Seq(S) /\ Len(Cut(q, k, m)) < Len(q)
         /\ CutsTo(q, k, m, Cut(q, k, m))
<1> DEFINE r == Cut(q, k, m)
           at(j) == IF j < k THEN j ELSE j + (m - k + 1)
<1>1. Len(q) \in Nat /\ k \in Nat /\ m \in Nat /\ 1 <= k /\ k <= m /\ m <= Len(q)
  BY LenProperties
<1>2. /\ r \in Seq(S) /\ Len(r) = Len(q) - (m - k + 1)
      /\ \A j \in 1..Len(r) : r[j] = IF j < k THEN q[j] ELSE q[j + (m - k + 1)]
  BY CutFacts
<1> HIDE DEF r
<1>3. \A j \in 1..Len(r) : r[j] = q[at(j)]
  BY <1>2
<1>4. \A j \in 1..Len(r) : at(j) \in 1..Len(q) /\ at(j) \notin k..m
  BY <1>1, <1>2
<1>5. \A i, j \in 1..Len(r) : i # j => at(i) # at(j)
  BY <1>1, <1>2
<1>6. ASSUME NEW x \in 1..Len(q), x \notin k..m
      PROVE  \E i \in 1..Len(r) : at(i) = x
  <2>1. CASE x < k
    <3>1. x \in 1..Len(r) /\ at(x) = x
      BY <1>1, <1>2, <2>1
    <3> QED
      BY <3>1
  <2>2. CASE m < x
    <3>1. x - (m - k + 1) \in 1..Len(r) /\ at(x - (m - k + 1)) = x
      BY <1>1, <1>2, <2>2
    <3> QED
      BY <3>1
  <2> QED
    BY <1>1, <1>6, <2>1, <2>2
<1> HIDE DEF at
<1>7. \A i, j \in 1..Len(r) : i # j => \E x, y \in 1..Len(q) : x # y /\ r[i] = q[x] /\ r[j] = q[y]
  BY <1>3, <1>4, <1>5
<1>8. \A i \in 1..Len(r) : \E x \in 1..Len(q) : x \notin k..m /\ r[i] = q[x]
  BY <1>3, <1>4
<1>9. \A x \in 1..Len(q) : x \notin k..m => \E i \in 1..Len(r) : r[i] = q[x]
  BY <1>3, <1>6
<1>10. Len(r) < Len(q)
  BY <1>1, <1>2
<1> QED
  BY <1>2, <1>7, <1>8, <1>9, <1>10 DEF CutsTo, r

\* Entries are taken out of the queue to start a turn with their prompts.
Joins(q, k, m, item) == \A x : x \in item <=> \E n \in k..m : x \in q[n]

LEMMA CutApart ==
  ASSUME NEW S, NEW q \in Seq(S), Apart(q), NEW k \in 1..Len(q), NEW m \in k..Len(q),
         NEW item, Joins(q, k, m, item)
  PROVE  /\ Cut(q, k, m) \in Seq(S) /\ Len(Cut(q, k, m)) < Len(q) /\ Apart(Cut(q, k, m))
         /\ Members(Cut(q, k, m)) = Members(q) \ item /\ item \subseteq Members(q)
<1> DEFINE r == Cut(q, k, m)
<1>1. r \in Seq(S) /\ Len(r) < Len(q) /\ CutsTo(q, k, m, r)
  BY CutPlaces
<1> HIDE DEF r
<1>2. /\ \A i, j \in 1..Len(r) : i # j =>
           \E x, y \in 1..Len(q) : x # y /\ r[i] = q[x] /\ r[j] = q[y]
      /\ \A i \in 1..Len(r) : \E x \in 1..Len(q) : x \notin k..m /\ r[i] = q[x]
      /\ \A x \in 1..Len(q) : x \notin k..m => \E i \in 1..Len(r) : r[i] = q[x]
  BY <1>1 DEF CutsTo
<1>d. DOMAIN r = 1..Len(r) /\ DOMAIN q = 1..Len(q) /\ Len(q) \in Nat
  BY <1>1, LenProperties
<1>3. Apart(r)
  <2> SUFFICES ASSUME NEW i \in 1..Len(r), NEW j \in 1..Len(r), r[i] \cap r[j] # {}, i # j PROVE FALSE
    BY <1>d DEF Apart
  <2>1. PICK x, y \in 1..Len(q) : x # y /\ r[i] = q[x] /\ r[j] = q[y]
    BY <1>2
  <2> QED
    BY <1>d, <2>1 DEF Apart
<1>j. \A x : x \in item <=> \E n \in k..m : x \in q[n]
  BY DEF Joins
<1>4. \A x : x \in Members(q) <=> \E i \in 1..Len(q) : x \in q[i]
  BY InMembers
<1>5. \A x : x \in Members(r) <=> \E i \in 1..Len(r) : x \in r[i]
  BY <1>1, InMembers
<1>6. \A n \in k..m : n \in 1..Len(q)
  BY <1>d
<1>7. ASSUME NEW x PROVE x \in Members(r) <=> x \in Members(q) /\ x \notin item
  <2>1. ASSUME x \in Members(r) PROVE x \in Members(q) /\ x \notin item
    <3>1. PICK j \in 1..Len(r) : x \in r[j]
      BY <1>5, <2>1
    <3>2. PICK i \in 1..Len(q) : i \notin k..m /\ x \in q[i]
      BY <1>2, <3>1
    <3>3. \A n \in k..m : n # i /\ q[i] \cap q[n] = {}
      BY <1>d, <1>6, <3>2 DEF Apart
    <3> QED
      BY <1>j, <1>4, <3>2, <3>3
  <2>2. ASSUME x \in Members(q), x \notin item PROVE x \in Members(r)
    <3>1. PICK i \in 1..Len(q) : x \in q[i]
      BY <1>4, <2>2
    <3>2. i \notin k..m
      BY <1>j, <2>2, <3>1
    <3> QED
      BY <1>2, <1>5, <3>1, <3>2
  <2> QED
    BY <2>1, <2>2
<1>8. \A x \in item : x \in Members(q)
  BY <1>j, <1>4, <1>6
<1> QED
  BY <1>1, <1>3, <1>7, <1>8 DEF r

LEMMA RemoveIsCut ==
  ASSUME NEW S, NEW q \in Seq(S), NEW k \in DOMAIN q
  PROVE  /\ RemoveAt(q, k) = Cut(q, k, k) /\ k \in 1..Len(q) /\ k \in k..Len(q)
         /\ \A n : n \in k..k <=> n = k
<1>1. DOMAIN q = 1..Len(q) /\ Len(q) \in Nat
  BY LenProperties
<1>2. k \in 1..Len(q) /\ k \in k..Len(q) /\ \A n : n \in k..k <=> n = k
  BY <1>1
<1> QED
  BY <1>2 DEF RemoveAt, Cut

\* One entry of the queue is taken back.
LEMMA RemoveApart ==
  ASSUME NEW S, NEW q \in Seq(S), Apart(q), NEW k \in DOMAIN q
  PROVE  /\ RemoveAt(q, k) \in Seq(S) /\ Len(RemoveAt(q, k)) < Len(q) /\ Apart(RemoveAt(q, k))
         /\ Members(RemoveAt(q, k)) = Members(q) \ q[k] /\ q[k] \subseteq Members(q)
<1>1. /\ RemoveAt(q, k) = Cut(q, k, k) /\ k \in 1..Len(q) /\ k \in k..Len(q)
      /\ \A n : n \in k..k <=> n = k
  BY RemoveIsCut
<1>2. Joins(q, k, k, q[k])
  BY <1>1 DEF Joins
<1>3. /\ Cut(q, k, k) \in Seq(S) /\ Len(Cut(q, k, k)) < Len(q) /\ Apart(Cut(q, k, k))
      /\ Members(Cut(q, k, k)) = Members(q) \ q[k] /\ q[k] \subseteq Members(q)
  BY <1>1, <1>2, CutApart
<1> QED
  BY <1>1, <1>3

LEMMA RemoveDistinct ==
  ASSUME NEW S, NEW p \in Seq(S), Distinct(p), NEW k \in DOMAIN p
  PROVE  /\ RemoveAt(p, k) \in Seq(S) /\ Distinct(RemoveAt(p, k))
         /\ ToSet(RemoveAt(p, k)) = ToSet(p) \ {p[k]} /\ p[k] \in ToSet(p)
<1> DEFINE r == RemoveAt(p, k)
<1>1. /\ r = Cut(p, k, k) /\ k \in 1..Len(p) /\ k \in k..Len(p)
      /\ \A n : n \in k..k <=> n = k
  BY RemoveIsCut
<1>2. Cut(p, k, k) \in Seq(S) /\ CutsTo(p, k, k, Cut(p, k, k))
  BY <1>1, CutPlaces
<1> HIDE DEF r
<1>3. r \in Seq(S) /\ CutsTo(p, k, k, r)
  BY <1>1, <1>2
<1>4. DOMAIN r = 1..Len(r) /\ DOMAIN p = 1..Len(p)
  BY <1>3, LenProperties
<1>5. /\ \A i, j \in 1..Len(r) : i # j =>
           \E x, y \in 1..Len(p) : x # y /\ r[i] = p[x] /\ r[j] = p[y]
      /\ \A i \in 1..Len(r) : \E x \in 1..Len(p) : x # k /\ r[i] = p[x]
      /\ \A x \in 1..Len(p) : x # k => \E i \in 1..Len(r) : r[i] = p[x]
  BY <1>1, <1>3 DEF CutsTo
<1>6. Distinct(r)
  <2> SUFFICES ASSUME NEW i \in 1..Len(r), NEW j \in 1..Len(r), r[i] = r[j], i # j PROVE FALSE
    BY <1>4 DEF Distinct
  <2>1. PICK x, y \in 1..Len(p) : x # y /\ r[i] = p[x] /\ r[j] = p[y]
    BY <1>5
  <2> QED
    BY <1>4, <2>1 DEF Distinct
<1>7. \A x : x \in ToSet(p) <=> \E i \in 1..Len(p) : p[i] = x
  BY InToSet
<1>8. \A x : x \in ToSet(r) <=> \E i \in 1..Len(r) : r[i] = x
  BY <1>3, InToSet
<1>9. \A x \in 1..Len(p) : x # k => p[x] # p[k]
  BY <1>1, <1>4 DEF Distinct
<1>10. ASSUME NEW x PROVE x \in ToSet(r) <=> x \in ToSet(p) /\ x # p[k]
  <2>1. ASSUME x \in ToSet(r) PROVE x \in ToSet(p) /\ x # p[k]
    <3>1. PICK i \in 1..Len(r) : r[i] = x
      BY <1>8, <2>1
    <3>2. PICK j \in 1..Len(p) : j # k /\ r[i] = p[j]
      BY <1>5
    <3> QED
      BY <1>7, <1>9, <3>1, <3>2
  <2>2. ASSUME x \in ToSet(p), x # p[k] PROVE x \in ToSet(r)
    BY <1>5, <1>7, <1>8, <2>2
  <2> QED
    BY <2>1, <2>2
<1> QED
  BY <1>1, <1>3, <1>6, <1>7, <1>10 DEF r

LEMMA AppendApart ==
  ASSUME NEW S, NEW q \in Seq(S), Apart(q), NEW e \in S, e \cap Members(q) = {}
  PROVE  /\ Append(q, e) \in Seq(S) /\ Append(q, e) # <<>> /\ Apart(Append(q, e))
         /\ Members(Append(q, e)) = Members(q) \cup e
<1> DEFINE r == Append(q, e)
<1>1. /\ r \in Seq(S) /\ r # <<>> /\ Len(r) = Len(q) + 1 /\ r[Len(q) + 1] = e
      /\ \A i \in 1..Len(q) : r[i] = q[i]
  BY AppendProperties
<1>2. Len(q) \in Nat /\ DOMAIN q = 1..Len(q) /\ DOMAIN r = 1..(Len(q) + 1)
  BY <1>1, LenProperties
<1> HIDE DEF r
<1>3. \A x : x \in Members(q) <=> \E k \in 1..Len(q) : x \in q[k]
  BY InMembers
<1>4. \A x : x \in Members(r) <=> \E k \in 1..(Len(q) + 1) : x \in r[k]
  BY <1>1, InMembers
<1>5. \A k \in 1..(Len(q) + 1) : k \in 1..Len(q) \/ k = Len(q) + 1
  BY <1>2
<1>6. Len(q) + 1 \in 1..(Len(q) + 1) /\ \A k \in 1..Len(q) : k \in 1..(Len(q) + 1)
  BY <1>2
<1>7. \A x : x \in Members(r) <=> x \in Members(q) \/ x \in e
  BY <1>1, <1>3, <1>4, <1>5, <1>6
<1>8. \A i \in 1..Len(q) : q[i] \cap e = {}
  BY <1>3
<1>9. Apart(r)
  BY <1>1, <1>2, <1>5, <1>8 DEF Apart
<1> QED
  BY <1>1, <1>7, <1>9 DEF r

LEMMA AppendDistinct ==
  ASSUME NEW S, NEW p \in Seq(S), Distinct(p), NEW e \in S, e \notin ToSet(p)
  PROVE  /\ Append(p, e) \in Seq(S) /\ Distinct(Append(p, e))
         /\ ToSet(Append(p, e)) = ToSet(p) \cup {e}
<1> DEFINE r == Append(p, e)
<1>1. /\ r \in Seq(S) /\ Len(r) = Len(p) + 1 /\ r[Len(p) + 1] = e
      /\ \A i \in 1..Len(p) : r[i] = p[i]
  BY AppendProperties
<1>2. Len(p) \in Nat /\ DOMAIN p = 1..Len(p) /\ DOMAIN r = 1..(Len(p) + 1)
  BY <1>1, LenProperties
<1> HIDE DEF r
<1>3. \A x : x \in ToSet(p) <=> \E k \in 1..Len(p) : p[k] = x
  BY InToSet
<1>4. \A x : x \in ToSet(r) <=> \E k \in 1..(Len(p) + 1) : r[k] = x
  BY <1>1, InToSet
<1>5. \A k \in 1..(Len(p) + 1) : k \in 1..Len(p) \/ k = Len(p) + 1
  BY <1>2
<1>6. Len(p) + 1 \in 1..(Len(p) + 1) /\ \A k \in 1..Len(p) : k \in 1..(Len(p) + 1)
  BY <1>2
<1>7. \A x : x \in ToSet(r) <=> x \in ToSet(p) \/ x = e
  BY <1>1, <1>3, <1>4, <1>5, <1>6
<1>8. \A i \in 1..Len(p) : p[i] # e
  BY <1>3
<1>9. Distinct(r)
  BY <1>1, <1>2, <1>5, <1>8 DEF Distinct
<1> QED
  BY <1>1, <1>7, <1>9 DEF r

LEMMA ConcatPlaces ==
  ASSUME NEW S, NEW a \in Seq(S), NEW b \in Seq(S)
  PROVE  /\ a \o b \in Seq(S) /\ DOMAIN (a \o b) = 1..Len(a \o b)
         /\ DOMAIN a = 1..Len(a) /\ DOMAIN b = 1..Len(b)
         /\ Len(a) \in Nat /\ Len(b) \in Nat /\ Len(a \o b) = Len(a) + Len(b)
         /\ \A i \in 1..Len(a) : i \in 1..Len(a \o b) /\ (a \o b)[i] = a[i]
         /\ \A i \in 1..Len(b) : Len(a) + i \in 1..Len(a \o b) /\ (a \o b)[Len(a) + i] = b[i]
         /\ \A i \in 1..Len(a \o b) : i \in 1..Len(a) \/ \E j \in 1..Len(b) : i = Len(a) + j
<1>1. Len(a) \in Nat /\ Len(b) \in Nat /\ DOMAIN a = 1..Len(a) /\ DOMAIN b = 1..Len(b)
  BY LenProperties
<1>2. /\ a \o b \in Seq(S) /\ Len(a \o b) = Len(a) + Len(b)
      /\ \A i \in 1..(Len(a) + Len(b)) : (a \o b)[i] = IF i <= Len(a) THEN a[i] ELSE b[i - Len(a)]
  BY ConcatProperties
<1>3. DOMAIN (a \o b) = 1..Len(a \o b)
  BY <1>2, LenProperties
<1>4. \A i \in 1..Len(a) : i \in 1..Len(a \o b) /\ (a \o b)[i] = a[i]
  BY <1>1, <1>2
<1>5. ASSUME NEW i \in 1..Len(b)
      PROVE  Len(a) + i \in 1..Len(a \o b) /\ (a \o b)[Len(a) + i] = b[i]
  <2>1. Len(a) + i \in 1..(Len(a) + Len(b)) /\ ~ Len(a) + i <= Len(a) /\ Len(a) + i - Len(a) = i
    BY <1>1
  <2> QED
    BY <1>2, <2>1
<1>6. ASSUME NEW i \in 1..Len(a \o b), i \notin 1..Len(a)
      PROVE  \E j \in 1..Len(b) : i = Len(a) + j
  <2>1. i - Len(a) \in 1..Len(b) /\ i = Len(a) + (i - Len(a))
    BY <1>1, <1>2, <1>6
  <2> QED
    BY <2>1
<1> QED
  BY <1>1, <1>2, <1>3, <1>4, <1>5, <1>6

LEMMA ConcatApart ==
  ASSUME NEW S, NEW a \in Seq(S), NEW b \in Seq(S), Apart(a), Apart(b),
         Members(a) \cap Members(b) = {}
  PROVE  a \o b \in Seq(S) /\ Apart(a \o b) /\ Members(a \o b) = Members(a) \cup Members(b)
<1> DEFINE r == a \o b
           n == Len(a)
           l == Len(r)
<1>1. /\ r \in Seq(S) /\ DOMAIN r = 1..l /\ DOMAIN a = 1..n /\ DOMAIN b = 1..Len(b)
      /\ \A i \in 1..n : i \in 1..l /\ r[i] = a[i]
      /\ \A i \in 1..Len(b) : n + i \in 1..l /\ r[n + i] = b[i]
      /\ \A i \in 1..l : i \in 1..n \/ \E j \in 1..Len(b) : i = n + j
  BY ConcatPlaces
<1> HIDE DEF r
<1>2. /\ \A x : x \in Members(a) <=> \E k \in 1..n : x \in a[k]
      /\ \A x : x \in Members(b) <=> \E k \in 1..Len(b) : x \in b[k]
      /\ \A x : x \in Members(r) <=> \E k \in 1..l : x \in r[k]
  BY <1>1, InMembers
<1> HIDE DEF n, l
<1>3. \A x : x \in Members(r) <=> x \in Members(a) \/ x \in Members(b)
  BY <1>1, <1>2
<1>4. \A i \in 1..n, j \in 1..Len(b) : a[i] \cap b[j] = {}
  BY <1>2
<1>5. Apart(r)
  <2> SUFFICES ASSUME NEW i \in 1..l, NEW j \in 1..l, r[i] \cap r[j] # {} PROVE i = j
    BY <1>1 DEF Apart
  <2>1. CASE i \in 1..n /\ j \in 1..n
    BY <1>1, <2>1 DEF Apart
  <2>2. CASE i \in 1..n /\ j \notin 1..n
    BY <1>1, <1>4, <2>2
  <2>3. CASE i \notin 1..n /\ j \in 1..n
    BY <1>1, <1>4, <2>3
  <2>4. CASE i \notin 1..n /\ j \notin 1..n
    <3>1. PICK x, y \in 1..Len(b) : i = n + x /\ j = n + y
      BY <1>1, <2>4
    <3>2. r[i] = b[x] /\ r[j] = b[y]
      BY <1>1, <3>1
    <3>3. x = y
      BY <1>1, <3>2 DEF Apart
    <3> QED
      BY <3>1, <3>3
  <2> QED
    BY <2>1, <2>2, <2>3, <2>4
<1> QED
  BY <1>1, <1>3, <1>5 DEF r

LEMMA ConcatDistinct ==
  ASSUME NEW S, NEW a \in Seq(S), NEW b \in Seq(S), Distinct(a), Distinct(b),
         ToSet(a) \cap ToSet(b) = {}
  PROVE  a \o b \in Seq(S) /\ Distinct(a \o b) /\ ToSet(a \o b) = ToSet(a) \cup ToSet(b)
<1> DEFINE r == a \o b
           n == Len(a)
           l == Len(r)
<1>1. /\ r \in Seq(S) /\ DOMAIN r = 1..l /\ DOMAIN a = 1..n /\ DOMAIN b = 1..Len(b)
      /\ \A i \in 1..n : i \in 1..l /\ r[i] = a[i]
      /\ \A i \in 1..Len(b) : n + i \in 1..l /\ r[n + i] = b[i]
      /\ \A i \in 1..l : i \in 1..n \/ \E j \in 1..Len(b) : i = n + j
  BY ConcatPlaces
<1> HIDE DEF r
<1>2. /\ \A x : x \in ToSet(a) <=> \E k \in 1..n : a[k] = x
      /\ \A x : x \in ToSet(b) <=> \E k \in 1..Len(b) : b[k] = x
      /\ \A x : x \in ToSet(r) <=> \E k \in 1..l : r[k] = x
  BY <1>1, InToSet
<1> HIDE DEF n, l
<1>3. \A x : x \in ToSet(r) <=> x \in ToSet(a) \/ x \in ToSet(b)
  BY <1>1, <1>2
<1>4. \A i \in 1..n, j \in 1..Len(b) : a[i] # b[j]
  BY <1>2
<1>5. Distinct(r)
  <2> SUFFICES ASSUME NEW i \in 1..l, NEW j \in 1..l, r[i] = r[j] PROVE i = j
    BY <1>1 DEF Distinct
  <2>1. CASE i \in 1..n /\ j \in 1..n
    BY <1>1, <2>1 DEF Distinct
  <2>2. CASE i \in 1..n /\ j \notin 1..n
    BY <1>1, <1>4, <2>2
  <2>3. CASE i \notin 1..n /\ j \in 1..n
    BY <1>1, <1>4, <2>3
  <2>4. CASE i \notin 1..n /\ j \notin 1..n
    <3>1. PICK x, y \in 1..Len(b) : i = n + x /\ j = n + y
      BY <1>1, <2>4
    <3>2. r[i] = b[x] /\ r[j] = b[y]
      BY <1>1, <3>1
    <3>3. x = y
      BY <1>1, <3>2 DEF Distinct
    <3> QED
      BY <3>1, <3>3
  <2> QED
    BY <2>1, <2>2, <2>3, <2>4
<1> QED
  BY <1>1, <1>3, <1>5 DEF r

\* An entry of its own for each of several prompts.
LEMMA SinglesApart ==
  ASSUME NEW S, NEW p \in Seq(S), Distinct(p), NEW T, \A x \in S : {x} \in T,
         NEW q, q = [k \in DOMAIN p |-> {p[k]}]
  PROVE  q \in Seq(T) /\ Apart(q) /\ Members(q) = ToSet(p)
<1>1. Len(p) \in Nat /\ DOMAIN p = 1..Len(p) /\ \A k \in 1..Len(p) : p[k] \in S
  BY LenProperties, ElementOfSeq
<1>2. q = [k \in 1..Len(p) |-> {p[k]}] /\ \A k \in 1..Len(p) : {p[k]} \in T
  BY <1>1
<1>3. q \in Seq(T) /\ DOMAIN q = 1..Len(p)
  BY <1>1, <1>2, IsASeq
<1>4. Apart(q)
  BY <1>1, <1>2 DEF Apart, Distinct
<1>5. \A x : x \in Members(q) <=> x \in ToSet(p)
  BY <1>1, <1>2 DEF Members, ToSet
<1> QED
  BY <1>3, <1>4, <1>5

\* The one element of each of several entries.
HostedOf(q) == [k \in DOMAIN q |-> CHOOSE r \in q[k] : TRUE]

LEMMA HostsDistinct ==
  ASSUME NEW S, NEW q \in Seq(S), Apart(q), NEW T, \A e \in S : \E x \in T : e = {x}
  PROVE  HostedOf(q) \in Seq(T) /\ Distinct(HostedOf(q)) /\ ToSet(HostedOf(q)) = Members(q)
<1> DEFINE p == HostedOf(q)
<1>1. Len(q) \in Nat /\ DOMAIN q = 1..Len(q) /\ \A k \in 1..Len(q) : q[k] \in S
  BY LenProperties, ElementOfSeq
<1>2. p = [k \in 1..Len(q) |-> CHOOSE r \in q[k] : TRUE]
  BY <1>1 DEF HostedOf
<1> HIDE DEF p
<1>3. ASSUME NEW k \in 1..Len(q) PROVE q[k] = {p[k]} /\ p[k] \in T
  <2>1. PICK x \in T : q[k] = {x}
    BY <1>1
  <2>2. p[k] = CHOOSE r \in q[k] : TRUE
    BY <1>2
  <2>3. p[k] \in q[k]
    BY <2>1, <2>2
  <2> QED
    BY <2>1, <2>3
<1>4. DOMAIN p = 1..Len(q) /\ p \in [1..Len(q) -> T]
  BY <1>2, <1>3
<1>5. p \in Seq(T)
  <2> DEFINE n == Len(q)
  <2>1. n \in Nat /\ p \in [1..n -> T]
    BY <1>1, <1>4
  <2> HIDE DEF n
  <2> QED
    BY <2>1, SeqDef
<1>6. Distinct(p)
  BY <1>1, <1>3, <1>4 DEF Apart, Distinct
<1>7. \A x : x \in ToSet(p) <=> x \in Members(q)
  BY <1>1, <1>3, <1>4 DEF Members, ToSet
<1> QED
  BY <1>5, <1>6, <1>7 DEF p

LEMMA OnlyApart ==
  ASSUME NEW S, NEW q \in Seq(S), Apart(q), NEW T
  PROVE  /\ Only(q, T) \in Seq(S) /\ Only(q, T) \in Seq(S \cap T) /\ Apart(Only(q, T))
         /\ \A x : x \in Members(Only(q, T)) <=> \E k \in 1..Len(q) : q[k] \in T /\ x \in q[k]
         /\ Members(Only(q, T)) \subseteq Members(q)
<1> DEFINE o == Only(q, T)
<1>1. o \in Seq(S \cap T) /\ Retains(o, q, T)
  BY OnlyKeeps
<1> HIDE DEF o
<1>2. o \in Seq(S)
  BY <1>1, SeqMonotonic
<1>3. DOMAIN o = 1..Len(o) /\ Len(o) \in Nat /\ DOMAIN q = 1..Len(q) /\ Len(q) \in Nat
  BY <1>2, LenProperties
<1>4. /\ \A x : x \in Members(o) <=> \E k \in 1..Len(o) : x \in o[k]
      /\ \A x : x \in Members(q) <=> \E k \in 1..Len(q) : x \in q[k]
  BY <1>2, InMembers
<1>5. /\ \A k \in 1..Len(o) : o[k] \in T /\ \E i \in 1..Len(q) : o[k] = q[i]
      /\ \A i \in 1..Len(q) : q[i] \in T => \E k \in 1..Len(o) : o[k] = q[i]
      /\ \A k, m \in 1..Len(o) : k < m =>
           \E i, j \in 1..Len(q) : i < j /\ o[k] = q[i] /\ o[m] = q[j]
  BY <1>1 DEF Retains
<1>6. ASSUME NEW x PROVE x \in Members(o) <=> \E k \in 1..Len(q) : q[k] \in T /\ x \in q[k]
  <2>1. ASSUME x \in Members(o) PROVE \E k \in 1..Len(q) : q[k] \in T /\ x \in q[k]
    <3>1. PICK k \in 1..Len(o) : x \in o[k]
      BY <1>4, <2>1
    <3> QED
      BY <1>5, <3>1
  <2>2. ASSUME NEW k \in 1..Len(q), q[k] \in T, x \in q[k] PROVE x \in Members(o)
    BY <1>4, <1>5, <2>2
  <2> QED
    BY <2>1, <2>2
<1>7. \A k, m \in 1..Len(o) : k < m => o[k] \cap o[m] = {}
  <2> SUFFICES ASSUME NEW k \in 1..Len(o), NEW m \in 1..Len(o), k < m PROVE o[k] \cap o[m] = {}
    OBVIOUS
  <2>1. PICK i, j \in 1..Len(q) : i < j /\ o[k] = q[i] /\ o[m] = q[j]
    BY <1>5
  <2>2. i # j
    BY <1>3, <2>1
  <2> QED
    BY <1>3, <2>1, <2>2 DEF Apart
<1>8. Apart(o)
  <2> SUFFICES ASSUME NEW k \in 1..Len(o), NEW m \in 1..Len(o), o[k] \cap o[m] # {}, k # m PROVE FALSE
    BY <1>3 DEF Apart
  <2>1. k < m \/ m < k
    BY <1>3
  <2> QED
    BY <1>7, <2>1
<1> QED
  BY <1>1, <1>2, <1>4, <1>6, <1>8 DEF o

LEMMA OnlyDistinct ==
  ASSUME NEW S, NEW p \in Seq(S), Distinct(p), NEW T
  PROVE  /\ Only(p, T) \in Seq(S) /\ Only(p, T) \in Seq(S \cap T) /\ Distinct(Only(p, T))
         /\ ToSet(Only(p, T)) = ToSet(p) \cap T
<1> DEFINE o == Only(p, T)
<1>1. o \in Seq(S \cap T) /\ Retains(o, p, T)
  BY OnlyKeeps
<1> HIDE DEF o
<1>2. o \in Seq(S)
  BY <1>1, SeqMonotonic
<1>3. DOMAIN o = 1..Len(o) /\ Len(o) \in Nat /\ DOMAIN p = 1..Len(p) /\ Len(p) \in Nat
  BY <1>2, LenProperties
<1>4. /\ \A x : x \in ToSet(o) <=> \E k \in 1..Len(o) : o[k] = x
      /\ \A x : x \in ToSet(p) <=> \E k \in 1..Len(p) : p[k] = x
  BY <1>2, InToSet
<1>5. /\ \A k \in 1..Len(o) : o[k] \in T /\ \E i \in 1..Len(p) : o[k] = p[i]
      /\ \A i \in 1..Len(p) : p[i] \in T => \E k \in 1..Len(o) : o[k] = p[i]
      /\ \A k, m \in 1..Len(o) : k < m =>
           \E i, j \in 1..Len(p) : i < j /\ o[k] = p[i] /\ o[m] = p[j]
  BY <1>1 DEF Retains
<1>6. \A x : x \in ToSet(o) <=> x \in ToSet(p) /\ x \in T
  BY <1>4, <1>5
<1>7. \A k, m \in 1..Len(o) : k < m => o[k] # o[m]
  <2> SUFFICES ASSUME NEW k \in 1..Len(o), NEW m \in 1..Len(o), k < m PROVE o[k] # o[m]
    OBVIOUS
  <2>1. PICK i, j \in 1..Len(p) : i < j /\ o[k] = p[i] /\ o[m] = p[j]
    BY <1>5
  <2>2. i # j
    BY <1>3, <2>1
  <2> QED
    BY <1>3, <2>1, <2>2 DEF Distinct
<1>8. Distinct(o)
  <2> SUFFICES ASSUME NEW k \in 1..Len(o), NEW m \in 1..Len(o), o[k] = o[m], k # m PROVE FALSE
    BY <1>3 DEF Distinct
  <2>1. k < m \/ m < k
    BY <1>3
  <2> QED
    BY <1>7, <2>1
<1> QED
  BY <1>1, <1>2, <1>6, <1>8 DEF o

----------------------------------------------------------------------------
(***************************************************************************)
(* Kinds of inputs, and what an action keeps and promises.                 *)
(***************************************************************************)

LEMMA ItemFacts ==
  ASSUME NEW e \in Items
  PROVE  /\ e # {} /\ e \subseteq Inputs
         /\ e \subseteq Users \/ \E x \in Inputs : e = {x}
         /\ e \subseteq Reports => \E x \in Reports : e = {x}
         /\ e \subseteq Tasks \/ e \cap Tasks = {}
         /\ e \subseteq Reports \/ e \cap Reports = {}
         /\ e \subseteq Tasks => ~ e \subseteq Reports
<1>1. e # {} /\ e \subseteq Inputs /\ (e \subseteq Users \/ \E x \in Inputs : e = {x})
  <2>1. CASE e \in {{i} : i \in Inputs}
    <3>1. PICK x \in Inputs : e = {x}
      BY <2>1
    <3> QED
      BY <3>1
  <2>2. CASE e \in (SUBSET Users) \ {{}}
    BY <2>2 DEF Inputs
  <2> QED
    BY <2>1, <2>2 DEF Items
<1>2. e \subseteq Users => e \cap Tasks = {} /\ e \cap Reports = {}
  BY KindsAssumption
<1>3. Tasks \cap Reports = {}
  BY KindsAssumption
<1> QED
  BY <1>1, <1>2, <1>3

LEMMA KindFacts ==
  /\ Goal \in Inputs /\ Goal \notin Users \cup Reports
  /\ Users \subseteq Inputs /\ Reports \subseteq Inputs /\ Users \cap Reports = {}
  /\ \A i \in Inputs : {i} \in Items
  BY KindsAssumption DEF Inputs, Items

LEMMA StackIsItem ==
  ASSUME NEW e, e \subseteq Users, e # {}
  PROVE  e \in Items
  BY DEF Items

DiscardsAsPromised ==
  \A i \in Inputs : fate'[i] # fate[i] =>
    (fate'[i] = "gone" => MayDiscard(i)) /\ (fate'[i] = "cleared" => i \notin Reports)

StrandsNothing ==
  /\ Busy /\ ~ Busy' =>
       \/ queue' = <<>> /\ ToSet(pending') \subseteq Reports
       \/ compact.aborted /\ compact.rescuing
       \/ TakenBack
  /\ ~ Busy /\ ~ Busy' => Len(queue') <= Len(queue)

Fine == TurnInv' /\ DiscardsAsPromised /\ StrandsNothing

LEMMA LeftTyped ==
  ASSUME TurnInv
  PROVE  /\ queue \in Seq(Items) /\ pending \in Seq(Users \cup Reports) /\ goal \in Goals
         /\ fate \in [Inputs -> Fates] /\ skipOnce \in BOOLEAN /\ compact \in Compactions
         /\ rescue \in Rescues /\ Left \in Lefts
         /\ Left.queue = queue /\ Left.pending = pending /\ Left.goal = goal /\ Left.fate = fate
         /\ Left.skip = skipOnce /\ Left.compact = compact /\ Left.rescue = rescue
  BY DEF TurnInv, Left, Lefts

LEMMA BecomesIs ==
  ASSUME NEW w \in Lefts, Becomes(w)
  PROVE  /\ Left' = w
         /\ queue' = w.queue /\ pending' = w.pending /\ goal' = w.goal /\ fate' = w.fate
         /\ skipOnce' = w.skip /\ compact' = w.compact /\ rescue' = w.rescue
<1>1. /\ queue' = w.queue /\ pending' = w.pending /\ goal' = w.goal /\ fate' = w.fate
      /\ skipOnce' = w.skip /\ compact' = w.compact /\ rescue' = w.rescue
  BY DEF Becomes
<1>2. w = [queue |-> w.queue, pending |-> w.pending, goal |-> w.goal, fate |-> w.fate,
           skip |-> w.skip, compact |-> w.compact, rescue |-> w.rescue]
  BY DEF Lefts
<1>3. Left' = [queue |-> queue', pending |-> pending', goal |-> goal', fate |-> fate',
               skip |-> skipOnce', compact |-> compact', rescue |-> rescue']
  BY DEF Left
<1> QED
  BY <1>1, <1>2, <1>3

LEMMA NoneTyped ==
  /\ NoCompaction \in Compactions /\ NoCompaction.stage = "off" /\ NoCompaction.next = {}
  /\ NoRescue \in Rescues /\ NoRescue.stage = "off" /\ NoRescue.item = {}
  BY DEF NoCompaction, Compactions, NoRescue, Rescues

\* Who does not hold a place has another fate than waiting.
LEMMA HeldWait ==
  ASSUME TurnInv
  PROVE  /\ \A i \in Inputs : fate[i] = "waiting" <=> i \in Queued(Left) \cup Hand
         /\ Queued(Left) = Members(queue) \cup ToSet(pending)
         /\ Queued(Left) \subseteq Inputs
<1>1. \A i \in Inputs : fate[i] = "waiting" <=> i \in Queued(Left) \cup Hand
  BY LeftTyped DEF TurnInv, Sound
<1>2. Queued(Left) = Members(queue) \cup ToSet(pending)
  BY LeftTyped DEF Queued
<1>3. ToSet(pending) \subseteq Inputs
  <2>1. \A x \in ToSet(pending) : \E k \in 1..Len(pending) : pending[k] = x
    BY LeftTyped, InToSet
  <2>2. \A k \in 1..Len(pending) : pending[k] \in Users \cup Reports
    BY LeftTyped, ElementOfSeq
  <2> QED
    BY <2>1, <2>2, KindFacts
<1>4. Members(queue) \subseteq Inputs
  <2>1. \A x \in Members(queue) : \E k \in 1..Len(queue) : x \in queue[k]
    BY LeftTyped, InMembers
  <2>2. \A k \in 1..Len(queue) : queue[k] \in Items
    BY LeftTyped, ElementOfSeq
  <2>3. \A k \in 1..Len(queue) : queue[k] \subseteq Inputs
    BY <2>2, ItemFacts
  <2> QED
    BY <2>1, <2>3
<1> QED
  BY <1>1, <1>2, <1>3, <1>4

----------------------------------------------------------------------------
(***************************************************************************)
(* The calls that decide what an idle session does next.                   *)
(***************************************************************************)

\* A session that is idle but for X.
Ready(w, X) == w \in Lefts /\ w.compact = NoCompaction /\ w.rescue = NoRescue /\ Sound(w, X)

LEMMA TurnsTo ==
  ASSUME NEW w, NEW item \in Items \cup {{}}, Ready(w, item), Turns(item, w)
  PROVE  TurnInv' /\ Busy' /\ fate' = w.fate
<1>1. w \in Lefts /\ Sound(w, item) /\ w.compact = NoCompaction /\ w.rescue = NoRescue
      /\ loop' = "start" /\ cancelled' = FALSE /\ in' = item /\ Becomes(w)
  BY DEF Ready, Turns
<1>2. /\ Left' = w /\ queue' = w.queue /\ pending' = w.pending /\ goal' = w.goal /\ fate' = w.fate
      /\ compact' = NoCompaction /\ rescue' = NoRescue
  BY <1>1, BecomesIs
<1>3. compact'.stage = "off" /\ compact'.next = {} /\ rescue'.stage = "off" /\ rescue'.item = {}
  BY <1>2, NoneTyped
<1>4. Owners'
  BY <1>1, <1>2, <1>3 DEF Owners
<1>5. Hand' = item
  BY <1>1, <1>3 DEF Hand, Starting
<1>6. Sound(Left, Hand)'
  BY <1>1, <1>2, <1>5 DEF Sound, Queued
<1>7. Told'
  BY <1>1, <1>3 DEF Told
<1>8. Leased'
  BY <1>1, <1>2, <1>3 DEF Leased, Sound
<1> QED
  BY <1>1, <1>2, <1>3, <1>4, <1>6, <1>7, <1>8 DEF TurnInv, Busy

LEMMA RestsTo ==
  ASSUME NEW w, Ready(w, {}), Resting(w, {}), Rests(w)
  PROVE  TurnInv' /\ ~ Busy' /\ fate' = w.fate /\ queue' = w.queue /\ pending' = w.pending
<1>1. w \in Lefts /\ Sound(w, {}) /\ w.compact = NoCompaction /\ w.rescue = NoRescue
      /\ loop' = "off" /\ cancelled' = FALSE /\ in' = {} /\ Becomes(w)
  BY DEF Ready, Rests
<1>2. /\ Left' = w /\ queue' = w.queue /\ pending' = w.pending /\ goal' = w.goal /\ fate' = w.fate
      /\ compact' = NoCompaction /\ rescue' = NoRescue
  BY <1>1, BecomesIs
<1>3. compact'.stage = "off" /\ compact'.next = {} /\ rescue'.stage = "off" /\ rescue'.item = {}
  BY <1>2, NoneTyped
<1>4. Owners'
  BY <1>1, <1>2, <1>3 DEF Owners
<1>5. Hand' = {}
  BY <1>1, <1>3 DEF Hand, Starting
<1>6. Sound(Left, Hand)'
  BY <1>1, <1>2, <1>5 DEF Sound, Queued
<1>7. Told' /\ Leased'
  BY <1>1, <1>3 DEF Told, Leased
<1>8. Resting(Left, compact.next)'
  BY <1>2, <1>3 DEF Resting, GivenBack
<1> QED
  BY <1>1, <1>2, <1>3, <1>4, <1>6, <1>7, <1>8 DEF TurnInv, Busy

LEMMA CompactsTo ==
  ASSUME NEW w, NEW item \in Items \cup {{}}, Ready(w, item), Resting(w, item), Compacts(item, w)
  PROVE  TurnInv' /\ Busy' /\ fate' = w.fate
<1> DEFINE c == [NoCompaction EXCEPT !.stage = "summary", !.next = item]
           v == [w EXCEPT !.compact = c]
<1>1. c \in Compactions /\ c.stage = "summary" /\ c.next = item
  BY DEF NoCompaction, Compactions
<1>2. w \in Lefts /\ Sound(w, item) /\ w.rescue = NoRescue /\ Rests(v)
  BY DEF Ready, Compacts
<1> HIDE DEF c
<1>3. /\ v \in Lefts /\ v.queue = w.queue /\ v.pending = w.pending /\ v.goal = w.goal /\ v.fate = w.fate
      /\ v.compact = c /\ v.rescue = NoRescue
  BY <1>1, <1>2 DEF Lefts
<1>4. loop' = "off" /\ cancelled' = FALSE /\ in' = {} /\ Becomes(v)
  BY <1>2 DEF Rests
<1> HIDE DEF v
<1>5. /\ Left' = v /\ queue' = w.queue /\ pending' = w.pending /\ goal' = w.goal /\ fate' = w.fate
      /\ compact' = c /\ rescue' = NoRescue
  BY <1>3, <1>4, BecomesIs
<1>6. rescue'.stage = "off" /\ rescue'.item = {}
  BY <1>5, NoneTyped
<1>7. Owners'
  BY <1>1, <1>4, <1>5, <1>6 DEF Owners
<1>8. Hand' = item
  BY <1>1, <1>4, <1>5 DEF Hand, Starting
<1>9. Sound(Left, Hand)'
  BY <1>2, <1>3, <1>5, <1>8 DEF Sound, Queued
<1>10. Told' /\ Leased'
  BY <1>4, <1>6 DEF Told, Leased
<1>11. Resting(Left, compact.next)'
  BY <1>1, <1>3, <1>5 DEF Resting, GivenBack
<1> QED
  BY <1>1, <1>3, <1>4, <1>5, <1>6, <1>7, <1>9, <1>10, <1>11 DEF TurnInv, Busy

\* Changes to the flags of a session do not matter to where its inputs are.
LEMMA SoundSame ==
  ASSUME NEW v, NEW w, NEW X, Sound(w, X), v.queue = w.queue, v.pending = w.pending,
         v.fate = w.fate, w.goal.run # "no" => v.goal.run # "no"
  PROVE  Sound(v, X)
  BY DEF Sound, Queued

LEMMA StartTurnTo ==
  ASSUME NEW w, NEW item \in Items, Ready(w, item), StartTurn(item, w)
  PROVE  TurnInv' /\ Busy' /\ fate' = w.fate
<1>1. CASE ~ w.skip /\ Compacts(item, w)
  BY <1>1, CompactsTo, ItemFacts DEF Resting
<1>2. CASE Turns(item, [w EXCEPT !.skip = FALSE, !.goal = Reassessed(@, item)])
  <2> DEFINE g == Reassessed(w.goal, item)
             v == [w EXCEPT !.skip = FALSE, !.goal = g]
  <2>1. w \in Lefts /\ w.goal \in Goals /\ w.compact = NoCompaction /\ w.rescue = NoRescue
    BY DEF Ready, Lefts
  <2>2. g \in Goals /\ g.run = w.goal.run
    BY <2>1 DEF Reassessed, Goals
  <2> HIDE DEF g
  <2>3. /\ v \in Lefts /\ v.queue = w.queue /\ v.pending = w.pending /\ v.goal = g /\ v.fate = w.fate
        /\ v.compact = NoCompaction /\ v.rescue = NoRescue
    BY <2>1, <2>2 DEF Lefts
  <2>4. Turns(item, v)
    BY <1>2 DEF g
  <2> HIDE DEF v
  <2>5. Ready(v, item)
    BY <2>2, <2>3, SoundSame DEF Ready
  <2> QED
    BY <2>3, <2>4, <2>5, TurnsTo
<1> QED
  BY <1>1, <1>2 DEF StartTurn

LEMMA MinOf ==
  ASSUME NEW A \in SUBSET Nat, A # {}
  PROVE  Min(A) \in A
<1>1. \E x \in A : \A y \in A : x <= y
  BY LeastNumber
<1> QED
  BY <1>1 DEF Min

LEMMA MaxOf ==
  ASSUME NEW n \in Nat, NEW A \in SUBSET (0..n), A # {}
  PROVE  Max(A) \in A
<1> DEFINE B == {n - x : x \in A}
<1>1. B \in SUBSET Nat /\ B # {}
  <2>1. \A x \in A : n - x \in Nat
    OBVIOUS
  <2>2. \A b \in B : b \in Nat
    BY <2>1
  <2>3. PICK x \in A : TRUE
    OBVIOUS
  <2>4. n - x \in B
    OBVIOUS
  <2> QED
    BY <2>2, <2>4
<1>2. PICK b \in B : \A y \in B : b <= y
  BY <1>1, LeastNumber
<1>3. PICK x \in A : b = n - x
  BY <1>2
<1>4. \A y \in A : n - y \in B
  OBVIOUS
<1> HIDE DEF B
<1>5. \A y \in A : x >= y
  <2> SUFFICES ASSUME NEW y \in A PROVE x >= y
    OBVIOUS
  <2>1. n - x <= n - y
    BY <1>2, <1>3, <1>4
  <2>2. x \in Nat /\ y \in Nat
    OBVIOUS
  <2> QED
    BY <2>1, <2>2
<1>6. \E z \in A : \A y \in A : z >= y
  BY <1>5
<1> QED
  BY <1>6 DEF Max

\* Which entries startQueued takes: one, or prompts of the user that follow one another.
LastReady(q) == LastStacked(q, FirstReady(q))
Stacked(q) == UNION {q[n] : n \in FirstReady(q)..LastReady(q)}

LEMMA StackFacts ==
  ASSUME NEW q \in Seq(Items), q # <<>>
  PROVE  /\ FirstReady(q) \in 1..Len(q) /\ LastReady(q) \in FirstReady(q)..Len(q)
         /\ Stacked(q) \in Items
         /\ Joins(q, FirstReady(q), LastReady(q), Stacked(q))
<1> DEFINE k == FirstReady(q)
           m == LastReady(q)
           item == Stacked(q)
<1>1. Len(q) \in Nat \ {0} /\ DOMAIN q = 1..Len(q) /\ \A n \in 1..Len(q) : q[n] \in Items
  BY LenProperties, EmptySeq, ElementOfSeq
<1>2. k \in 1..Len(q)
  <2> DEFINE R == {n \in DOMAIN q : ~ q[n] \subseteq Tasks}
  <2>1. k = IF R = {} THEN 1 ELSE Min(R)
    BY DEF FirstReady
  <2>2. R \in SUBSET Nat /\ R \subseteq 1..Len(q)
    BY <1>1
  <2> HIDE DEF R
  <2>3. CASE R = {}
    BY <1>1, <2>1, <2>3
  <2>4. CASE R # {}
    BY <2>1, <2>2, <2>4, MinOf
  <2> QED
    BY <2>3, <2>4
<1>3. m \in k..Len(q) /\ (m = k \/ \A n \in k..m : q[n] \subseteq Users)
  <2> DEFINE A == {k} \cup {j \in k..Len(q) : \A n \in k..j : q[n] \subseteq Users}
  <2>1. m = Max(A)
    BY DEF LastReady, LastStacked
  <2>2. A \in SUBSET (0..Len(q)) /\ A # {} /\ A \subseteq k..Len(q)
    BY <1>1, <1>2
  <2>3. m \in A
    BY <1>1, <2>1, <2>2, MaxOf
  <2> QED
    BY <2>2, <2>3
<1>4. \A x : x \in item <=> \E n \in k..m : x \in q[n]
  BY DEF Stacked
<1> HIDE DEF k, m, item
<1>5. item \in Items
  <2>1. CASE m = k
    <3>1. \A n : n \in k..m <=> n = k
      BY <1>2, <2>1
    <3>2. \A x : x \in item <=> x \in q[k]
      BY <1>4, <3>1
    <3>3. item = q[k]
      BY <3>2
    <3> QED
      BY <1>1, <1>2, <3>3
  <2>2. CASE \A n \in k..m : q[n] \subseteq Users
    <3>1. item \subseteq Users
      BY <1>4, <2>2
    <3>2. k \in k..m /\ q[k] # {}
      BY <1>1, <1>2, <1>3, ItemFacts
    <3>3. item # {}
      BY <1>4, <3>2
    <3> QED
      BY <3>1, <3>3, StackIsItem
  <2> QED
    BY <1>3, <2>1, <2>2
<1> QED
  BY <1>2, <1>3, <1>4, <1>5 DEF Joins, k, m, item

LEMMA StartQueuedTo ==
  ASSUME NEW w, Ready(w, {}), w.queue # <<>>, StartQueued(w)
  PROVE  TurnInv' /\ Busy' /\ fate' = w.fate
<1> DEFINE q == w.queue
           k == FirstReady(q)
           m == LastReady(q)
           item == Stacked(q)
           r == Cut(q, k, m)
           v == [w EXCEPT !.queue = r]
<1>1. w \in Lefts /\ q \in Seq(Items) /\ q # <<>> /\ Sound(w, {})
      /\ w.compact = NoCompaction /\ w.rescue = NoRescue
  BY DEF Ready, Lefts
<1>2. StartTurn(item, v)
  BY DEF StartQueued, Stacked, LastReady, Cut
<1>3. /\ k \in 1..Len(q) /\ m \in k..Len(q) /\ item \in Items
      /\ Joins(q, k, m, item)
  BY <1>1, StackFacts
<1> HIDE DEF k, m, item
<1>4. Apart(q)
  BY <1>1 DEF Sound
<1>5. /\ r \in Seq(Items) /\ Apart(r)
      /\ Members(r) = Members(q) \ item /\ item \subseteq Members(q)
  <2> HIDE DEF q
  <2>1. q \in Seq(Items) /\ k \in 1..Len(q) /\ m \in k..Len(q)
    BY <1>1, <1>3
  <2>2. Joins(q, k, m, item)
    BY <1>3
  <2>3. /\ Cut(q, k, m) \in Seq(Items) /\ Apart(Cut(q, k, m))
        /\ Members(Cut(q, k, m)) = Members(q) \ item /\ item \subseteq Members(q)
    <3> HIDE DEF r
    <3> QED
      BY <1>4, <2>1, <2>2, CutApart
  <2> QED
    BY <2>3
<1> HIDE DEF r
<1>6. /\ v \in Lefts /\ v.queue = r /\ v.pending = w.pending /\ v.goal = w.goal /\ v.fate = w.fate
      /\ v.compact = NoCompaction /\ v.rescue = NoRescue
  BY <1>1, <1>5 DEF Lefts
<1> HIDE DEF v
<1>7. Queued(v) \cup item = Queued(w) \cup {} /\ item \cap Queued(v) = {}
      /\ Members(v.queue) \cap ToSet(v.pending) = {}
  BY <1>1, <1>5, <1>6 DEF Sound, Queued
<1>8. Sound(v, item)
  BY <1>1, <1>5, <1>6, <1>7 DEF Sound
<1>9. Ready(v, item)
  BY <1>6, <1>8 DEF Ready
<1> QED
  BY <1>2, <1>3, <1>6, <1>9, StartTurnTo

LEMMA DrainTo ==
  ASSUME NEW w, Ready(w, {}), Resting(w, {}), Drain(w)
  PROVE  /\ TurnInv' /\ fate' = w.fate
         /\ Busy' \/ (w.queue = <<>> /\ queue' = <<>> /\ pending' = w.pending)
<1>1. CASE w.queue = <<>>
  BY <1>1, RestsTo DEF Drain
<1>2. CASE w.queue # <<>>
  BY <1>2, StartQueuedTo DEF Drain
<1> QED
  BY <1>1, <1>2

\* The goal leases a follow-up when it holds no lease, so there is no other one.
LEMMA ContinueGoalTo ==
  ASSUME NEW w, Ready(w, {}), Resting(w, {}), ContinueGoal(w)
  PROVE  /\ TurnInv' /\ \A i \in Inputs : fate'[i] \in {"gone", "cleared"} => w.fate[i] = fate'[i]
         /\ Busy' \/ (queue' = w.queue /\ pending' = w.pending)
<1>1. w \in Lefts /\ w.goal \in Goals /\ w.fate \in [Inputs -> Fates]
      /\ w.compact = NoCompaction /\ w.rescue = NoRescue /\ Sound(w, {})
  BY DEF Ready, Lefts
<1>2. CASE Rests(w)
  BY <1>2, RestsTo
<1>3. CASE Rests([w EXCEPT !.goal.is = "stopped"])
  <2> DEFINE g == [w.goal EXCEPT !.is = "stopped"]
             v == [w EXCEPT !.goal = g]
  <2>1. g \in Goals /\ g.run = w.goal.run
    BY <1>1 DEF Goals
  <2> HIDE DEF g
  <2>2. /\ v \in Lefts /\ v.queue = w.queue /\ v.pending = w.pending /\ v.goal = g /\ v.fate = w.fate
        /\ v.compact = NoCompaction /\ v.rescue = NoRescue
    BY <1>1, <2>1 DEF Lefts
  <2>3. Rests(v)
    BY <1>3 DEF g
  <2> HIDE DEF v
  <2>4. Ready(v, {})
    BY <1>1, <2>1, <2>2, SoundSame DEF Ready
  <2>5. Resting(v, {})
    BY <2>1, <2>2 DEF Resting, GivenBack
  <2> QED
    BY <2>2, <2>3, <2>4, <2>5, RestsTo
<1>4. CASE w.goal.run = "no" /\ StartTurn({Goal}, [w EXCEPT !.goal.run = "yes", !.fate[Goal] = "waiting"])
  <2> DEFINE g == [w.goal EXCEPT !.run = "yes"]
             f == [w.fate EXCEPT ![Goal] = "waiting"]
             v == [w EXCEPT !.goal = g, !.fate = f]
  <2>1. g \in Goals /\ g.run = "yes"
    BY <1>1 DEF Goals
  <2>2. /\ f \in [Inputs -> Fates] /\ f[Goal] = "waiting"
        /\ \A i \in Inputs : i # Goal => f[i] = w.fate[i]
    BY <1>1, KindFacts DEF Fates
  <2> HIDE DEF g, f
  <2>3. /\ v \in Lefts /\ v.queue = w.queue /\ v.pending = w.pending /\ v.goal = g /\ v.fate = f
        /\ v.compact = NoCompaction /\ v.rescue = NoRescue
    BY <1>1, <2>1, <2>2 DEF Lefts
  <2>4. StartTurn({Goal}, v)
    BY <1>4 DEF g, f
  <2> HIDE DEF v
  <2>5. Goal \notin Queued(w)
    BY <1>1, <1>4 DEF Sound
  <2>6. Queued(v) = Queued(w)
    BY <2>3 DEF Queued
  <2>7. \A i \in Inputs : f[i] = "waiting" <=> i \in Queued(w) \cup {Goal}
    BY <1>1, <2>2, <2>5 DEF Sound
  <2>8. Sound(v, {Goal})
    BY <1>1, <2>1, <2>3, <2>5, <2>6, <2>7 DEF Sound
  <2>9. Ready(v, {Goal}) /\ {Goal} \in Items
    BY <2>3, <2>8, KindFacts DEF Ready
  <2>10. TurnInv' /\ Busy' /\ fate' = f
    BY <2>3, <2>4, <2>9, StartTurnTo
  <2> QED
    BY <2>2, <2>10
<1> QED
  BY <1>2, <1>3, <1>4 DEF ContinueGoal

\* At the end of a turn nothing is queued but reports, and the lease is given back.
LEMMA GoalAfterTurnTo ==
  ASSUME NEW w, NEW end, Ready(w, {}), w.queue = <<>>,
         ToSet(w.pending) \subseteq Reports \/ GivenBack(w), GoalAfterTurn(end, w)
  PROVE  /\ TurnInv' /\ \A i \in Inputs : fate'[i] \in {"gone", "cleared"} => w.fate[i] = fate'[i]
         /\ Busy' \/ (queue' = <<>> /\ pending' = w.pending)
<1> DEFINE g == [w.goal EXCEPT !.run = "no"]
           v == [w EXCEPT !.goal = g]
           h == [g EXCEPT !.is = "stopped"]
           u == [v EXCEPT !.goal = h]
<1>1. w \in Lefts /\ w.goal \in Goals /\ w.pending \in Seq(Users \cup Reports) /\ Sound(w, {})
      /\ w.compact = NoCompaction /\ w.rescue = NoRescue
  BY DEF Ready, Lefts
<1>2. g \in Goals /\ g.run = "no" /\ h \in Goals /\ h.run = "no"
  BY <1>1 DEF Goals
<1> HIDE DEF g, h
<1>3. /\ v \in Lefts /\ v.queue = <<>> /\ v.pending = w.pending /\ v.goal = g /\ v.fate = w.fate
      /\ v.compact = NoCompaction /\ v.rescue = NoRescue
  BY <1>1, <1>2 DEF Lefts
<1>4. /\ u \in Lefts /\ u.queue = <<>> /\ u.pending = w.pending /\ u.goal = h /\ u.fate = w.fate
      /\ u.compact = NoCompaction /\ u.rescue = NoRescue
  BY <1>1, <1>2 DEF Lefts
<1>5. \/ Rests(u)
      \/ ContinueGoal(v)
      \/ Rests(v)
      \/ w.goal.run = "no" /\ Rests(w)
      \/ Rests(v)
  BY DEF GoalAfterTurn, g, h
<1> HIDE DEF v, u
<1>6. Goal \notin Queued(w)
  <2>1. \A k \in 1..Len(w.pending) : w.pending[k] \in Users \cup Reports
    BY <1>1, ElementOfSeq
  <2>2. Goal \notin ToSet(w.pending)
    BY <1>1, <2>1, InToSet, KindFacts
  <2> QED
    BY <2>2, EmptyFacts DEF Queued
<1>7. Sound(v, {}) /\ Sound(u, {})
  BY <1>1, <1>3, <1>4, <1>6 DEF Sound, Queued
<1>8. Ready(v, {}) /\ Ready(u, {})
  BY <1>3, <1>4, <1>7 DEF Ready
<1>9. Resting(v, {}) /\ Resting(u, {})
  BY <1>2, <1>3, <1>4 DEF Resting, GivenBack
<1>10. CASE Rests(u)
  BY <1>4, <1>8, <1>9, <1>10, RestsTo
<1>11. CASE Rests(v)
  BY <1>3, <1>8, <1>9, <1>11, RestsTo
<1>12. CASE ContinueGoal(v)
  BY <1>3, <1>8, <1>9, <1>12, ContinueGoalTo
<1>13. CASE w.goal.run = "no" /\ Rests(w)
  <2>1. Resting(w, {})
    BY <1>13 DEF Resting
  <2> QED
    BY <1>13, <2>1, RestsTo
<1> QED
  BY <1>5, <1>10, <1>11, <1>12, <1>13

----------------------------------------------------------------------------
(***************************************************************************)
(* Steps that leave what runs, runs on: whoever owns the transcript keeps  *)
(* it, and what it holds.                                                  *)
(***************************************************************************)

SameOwner(w) ==
  /\ \/ w.compact = compact
     \/ compact.stage # "off" /\ w.compact.stage # "off" /\ w.compact.next = compact.next
  /\ \/ w.rescue = rescue
     \/ rescue.stage # "off" /\ w.rescue.stage # "off" /\ w.rescue.item = rescue.item
  /\ w.goal.run = "no" <=> goal.run = "no"

\* Fates that are final stay, and a report that the turn began with stays queued.
SameFates(w) ==
  /\ \A i \in Inputs : fate[i] \in {"told", "returned", "cleared"} => w.fate[i] = fate[i]
  /\ loop = "boundary" => ToSet(pending) \cap Reports \subseteq ToSet(w.pending)

\* An idle session gets no new work.
NoNewWork(w) ==
  \/ w.queue # <<>>
  \/ GivenBack(w)
  \/ queue = <<>> /\ (loop # "off" \/ ToSet(w.pending) \subseteq ToSet(pending))

Stays(w) == w \in Lefts /\ SameOwner(w) /\ SameFates(w) /\ NoNewWork(w) /\ Sound(w, Hand)

LEMMA StaysTo ==
  ASSUME TurnInv, NEW w, Stays(w), Becomes(w), UNCHANGED <<loop, in>>, cancelled' \in BOOLEAN,
         loop = "off" => ~ cancelled', Busy \/ Len(w.queue) <= Len(queue)
  PROVE  TurnInv' /\ StrandsNothing
<1>1. /\ w \in Lefts /\ SameOwner(w) /\ SameFates(w) /\ NoNewWork(w) /\ Sound(w, Hand)
      /\ loop' = loop /\ in' = in
  BY DEF Stays
<1>2. /\ Left' = w /\ queue' = w.queue /\ pending' = w.pending /\ goal' = w.goal /\ fate' = w.fate
      /\ compact' = w.compact /\ rescue' = w.rescue
  BY <1>1, BecomesIs
<1>3. /\ Owners /\ Told /\ Leased /\ in \in Items \cup {{}}
      /\ loop \in {"off", "start", "boundary", "request", "ok", "blocked", "failed",
                   "rescuable", "repeated", "cancelled"}
  BY DEF TurnInv
<1>4. /\ compact'.next = compact.next /\ (compact'.stage = "off" <=> compact.stage = "off")
      /\ rescue'.item = rescue.item /\ (rescue'.stage = "off" <=> rescue.stage = "off")
      /\ compact'.stage = "off" => compact' = compact
      /\ rescue'.stage = "off" => rescue' = rescue
      /\ goal'.run = "no" <=> goal.run = "no"
  BY <1>1, <1>2 DEF SameOwner
<1>5. Owners'
  BY <1>1, <1>3, <1>4 DEF Owners
<1>6. Hand' = Hand
  BY <1>1, <1>4 DEF Hand, Starting
<1>7. Sound(Left, Hand)'
  BY <1>1, <1>2, <1>6 DEF Sound, Queued
<1>8. Told'
  <2>1. loop = "boundary" => \A i \in in : fate'[i] = "told" \/ i \in ToSet(pending') \cap Reports
    <3> SUFFICES ASSUME loop = "boundary", NEW i \in in
                 PROVE  fate'[i] = "told" \/ i \in ToSet(pending') \cap Reports
      OBVIOUS
    <3>1. i \in Inputs
      BY <1>3, ItemFacts
    <3> QED
      BY <1>1, <1>2, <1>3, <3>1 DEF Told, SameFates
  <2>2. loop \notin {"off", "start", "boundary"} => \A i \in in : fate'[i] = "told"
    <3> SUFFICES ASSUME loop \notin {"off", "start", "boundary"}, NEW i \in in
                 PROVE  fate'[i] = "told"
      OBVIOUS
    <3>1. i \in Inputs
      BY <1>3, ItemFacts
    <3> QED
      BY <1>1, <1>2, <1>3, <3>1 DEF Told, SameFates
  <2>3. \A i \in rescue.item : fate'[i] = "told"
    <3> SUFFICES ASSUME NEW i \in rescue.item PROVE fate'[i] = "told"
      OBVIOUS
    <3>1. rescue.item \in Items \cup {{}}
      BY LeftTyped DEF Rescues
    <3>2. i \in Inputs
      BY <3>1, ItemFacts
    <3> QED
      BY <1>1, <1>2, <1>3, <3>2 DEF Told, SameFates
  <2> QED
    BY <1>1, <1>4, <2>1, <2>2, <2>3 DEF Told
<1>9. Leased'
  BY <1>1, <1>3, <1>4 DEF Leased
<1>10. GivenBack(Left) => GivenBack(w)
  BY <1>1, LeftTyped DEF GivenBack, SameFates
<1>11. \/ w.queue # <<>> \/ GivenBack(w)
       \/ queue = <<>> /\ ~ GivenBack(Left) /\ (loop # "off" \/ ToSet(w.pending) \subseteq ToSet(pending))
  BY <1>1, <1>10 DEF NoNewWork
<1>12. loop' = "off" /\ rescue'.stage = "off" => Resting(Left', compact'.next)
  <2>1. loop = "off" /\ rescue.stage = "off" => Resting(Left, compact.next)
    BY DEF TurnInv
  <2> QED
    BY <1>1, <1>2, <1>4, <1>11, <2>1, LeftTyped DEF Resting
<1>13. rescue'.stage # "off" => ToSet(pending') \subseteq Reports \/ queue' # <<>> \/ GivenBack(Left')
  <2>1. rescue.stage # "off" => loop = "off" /\ (ToSet(pending) \subseteq Reports \/ queue # <<>> \/ GivenBack(Left))
    BY <1>3 DEF TurnInv, Owners
  <2> QED
    BY <1>2, <1>4, <1>11, <2>1
<1>14. Busy' <=> Busy
  BY <1>1, <1>4 DEF Busy
<1>15. StrandsNothing
  BY <1>2, <1>14 DEF StrandsNothing
<1>16. TurnInv'
  BY <1>1, <1>2, <1>3, <1>5, <1>7, <1>8, <1>9, <1>12, <1>13 DEF TurnInv, Resting, GivenBack
<1> QED
  BY <1>15, <1>16

\* The inputs stay where they are.
LEMMA QuietTo ==
  ASSUME TurnInv, NEW w \in Lefts, SameOwner(w), w.queue = queue, w.pending = pending, w.fate = fate,
         Becomes(w), UNCHANGED <<loop, in>>, cancelled' \in BOOLEAN, loop = "off" => ~ cancelled'
  PROVE  Fine
<1>1. Sound(Left, Hand)
  BY DEF TurnInv
<1>2. w.goal.run = "no" <=> goal.run = "no"
  BY DEF SameOwner
<1>3. Sound(w, Hand)
  BY <1>1, <1>2, LeftTyped, SoundSame
<1>4. SameFates(w) /\ NoNewWork(w)
  <2>1. queue = <<>> \/ w.queue # <<>>
    OBVIOUS
  <2> QED
    BY <2>1 DEF SameFates, NoNewWork
<1>5. Stays(w)
  BY <1>3, <1>4 DEF Stays
<1>6. Len(w.queue) <= Len(queue)
  BY LeftTyped, LenProperties
<1>7. TurnInv' /\ StrandsNothing
  BY <1>5, <1>6, StaysTo
<1>8. DiscardsAsPromised
  BY DEF Becomes, DiscardsAsPromised
<1> QED
  BY <1>7, <1>8 DEF Fine

LEMMA CancelledIs ==
  ASSUME TurnInv
  PROVE  cancelled \in BOOLEAN /\ (loop = "off" => ~ cancelled)
  BY DEF TurnInv, Owners

LEMMA CompactionTo ==
  ASSUME TurnInv, NEW c \in Compactions, compact.stage # "off", c.stage # "off",
         c.next = compact.next, compact' = c, UNCHANGED <<turnVars, rescue, leftVars>>
  PROVE  Fine
<1> DEFINE w == [Left EXCEPT !.compact = c]
<1>1. /\ w \in Lefts /\ w.queue = queue /\ w.pending = pending /\ w.fate = fate /\ w.goal = goal
      /\ w.skip = skipOnce /\ w.compact = c /\ w.rescue = rescue
  BY LeftTyped DEF Lefts
<1> HIDE DEF w
<1>2. Becomes(w) /\ SameOwner(w)
  BY <1>1 DEF Becomes, SameOwner, leftVars
<1>3. loop' = loop /\ in' = in /\ cancelled' = cancelled
  BY DEF turnVars
<1> QED
  BY <1>1, <1>2, <1>3, CancelledIs, QuietTo

LEMMA RescueTo ==
  ASSUME TurnInv, NEW r \in Rescues, rescue.stage # "off", r.stage # "off",
         r.item = rescue.item, rescue' = r, UNCHANGED <<turnVars, compact, leftVars>>
  PROVE  Fine
<1> DEFINE w == [Left EXCEPT !.rescue = r]
<1>1. /\ w \in Lefts /\ w.queue = queue /\ w.pending = pending /\ w.fate = fate /\ w.goal = goal
      /\ w.skip = skipOnce /\ w.compact = compact /\ w.rescue = r
  BY LeftTyped DEF Lefts
<1> HIDE DEF w
<1>2. Becomes(w) /\ SameOwner(w)
  BY <1>1 DEF Becomes, SameOwner, leftVars
<1>3. loop' = loop /\ in' = in /\ cancelled' = cancelled
  BY DEF turnVars
<1> QED
  BY <1>1, <1>2, <1>3, CancelledIs, QuietTo

LEMMA StageTo ==
  ASSUME TurnInv
  PROVE  /\ \A to \in {"summary", "asked", "chosen", "again", "ok", "failed"} :
              LET c == [compact EXCEPT !.stage = to]
              IN c \in Compactions /\ c.stage = to /\ c.next = compact.next
         /\ \A to \in {"starting", "asked", "chosen", "swapped", "over"} :
              LET r == [rescue EXCEPT !.stage = to]
              IN r \in Rescues /\ r.stage = to /\ r.item = rescue.item
  BY LeftTyped DEF Compactions, Rescues

LEMMA CompactGoesTo ==
  ASSUME TurnInv, compact.stage # "off",
         NEW to \in {"summary", "asked", "chosen", "again", "ok", "failed"}, CompactGoes(to)
  PROVE  Fine
<1> DEFINE c == [compact EXCEPT !.stage = to]
<1>1. c \in Compactions /\ c.stage = to /\ c.next = compact.next
  BY StageTo
<1>2. compact' = c /\ UNCHANGED <<turnVars, rescue, leftVars>>
  BY DEF CompactGoes
<1> HIDE DEF c
<1> QED
  BY <1>1, <1>2, CompactionTo

LEMMA RescueGoesTo ==
  ASSUME TurnInv, rescue.stage # "off",
         NEW to \in {"starting", "asked", "chosen", "swapped", "over"}, RescueGoes(to)
  PROVE  Fine
<1> DEFINE r == [rescue EXCEPT !.stage = to]
<1>1. r \in Rescues /\ r.stage = to /\ r.item = rescue.item
  BY StageTo
<1>2. rescue' = r /\ UNCHANGED <<turnVars, compact, leftVars>>
  BY DEF RescueGoes
<1> HIDE DEF r
<1> QED
  BY <1>1, <1>2, RescueTo

LEMMA AbortCompactionTo ==
  ASSUME TurnInv, AbortCompaction
  PROVE  Fine
<1> DEFINE c == [compact EXCEPT !.aborted = TRUE]
<1>1. compact \in Compactions /\ compact.stage # "off"
  BY LeftTyped DEF AbortCompaction
<1>2. c \in Compactions /\ c.stage = compact.stage /\ c.next = compact.next
  BY <1>1 DEF Compactions
<1>3. compact' = c /\ UNCHANGED <<turnVars, rescue, leftVars>>
  BY DEF AbortCompaction
<1> HIDE DEF c
<1> QED
  BY <1>1, <1>2, <1>3, CompactionTo

LEMMA CompactAsksTo ==
  ASSUME TurnInv, CompactAsks
  PROVE  Fine
<1> DEFINE c == [compact EXCEPT !.stage = "asked", !.rescuing = TRUE]
<1>1. compact \in Compactions /\ compact.stage # "off"
  BY LeftTyped DEF CompactAsks
<1>2. c \in Compactions /\ c.stage # "off" /\ c.next = compact.next
  BY <1>1 DEF Compactions
<1>3. compact' = c /\ UNCHANGED <<turnVars, rescue, leftVars>>
  BY DEF CompactAsks
<1> HIDE DEF c
<1> QED
  BY <1>1, <1>2, <1>3, CompactionTo

LEMMA AbortTo ==
  ASSUME TurnInv, Abort
  PROVE  Fine
<1> DEFINE g == [goal EXCEPT !.armed = @ \/ goal.is = "active"]
           r == [rescue EXCEPT !.stage = IF @ = "asked" THEN "over" ELSE @]
           w == [Left EXCEPT !.goal = g, !.rescue = r]
<1>1. /\ goal' = g /\ cancelled' = (loop # "off") /\ rescue' = r
      /\ UNCHANGED <<loop, in, compact, queue, pending, skipOnce, fate>>
  BY DEF Abort
<1>2. goal \in Goals /\ rescue \in Rescues
  BY LeftTyped
<1>3. g \in Goals /\ g.run = goal.run
  BY <1>2 DEF Goals
<1>4. /\ r \in Rescues /\ r.item = rescue.item
      /\ r.stage = IF rescue.stage = "asked" THEN "over" ELSE rescue.stage
  BY <1>2 DEF Rescues
<1>5. rescue.stage = "off" => r = rescue
  BY <1>2, <1>4 DEF Rescues
<1> HIDE DEF g, r
<1>6. /\ w \in Lefts /\ w.queue = queue /\ w.pending = pending /\ w.fate = fate /\ w.goal = g
      /\ w.skip = skipOnce /\ w.compact = compact /\ w.rescue = r
  BY <1>3, <1>4, LeftTyped DEF Lefts
<1> HIDE DEF w
<1>7. Becomes(w)
  BY <1>1, <1>6 DEF Becomes
<1>8. SameOwner(w)
  BY <1>3, <1>4, <1>5, <1>6 DEF SameOwner
<1>9. cancelled' \in BOOLEAN /\ (loop = "off" => ~ cancelled')
  BY <1>1
<1> QED
  BY <1>1, <1>6, <1>7, <1>8, <1>9, QuietTo

\* A command of the goal does not take or return the lease: at most it makes it stale.
LEMMA CommandedTyped ==
  ASSUME TurnInv, NEW op \in {"set", "clear", "pause", "resume", "complete"}
  PROVE  Commanded(op) \in Goals /\ (Commanded(op).run = "no" <=> goal.run = "no")
<1>1. goal.run \in {"no", "yes", "stale"}
  BY LeftTyped DEF Goals
<1>2. [set |-> "active", resume |-> "active", clear |-> "none",
       pause |-> "paused", complete |-> "stopped"][op] \in {"none", "stopped", "paused", "active"}
  OBVIOUS
<1> QED
  BY <1>1, <1>2 DEF Commanded, Goals

LEMMA GoalTo ==
  ASSUME TurnInv, NEW op \in {"set", "clear", "pause", "resume", "complete"},
         goal' = Commanded(op),
         UNCHANGED <<turnVars, compact, rescue, queue, pending, fate, skipOnce>>
  PROVE  Fine
<1> DEFINE g == Commanded(op)
           w == [Left EXCEPT !.goal = g]
<1>1. g \in Goals /\ (g.run = "no" <=> goal.run = "no") /\ goal' = g
  BY CommandedTyped
<1> HIDE DEF g
<1>2. /\ w \in Lefts /\ w.queue = queue /\ w.pending = pending /\ w.fate = fate /\ w.goal = g
      /\ w.skip = skipOnce /\ w.compact = compact /\ w.rescue = rescue
  BY <1>1, LeftTyped DEF Lefts
<1> HIDE DEF w
<1>3. Becomes(w) /\ SameOwner(w)
  BY <1>1, <1>2 DEF Becomes, SameOwner
<1>4. loop' = loop /\ in' = in /\ cancelled' = cancelled
  BY DEF turnVars
<1> QED
  BY <1>2, <1>3, <1>4, CancelledIs, QuietTo

LEMMA UpdateGoalTo ==
  ASSUME TurnInv, NEW op \in {"set", "pause", "resume", "complete"}, UpdateGoal(op)
  PROVE  Fine
<1>1. /\ goal' = Commanded(op)
      /\ UNCHANGED <<turnVars, compact, rescue, queue, pending, fate, skipOnce>>
  BY DEF UpdateGoal
<1> QED
  BY <1>1, GoalTo

----------------------------------------------------------------------------
(***************************************************************************)
(* Inputs are accepted.                                                    *)
(***************************************************************************)

KeepsPromise(w) ==
  \A i \in Inputs : w.fate[i] # fate[i] =>
    (w.fate[i] = "gone" => MayDiscard(i)) /\ (w.fate[i] = "cleared" => i \notin Reports)

LEMMA KeepsTo ==
  ASSUME TurnInv, NEW w, Stays(w), KeepsPromise(w), Keeps(w), Busy \/ Len(w.queue) <= Len(queue)
  PROVE  Fine
<1>1. Becomes(w) /\ loop' = loop /\ in' = in /\ cancelled' = cancelled
  BY DEF Keeps, turnVars
<1>2. TurnInv' /\ StrandsNothing
  BY <1>1, CancelledIs, StaysTo
<1>3. DiscardsAsPromised
  BY <1>1 DEF Becomes, DiscardsAsPromised, KeepsPromise
<1> QED
  BY <1>2, <1>3 DEF Fine

\* A new input, or a report that has not been delivered.
Fresh(i) == i \in Inputs /\ i # Goal /\ fate[i] \in {"new", "completed"}

LEMMA FreshFacts ==
  ASSUME TurnInv, NEW i, Fresh(i)
  PROVE  /\ i \in Inputs /\ {i} \in Items /\ i \notin Queued(Left) /\ i \notin Hand
         /\ i \notin Members(queue) /\ i \notin ToSet(pending)
<1>1. i \in Inputs /\ fate[i] # "waiting"
  BY DEF Fresh
<1> QED
  BY <1>1, HeldWait, KindFacts

LEMMA AcceptedIs ==
  ASSUME TurnInv, NEW i, Fresh(i)
  PROVE  /\ Accepted(i) \in Lefts /\ Accepted(i).queue = queue /\ Accepted(i).pending = pending
         /\ Accepted(i).goal = goal /\ Accepted(i).compact = compact /\ Accepted(i).rescue = rescue
         /\ \A j \in Inputs : Accepted(i).fate[j] = IF j = i THEN "waiting" ELSE fate[j]
         /\ Sound(Accepted(i), Hand \cup {i})
<1> DEFINE f == [fate EXCEPT ![i] = "waiting"]
           w == Accepted(i)
<1>1. i \in Inputs /\ {i} \in Items /\ i \notin Queued(Left) /\ i \notin Hand /\ i # Goal
  BY FreshFacts DEF Fresh
<1>2. f \in [Inputs -> Fates] /\ \A j \in Inputs : f[j] = IF j = i THEN "waiting" ELSE fate[j]
  BY <1>1, LeftTyped DEF Fates
<1>3. w = [Left EXCEPT !.fate = f]
  BY LeftTyped DEF Accepted
<1> HIDE DEF f, w
<1>4. /\ w \in Lefts /\ w.queue = queue /\ w.pending = pending /\ w.goal = goal
      /\ w.compact = compact /\ w.rescue = rescue /\ w.fate = f
  BY <1>2, <1>3, LeftTyped DEF Lefts
<1>5. Sound(Left, Hand)
  BY DEF TurnInv
<1>6. Queued(w) = Queued(Left)
  BY <1>4, LeftTyped DEF Queued
<1>7. \A j \in Inputs : w.fate[j] = "waiting" <=> j \in Queued(w) \cup (Hand \cup {i})
  BY <1>1, <1>2, <1>4, <1>5, <1>6, LeftTyped DEF Sound
<1>8. Goal \in Queued(w) \cup (Hand \cup {i}) => w.goal.run # "no"
  BY <1>1, <1>4, <1>5, <1>6, LeftTyped DEF Sound
<1>9. Sound(w, Hand \cup {i})
  BY <1>1, <1>4, <1>5, <1>6, <1>7, <1>8, LeftTyped DEF Sound
<1> QED
  BY <1>2, <1>4, <1>9 DEF w

LEMMA EnqueuedIs ==
  ASSUME TurnInv, NEW i, Fresh(i)
  PROVE  /\ Enqueued(i) \in Lefts /\ Enqueued(i).queue # <<>> /\ Enqueued(i).pending = pending
         /\ Enqueued(i).goal = goal /\ Enqueued(i).compact = compact /\ Enqueued(i).rescue = rescue
         /\ \A j \in Inputs : Enqueued(i).fate[j] = IF j = i THEN "waiting" ELSE fate[j]
         /\ Sound(Enqueued(i), Hand)
<1> DEFINE a == Accepted(i)
           q == Append(queue, {i})
           w == Enqueued(i)
<1>1. /\ a \in Lefts /\ a.queue = queue /\ a.pending = pending
      /\ a.goal = goal /\ a.compact = compact /\ a.rescue = rescue
      /\ \A j \in Inputs : a.fate[j] = IF j = i THEN "waiting" ELSE fate[j]
      /\ Sound(a, Hand \cup {i})
  BY AcceptedIs
<1>2. /\ i \in Inputs /\ {i} \in Items /\ i \notin Hand /\ i \notin Members(queue)
      /\ i \notin ToSet(pending)
  BY FreshFacts
<1>3. w = [a EXCEPT !.queue = q]
  BY <1>1 DEF Enqueued
<1>4. Apart(queue) /\ queue \in Seq(Items)
  BY <1>1, LeftTyped DEF Sound
<1>5. q \in Seq(Items) /\ q # <<>> /\ Apart(q) /\ Members(q) = Members(queue) \cup {i}
  <2> DEFINE e == {i}
  <2>1. e \in Items /\ e \cap Members(queue) = {} /\ q = Append(queue, e)
    BY <1>2
  <2> HIDE DEF e, q, a, w
  <2>2. /\ Append(queue, e) \in Seq(Items) /\ Append(queue, e) # <<>> /\ Apart(Append(queue, e))
        /\ Members(Append(queue, e)) = Members(queue) \cup e
    BY <1>4, <2>1, AppendApart
  <2>3. q \in Seq(Items) /\ q # <<>> /\ Apart(q) /\ Members(q) = Members(queue) \cup e
    BY <2>1, <2>2
  <2> QED
    BY <2>3 DEF e
<1> HIDE DEF a, q, w
<1>6. /\ w \in Lefts /\ w.queue = q /\ w.pending = a.pending /\ w.goal = a.goal
      /\ w.compact = a.compact /\ w.rescue = a.rescue /\ w.fate = a.fate
  BY <1>1, <1>3, <1>5 DEF Lefts
<1>7. Queued(w) = Queued(a) \cup {i}
  BY <1>1, <1>5, <1>6 DEF Queued
<1>8. Sound(w, Hand)
  BY <1>1, <1>2, <1>5, <1>6, <1>7 DEF Sound
<1> QED
  BY <1>1, <1>5, <1>6, <1>8 DEF w

LEMMA SteeredIs ==
  ASSUME TurnInv, NEW i \in Users, Fresh(i)
  PROVE  /\ Steered(i) \in Lefts /\ Steered(i).queue = queue
         /\ ToSet(Steered(i).pending) = ToSet(pending) \cup {i}
         /\ Steered(i).goal = goal /\ Steered(i).compact = compact /\ Steered(i).rescue = rescue
         /\ \A j \in Inputs : Steered(i).fate[j] = IF j = i THEN "waiting" ELSE fate[j]
         /\ Sound(Steered(i), Hand)
<1> DEFINE a == Accepted(i)
           p == Append(pending, i)
           w == Steered(i)
<1>1. /\ a \in Lefts /\ a.queue = queue /\ a.pending = pending
      /\ a.goal = goal /\ a.compact = compact /\ a.rescue = rescue
      /\ \A j \in Inputs : a.fate[j] = IF j = i THEN "waiting" ELSE fate[j]
      /\ Sound(a, Hand \cup {i})
  BY AcceptedIs
<1>2. /\ i \in Inputs /\ i \notin Hand /\ i \notin Members(queue) /\ i \notin ToSet(pending)
  BY FreshFacts
<1>3. w = [a EXCEPT !.pending = p]
  BY <1>1 DEF Steered
<1>4. Distinct(pending) /\ pending \in Seq(Users \cup Reports) /\ i \in Users \cup Reports
  BY <1>1, LeftTyped DEF Sound
<1>5. p \in Seq(Users \cup Reports) /\ Distinct(p) /\ ToSet(p) = ToSet(pending) \cup {i}
  BY <1>2, <1>4, AppendDistinct
<1> HIDE DEF a, p, w
<1>6. /\ w \in Lefts /\ w.queue = a.queue /\ w.pending = p /\ w.goal = a.goal
      /\ w.compact = a.compact /\ w.rescue = a.rescue /\ w.fate = a.fate
  BY <1>1, <1>3, <1>5 DEF Lefts
<1>7. Queued(w) = Queued(a) \cup {i}
  BY <1>1, <1>5, <1>6 DEF Queued
<1>8. Sound(w, Hand)
  BY <1>1, <1>2, <1>5, <1>6, <1>7 DEF Sound
<1> QED
  BY <1>1, <1>5, <1>6, <1>8 DEF w

\* What is accepted gives up nothing.
LEMMA AcceptKeeps ==
  ASSUME TurnInv, NEW i, Fresh(i), NEW w,
         \A j \in Inputs : w.fate[j] = IF j = i THEN "waiting" ELSE fate[j]
  PROVE  /\ \A j \in Inputs : fate[j] \in {"told", "returned", "cleared"} => w.fate[j] = fate[j]
         /\ KeepsPromise(w)
  BY DEF Fresh, KeepsPromise

LEMMA EnqueueTo ==
  ASSUME TurnInv, NEW i, Fresh(i), Busy, Keeps(Enqueued(i))
  PROVE  Fine
<1> DEFINE w == Enqueued(i)
<1>1. /\ w \in Lefts /\ w.queue # <<>> /\ w.pending = pending
      /\ w.goal = goal /\ w.compact = compact /\ w.rescue = rescue
      /\ \A j \in Inputs : w.fate[j] = IF j = i THEN "waiting" ELSE fate[j]
      /\ Sound(w, Hand)
  BY EnqueuedIs
<1> HIDE DEF w
<1>2. Stays(w) /\ KeepsPromise(w)
  BY <1>1, AcceptKeeps DEF Stays, SameOwner, SameFates, NoNewWork
<1> QED
  BY <1>2, KeepsTo DEF w

LEMMA SteerTo ==
  ASSUME TurnInv, NEW i \in Users, Fresh(i), loop # "off", Keeps(Steered(i))
  PROVE  Fine
<1> DEFINE w == Steered(i)
<1>1. /\ w \in Lefts /\ w.queue = queue /\ ToSet(w.pending) = ToSet(pending) \cup {i}
      /\ w.goal = goal /\ w.compact = compact /\ w.rescue = rescue
      /\ \A j \in Inputs : w.fate[j] = IF j = i THEN "waiting" ELSE fate[j]
      /\ Sound(w, Hand)
  BY SteeredIs
<1> HIDE DEF w
<1>2. queue = <<>> \/ w.queue # <<>>
  BY <1>1
<1>3. Stays(w) /\ KeepsPromise(w)
  BY <1>1, <1>2, AcceptKeeps DEF Stays, SameOwner, SameFates, NoNewWork
<1>4. Busy
  BY DEF Busy
<1> QED
  BY <1>3, <1>4, KeepsTo DEF w

\* A session that is idle holds nothing but what is queued.
LEMMA IdleReady ==
  ASSUME TurnInv, ~ Busy
  PROVE  /\ loop = "off" /\ compact = NoCompaction /\ rescue = NoRescue /\ Hand = {}
         /\ Ready(Left, {}) /\ Resting(Left, {})
<1>1. loop = "off" /\ compact.stage = "off" /\ rescue.stage = "off"
  BY DEF Busy
<1>2. compact = NoCompaction /\ rescue = NoRescue /\ compact.next = {}
  BY <1>1, NoneTyped DEF TurnInv, Owners
<1>3. Hand = {}
  BY <1>1, <1>2 DEF Hand, Starting
<1>4. Sound(Left, {}) /\ Resting(Left, {})
  BY <1>1, <1>2, <1>3 DEF TurnInv
<1> QED
  BY <1>1, <1>2, <1>3, <1>4, LeftTyped DEF Ready

\* A turn or a compaction begins, and nothing is given up.
LEMMA BeginsTo ==
  ASSUME TurnInv', Busy', NEW w, KeepsPromise(w), fate' = w.fate
  PROVE  Fine
  BY DEF Fine, DiscardsAsPromised, StrandsNothing, KeepsPromise

LEMMA StartFreshTo ==
  ASSUME TurnInv, ~ Busy, NEW i, Fresh(i), StartTurn({i}, Accepted(i))
  PROVE  Fine
<1> DEFINE w == Accepted(i)
<1>1. /\ w \in Lefts /\ w.compact = compact /\ w.rescue = rescue
      /\ \A j \in Inputs : w.fate[j] = IF j = i THEN "waiting" ELSE fate[j]
      /\ Sound(w, Hand \cup {i})
  BY AcceptedIs
<1>2. StartTurn({i}, w)
  OBVIOUS
<1> HIDE DEF w
<1>3. Ready(w, {i})
  BY <1>1, IdleReady DEF Ready
<1>4. {i} \in Items
  BY FreshFacts
<1>5. TurnInv' /\ Busy' /\ fate' = w.fate
  BY <1>2, <1>3, <1>4, StartTurnTo
<1> QED
  BY <1>1, <1>5, AcceptKeeps, BeginsTo

LEMMA DrainFreshTo ==
  ASSUME TurnInv, ~ Busy, NEW i, Fresh(i), Drain(Enqueued(i))
  PROVE  Fine
<1> DEFINE w == Enqueued(i)
<1>1. /\ w \in Lefts /\ w.queue # <<>> /\ w.compact = compact /\ w.rescue = rescue
      /\ \A j \in Inputs : w.fate[j] = IF j = i THEN "waiting" ELSE fate[j]
      /\ Sound(w, Hand)
  BY EnqueuedIs
<1>2. Drain(w)
  OBVIOUS
<1> HIDE DEF w
<1>3. Ready(w, {})
  BY <1>1, IdleReady DEF Ready
<1>4. StartQueued(w)
  BY <1>1, <1>2 DEF Drain
<1>5. TurnInv' /\ Busy' /\ fate' = w.fate
  BY <1>1, <1>3, <1>4, StartQueuedTo
<1> QED
  BY <1>1, <1>5, AcceptKeeps, BeginsTo

LEMMA SubmitTo ==
  ASSUME TurnInv, NEW i, Submit(i)
  PROVE  Fine
<1>1. Fresh(i)
  <2>1. i \in Users \cup Peers \cup Tasks /\ fate[i] = "new"
    BY DEF Submit
  <2> QED
    BY <2>1, KindsAssumption DEF Fresh, Inputs
<1>2. \/ Busy /\ Keeps(Enqueued(i))
      \/ loop # "off" /\ i \in Users /\ Keeps(Steered(i))
      \/ ~ Busy /\ Drain(Enqueued(i))
      \/ ~ Busy /\ StartTurn({i}, Accepted(i))
  BY DEF Submit
<1> QED
  BY <1>1, <1>2, EnqueueTo, SteerTo, DrainFreshTo, StartFreshTo

LEMMA SendToAgentTo ==
  ASSUME TurnInv, NEW i, SendToAgent(i)
  PROVE  Fine
<1>1. Fresh(i)
  BY KindsAssumption DEF SendToAgent, Fresh, Inputs
<1>2. \/ Busy /\ Keeps(Enqueued(i))
      \/ ~ Busy /\ StartTurn({i}, Accepted(i))
  BY DEF SendToAgent
<1> QED
  BY <1>1, <1>2, EnqueueTo, StartFreshTo

LEMMA ReportTo ==
  ASSUME TurnInv, NEW r, Report(r)
  PROVE  Fine
<1>1. Fresh(r)
  BY KindsAssumption DEF Report, Fresh, Inputs
<1>2. \/ Busy /\ Keeps(Enqueued(r))
      \/ ~ Busy /\ Drain(Enqueued(r))
  BY DEF Report
<1> QED
  BY <1>1, <1>2, EnqueueTo, DrainFreshTo

----------------------------------------------------------------------------
(***************************************************************************)
(* Inputs are taken back, or discarded with the agent that held them.      *)
(***************************************************************************)

LEMMA FatedIs ==
  ASSUME NEW f \in [Inputs -> Fates], NEW S, NEW what \in Fates
  PROVE  /\ Fated(f, S, what) \in [Inputs -> Fates]
         /\ \A i \in Inputs : Fated(f, S, what)[i] = IF i \in S THEN what ELSE f[i]
  BY DEF Fated

\* What is no longer queued has the fate it is given, and the rest waits on.
LEMMA LessQueued ==
  ASSUME TurnInv, NEW w \in Lefts, Apart(w.queue), Distinct(w.pending),
         Members(w.queue) \cap ToSet(w.pending) = {}, Queued(w) \subseteq Queued(Left),
         w.goal.run = goal.run, NEW S,
         \A i \in Inputs : i \in S <=> i \in Queued(Left) /\ i \notin Queued(w),
         \A i \in Inputs : IF i \in S THEN w.fate[i] \in {"gone", "returned", "cleared"}
                           ELSE w.fate[i] = fate[i]
  PROVE  /\ Sound(w, Hand)
         /\ \A i \in Inputs : fate[i] \in {"told", "returned", "cleared"} => w.fate[i] = fate[i]
         /\ \A i \in Inputs : fate[i] # "gone" /\ w.fate[i] = "gone" => i \in S
         /\ \A i \in Inputs : fate[i] # "cleared" /\ w.fate[i] = "cleared" => i \in S
         /\ (\E i \in Inputs : i \in S /\ w.fate[i] # "gone") => GivenBack(w)
<1>1. /\ \A i \in Inputs : fate[i] = "waiting" <=> i \in Queued(Left) \cup Hand
      /\ Hand \cap Queued(Left) = {}
      /\ Goal \in Queued(Left) \cup Hand => goal.run # "no"
  BY LeftTyped DEF TurnInv, Sound
<1>2. \A i \in Inputs : w.fate[i] = "waiting" <=> i \in Queued(w) \cup Hand
  <2> SUFFICES ASSUME NEW i \in Inputs PROVE w.fate[i] = "waiting" <=> i \in Queued(w) \cup Hand
    OBVIOUS
  <2>1. CASE i \in S
    BY <1>1, <2>1
  <2>2. CASE i \notin S
    BY <1>1, <2>2
  <2> QED
    BY <2>1, <2>2
<1>3. Sound(w, Hand)
  BY <1>1, <1>2 DEF Sound
<1>4. \A i \in Inputs : i \in S => fate[i] = "waiting"
  BY <1>1
<1>5. \A i \in Inputs : fate[i] \in {"told", "returned", "cleared"} => w.fate[i] = fate[i]
  BY <1>4
<1>6. (\E i \in Inputs : i \in S /\ w.fate[i] # "gone") => GivenBack(w)
  BY DEF GivenBack
<1> QED
  BY <1>3, <1>5, <1>6

LEMMA TakeBackTo ==
  ASSUME TurnInv, NEW k, TakeBack(k)
  PROVE  Fine
<1> DEFINE q == RemoveAt(queue, k)
           f == Fated(fate, queue[k], "returned")
           w == [Left EXCEPT !.queue = q, !.fate = f]
<1>1. k \in DOMAIN queue /\ Keeps(w)
  BY LeftTyped DEF TakeBack
<1>2. queue \in Seq(Items) /\ Apart(queue) /\ Members(queue) \cap ToSet(pending) = {} /\ Distinct(pending)
  BY LeftTyped DEF TurnInv, Sound
<1>3. /\ q \in Seq(Items) /\ Len(q) < Len(queue) /\ Apart(q)
      /\ Members(q) = Members(queue) \ queue[k] /\ queue[k] \subseteq Members(queue)
  BY <1>1, <1>2, RemoveApart
<1>4. /\ f \in [Inputs -> Fates]
      /\ \A i \in Inputs : f[i] = IF i \in queue[k] THEN "returned" ELSE fate[i]
  BY LeftTyped, FatedIs DEF Fates
<1>5. queue[k] \in Items
  BY <1>1, <1>2, LenProperties, ElementOfSeq
<1>6. \E i \in Inputs : i \in queue[k]
  BY <1>5, ItemFacts
<1> HIDE DEF q, f
<1>7. /\ w \in Lefts /\ w.queue = q /\ w.pending = pending /\ w.fate = f /\ w.goal = goal
      /\ w.compact = compact /\ w.rescue = rescue
  BY <1>3, <1>4, LeftTyped DEF Lefts
<1> HIDE DEF w
<1>8. Queued(w) = Queued(Left) \ queue[k] /\ queue[k] \subseteq Queued(Left)
  BY <1>2, <1>3, <1>7, HeldWait DEF Queued
<1>9. Apart(w.queue) /\ Distinct(w.pending) /\ Members(w.queue) \cap ToSet(w.pending) = {}
  BY <1>2, <1>3, <1>7
<1>10. \A i \in Inputs : i \in queue[k] <=> i \in Queued(Left) /\ i \notin Queued(w)
  BY <1>8
<1>11. /\ Sound(w, Hand)
       /\ \A i \in Inputs : fate[i] \in {"told", "returned", "cleared"} => w.fate[i] = fate[i]
       /\ \A i \in Inputs : ~ (fate[i] # "gone" /\ w.fate[i] = "gone")
       /\ \A i \in Inputs : ~ (fate[i] # "cleared" /\ w.fate[i] = "cleared")
       /\ GivenBack(w)
  BY <1>4, <1>6, <1>7, <1>8, <1>9, <1>10, LessQueued
<1>12. Stays(w) /\ KeepsPromise(w)
  BY <1>7, <1>11 DEF Stays, SameOwner, SameFates, NoNewWork, KeepsPromise
<1>13. Len(w.queue) <= Len(queue)
  <2>1. Len(q) \in Nat /\ Len(queue) \in Nat
    BY <1>2, <1>3, LenProperties
  <2> QED
    BY <1>3, <1>7, <2>1
<1> QED
  BY <1>1, <1>12, <1>13, KeepsTo

LEMMA SlideBackTo ==
  ASSUME TurnInv, NEW k, SlideBack(k)
  PROVE  Fine
<1> DEFINE p == RemoveAt(pending, k)
           f == Fated(fate, {pending[k]}, "returned")
           w == [Left EXCEPT !.pending = p, !.fate = f]
<1>1. k \in DOMAIN pending /\ pending[k] \in Users /\ Keeps(w)
  BY LeftTyped DEF SlideBack
<1>2. /\ pending \in Seq(Users \cup Reports) /\ Distinct(pending)
      /\ Apart(queue) /\ Members(queue) \cap ToSet(pending) = {}
  BY LeftTyped DEF TurnInv, Sound
<1>3. /\ p \in Seq(Users \cup Reports) /\ Distinct(p)
      /\ ToSet(p) = ToSet(pending) \ {pending[k]} /\ pending[k] \in ToSet(pending)
  BY <1>1, <1>2, RemoveDistinct
<1>4. /\ f \in [Inputs -> Fates]
      /\ \A i \in Inputs : f[i] = IF i \in {pending[k]} THEN "returned" ELSE fate[i]
  BY LeftTyped, FatedIs DEF Fates
<1>5. pending[k] \in Inputs /\ pending[k] \notin Reports
  BY <1>1, KindFacts
<1> HIDE DEF p, f
<1>6. /\ w \in Lefts /\ w.queue = queue /\ w.pending = p /\ w.fate = f /\ w.goal = goal
      /\ w.compact = compact /\ w.rescue = rescue
  BY <1>3, <1>4, LeftTyped DEF Lefts
<1> HIDE DEF w
<1>7. Queued(w) = Queued(Left) \ {pending[k]} /\ pending[k] \in Queued(Left)
  BY <1>2, <1>3, <1>6, HeldWait DEF Queued
<1>8. Apart(w.queue) /\ Distinct(w.pending) /\ Members(w.queue) \cap ToSet(w.pending) = {}
  BY <1>2, <1>3, <1>6
<1>9. \A i \in Inputs : i \in {pending[k]} <=> i \in Queued(Left) /\ i \notin Queued(w)
  BY <1>7
<1>10. /\ Sound(w, Hand)
       /\ \A i \in Inputs : fate[i] \in {"told", "returned", "cleared"} => w.fate[i] = fate[i]
       /\ \A i \in Inputs : ~ (fate[i] # "gone" /\ w.fate[i] = "gone")
       /\ \A i \in Inputs : ~ (fate[i] # "cleared" /\ w.fate[i] = "cleared")
       /\ GivenBack(w)
  BY <1>4, <1>5, <1>6, <1>7, <1>8, <1>9, LessQueued
<1>11. ToSet(pending) \cap Reports \subseteq ToSet(w.pending)
  BY <1>3, <1>5, <1>6
<1>12. Stays(w) /\ KeepsPromise(w)
  BY <1>6, <1>10, <1>11 DEF Stays, SameOwner, SameFates, NoNewWork, KeepsPromise
<1>13. Len(w.queue) <= Len(queue)
  BY <1>6, LeftTyped, LenProperties
<1> QED
  BY <1>1, <1>12, <1>13, KeepsTo

LEMMA PendingKinds ==
  ASSUME TurnInv
  PROVE  ToSet(pending) \subseteq Users \cup Reports
<1>1. \A x \in ToSet(pending) : \E k \in 1..Len(pending) : pending[k] = x
  BY LeftTyped, InToSet
<1>2. \A k \in 1..Len(pending) : pending[k] \in Users \cup Reports
  BY LeftTyped, ElementOfSeq
<1> QED
  BY <1>1, <1>2

LEMMA NotEmptyMembers ==
  ASSUME NEW q \in Seq(Items), q # <<>>
  PROVE  \E i \in Inputs : i \in Members(q)
<1>1. Len(q) \in Nat \ {0}
  BY LenProperties, EmptySeq
<1>2. 1 \in 1..Len(q)
  BY <1>1
<1>3. q[1] \in Items
  BY <1>2, ElementOfSeq
<1>4. PICK i \in Inputs : i \in q[1]
  BY <1>3, ItemFacts
<1> QED
  BY <1>2, <1>4, InMembers

\* What a queue holds that is kept by the sets its entries lie in.
LEMMA EntriesKept ==
  ASSUME NEW q \in Seq(Items), Apart(q), NEW T
  PROVE  /\ Only(q, T) \in Seq(Items) /\ Apart(Only(q, T)) /\ Members(Only(q, T)) \subseteq Members(q)
         /\ \A i \in Members(q) : \E e \in Items :
              /\ i \in e
              /\ e \in T <=> i \in Members(Only(q, T))
         /\ \A i \in Members(Only(q, T)) : \E e \in Items : e \in T /\ i \in e
<1> DEFINE o == Only(q, T)
<1>1. /\ o \in Seq(Items) /\ Apart(o) /\ Members(o) \subseteq Members(q)
      /\ \A x : x \in Members(o) <=> \E k \in 1..Len(q) : q[k] \in T /\ x \in q[k]
  BY OnlyApart
<1> HIDE DEF o
<1>2. \A k \in 1..Len(q) : q[k] \in Items
  BY ElementOfSeq
<1>3. \A x : x \in Members(q) <=> \E k \in 1..Len(q) : x \in q[k]
  BY InMembers
<1>4. \A i, j \in 1..Len(q) : q[i] \cap q[j] # {} => i = j
  BY LenProperties DEF Apart
<1>5. ASSUME NEW i \in Members(q)
      PROVE  \E e \in Items : i \in e /\ (e \in T <=> i \in Members(o))
  <2>1. PICK k \in 1..Len(q) : i \in q[k]
    BY <1>3
  <2>2. ASSUME i \in Members(o) PROVE q[k] \in T
    <3>1. PICK m \in 1..Len(q) : q[m] \in T /\ i \in q[m]
      BY <1>1, <2>2
    <3>2. m = k
      BY <1>4, <2>1, <3>1
    <3> QED
      BY <3>1, <3>2
  <2>3. q[k] \in T => i \in Members(o)
    BY <1>1, <2>1
  <2> QED
    BY <1>2, <2>1, <2>2, <2>3
<1>6. \A i \in Members(o) : \E e \in Items : e \in T /\ i \in e
  BY <1>1, <1>2
<1> QED
  BY <1>1, <1>5, <1>6 DEF o

LEMMA ClearQueuedUserTo ==
  ASSUME TurnInv, ClearQueuedUser
  PROVE  Fine
<1> DEFINE q == Only(queue, SUBSET Reports)
           p == Only(pending, Reports)
           S == (Members(queue) \ Members(q)) \cup (ToSet(pending) \cap Users)
           f == Cleared(S)
           w == [Left EXCEPT !.queue = q, !.pending = p, !.fate = f]
<1>1. Keeps(w)
  BY LeftTyped DEF ClearQueuedUser
<1>2. /\ pending \in Seq(Users \cup Reports) /\ Distinct(pending) /\ queue \in Seq(Items)
      /\ Apart(queue) /\ Members(queue) \cap ToSet(pending) = {}
  BY LeftTyped DEF TurnInv, Sound
<1>3. q \in Seq(Items) /\ Apart(q) /\ Members(q) \subseteq Members(queue) /\ Len(q) <= Len(queue)
  BY <1>2, OnlyApart, OnlyKeeps
<1>4. p \in Seq(Users \cup Reports) /\ Distinct(p) /\ ToSet(p) = ToSet(pending) \cap Reports
  BY <1>2, OnlyDistinct
<1>5. /\ f \in [Inputs -> Fates]
      /\ \A i \in Inputs : f[i] = IF i \notin S THEN fate[i] ELSE IF i \in Users THEN "returned" ELSE "cleared"
  <2> DEFINE g == Fated(fate, S \cap Users, "returned")
  <2> HIDE DEF S
  <2>1. {"returned", "cleared"} \subseteq Fates /\ fate \in [Inputs -> Fates]
    BY LeftTyped DEF Fates
  <2>2. /\ g \in [Inputs -> Fates]
        /\ \A i \in Inputs : g[i] = IF i \in S \cap Users THEN "returned" ELSE fate[i]
    BY <2>1, FatedIs
  <2>3. f = Fated(g, S \ Users, "cleared")
    BY DEF Cleared
  <2> HIDE DEF g, f
  <2>4. /\ f \in [Inputs -> Fates]
        /\ \A i \in Inputs : f[i] = IF i \in S \ Users THEN "cleared" ELSE g[i]
    BY <2>1, <2>2, <2>3, FatedIs
  <2> QED
    BY <2>2, <2>4
<1> HIDE DEF q, p, f
<1>6. /\ w \in Lefts /\ w.queue = q /\ w.pending = p /\ w.fate = f /\ w.goal = goal
      /\ w.compact = compact /\ w.rescue = rescue
  BY <1>3, <1>4, <1>5, LeftTyped DEF Lefts
<1> HIDE DEF w
<1>7. Apart(w.queue) /\ Distinct(w.pending) /\ Members(w.queue) \cap ToSet(w.pending) = {}
  BY <1>2, <1>3, <1>4, <1>6
<1>8. Queued(w) \subseteq Queued(Left)
  BY <1>3, <1>4, <1>6, HeldWait DEF Queued
<1>9. \A i \in Inputs : i \in S <=> i \in Queued(Left) /\ i \notin Queued(w)
  <2>1. Users \cap Reports = {} /\ ToSet(pending) \subseteq Users \cup Reports
    BY KindFacts, PendingKinds
  <2>2. Queued(Left) = Members(queue) \cup ToSet(pending) /\ Queued(w) = Members(q) \cup (ToSet(pending) \cap Reports)
    BY <1>4, <1>6, HeldWait DEF Queued
  <2> QED
    BY <1>2, <1>3, <2>1, <2>2
<1> HIDE DEF S
<1>10. /\ Sound(w, Hand)
       /\ \A i \in Inputs : fate[i] \in {"told", "returned", "cleared"} => w.fate[i] = fate[i]
       /\ \A i \in Inputs : ~ (fate[i] # "gone" /\ w.fate[i] = "gone")
       /\ \A i \in Inputs : fate[i] # "cleared" /\ w.fate[i] = "cleared" => i \in S
       /\ (\E i \in Inputs : i \in S) => GivenBack(w)
  BY <1>5, <1>6, <1>7, <1>8, <1>9, LessQueued
<1>11. NoNewWork(w)
  <2>1. CASE queue = <<>>
    BY <1>4, <1>6, <2>1 DEF NoNewWork
  <2>2. CASE queue # <<>> /\ q = <<>>
    <3>1. PICK i \in Inputs : i \in Members(queue)
      BY <1>2, <2>2, NotEmptyMembers
    <3>2. i \in S
      BY <2>2, <3>1, EmptyFacts DEF S
    <3> QED
      BY <1>10, <3>2 DEF NoNewWork
  <2>3. CASE q # <<>>
    BY <1>6, <2>3 DEF NoNewWork
  <2> QED
    BY <2>1, <2>2, <2>3
<1>12. ToSet(pending) \cap Reports \subseteq ToSet(w.pending)
  BY <1>4, <1>6
<1>15. ASSUME NEW i \in Inputs, i \in S PROVE i \notin Reports
  <2>1. CASE i \in Members(queue) /\ i \notin Members(q)
    <3>1. PICK e \in Items : i \in e /\ (e \in SUBSET Reports <=> i \in Members(q))
      BY <1>2, <2>1, EntriesKept DEF q
    <3>2. ~ e \subseteq Reports
      BY <2>1, <3>1
    <3> QED
      BY <3>1, <3>2, ItemFacts
  <2>2. CASE i \in ToSet(pending) \cap Users
    BY <2>2, KindFacts
  <2> QED
    BY <1>15, <2>1, <2>2 DEF S
<1>13. Stays(w) /\ KeepsPromise(w)
  BY <1>6, <1>10, <1>11, <1>12, <1>15 DEF Stays, SameOwner, SameFates, KeepsPromise
<1>14. Len(w.queue) <= Len(queue)
  BY <1>3, <1>6
<1> QED
  BY <1>1, <1>13, <1>14, KeepsTo

\* A new agent has none of the queued messages.
LEMMA ReplacedIs ==
  ASSUME TurnInv
  PROVE  /\ Replaced(Left) \in Lefts /\ Replaced(Left).queue = queue
         /\ Replaced(Left).pending = <<>> /\ Replaced(Left).goal = goal
         /\ Replaced(Left).skip = skipOnce
         /\ Replaced(Left).compact = compact /\ Replaced(Left).rescue = rescue
         /\ \A i \in Inputs : Replaced(Left).fate[i] = IF i \in ToSet(pending) THEN "gone" ELSE fate[i]
<1> DEFINE f == Fated(fate, ToSet(pending), "gone")
           w == [Left EXCEPT !.pending = <<>>, !.fate = f]
<1>1. /\ f \in [Inputs -> Fates]
      /\ \A i \in Inputs : f[i] = IF i \in ToSet(pending) THEN "gone" ELSE fate[i]
  BY LeftTyped, FatedIs DEF Fates
<1>2. Replaced(Left) = w
  BY LeftTyped DEF Replaced
<1>3. <<>> \in Seq(Users \cup Reports)
  BY EmptySeq
<1> HIDE DEF f
<1>4. /\ w \in Lefts /\ w.queue = queue /\ w.pending = <<>> /\ w.fate = f /\ w.goal = goal
      /\ w.skip = skipOnce /\ w.compact = compact /\ w.rescue = rescue
  BY <1>1, <1>3, LeftTyped DEF Lefts
<1> HIDE DEF w
<1> QED
  BY <1>1, <1>2, <1>4

LEMMA ReplacedTo ==
  ASSUME TurnInv, loop = "off", NEW w \in Lefts, w.queue = queue, w.pending = <<>>, w.goal = goal,
         \A i \in Inputs : w.fate[i] = IF i \in ToSet(pending) THEN "gone" ELSE fate[i],
         SameOwner(w), Keeps(w)
  PROVE  Fine
<1>1. /\ Distinct(pending) /\ Apart(queue) /\ Members(queue) \cap ToSet(pending) = {}
  BY LeftTyped DEF TurnInv, Sound
<1>2. Apart(w.queue) /\ Distinct(w.pending) /\ Members(w.queue) \cap ToSet(w.pending) = {}
  BY <1>1, EmptyFacts
<1>3. Queued(w) = Members(queue) /\ Queued(Left) = Members(queue) \cup ToSet(pending)
  BY HeldWait, EmptyFacts DEF Queued
<1>4. \A i \in Inputs : i \in ToSet(pending) <=> i \in Queued(Left) /\ i \notin Queued(w)
  BY <1>1, <1>3
<1>5. /\ Sound(w, Hand)
      /\ \A i \in Inputs : fate[i] \in {"told", "returned", "cleared"} => w.fate[i] = fate[i]
      /\ \A i \in Inputs : fate[i] # "gone" /\ w.fate[i] = "gone" => i \in ToSet(pending)
  BY <1>2, <1>3, <1>4, LessQueued
<1>6. KeepsPromise(w)
  BY <1>5 DEF KeepsPromise, MayDiscard
<1>7. NoNewWork(w)
  BY EmptyFacts DEF NoNewWork
<1>8. Stays(w)
  BY <1>5, <1>7 DEF Stays, SameFates
<1>9. Len(w.queue) <= Len(queue)
  BY LeftTyped, LenProperties
<1> QED
  BY <1>6, <1>8, <1>9, KeepsTo

LEMMA SetModelTo ==
  ASSUME TurnInv, SetModel
  PROVE  Fine
<1> DEFINE w == Replaced(Left)
<1>1. loop = "off" /\ Keeps(w)
  BY DEF SetModel, Busy
<1>2. /\ w \in Lefts /\ w.queue = queue /\ w.pending = <<>> /\ w.goal = goal
      /\ w.compact = compact /\ w.rescue = rescue
      /\ \A i \in Inputs : w.fate[i] = IF i \in ToSet(pending) THEN "gone" ELSE fate[i]
  BY ReplacedIs
<1> HIDE DEF w
<1>3. SameOwner(w)
  BY <1>2 DEF SameOwner
<1> QED
  BY <1>1, <1>2, <1>3, ReplacedTo

LEMMA CompactSwapsTo ==
  ASSUME TurnInv, CompactSwaps
  PROVE  Fine
<1>1. compact.stage = "chosen" /\ loop = "off"
  BY DEF CompactSwaps, TurnInv, Owners
<1>2. PICK to \in {"again", "failed"} : Keeps([Replaced(Left) EXCEPT !.compact.stage = to])
  BY DEF CompactSwaps
<1> DEFINE c == [compact EXCEPT !.stage = to]
           w == [Replaced(Left) EXCEPT !.compact = c]
<1>3. /\ Replaced(Left) \in Lefts /\ Replaced(Left).queue = queue
      /\ Replaced(Left).pending = <<>> /\ Replaced(Left).goal = goal
      /\ Replaced(Left).compact = compact /\ Replaced(Left).rescue = rescue
      /\ \A i \in Inputs : Replaced(Left).fate[i] = IF i \in ToSet(pending) THEN "gone" ELSE fate[i]
  BY ReplacedIs
<1>4. c \in Compactions /\ c.stage = to /\ c.next = compact.next
  BY StageTo
<1>5. Keeps(w)
  BY <1>2, <1>3
<1> HIDE DEF c
<1>6. /\ w \in Lefts /\ w.queue = queue /\ w.pending = <<>> /\ w.goal = goal
      /\ w.compact = c /\ w.rescue = rescue
      /\ \A i \in Inputs : w.fate[i] = IF i \in ToSet(pending) THEN "gone" ELSE fate[i]
  BY <1>3, <1>4 DEF Lefts
<1> HIDE DEF w
<1>7. SameOwner(w)
  BY <1>1, <1>4, <1>6 DEF SameOwner
<1> QED
  BY <1>1, <1>5, <1>6, <1>7, ReplacedTo

LEMMA RescueSwapsTo ==
  ASSUME TurnInv, RescueSwaps
  PROVE  Fine
<1>1. rescue.stage = "chosen" /\ loop = "off"
  BY DEF RescueSwaps, TurnInv, Owners
<1> DEFINE r == [rescue EXCEPT !.stage = "swapped"]
           w == [Replaced(Left) EXCEPT !.rescue = r]
<1>2. /\ Replaced(Left) \in Lefts /\ Replaced(Left).queue = queue
      /\ Replaced(Left).pending = <<>> /\ Replaced(Left).goal = goal
      /\ Replaced(Left).compact = compact /\ Replaced(Left).rescue = rescue
      /\ \A i \in Inputs : Replaced(Left).fate[i] = IF i \in ToSet(pending) THEN "gone" ELSE fate[i]
  BY ReplacedIs
<1>3. r \in Rescues /\ r.stage = "swapped" /\ r.item = rescue.item
  BY StageTo
<1>4. Keeps(w)
  BY <1>2 DEF RescueSwaps
<1> HIDE DEF r
<1>5. /\ w \in Lefts /\ w.queue = queue /\ w.pending = <<>> /\ w.goal = goal
      /\ w.compact = compact /\ w.rescue = r
      /\ \A i \in Inputs : w.fate[i] = IF i \in ToSet(pending) THEN "gone" ELSE fate[i]
  BY <1>2, <1>3 DEF Lefts
<1> HIDE DEF w
<1>6. SameOwner(w)
  BY <1>1, <1>3, <1>5 DEF SameOwner
<1> QED
  BY <1>1, <1>4, <1>5, <1>6, ReplacedTo

LEMMA RunningTo ==
  ASSUME TurnInv, NEW r \in Reports, NEW what \in {"running", "completed"},
         fate[r] \in {"new", "running"}, fate' = [fate EXCEPT ![r] = what],
         UNCHANGED <<turnVars, compact, rescue, queue, pending, goal, skipOnce>>
  PROVE  Fine
<1> DEFINE f == [fate EXCEPT ![r] = what]
           w == [Left EXCEPT !.fate = f]
<1>1. r \in Inputs
  BY KindFacts
<1>2. /\ f \in [Inputs -> Fates] /\ \A i \in Inputs : f[i] = IF i = r THEN what ELSE fate[i]
      /\ fate' = f
  BY <1>1, LeftTyped DEF Fates
<1> HIDE DEF f
<1>3. /\ w \in Lefts /\ w.queue = queue /\ w.pending = pending /\ w.fate = f /\ w.goal = goal
      /\ w.skip = skipOnce /\ w.compact = compact /\ w.rescue = rescue
  BY <1>2, LeftTyped DEF Lefts
<1> HIDE DEF w
<1>4. Keeps(w)
  BY <1>2, <1>3 DEF Keeps, Becomes
<1>5. Sound(w, Hand)
  <2>1. Queued(w) = Queued(Left)
    BY <1>3, LeftTyped DEF Queued
  <2>2. \A i \in Inputs : w.fate[i] = "waiting" <=> fate[i] = "waiting"
    BY <1>2, <1>3
  <2> QED
    BY <1>3, <2>1, <2>2, LeftTyped DEF TurnInv, Sound
<1>6. queue = <<>> \/ w.queue # <<>>
  BY <1>3
<1>7. Stays(w) /\ KeepsPromise(w)
  BY <1>2, <1>3, <1>5, <1>6 DEF Stays, SameOwner, SameFates, NoNewWork, KeepsPromise
<1>8. Len(w.queue) <= Len(queue)
  BY <1>3, LeftTyped, LenProperties
<1> QED
  BY <1>4, <1>7, <1>8, KeepsTo

LEMMA ReportsRun ==
  ASSUME TurnInv, NEW r \in Reports, Spawn(r) \/ WorkerCompletes(r)
  PROVE  Fine
<1>1. CASE Spawn(r)
  BY <1>1, RunningTo DEF Spawn
<1>2. CASE WorkerCompletes(r)
  BY <1>2, RunningTo DEF WorkerCompletes
<1> QED
  BY <1>1, <1>2

LEMMA CompactTo ==
  ASSUME TurnInv, Compact
  PROVE  Fine
<1>1. Ready(Left, {}) /\ Resting(Left, {}) /\ Compacts({}, Left)
  BY IdleReady DEF Compact
<1>2. TurnInv' /\ Busy' /\ fate' = fate
  BY <1>1, CompactsTo, LeftTyped
<1>3. KeepsPromise(Left)
  BY LeftTyped DEF KeepsPromise
<1> QED
  BY <1>2, <1>3, BeginsTo, LeftTyped

LEMMA SetGoalTo ==
  ASSUME TurnInv, NEW op, SetGoal(op)
  PROVE  Fine
<1> DEFINE g == Commanded(op)
           w == [Left EXCEPT !.goal = g]
<1>1. op \in {"set", "clear", "pause", "resume", "complete"}
      /\ IF ~ Busy /\ op \in {"set", "resume"} THEN ContinueGoal(w) ELSE Keeps(w)
  BY DEF SetGoal
<1>2. g \in Goals /\ (g.run = "no" <=> goal.run = "no")
  BY <1>1, CommandedTyped
<1> HIDE DEF g
<1>3. /\ w \in Lefts /\ w.queue = queue /\ w.pending = pending /\ w.fate = fate /\ w.goal = g
      /\ w.skip = skipOnce /\ w.compact = compact /\ w.rescue = rescue
  BY <1>2, LeftTyped DEF Lefts
<1> HIDE DEF w
<1>4. CASE Keeps(w)
  <2>1. SameOwner(w)
    BY <1>2, <1>3 DEF SameOwner
  <2>2. Becomes(w) /\ loop' = loop /\ in' = in /\ cancelled' = cancelled
    BY <1>4 DEF Keeps, turnVars
  <2> QED
    BY <1>3, <2>1, <2>2, CancelledIs, QuietTo
<1>5. CASE ~ Busy /\ ContinueGoal(w)
  <2>1. /\ compact = NoCompaction /\ rescue = NoRescue
        /\ Ready(Left, {}) /\ Resting(Left, {})
    BY <1>5, IdleReady
  <2>2. Sound(Left, {})
    BY <2>1 DEF Ready
  <2>3. Sound(w, {})
    BY <1>2, <1>3, <2>2, LeftTyped, SoundSame
  <2>4. Ready(w, {})
    BY <1>3, <2>1, <2>3 DEF Ready
  <2>5. Resting(w, {})
    BY <1>2, <1>3, <2>1, LeftTyped DEF Resting, GivenBack
  <2>6. /\ TurnInv' /\ \A i \in Inputs : fate'[i] \in {"gone", "cleared"} => fate[i] = fate'[i]
        /\ Busy' \/ (queue' = queue /\ pending' = pending)
    BY <1>3, <1>5, <2>4, <2>5, ContinueGoalTo
  <2>7. Len(queue) <= Len(queue)
    BY LeftTyped, LenProperties
  <2> QED
    BY <1>5, <2>6, <2>7 DEF Fine, DiscardsAsPromised, StrandsNothing
<1> QED
  BY <1>1, <1>4, <1>5

----------------------------------------------------------------------------
(***************************************************************************)
(* The agent's loop, up to the end of the turn.                            *)
(***************************************************************************)

\* A turn that runs owns the transcript alone.
LEMMA TurnRuns ==
  ASSUME TurnInv, loop # "off"
  PROVE  /\ compact = NoCompaction /\ rescue = NoRescue /\ Hand = Starting
         /\ compact.stage = "off" /\ rescue.stage = "off" /\ rescue.item = {}
<1>1. compact.stage = "off" /\ rescue.stage = "off"
  BY DEF TurnInv, Owners
<1>2. compact = NoCompaction /\ rescue = NoRescue
  BY <1>1 DEF TurnInv, Owners
<1> QED
  BY <1>1, <1>2, NoneTyped DEF Hand

\* The loop goes on; what it tells the model was waiting.
LEMMA GoesOnTo ==
  ASSUME TurnInv, loop # "off", NEW to, Goes(to),
         to \in {"boundary", "request", "ok", "blocked", "failed", "rescuable", "repeated", "cancelled"},
         UNCHANGED <<queue, goal, skipOnce>>,
         NEW p \in Seq(Users \cup Reports), pending' = p,
         NEW f \in [Inputs -> Fates], fate' = f,
         Distinct(p), Members(queue) \cap ToSet(p) = {},
         \A i \in Inputs : f[i] = "waiting" <=> i \in Members(queue) \cup ToSet(p),
         Goal \notin ToSet(p), \A i \in Inputs : f[i] \in {"gone", "cleared"} => fate[i] = f[i],
         \A i \in in : f[i] = "told" \/ (to = "boundary" /\ i \in ToSet(p) \cap Reports)
  PROVE  Fine
<1>1. loop' = to /\ cancelled' = cancelled /\ in' = in /\ compact' = compact /\ rescue' = rescue
      /\ queue' = queue /\ goal' = goal /\ skipOnce' = skipOnce
  BY DEF Goes
<1>2. /\ compact = NoCompaction /\ rescue = NoRescue
      /\ compact.stage = "off" /\ rescue.stage = "off" /\ rescue.item = {} /\ compact.next = {}
  BY TurnRuns, NoneTyped
<1> DEFINE w == [Left EXCEPT !.pending = p, !.fate = f]
<1>3. /\ w \in Lefts /\ w.queue = queue /\ w.pending = p /\ w.fate = f /\ w.goal = goal
      /\ w.skip = skipOnce /\ w.compact = compact /\ w.rescue = rescue
  BY LeftTyped DEF Lefts
<1> HIDE DEF w
<1>4. Left' = w
  BY <1>1, <1>3, BecomesIs DEF Becomes
<1>5. Hand' = {}
  BY <1>1, <1>2 DEF Hand, Starting
<1>6. Apart(queue) /\ (Goal \in Queued(Left) => goal.run # "no")
  BY LeftTyped DEF TurnInv, Sound
<1>7. Queued(w) = Members(queue) \cup ToSet(p)
  BY <1>3 DEF Queued
<1>8. Goal \in Queued(w) => w.goal.run # "no"
  BY <1>3, <1>6, <1>7, HeldWait
<1>9. Sound(w, {})
  BY <1>3, <1>6, <1>7, <1>8 DEF Sound
<1>10. Sound(Left, Hand)'
  BY <1>4, <1>5, <1>9 DEF Sound, Queued
<1>11. Owners'
  BY <1>1, <1>2 DEF Owners
<1>12. Told'
  BY <1>1, <1>2 DEF Told
<1>13. Leased'
  BY <1>1 DEF TurnInv, Leased
<1>14. in \in Items \cup {{}} /\ cancelled \in BOOLEAN
  BY DEF TurnInv
<1>15. TurnInv'
  BY <1>1, <1>2, <1>3, <1>4, <1>10, <1>11, <1>12, <1>13, <1>14 DEF TurnInv
<1>16. Busy'
  BY <1>1 DEF Busy
<1>17. DiscardsAsPromised
  BY DEF DiscardsAsPromised
<1> QED
  BY <1>15, <1>16, <1>17 DEF Fine, StrandsNothing

LEMMA RequestTo ==
  ASSUME TurnInv, loop = "request", NEW to, Goes(to), UNCHANGED leftVars,
         to \in {"boundary", "ok", "failed", "rescuable", "repeated", "cancelled"}
  PROVE  Fine
<1>1. queue' = queue /\ pending' = pending /\ goal' = goal /\ fate' = fate /\ skipOnce' = skipOnce
  BY DEF leftVars
<1>2. Hand = {}
  BY TurnRuns DEF Starting
<1>3. /\ \A i \in Inputs : fate[i] = "waiting" <=> i \in Members(queue) \cup ToSet(pending)
      /\ Distinct(pending) /\ Members(queue) \cap ToSet(pending) = {}
  BY <1>2, HeldWait, LeftTyped DEF TurnInv, Sound
<1>4. Goal \notin ToSet(pending)
  BY PendingKinds, KindFacts
<1>5. \A i \in in : fate[i] = "told"
  BY DEF TurnInv, Told
<1> QED
  BY <1>1, <1>3, <1>4, <1>5, LeftTyped, GoesOnTo

LEMMA LoopTo ==
  ASSUME TurnInv, More \/ Stops \/ \E how \in {"failed", "rescuable", "repeated"} : Fails(how)
  PROVE  Fine
<1>1. CASE More
  <2>1. PICK to \in {"cancelled", "boundary"} : Goes(to)
    BY <1>1 DEF More
  <2> QED
    BY <1>1, <2>1, RequestTo DEF More
<1>2. CASE Stops
  <2>1. PICK to \in {"ok", "boundary"} : Goes(to)
    BY <1>2 DEF Stops
  <2> QED
    BY <1>2, <2>1, RequestTo DEF Stops
<1>3. CASE \E how \in {"failed", "rescuable", "repeated"} : Fails(how)
  <2>1. PICK how \in {"failed", "rescuable", "repeated"} : Fails(how)
    BY <1>3
  <2> QED
    BY <2>1, RequestTo DEF Fails
<1> QED
  BY <1>1, <1>2, <1>3

LEMMA BoundaryTo ==
  ASSUME TurnInv, Boundary
  PROVE  Fine
<1> DEFINE f == Fated(fate, ToSet(pending), "told")
<1>1. loop = "boundary" /\ pending' = <<>> /\ fate' = f /\ UNCHANGED <<queue, goal, skipOnce>>
  BY DEF Boundary
<1>2. PICK to \in {"request", "blocked"} : Goes(to)
  BY DEF Boundary
<1>3. /\ f \in [Inputs -> Fates]
      /\ \A i \in Inputs : f[i] = IF i \in ToSet(pending) THEN "told" ELSE fate[i]
  BY LeftTyped, FatedIs DEF Fates
<1> HIDE DEF f
<1>4. Hand = {}
  BY <1>1, TurnRuns DEF Starting
<1>5. /\ \A i \in Inputs : fate[i] = "waiting" <=> i \in Members(queue) \cup ToSet(pending)
      /\ Members(queue) \cap ToSet(pending) = {}
  BY <1>4, HeldWait, LeftTyped DEF TurnInv, Sound
<1>6. \A i \in Inputs : f[i] = "waiting" <=> i \in Members(queue) \cup ToSet(<<>>)
  BY <1>3, <1>5, EmptyFacts
<1>7. \A i \in in : f[i] = "told"
  <2> SUFFICES ASSUME NEW i \in in PROVE f[i] = "told"
    OBVIOUS
  <2>1. in \in Items \cup {{}}
    BY DEF TurnInv
  <2>2. i \in Inputs
    BY <2>1, ItemFacts
  <2>3. fate[i] = "told" \/ i \in ToSet(pending)
    BY <1>1 DEF TurnInv, Told
  <2> QED
    BY <1>3, <2>2, <2>3
<1>8. <<>> \in Seq(Users \cup Reports)
  BY EmptySeq
<1> QED
  BY <1>1, <1>2, <1>3, <1>6, <1>7, <1>8, EmptyFacts, GoesOnTo

LEMMA StartTo ==
  ASSUME TurnInv, Start
  PROVE  Fine
<1>1. /\ loop = "start" /\ Goes("boundary") /\ queue' = queue /\ goal' = goal /\ skipOnce' = skipOnce
  BY DEF Start
<1>2. Hand = in /\ in \in Items \cup {{}}
  BY <1>1, TurnRuns DEF Starting, TurnInv
<1>3. /\ \A i \in Inputs : fate[i] = "waiting" <=> i \in (Members(queue) \cup ToSet(pending)) \cup in
      /\ Members(queue) \cap ToSet(pending) = {} /\ Distinct(pending)
      /\ in \cap (Members(queue) \cup ToSet(pending)) = {}
  BY <1>2, HeldWait, LeftTyped DEF TurnInv, Sound
<1>4. Goal \notin ToSet(pending) /\ pending \in Seq(Users \cup Reports)
  BY PendingKinds, KindFacts, LeftTyped
<1>5. CASE in # {} /\ in \subseteq Reports
  <2>1. PICK x \in Reports : in = {x}
    BY <1>2, <1>5, ItemFacts
  <2>2. (CHOOSE r \in in : TRUE) = x
    <3>1. (CHOOSE r \in in : TRUE) \in in
      BY <1>5
    <3> QED
      BY <2>1, <3>1
  <2> DEFINE p == Append(pending, x)
  <2>3. pending' = p /\ fate' = fate
    BY <1>5, <2>2 DEF Start
  <2>4. x \in Users \cup Reports /\ x \notin ToSet(pending) /\ x # Goal
    BY <1>3, <2>1, KindFacts
  <2>5. p \in Seq(Users \cup Reports) /\ Distinct(p) /\ ToSet(p) = ToSet(pending) \cup {x}
    BY <1>3, <1>4, <2>4, AppendDistinct
  <2> HIDE DEF p
  <2>6. Members(queue) \cap ToSet(p) = {} /\ Goal \notin ToSet(p)
    BY <1>3, <1>4, <2>1, <2>4, <2>5
  <2>7. \A i \in Inputs : fate[i] = "waiting" <=> i \in Members(queue) \cup ToSet(p)
    BY <1>3, <2>1, <2>5
  <2>8. \A i \in in : i \in ToSet(p) \cap Reports
    BY <2>1, <2>5
  <2> QED
    BY <1>1, <2>3, <2>5, <2>6, <2>7, <2>8, LeftTyped, GoesOnTo
<1>6. CASE ~ (in # {} /\ in \subseteq Reports)
  <2> DEFINE f == Fated(fate, in, "told")
  <2>1. pending' = pending /\ fate' = f
    BY <1>6 DEF Start
  <2>2. f \in [Inputs -> Fates] /\ \A i \in Inputs : f[i] = IF i \in in THEN "told" ELSE fate[i]
    BY LeftTyped, FatedIs DEF Fates
  <2> HIDE DEF f
  <2>3. \A i \in Inputs : f[i] = "waiting" <=> i \in Members(queue) \cup ToSet(pending)
    BY <1>3, <2>2
  <2>4. \A i \in in : f[i] = "told"
    <3>1. \A i \in in : i \in Inputs
      BY <1>2, ItemFacts
    <3> QED
      BY <2>2, <3>1
  <2> QED
    BY <1>1, <1>3, <1>4, <2>1, <2>2, <2>3, <2>4, GoesOnTo
<1> QED
  BY <1>5, <1>6

----------------------------------------------------------------------------
(***************************************************************************)
(* The end of a turn, of a compaction and of a rescue.                     *)
(***************************************************************************)

\* The queue and the reports that outlive a turn that failed or was cancelled.
KeptQueue ==
  IF loop = "repeated"
  THEN Only(queue, Items \ ((SUBSET Reports) \cup (SUBSET Tasks)))
         \o [k \in DOMAIN Only(pending, Users) |-> {Only(pending, Users)[k]}]
  ELSE Only(queue, SUBSET Tasks)

KeptPending ==
  (IF cancelled THEN <<>> ELSE Only(pending, Reports))
    \o (IF cancelled /\ loop # "repeated" THEN <<>> ELSE HostedOf(Only(queue, SUBSET Reports)))

\* What is kept, by kind.
QueueKinds(q) ==
  /\ q \in Seq(Items) /\ Apart(q) /\ Members(q) \subseteq Queued(Left) /\ Members(q) \cap Reports = {}
  /\ \A i \in Queued(Left) \ Reports :
       i \in Members(q) <=> IF loop = "repeated" THEN i \notin Tasks ELSE i \in Tasks

PendingOf(p) ==
  /\ p \in Seq(Users \cup Reports) /\ Distinct(p) /\ ToSet(p) \subseteq Reports \cap Queued(Left)
  /\ \A i \in Queued(Left) \cap Reports :
       i \notin ToSet(p) => cancelled /\ (loop = "repeated" => i \in ToSet(pending))

LEMMA PendingOnly ==
  ASSUME TurnInv, NEW T
  PROVE  /\ Only(pending, T) \in Seq(Users \cup Reports) /\ Distinct(Only(pending, T))
         /\ ToSet(Only(pending, T)) = ToSet(pending) \cap T
<1>1. pending \in Seq(Users \cup Reports) /\ Distinct(pending)
  BY LeftTyped DEF TurnInv, Sound
<1> QED
  BY <1>1, OnlyDistinct

LEMMA KeptQueueIs ==
  ASSUME TurnInv
  PROVE  QueueKinds(KeptQueue)
<1>1. /\ queue \in Seq(Items) /\ Apart(queue) /\ pending \in Seq(Users \cup Reports) /\ Distinct(pending)
      /\ Members(queue) \cap ToSet(pending) = {} /\ ToSet(pending) \subseteq Users \cup Reports
      /\ Queued(Left) = Members(queue) \cup ToSet(pending) /\ Queued(Left) \subseteq Inputs
  BY LeftTyped, HeldWait, PendingKinds DEF TurnInv, Sound
<1>2. Users \cap Reports = {} /\ Users \cap Tasks = {} /\ Tasks \cap Reports = {}
  BY KindsAssumption
<1>3. CASE loop # "repeated"
  <2> DEFINE q == Only(queue, SUBSET Tasks)
  <2>1. /\ q \in Seq(Items) /\ Apart(q) /\ Members(q) \subseteq Members(queue)
        /\ \A i \in Members(queue) : \E e \in Items : i \in e /\ (e \in SUBSET Tasks <=> i \in Members(q))
        /\ \A i \in Members(q) : \E e \in Items : e \in SUBSET Tasks /\ i \in e
    BY <1>1, EntriesKept
  <2>2. KeptQueue = q
    BY <1>3 DEF KeptQueue
  <2> HIDE DEF q
  <2>3. Members(q) \subseteq Tasks
    BY <2>1
  <2>4. ASSUME NEW i \in Members(queue), i \in Tasks PROVE i \in Members(q)
    <3>1. PICK e \in Items : i \in e /\ (e \in SUBSET Tasks <=> i \in Members(q))
      BY <2>1
    <3>2. e \subseteq Tasks
      BY <2>4, <3>1, ItemFacts
    <3> QED
      BY <3>1, <3>2
  <2> QED
    BY <1>1, <1>2, <1>3, <2>1, <2>2, <2>3, <2>4 DEF QueueKinds
<1>4. CASE loop = "repeated"
  <2> DEFINE T == Items \ ((SUBSET Reports) \cup (SUBSET Tasks))
             a == Only(queue, T)
             u == Only(pending, Users)
             b == [k \in DOMAIN u |-> {u[k]}]
  <2>1. /\ a \in Seq(Items) /\ Apart(a) /\ Members(a) \subseteq Members(queue)
        /\ \A i \in Members(queue) : \E e \in Items : i \in e /\ (e \in T <=> i \in Members(a))
        /\ \A i \in Members(a) : \E e \in Items : e \in T /\ i \in e
    <3> HIDE DEF T
    <3> QED
      BY <1>1, EntriesKept
  <2>2. u \in Seq(Users \cup Reports) /\ Distinct(u) /\ ToSet(u) = ToSet(pending) \cap Users
    BY PendingOnly
  <2>3. KeptQueue = a \o b
    BY <1>4 DEF KeptQueue
  <2>4. \A e \in Items : e \in T <=> ~ e \subseteq Reports /\ ~ e \subseteq Tasks
    OBVIOUS
  <2> HIDE DEF T, a, u
  <2>5. \A x \in Users \cup Reports : {x} \in Items
    BY KindFacts
  <2>6. b \in Seq(Items) /\ Apart(b) /\ Members(b) = ToSet(u)
    BY <2>2, <2>5, SinglesApart
  <2> HIDE DEF b
  <2>7. Members(a) \cap Members(b) = {}
    BY <1>1, <2>1, <2>2, <2>6
  <2>8. a \o b \in Seq(Items) /\ Apart(a \o b) /\ Members(a \o b) = Members(a) \cup Members(b)
    BY <2>1, <2>6, <2>7, ConcatApart
  <2>9. ASSUME NEW i \in Members(a) PROVE i \notin Reports /\ i \notin Tasks
    <3>1. PICK e \in Items : e \in T /\ i \in e
      BY <2>1
    <3>2. e \cap Reports = {} /\ e \cap Tasks = {}
      BY <2>4, <3>1, ItemFacts
    <3> QED
      BY <3>1, <3>2
  <2>10. ASSUME NEW i \in Members(queue), i \notin Reports, i \notin Tasks PROVE i \in Members(a)
    <3>1. PICK e \in Items : i \in e /\ (e \in T <=> i \in Members(a))
      BY <2>1
    <3>2. ~ e \subseteq Reports /\ ~ e \subseteq Tasks
      BY <2>10, <3>1
    <3> QED
      BY <2>4, <3>1, <3>2
  <2>11. Members(KeptQueue) = Members(a) \cup (ToSet(pending) \cap Users)
    BY <2>2, <2>3, <2>6, <2>8
  <2>12. KeptQueue \in Seq(Items) /\ Apart(KeptQueue)
    BY <2>3, <2>8
  <2>13. ASSUME NEW i \in Queued(Left), i \notin Reports
         PROVE  i \in Members(KeptQueue) <=> i \notin Tasks
    <3>1. CASE i \in Members(queue)
      BY <1>1, <2>9, <2>10, <2>11, <2>13, <3>1
    <3>2. CASE i \in ToSet(pending)
      BY <1>1, <1>2, <2>11, <2>13, <3>2
    <3> QED
      BY <1>1, <3>1, <3>2
  <2> QED
    BY <1>1, <1>2, <1>4, <2>1, <2>9, <2>11, <2>12, <2>13 DEF QueueKinds
<1> QED
  BY <1>3, <1>4

LEMMA KeptPendingIs ==
  ASSUME TurnInv
  PROVE  PendingOf(KeptPending)
<1>1. /\ queue \in Seq(Items) /\ Apart(queue) /\ pending \in Seq(Users \cup Reports) /\ Distinct(pending)
      /\ Members(queue) \cap ToSet(pending) = {} /\ ToSet(pending) \subseteq Users \cup Reports
      /\ Queued(Left) = Members(queue) \cup ToSet(pending)
  BY LeftTyped, HeldWait, PendingKinds DEF TurnInv, Sound
<1> DEFINE a == Only(pending, Reports)
           h == Only(queue, SUBSET Reports)
           b == HostedOf(h)
           x == IF cancelled THEN <<>> ELSE a
           y == IF cancelled /\ loop # "repeated" THEN <<>> ELSE b
<1>2. a \in Seq(Users \cup Reports) /\ Distinct(a) /\ ToSet(a) = ToSet(pending) \cap Reports
  BY PendingOnly
<1>3. /\ h \in Seq(Items \cap SUBSET Reports) /\ Apart(h) /\ Members(h) \subseteq Members(queue)
      /\ \A i \in Members(queue) : \E e \in Items : i \in e /\ (e \in SUBSET Reports <=> i \in Members(h))
      /\ \A i \in Members(h) : \E e \in Items : e \in SUBSET Reports /\ i \in e
  BY <1>1, EntriesKept, OnlyApart
<1>4. KeptPending = x \o y
  BY DEF KeptPending
<1> HIDE DEF a, h, x, y
<1>6. \A e \in Items \cap SUBSET Reports : \E r \in Reports : e = {r}
  BY ItemFacts
<1>7. b \in Seq(Reports) /\ Distinct(b) /\ ToSet(b) = Members(h)
  <2> DEFINE S == Items \cap SUBSET Reports
  <2>1. h \in Seq(S) /\ Apart(h) /\ \A e \in S : \E r \in Reports : e = {r}
    BY <1>3, <1>6
  <2> HIDE DEF S
  <2> QED
    BY <2>1, HostsDistinct
<1> HIDE DEF b
<1>8. b \in Seq(Users \cup Reports)
  BY <1>7, SeqMonotonic
<1>9. \A i \in Members(h) : i \in Reports
  BY <1>3
<1>10. ASSUME NEW i \in Members(queue), i \in Reports PROVE i \in Members(h)
  <2>1. PICK e \in Items : i \in e /\ (e \in SUBSET Reports <=> i \in Members(h))
    BY <1>3
  <2>2. e \subseteq Reports
    BY <1>10, <2>1, ItemFacts
  <2> QED
    BY <2>1, <2>2
<1>11. <<>> \in Seq(Users \cup Reports)
  BY EmptySeq
<1>12. x \in Seq(Users \cup Reports) /\ Distinct(x)
       /\ ToSet(x) = IF cancelled THEN {} ELSE ToSet(pending) \cap Reports
  BY <1>2, <1>11, EmptyFacts DEF x
<1>13. y \in Seq(Users \cup Reports) /\ Distinct(y)
       /\ ToSet(y) = IF cancelled /\ loop # "repeated" THEN {} ELSE Members(h)
  BY <1>7, <1>8, <1>11, EmptyFacts DEF y
<1>14. ToSet(x) \cap ToSet(y) = {}
  BY <1>1, <1>3, <1>12, <1>13
<1>15. /\ x \o y \in Seq(Users \cup Reports) /\ Distinct(x \o y)
       /\ ToSet(x \o y) = ToSet(x) \cup ToSet(y)
  BY <1>12, <1>13, <1>14, ConcatDistinct
<1>16. ToSet(KeptPending) \subseteq Reports \cap Queued(Left)
  BY <1>1, <1>3, <1>4, <1>9, <1>12, <1>13, <1>15
<1>17. ASSUME NEW i \in Queued(Left), i \in Reports, i \notin ToSet(KeptPending)
       PROVE  cancelled /\ (loop = "repeated" => i \in ToSet(pending))
  <2>1. i \notin ToSet(x) /\ i \notin ToSet(y)
    BY <1>4, <1>15, <1>17
  <2>2. i \in Members(queue) => cancelled /\ loop # "repeated"
    BY <1>10, <1>13, <1>17, <2>1
  <2>3. i \in ToSet(pending) => cancelled
    BY <1>12, <1>17, <2>1
  <2> QED
    BY <1>1, <1>17, <2>2, <2>3
<1> QED
  BY <1>4, <1>15, <1>16, <1>17 DEF PendingOf

LEMMA EndedReady ==
  ASSUME TurnInv, Ended
  PROVE  /\ loop \notin {"off", "start", "boundary"} /\ Hand = {} /\ compact = NoCompaction
         /\ rescue = NoRescue /\ Ready(Left, {}) /\ \A i \in in : fate[i] = "told"
<1>1. loop \notin {"off", "start", "boundary"}
  BY DEF Ended
<1>2. compact = NoCompaction /\ rescue = NoRescue /\ Hand = {}
  BY <1>1, TurnRuns DEF Starting
<1>3. Sound(Left, {}) /\ \A i \in in : fate[i] = "told"
  BY <1>1, <1>2 DEF TurnInv, Told
<1> QED
  BY <1>1, <1>2, <1>3, LeftTyped DEF Ready

\* What is given up with the turn may be given up.
LEMMA SurvivingIs ==
  ASSUME TurnInv, Ended
  PROVE  /\ Ready(Surviving, {}) /\ KeepsPromise(Surviving)
         /\ ToSet(Surviving.pending) \subseteq Reports /\ Surviving.goal = goal
         /\ \A i \in Inputs : fate[i] = "told" => Surviving.fate[i] = "told"
<1> DEFINE q == KeptQueue
           p == KeptPending
           S == (Members(queue) \cup ToSet(pending)) \ (Members(q) \cup ToSet(p))
           f == Fated(fate, S, "gone")
           w == [Left EXCEPT !.queue = q, !.pending = p, !.fate = f]
<1>1. Surviving = w
  BY LeftTyped DEF Surviving, KeptQueue, KeptPending, HostedOf
<1>2. QueueKinds(q) /\ PendingOf(p)
  BY KeptQueueIs, KeptPendingIs
<1> HIDE DEF q, p
<1>3. /\ f \in [Inputs -> Fates]
      /\ \A i \in Inputs : f[i] = IF i \in S THEN "gone" ELSE fate[i]
  <2> HIDE DEF S
  <2>1. "gone" \in Fates /\ fate \in [Inputs -> Fates]
    BY LeftTyped DEF Fates
  <2> QED
    BY <2>1, FatedIs
<1> HIDE DEF f
<1>4. /\ q \in Seq(Items) /\ Apart(q) /\ Members(q) \subseteq Queued(Left) /\ Members(q) \cap Reports = {}
      /\ p \in Seq(Users \cup Reports) /\ Distinct(p) /\ ToSet(p) \subseteq Reports \cap Queued(Left)
  BY <1>2 DEF QueueKinds, PendingOf
<1>5. /\ w \in Lefts /\ w.queue = q /\ w.pending = p /\ w.fate = f /\ w.goal = goal
      /\ w.compact = compact /\ w.rescue = rescue
  BY <1>3, <1>4, LeftTyped DEF Lefts
<1> HIDE DEF w
<1>6. Apart(w.queue) /\ Distinct(w.pending) /\ Members(w.queue) \cap ToSet(w.pending) = {}
      /\ Queued(w) = Members(q) \cup ToSet(p)
  BY <1>4, <1>5 DEF Queued
<1>7. Queued(w) \subseteq Queued(Left)
  BY <1>4, <1>6
<1>8. S = Queued(Left) \ Queued(w)
  BY <1>6, HeldWait
<1> HIDE DEF S
<1>9. /\ Sound(w, Hand)
      /\ \A i \in Inputs : fate[i] \in {"told", "returned", "cleared"} => w.fate[i] = fate[i]
      /\ \A i \in Inputs : fate[i] # "gone" /\ w.fate[i] = "gone" => i \in S
  BY <1>3, <1>5, <1>6, <1>7, <1>8, LessQueued
<1>10. ASSUME NEW i \in Inputs, i \in S PROVE MayDiscard(i)
  <2>1. i \in Queued(Left) /\ i \notin Members(q) /\ i \notin ToSet(p)
    BY <1>6, <1>8, <1>10
  <2>2. loop # "off" /\ Tasks \cap Reports = {}
    BY EndedReady, KindsAssumption
  <2>3. CASE i \in Reports
    <3>1. cancelled
      BY <1>2, <2>1, <2>3 DEF PendingOf
    <3> QED
      BY <2>2, <2>3, <3>1 DEF MayDiscard
  <2>4. CASE i \notin Reports
    <3>1. IF loop = "repeated" THEN i \in Tasks ELSE i \notin Tasks
      BY <1>2, <2>1, <2>4 DEF QueueKinds
    <3> QED
      BY <2>2, <2>4, <3>1 DEF MayDiscard
  <2> QED
    BY <2>3, <2>4
<1>11. KeepsPromise(w)
  <2>1. \A i \in Inputs : w.fate[i] \in {fate[i], "gone"}
    BY <1>3, <1>5
  <2> QED
    BY <1>9, <1>10, <2>1 DEF KeepsPromise
<1>12. Ready(w, {})
  BY <1>5, <1>9, EndedReady DEF Ready
<1> QED
  BY <1>1, <1>4, <1>5, <1>9, <1>11, <1>12

\* What finishTurn goes on with.
Ending == IF Erred \/ cancelled THEN Surviving ELSE Left

LEMMA EndingIs ==
  ASSUME TurnInv, Ended
  PROVE  /\ Ready(Ending, {}) /\ KeepsPromise(Ending) /\ Ending.goal = goal
         /\ Erred \/ cancelled => ToSet(Ending.pending) \subseteq Reports
         /\ \A i \in Inputs : fate[i] = "told" => Ending.fate[i] = "told"
<1>1. CASE Erred \/ cancelled
  BY <1>1, SurvivingIs DEF Ending
<1>2. CASE ~ (Erred \/ cancelled)
  <2>1. Ending = Left
    BY <1>2 DEF Ending
  <2>2. KeepsPromise(Left)
    BY LeftTyped DEF KeepsPromise
  <2> QED
    BY <1>2, <2>1, <2>2, EndedReady, LeftTyped
<1> QED
  BY <1>1, <1>2

LEMMA StartsRescueTo ==
  ASSUME TurnInv, Ended, in # {}, NEW w, Ready(w, {}), KeepsPromise(w), w.goal = goal,
         ToSet(w.pending) \subseteq Reports, \A i \in Inputs : fate[i] = "told" => w.fate[i] = "told",
         StartsRescue(w)
  PROVE  Fine
<1> DEFINE r == [stage |-> "starting", item |-> in]
           v == [w EXCEPT !.rescue = r]
<1>1. in \in Items \cup {{}} /\ \A i \in in : i \in Inputs
  BY ItemFacts DEF TurnInv
<1>2. r \in Rescues /\ r.stage = "starting" /\ r.item = in
  BY <1>1 DEF Rescues
<1>3. w \in Lefts /\ w.compact = NoCompaction /\ Sound(w, {}) /\ Rests(v)
  BY DEF Ready, StartsRescue
<1> HIDE DEF r
<1>4. /\ v \in Lefts /\ v.queue = w.queue /\ v.pending = w.pending /\ v.goal = goal /\ v.fate = w.fate
      /\ v.compact = NoCompaction /\ v.rescue = r
  BY <1>2, <1>3 DEF Lefts
<1>5. loop' = "off" /\ cancelled' = FALSE /\ in' = {} /\ Becomes(v)
  BY <1>3 DEF Rests
<1> HIDE DEF v
<1>6. /\ Left' = v /\ queue' = w.queue /\ pending' = w.pending /\ goal' = goal /\ fate' = w.fate
      /\ compact' = NoCompaction /\ rescue' = r
  BY <1>4, <1>5, BecomesIs
<1>7. compact'.stage = "off" /\ compact'.next = {}
  BY <1>6, NoneTyped
<1>8. Owners'
  BY <1>2, <1>5, <1>6, <1>7 DEF Owners
<1>9. Hand' = {}
  BY <1>5, <1>7 DEF Hand, Starting
<1>10. Sound(Left, Hand)'
  BY <1>3, <1>4, <1>6, <1>9 DEF Sound, Queued
<1>11. Told'
  BY <1>1, <1>2, <1>5, <1>6, EndedReady DEF Told
<1>12. Leased'
  BY <1>2, <1>5, <1>6 DEF TurnInv, Leased
<1>13. TurnInv'
  BY <1>2, <1>4, <1>5, <1>6, <1>8, <1>10, <1>11, <1>12 DEF TurnInv
<1>14. Busy'
  BY <1>2, <1>6 DEF Busy
<1> QED
  BY <1>6, <1>13, <1>14, BeginsTo

\* Nothing starts at the end of a turn: no prompt waits for one.
LEMMA GoalFine ==
  ASSUME TurnInv, Busy, NEW w, NEW end, Ready(w, {}), KeepsPromise(w), w.queue = <<>>,
         ToSet(w.pending) \subseteq Reports \/ (GivenBack(w) /\ GivenBack(Left)), GoalAfterTurn(end, w)
  PROVE  Fine
<1>1. /\ TurnInv' /\ \A i \in Inputs : fate'[i] \in {"gone", "cleared"} => w.fate[i] = fate'[i]
      /\ Busy' \/ (queue' = <<>> /\ pending' = w.pending)
  BY GoalAfterTurnTo
<1>2. GivenBack(Left) => TakenBack
  BY LeftTyped DEF GivenBack, TakenBack
<1>3. DiscardsAsPromised
  BY <1>1 DEF KeepsPromise, DiscardsAsPromised
<1>4. StrandsNothing
  BY <1>1, <1>2 DEF StrandsNothing
<1> QED
  BY <1>1, <1>3, <1>4 DEF Fine

LEMMA FinishTurnTo ==
  ASSUME TurnInv, FinishTurn
  PROVE  Fine
<1> DEFINE w == Ending
<1>1. /\ Ended
      /\ \/ Rescuable /\ StartsRescue(w)
         \/ w.queue # <<>> /\ StartQueued(w)
         \/ Turns({}, w)
         \/ w.queue = <<>> /\ (w.pending = <<>> \/ Erred \/ cancelled) /\ GoalAfterTurn(HowEnded, w)
  BY DEF FinishTurn, Ending
<1>2. /\ Ready(w, {}) /\ KeepsPromise(w) /\ w.goal = goal
      /\ Erred \/ cancelled => ToSet(w.pending) \subseteq Reports
      /\ \A i \in Inputs : fate[i] = "told" => w.fate[i] = "told"
  BY <1>1, EndingIs
<1> HIDE DEF w
<1>3. Busy
  BY <1>1, EndedReady DEF Busy
<1>4. CASE Rescuable /\ StartsRescue(w)
  <2>1. in # {} /\ Erred
    BY <1>4 DEF Rescuable, Erred
  <2> QED
    BY <1>1, <1>2, <1>4, <2>1, StartsRescueTo
<1>5. CASE w.queue # <<>> /\ StartQueued(w)
  BY <1>2, <1>5, StartQueuedTo, BeginsTo
<1>6. CASE Turns({}, w)
  BY <1>2, <1>6, TurnsTo, BeginsTo
<1>7. CASE w.queue = <<>> /\ (w.pending = <<>> \/ Erred \/ cancelled) /\ GoalAfterTurn(HowEnded, w)
  <2>1. ToSet(w.pending) \subseteq Reports
    BY <1>2, <1>7, EmptyFacts
  <2> QED
    BY <1>2, <1>3, <1>7, <2>1, GoalFine
<1> QED
  BY <1>1, <1>4, <1>5, <1>6, <1>7

LEMMA OneEntry ==
  ASSUME NEW e \in Items
  PROVE  <<e>> \in Seq(Items) /\ Apart(<<e>>) /\ Members(<<e>>) = e
<1>1. DOMAIN <<e>> = {1} /\ <<e>>[1] = e
  OBVIOUS
<1> QED
  BY <1>1 DEF Apart, Members

\* A compaction that is over leaves an idle session, and the prompt that waited for it.
LEMMA CompactedIs ==
  ASSUME TurnInv, compact.stage # "off"
  PROVE  /\ Ready(Compacted, compact.next) /\ Resting(Compacted, compact.next)
         /\ Compacted.queue = queue /\ Compacted.pending = pending /\ Compacted.fate = fate
         /\ Compacted.goal = goal /\ Busy /\ compact.next \in Items \cup {{}}
<1> DEFINE w == Compacted
<1>1. loop = "off" /\ rescue = NoRescue /\ rescue.stage = "off"
  BY DEF TurnInv, Owners
<1>2. Hand = compact.next
  BY <1>1 DEF Hand, Starting
<1>3. w = [Left EXCEPT !.compact = NoCompaction]
  BY DEF Compacted
<1> HIDE DEF w
<1>4. /\ w \in Lefts /\ w.queue = queue /\ w.pending = pending /\ w.fate = fate /\ w.goal = goal
      /\ w.compact = NoCompaction /\ w.rescue = rescue
  BY <1>3, LeftTyped, NoneTyped DEF Lefts
<1>5. Sound(Left, compact.next) /\ Resting(Left, compact.next)
  BY <1>1, <1>2 DEF TurnInv
<1>6. Sound(w, compact.next)
  BY <1>4, <1>5, LeftTyped, SoundSame
<1>7. Resting(w, compact.next)
  BY <1>4, <1>5, LeftTyped DEF Resting, GivenBack
<1>8. Ready(w, compact.next) /\ Busy
  BY <1>1, <1>4, <1>6 DEF Ready, Busy
<1>9. compact.next \in Items \cup {{}}
  BY LeftTyped DEF Compactions
<1> QED
  BY <1>4, <1>7, <1>8, <1>9 DEF w

\* The queue that runs, or stays, when an aborted compaction has ended.
AbortedTo ==
  IF compact.next = {} THEN Compacted
  ELSE [Compacted EXCEPT !.queue = <<compact.next>> \o @, !.skip = TRUE]

LEMMA AbortedIs ==
  ASSUME TurnInv, compact.stage # "off"
  PROVE  /\ Ready(AbortedTo, {}) /\ Resting(AbortedTo, {})
         /\ AbortedTo.pending = pending /\ AbortedTo.fate = fate
<1>1. CASE compact.next = {}
  BY <1>1, CompactedIs DEF AbortedTo
<1>2. CASE compact.next # {}
  <2> DEFINE c == Compacted
             n == compact.next
             e == <<n>>
             q == e \o queue
             w == [c EXCEPT !.queue = q, !.skip = TRUE]
  <2>1. /\ Ready(c, n) /\ c.queue = queue /\ c.pending = pending /\ c.fate = fate /\ c.goal = goal
        /\ n \in Items
    BY <1>2, CompactedIs
  <2>2. AbortedTo = w
    BY <1>2, <2>1 DEF AbortedTo
  <2> HIDE DEF c, n
  <2>3. c \in Lefts /\ c.compact = NoCompaction /\ c.rescue = NoRescue /\ Sound(c, n)
    BY <2>1 DEF Ready
  <2>4. e \in Seq(Items) /\ Apart(e) /\ Members(e) = n
    BY <2>1, OneEntry
  <2> HIDE DEF e
  <2>5. queue \in Seq(Items) /\ Apart(queue) /\ Members(queue) \cap n = {}
    BY <2>1, <2>3, LeftTyped DEF Sound, Queued
  <2>6. q \in Seq(Items) /\ Apart(q) /\ Members(q) = n \cup Members(queue)
    <3>1. Members(e) \cap Members(queue) = {}
      BY <2>4, <2>5
    <3> QED
      BY <2>4, <2>5, <3>1, ConcatApart
  <2>7. q # <<>>
    <3>1. n # {}
      BY <2>1, ItemFacts
    <3> QED
      BY <2>6, <3>1, EmptyFacts
  <2> HIDE DEF q
  <2>8. /\ w \in Lefts /\ w.queue = q /\ w.pending = pending /\ w.fate = fate /\ w.goal = goal
        /\ w.compact = NoCompaction /\ w.rescue = NoRescue
    BY <2>1, <2>3, <2>6 DEF Lefts
  <2> HIDE DEF w
  <2>9. Queued(w) = Queued(c) \cup n /\ Members(q) \cap ToSet(pending) = {}
    BY <2>1, <2>3, <2>6, <2>8 DEF Sound, Queued
  <2>10. Sound(w, {})
    BY <2>1, <2>3, <2>6, <2>8, <2>9 DEF Sound
  <2>11. Ready(w, {}) /\ Resting(w, {})
    BY <2>7, <2>8, <2>10 DEF Ready, Resting
  <2> QED
    BY <2>2, <2>8, <2>11
<1> QED
  BY <1>1, <1>2

\* What is in the queue runs, and if nothing is, only reports are held.
LEMMA DrainFine ==
  ASSUME TurnInv, Busy, NEW w, Ready(w, {}), Resting(w, {}), w.fate = fate, Drain(w)
  PROVE  Fine
<1>1. /\ TurnInv' /\ fate' = fate
      /\ Busy' \/ (w.queue = <<>> /\ queue' = <<>> /\ pending' = w.pending)
  BY DrainTo
<1>2. w.queue = <<>> => ToSet(w.pending) \subseteq Reports \/ TakenBack
  BY DEF Resting, GivenBack, TakenBack
<1> QED
  BY <1>1, <1>2 DEF Fine, DiscardsAsPromised, StrandsNothing

LEMMA CompactEndsTo ==
  ASSUME TurnInv, CompactEnds
  PROVE  Fine
<1>1. compact.stage # "off"
  BY DEF CompactEnds
<1>2. \/ compact.aborted /\ compact.rescuing /\ Rests(AbortedTo)
      \/ Drain(AbortedTo)
      \/ compact.next # {} /\ StartTurn(compact.next, [Compacted EXCEPT !.skip = TRUE])
      \/ compact.next = {} /\ Drain(Compacted)
  BY DEF CompactEnds, EndsAborted, AbortedTo
<1>3. Busy
  BY <1>1 DEF Busy
<1>4. CASE compact.aborted /\ compact.rescuing /\ Rests(AbortedTo)
  <2>1. TurnInv' /\ fate' = fate
    BY <1>1, <1>4, AbortedIs, RestsTo
  <2> QED
    BY <1>3, <1>4, <2>1 DEF Fine, DiscardsAsPromised, StrandsNothing
<1>5. CASE Drain(AbortedTo)
  BY <1>1, <1>3, <1>5, AbortedIs, DrainFine
<1>6. CASE compact.next # {} /\ StartTurn(compact.next, [Compacted EXCEPT !.skip = TRUE])
  <2> DEFINE c == Compacted
             w == [c EXCEPT !.skip = TRUE]
  <2>1. Ready(c, compact.next) /\ c.fate = fate /\ compact.next \in Items
    BY <1>1, <1>6, CompactedIs
  <2>2. StartTurn(compact.next, w)
    BY <1>6
  <2> HIDE DEF c
  <2>3. /\ w \in Lefts /\ w.queue = c.queue /\ w.pending = c.pending /\ w.fate = fate /\ w.goal = c.goal
        /\ w.compact = NoCompaction /\ w.rescue = NoRescue
    BY <2>1 DEF Ready, Lefts
  <2> HIDE DEF w
  <2>4. Sound(w, compact.next)
    BY <2>1, <2>3, SoundSame DEF Ready
  <2>5. Ready(w, compact.next)
    BY <2>3, <2>4 DEF Ready
  <2>6. TurnInv' /\ Busy' /\ fate' = w.fate
    BY <2>1, <2>2, <2>5, StartTurnTo
  <2>7. KeepsPromise(w)
    BY <2>3 DEF KeepsPromise
  <2> QED
    BY <2>6, <2>7, BeginsTo
<1>7. CASE compact.next = {} /\ Drain(Compacted)
  BY <1>1, <1>3, <1>7, CompactedIs, DrainFine
<1> QED
  BY <1>2, <1>4, <1>5, <1>6, <1>7

\* A rescue that is over leaves an idle session, whose prompt the model was told.
LEMMA RescuedIs ==
  ASSUME TurnInv, rescue.stage # "off",
         NEW w, w = [Left EXCEPT !.rescue = NoRescue]
  PROVE  /\ Ready(w, {}) /\ w.queue = queue /\ w.pending = pending /\ w.fate = fate
         /\ w.goal = goal /\ Busy
         /\ rescue.item \in Items /\ \A i \in rescue.item : fate[i] = "told"
<1>1. loop = "off" /\ compact = NoCompaction /\ rescue.item # {} /\ compact.next = {}
  BY NoneTyped DEF TurnInv, Owners
<1>2. Hand = {}
  BY <1>1 DEF Hand, Starting
<1>3. /\ w \in Lefts /\ w.queue = queue /\ w.pending = pending /\ w.fate = fate /\ w.goal = goal
      /\ w.compact = compact /\ w.rescue = NoRescue
  BY LeftTyped, NoneTyped DEF Lefts
<1>4. Sound(Left, {})
  BY <1>2 DEF TurnInv
<1>5. Sound(w, {})
  BY <1>3, <1>4, LeftTyped, SoundSame
<1>6. Ready(w, {})
  BY <1>1, <1>3, <1>5 DEF Ready
<1>7. rescue.item \in Items
  BY <1>1, LeftTyped DEF Rescues
<1>8. Busy /\ \A i \in rescue.item : fate[i] = "told"
  BY DEF Busy, TurnInv, Told
<1> QED
  BY <1>3, <1>6, <1>7, <1>8

LEMMA RescueEndsTo ==
  ASSUME TurnInv, RescueEnds
  PROVE  Fine
<1> DEFINE w == [Left EXCEPT !.rescue = NoRescue]
           item == rescue.item
           f == Fated(fate, item, "waiting")
           v == [w EXCEPT !.fate = f]
<1>1. rescue.stage # "off"
  BY DEF RescueEnds
<1>2. /\ Ready(w, {}) /\ w.queue = queue /\ w.pending = pending /\ w.fate = fate
      /\ w.goal = goal /\ Busy
      /\ item \in Items /\ \A i \in item : fate[i] = "told"
  BY <1>1, RescuedIs
<1>3. \/ StartTurn(item, v)
      \/ queue # <<>> /\ StartQueued(w)
      \/ queue = <<>> /\ GoalAfterTurn("error", w)
  BY <1>2 DEF RescueEnds
<1>4. f \in [Inputs -> Fates] /\ \A i \in Inputs : f[i] = IF i \in item THEN "waiting" ELSE fate[i]
  <2> HIDE DEF item
  <2>1. "waiting" \in Fates /\ fate \in [Inputs -> Fates]
    BY LeftTyped DEF Fates
  <2> QED
    BY <2>1, FatedIs
<1> HIDE DEF w, f
<1>5. KeepsPromise(w)
  BY <1>2 DEF KeepsPromise
<1>6. CASE StartTurn(item, v)
  <2>1. w \in Lefts /\ w.compact = NoCompaction /\ w.rescue = NoRescue /\ Sound(w, {})
    BY <1>2 DEF Ready
  <2>2. /\ v \in Lefts /\ v.queue = queue /\ v.pending = pending /\ v.fate = f /\ v.goal = goal
        /\ v.compact = NoCompaction /\ v.rescue = NoRescue
    BY <1>2, <1>4, <2>1 DEF Lefts
  <2>3. Goal \in item => goal.run # "no"
    BY DEF TurnInv, Leased
  <2> HIDE DEF v, item
  <2>4. item \subseteq Inputs
    BY <1>2, ItemFacts
  <2>5. Queued(v) = Queued(w)
    BY <1>2, <2>2 DEF Queued
  <2>6. item \cap Queued(v) = {}
    <3> SUFFICES ASSUME NEW i \in item, i \in Queued(w) PROVE FALSE
      BY <2>5
    <3>1. fate[i] = "waiting"
      BY <1>2, <2>1, <2>4 DEF Sound
    <3> QED
      BY <1>2, <3>1
  <2>7. \A i \in Inputs : f[i] = "waiting" <=> i \in Queued(v) \cup item
    BY <1>2, <1>4, <2>1, <2>5 DEF Sound
  <2>8. Goal \in Queued(v) \cup item => goal.run # "no"
    BY <1>2, <2>1, <2>3, <2>5 DEF Sound
  <2>9. Sound(v, item)
    BY <1>2, <2>1, <2>2, <2>6, <2>7, <2>8 DEF Sound
  <2>10. Ready(v, item)
    BY <2>2, <2>9 DEF Ready
  <2>11. TurnInv' /\ Busy' /\ fate' = v.fate
    BY <1>2, <1>6, <2>10, StartTurnTo
  <2>12. KeepsPromise(v)
    BY <1>4, <2>2 DEF KeepsPromise
  <2> QED
    BY <2>11, <2>12, BeginsTo
<1>7. CASE queue # <<>> /\ StartQueued(w)
  BY <1>2, <1>5, <1>7, StartQueuedTo, BeginsTo
<1>8. CASE queue = <<>> /\ GoalAfterTurn("error", w)
  <2>1. ToSet(pending) \subseteq Reports \/ GivenBack(Left)
    BY <1>1, <1>8 DEF TurnInv
  <2>2. ToSet(w.pending) \subseteq Reports \/ (GivenBack(w) /\ GivenBack(Left))
    BY <1>2, <2>1, LeftTyped DEF GivenBack
  <2> QED
    BY <1>2, <1>5, <1>8, <2>2, GoalFine
<1> QED
  BY <1>3, <1>6, <1>7, <1>8

----------------------------------------------------------------------------
(***************************************************************************)
(* The invariant is kept, and implies the properties.                      *)
(***************************************************************************)

LEMMA TurnInvInit == Init => TurnInv
<1> SUFFICES ASSUME Init PROVE TurnInv
  OBVIOUS
<1>1. /\ queue = <<>> /\ pending = <<>> /\ loop = "off" /\ cancelled = FALSE /\ in = {}
      /\ compact = NoCompaction /\ skipOnce = FALSE /\ rescue = NoRescue
      /\ goal = [is |-> "none", armed |-> FALSE, run |-> "no"]
      /\ fate = [i \in Inputs |-> "new"]
  BY DEF Init
<1>2. goal \in Goals /\ goal.run = "no"
  BY <1>1 DEF Goals
<1>3. fate \in [Inputs -> Fates] /\ \A i \in Inputs : fate[i] = "new"
  BY <1>1 DEF Fates
<1>4. queue \in Seq(Items) /\ pending \in Seq(Users \cup Reports)
  BY <1>1, EmptySeq
<1>5. /\ Left \in Lefts /\ Left.queue = <<>> /\ Left.pending = <<>> /\ Left.goal = goal
      /\ Left.fate = fate
  BY <1>1, <1>2, <1>3, <1>4, NoneTyped DEF Left, Lefts
<1>6. Queued(Left) = {} /\ Hand = {}
  BY <1>1, <1>5, EmptyFacts, NoneTyped DEF Queued, Hand, Starting
<1>7. Sound(Left, Hand)
  BY <1>3, <1>5, <1>6, EmptyFacts DEF Sound
<1>8. Owners /\ Told /\ Leased
  BY <1>1, NoneTyped DEF Owners, Told, Leased
<1>9. Resting(Left, compact.next) /\ rescue.stage = "off"
  BY <1>1, <1>2, <1>5, EmptyFacts, NoneTyped DEF Resting
<1> QED
  BY <1>1, <1>5, <1>7, <1>8, <1>9 DEF TurnInv

LEMMA AskedTo ==
  ASSUME TurnInv, Asked
  PROVE  Fine
<1>1. CASE \E i \in Inputs : Submit(i) \/ SendToAgent(i) \/ Report(i)
  BY <1>1, SubmitTo, SendToAgentTo, ReportTo
<1>2. CASE Abort \/ AbortCompaction \/ ClearQueuedUser \/ Compact \/ SetModel
  BY <1>2, AbortTo, AbortCompactionTo, ClearQueuedUserTo, CompactTo, SetModelTo
<1>3. CASE \E k \in 1..(Cardinality(Inputs) + 1) : TakeBack(k) \/ SlideBack(k)
  BY <1>3, TakeBackTo, SlideBackTo
<1>4. CASE \E op \in {"set", "clear", "pause", "resume", "complete"} : SetGoal(op)
  BY <1>4, SetGoalTo
<1>5. CASE CompactIsAnswered
  BY <1>5, CompactGoesTo DEF CompactIsAnswered
<1>6. CASE RescueIsAnswered
  BY <1>6, RescueGoesTo DEF RescueIsAnswered
<1> QED
  BY <1>1, <1>2, <1>3, <1>4, <1>5, <1>6 DEF Asked

LEMMA ModelTo ==
  ASSUME TurnInv, Model
  PROVE  Fine
<1>1. CASE Start \/ Boundary
  BY <1>1, StartTo, BoundaryTo
<1>2. CASE More \/ Stops \/ \E how \in {"failed", "rescuable", "repeated"} : Fails(how)
  BY <1>2, LoopTo
<1>3. CASE \E r \in Reports : Spawn(r) \/ WorkerCompletes(r)
  BY <1>3, ReportsRun
<1>4. CASE \E op \in {"set", "pause", "resume", "complete"} : UpdateGoal(op)
  BY <1>4, UpdateGoalTo
<1> QED
  BY <1>1, <1>2, <1>3, <1>4 DEF Model

LEMMA ControllerTo ==
  ASSUME TurnInv, Controller
  PROVE  Fine
<1>1. CASE FinishTurn
  BY <1>1, FinishTurnTo
<1>2. CASE \E result \in {"ok", "failed"} : Summarises(result)
  <2>1. PICK result \in {"ok", "failed"} : Summarises(result)
    BY <1>2
  <2> QED
    BY <2>1, CompactGoesTo DEF Summarises
<1>3. CASE CompactAsks \/ CompactSwaps \/ CompactEnds
  BY <1>3, CompactAsksTo, CompactSwapsTo, CompactEndsTo
<1>4. CASE CompactIsRefused
  BY <1>4, CompactGoesTo DEF CompactIsRefused
<1>5. CASE RescueAsks \/ RescueIsRefused
  BY <1>5, RescueGoesTo DEF RescueAsks, RescueIsRefused
<1>6. CASE RescueSwaps \/ RescueEnds
  BY <1>6, RescueSwapsTo, RescueEndsTo
<1> QED
  BY <1>1, <1>2, <1>3, <1>4, <1>5, <1>6 DEF Controller

LEMMA StutterTo ==
  ASSUME TurnInv, UNCHANGED vars
  PROVE  Fine
<1>1. /\ loop' = loop /\ in' = in /\ cancelled' = cancelled /\ Becomes(Left)
  BY LeftTyped DEF vars, turnVars, leftVars, Becomes
<1>2. SameOwner(Left)
  BY LeftTyped DEF SameOwner
<1> QED
  BY <1>1, <1>2, CancelledIs, LeftTyped, QuietTo

LEMMA StepTo ==
  ASSUME TurnInv, [Next]_vars
  PROVE  Fine
  BY AskedTo, ModelTo, ControllerTo, StutterTo DEF Next

\* The inductive invariant holds of every behaviour.
THEOREM TurnInvHolds == Spec => []TurnInv
<1>1. TurnInv /\ [Next]_vars => TurnInv'
  BY StepTo DEF Fine
<1> QED
  BY TurnInvInit, <1>1, PTL DEF Spec

\* Every variable of the session has its type.
THEOREM TurnTypeCorrect == Spec => []TypeOK
<1>1. TurnInv => TypeOK
  <2> SUFFICES ASSUME TurnInv PROVE TypeOK
    OBVIOUS
  <2>1. in \in Items \cup {{}} /\ cancelled \in BOOLEAN
        /\ loop \in {"off", "start", "boundary", "request", "ok", "blocked", "failed",
                     "rescuable", "repeated", "cancelled"}
    BY DEF TurnInv
  <2>2. {cancelled, skipOnce} \subseteq BOOLEAN
    BY <2>1, LeftTyped
  <2> QED
    BY <2>1, <2>2, LeftTyped DEF TypeOK, Compactions, Rescues, Goals, Fates
<1> QED
  BY <1>1, TurnInvHolds, PTL

LEMMA OneOrNone ==
  ASSUME NEW A, NEW P, P => \E x : A = {x}, ~ P => A = {}
  PROVE  Cardinality(A) = IF P THEN 1 ELSE 0
<1>1. CASE P
  BY <1>1, FS_Singleton
<1>2. CASE ~ P
  BY <1>2, FS_EmptySet
<1> QED
  BY <1>1, <1>2

\* An accepted input that has neither reached the model nor been given up waits in exactly
\* one place: the queues, the turn about to start, or the compaction it waits for.
THEOREM InputsAccounted == Spec => []Accounted
<1>1. ASSUME TurnInv, NEW i \in Inputs
      PROVE  Places(i) = IF fate[i] = "waiting" THEN 1 ELSE 0
  <2> DEFINE A == {k \in DOMAIN queue : i \in queue[k]}
             B == {k \in DOMAIN pending : pending[k] = i}
             a == i \in Members(queue)
             b == i \in ToSet(pending)
             s == loop = "start" /\ i \in in
             n == i \in compact.next
  <2>1. /\ Apart(queue) /\ Distinct(pending) /\ Members(queue) \cap ToSet(pending) = {}
        /\ Hand \cap (Members(queue) \cup ToSet(pending)) = {}
        /\ fate[i] = "waiting" <=> a \/ b \/ i \in Hand
    BY <1>1, LeftTyped, HeldWait DEF TurnInv, Sound
  <2>2. Cardinality(A) = IF a THEN 1 ELSE 0
    <3>1. a <=> \E k : k \in A
      BY DEF Members
    <3>2. \A k, m \in A : k = m
      BY <2>1 DEF Apart
    <3>3. a => \E k : A = {k}
      <4> HIDE DEF A, a
      <4> QED
        BY <3>1, <3>2
    <3>4. ~ a => A = {}
      <4> HIDE DEF A, a
      <4> QED
        BY <3>1
    <3> HIDE DEF A, a
    <3> QED
      BY <3>3, <3>4, OneOrNone
  <2>3. Cardinality(B) = IF b THEN 1 ELSE 0
    <3>1. b <=> \E k : k \in B
      BY DEF ToSet
    <3>2. \A k, m \in B : k = m
      BY <2>1 DEF Distinct
    <3>3. b => \E k : B = {k}
      <4> HIDE DEF B, b
      <4> QED
        BY <3>1, <3>2
    <3>4. ~ b => B = {}
      <4> HIDE DEF B, b
      <4> QED
        BY <3>1
    <3> HIDE DEF B, b
    <3> QED
      BY <3>3, <3>4, OneOrNone
  <2>4. (i \in Hand <=> s \/ n) /\ ~ (s /\ n)
    <3>1. loop # "off" => compact.next = {}
      BY <1>1, TurnRuns, NoneTyped
    <3> QED
      BY <3>1 DEF Hand, Starting
  <2>5. Places(i) = Cardinality(A) + Cardinality(B) + (IF s THEN 1 ELSE 0) + (IF n THEN 1 ELSE 0)
    BY DEF Places
  <2>6. ~ (a /\ b) /\ (a \/ b => i \notin Hand)
    BY <2>1
  <2> HIDE DEF A, B, a, b, s, n
  <2> QED
    BY <2>1, <2>2, <2>3, <2>4, <2>5, <2>6
<1>2. TurnInv => Accounted
  BY <1>1 DEF Accounted
<1> QED
  BY <1>2, TurnInvHolds, PTL

\* One thing writes the transcript, and a leased goal has something that gives its lease back.
THEOREM SessionWorkOwned == Spec => []WorkIsOwned
<1>1. ASSUME TurnInv PROVE OneOwner
  <2> DEFINE A == {x \in {<<"turn", loop>>, <<"compact", compact.stage>>, <<"rescue", rescue.stage>>} :
                     x[2] # "off"}
             P == loop # "off" \/ compact.stage # "off" \/ rescue.stage # "off"
  <2>1. /\ loop # "off" => compact.stage = "off" /\ rescue.stage = "off"
        /\ compact.stage # "off" => rescue.stage = "off"
    BY <1>1 DEF TurnInv, Owners
  <2>2. P => \E x : A = {x}
    <3>1. CASE loop # "off"
      <4>1. A = {<<"turn", loop>>}
        BY <2>1, <3>1
      <4> QED
        BY <4>1
    <3>2. CASE compact.stage # "off"
      <4>1. A = {<<"compact", compact.stage>>}
        BY <2>1, <3>2
      <4> QED
        BY <4>1
    <3>3. CASE rescue.stage # "off"
      <4>1. A = {<<"rescue", rescue.stage>>}
        BY <2>1, <3>3
      <4> QED
        BY <4>1
    <3> QED
      BY <3>1, <3>2, <3>3
  <2>3. ~ P => A = {}
    OBVIOUS
  <2>4. OneOwner <=> Cardinality(A) <= 1
    BY DEF OneOwner
  <2> HIDE DEF A, P
  <2>5. Cardinality(A) = IF P THEN 1 ELSE 0
    BY <2>2, <2>3, OneOrNone
  <2> QED
    BY <2>4, <2>5
<1>2. ASSUME TurnInv PROVE LeaseHasTurn
  <2>1. GivenBack(Left) => TakenBack
    BY <1>2, LeftTyped DEF GivenBack, TakenBack
  <2>2. ~ Busy => Resting(Left, {})
    BY <1>2, IdleReady
  <2> QED
    BY <1>2, <2>1, <2>2, LeftTyped DEF LeaseHasTurn, Resting
<1>3. TurnInv => WorkIsOwned
  BY <1>1, <1>2 DEF WorkIsOwned
<1> QED
  BY <1>3, TurnInvHolds, PTL

\* Inputs are discarded only where the code says so: with the agent that held them, after a
\* repetition scheduled work, after a cancellation the rest, and after an error what is
\* neither scheduled nor a report.
THEOREM InputsKeptAsPromised == Spec => KeptAsPromised
<1>1. TurnInv /\ [Next]_vars => [DiscardsAsPromised]_vars
  BY StepTo DEF Fine
<1>2. Spec => [][DiscardsAsPromised]_vars
  BY <1>1, TurnInvHolds, PTL DEF Spec
<1> QED
  BY <1>2 DEF KeptAsPromised, DiscardsAsPromised

\* A session goes idle with prompts in its queues only after an aborted compaction that
\* waited for a model, or when the user took back what would have run before them.
THEOREM PromptsNotStranded == Spec => NotStranded
<1>1. TurnInv /\ [Next]_vars => [StrandsNothing]_vars
  BY StepTo DEF Fine
<1>2. Spec => [][StrandsNothing]_vars
  BY <1>1, TurnInvHolds, PTL DEF Spec
<1> QED
  BY <1>2 DEF NotStranded, StrandsNothing

=============================================================================
