-------------------------- MODULE SharedStateProofs --------------------------
(***************************************************************************)
(* Theorems about what the requests and the transfers of one process share: *)
(* the permits of ResizableSemaphore, for any set of transfers and limits,  *)
(* and the list of open tabs of Subscribers, for any tabs and broadcasts.   *)
(***************************************************************************)
EXTENDS ResizableSemaphore, Subscribers, FiniteSetTheorems, SequenceTheorems,
        WellFoundedInduction, TLAPS

\* Why no other wakeup is missing: while tasks sleep, the permits in use, the
\* wakeups on their way and those lost add up to the limit at least.
WaitersCovered == waiters # <<>> => limit <= in_use + Cardinality(Notified) + lost

Inv == TypeOK /\ QueueIsWaiting /\ PermitsAccounted /\ WaitersCovered

TaskState == {"new", "waiting", "notified", "holding", "done"}

-----------------------------------------------------------------------------
(* Lemmas on counting.                                                      *)

\* The transfers in one state are a finite set, counted by a natural number.
LEMMA Counted ==
    /\ IsFiniteSet(Holding) /\ Cardinality(Holding) \in Nat
    /\ IsFiniteSet(Notified) /\ Cardinality(Notified) \in Nat
<1>1. Holding \subseteq Task /\ Notified \subseteq Task
  BY DEF Holding, Notified
<1> QED
  BY <1>1, LimitsAssumption, FS_Subset, FS_CardinalityType

\* The same for the next state.
LEMMA CountedNext ==
    /\ IsFiniteSet(Holding') /\ Cardinality(Holding') \in Nat
    /\ IsFiniteSet(Notified') /\ Cardinality(Notified') \in Nat
<1>1. Holding' \subseteq Task /\ Notified' \subseteq Task
  BY DEF Holding, Notified
<1> QED
  BY <1>1, LimitsAssumption, FS_Subset, FS_CardinalityType

\* One task more or less changes a count by one.
LEMMA CountMore ==
    ASSUME NEW S, IsFiniteSet(S), NEW t, t \notin S
    PROVE  Cardinality(S \cup {t}) = Cardinality(S) + 1
BY FS_AddElement

LEMMA CountLess ==
    ASSUME NEW S, IsFiniteSet(S), NEW t \in S
    PROVE  Cardinality(S \ {t}) = Cardinality(S) - 1 /\ Cardinality(S) > 0
<1>1. IsFiniteSet(S \ {t}) /\ Cardinality(S \ {t}) \in Nat /\ Cardinality(S) \in Nat
  BY FS_Subset, FS_CardinalityType, S \ {t} \subseteq S
<1>2. S = (S \ {t}) \cup {t} /\ t \notin S \ {t}
  OBVIOUS
<1>3. Cardinality(S) = Cardinality(S \ {t}) + 1
  BY <1>1, <1>2, CountMore
<1> QED
  BY <1>1, <1>3

-----------------------------------------------------------------------------
(* Lemmas on the queue.                                                     *)

\* A new waiter goes to the end of the queue.
LEMMA QueueAppend ==
    ASSUME TypeOK, QueueIsWaiting, NEW t \in Task, state[t] # "waiting",
           state' = [state EXCEPT ![t] = "waiting"], waiters' = Append(waiters, t)
    PROVE  waiters' \in Seq(Task) /\ QueueIsWaiting'
<1>1. /\ waiters' \in Seq(Task) /\ Len(waiters') = Len(waiters) + 1 /\ Len(waiters) \in Nat
      /\ \A i \in 1..Len(waiters) : waiters'[i] = waiters[i]
      /\ waiters'[Len(waiters) + 1] = t
  BY AppendProperties, LenProperties DEF TypeOK
<1>2. \A i \in 1..Len(waiters) : waiters[i] # t
  BY DEF QueueIsWaiting
<1>3. \A i, j \in 1..Len(waiters') : i # j => waiters'[i] # waiters'[j]
  <2> SUFFICES ASSUME NEW i \in 1..Len(waiters'), NEW j \in 1..Len(waiters'), i # j
               PROVE  waiters'[i] # waiters'[j]
    OBVIOUS
  <2>1. CASE i = Len(waiters) + 1
    BY <1>1, <1>2, <2>1
  <2>2. CASE j = Len(waiters) + 1
    BY <1>1, <1>2, <2>2
  <2>3. CASE i \in 1..Len(waiters) /\ j \in 1..Len(waiters)
    BY <1>1, <2>3 DEF QueueIsWaiting
  <2> QED
    BY <1>1, <2>1, <2>2, <2>3
<1>4. {waiters'[i] : i \in 1..Len(waiters')} = {waiters[i] : i \in 1..Len(waiters)} \cup {t}
  <2>1. 1..Len(waiters') = 1..Len(waiters) \cup {Len(waiters) + 1}
    BY <1>1
  <2> QED
    BY <1>1, <2>1
<1>5. {u \in Task : state'[u] = "waiting"} = {u \in Task : state[u] = "waiting"} \cup {t}
  BY DEF TypeOK
<1> QED
  BY <1>1, <1>3, <1>4, <1>5 DEF QueueIsWaiting

\* A sequence with its k-th element taken out.
LEMMA TakenOut ==
    ASSUME NEW S, NEW s \in Seq(S), NEW k \in 1..Len(s)
    PROVE  LET r == SubSeq(s, 1, k - 1) \o SubSeq(s, k + 1, Len(s))
           IN  /\ r \in Seq(S) /\ Len(r) = Len(s) - 1
               /\ \A i \in 1..(k - 1) : r[i] = s[i]
               /\ \A i \in k..(Len(s) - 1) : r[i] = s[i + 1]
<1> DEFINE a == SubSeq(s, 1, k - 1)
           b == SubSeq(s, k + 1, Len(s))
<1>0. Len(s) \in Nat /\ k \in Nat /\ k >= 1 /\ k <= Len(s) /\ \A i \in 1..Len(s) : s[i] \in S
  BY LenProperties, ElementOfSeq
<1>1. a \in Seq(S) /\ Len(a) = k - 1 /\ \A i \in 1..(k - 1) : a[i] = s[i]
  <2>1. \A i \in 1..(k - 1) : s[i] \in S
    BY <1>0
  <2>2. /\ a \in Seq(S) /\ Len(a) = IF 1 <= k - 1 THEN k - 1 - 1 + 1 ELSE 0
        /\ \A i \in 1..(k - 1 - 1 + 1) : a[i] = s[1 + i - 1]
    BY <1>0, <2>1, SubSeqProperties
  <2> QED
    BY <1>0, <2>2
<1>2. b \in Seq(S) /\ Len(b) = Len(s) - k /\ \A i \in 1..(Len(s) - k) : b[i] = s[k + i]
  <2>1. \A i \in (k + 1)..Len(s) : s[i] \in S
    BY <1>0
  <2>2. /\ b \in Seq(S)
        /\ Len(b) = IF k + 1 <= Len(s) THEN Len(s) - (k + 1) + 1 ELSE 0
        /\ \A i \in 1..(Len(s) - (k + 1) + 1) : b[i] = s[k + 1 + i - 1]
    BY <1>0, <2>1, SubSeqProperties
  <2> QED
    BY <1>0, <2>2
<1> HIDE DEF a, b
<1>3. /\ a \o b \in Seq(S) /\ Len(a \o b) = Len(a) + Len(b)
      /\ \A i \in 1..(Len(a) + Len(b)) :
           (a \o b)[i] = IF i <= Len(a) THEN a[i] ELSE b[i - Len(a)]
  BY <1>1, <1>2, ConcatProperties
<1>4. Len(a) + Len(b) = Len(s) - 1
  BY <1>0, <1>1, <1>2
<1>5. ASSUME NEW i \in 1..(k - 1) PROVE (a \o b)[i] = s[i]
  <2>1. i \in 1..(Len(a) + Len(b)) /\ i <= Len(a)
    BY <1>0, <1>1, <1>4
  <2> QED
    BY <1>1, <1>3, <2>1
<1>6. ASSUME NEW i \in k..(Len(s) - 1) PROVE (a \o b)[i] = s[i + 1]
  <2>1. i \in 1..(Len(a) + Len(b)) /\ ~(i <= Len(a)) /\ i - Len(a) = i - (k - 1)
    BY <1>0, <1>1, <1>4
  <2>2. i - (k - 1) \in 1..(Len(s) - k) /\ k + (i - (k - 1)) = i + 1
    BY <1>0
  <2>3. (a \o b)[i] = b[i - (k - 1)]
    BY <1>3, <2>1
  <2>4. b[i - (k - 1)] = s[k + (i - (k - 1))]
    BY <1>2, <2>2
  <2> QED
    BY <2>2, <2>3, <2>4
<1> QED
  BY <1>3, <1>4, <1>5, <1>6 DEF a, b

\* If no element stands twice in the sequence, none does in the shorter one,
\* which holds the elements of the longer one but the one taken out.
LEMMA TakenOutHolds ==
    ASSUME NEW S, NEW s \in Seq(S), NEW k \in 1..Len(s),
           \A i, j \in 1..Len(s) : i # j => s[i] # s[j]
    PROVE  LET r == SubSeq(s, 1, k - 1) \o SubSeq(s, k + 1, Len(s))
           IN  /\ \A i, j \in 1..Len(r) : i # j => r[i] # r[j]
               /\ \A i \in 1..Len(r) : (\E j \in 1..Len(s) : s[j] = r[i]) /\ r[i] # s[k]
               /\ \A j \in 1..Len(s) : j # k => \E i \in 1..Len(r) : r[i] = s[j]
<1> DEFINE r == SubSeq(s, 1, k - 1) \o SubSeq(s, k + 1, Len(s))
<1>0. /\ Len(s) \in Nat /\ Len(r) \in Nat /\ Len(r) = Len(s) - 1
      /\ \A i \in 1..(k - 1) : r[i] = s[i]
      /\ \A i \in k..Len(r) : r[i] = s[i + 1]
  BY TakenOut, LenProperties
<1> HIDE DEF r
<1>1. \A i \in 1..Len(r) : r[i] = s[IF i < k THEN i ELSE i + 1]
  <2> TAKE i \in 1..Len(r)
  <2>1. CASE i < k
    <3>1. i \in 1..(k - 1)
      BY <1>0, <2>1
    <3> QED
      BY <1>0, <2>1, <3>1
  <2>2. CASE ~(i < k)
    <3>1. i \in k..Len(r)
      BY <1>0, <2>2
    <3> QED
      BY <1>0, <2>2, <3>1
  <2> QED
    BY <1>0, <2>1, <2>2
<1>2. \A i \in 1..Len(r) : (IF i < k THEN i ELSE i + 1) \in (1..Len(s)) \ {k}
  BY <1>0
<1>3. \A i, j \in 1..Len(r) : i # j => r[i] # r[j]
  <2> SUFFICES ASSUME NEW i \in 1..Len(r), NEW j \in 1..Len(r), i # j
               PROVE  r[i] # r[j]
    OBVIOUS
  <2>1. (IF i < k THEN i ELSE i + 1) # (IF j < k THEN j ELSE j + 1)
    BY <1>0
  <2> QED
    BY <1>1, <1>2, <2>1
<1>4. ASSUME NEW j \in 1..Len(s), j # k PROVE \E i \in 1..Len(r) : r[i] = s[j]
  <2>1. CASE j < k
    <3>1. j \in 1..(k - 1) /\ j \in 1..Len(r)
      BY <1>0, <2>1
    <3> QED
      BY <1>0, <3>1
  <2>2. CASE j > k
    <3>1. j - 1 \in k..Len(r) /\ j - 1 \in 1..Len(r) /\ (j - 1) + 1 = j
      BY <1>0, <2>2
    <3>2. r[j - 1] = s[j]
      BY <1>0, <3>1
    <3> QED
      BY <3>1, <3>2
  <2> QED
    BY <1>0, <1>4, <2>1, <2>2
<1>5. ASSUME NEW i \in 1..Len(r) PROVE (\E j \in 1..Len(s) : s[j] = r[i]) /\ r[i] # s[k]
  <2> DEFINE j == IF i < k THEN i ELSE i + 1
  <2>1. j \in 1..Len(s) /\ j # k /\ r[i] = s[j]
    BY <1>1, <1>2
  <2> HIDE DEF j
  <2> QED
    BY <2>1
<1> QED
  BY <1>3, <1>4, <1>5 DEF r

\* What to show of the next queue.
LEMMA QueueNext ==
    ASSUME \A i \in 1..Len(waiters') : waiters'[i] \in Task /\ state'[waiters'[i]] = "waiting",
           \A i, j \in 1..Len(waiters') : i # j => waiters'[i] # waiters'[j],
           \A u \in Task : state'[u] = "waiting" => \E i \in 1..Len(waiters') : waiters'[i] = u
    PROVE  QueueIsWaiting'
<1>1. {waiters'[i] : i \in 1..Len(waiters')} = {u \in Task : state'[u] = "waiting"}
  OBVIOUS
<1> QED
  BY <1>1 DEF QueueIsWaiting

\* Taking one waiter out of the queue, wherever it stands.
LEMMA QueueRemove ==
    ASSUME TypeOK, QueueIsWaiting, NEW k \in 1..Len(waiters),
           waiters' = SubSeq(waiters, 1, k - 1) \o SubSeq(waiters, k + 1, Len(waiters)),
           \A u \in Task : state'[u] = "waiting" <=> state[u] = "waiting" /\ u # waiters[k]
    PROVE  waiters' \in Seq(Task) /\ QueueIsWaiting' /\ Len(waiters') = Len(waiters) - 1
<1> DEFINE r == SubSeq(waiters, 1, k - 1) \o SubSeq(waiters, k + 1, Len(waiters))
<1>1. waiters \in Seq(Task) /\ waiters' = r
  BY DEF TypeOK
<1>2. /\ r \in Seq(Task) /\ Len(r) = Len(waiters) - 1
      /\ \A i \in 1..(k - 1) : r[i] = waiters[i]
      /\ \A i \in k..(Len(waiters) - 1) : r[i] = waiters[i + 1]
  BY <1>1, TakenOut
<1>3. \A i, j \in 1..Len(waiters) : i # j => waiters[i] # waiters[j]
  BY DEF QueueIsWaiting
<1>5. /\ \A i, j \in 1..Len(r) : i # j => r[i] # r[j]
      /\ \A i \in 1..Len(r) : (\E j \in 1..Len(waiters) : waiters[j] = r[i]) /\ r[i] # waiters[k]
      /\ \A j \in 1..Len(waiters) : j # k => \E i \in 1..Len(r) : r[i] = waiters[j]
  BY <1>1, <1>3, TakenOutHolds
<1> HIDE DEF r
<1>6. \A u : (\E j \in 1..Len(waiters) : waiters[j] = u) <=> u \in Task /\ state[u] = "waiting"
  BY DEF QueueIsWaiting
<1>7. /\ \A i \in 1..Len(waiters') : waiters'[i] \in Task /\ state'[waiters'[i]] = "waiting"
      /\ \A i, j \in 1..Len(waiters') : i # j => waiters'[i] # waiters'[j]
  <2>1. ASSUME NEW i \in 1..Len(r) PROVE r[i] \in Task /\ state'[r[i]] = "waiting"
    <3>1. PICK j \in 1..Len(waiters) : waiters[j] = r[i]
      BY <1>5
    <3>2. r[i] \in Task /\ state[r[i]] = "waiting" /\ r[i] # waiters[k]
      BY <1>5, <1>6, <3>1
    <3> QED
      BY <3>2
  <2> QED
    BY <1>1, <1>5, <2>1
<1>8. ASSUME NEW u \in Task, state'[u] = "waiting" PROVE \E i \in 1..Len(waiters') : waiters'[i] = u
  <2>1. PICK j \in 1..Len(waiters) : waiters[j] = u
    BY <1>6, <1>8
  <2>2. j # k
    BY <1>8, <2>1
  <2>3. \E i \in 1..Len(r) : r[i] = u
    BY <1>5, <2>1, <2>2
  <2> QED
    BY <1>1, <2>3
<1>9. QueueIsWaiting'
  BY <1>7, <1>8, QueueNext
<1> QED
  BY <1>1, <1>2, <1>9

\* An empty queue: nobody waits.
LEMMA QueueEmpty ==
    ASSUME waiters' = <<>>, \A u \in Task : state'[u] # "waiting"
    PROVE  waiters' \in Seq(Task) /\ QueueIsWaiting'
<1>1. waiters' \in Seq(Task) /\ Len(waiters') = 0
  BY EmptySeq
<1>2. 1..Len(waiters') = {}
  BY <1>1
<1> QED
  BY <1>1, <1>2 DEF QueueIsWaiting

\* The queue and whom it holds are as before.
LEMMA QueueSame ==
    ASSUME TypeOK, QueueIsWaiting, waiters' = waiters,
           \A u \in Task : state'[u] = "waiting" <=> state[u] = "waiting"
    PROVE  waiters' \in Seq(Task) /\ QueueIsWaiting'
BY DEF TypeOK, QueueIsWaiting

\* What Notify does: the leaving task is done and the oldest waiter, if there is
\* one, is notified and leaves the queue.
LEMMA NotifyWakes ==
    ASSUME TypeOK, QueueIsWaiting, NEW t \in Task, state[t] # "waiting", Notify(t)
    PROVE  /\ waiters' \in Seq(Task) /\ QueueIsWaiting'
           /\ state' \in [Task -> TaskState]
           /\ \/ /\ waiters = <<>> /\ waiters' = <<>>
                 /\ \A u \in Task : state'[u] = IF u = t THEN "done" ELSE state[u]
              \/ \E h \in Task :
                   /\ waiters # <<>> /\ state[h] = "waiting"
                   /\ \A u \in Task : state'[u] = CASE u = h -> "notified" [] u = t -> "done"
                                                    [] OTHER -> state[u]
<1>1. CASE waiters = <<>>
  <2>1. /\ waiters' = waiters /\ state' = [state EXCEPT ![t] = "done"]
    BY <1>1 DEF Notify
  <2>2. \A u \in Task : state'[u] = IF u = t THEN "done" ELSE state[u]
    BY <2>1 DEF TypeOK
  <2>3. waiters' \in Seq(Task) /\ QueueIsWaiting'
    BY <2>1, <2>2, QueueSame
  <2> QED
    BY <1>1, <2>1, <2>2, <2>3 DEF TypeOK, TaskState
<1>2. CASE waiters # <<>>
  <2> DEFINE h == Head(waiters)
  <2>1. /\ waiters' = Tail(waiters)
        /\ state' = [state EXCEPT ![t] = "done", ![h] = "notified"]
    BY <1>2 DEF Notify
  <2>2. waiters \in Seq(Task) /\ Len(waiters) \in Nat /\ 1 \in 1..Len(waiters) /\ h = waiters[1]
    BY <1>2, LenProperties, EmptySeq, HeadTailProperties DEF TypeOK
  <2>3. h \in Task /\ state[h] = "waiting" /\ h # t
    BY <2>2 DEF QueueIsWaiting
  <2> HIDE DEF h
  <2>4. \A u \in Task : state'[u] = CASE u = h -> "notified" [] u = t -> "done"
                                      [] OTHER -> state[u]
    BY <2>1, <2>3 DEF TypeOK
  <2>5. Tail(waiters) = SubSeq(waiters, 1, 1 - 1) \o SubSeq(waiters, 1 + 1, Len(waiters))
    BY <1>2, <2>2, TailIsSubSeq, SubSeqEmpty, ConcatEmptySeq
  <2>6. \A u \in Task : state'[u] = "waiting" <=> state[u] = "waiting" /\ u # waiters[1]
    BY <2>2, <2>3, <2>4
  <2>7. waiters' \in Seq(Task) /\ QueueIsWaiting'
    BY <2>1, <2>2, <2>5, <2>6, QueueRemove
  <2>8. state' \in [Task -> TaskState]
    BY <2>1, <2>3 DEF TypeOK, TaskState
  <2> QED
    BY <1>2, <2>3, <2>4, <2>7, <2>8
<1> QED
  BY <1>1, <1>2

-----------------------------------------------------------------------------
(* One lemma per action.                                                    *)

LEMMA InitInv == SlotInit => Inv
<1> SUFFICES ASSUME SlotInit PROVE Inv
  OBVIOUS
<1>1. TypeOK
  <2>1. PICK n \in Limits : limit = AtLeastOne(n)
    BY DEF SlotInit
  <2>2. limit \in Nat \ {0}
    BY <2>1, LimitsAssumption DEF AtLeastOne
  <2> QED
    BY <2>2, EmptySeq DEF SlotInit, TypeOK
<1>2. QueueIsWaiting
  <2>1. 1..Len(waiters) = {}
    BY EmptySeq DEF SlotInit
  <2>2. {t \in Task : state[t] = "waiting"} = {}
    BY DEF SlotInit
  <2> QED
    BY <2>1, <2>2 DEF QueueIsWaiting
<1>3. Holding = {}
  BY DEF SlotInit, Holding
<1> QED
  BY <1>1, <1>2, <1>3, FS_EmptySet DEF Inv, PermitsAccounted, WaitersCovered, SlotInit

\* Taking a permit turns a new or a notified task into a holding one.
LEMMA TryTakeInv ==
    ASSUME Inv, NEW t \in Task, state[t] \in {"new", "notified"}, TryTake(t), limit' = limit,
           Lose(0)
    PROVE  Inv'
<1> USE DEF Inv
<1>0. lost' \in Nat /\ (waiters' # <<>> => lost' = lost) /\ lost \in Nat
  BY DEF TypeOK, Lose
<1>1. CASE /\ ~locked /\ in_use' = in_use + 1 /\ state' = [state EXCEPT ![t] = "holding"]
           /\ waiters' = waiters
  <2>1. \A u \in Task : state'[u] = IF u = t THEN "holding" ELSE state[u]
    BY <1>1 DEF TypeOK
  <2>2. TypeOK' /\ QueueIsWaiting'
    BY <1>0, <1>1, <2>1, QueueSame DEF TypeOK
  <2>3. Holding' = Holding \cup {t} /\ t \notin Holding
    BY <2>1 DEF Holding
  <2>4. PermitsAccounted'
    BY <1>1, <2>3, Counted, CountMore DEF PermitsAccounted
  <2>5. ASSUME waiters # <<>>, limit <= in_use + Cardinality(Notified) + lost
        PROVE  limit' <= in_use' + Cardinality(Notified)' + lost'
    <3>1. CASE state[t] = "new"
      <4>1. Notified' = Notified
        BY <2>1, <3>1 DEF Notified
      <4> QED
        BY <1>0, <1>1, <2>5, <4>1, Counted DEF TypeOK
    <3>2. CASE state[t] = "notified"
      <4>1. Notified' = Notified \ {t} /\ t \in Notified
        BY <2>1, <3>2 DEF Notified
      <4>2. Cardinality(Notified') = Cardinality(Notified) - 1
        BY <4>1, Counted, CountLess
      <4> QED
        BY <1>0, <1>1, <2>5, <4>2, Counted DEF TypeOK
    <3> QED
      BY <3>1, <3>2
  <2> QED
    BY <1>1, <2>2, <2>4, <2>5 DEF WaitersCovered
<1>2. CASE /\ locked /\ in_use' = in_use /\ state' = [state EXCEPT ![t] = "waiting"]
           /\ waiters' = Append(waiters, t)
  <2>1. waiters' \in Seq(Task) /\ QueueIsWaiting'
    BY <1>2, QueueAppend
  <2>2. TypeOK'
    BY <1>0, <1>2, <2>1 DEF TypeOK
  <2>3. Holding' = Holding
    BY <1>2 DEF Holding, TypeOK
  <2>4. PermitsAccounted'
    BY <1>2, <2>3 DEF PermitsAccounted
  <2>5. WaitersCovered'
    BY <1>0, <1>2, CountedNext DEF WaitersCovered, locked, TypeOK
  <2> QED
    BY <2>1, <2>2, <2>4, <2>5
<1> QED
  BY <1>1, <1>2 DEF TryTake

LEMMA ReleaseInv ==
    ASSUME Inv, NEW t \in Task, Release(t)
    PROVE  Inv'
<1> USE DEF Inv
<1>0. lost' \in Nat /\ (waiters' # <<>> => lost' = lost) /\ lost \in Nat
  BY DEF Release, TypeOK, Lose
<1>1. state[t] = "holding" /\ in_use' = FreePermit /\ Notify(t) /\ limit' = limit
  BY DEF Release
<1>2. t \in Holding /\ t \notin Notified
  BY <1>1 DEF Holding, Notified
<1>3. in_use' = in_use - 1 /\ in_use > 0 /\ in_use = Cardinality(Holding)
  <2>1. Cardinality(Holding) > 0
    BY <1>2, Counted, CountLess
  <2> QED
    BY <1>1, <2>1 DEF PermitsAccounted, FreePermit, TypeOK
<1>4. waiters' \in Seq(Task) /\ QueueIsWaiting' /\ state' \in [Task -> TaskState]
  BY <1>1, NotifyWakes
<1>5. TypeOK'
  BY <1>0, <1>1, <1>3, <1>4 DEF TypeOK, TaskState
<1>6. Holding' = Holding \ {t}
  BY <1>1, NotifyWakes DEF Holding
<1>7. PermitsAccounted'
  BY <1>2, <1>3, <1>6, Counted, CountLess DEF PermitsAccounted
<1>8. WaitersCovered'
  <2>1. CASE waiters' = <<>>
    BY <2>1 DEF WaitersCovered
  <2>2. CASE waiters' # <<>>
    <3>1. PICK h \in Task :
            /\ waiters # <<>> /\ state[h] = "waiting"
            /\ \A u \in Task : state'[u] = CASE u = h -> "notified" [] u = t -> "done"
                                             [] OTHER -> state[u]
      BY <1>1, <2>2, NotifyWakes
    <3>2. Notified' = Notified \cup {h} /\ h \notin Notified
      BY <1>1, <3>1 DEF Notified
    <3>3. Cardinality(Notified') = Cardinality(Notified) + 1
      BY <3>2, Counted, CountMore
    <3>4. limit <= in_use + Cardinality(Notified) + lost /\ lost' = lost
      BY <1>0, <2>2, <3>1 DEF WaitersCovered
    <3> QED
      BY <1>0, <1>1, <1>3, <3>3, <3>4, Counted DEF WaitersCovered, TypeOK
  <2> QED
    BY <2>1, <2>2
<1> QED
  BY <1>4, <1>5, <1>7, <1>8

LEMMA CancelWaitingInv ==
    ASSUME Inv, NEW t \in Task, CancelWaiting(t)
    PROVE  Inv'
<1> USE DEF Inv
<1>0. lost' \in Nat /\ (waiters' # <<>> => lost' = lost)
  BY DEF CancelWaiting, TypeOK, Lose
<1>1. PICK k \in 1..Len(waiters) :
        /\ waiters[k] = t
        /\ waiters' = SubSeq(waiters, 1, k - 1) \o SubSeq(waiters, k + 1, Len(waiters))
  BY DEF CancelWaiting
<1>2. /\ state[t] = "waiting" /\ limit' = limit /\ in_use' = in_use
      /\ state' = [state EXCEPT ![t] = "done"]
  BY DEF CancelWaiting
<1>3. \A u \in Task : state'[u] = IF u = t THEN "done" ELSE state[u]
  BY <1>2 DEF TypeOK
<1>4. \A u \in Task : state'[u] = "waiting" <=> state[u] = "waiting" /\ u # waiters[k]
  BY <1>1, <1>3
<1>5. waiters' \in Seq(Task) /\ QueueIsWaiting'
  BY <1>1, <1>4, QueueRemove
<1>6. TypeOK'
  BY <1>0, <1>2, <1>5 DEF TypeOK
<1>7. Holding' = Holding /\ Notified' = Notified
  BY <1>2, <1>3 DEF Holding, Notified
<1>8. waiters # <<>>
  BY <1>1, EmptySeq
<1> QED
  BY <1>0, <1>2, <1>5, <1>6, <1>7, <1>8 DEF PermitsAccounted, WaitersCovered

LEMMA CancelNotifiedInv ==
    ASSUME Inv, NEW t \in Task, CancelNotified(t)
    PROVE  Inv'
<1> USE DEF Inv
<1>1. state[t] = "notified" /\ limit' = limit /\ in_use' = in_use
  BY DEF CancelNotified
<1>2. t \in Notified /\ t \notin Holding
  BY <1>1 DEF Holding, Notified
<1>3. CASE PassOn /\ Notify(t) /\ Lose(0)
  <2>0. lost' \in Nat /\ (waiters' # <<>> => lost' = lost)
    BY <1>3 DEF TypeOK, Lose
  <2>1. waiters' \in Seq(Task) /\ QueueIsWaiting' /\ state' \in [Task -> TaskState]
    BY <1>1, <1>3, NotifyWakes
  <2>2. TypeOK'
    BY <1>1, <2>0, <2>1 DEF TypeOK, TaskState
  <2>3. Holding' = Holding
    BY <1>1, <1>3, NotifyWakes DEF Holding
  <2>4. WaitersCovered'
    <3>1. CASE waiters' = <<>>
      BY <3>1 DEF WaitersCovered
    <3>2. CASE waiters' # <<>>
      <4>1. PICK h \in Task :
              /\ waiters # <<>> /\ state[h] = "waiting"
              /\ \A u \in Task : state'[u] = CASE u = h -> "notified" [] u = t -> "done"
                                               [] OTHER -> state[u]
        BY <1>1, <1>3, <3>2, NotifyWakes
      <4>2. Notified' = (Notified \ {t}) \cup {h} /\ h \notin Notified \ {t}
        BY <1>1, <4>1 DEF Notified
      <4>3. IsFiniteSet(Notified \ {t})
        BY Counted, FS_Subset, Notified \ {t} \subseteq Notified
      <4>4. Cardinality(Notified') = Cardinality(Notified)
        <5>1. Cardinality(Notified \ {t}) = Cardinality(Notified) - 1
          BY <1>2, Counted, CountLess
        <5>2. Cardinality(Notified') = Cardinality(Notified \ {t}) + 1
          BY <4>2, <4>3, CountMore
        <5> QED
          BY <5>1, <5>2, Counted
      <4> QED
        BY <1>1, <2>0, <3>2, <4>1, <4>4 DEF WaitersCovered
    <3> QED
      BY <3>1, <3>2
  <2> QED
    BY <1>1, <2>1, <2>2, <2>3, <2>4 DEF PermitsAccounted
<1>4. CASE ~PassOn /\ state' = [state EXCEPT ![t] = "done"] /\ waiters' = waiters /\ Lose(1)
  <2>0. lost' \in Nat /\ (waiters' # <<>> => lost' = lost + 1) /\ lost \in Nat
    BY <1>4 DEF TypeOK, Lose
  <2>1. \A u \in Task : state'[u] = IF u = t THEN "done" ELSE state[u]
    BY <1>4 DEF TypeOK
  <2>2. TypeOK' /\ QueueIsWaiting'
    BY <1>1, <1>4, <2>0, <2>1, QueueSame DEF TypeOK
  <2>3. Holding' = Holding
    BY <1>1, <2>1 DEF Holding
  <2>4. Notified' = Notified \ {t}
    BY <1>1, <2>1 DEF Notified
  <2>5. Cardinality(Notified') = Cardinality(Notified) - 1
    BY <1>2, <2>4, Counted, CountLess
  <2>6. WaitersCovered'
    BY <1>1, <1>4, <2>0, <2>5, Counted DEF WaitersCovered, TypeOK
  <2> QED
    BY <1>1, <2>2, <2>3, <2>6 DEF PermitsAccounted
<1> QED
  BY <1>3, <1>4 DEF CancelNotified

LEMMA SetLimitInv ==
    ASSUME Inv, NEW n \in Limits, SetLimit(n)
    PROVE  Inv'
<1> USE DEF Inv
<1>0. lost' \in Nat
  BY DEF SetLimit, TypeOK, Lose
<1>1. /\ limit' = AtLeastOne(n) /\ in_use' = in_use /\ waiters' = <<>>
      /\ state' = [t \in Task |-> IF state[t] = "waiting" THEN "notified" ELSE state[t]]
  BY DEF SetLimit
<1>2. waiters' \in Seq(Task) /\ QueueIsWaiting'
  BY <1>1, QueueEmpty
<1>3. TypeOK'
  BY <1>0, <1>1, <1>2, LimitsAssumption DEF TypeOK, AtLeastOne
<1>4. Holding' = Holding
  BY <1>1 DEF Holding
<1> QED
  BY <1>1, <1>2, <1>3, <1>4 DEF PermitsAccounted, WaitersCovered

-----------------------------------------------------------------------------
\* Every step keeps the invariant.
LEMMA StepInv == Inv /\ [SlotNext]_slotVars => Inv'
<1> SUFFICES ASSUME Inv, [SlotNext]_slotVars PROVE Inv'
  OBVIOUS
<1>1. ASSUME NEW t \in Task, Acquire(t) PROVE Inv'
  BY <1>1, TryTakeInv DEF Acquire
<1>2. ASSUME NEW t \in Task, Recheck(t) PROVE Inv'
  BY <1>2, TryTakeInv DEF Recheck
<1>3. ASSUME NEW t \in Task, Release(t) PROVE Inv'
  BY <1>3, ReleaseInv
<1>4. ASSUME NEW t \in Task, CancelWaiting(t) PROVE Inv'
  BY <1>4, CancelWaitingInv
<1>5. ASSUME NEW t \in Task, CancelNotified(t) PROVE Inv'
  BY <1>5, CancelNotifiedInv
<1>6. ASSUME NEW n \in Limits, SetLimit(n) PROVE Inv'
  BY <1>6, SetLimitInv
<1>7. CASE UNCHANGED slotVars
  BY <1>7 DEF slotVars, Inv, TypeOK, QueueIsWaiting, PermitsAccounted, WaitersCovered, Holding, Notified
<1> QED
  BY <1>1, <1>2, <1>3, <1>4, <1>5, <1>6, <1>7 DEF SlotNext

LEMMA Invariance == SlotSpec => []Inv
BY InitInv, StepInv, PTL DEF SlotSpec

\* in_use never loses a permit and never counts one twice, however acquires,
\* releases, cancels and resizes interleave (concurrency.py:31-49).
THEOREM PermitsExact == SlotSpec => []PermitsAccounted
<1>1. Inv => PermitsAccounted
  BY DEF Inv
<1> QED
  BY <1>1, Invariance, PTL

\* With either version of asyncio's Condition, a free permit beside a sleeping
\* waiter has a woken task on its way to it, or is one that a cancelled waiter's
\* lost wakeup left (concurrency.py:31-47): no acquire, release, resize or other
\* cancel ever strands one, and a resize makes the lost ones good.
THEOREM WakeupsExact == SlotSpec => []WakeupsAccounted
<1>1. Inv => WakeupsAccounted
  <2> SUFFICES ASSUME Inv PROVE WakeupsAccounted
    OBVIOUS
  <2>1. CASE waiters = <<>>
    BY <2>1, EmptySeq, Counted DEF WakeupsAccounted, Least, Inv, TypeOK
  <2>2. CASE waiters # <<>>
    <3>1. limit <= in_use + Cardinality(Notified) + lost /\ Len(waiters) \in Nat
      BY <2>2, LenProperties DEF Inv, WaitersCovered, TypeOK
    <3> QED
      BY <3>1, Counted DEF WakeupsAccounted, Least, Inv, TypeOK
  <2> QED
    BY <2>1, <2>2
<1> QED
  BY <1>1, Invariance, PTL
-----------------------------------------------------------------------------
(* The list that is left when tabs are taken off.                           *)

\* A nonempty set of naturals has a least element.
LEMMA LeastElement ==
    ASSUME NEW T \in SUBSET Nat, T # {}
    PROVE  \E x \in T : \A y \in T : x <= y
<1> DEFINE F == {0..x : x \in T}
           R == StrictSubsetOrdering(Nat)
<1>1. IsWellFoundedOn(R, FiniteSubsetsOf(Nat))
  BY FS_StrictSubsetOrderingWellFounded
<1>2. F \subseteq FiniteSubsetsOf(Nat) /\ F # {}
  <2>1. \A x \in T : IsFiniteSet(0..x) /\ 0..x \subseteq Nat
    BY FS_Interval
  <2> QED
    BY <2>1 DEF FiniteSubsetsOf
<1>3. PICK I \in F : \A J \in F : <<J, I>> \notin R
  <2> HIDE DEF F, R
  <2> QED
    BY <1>1, <1>2, WFMin
<1>4. PICK x \in T : I = 0..x
  OBVIOUS
<1>5. ASSUME NEW y \in T, y < x
      PROVE  FALSE
  <2>1. 0..y \subseteq 0..x /\ 0..y # 0..x
    <3>1. x \in 0..x /\ x \notin 0..y
      BY <1>5
    <3> QED
      BY <1>5, <3>1
  <2>2. 0..y \in SUBSET Nat /\ 0..x \in SUBSET Nat
    OBVIOUS
  <2>3. <<0..y, I>> \in R
    BY <1>4, <2>1, <2>2 DEF StrictSubsetOrdering
  <2> QED
    BY <1>3, <2>3
<1> QED
  BY <1>5

\* What Without says of its function at one position of the list.
KeptAt(f, list, tabs, n) ==
    IF n = 0 THEN <<>>
    ELSE IF list[n] \in tabs THEN f[n - 1] ELSE Append(f[n - 1], list[n])

\* A function that does what Without says exists: each position is settled by
\* the one before it.
LEMMA KeptExists ==
    ASSUME NEW list \in Seq(Tab), NEW tabs
    PROVE  \E f : f = [n \in 0..Len(list) |-> KeptAt(f, list, tabs, n)]
<1> DEFINE D == 0..Len(list)
           Settled(f, m) == \A n \in D : n <= m => f[n] = KeptAt(f, list, tabs, n)
           Missing == {m \in Nat : ~\E f : f = [n \in D |-> f[n]] /\ Settled(f, m)}
<1>0. Len(list) \in Nat
  OBVIOUS
<1>1. 0 \notin Missing
  <2> DEFINE f == [n \in D |-> <<>>]
  <2>1. f = [n \in D |-> f[n]] /\ Settled(f, 0)
    BY <1>0 DEF KeptAt
  <2> HIDE DEF f
  <2> QED
    BY <2>1
<1>2. ASSUME NEW m \in Nat, m \notin Missing
      PROVE  m + 1 \notin Missing
  <2>1. PICK f : f = [n \in D |-> f[n]] /\ Settled(f, m)
    BY <1>2
  <2> DEFINE g == [n \in D |-> KeptAt(f, list, tabs, n)]
  <2>2. ASSUME NEW n \in D, n <= m + 1
        PROVE  g[n] = KeptAt(g, list, tabs, n)
    <3>1. CASE n = 0
      BY <3>1, <2>2 DEF KeptAt
    <3>2. CASE n # 0
      <4>1. n - 1 \in D /\ n - 1 <= m
        BY <1>0, <2>2, <3>2
      <4>2. g[n - 1] = f[n - 1]
        BY <2>1, <4>1
      <4>3. g[n] = KeptAt(f, list, tabs, n)
        BY <2>2
      <4> HIDE DEF g
      <4> QED
        BY <4>2, <4>3, <3>2 DEF KeptAt
    <3> QED
      BY <3>1, <3>2
  <2>3. g = [n \in D |-> g[n]]
    OBVIOUS
  <2> HIDE DEF g
  <2>4. Settled(g, m + 1)
    BY <2>2
  <2> QED
    BY <2>3, <2>4
<1>3. Missing = {}
  <2> SUFFICES ASSUME Missing # {} PROVE FALSE
    OBVIOUS
  <2>1. Missing \in SUBSET Nat
    OBVIOUS
  <2> HIDE DEF Missing
  <2>2. PICK x \in Missing : \A y \in Missing : x <= y
    BY <2>1, LeastElement
  <2>3. x \in Nat /\ x # 0
    BY <1>1, <2>1, <2>2
  <2>4. x - 1 \in Nat /\ x - 1 \notin Missing
    BY <2>1, <2>2, <2>3
  <2>5. (x - 1) + 1 \notin Missing
    BY <1>2, <2>4
  <2> QED
    BY <2>2, <2>3, <2>5
<1>4. PICK f : f = [n \in D |-> f[n]] /\ Settled(f, Len(list))
  BY <1>0, <1>3
<1>5. \A n \in D : f[n] = KeptAt(f, list, tabs, n)
  BY <1>0, <1>4
<1>6. f = [n \in D |-> KeptAt(f, list, tabs, n)]
  BY <1>4, <1>5
<1> QED
  BY <1>6


\* The tabs on a list.
Listed(list) == {list[i] : i \in 1..Len(list)}

\* A tab more at the end.
LEMMA ListedAppend ==
    ASSUME NEW S, NEW list \in Seq(S), NEW t \in S
    PROVE  /\ Append(list, t) \in Seq(S)
           /\ Listed(Append(list, t)) = Listed(list) \cup {t}
<1> DEFINE l == Append(list, t)
<1>1. /\ l \in Seq(S) /\ Len(l) = Len(list) + 1 /\ Len(list) \in Nat
      /\ \A i \in 1..Len(list) : l[i] = list[i]
      /\ l[Len(l)] = t
  OBVIOUS
<1> HIDE DEF l
<1>2. 1..Len(l) = 1..Len(list) \cup {Len(l)}
  BY <1>1
<1>3. Listed(l) = Listed(list) \cup {t}
  BY <1>1, <1>2 DEF Listed
<1> QED
  BY <1>1, <1>3 DEF l

\* Without takes those tabs off the list and no other.
LEMMA WithoutListed ==
    ASSUME NEW list \in Seq(Tab), NEW tabs
    PROVE  /\ Without(list, tabs) \in Seq(Tab)
           /\ Listed(Without(list, tabs)) = Listed(list) \ tabs
<1> DEFINE D == 0..Len(list)
           kept == CHOOSE f : f = [n \in D |-> IF n = 0 THEN <<>>
                                               ELSE IF list[n] \in tabs THEN f[n - 1]
                                               ELSE Append(f[n - 1], list[n])]
           Right(n) == kept[n] \in Seq(Tab)
                       /\ Listed(kept[n]) = {list[i] : i \in 1..n} \ tabs
           Wrong == {n \in D : ~Right(n)}
<1>0. Len(list) \in Nat
  OBVIOUS
<1>1. \A n \in D : kept[n] = KeptAt(kept, list, tabs, n)
  <2>1. \E f : f = [n \in D |-> IF n = 0 THEN <<>>
                                ELSE IF list[n] \in tabs THEN f[n - 1]
                                ELSE Append(f[n - 1], list[n])]
    <3>1. PICK f : f = [n \in D |-> KeptAt(f, list, tabs, n)]
      BY KeptExists
    <3>2. f = [n \in D |-> IF n = 0 THEN <<>>
                           ELSE IF list[n] \in tabs THEN f[n - 1]
                           ELSE Append(f[n - 1], list[n])]
      BY ONLY <3>1 DEF KeptAt
    <3> QED
      BY ONLY <3>2
  <2>2. kept = [n \in D |-> IF n = 0 THEN <<>>
                            ELSE IF list[n] \in tabs THEN kept[n - 1]
                            ELSE Append(kept[n - 1], list[n])]
    BY <2>1
  <2> HIDE DEF kept
  <2> QED
    BY <2>2 DEF KeptAt
<1>2. Without(list, tabs) = kept[Len(list)]
  BY DEF Without
<1> HIDE DEF kept
<1>3. Right(0)
  <2>1. kept[0] = <<>>
    BY <1>0, <1>1 DEF KeptAt
  <2> QED
    BY <2>1 DEF Listed
<1>4. ASSUME NEW n \in D, n # 0, Right(n - 1)
      PROVE  Right(n)
  <2>1. {list[i] : i \in 1..n} = {list[i] : i \in 1..(n - 1)} \cup {list[n]}
    <3>1. 1..n = 1..(n - 1) \cup {n}
      BY <1>0, <1>4
    <3> QED
      BY <3>1
  <2>2. CASE list[n] \in tabs
    <3>1. kept[n] = kept[n - 1]
      BY <1>1, <1>4, <2>2 DEF KeptAt
    <3> QED
      BY <3>1, <1>4, <2>1, <2>2
  <2>3. CASE list[n] \notin tabs
    <3>0. n \in 1..Len(list)
      BY <1>0, <1>4
    <3>1. list[n] \in Tab
      BY <3>0
    <3>2. kept[n] = KeptAt(kept, list, tabs, n)
      BY <1>1
    <3>3. kept[n] = Append(kept[n - 1], list[n])
      BY <3>2, <1>4, <2>3 DEF KeptAt
    <3>4. kept[n] \in Seq(Tab) /\ Listed(kept[n]) = Listed(kept[n - 1]) \cup {list[n]}
      BY <3>1, <3>3, <1>4, ListedAppend
    <3> QED
      BY <3>4, <1>4, <2>1, <2>3
  <2> QED
    BY <2>2, <2>3
<1>5. Wrong = {}
  <2> SUFFICES ASSUME Wrong # {} PROVE FALSE
    OBVIOUS
  <2>1. Wrong \in SUBSET Nat
    OBVIOUS
  <2> HIDE DEF Right
  <2>2. PICK n \in Wrong : \A y \in Wrong : n <= y
    BY <2>1, LeastElement
  <2>3. n \in D /\ n # 0 /\ ~Right(n)
    BY <1>3, <2>2
  <2>4. n - 1 \in D /\ n - 1 \notin Wrong
    BY <1>0, <2>1, <2>2, <2>3
  <2> QED
    BY <1>4, <2>3, <2>4
<1>6. Right(Len(list))
  <2>1. Len(list) \in D
    BY <1>0
  <2> HIDE DEF Right, D
  <2> QED
    BY <2>1, <1>5
<1> QED
  BY <1>2, <1>6 DEF Listed

-----------------------------------------------------------------------------
(* The last word on a transfer reaches every tab.                           *)

TabsTyped ==
    /\ subscribers \in Seq(Tab)
    /\ socket \in [Tab -> {"new", "open", "gone", "over"}]
    /\ call \in [Caller -> [state : {"idle", "changed", "sending"}, at : Nat, dead : SUBSET Tab]]
    /\ \A c \in Caller : call[c].state = "idle" => call[c] = In("idle")

\* A tab is on the list from its connection on, for as long as it is open; those
\* a broadcast will drop have closed.
OpenListed ==
    /\ \A t \in Tab : socket[t] = "open" => t \in Listed(subscribers)
    /\ \A c \in Caller : \A t \in call[c].dead : socket[t] \in {"gone", "over"}
    /\ \A t \in Listed(subscribers) : socket[t] # "new"

\* A broadcast has yet to come to a tab, at a later position of the list.
StillToSend(c, t) ==
    call[c].state = "sending"
    /\ t \in Behind(subscribers, call[c].at)

\* A change nobody has begun to broadcast will be, or was cut off; and if there is
\* none, every open tab has the last change, is ahead of a broadcast that has it,
\* or was moved past one.
LastWordComing ==
    \/ dropped
    \/ \E c \in Caller : call[c].state = "changed"
    \/ \A t \in Tab : socket[t] = "open" =>
         t \in told \cup skipped \/ \E c \in Caller : StillToSend(c, t)

TabInv == TabsTyped /\ OpenListed /\ LastWordComing

\* When no broadcast is left, none is to begin and none is ahead of a tab.
LEMMA LastWordTold == TabInv => TabsTold
BY DEF TabInv, TabsTyped, LastWordComing, StillToSend, TabsTold, Quiet, In

LEMMA TabsAtFirst == TabInit => TabInv
<1> SUFFICES ASSUME TabInit PROVE TabInv
  OBVIOUS
<1>1. Listed(subscribers) = {} /\ subscribers \in Seq(Tab)
  BY DEF TabInit, Listed
<1> QED
  BY <1>1 DEF TabInit, TabInv, TabsTyped, OpenListed, LastWordComing, In

\* A tab connects at the end of the list, told or not to be told.
LEMMA ConnectTabs == ASSUME TabInv, NEW t \in Tab, Connect(t) PROVE TabInv'
<1> USE DEF TabInv
<1>1. /\ Listed(subscribers') = Listed(subscribers) \cup {t} /\ subscribers' \in Seq(Tab)
      /\ \A i \in 1..Len(subscribers) : i \in 1..Len(subscribers') /\ subscribers'[i] = subscribers[i]
  <2>1. subscribers' = Append(subscribers, t) /\ subscribers \in Seq(Tab)
    BY DEF Connect, TabsTyped
  <2> QED
    BY <2>1, ListedAppend
<1>2. TabsTyped'
  BY <1>1 DEF TabsTyped, Connect, In
<1>3. OpenListed'
  BY <1>1 DEF OpenListed, TabsTyped, Connect
<1>4. \A c \in Caller, u \in Tab : StillToSend(c, u) => StillToSend(c, u)'
  <2> SUFFICES ASSUME NEW c \in Caller, NEW u \in Tab, StillToSend(c, u) PROVE StillToSend(c, u)'
    OBVIOUS
  <2>1. call[c].state = "sending" /\ call[c].at \in Nat /\ UNCHANGED call
    BY DEF StillToSend, Connect, TabsTyped
  <2>2. PICK i \in (call[c].at + 1)..Len(subscribers) : subscribers[i] = u
    BY DEF StillToSend, Behind
  <2>3. i \in 1..Len(subscribers) /\ Len(subscribers) \in Nat /\ Len(subscribers') \in Nat
    BY <1>1, <2>1, <2>2 DEF TabsTyped
  <2>4. i \in (call[c].at + 1)..Len(subscribers') /\ subscribers'[i] = u
    BY <1>1, <2>1, <2>2, <2>3
  <2> QED
    BY <2>1, <2>4 DEF StillToSend, Behind
<1>5. LastWordComing'
  BY <1>4 DEF LastWordComing, Connect, TabsTyped
<1> QED
  BY <1>2, <1>3, <1>5

\* A tab that closes is owed nothing.
LEMMA CloseTabTabs == ASSUME TabInv, NEW t \in Tab, CloseTab(t) PROVE TabInv'
<1> USE DEF TabInv
<1>1. TabsTyped'
  BY DEF TabsTyped, CloseTab, In
<1>2. OpenListed'
  BY DEF OpenListed, TabsTyped, CloseTab
<1>3. \A c \in Caller, u \in Tab : StillToSend(c, u) => StillToSend(c, u)'
  BY DEF StillToSend, CloseTab
<1>4. LastWordComing'
  BY <1>3 DEF LastWordComing, CloseTab, TabsTyped
<1> QED
  BY <1>1, <1>2, <1>4

\* A removal leaves a tab ahead of a broadcast, or it is counted as skipped.
LEMMA AheadOrSkipped ==
    ASSUME NEW D \in SUBSET Caller, NEW c \in D, NEW t \in Tab, StillToSend(c, t),
           call'[c] = call[c]
    PROVE  StillToSend(c, t)' \/ t \in Overtaken(D)
BY DEF StillToSend, Overtaken

\* A tab taken off the list moves no other past a broadcast without a record.
LEMMA DisconnectedTabs == ASSUME TabInv, NEW t \in Tab, Disconnected(t) PROVE TabInv'
<1> USE DEF TabInv
<1>1. subscribers' \in Seq(Tab) /\ Listed(subscribers') = Listed(subscribers) \ {t}
  <2>1. subscribers' = Without(subscribers, {t}) /\ subscribers \in Seq(Tab)
    BY DEF Disconnected, TabsTyped
  <2> QED
    BY <2>1, WithoutListed
<1>2. TabsTyped'
  BY <1>1 DEF TabsTyped, Disconnected, In
<1>3. OpenListed'
  <2>1. socket' = [socket EXCEPT ![t] = "over"] /\ UNCHANGED call
        /\ socket \in [Tab -> {"new", "open", "gone", "over"}]
    BY DEF Disconnected, TabsTyped
  <2> QED
    BY <1>1, <2>1 DEF OpenListed, TabsTyped
<1>4. \A c \in Caller, u \in Tab : StillToSend(c, u) => StillToSend(c, u)' \/ u \in skipped'
  BY AheadOrSkipped DEF Disconnected
<1>5. LastWordComing'
  <2>1. \A u \in Tab : socket'[u] = "open" => socket[u] = "open"
    BY DEF Disconnected, TabsTyped
  <2> QED
    BY <1>4, <2>1, skipped \subseteq skipped' DEF LastWordComing, Disconnected
<1> QED
  BY <1>2, <1>3, <1>5

\* The transfer changes: the change is yet to be broadcast.
LEMMA ChangeTabs ==
    ASSUME TabInv, NEW c \in Caller, Change(c) \/ Cancelled(c)
    PROVE  TabInv'
<1> USE DEF TabInv
<1>1. /\ call' = [call EXCEPT ![c] = In("changed")]
      /\ UNCHANGED <<subscribers, socket>>
  BY DEF Change, Cancelled
<1>2. TabsTyped'
  BY <1>1 DEF TabsTyped, In
<1>3. OpenListed'
  <2>1. \A d \in Caller : call'[d].dead \subseteq call[d].dead
    BY <1>1 DEF TabsTyped, In
  <2> QED
    BY <1>1, <2>1 DEF OpenListed
<1>4. call'[c].state = "changed"
  BY <1>1 DEF TabsTyped, In
<1> QED
  BY <1>2, <1>3, <1>4 DEF LastWordComing

\* A broadcast that is cut off is recorded.
LEMMA CutShortTabs == ASSUME TabInv, NEW c \in Caller, CutShort(c) PROVE TabInv'
<1> USE DEF TabInv
<1>1. call' = [call EXCEPT ![c] = In("idle")] /\ dropped' /\ UNCHANGED <<subscribers, socket>>
  BY DEF CutShort
<1>2. TabsTyped'
  BY <1>1 DEF TabsTyped, In
<1>3. \A d \in Caller : call'[d].dead \subseteq call[d].dead
  BY <1>1 DEF TabsTyped, In
<1>4. OpenListed'
  BY <1>1, <1>3 DEF OpenListed
<1> QED
  BY <1>1, <1>2, <1>4 DEF LastWordComing

\* The send to a tab: it is told, or it has closed, and the broadcast goes on from
\* its position.
LEMMA SendToTabs ==
    ASSUME TabsTyped, OpenListed, NEW c \in Caller, NEW at \in 1..Len(subscribers),
           NEW dead \in SUBSET Tab, \A t \in dead : socket[t] \in {"gone", "over"},
           SendTo(c, at, dead), UNCHANGED socket
    PROVE  /\ TabsTyped' /\ OpenListed' /\ UNCHANGED subscribers
           /\ call'[c].state = "sending" /\ call'[c].at = at
           /\ \A d \in Caller \ {c} : call'[d] = call[d]
           /\ told \subseteq told'
           /\ socket[subscribers[at]] = "open" => subscribers[at] \in told'
<1> DEFINE t == subscribers[at]
<1>1. t \in Tab /\ t \in Listed(subscribers)
  BY DEF TabsTyped, Listed
<1>2. PICK closed \in SUBSET Tab :
        /\ \A u \in closed : socket[u] \in {"gone", "over"}
        /\ call' = [call EXCEPT ![c] = [state |-> "sending", at |-> at, dead |-> closed]]
        /\ subscribers' = subscribers
  <2>1. CASE call' = [call EXCEPT ![c] = [state |-> "sending", at |-> at, dead |-> dead]]
             /\ UNCHANGED subscribers
    BY <2>1
  <2>2. CASE /\ socket[t] # "open"
             /\ call' = [call EXCEPT ![c] = [state |-> "sending", at |-> at, dead |-> dead \cup {t}]]
             /\ subscribers' = AfterFailure(t)
    <3>1. socket[t] \in {"gone", "over"}
      BY <1>1, <2>2 DEF OpenListed, TabsTyped
    <3>2. \A u \in dead \cup {t} : socket[u] \in {"gone", "over"}
      BY <3>1
    <3>3. dead \cup {t} \in SUBSET Tab
      BY <1>1
    <3> QED
      BY <2>2, <3>2, <3>3 DEF AfterFailure
  <2> QED
    BY <2>1, <2>2 DEF SendTo
<1>3. call \in [Caller -> [state : {"idle", "changed", "sending"}, at : Nat, dead : SUBSET Tab]]
  BY DEF TabsTyped
<1>4. call'[c] = [state |-> "sending", at |-> at, dead |-> closed]
      /\ \A d \in Caller \ {c} : call'[d] = call[d]
  BY <1>2, <1>3
<1>5. call' \in [Caller -> [state : {"idle", "changed", "sending"}, at : Nat, dead : SUBSET Tab]]
  BY <1>2, <1>3
<1>6. TabsTyped'
  BY <1>2, <1>4, <1>5 DEF TabsTyped, In
<1>7. OpenListed'
  BY <1>2, <1>4 DEF OpenListed
<1>8. told \subseteq told' /\ (socket[t] = "open" => t \in told')
  BY DEF SendTo
<1> QED
  BY <1>2, <1>4, <1>6, <1>7, <1>8

\* The broadcast comes to the end of the list and drops the tabs that failed.
LEMMA ReturnTabs ==
    ASSUME TabsTyped, OpenListed, NEW c \in Caller,
           NEW dead \in SUBSET Tab, \A t \in dead : socket[t] \in {"gone", "over"},
           Return(c, dead), UNCHANGED socket
    PROVE  /\ TabsTyped' /\ OpenListed' /\ UNCHANGED told
           /\ \A d \in Caller \ {c} : call'[d] = call[d]
<1>1. subscribers' \in Seq(Tab) /\ Listed(subscribers') = Listed(subscribers) \ dead
  <2>1. subscribers' = Without(subscribers, dead) /\ subscribers \in Seq(Tab)
    BY DEF Return, TabsTyped
  <2> QED
    BY <2>1, WithoutListed
<1>2. /\ call' = [call EXCEPT ![c] = In("idle")] /\ UNCHANGED told
      /\ call \in [Caller -> [state : {"idle", "changed", "sending"}, at : Nat, dead : SUBSET Tab]]
  BY DEF Return, TabsTyped
<1>3. call'[c] = In("idle") /\ \A d \in Caller \ {c} : call'[d] = call[d]
  BY <1>2
<1>4. call' \in [Caller -> [state : {"idle", "changed", "sending"}, at : Nat, dead : SUBSET Tab]]
  BY <1>2 DEF In
<1>5. TabsTyped'
  BY <1>1, <1>3, <1>4 DEF TabsTyped, In
<1>6. OpenListed'
  <2>1. \A d \in Caller : call'[d].dead \subseteq call[d].dead
    BY <1>2, <1>3 DEF In
  <2> QED
    BY <1>1, <2>1 DEF OpenListed
<1> QED
  BY <1>2, <1>3, <1>5, <1>6

\* A broadcast begins at the first tab, and so is ahead of every open one.
LEMMA BroadcastTabs == ASSUME TabInv, NEW c \in Caller, Broadcast(c) PROVE TabInv'
<1> USE DEF TabInv
<1>1. TabsTyped /\ OpenListed /\ UNCHANGED socket /\ Len(subscribers) \in Nat
  BY DEF Broadcast, Loop, TabsTyped
<1>2. CASE 1 <= Len(subscribers)
  <2>1. SendTo(c, 1, {}) /\ 1 \in 1..Len(subscribers)
    BY <1>1, <1>2 DEF Broadcast, Loop
  <2>2. /\ TabsTyped' /\ OpenListed' /\ UNCHANGED subscribers
        /\ call'[c].state = "sending" /\ call'[c].at = 1
        /\ socket[subscribers[1]] = "open" => subscribers[1] \in told'
    BY <1>1, <2>1, SendToTabs
  <2>3. ASSUME NEW t \in Tab, socket'[t] = "open", t \notin told'
        PROVE  StillToSend(c, t)'
    <3>1. PICK i \in 1..Len(subscribers) : subscribers[i] = t
      BY <1>1, <2>3 DEF OpenListed, Listed
    <3>2. i \in (1 + 1)..Len(subscribers)
      BY <1>1, <2>2, <2>3, <3>1
    <3> QED
      BY <2>2, <3>1, <3>2 DEF StillToSend, Behind
  <2> QED
    BY <2>2, <2>3 DEF LastWordComing
<1>3. CASE ~(1 <= Len(subscribers))
  <2>1. Return(c, {})
    BY <1>3 DEF Broadcast, Loop
  <2>2. TabsTyped' /\ OpenListed'
    BY <1>1, <2>1, ReturnTabs
  <2>3. \A t \in Tab : socket'[t] # "open"
    BY <1>1, <1>3 DEF OpenListed, Listed
  <2> QED
    BY <2>2, <2>3 DEF LastWordComing
<1> QED
  BY <1>2, <1>3

\* A broadcast goes on: the tab at the next position is told, and those behind it
\* stay ahead.  At the end of the list no tab was ahead of it.
LEMMA SentTabs == ASSUME TabInv, NEW c \in Caller, Sent(c) PROVE TabInv'
<1> USE DEF TabInv
<1> DEFINE at == call[c].at + 1
<1>1. /\ TabsTyped /\ OpenListed /\ UNCHANGED socket /\ call[c].at \in Nat
      /\ Len(subscribers) \in Nat /\ at \in Nat \ {0} /\ call[c].dead \in SUBSET Tab
      /\ \A t \in call[c].dead : socket[t] \in {"gone", "over"}
      /\ call[c].state = "sending" /\ (dropped => dropped') /\ skipped \subseteq skipped'
  BY DEF Sent, Loop, TabsTyped, OpenListed
<1>2. CASE at <= Len(subscribers)
  <2>1. SendTo(c, at, call[c].dead) /\ at \in 1..Len(subscribers)
    BY <1>1, <1>2 DEF Sent, Loop
  <2>2. /\ TabsTyped' /\ OpenListed' /\ UNCHANGED subscribers
        /\ call'[c].state = "sending" /\ call'[c].at = at
        /\ \A d \in Caller \ {c} : call'[d] = call[d]
        /\ told \subseteq told'
        /\ socket[subscribers[at]] = "open" => subscribers[at] \in told'
    <3> HIDE DEF at
    <3> QED
      BY <1>1, <2>1, SendToTabs
  <2>3. CASE dropped \/ \E d \in Caller : call[d].state = "changed"
    BY <1>1, <2>2, <2>3 DEF LastWordComing
  <2>4. CASE \A t \in Tab : socket[t] = "open" =>
               t \in told \cup skipped \/ \E d \in Caller : StillToSend(d, t)
    <3>1. ASSUME NEW t \in Tab, socket'[t] = "open", t \notin told' \cup skipped'
          PROVE  \E d \in Caller : StillToSend(d, t)'
      <4>1. PICK d \in Caller : StillToSend(d, t)
        BY <1>1, <2>2, <2>4, <3>1
      <4>2. CASE d # c
        BY <2>2, <4>1, <4>2 DEF StillToSend
      <4>3. CASE d = c
        <5>1. PICK i \in (call[c].at + 1)..Len(subscribers) : subscribers[i] = t
          BY <4>1, <4>3 DEF StillToSend, Behind
        <5>2. i # at
          BY <1>1, <2>2, <3>1, <5>1
        <5>3. i \in (at + 1)..Len(subscribers)
          BY <1>1, <5>1, <5>2
        <5> QED
          BY <2>2, <5>1, <5>3 DEF StillToSend, Behind
      <4> QED
        BY <4>2, <4>3
    <3> QED
      BY <2>2, <3>1 DEF LastWordComing
  <2> QED
    BY <2>2, <2>3, <2>4 DEF LastWordComing
<1>3. CASE ~(at <= Len(subscribers))
  <2>1. Return(c, call[c].dead)
    BY <1>3 DEF Sent, Loop
  <2>2. TabsTyped' /\ OpenListed' /\ UNCHANGED told /\ \A d \in Caller \ {c} : call'[d] = call[d]
    BY <1>1, <2>1, ReturnTabs
  <2>3. CASE dropped'
    BY <2>2, <2>3 DEF LastWordComing
  <2>4. CASE ~dropped' /\ \E d \in Caller : call[d].state = "changed"
    BY <1>1, <2>2, <2>4 DEF LastWordComing
  <2>5. CASE /\ ~dropped'
             /\ \A t \in Tab : socket[t] = "open" =>
                  t \in told \cup skipped \/ \E d \in Caller : StillToSend(d, t)
    <3>1. ASSUME NEW t \in Tab, socket'[t] = "open", t \notin told' \cup skipped'
          PROVE  \E d \in Caller : StillToSend(d, t)'
      <4>1. PICK d \in Caller : StillToSend(d, t)
        BY <1>1, <2>2, <2>5, <3>1
      <4>2. d # c
        <5>1. Behind(subscribers, call[c].at) = {}
          BY <1>1, <1>3 DEF Behind
        <5> QED
          BY <4>1, <5>1 DEF StillToSend
      <4>3. StillToSend(d, t)' \/ t \in Overtaken(Caller \ {c})
        BY <2>2, <4>1, <4>2, AheadOrSkipped
      <4> QED
        BY <3>1, <4>3 DEF Sent
    <3> QED
      BY <2>2, <3>1 DEF LastWordComing
  <2> QED
    BY <1>1, <2>3, <2>4, <2>5 DEF LastWordComing
<1> QED
  BY <1>2, <1>3

\* Every step of the loop keeps the invariant.
LEMMA TabsNext == TabInv /\ [TabNext]_tabVars => TabInv'
<1> SUFFICES ASSUME TabInv, [TabNext]_tabVars PROVE TabInv'
  OBVIOUS
<1>1. CASE UNCHANGED tabVars
  BY <1>1 DEF tabVars, TabInv, TabsTyped, OpenListed, LastWordComing, Listed, StillToSend, Behind, In
<1>2. CASE TabStep
  BY <1>2, ConnectTabs, CloseTabTabs, DisconnectedTabs DEF TabStep
<1>3. CASE CallStep
  BY <1>3, ChangeTabs, CutShortTabs, BroadcastTabs, SentTabs DEF CallStep
<1> QED
  BY <1>1, <1>2, <1>3 DEF TabNext

\* For any tabs, any broadcasts that overlap and any number of changes: when no
\* broadcast of the transfer is left and the last was not cut off by a cancel,
\* every open tab shows it as it is now, but for those that a removal moved up
\* past the loop of a broadcast since (state.py:111-118).
THEOREM LastWordReachesTabs == TabSpec => []TabsTold
<1>1. TabSpec => []TabInv
  BY TabsAtFirst, TabsNext, PTL DEF TabSpec
<1> QED
  BY <1>1, LastWordTold, PTL
=============================================================================
