------------------------ MODULE TransferQueueProofs ------------------------
(***************************************************************************)
(* Theorems about TransferQueue, for any set of transfers and links, any   *)
(* number of slots, requests and restarts.  The invariant Inv has a part   *)
(* per property; the part that keeps writers apart is split in two: while  *)
(* no download was relaunched it rests on the claimed paths, while         *)
(* requests are orderly on the links being in the queue once.  That the    *)
(* queue survives rests on what the last database call of a transfer will  *)
(* leave behind, not only on what is committed.  FileInv, on top of it, is *)
(* about what the files hold.                                              *)
(***************************************************************************)
EXTENDS TransferQueue, SequenceTheorems, TLAPS

Places == {"none", "unstarted", "metadata", "placing", "placed", "queueing", "waiting", "slotting",
           "starting", "running", "unwinding", "closing", "killed"}
MaybePath == Path \cup {Nothing}
Entries == [link : Link \cup {Nothing}, status : Status, path : MaybePath, removed : BOOLEAN]
Rows == [link : Link, status : Status, path : MaybePath]
Callers == {"task", "create", "launch", "delete", "clear", "answer", "final"}
Calls == [by : Callers, id : Id, row : Rows \cup {Nothing}, left : SUBSET Id]

Typed ==
    /\ listed \subseteq Id
    /\ entry \in [Id -> Entries]
    /\ task \in [Id -> Places]
    /\ dest \in [Id -> MaybePath] /\ launchPath \in [Id -> MaybePath]
    /\ resuming \in [Id -> BOOLEAN] /\ cancelling \in [Id -> BOOLEAN]
    /\ event \in [Id -> {"none", "set", "clear"}]
    /\ row \in [Id -> Rows \cup {Nothing}] /\ writes \in Seq(Calls)
    /\ \A k \in 1..Len(writes) : writes[k].left # {} => writes[k].by = "clear"
    /\ launching \in [Id -> {"none", "creating", "restarting", "announcing"}]
    /\ asked \in [Id -> {"none", "stop", "delete"}]
    /\ crashes \in Nat /\ serial \in BOOLEAN /\ sameName \in BOOLEAN /\ restarted \in BOOLEAN

\* Whatever is listed, launching or running has a link.
HasLink(i) == i \in listed \/ launching[i] # "none" \/ Live(i) => entry[i].link \in Link

\* A launch, and the task it creates until its first step, meet no task, no
\* pause event and no status that another handler could act on.
LaunchQuiet(i) ==
    launching[i] # "none" => event[i] = "none" /\ ~Live(i) /\ (i \in listed => entry[i].status = "starting")
UnstartedQuiet(i) ==
    task[i] = "unstarted" => event[i] = "none" /\ (i \in listed => entry[i].status = "starting")
EventOfTask(i) == Live(i) /\ task[i] # "unstarted" => event[i] # "none"
NoEvent(i) == task[i] = "none" => event[i] = "none"
Quiet(i) == LaunchQuiet(i) /\ UnstartedQuiet(i) /\ EventOfTask(i) /\ NoEvent(i)

\* What is on its way or at work is not done.
AtWork(i) == launching[i] # "none" \/ (Live(i) /\ task[i] # "closing")
NotDone(i) == AtWork(i) => entry[i].status # "done"

\* The calls of i in a lock's queue q, and the path i's row will have once they
\* all have returned.
Pend(q, i) == {q[k] : k \in {n \in 1..Len(q) : q[n].id = i}}
LastPath(q, i, p) ==
    \E k \in 1..Len(q) : /\ q[k].id = i /\ q[k].row.path = p
                         /\ \A m \in (k+1)..Len(q) : q[m].id # i
Ends(q, r, i, p) == IF Pend(q, i) = {} THEN r[i].path = p ELSE LastPath(q, i, p)

\* The rows of i, those written and those on their way, restore its link; the
\* last of them its path, too.
Restores(r, l) == r # Nothing /\ r.link = l
Backed(i) ==
    /\ \A c \in Pend(writes, i) : Restores(c.row, entry[i].link)
    /\ (\E c \in Pend(writes, i) : c.by = "create") \/ Restores(row[i], entry[i].link)
PathWritten(i) == Ends(writes, row, i, entry[i].path)

\* It is over: nobody can set its status any more.
Gone(i) == entry[i].status = "done" /\ task[i] = "none" /\ event[i] = "none" /\ launching[i] = "none"
\* A second cancel may take the last call, so the path may be missing.
Ending(i) == task[i] \in {"closing", "killed"} /\ launching[i] = "none"
Kept(i) ==
    i \in listed /\ ~entry[i].removed => Gone(i) \/ (Backed(i) /\ (Ending(i) \/ PathWritten(i)))

HasDest(i) == AtFile(i) => dest[i] # Nothing

Local(i) == HasLink(i) /\ Quiet(i) /\ NotDone(i) /\ Kept(i) /\ HasDest(i)

\* First launches: a destination is claimed, and nobody else's.
Holds(i) == (AtFile(i) \/ task[i] = "closing") /\ dest[i] # Nothing
NoPathYet(i) ==
    launchPath[i] = Nothing /\ (task[i] \in {"unstarted", "metadata"} => dest[i] = Nothing)
FirstLaunch ==
    ~restarted =>
       /\ \A i \in Id : NoPathYet(i)
       /\ \A i \in Id : Holds(i) => dest[i] \in claimed
       /\ \A i, j \in Id : Holds(i) /\ Holds(j) /\ dest[i] = dest[j] => i = j

\* Where no two links share a name, every path is named after its link, and a
\* task is at the file its entry names.
Plain == ~sameName /\ crashes = 0
OfLink(i, p) == p = Nothing \/ p[1] = entry[i].link
PathsOf(i) ==
    /\ i \in listed \/ launching[i] # "none" \/ Live(i) => OfLink(i, entry[i].path)
    /\ launching[i] # "none" => OfLink(i, launchPath[i])
    /\ Live(i) => OfLink(i, dest[i])
    /\ AtFile(i) => entry[i].path = dest[i]
PathsNamed == Plain => \A i \in Id : PathsOf(i)

\* Orderly requests: a task that may write is that of a listed entry, and what
\* is being removed is not at work.
Pending(i) == i \in listed /\ entry[i].status \notin TERMINAL_STATUS_KEYS
Left(q, i) == \E k \in 1..Len(q) : i \in q[k].left
Called(by, i) == \E c \in Pend(writes, i) : c.by = by
OrderlyOne(i) ==
    /\ AtWork(i) => Pending(i)
    /\ Called("delete", i) => ~AtWork(i)
    /\ Left(writes, i) => entry[i].status \in TERMINAL_STATUS_KEYS
OrderlyPart == Orderly => \A i \in Id : OrderlyOne(i)

Inv ==
    /\ Typed /\ (\A i \in Id : Local(i))
    /\ OneEntryPerLink /\ FirstLaunch /\ PathsNamed /\ OrderlyPart

-----------------------------------------------------------------------------
(* The lock's queue.                                                        *)

\* What a step may do to the calls and the row of a transfer it is not about:
\* calls return in order, or are given up.
Moves(q, r, j) ==
    /\ Pend(q, j) \subseteq Pend(writes, j)
    /\ r[j] = row[j] \/ \E c \in Pend(writes, j) : r[j] = c.row
    /\ \A c \in Pend(writes, j) :
          c.by = "create" => c \in Pend(q, j) \/ \E d \in Pend(writes, j) : r[j] = d.row
Follows(q, r, j) == \A p \in MaybePath : Ends(writes, row, j, p) => Ends(q, r, j, p)
DbStep(j) ==
    /\ Moves(writes', row', j) /\ Follows(writes', row', j)
    /\ Left(writes', j) => Left(writes, j)

LEMMA Standing ==
  ASSUME NEW j \in Id
  PROVE  Moves(writes, row, j) /\ Follows(writes, row, j)
  BY DEF Moves, Follows

LEMMA DbSame ==
  ASSUME UNCHANGED dbVars, NEW j \in Id
  PROVE  DbStep(j)
<1>1. writes' = writes /\ row' = row
  BY DEF dbVars
<1> QED
  BY <1>1, Standing DEF DbStep

LEMMA Appended ==
  ASSUME NEW q \in Seq(Calls), NEW c \in Calls, NEW j \in Id
  PROVE  /\ Append(q, c) \in Seq(Calls)
         /\ Pend(Append(q, c), j) = Pend(q, j) \cup (IF c.id = j THEN {c} ELSE {})
         /\ \A p : LastPath(Append(q, c), j, p) <=>
                      IF c.id = j THEN c.row.path = p ELSE LastPath(q, j, p)
         /\ Left(Append(q, c), j) <=> Left(q, j) \/ j \in c.left
<1> DEFINE a == Append(q, c)
           n == Len(q)
<1>1. /\ a \in Seq(Calls) /\ Len(a) = n + 1 /\ n \in Nat
      /\ \A k \in 1..n : a[k] = q[k]
      /\ a[n + 1] = c
  BY AppendProperties, LenProperties
<1> HIDE DEF a, n
<1>2. 1..Len(a) = (1..n) \cup {n + 1}
  BY <1>1
<1>3. Pend(a, j) = Pend(q, j) \cup (IF c.id = j THEN {c} ELSE {})
  BY <1>1, <1>2 DEF Pend, n
<1>4. Left(a, j) <=> Left(q, j) \/ j \in c.left
  BY <1>1, <1>2 DEF Left, n
<1>5. ASSUME NEW p PROVE LastPath(a, j, p) <=> IF c.id = j THEN c.row.path = p ELSE LastPath(q, j, p)
  <2>1. CASE c.id = j
    <3>1. LastPath(a, j, p) => c.row.path = p
      <4>1. SUFFICES ASSUME NEW k \in 1..Len(a), a[k].row.path = p,
                            \A m \in (k+1)..Len(a) : a[m].id # j
                     PROVE  c.row.path = p
        BY DEF LastPath
      <4>2. k = n + 1
        BY <1>1, <2>1, <4>1
      <4> QED
        BY <1>1, <4>1, <4>2
    <3>2. c.row.path = p => LastPath(a, j, p)
      <4>1. n + 1 \in 1..Len(a) /\ ((n+1)+1)..Len(a) = {}
        BY <1>1
      <4> QED
        BY <1>1, <2>1, <4>1 DEF LastPath
    <3> QED
      BY <2>1, <3>1, <3>2
  <2>2. CASE c.id # j
    <3>1. ASSUME LastPath(a, j, p) PROVE LastPath(q, j, p)
      <4>1. PICK k \in 1..Len(a) : a[k].id = j /\ a[k].row.path = p /\ \A m \in (k+1)..Len(a) : a[m].id # j
        BY <3>1 DEF LastPath
      <4>2. k \in 1..n
        BY <1>1, <1>2, <2>2, <4>1
      <4>3. \A m \in (k+1)..n : q[m].id # j
        BY <1>1, <4>1, <4>2
      <4> QED
        BY <1>1, <4>1, <4>2, <4>3 DEF LastPath, n
    <3>2. ASSUME LastPath(q, j, p) PROVE LastPath(a, j, p)
      <4>1. PICK k \in 1..n : q[k].id = j /\ q[k].row.path = p /\ \A m \in (k+1)..n : q[m].id # j
        BY <3>2 DEF LastPath, n
      <4>2. \A m \in (k+1)..Len(a) : a[m].id # j
        <5>1. ASSUME NEW m \in (k+1)..Len(a) PROVE a[m].id # j
          <6>1. m \in (k+1)..n \/ m = n + 1
            BY <1>1
          <6>2. m \in (k+1)..n => m \in 1..n
            BY <4>1
          <6> QED
            BY <1>1, <2>2, <4>1, <6>1, <6>2
        <5> QED
          BY <5>1
      <4> QED
        BY <1>1, <1>2, <4>1, <4>2 DEF LastPath
    <3> QED
      BY <2>2, <3>1, <3>2
  <2> QED
    BY <2>1, <2>2
<1> QED
  BY <1>1, <1>3, <1>4, <1>5 DEF a

LEMMA Headed ==
  ASSUME NEW q \in Seq(Calls), q # <<>>, NEW j \in Id
  PROVE  /\ Tail(q) \in Seq(Calls) /\ Head(q) \in Calls
         /\ Pend(q, j) = Pend(Tail(q), j) \cup (IF Head(q).id = j THEN {Head(q)} ELSE {})
         /\ \A p : LastPath(q, j, p) =>
                      \/ LastPath(Tail(q), j, p)
                      \/ Pend(Tail(q), j) = {} /\ Head(q).id = j /\ Head(q).row.path = p
         /\ Left(Tail(q), j) => Left(q, j)
<1> DEFINE t == Tail(q)
           n == Len(q)
<1>1. /\ t \in Seq(Calls) /\ Len(t) = n - 1 /\ n \in Nat \ {0} /\ Len(t) \in Nat
      /\ \A k \in 1..(n-1) : t[k] = q[k+1]
      /\ Head(q) = q[1] /\ q[1] \in Calls
  <2>1. n \in Nat \ {0}
    BY EmptySeq
  <2>2. q[1] \in Calls
    BY <2>1, ElementOfSeq
  <2> QED
    BY <2>1, <2>2, HeadTailProperties, LenProperties
<1> HIDE DEF t, n
<1>2. Pend(q, j) = Pend(t, j) \cup (IF Head(q).id = j THEN {Head(q)} ELSE {})
  <2>1. ASSUME NEW c \in Pend(q, j) PROVE c \in Pend(t, j) \/ (Head(q).id = j /\ c = Head(q))
    <3>1. PICK k \in 1..n : q[k].id = j /\ c = q[k]
      BY DEF Pend, n
    <3>2. CASE k = 1
      BY <1>1, <3>1, <3>2
    <3>3. CASE k # 1
      <4>1. k - 1 \in 1..Len(t) /\ t[k-1] = q[k]
        BY <1>1, <3>1, <3>3
      <4> QED
        BY <3>1, <4>1 DEF Pend
    <3> QED
      BY <3>2, <3>3
  <2>2. ASSUME NEW c \in Pend(t, j) PROVE c \in Pend(q, j)
    <3>1. PICK k \in 1..Len(t) : t[k].id = j /\ c = t[k]
      BY DEF Pend
    <3>2. k + 1 \in 1..n /\ q[k+1] = t[k]
      BY <1>1, <3>1
    <3> QED
      BY <3>1, <3>2 DEF Pend, n
  <2>3. Head(q).id = j => Head(q) \in Pend(q, j)
    BY <1>1 DEF Pend, n
  <2> QED
    BY <2>1, <2>2, <2>3
<1>3. Left(t, j) => Left(q, j)
  <2>1. SUFFICES ASSUME NEW k \in 1..Len(t), j \in t[k].left PROVE Left(q, j)
    BY DEF Left
  <2>2. k + 1 \in 1..n /\ q[k+1] = t[k]
    BY <1>1, <2>1
  <2> QED
    BY <2>1, <2>2 DEF Left, n
<1>4. ASSUME NEW p, LastPath(q, j, p)
      PROVE  LastPath(t, j, p) \/ (Pend(t, j) = {} /\ Head(q).id = j /\ Head(q).row.path = p)
  <2>1. PICK k \in 1..n : q[k].id = j /\ q[k].row.path = p /\ \A m \in (k+1)..n : q[m].id # j
    BY <1>4 DEF LastPath, n
  <2>2. CASE k = 1
    <3>1. ASSUME NEW m \in 1..Len(t) PROVE t[m].id # j
      <4>1. m + 1 \in (k+1)..n /\ t[m] = q[m+1]
        BY <1>1, <2>2
      <4> QED
        BY <2>1, <4>1
    <3>2. Pend(t, j) = {}
      BY <3>1 DEF Pend
    <3> QED
      BY <1>1, <2>1, <2>2, <3>2
  <2>3. CASE k # 1
    <3>1. k - 1 \in 1..Len(t) /\ t[k-1] = q[k]
      BY <1>1, <2>1, <2>3
    <3>2. ASSUME NEW m \in ((k-1)+1)..Len(t) PROVE t[m].id # j
      <4>1. m + 1 \in (k+1)..n /\ t[m] = q[m+1]
        BY <1>1, <2>1
      <4> QED
        BY <2>1, <4>1
    <3> QED
      BY <2>1, <3>1, <3>2 DEF LastPath
  <2> QED
    BY <2>2, <2>3
<1> QED
  BY <1>1, <1>2, <1>3, <1>4 DEF t

\* The first call commits and leaves the queue.
LEMMA Committing ==
  ASSUME Typed, writes # <<>>, row' = Committed, NEW j \in Id
  PROVE  /\ row' \in [Id -> Rows \cup {Nothing}] /\ Tail(writes) \in Seq(Calls)
         /\ Moves(Tail(writes), row', j) /\ Follows(Tail(writes), row', j)
         /\ Left(Tail(writes), j) => Left(writes, j)
<1>1. writes \in Seq(Calls)
  BY DEF Typed
<1> DEFINE h == Head(writes)
<1>2. /\ Tail(writes) \in Seq(Calls) /\ h \in Calls
      /\ Pend(writes, j) = Pend(Tail(writes), j) \cup (IF h.id = j THEN {h} ELSE {})
      /\ \A p : LastPath(writes, j, p) =>
                      \/ LastPath(Tail(writes), j, p)
                      \/ Pend(Tail(writes), j) = {} /\ h.id = j /\ h.row.path = p
      /\ Left(Tail(writes), j) => Left(writes, j)
  BY <1>1, Headed
<1>3. row' = [row EXCEPT ![h.id] = h.row] /\ h.id \in Id /\ h.row \in Rows \cup {Nothing}
  BY <1>2 DEF Committed, Calls
<1>4. /\ row' \in [Id -> Rows \cup {Nothing}]
      /\ h.id = j => row'[j] = h.row
      /\ h.id # j => row'[j] = row[j]
  BY <1>3 DEF Typed
<1> HIDE DEF h
<1>5. Moves(Tail(writes), row', j)
  BY <1>2, <1>4 DEF Moves
<1>6. Follows(Tail(writes), row', j)
  <2>1. SUFFICES ASSUME NEW p \in MaybePath, Ends(writes, row, j, p) PROVE Ends(Tail(writes), row', j, p)
    BY DEF Follows
  <2>2. CASE Pend(writes, j) = {}
    BY <1>2, <1>4, <2>1, <2>2 DEF Ends
  <2>3. CASE Pend(writes, j) # {}
    <3>1. LastPath(writes, j, p)
      BY <2>1, <2>3 DEF Ends
    <3>2. CASE Pend(Tail(writes), j) = {}
      <4>1. h.id = j
        BY <1>2, <2>3, <3>2
      <4>2. ~LastPath(Tail(writes), j, p)
        BY <3>2 DEF LastPath, Pend
      <4> QED
        BY <1>2, <1>4, <3>1, <3>2, <4>1, <4>2 DEF Ends
    <3>3. CASE Pend(Tail(writes), j) # {}
      BY <1>2, <3>1, <3>3 DEF Ends
    <3> QED
      BY <3>2, <3>3
  <2> QED
    BY <2>2, <2>3
<1> QED
  BY <1>2, <1>4, <1>5, <1>6

LEMMA DbReturns ==
  ASSUME Typed, NEW by, NEW i \in Id, Returns(by, i)
  PROVE  /\ row' \in [Id -> Rows \cup {Nothing}] /\ writes' \in Seq(Calls)
         /\ \A k \in 1..Len(writes') : writes'[k].left # {} => writes'[k].by = "clear"
         /\ \A j \in Id : DbStep(j)
         /\ Called(by, i)
<1>1. writes # <<>> /\ row' = Committed /\ writes' = Tail(writes) /\ Head(writes).by = by /\ Head(writes).id = i
  BY DEF Returns, Commits
<1>2. \A j \in Id : /\ row' \in [Id -> Rows \cup {Nothing}] /\ writes' \in Seq(Calls)
                    /\ DbStep(j)
  BY <1>1, Committing DEF DbStep
<1>3. /\ \A k \in 1..Len(writes') : writes'[k] = writes[k + 1] /\ k + 1 \in 1..Len(writes)
      /\ Head(writes) = writes[1] /\ 1 \in 1..Len(writes)
  BY <1>1, HeadTailProperties, LenProperties, EmptySeq DEF Typed
<1>4. \A k \in 1..Len(writes') : writes'[k].left # {} => writes'[k].by = "clear"
  <2>1. \A m \in 1..Len(writes) : writes[m].left # {} => writes[m].by = "clear"
    BY DEF Typed
  <2> QED
    BY <1>3, <2>1
<1>5. Called(by, i)
  BY <1>1, <1>3 DEF Called, Pend
<1> QED
  BY <1>2, <1>4, <1>5

\* A call joins the queue.
LEMMA DbAppends ==
  ASSUME Typed, NEW c \in Calls, c.left = {}, writes' = Append(writes, c), row' = row
  PROVE  /\ writes' \in Seq(Calls)
         /\ \A k \in 1..Len(writes') : writes'[k].left # {} => writes'[k].by = "clear"
         /\ \A j \in Id \ {c.id} : DbStep(j)
         /\ Pend(writes', c.id) = Pend(writes, c.id) \cup {c}
         /\ \A p : Ends(writes', row', c.id, p) <=> c.row.path = p
         /\ \A j \in Id : Left(writes', j) => Left(writes, j)
<1>1. writes \in Seq(Calls) /\ c.id \in Id
  BY DEF Typed, Calls
<1>2. \A j \in Id : /\ writes' \in Seq(Calls)
                    /\ Pend(writes', j) = Pend(writes, j) \cup (IF c.id = j THEN {c} ELSE {})
                    /\ \A p : LastPath(writes', j, p) <=>
                                 IF c.id = j THEN c.row.path = p ELSE LastPath(writes, j, p)
                    /\ Left(writes', j) <=> Left(writes, j)
  BY <1>1, Appended
<1>3. \A k \in 1..Len(writes') : writes'[k].left # {} => writes'[k].by = "clear"
  <2>1. /\ Len(writes') = Len(writes) + 1 /\ Len(writes) \in Nat
        /\ \A k \in 1..Len(writes) : writes'[k] = writes[k]
        /\ writes'[Len(writes) + 1] = c
    BY <1>1, AppendProperties, LenProperties
  <2> QED
    BY <2>1 DEF Typed
<1>4. ASSUME NEW j \in Id \ {c.id} PROVE DbStep(j)
  <2>1. Moves(writes', row', j)
    BY <1>2 DEF Moves
  <2>2. Follows(writes', row', j)
    BY <1>2 DEF Follows, Ends
  <2> QED
    BY <1>2, <2>1, <2>2 DEF DbStep
<1>5. \A p : Ends(writes', row', c.id, p) <=> c.row.path = p
  <2>1. Pend(writes', c.id) # {}
    BY <1>1, <1>2
  <2> QED
    BY <1>1, <1>2, <2>1 DEF Ends
<1> QED
  BY <1>1, <1>2, <1>3, <1>4, <1>5

\* A call is given up.
LEMMA DbGivesUp ==
  ASSUME Typed, NEW i \in Id, GiveUpCall(i)
  PROVE  /\ row' \in [Id -> Rows \cup {Nothing}] /\ writes' \in Seq(Calls)
         /\ \A k \in 1..Len(writes') : writes'[k].left # {} => writes'[k].by = "clear"
         /\ \A j \in Id : Moves(writes', row', j) /\ (Left(writes', j) => Left(writes, j))
         /\ \A j \in Id \ {i} : DbStep(j)
<1> DEFINE n == Len(writes)
<1>1. writes \in Seq(Calls) /\ n \in Nat /\ \A m \in 1..n : writes[m] \in Calls
  BY LenProperties, ElementOfSeq DEF Typed
<1>2. PICK k \in 1..n : /\ writes[k].by = "task" /\ writes[k].id = i
                        /\ writes' = Without(k)
                        /\ row' \in IF k = 1 THEN {row, Committed} ELSE {row}
  BY DEF GiveUpCall
<1>3. /\ writes' \in Seq(Calls) /\ Len(writes') = n - 1
      /\ \A m \in 1..(n-1) : writes'[m] = IF m < k THEN writes[m] ELSE writes[m+1]
  <2> DEFINE a == SubSeq(writes, 1, k - 1)
             b == SubSeq(writes, k + 1, n)
  <2>1. /\ a \in Seq(Calls) /\ Len(a) = k - 1
        /\ \A m \in 1..(k-1) : a[m] = writes[m]
    <3>1. \A m \in 1..(k-1) : writes[m] \in Calls
      BY <1>1, <1>2
    <3>2. k - 1 \in Int /\ 1 \in Int
      BY <1>1, <1>2
    <3>3. /\ a \in Seq(Calls) /\ Len(a) = IF 1 <= k - 1 THEN (k - 1) - 1 + 1 ELSE 0
          /\ \A m \in 1..((k - 1) - 1 + 1) : a[m] = writes[1 + m - 1]
      BY <3>1, <3>2, SubSeqProperties
    <3> HIDE DEF a
    <3> QED
      BY <1>1, <1>2, <3>3
  <2>2. /\ b \in Seq(Calls) /\ Len(b) = n - k
        /\ \A m \in 1..(n-k) : b[m] = writes[k + m]
    <3>1. \A m \in (k+1)..n : writes[m] \in Calls
      BY <1>1, <1>2
    <3>2. k + 1 \in Int /\ n \in Int
      BY <1>1, <1>2
    <3>3. /\ b \in Seq(Calls) /\ Len(b) = IF k + 1 <= n THEN n - (k + 1) + 1 ELSE 0
          /\ \A m \in 1..(n - (k + 1) + 1) : b[m] = writes[(k + 1) + m - 1]
      BY <3>1, <3>2, SubSeqProperties
    <3> HIDE DEF b
    <3> QED
      BY <1>1, <1>2, <3>3
  <2>3. writes' = a \o b
    BY <1>2 DEF Without
  <2> HIDE DEF a, b
  <2>4. /\ a \o b \in Seq(Calls) /\ Len(a \o b) = Len(a) + Len(b)
        /\ \A m \in 1..(Len(a) + Len(b)) : (a \o b)[m] = IF m <= Len(a) THEN a[m] ELSE b[m - Len(a)]
    BY <2>1, <2>2, ConcatProperties
  <2>5. Len(a) + Len(b) = n - 1
    BY <1>1, <1>2, <2>1, <2>2
  <2>6. ASSUME NEW m \in 1..(n-1) PROVE writes'[m] = IF m < k THEN writes[m] ELSE writes[m+1]
    <3>1. writes'[m] = IF m <= Len(a) THEN a[m] ELSE b[m - Len(a)]
      BY <2>3, <2>4, <2>5
    <3>2. CASE m < k
      BY <1>1, <1>2, <2>1, <3>1, <3>2
    <3>3. CASE ~(m < k)
      <4>1. m - Len(a) \in 1..(n-k) /\ k + (m - Len(a)) = m + 1 /\ ~(m <= Len(a))
        BY <1>1, <1>2, <2>1, <3>3
      <4> QED
        BY <2>2, <3>1, <3>3, <4>1
    <3> QED
      BY <3>2, <3>3
  <2> QED
    BY <2>3, <2>4, <2>5, <2>6
<1> DEFINE at(m) == IF m < k THEN m ELSE m + 1
<1>4. /\ \A m \in 1..Len(writes') : at(m) \in 1..n /\ writes'[m] = writes[at(m)] /\ at(m) # k
      /\ \A m \in 1..n : m # k => \E o \in 1..Len(writes') : at(o) = m /\ writes'[o] = writes[m]
  <2>1. ASSUME NEW m \in 1..Len(writes') PROVE at(m) \in 1..n /\ writes'[m] = writes[at(m)] /\ at(m) # k
    BY <1>1, <1>2, <1>3
  <2>2. ASSUME NEW m \in 1..n, m # k PROVE \E o \in 1..Len(writes') : at(o) = m /\ writes'[o] = writes[m]
    <3> DEFINE o == IF m < k THEN m ELSE m - 1
    <3>1. o \in 1..(n-1) /\ at(o) = m /\ (IF o < k THEN writes[o] ELSE writes[o+1]) = writes[m]
      BY <1>1, <1>2, <2>2
    <3> QED
      BY <1>3, <3>1
  <2> QED
    BY <2>1, <2>2
<1>5. \A m, o \in 1..Len(writes') : m < o => at(m) < at(o)
  BY <1>1, <1>2, <1>3
<1>5a. \A m, o \in 1..Len(writes') : at(m) < at(o) => m < o
  BY <1>1, <1>2, <1>3
<1>6. row' \in [Id -> Rows \cup {Nothing}] /\ (\A j \in Id \ {i} : row'[j] = row[j])
      /\ (row'[i] = row[i] \/ row'[i] = writes[k].row)
  <2>1. CASE row' = row
    BY <2>1 DEF Typed
  <2>2. CASE row' = Committed /\ k = 1
    <3>1. Head(writes) = writes[1]
      BY <1>1, <1>2, HeadTailProperties
    <3>2. writes[1].id = i /\ writes[1].row \in Rows \cup {Nothing}
      BY <1>1, <1>2, <2>2 DEF Calls
    <3> QED
      BY <2>2, <3>1, <3>2 DEF Committed, Typed
  <2> QED
    BY <1>2, <2>1, <2>2
<1> HIDE DEF at, n
<1>7. \A m \in 1..Len(writes') : writes'[m].left # {} => writes'[m].by = "clear"
  <2>1. \A m \in 1..n : writes[m].left # {} => writes[m].by = "clear"
    BY DEF Typed, n
  <2> QED
    BY <1>4, <2>1
<1>8. ASSUME NEW j \in Id
      PROVE  /\ Pend(writes', j) \subseteq Pend(writes, j)
             /\ \A c \in Pend(writes, j) : c.by # "task" => c \in Pend(writes', j)
             /\ j # i => Pend(writes', j) = Pend(writes, j)
             /\ Left(writes', j) => Left(writes, j)
  <2>1. ASSUME NEW c \in Pend(writes', j) PROVE c \in Pend(writes, j)
    <3>1. PICK m \in 1..Len(writes') : writes'[m].id = j /\ c = writes'[m]
      BY DEF Pend
    <3>2. at(m) \in 1..n /\ writes[at(m)] = c
      BY <1>4, <3>1
    <3> QED
      BY <3>1, <3>2 DEF Pend, n
  <2>2. ASSUME NEW c \in Pend(writes, j), c.by # "task" \/ j # i PROVE c \in Pend(writes', j)
    <3>1. PICK m \in 1..n : writes[m].id = j /\ c = writes[m]
      BY DEF Pend, n
    <3>2. m # k
      BY <1>2, <2>2, <3>1
    <3> QED
      BY <1>4, <3>1, <3>2 DEF Pend
  <2>3. Left(writes', j) => Left(writes, j)
    BY <1>4 DEF Left, n
  <2> QED
    BY <2>1, <2>2, <2>3
<1>9. writes[k] \in Pend(writes, i)
  BY <1>2 DEF Pend, n
<1>10. ASSUME NEW j \in Id PROVE Moves(writes', row', j)
  BY <1>6, <1>8, <1>9 DEF Moves
<1>11. ASSUME NEW j \in Id \ {i} PROVE Follows(writes', row', j)
  <2>1. SUFFICES ASSUME NEW p \in MaybePath, LastPath(writes, j, p) PROVE LastPath(writes', j, p)
    BY <1>6, <1>8 DEF Follows, Ends
  <2>2. PICK m \in 1..n : writes[m].id = j /\ writes[m].row.path = p /\ \A o \in (m+1)..n : writes[o].id # j
    BY <2>1 DEF LastPath, n
  <2>3. m # k
    BY <1>2, <2>2
  <2>4. PICK o \in 1..Len(writes') : at(o) = m /\ writes'[o] = writes[m]
    BY <1>4, <2>2, <2>3
  <2>5. ASSUME NEW u \in (o+1)..Len(writes') PROVE writes'[u].id # j
    <3>1. o < u /\ u \in 1..Len(writes')
      BY <1>1, <1>3, <2>4
    <3>2. at(o) < at(u) /\ at(u) \in 1..n
      BY <1>4, <1>5, <2>4, <3>1
    <3>3. at(u) \in (m+1)..n
      BY <1>1, <2>4, <3>2
    <3> QED
      BY <1>4, <2>2, <3>1, <3>3
  <2> QED
    BY <2>2, <2>4, <2>5 DEF LastPath
<1> QED
  BY <1>3, <1>6, <1>7, <1>8, <1>10, <1>11 DEF DbStep

-----------------------------------------------------------------------------
(* Types.                                                                   *)

LEMMA ClaimedIsFree ==
  ASSUME NEW l \in Link, NEW d \in ClaimUnique(l)
  PROVE  /\ d \in Path /\ d # Nothing /\ d \notin claimed
         /\ d[1] = FileName(l)
<1>1. PICK n \in 0..MaxCopies : d = <<FileName(l), n>> /\ <<FileName(l), n>> \notin claimed
  BY DEF ClaimUnique, FreeCopies
<1>2. FileName(l) \in Link \cup {CommonName}
  BY DEF FileName
<1>3. d \in Path
  BY <1>1, <1>2 DEF Path
<1>4. d # Nothing
  BY <1>3, NothingAssumption
<1>5. d[1] = FileName(l)
  BY <1>1
<1> QED
  BY <1>1, <1>3, <1>4, <1>5

LEMMA TypedInit == Init => Typed
<1>1. Blank \in Entries
  BY DEF Blank, NewEntry, Entries, Status, RESUMABLE_ON_STARTUP_KEYS, MaybePath
<1> QED
  <2>1. SUFFICES ASSUME Init PROVE Typed
    OBVIOUS
  <2>2. entry \in [Id -> Entries] /\ row \in [Id -> Rows \cup {Nothing}]
    BY <1>1, <2>1 DEF Init
  <2>3. dest \in [Id -> MaybePath] /\ launchPath \in [Id -> MaybePath]
    BY <2>1 DEF Init, MaybePath
  <2>4. writes \in Seq(Calls) /\ Len(writes) = 0 /\ 1..Len(writes) = {}
    BY <2>1, EmptySeq DEF Init
  <2> QED
    BY <2>1, <2>2, <2>3, <2>4 DEF Init, Typed, Places

\* A status, a path or the mark of a removal written to an entry.
LEMMA EntryWritten ==
  ASSUME NEW e \in Entries
  PROVE  /\ \A s \in Status :
              /\ [e EXCEPT !.status = s] \in Entries
              /\ [e EXCEPT !.status = s].status = s /\ [e EXCEPT !.status = s].link = e.link
              /\ [e EXCEPT !.status = s].path = e.path /\ ([e EXCEPT !.status = s].removed <=> e.removed)
         /\ \A p \in MaybePath :
              /\ [e EXCEPT !.path = p] \in Entries
              /\ [e EXCEPT !.path = p].status = e.status /\ [e EXCEPT !.path = p].link = e.link
              /\ [e EXCEPT !.path = p].path = p /\ ([e EXCEPT !.path = p].removed <=> e.removed)
         /\ /\ [e EXCEPT !.removed = TRUE] \in Entries
            /\ [e EXCEPT !.removed = TRUE].status = e.status /\ [e EXCEPT !.removed = TRUE].link = e.link
            /\ [e EXCEPT !.removed = TRUE].path = e.path /\ [e EXCEPT !.removed = TRUE].removed
  BY DEF Entries

LEMMA RowOf ==
  ASSUME NEW e \in Entries, e.link \in Link
  PROVE  /\ Row(e) \in Rows /\ Row(e) # Nothing
         /\ Row(e).link = e.link /\ Row(e).path = e.path /\ Row(e).status = e.status
<1>1. Row(e) \in Rows
  BY DEF Row, Rows, Entries
<1>2. Row(e) # Nothing
  BY <1>1, NothingAssumption DEF Rows, MaybePath
<1> QED
  BY <1>1, <1>2 DEF Row

LEMMA StatusWritten ==
  ASSUME Typed, NEW i \in Id, NEW s \in Status, entry' = [entry EXCEPT ![i].status = s]
  PROVE  /\ entry' \in [Id -> Entries] /\ entry' = [entry EXCEPT ![i] = entry'[i]]
         /\ entry'[i].status = s /\ entry'[i].link = entry[i].link
         /\ entry'[i].path = entry[i].path /\ (entry'[i].removed <=> entry[i].removed)
<1> DEFINE e == [entry[i] EXCEPT !.status = s]
<1>0. entry[i] \in Entries
  BY DEF Typed
<1>1. e \in Entries /\ e.status = s /\ e.link = entry[i].link /\ e.path = entry[i].path /\ (e.removed <=> entry[i].removed)
  BY <1>0, EntryWritten
<1>2. entry' = [entry EXCEPT ![i] = e]
  OBVIOUS
<1> HIDE DEF e
<1>3. entry'[i] = e
  BY <1>2 DEF Typed
<1> QED
  BY <1>1, <1>2, <1>3 DEF Typed

LEMMA PathTyped ==
  ASSUME Typed, NEW i \in Id, NEW p \in MaybePath, entry' = [entry EXCEPT ![i].path = p]
  PROVE  /\ entry' \in [Id -> Entries] /\ entry' = [entry EXCEPT ![i] = entry'[i]]
         /\ entry'[i].path = p /\ entry'[i].link = entry[i].link
         /\ entry'[i].status = entry[i].status /\ (entry'[i].removed <=> entry[i].removed)
<1> DEFINE e == [entry[i] EXCEPT !.path = p]
<1>0. entry[i] \in Entries
  BY DEF Typed
<1>1. e \in Entries /\ e.path = p /\ e.link = entry[i].link /\ e.status = entry[i].status /\ (e.removed <=> entry[i].removed)
  BY <1>0, EntryWritten
<1>2. entry' = [entry EXCEPT ![i] = e]
  OBVIOUS
<1> HIDE DEF e
<1>3. entry'[i] = e
  BY <1>2 DEF Typed
<1> QED
  BY <1>1, <1>2, <1>3 DEF Typed

LEMMA RemovedWritten ==
  ASSUME Typed, NEW i \in Id, entry' = [entry EXCEPT ![i].removed = TRUE]
  PROVE  /\ entry' \in [Id -> Entries] /\ entry' = [entry EXCEPT ![i] = entry'[i]]
         /\ entry'[i].removed /\ entry'[i].link = entry[i].link
         /\ entry'[i].path = entry[i].path /\ entry'[i].status = entry[i].status
<1> DEFINE e == [entry[i] EXCEPT !.removed = TRUE]
<1>0. entry[i] \in Entries
  BY DEF Typed
<1>1. e \in Entries /\ e.status = entry[i].status /\ e.link = entry[i].link /\ e.path = entry[i].path /\ e.removed
  BY <1>0, EntryWritten
<1>2. entry' = [entry EXCEPT ![i] = e]
  OBVIOUS
<1> HIDE DEF e
<1>3. entry'[i] = e
  BY <1>2 DEF Typed
<1> QED
  BY <1>1, <1>2, <1>3 DEF Typed

-----------------------------------------------------------------------------
(* The rows restore the queue: what a step has to do for one transfer.      *)

\* No call of a DELETE or a clear-finished came in.
Quieter(j) ==
    /\ Called("delete", j)' => Called("delete", j)
    /\ Left(writes', j) => Left(writes, j)

LEMMA MovesQuieter ==
  ASSUME NEW j \in Id, Moves(writes', row', j), Left(writes', j) => Left(writes, j)
  PROVE  Quieter(j)
  BY DEF Quieter, Moves, Called

LEMMA BackedStays ==
  ASSUME NEW j \in Id, Backed(j), Moves(writes', row', j), entry'[j].link = entry[j].link
  PROVE  Backed(j)'
<1>1. \A c \in Pend(writes, j) : Restores(c.row, entry'[j].link)
  BY DEF Backed, Restores
<1>2. Restores(row[j], entry[j].link) => Restores(row'[j], entry'[j].link)
  BY <1>1 DEF Moves, Restores
<1> QED
  BY <1>1, <1>2 DEF Backed, Moves

LEMMA KeptByStep ==
  ASSUME Typed, NEW j \in Id, Kept(j), Moves(writes', row', j),
         entry'[j].link = entry[j].link, entry'[j].path = entry[j].path,
         entry[j].removed => entry'[j].removed, j \in listed' => j \in listed,
         Gone(j) => Gone(j)',
         Ending(j)' \/ (Follows(writes', row', j) /\ (Ending(j) => Ending(j)'))
  PROVE  Kept(j)'
<1>1. SUFFICES ASSUME (j \in listed)', ~entry'[j].removed, ~Gone(j)'
               PROVE  Backed(j)' /\ (Ending(j)' \/ PathWritten(j)')
  BY DEF Kept
<1>2. Backed(j) /\ (Ending(j) \/ PathWritten(j))
  BY <1>1 DEF Kept
<1>3. Backed(j)'
  BY <1>2, BackedStays
<1>4. entry[j].path \in MaybePath
  BY DEF Typed, Entries
<1>5. Follows(writes', row', j) /\ PathWritten(j) => PathWritten(j)'
  BY <1>4 DEF PathWritten, Follows
<1> QED
  BY <1>2, <1>3, <1>5

\* A persist takes its arguments from the entry as it is now.
LEMMA Persisted ==
  ASSUME Typed, NEW i \in Id, NEW by \in Callers, Persist(by, i), row' = row,
         entry'[i] \in Entries, entry'[i].link \in Link
  PROVE  /\ writes' \in Seq(Calls)
         /\ \A k \in 1..Len(writes') : writes'[k].left # {} => writes'[k].by = "clear"
         /\ \A j \in Id \ {i} : DbStep(j)
         /\ by # "delete" => Quieter(i)
         /\ /\ Kept(i) /\ ~Gone(i) /\ entry'[i].link = entry[i].link
            /\ entry[i].removed => entry'[i].removed
            /\ i \in listed' => i \in listed
            => Kept(i)'
         /\ by = "create" /\ Pend(writes, i) = {} => Backed(i)' /\ PathWritten(i)'
<1> DEFINE r == Row(entry'[i])
           c == Call(by, i, r)
<1>1. r \in Rows /\ r # Nothing /\ r.link = entry'[i].link /\ r.path = entry'[i].path
  BY RowOf
<1>2. writes' = Append(writes, c)
  BY DEF Persist
<1> HIDE DEF r
<1>3. c \in Calls /\ c.by = by /\ c.id = i /\ c.row = r /\ c.left = {}
  BY <1>1 DEF Call, Calls
<1> HIDE DEF c
<1>4. /\ writes' \in Seq(Calls)
      /\ \A k \in 1..Len(writes') : writes'[k].left # {} => writes'[k].by = "clear"
      /\ \A j \in Id \ {i} : DbStep(j)
      /\ Pend(writes', i) = Pend(writes, i) \cup {c}
      /\ \A p : Ends(writes', row', i, p) <=> c.row.path = p
      /\ Left(writes', i) => Left(writes, i)
  BY <1>2, <1>3, DbAppends
<1>5. by # "delete" => Quieter(i)
  BY <1>3, <1>4 DEF Quieter, Called
<1>6. PathWritten(i)'
  BY <1>1, <1>3, <1>4 DEF PathWritten
<1>7. Restores(c.row, entry'[i].link)
  BY <1>1, <1>3 DEF Restores
<1>8. ASSUME Kept(i), ~Gone(i), entry'[i].link = entry[i].link, entry[i].removed => entry'[i].removed,
             i \in listed' => i \in listed
      PROVE  Kept(i)'
  <2>1. SUFFICES ASSUME (i \in listed)', ~entry'[i].removed PROVE Backed(i)'
    BY <1>6 DEF Kept
  <2>2. Backed(i)
    BY <1>8, <2>1 DEF Kept
  <2>3. \A d \in Pend(writes, i) : Restores(d.row, entry'[i].link)
    BY <1>8, <2>2 DEF Backed, Restores
  <2>4. Restores(row[i], entry[i].link) => Restores(row'[i], entry'[i].link)
    BY <1>8 DEF Restores
  <2> QED
    BY <1>4, <1>7, <2>2, <2>3, <2>4 DEF Backed
<1>9. by = "create" /\ Pend(writes, i) = {} => Backed(i)'
  BY <1>3, <1>4, <1>7 DEF Backed
<1> QED
  BY <1>4, <1>5, <1>6, <1>8, <1>9

LEMMA StatusSet ==
  ASSUME Typed, NEW i \in Id, entry[i].link \in Link, NEW s \in Status, NEW by \in Callers \ {"delete"},
         SetStatus(i, s, by), row' = row
  PROVE  /\ entry' \in [Id -> Entries] /\ entry' = [entry EXCEPT ![i] = entry'[i]]
         /\ entry'[i].status = s /\ entry'[i].link = entry[i].link
         /\ entry'[i].path = entry[i].path /\ (entry'[i].removed <=> entry[i].removed)
         /\ writes' \in Seq(Calls)
         /\ \A k \in 1..Len(writes') : writes'[k].left # {} => writes'[k].by = "clear"
         /\ \A j \in Id \ {i} : DbStep(j)
         /\ Quieter(i)
         /\ Kept(i) /\ ~Gone(i) /\ (i \in listed' => i \in listed) => Kept(i)'
<1>1. /\ entry' \in [Id -> Entries] /\ entry' = [entry EXCEPT ![i] = entry'[i]]
      /\ entry'[i].status = s /\ entry'[i].link = entry[i].link
      /\ entry'[i].path = entry[i].path /\ (entry'[i].removed <=> entry[i].removed)
  BY StatusWritten DEF SetStatus
<1>2. entry'[i] \in Entries /\ Persist(by, i)
  BY <1>1 DEF SetStatus
<1> QED
  BY <1>1, <1>2, Persisted

-----------------------------------------------------------------------------
(* What a step that touches one transfer has to keep.                       *)

Untouched(j) ==
    /\ entry'[j] = entry[j] /\ task'[j] = task[j] /\ dest'[j] = dest[j] /\ event'[j] = event[j]
    /\ launching'[j] = launching[j] /\ launchPath'[j] = launchPath[j]
    /\ (j \in listed' <=> j \in listed)

SameScope == crashes' = crashes /\ serial' = serial /\ sameName' = sameName

LEMMA UntouchedKept ==
  ASSUME Typed, NEW j \in Id, Local(j), Untouched(j), DbStep(j)
  PROVE  Local(j)'
<1>1. HasLink(j)' /\ Quiet(j)' /\ NotDone(j)'
  BY DEF Local, HasLink, Quiet, LaunchQuiet, UnstartedQuiet, EventOfTask, NoEvent, NotDone, AtWork, Live,
     Untouched
<1>2. Kept(j)'
  <2>1. (Gone(j) => Gone(j)') /\ (Ending(j) => Ending(j)')
    BY DEF Gone, Ending, Untouched
  <2> QED
    BY <2>1, KeptByStep DEF Local, Untouched, DbStep
<1>3. HasDest(j)'
  BY DEF Local, HasDest, AtFile, InSlot, Untouched
<1> QED
  BY <1>1, <1>2, <1>3 DEF Local

LEMMA UntouchedOrderly ==
  ASSUME NEW j \in Id, OrderlyOne(j), Untouched(j), DbStep(j)
  PROVE  OrderlyOne(j)'
<1>1. Quieter(j)
  BY MovesQuieter DEF DbStep
<1> QED
  BY <1>1 DEF OrderlyOne, AtWork, Pending, Untouched, Live, Quieter

LEMMA UntouchedPaths ==
  ASSUME NEW j \in Id, PathsOf(j), Untouched(j)
  PROVE  PathsOf(j)'
BY DEF PathsOf, OfLink, AtFile, InSlot, Untouched, Live

LEMMA OneStep ==
  ASSUME Inv, NEW i \in Id, SameScope, restarted' \/ restarted' = restarted,
         \A j \in Id \ {i} : Untouched(j) /\ DbStep(j),
         Typed', Local(i)', FirstLaunch',
         OneEntryPerLink' \/ (entry'[i].link = entry[i].link /\ (i \in listed' => i \in listed)),
         Plain => PathsOf(i)', Orderly => OrderlyOne(i)'
  PROVE  Inv'
<1>1. \A j \in Id : Local(j)'
  BY UntouchedKept DEF Inv
<1>2. OneEntryPerLink'
  <2>0. CASE OneEntryPerLink'
    BY <2>0
  <2>1. CASE entry'[i].link = entry[i].link /\ (i \in listed' => i \in listed)
   <3>1. \A j \in listed' : j \in listed /\ entry'[j].link = entry[j].link
     BY <2>1 DEF Typed, Untouched
   <3> QED
     BY <3>1 DEF Inv, OneEntryPerLink, LinkListedOnce, SameScope
  <2> QED
    BY <2>0, <2>1
<1>3. OrderlyPart'
  <2>1. SUFFICES ASSUME Orderly' PROVE \A j \in Id : OrderlyOne(j)'
    BY DEF OrderlyPart
  <2>2. Orderly
    BY <2>1 DEF Orderly, SameScope
  <2> QED
    BY <2>2, UntouchedOrderly DEF Inv, OrderlyPart
<1>4. PathsNamed'
  BY UntouchedPaths DEF Inv, PathsNamed, Plain, SameScope
<1> QED
  BY <1>1, <1>2, <1>3, <1>4 DEF Inv

\* No new destination: what FirstLaunch says carries over.
LEMMA FirstKept ==
  ASSUME FirstLaunch, restarted' \/ restarted' = restarted, NEW i \in Id,
         \A j \in Id \ {i} : Untouched(j),
         ~restarted' => NoPathYet(i)', claimed' = claimed,
         Holds(i)' => Holds(i) /\ dest'[i] = dest[i]
  PROVE  FirstLaunch'
<1>1. SUFFICES ASSUME ~restarted', ~restarted PROVE FirstLaunch'
  BY DEF FirstLaunch
<1>2. \A j \in Id : NoPathYet(j)'
  BY <1>1 DEF FirstLaunch, NoPathYet, Untouched
<1>3. \A j \in Id : Holds(j)' => Holds(j) /\ dest'[j] = dest[j]
  BY DEF Holds, AtFile, InSlot, Untouched
<1>4. \A j \in Id : Holds(j)' => dest'[j] \in claimed'
  BY <1>1, <1>3 DEF FirstLaunch
<1>5. \A j, k \in Id : Holds(j)' /\ Holds(k)' /\ dest'[j] = dest'[k] => j = k
  BY <1>1, <1>3 DEF FirstLaunch
<1> QED
  BY <1>2, <1>4, <1>5 DEF FirstLaunch

-----------------------------------------------------------------------------
(* Launching and the task, action by action.                                *)

LEMMA AnnounceKeeps ==
  ASSUME Inv, NEW i \in Id, Announce(i)
  PROVE  Inv'
<1>0. Typed
  BY DEF Inv
<1>1. /\ SameScope /\ restarted' = restarted /\ Returns("launch", i)
      /\ launching[i] = "restarting" /\ launching'[i] \in {"announcing", "none"}
      /\ launching' = [launching EXCEPT ![i] = launching'[i]]
      /\ listed' = listed /\ entry' = entry /\ task' = task /\ dest' = dest /\ event' = event
      /\ resuming' = resuming /\ cancelling' = cancelling /\ claimed' = claimed
      /\ launchPath' = launchPath /\ asked' = asked
      /\ i \notin listed => launching'[i] = "none"
  BY <1>0 DEF Typed, SameScope, Announce, taskVars, fileVars, launchVars, dbVars, scopeVars, fixedVars
<1>2. /\ row' \in [Id -> Rows \cup {Nothing}] /\ writes' \in Seq(Calls)
      /\ \A k \in 1..Len(writes') : writes'[k].left # {} => writes'[k].by = "clear"
      /\ \A j \in Id : DbStep(j)
  BY <1>0, <1>1, DbReturns
<1>3. Typed'
  <2>1. launching' \in [Id -> {"none", "creating", "restarting", "announcing"}]
    BY <1>0, <1>1 DEF Typed
  <2> QED
    BY <1>0, <1>1, <1>2, <2>1 DEF Typed, SameScope
<1>4. \A j \in Id \ {i} : Untouched(j) /\ DbStep(j)
  BY <1>0, <1>1, <1>2 DEF Typed, Untouched
<1>5. Local(i)'
  <2>1. HasLink(i)' /\ Quiet(i)' /\ NotDone(i)' /\ HasDest(i)'
    BY <1>0, <1>1 DEF Inv, Local, HasLink, Quiet, LaunchQuiet, UnstartedQuiet, EventOfTask, NoEvent,
       NotDone, AtWork, Live, HasDest, AtFile, InSlot
  <2>2. ~Gone(i) /\ ~Ending(i)
    BY <1>1 DEF Gone, Ending
  <2>3. Kept(i)'
    BY <1>0, <1>1, <1>2, <2>2, KeptByStep DEF Inv, Local, DbStep
  <2> QED
    BY <2>1, <2>3 DEF Local
<1>6. FirstLaunch'
  BY <1>1, <1>4, FirstKept DEF Inv, FirstLaunch, NoPathYet, Holds, AtFile, InSlot
<1>7. Orderly => OrderlyOne(i)'
  <2>1. Quieter(i)
    BY <1>2, MovesQuieter DEF DbStep
  <2> QED
    BY <1>1, <2>1 DEF Inv, OrderlyPart, OrderlyOne, AtWork, Pending, Live, Quieter
<1>8. Plain => PathsOf(i)'
  BY <1>1 DEF Inv, PathsNamed, PathsOf, OfLink, AtFile, InSlot, Live
<1> QED
  BY <1>1, <1>3, <1>4, <1>5, <1>6, <1>7, <1>8, OneStep

LEMMA CreateTaskKeeps ==
  ASSUME Inv, NEW i \in Id, CreateTask(i)
  PROVE  Inv'
<1>0. Typed
  BY DEF Inv
<1>1. /\ SameScope /\ restarted' = restarted
      /\ launching[i] # "none" /\ launching' = [launching EXCEPT ![i] = "none"]
      /\ task' = [task EXCEPT ![i] = "unstarted"] /\ dest' = [dest EXCEPT ![i] = launchPath[i]]
      /\ launchPath' = [launchPath EXCEPT ![i] = Nothing]
      /\ resuming' = [resuming EXCEPT ![i] = launchPath[i] # Nothing]
      /\ cancelling' = [cancelling EXCEPT ![i] = FALSE]
      /\ listed' = listed /\ entry' = entry /\ event' = event /\ claimed' = claimed /\ asked' = asked
  BY <1>0 DEF Typed, SameScope, CreateTask, fileVars, scopeVars, fixedVars
<1>2. /\ row' \in [Id -> Rows \cup {Nothing}] /\ writes' \in Seq(Calls)
      /\ \A k \in 1..Len(writes') : writes'[k].left # {} => writes'[k].by = "clear"
      /\ \A j \in Id : DbStep(j)
  <2>1. CASE Returns("create", i)
    BY <1>0, <2>1, DbReturns
  <2>2. CASE UNCHANGED dbVars
    <3>1. row' = row /\ writes' = writes
      BY <2>2 DEF dbVars
    <3> QED
      BY <1>0, <2>2, <3>1, DbSame DEF Typed
  <2> QED
    BY <2>1, <2>2 DEF CreateTask
<1>3. Typed'
  <2>1. launchPath' \in [Id -> MaybePath] /\ dest' \in [Id -> MaybePath] /\ resuming' \in [Id -> BOOLEAN]
    BY <1>0, <1>1 DEF Typed, MaybePath
  <2>2. task' \in [Id -> Places] /\ cancelling' \in [Id -> BOOLEAN]
    BY <1>0, <1>1 DEF Typed, Places
  <2>3. launching' \in [Id -> {"none", "creating", "restarting", "announcing"}]
    BY <1>0, <1>1 DEF Typed
  <2> QED
    BY <1>0, <1>1, <1>2, <2>1, <2>2, <2>3 DEF Typed, SameScope
<1>4. \A j \in Id \ {i} : Untouched(j) /\ DbStep(j)
  BY <1>0, <1>1, <1>2 DEF Typed, Untouched
<1>5. Local(i)'
  <2>1. HasLink(i)' /\ Quiet(i)' /\ NotDone(i)' /\ HasDest(i)'
    BY <1>0, <1>1 DEF Typed, Inv, Local, HasLink, Quiet, LaunchQuiet, UnstartedQuiet, EventOfTask,
       NoEvent, NotDone, AtWork, Live, HasDest, AtFile, InSlot
  <2>2. ~Gone(i) /\ ~Ending(i)
    BY <1>1 DEF Gone, Ending
  <2>3. Kept(i)'
    BY <1>0, <1>1, <1>2, <2>2, KeptByStep DEF Inv, Local, DbStep
  <2> QED
    BY <2>1, <2>3 DEF Local
<1>6. FirstLaunch'
  BY <1>0, <1>1, <1>4, FirstKept DEF Typed, Inv, FirstLaunch, NoPathYet, Holds, AtFile, InSlot
<1>7. Orderly => OrderlyOne(i)'
  <2>1. Quieter(i)
    BY <1>2, MovesQuieter DEF DbStep
  <2> QED
    BY <1>0, <1>1, <2>1 DEF Typed, Inv, OrderlyPart, OrderlyOne, AtWork, Pending, Live, Quieter
<1>8. Plain => PathsOf(i)'
  BY <1>0, <1>1 DEF Typed, Inv, PathsNamed, PathsOf, OfLink, AtFile, InSlot, Live
<1> QED
  BY <1>1, <1>3, <1>4, <1>5, <1>6, <1>7, <1>8, OneStep

\* A step of a running task that touches neither database nor path: its status
\* may become another, but "done" only together with its end.
LEMMA TaskMoves ==
  ASSUME Inv, NEW i \in Id, Live(i), task[i] # "closing",
         NEW to \in Places \ {"none", "unstarted"}, task' = [task EXCEPT ![i] = to],
         AtFile(i)' => AtFile(i), to = "metadata" => task[i] = "unstarted",
         entry' \in [Id -> Entries], entry' = [entry EXCEPT ![i] = entry'[i]],
         entry'[i].link = entry[i].link, entry'[i].path = entry[i].path,
         entry'[i].removed <=> entry[i].removed,
         entry'[i].status = entry[i].status \/ to = "closing",
         event' = [event EXCEPT ![i] = event'[i]], event'[i] \in {"none", "set", "clear"},
         event[i] # "none" => event'[i] # "none", event'[i] # "none" \/ to = "killed",
         \A j \in Id : DbStep(j), row' \in [Id -> Rows \cup {Nothing}], writes' \in Seq(Calls),
         \A k \in 1..Len(writes') : writes'[k].left # {} => writes'[k].by = "clear",
         entry'[i].status \in TERMINAL_STATUS_KEYS \/ entry'[i].status = entry[i].status,
         UNCHANGED <<OtherTaskVars, claimed, listed, launchVars, asked, scopeVars>>
  PROVE  Inv'
<1>0. Typed
  BY DEF Inv
<1>1. /\ SameScope /\ restarted' = restarted /\ dest' = dest /\ resuming' = resuming /\ cancelling' = cancelling
      /\ claimed' = claimed /\ listed' = listed /\ launching' = launching /\ launchPath' = launchPath
      /\ asked' = asked /\ task'[i] = to
  BY <1>0 DEF Typed, OtherTaskVars, launchVars, scopeVars, fixedVars, SameScope
<1>2. Typed'
  BY <1>0, <1>1 DEF Typed, SameScope
<1>3. \A j \in Id \ {i} : Untouched(j) /\ DbStep(j)
  BY <1>0, <1>1 DEF Typed, Untouched
<1>4. launching[i] = "none" /\ entry[i].link \in Link
  BY DEF Inv, Local, Quiet, LaunchQuiet, HasLink
<1>5. Local(i)'
  <2>1. HasLink(i)' /\ Quiet(i)' /\ NotDone(i)'
    BY <1>1, <1>4 DEF Inv, Local, HasLink, Quiet, LaunchQuiet, UnstartedQuiet, EventOfTask, NoEvent,
       NotDone, AtWork, Live
  <2>2. HasDest(i)'
    BY <1>1 DEF Inv, Local, HasDest
  <2>3. ~Gone(i) /\ ~Ending(i)
    BY DEF Gone, Ending, Live
  <2>4. Kept(i)'
    BY <1>0, <1>1, <2>3, KeptByStep DEF Inv, Local, DbStep
  <2> QED
    BY <2>1, <2>2, <2>4 DEF Local
<1>6. FirstLaunch'
  <2>1. Holds(i)' => Holds(i) \/ (task[i] # "closing" /\ to = "closing" /\ ~AtFile(i) /\ dest[i] # Nothing)
    BY <1>1 DEF Holds
  <2>2. SUFFICES ASSUME ~restarted PROVE FirstLaunch'
    BY <1>1 DEF FirstLaunch
  <2>3. task[i] \in {"unstarted", "metadata"} => dest[i] = Nothing
    BY <2>2 DEF Inv, FirstLaunch, NoPathYet
  <2>4. task[i] \in Places /\ task[i] \notin {"none", "killed", "closing"}
    BY <1>0 DEF Typed, Live
  <2>5. AtFile(i) \/ task[i] \in {"unstarted", "metadata"}
    BY <2>4 DEF AtFile, InSlot, Places
  <2>6. Holds(i)' => Holds(i)
    BY <2>1, <2>3, <2>5
  <2>7. NoPathYet(i)'
    BY <1>1, <2>2, <2>3 DEF Inv, FirstLaunch, NoPathYet
  <2> QED
    BY <1>1, <1>3, <2>6, <2>7, FirstKept DEF Inv
<1>7. Orderly => OrderlyOne(i)'
  <2>1. Quieter(i)
    BY MovesQuieter DEF DbStep
  <2>2. SUFFICES ASSUME Orderly PROVE OrderlyOne(i)'
    OBVIOUS
  <2>3. OrderlyOne(i)
    BY <2>2 DEF Inv, OrderlyPart
  <2> QED
    BY <1>1, <1>4, <2>1, <2>3 DEF OrderlyOne, AtWork, Pending, Live, Quieter
<1>8. Plain => PathsOf(i)'
  <2>1. SUFFICES ASSUME Plain PROVE PathsOf(i)'
    OBVIOUS
  <2>2. PathsOf(i)
    BY <2>1 DEF Inv, PathsNamed
  <2> QED
    BY <1>1, <1>4, <2>2 DEF PathsOf, OfLink, Live
<1> QED
  BY <1>1, <1>2, <1>3, <1>5, <1>6, <1>7, <1>8, OneStep

LEMMA DbRests ==
  ASSUME Typed, UNCHANGED dbVars
  PROVE  /\ \A j \in Id : DbStep(j)
         /\ row' \in [Id -> Rows \cup {Nothing}] /\ writes' \in Seq(Calls)
         /\ \A k \in 1..Len(writes') : writes'[k].left # {} => writes'[k].by = "clear"
<1>1. row' = row /\ writes' = writes
  BY DEF dbVars
<1> QED
  BY <1>1, DbSame DEF Typed

LEMMA StartTaskKeeps ==
  ASSUME Inv, NEW i \in Id, StartTask(i)
  PROVE  Inv'
<1>0. Typed /\ task[i] = "unstarted" /\ Live(i)
  BY DEF Inv, StartTask, Step, Live
<1>1. UNCHANGED dbVars /\ UNCHANGED <<OtherTaskVars, claimed, listed, launchVars, asked, scopeVars>> /\ entry' = entry
  BY DEF StartTask, OtherVars, fileVars
<1>2. /\ entry' \in [Id -> Entries] /\ entry' = [entry EXCEPT ![i] = entry'[i]]
  BY <1>0, <1>1 DEF Typed
<1>3. \/ task' = [task EXCEPT ![i] = "metadata"] /\ event' = [event EXCEPT ![i] = "set"] /\ event'[i] = "set"
      \/ task' = [task EXCEPT ![i] = "killed"] /\ event' = event
  BY <1>0 DEF StartTask, Goto, Typed
<1>4. event' = [event EXCEPT ![i] = event'[i]] /\ event'[i] \in {"none", "set", "clear"}
  BY <1>0, <1>3 DEF Typed
<1>5. "metadata" \in Places \ {"none", "unstarted"} /\ "killed" \in Places \ {"none", "unstarted"}
  BY DEF Places
<1>6. task'[i] \in {"metadata", "killed"}
  BY <1>0, <1>3 DEF Typed
<1>7. ~AtFile(i)'
  BY <1>6 DEF AtFile, InSlot
<1>8. CASE task' = [task EXCEPT ![i] = "metadata"] /\ event'[i] = "set"
  BY <1>0, <1>1, <1>2, <1>4, <1>5, <1>7, <1>8, DbRests, TaskMoves
<1>9. CASE task' = [task EXCEPT ![i] = "killed"] /\ event' = event
  BY <1>0, <1>1, <1>2, <1>4, <1>5, <1>7, <1>9, DbRests, TaskMoves
<1> QED
  BY <1>3, <1>8, <1>9

\* The task reaches its finally block with a final status.
LEMMA EndsWith ==
  ASSUME Inv, NEW i \in Id, Live(i), task[i] \notin {"closing", "unstarted"},
         NEW s \in TERMINAL_STATUS_KEYS, entry' = [entry EXCEPT ![i].status = s],
         task' = [task EXCEPT ![i] = "closing"],
         \A j \in Id : DbStep(j), row' \in [Id -> Rows \cup {Nothing}], writes' \in Seq(Calls),
         \A k \in 1..Len(writes') : writes'[k].left # {} => writes'[k].by = "clear",
         UNCHANGED <<OtherTaskVars, event, claimed, listed, launchVars, asked, scopeVars>>
  PROVE  Inv'
<1>0. Typed
  BY DEF Inv
<1>1. s \in Status
  BY DEF Status
<1>2. /\ entry' \in [Id -> Entries] /\ entry' = [entry EXCEPT ![i] = entry'[i]]
      /\ entry'[i].status = s /\ entry'[i].link = entry[i].link
      /\ entry'[i].path = entry[i].path /\ (entry'[i].removed <=> entry[i].removed)
  BY <1>0, <1>1, StatusWritten
<1>3. "closing" \in Places \ {"none", "unstarted"} /\ task'[i] = "closing"
  BY <1>0 DEF Places, Typed
<1>4. ~AtFile(i)'
  BY <1>3 DEF AtFile, InSlot
<1>5. event' = [event EXCEPT ![i] = event'[i]] /\ event'[i] \in {"none", "set", "clear"} /\ event' = event
  BY <1>0 DEF Typed
<1>6. event'[i] # "none"
  BY <1>5 DEF Inv, Local, Quiet, EventOfTask
<1> QED
  BY <1>2, <1>3, <1>4, <1>5, <1>6, TaskMoves

LEMMA CompleteKeeps ==
  ASSUME Inv, NEW i \in Id, Complete(i)
  PROVE  Inv'
<1>1. PICK s \in {"done", "mac_mismatch"} : entry' = [entry EXCEPT ![i].status = s]
  BY DEF Complete
<1>2. /\ task[i] = "running" /\ Live(i) /\ task' = [task EXCEPT ![i] = "closing"] /\ UNCHANGED dbVars
      /\ UNCHANGED <<OtherTaskVars, event, claimed, listed, launchVars, asked, scopeVars>> /\ Typed
  BY DEF Complete, Step, Goto, OtherVars, Live, Inv
<1>3. s \in TERMINAL_STATUS_KEYS
  BY DEF TERMINAL_STATUS_KEYS
<1> QED
  BY <1>1, <1>2, <1>3, DbRests, EndsWith

LEMMA FailKeeps ==
  ASSUME Inv, NEW i \in Id, Fail(i)
  PROVE  Inv'
<1>1. /\ task[i] \in {"metadata", "starting", "running"} /\ Live(i) /\ task' = [task EXCEPT ![i] = "closing"]
      /\ entry' = [entry EXCEPT ![i].status = "error"] /\ UNCHANGED dbVars /\ Typed
      /\ UNCHANGED <<OtherTaskVars, event, claimed, listed, launchVars, asked, scopeVars>>
  BY DEF Fail, Goto, OtherVars, fileVars, Live, Inv
<1>2. "error" \in TERMINAL_STATUS_KEYS
  BY DEF TERMINAL_STATUS_KEYS
<1> QED
  BY <1>1, <1>2, DbRests, EndsWith

LEMMA UnwoundKeeps ==
  ASSUME Inv, NEW i \in Id, Unwound(i)
  PROVE  Inv'
<1>1. /\ task[i] = "unwinding" /\ Live(i) /\ task' = [task EXCEPT ![i] = "closing"]
      /\ entry' = [entry EXCEPT ![i].status = "cancelled"] /\ UNCHANGED dbVars /\ Typed
      /\ UNCHANGED <<OtherTaskVars, event, claimed, listed, launchVars, asked, scopeVars>>
  BY DEF Unwound, Step, Cancelled, Goto, OtherVars, Live, Inv
<1>2. "cancelled" \in TERMINAL_STATUS_KEYS
  BY DEF TERMINAL_STATUS_KEYS
<1> QED
  BY <1>1, <1>2, DbRests, EndsWith

LEMMA OpenFileKeeps ==
  ASSUME Inv, NEW i \in Id, OpenFile(i)
  PROVE  Inv'
<1>1. /\ task[i] = "starting" /\ Live(i) /\ task' = [task EXCEPT ![i] = "running"]
      /\ entry' = entry /\ event' = event /\ UNCHANGED dbVars /\ Typed
      /\ UNCHANGED <<OtherTaskVars, claimed, listed, launchVars, asked, scopeVars>>
  BY DEF OpenFile, Step, Goto, OtherVars, Live, Inv
<1>2. /\ entry' \in [Id -> Entries] /\ entry' = [entry EXCEPT ![i] = entry'[i]]
      /\ event' = [event EXCEPT ![i] = event'[i]] /\ event'[i] \in {"none", "set", "clear"}
  BY <1>1 DEF Typed
<1>3. "running" \in Places \ {"none", "unstarted"} /\ AtFile(i)
  BY <1>1 DEF Places, AtFile, InSlot
<1>4. event'[i] # "none"
  BY <1>1 DEF Inv, Local, Quiet, EventOfTask
<1> QED
  BY <1>1, <1>2, <1>3, <1>4, DbRests, TaskMoves

LEMMA CallReturnsKeeps ==
  ASSUME Inv, NEW i \in Id, CallReturns(i)
  PROVE  Inv'
<1>1. /\ task[i] \in Calling /\ Live(i) /\ AtFile(i) /\ Returns("task", i) /\ Typed
      /\ task[i] \notin {"closing", "unstarted"} /\ event' = event
      /\ UNCHANGED <<OtherTaskVars, claimed, listed, launchVars, asked, scopeVars>>
  BY DEF CallReturns, OtherVars, fileVars, Live, Inv, Calling, AtFile, InSlot
<1>2. /\ row' \in [Id -> Rows \cup {Nothing}] /\ writes' \in Seq(Calls)
      /\ \A k \in 1..Len(writes') : writes'[k].left # {} => writes'[k].by = "clear"
      /\ \A j \in Id : DbStep(j)
  BY <1>1, DbReturns
<1>3. CASE i \in listed
  <2>1. entry' = entry /\ task' = [task EXCEPT ![i] = AfterCall[task[i]]]
    BY <1>3 DEF CallReturns, Goto
  <2>2. AfterCall[task[i]] \in {"placed", "waiting", "starting"}
    BY <1>1 DEF AfterCall, Calling
  <2>3. AfterCall[task[i]] \in Places \ {"none", "unstarted"}
    BY <2>2 DEF Places
  <2>4. /\ entry' \in [Id -> Entries] /\ entry' = [entry EXCEPT ![i] = entry'[i]]
        /\ event' = [event EXCEPT ![i] = event'[i]] /\ event'[i] \in {"none", "set", "clear"}
    BY <1>1, <2>1 DEF Typed
  <2>5. event'[i] # "none"
    BY <1>1 DEF Inv, Local, Quiet, EventOfTask
  <2> HIDE DEF AfterCall
  <2> QED
    BY <1>1, <1>2, <2>1, <2>2, <2>3, <2>4, <2>5, TaskMoves
<1>4. CASE i \notin listed
  <2>1. entry' = [entry EXCEPT ![i].status = "error"] /\ task' = [task EXCEPT ![i] = "closing"]
    BY <1>4 DEF CallReturns, Goto
  <2>2. "error" \in TERMINAL_STATUS_KEYS
    BY DEF TERMINAL_STATUS_KEYS
  <2> QED
    BY <1>1, <1>2, <2>1, <2>2, EndsWith
<1> QED
  BY <1>3, <1>4

\* A cancel ends the task, too, and may take a call that waits with it.
LEMMA DeliverCancelKeeps ==
  ASSUME Inv, NEW i \in Id, DeliverCancel(i)
  PROVE  Inv'
<1>0. Typed
  BY DEF Inv
<1>1. /\ SameScope /\ restarted' = restarted /\ Live(i) /\ task' = [task EXCEPT ![i] = task'[i]]
      /\ \/ task[i] \in {"unstarted", "closing"} /\ task'[i] = "killed" /\ entry' = entry
         \/ task[i] = "running" /\ task'[i] = "unwinding" /\ entry' = entry
         \/ /\ task[i] \in Interrupted /\ task'[i] = "closing"
            /\ entry' = [entry EXCEPT ![i].status = "cancelled"]
      /\ dest' = dest /\ event' = event /\ listed' = listed /\ claimed' = claimed
      /\ launching' = launching /\ launchPath' = launchPath /\ asked' = asked /\ resuming' = resuming
      /\ cancelling' = [cancelling EXCEPT ![i] = FALSE]
  BY <1>0 DEF Typed, SameScope, DeliverCancel, Cancelled, Goto, OtherVars, launchVars, scopeVars, fixedVars
<1>2. /\ entry' \in [Id -> Entries] /\ entry' = [entry EXCEPT ![i] = entry'[i]]
      /\ entry'[i].link = entry[i].link /\ entry'[i].path = entry[i].path
      /\ (entry'[i].removed <=> entry[i].removed)
      /\ \/ entry'[i].status = "cancelled" /\ task'[i] = "closing"
         \/ entry'[i].status = entry[i].status
  <2>1. CASE entry' = entry
    BY <1>0, <2>1 DEF Typed
  <2>2. CASE task'[i] = "closing" /\ entry' = [entry EXCEPT ![i].status = "cancelled"]
    BY <1>0, <2>2, StatusWritten DEF Status, TERMINAL_STATUS_KEYS
  <2> QED
    BY <1>1, <2>1, <2>2
<1>3. /\ row' \in [Id -> Rows \cup {Nothing}] /\ writes' \in Seq(Calls)
      /\ \A k \in 1..Len(writes') : writes'[k].left # {} => writes'[k].by = "clear"
      /\ \A j \in Id : Moves(writes', row', j) /\ (Left(writes', j) => Left(writes, j))
      /\ \A j \in Id \ {i} : DbStep(j)
      /\ task[i] \notin Calling => DbStep(i)
  <2>1. CASE task[i] \in Calling
    BY <1>0, <2>1, DbGivesUp DEF DeliverCancel
  <2>2. CASE task[i] \notin Calling
    <3>1. UNCHANGED dbVars
      BY <2>2 DEF DeliverCancel
    <3> QED
      BY <1>0, <3>1, DbRests DEF DbStep
  <2> QED
    BY <2>1, <2>2
<1>4. Typed'
  <2>1. task' \in [Id -> Places] /\ cancelling' \in [Id -> BOOLEAN]
    BY <1>0, <1>1 DEF Typed, Places
  <2> QED
    BY <1>0, <1>1, <1>2, <1>3, <2>1 DEF Typed, SameScope
<1>5. \A j \in Id \ {i} : Untouched(j) /\ DbStep(j)
  BY <1>0, <1>1, <1>2, <1>3 DEF Typed, Untouched
<1>6. task[i] \in Interrupted => task[i] \in Places \ {"none", "killed", "unstarted", "closing"}
  BY DEF Interrupted, Calling, Places
<1>7. Local(i)'
  <2>1. HasLink(i)' /\ Quiet(i)' /\ NotDone(i)'
    BY <1>1, <1>2, <1>6 DEF Inv, Local, HasLink, Quiet, LaunchQuiet, UnstartedQuiet, EventOfTask, NoEvent,
       NotDone, AtWork, Live
  <2>2. HasDest(i)'
    BY <1>1 DEF Inv, Local, HasDest, AtFile, InSlot
  <2>3. launching[i] = "none" /\ ~Gone(i)
    BY <1>1 DEF Inv, Local, Quiet, LaunchQuiet, Gone, Live
  <2>4. CASE task'[i] \in {"closing", "killed"}
    <3>1. Ending(i)'
      BY <1>1, <2>3, <2>4 DEF Ending
    <3> QED
      BY <1>0, <1>1, <1>2, <1>3, <2>1, <2>2, <2>3, <3>1, KeptByStep DEF Inv, Local
  <2>5. CASE task[i] = "running"
    <3>1. ~Ending(i) /\ task[i] \notin Calling
      BY <2>5 DEF Ending, Calling
    <3> QED
      BY <1>0, <1>1, <1>2, <1>3, <2>1, <2>2, <2>3, <3>1, KeptByStep DEF Inv, Local, DbStep
  <2> QED
    BY <1>1, <2>4, <2>5
<1>8. FirstLaunch'
  <2>1. SUFFICES ASSUME ~restarted PROVE FirstLaunch'
    BY <1>1 DEF FirstLaunch
  <2>2. task[i] \in {"unstarted", "metadata"} => dest[i] = Nothing
    BY <2>1 DEF Inv, FirstLaunch, NoPathYet
  <2>3. task[i] \in Interrupted => AtFile(i) \/ task[i] = "metadata"
    BY DEF Interrupted, Calling, AtFile, InSlot
  <2>4. Holds(i)' => Holds(i)
    BY <1>1, <2>2, <2>3 DEF Holds, AtFile, InSlot
  <2>5. NoPathYet(i)'
    BY <1>1, <2>1 DEF Inv, FirstLaunch, NoPathYet
  <2> QED
    BY <1>1, <1>5, <2>4, <2>5, FirstKept DEF Inv
<1>9. Orderly => OrderlyOne(i)'
  <2>1. Quieter(i)
    BY <1>3, MovesQuieter
  <2> QED
    BY <1>1, <1>2, <2>1 DEF Inv, OrderlyPart, OrderlyOne, AtWork, Pending, Live, TERMINAL_STATUS_KEYS,
       Local, Quiet, LaunchQuiet, Quieter
<1>10. Plain => PathsOf(i)'
  BY <1>1, <1>2 DEF Inv, Typed, PathsNamed, PathsOf, OfLink, AtFile, InSlot, Live
<1> QED
  BY <1>1, <1>2, <1>4, <1>5, <1>7, <1>8, <1>9, <1>10, OneStep

\* A task that is at its file says how it goes on.
LEMMA TaskTells ==
  ASSUME Inv, NEW i \in Id, AtFile(i), NEW s \in {"queued", "downloading"}, SetStatus(i, s, "task"), row' = row,
         NEW to \in {"queueing", "slotting"}, task' = [task EXCEPT ![i] = to],
         UNCHANGED <<OtherTaskVars, event, claimed, listed, launchVars, asked, scopeVars>>
  PROVE  Inv'
<1>0. Typed /\ Live(i) /\ task[i] # "unstarted" /\ task[i] # "closing"
  BY DEF Inv, AtFile, InSlot, Live
<1>1. /\ SameScope /\ restarted' = restarted /\ dest' = dest /\ resuming' = resuming /\ cancelling' = cancelling
      /\ event' = event /\ claimed' = claimed /\ listed' = listed /\ launching' = launching
      /\ launchPath' = launchPath /\ asked' = asked /\ task'[i] = to
  BY <1>0 DEF Typed, OtherTaskVars, launchVars, scopeVars, fixedVars, SameScope
<1>2. launching[i] = "none" /\ entry[i].link \in Link
  BY <1>0 DEF Inv, Local, Quiet, LaunchQuiet, HasLink
<1>3. s \in Status /\ "task" \in Callers \ {"delete"}
  BY DEF Status, RESUMABLE_ON_STARTUP_KEYS, Callers
<1>4. /\ entry' \in [Id -> Entries] /\ entry' = [entry EXCEPT ![i] = entry'[i]]
      /\ entry'[i].status = s /\ entry'[i].link = entry[i].link
      /\ entry'[i].path = entry[i].path /\ (entry'[i].removed <=> entry[i].removed)
      /\ writes' \in Seq(Calls)
      /\ \A k \in 1..Len(writes') : writes'[k].left # {} => writes'[k].by = "clear"
      /\ \A j \in Id \ {i} : DbStep(j)
      /\ Quieter(i)
      /\ Kept(i) /\ ~Gone(i) /\ (i \in listed' => i \in listed) => Kept(i)'
  BY <1>0, <1>2, <1>3, StatusSet
<1>5. Typed'
  <2>1. task' \in [Id -> Places]
    BY <1>0 DEF Typed, Places
  <2> QED
    BY <1>0, <1>1, <1>4, <2>1 DEF Typed, SameScope
<1>6. \A j \in Id \ {i} : Untouched(j) /\ DbStep(j)
  BY <1>0, <1>1, <1>4 DEF Typed, Untouched
<1>7. Local(i)'
  <2>1. HasLink(i)' /\ Quiet(i)' /\ NotDone(i)'
    BY <1>0, <1>1, <1>2, <1>4 DEF Inv, Local, HasLink, Quiet, LaunchQuiet, UnstartedQuiet, EventOfTask,
       NoEvent, NotDone, AtWork, Live
  <2>2. HasDest(i)'
    BY <1>1 DEF Inv, Local, HasDest
  <2>3. ~Gone(i)
    BY <1>0 DEF Gone, Live
  <2> QED
    BY <1>1, <1>4, <2>1, <2>2, <2>3 DEF Inv, Local
<1>8. FirstLaunch'
  <2>1. Holds(i)' => Holds(i)
    BY <1>1 DEF Holds
  <2>2. ~restarted' => NoPathYet(i)'
    BY <1>1 DEF Inv, FirstLaunch, NoPathYet
  <2> QED
    BY <1>1, <1>6, <2>1, <2>2, FirstKept DEF Inv
<1>9. Orderly => OrderlyOne(i)'
  <2>1. SUFFICES ASSUME Orderly PROVE OrderlyOne(i)'
    OBVIOUS
  <2>2. OrderlyOne(i) /\ AtWork(i)
    BY <1>0, <2>1 DEF Inv, OrderlyPart, AtWork
  <2>3. s \notin TERMINAL_STATUS_KEYS
    BY DEF TERMINAL_STATUS_KEYS
  <2>4. Pending(i)' /\ ~Left(writes, i) /\ ~Called("delete", i)
    BY <1>1, <1>4, <2>2, <2>3 DEF OrderlyOne, Pending
  <2> QED
    BY <1>4, <2>4 DEF OrderlyOne, Quieter
<1>10. Plain => PathsOf(i)'
  <2>1. SUFFICES ASSUME Plain PROVE PathsOf(i)'
    OBVIOUS
  <2>2. PathsOf(i)
    BY <2>1 DEF Inv, PathsNamed
  <2> QED
    BY <1>0, <1>1, <1>4, <2>2 DEF PathsOf, OfLink
<1> QED
  BY <1>1, <1>4, <1>5, <1>6, <1>7, <1>8, <1>9, <1>10, OneStep

LEMMA QueueKeeps ==
  ASSUME Inv, NEW i \in Id, Queue(i)
  PROVE  Inv'
<1>1. /\ task[i] = "placed" /\ AtFile(i) /\ Live(i) /\ event' = event /\ row' = row /\ Typed
      /\ UNCHANGED <<OtherTaskVars, claimed, listed, launchVars, asked, scopeVars>>
  BY DEF Queue, Step, OtherVars, fileVars, AtFile, InSlot, Live, Inv
<1>2. CASE Locked
  BY <1>1, <1>2, TaskTells DEF Queue, Goto
<1>3. CASE ~Locked
  <2>1. task' = [task EXCEPT ![i] = "waiting"] /\ entry' = entry /\ UNCHANGED dbVars
    BY <1>1, <1>3 DEF Queue, Goto, dbVars
  <2>2. /\ entry' \in [Id -> Entries] /\ entry' = [entry EXCEPT ![i] = entry'[i]]
        /\ event' = [event EXCEPT ![i] = event'[i]] /\ event'[i] \in {"none", "set", "clear"}
    BY <1>1, <2>1 DEF Typed
  <2>3. "waiting" \in Places \ {"none", "unstarted"}
    BY DEF Places
  <2>4. event'[i] # "none"
    BY <1>1 DEF Inv, Local, Quiet, EventOfTask
  <2> QED
    BY <1>1, <2>1, <2>2, <2>3, <2>4, DbRests, TaskMoves
<1> QED
  BY <1>2, <1>3

LEMMA AcquireKeeps ==
  ASSUME Inv, NEW i \in Id, EnterSlot(i)
  PROVE  Inv'
<1>1. /\ AtFile(i) /\ SetStatus(i, "downloading", "task") /\ row' = row
      /\ task' = [task EXCEPT ![i] = "slotting"]
      /\ UNCHANGED <<OtherTaskVars, event, claimed, listed, launchVars, asked, scopeVars>>
  BY DEF EnterSlot, Step, Goto, OtherVars, fileVars, AtFile, InSlot
<1> QED
  BY <1>1, TaskTells

\* The destination is new if there was none.
LEMMA ResolveKeeps ==
  ASSUME Inv, NEW i \in Id, Resolve(i)
  PROVE  Inv'
<1>0. Typed
  BY DEF Inv
<1>1. PICK d \in IF dest[i] = Nothing THEN ClaimUnique(entry[i].link) ELSE {dest[i]} :
         /\ dest' = [dest EXCEPT ![i] = d]
         /\ claimed' = claimed \cup {d}
         /\ entry' = [entry EXCEPT ![i].path = d]
  BY DEF Resolve
<1>2. /\ SameScope /\ restarted' = restarted /\ task[i] = "metadata" /\ task'[i] = "placing"
      /\ task' = [task EXCEPT ![i] = "placing"] /\ event' = event /\ listed' = listed
      /\ launching' = launching /\ launchPath' = launchPath /\ asked' = asked
      /\ resuming' = resuming /\ cancelling' = cancelling
      /\ Persist("task", i) /\ row' = row
  BY <1>0 DEF Typed, Resolve, Step, Goto, OtherVars, launchVars, scopeVars, fixedVars, SameScope
<1>3. entry[i].link \in Link /\ launching[i] = "none" /\ Live(i)
  BY <1>2 DEF Inv, Local, HasLink, Quiet, LaunchQuiet, Live
<1>4. /\ d \in Path /\ d # Nothing
      /\ \/ dest[i] = Nothing /\ d \notin claimed /\ d[1] = FileName(entry[i].link)
         \/ dest[i] = d
  <2>1. CASE dest[i] = Nothing
    BY <1>1, <1>3, <2>1, ClaimedIsFree
  <2>2. CASE dest[i] # Nothing
    BY <1>0, <1>1, <2>2 DEF Typed, MaybePath
  <2> QED
    BY <2>1, <2>2
<1>5. /\ entry' \in [Id -> Entries] /\ entry' = [entry EXCEPT ![i] = entry'[i]]
      /\ entry'[i].path = d /\ entry'[i].link = entry[i].link
      /\ entry'[i].status = entry[i].status /\ (entry'[i].removed <=> entry[i].removed)
  BY <1>0, <1>1, <1>4, PathTyped DEF MaybePath
<1>6. /\ writes' \in Seq(Calls)
      /\ \A k \in 1..Len(writes') : writes'[k].left # {} => writes'[k].by = "clear"
      /\ \A j \in Id \ {i} : DbStep(j)
      /\ Quieter(i)
      /\ Kept(i) /\ ~Gone(i) => Kept(i)'
  <2>1. entry'[i] \in Entries /\ entry'[i].link \in Link /\ "task" \in Callers
    BY <1>3, <1>5 DEF Callers
  <2> QED
    BY <1>0, <1>2, <1>5, <2>1, Persisted
<1>7. dest' = [dest EXCEPT ![i] = d] /\ dest'[i] = d
  BY <1>0, <1>1 DEF Typed
<1>8. Typed'
  <2>1. dest' \in [Id -> MaybePath] /\ task' \in [Id -> Places]
    BY <1>0, <1>2, <1>4, <1>7 DEF Typed, MaybePath, Places
  <2> QED
    BY <1>0, <1>2, <1>5, <1>6, <2>1 DEF Typed, SameScope
<1>9. \A j \in Id \ {i} : Untouched(j) /\ DbStep(j)
  BY <1>0, <1>2, <1>5, <1>6, <1>7 DEF Typed, Untouched
<1>10. Local(i)'
  <2>1. HasLink(i)' /\ Quiet(i)' /\ NotDone(i)'
    BY <1>2, <1>3, <1>5 DEF Inv, Local, HasLink, Quiet, LaunchQuiet, UnstartedQuiet, EventOfTask, NoEvent,
       NotDone, AtWork, Live
  <2>2. ~Gone(i)
    BY <1>2 DEF Gone
  <2>3. HasDest(i)'
    BY <1>4, <1>7 DEF HasDest
  <2> QED
    BY <1>6, <2>1, <2>2, <2>3 DEF Inv, Local
<1>11. FirstLaunch'
  <2>1. SUFFICES ASSUME ~restarted', ~restarted PROVE FirstLaunch'
    BY <1>2 DEF FirstLaunch
  <2>2. dest[i] = Nothing /\ d \notin claimed
    BY <1>2, <1>4, <2>1 DEF Inv, FirstLaunch, NoPathYet
  <2>3. \A j \in Id : NoPathYet(j)'
    BY <1>2, <1>9, <2>1 DEF Inv, FirstLaunch, NoPathYet, Untouched
  <2>4. \A j \in Id \ {i} : Holds(j)' => Holds(j) /\ dest'[j] = dest[j] /\ dest[j] \in claimed
    BY <1>9, <2>1 DEF Inv, FirstLaunch, Holds, AtFile, InSlot, Untouched
  <2>5. \A j \in Id : Holds(j)' => dest'[j] \in claimed'
    BY <1>1, <1>7, <2>4
  <2>6. \A j \in Id \ {i} : Holds(j)' => dest'[j] # dest'[i]
    BY <1>7, <2>2, <2>4
  <2>7. \A j, k \in Id : Holds(j)' /\ Holds(k)' /\ dest'[j] = dest'[k] => j = k
    BY <2>1, <2>4, <2>6 DEF Inv, FirstLaunch
  <2> QED
    BY <2>3, <2>5, <2>7 DEF FirstLaunch
<1>12. Orderly => OrderlyOne(i)'
  BY <1>2, <1>5, <1>6 DEF Inv, OrderlyPart, OrderlyOne, AtWork, Pending, Live, Quieter
<1>13. Plain => PathsOf(i)'
  <2>1. SUFFICES ASSUME Plain PROVE PathsOf(i)'
    OBVIOUS
  <2>2. PathsOf(i)
    BY <2>1 DEF Inv, PathsNamed
  <2>3. d[1] = entry[i].link
    <3>1. CASE dest[i] = Nothing
      BY <1>4, <2>1, <3>1 DEF Plain, FileName
    <3>2. CASE dest[i] = d
      BY <1>3, <1>4, <2>2, <3>2 DEF PathsOf, OfLink
    <3> QED
      BY <1>4, <3>1, <3>2
  <2> QED
    BY <1>2, <1>3, <1>5, <1>7, <2>2, <2>3 DEF PathsOf, OfLink, AtFile, InSlot
<1> QED
  BY <1>2, <1>5, <1>8, <1>9, <1>10, <1>11, <1>12, <1>13, OneStep

\* The task gives its destination back and nobody else's, and makes its last
\* call.
LEMMA CloseKeeps ==
  ASSUME Inv, NEW i \in Id, Close(i)
  PROVE  Inv'
<1>0. Typed
  BY DEF Inv
<1>1. /\ SameScope /\ restarted' = restarted
      /\ task[i] = "closing" /\ task'[i] = "none" /\ task' = [task EXCEPT ![i] = "none"]
      /\ dest' = [dest EXCEPT ![i] = Nothing] /\ event' = [event EXCEPT ![i] = "none"]
      /\ listed' = listed /\ entry' = entry /\ claimed' = claimed \ {dest[i]}
      /\ launching' = launching /\ launchPath' = launchPath /\ asked' = [asked EXCEPT ![i] = "none"]
      /\ resuming' = [resuming EXCEPT ![i] = FALSE] /\ cancelling' = cancelling /\ row' = row
  BY <1>0 DEF Typed, Close, Step, Goto, launchVars, scopeVars, fixedVars, SameScope
<1>2. entry[i].link \in Link /\ entry[i] \in Entries /\ launching[i] = "none"
  BY <1>0, <1>1 DEF Typed, Inv, Local, HasLink, Live, Quiet, LaunchQuiet
<1>3. /\ writes' \in Seq(Calls)
      /\ \A k \in 1..Len(writes') : writes'[k].left # {} => writes'[k].by = "clear"
      /\ \A j \in Id \ {i} : DbStep(j)
      /\ Quieter(i)
      /\ Kept(i)'
  <2>1. CASE LeavesQueue(entry[i])
    <3> DEFINE c == Call("final", i, Nothing)
    <3>1. c \in Calls /\ c.left = {} /\ c.id = i /\ c.by = "final" /\ writes' = Append(writes, c)
      BY <2>1 DEF Call, Calls, Callers, Close
    <3> HIDE DEF c
    <3>2. /\ writes' \in Seq(Calls)
          /\ \A k \in 1..Len(writes') : writes'[k].left # {} => writes'[k].by = "clear"
          /\ \A j \in Id \ {i} : DbStep(j)
          /\ Pend(writes', i) = Pend(writes, i) \cup {c}
          /\ Left(writes', i) => Left(writes, i)
      BY <1>0, <1>1, <3>1, DbAppends
    <3>3. Quieter(i)
      BY <3>1, <3>2 DEF Quieter, Called
    <3>4. entry'[i].removed \/ Gone(i)'
      BY <1>0, <1>1, <1>2, <2>1 DEF Typed, Gone, LeavesQueue
    <3>5. Kept(i)'
      BY <3>4 DEF Kept
    <3> QED
      BY <3>2, <3>3, <3>5
  <2>2. CASE ~LeavesQueue(entry[i])
    <3>1. Persist("final", i) /\ "final" \in Callers
      BY <1>1, <2>2 DEF Close, Persist, Callers
    <3>2. ~Gone(i) /\ Kept(i)
      BY <1>1 DEF Gone, Inv, Local
    <3> QED
      BY <1>0, <1>1, <1>2, <3>1, <3>2, Persisted
  <2> QED
    BY <2>1, <2>2
<1>4. Typed'
  <2>1. /\ task' \in [Id -> Places] /\ dest' \in [Id -> MaybePath] /\ event' \in [Id -> {"none", "set", "clear"}]
        /\ asked' \in [Id -> {"none", "stop", "delete"}] /\ resuming' \in [Id -> BOOLEAN]
    BY <1>0, <1>1 DEF Typed, Places, MaybePath
  <2> QED
    BY <1>0, <1>1, <1>3, <2>1 DEF Typed, SameScope
<1>5. \A j \in Id \ {i} : Untouched(j) /\ DbStep(j)
  BY <1>0, <1>1, <1>3 DEF Typed, Untouched
<1>6. Local(i)'
  <2>1. HasLink(i)' /\ Quiet(i)' /\ NotDone(i)' /\ HasDest(i)'
    BY <1>0, <1>1, <1>2 DEF Typed, Inv, Local, HasLink, Quiet, LaunchQuiet, UnstartedQuiet, EventOfTask,
       NoEvent, NotDone, AtWork, Live, HasDest, AtFile, InSlot
  <2> QED
    BY <1>3, <2>1 DEF Local
<1>7. FirstLaunch'
  <2>1. SUFFICES ASSUME ~restarted', ~restarted PROVE FirstLaunch'
    BY <1>1 DEF FirstLaunch
  <2>2. \A j \in Id : NoPathYet(j)'
    BY <1>0, <1>1, <2>1 DEF Inv, Typed, FirstLaunch, NoPathYet
  <2>3. ~Holds(i)'
    BY <1>0, <1>1 DEF Typed, Holds, AtFile, InSlot
  <2>4. \A j \in Id \ {i} : Holds(j)' => Holds(j) /\ dest'[j] = dest[j] /\ dest[j] \in claimed
    BY <1>5, <2>1 DEF Inv, FirstLaunch, Holds, AtFile, InSlot, Untouched
  <2>5. \A j \in Id \ {i} : Holds(j) => dest[j] # dest[i]
    BY <1>1, <2>1 DEF Inv, FirstLaunch, Holds
  <2>6. \A j \in Id : Holds(j)' => dest'[j] \in claimed'
    BY <1>1, <2>3, <2>4, <2>5
  <2>7. \A j, k \in Id : Holds(j)' /\ Holds(k)' /\ dest'[j] = dest'[k] => j = k
    BY <2>1, <2>3, <2>4 DEF Inv, FirstLaunch
  <2> QED
    BY <2>2, <2>6, <2>7 DEF FirstLaunch
<1>8. Orderly => OrderlyOne(i)'
  BY <1>0, <1>1, <1>2, <1>3 DEF Typed, Inv, OrderlyPart, OrderlyOne, AtWork, Pending, Live, Quieter
<1>9. Plain => PathsOf(i)'
  BY <1>0, <1>1, <1>2 DEF Inv, Typed, PathsNamed, PathsOf, OfLink, AtFile, InSlot, Live
<1> QED
  BY <1>1, <1>4, <1>5, <1>6, <1>7, <1>8, <1>9, OneStep

-----------------------------------------------------------------------------
(* The requests.                                                            *)

LEMMA InvNotTwice == Inv => NeverLaunchedTwice
<1>1. SUFFICES ASSUME Inv, NEW i \in Id, WouldRelaunch(i)
               PROVE  ~Live(i) /\ launching[i] = "none"
  BY DEF NeverLaunchedTwice
<1>2. i \in listed /\ entry[i].status # "starting" /\ (event[i] = "none" \/ task[i] = "none")
  BY <1>1 DEF WouldRelaunch, RESTARTABLE_DOWNLOAD_STATUS_KEYS
<1> QED
  BY <1>1, <1>2 DEF Inv, Local, Quiet, LaunchQuiet, UnstartedQuiet, EventOfTask, Live

\* A request that may not overlap another finds no handler at work.
LEMMA RequestAlone ==
  ASSUME Typed, Request, serial
  PROVE  /\ \A i \in Id : launching[i] = "none"
         /\ \A j \in Id : ~Left(writes, j) /\ ~Called("delete", j) /\ ~Called("clear", j)
<1>1. ~Busy
  BY DEF Request
<1>2. \A k \in 1..Len(writes) : writes[k].by \in {"task", "final"} /\ writes[k].left = {}
  BY <1>1 DEF Busy, Typed
<1>3. \A j \in Id : ~Left(writes, j) /\ ~Called("delete", j) /\ ~Called("clear", j)
  BY <1>2 DEF Left, Called, Pend
<1> QED
  BY <1>1, <1>3 DEF Busy

LEMMA RestartKeeps ==
  ASSUME Inv, NEW i \in Id, Request, i \in listed, event[i] = "none", ~Live(i), launching[i] = "none",
         entry[i].status \in RESTARTABLE_DOWNLOAD_STATUS_KEYS, Restart(i)
  PROVE  Inv'
<1>0. Typed
  BY DEF Inv
<1>1. /\ SameScope /\ restarted' /\ task' = task /\ event' = event /\ listed' = listed /\ dest' = dest
      /\ resuming' = resuming /\ cancelling' = cancelling /\ row' = row /\ asked' = asked
      /\ launching' = [launching EXCEPT ![i] = "restarting"] /\ launching'[i] = "restarting"
      /\ launchPath' = [launchPath EXCEPT ![i] = launchPath'[i]]
      /\ launchPath'[i] \in {entry[i].path, Nothing}
      /\ restarted' = TRUE /\ SetStatus(i, "starting", "launch")
  BY <1>0 DEF Typed, Restart, taskVars, fixedVars, SameScope
<1>2. entry[i].link \in Link /\ entry[i] \in Entries
  BY <1>0 DEF Typed, Inv, Local, HasLink
<1>3. /\ entry' \in [Id -> Entries] /\ entry' = [entry EXCEPT ![i] = entry'[i]]
      /\ entry'[i].status = "starting" /\ entry'[i].link = entry[i].link
      /\ entry'[i].path = entry[i].path /\ (entry'[i].removed <=> entry[i].removed)
      /\ writes' \in Seq(Calls)
      /\ \A k \in 1..Len(writes') : writes'[k].left # {} => writes'[k].by = "clear"
      /\ \A j \in Id \ {i} : DbStep(j)
      /\ Quieter(i)
      /\ Kept(i) /\ ~Gone(i) => Kept(i)'
  <2>1. "starting" \in Status /\ "launch" \in Callers \ {"delete"}
    BY DEF Status, RESUMABLE_ON_STARTUP_KEYS, Callers
  <2> QED
    BY <1>0, <1>1, <1>2, <2>1, StatusSet
<1>4. Typed'
  <2>1. /\ launching' \in [Id -> {"none", "creating", "restarting", "announcing"}]
        /\ launchPath' \in [Id -> MaybePath]
    BY <1>0, <1>1, <1>2 DEF Typed, Entries, MaybePath
  <2> QED
    BY <1>0, <1>1, <1>3, <2>1 DEF Typed, SameScope
<1>5. \A j \in Id \ {i} : Untouched(j) /\ DbStep(j)
  BY <1>0, <1>1, <1>3 DEF Typed, Untouched
<1>6. Local(i)'
  <2>1. HasLink(i)' /\ Quiet(i)' /\ NotDone(i)' /\ HasDest(i)'
    BY <1>1, <1>2, <1>3 DEF Inv, Local, HasLink, Quiet, LaunchQuiet, UnstartedQuiet, EventOfTask, NoEvent,
       NotDone, AtWork, Live, HasDest, AtFile, InSlot
  <2>2. ~Gone(i)
    BY DEF Gone, RESTARTABLE_DOWNLOAD_STATUS_KEYS
  <2> QED
    BY <1>3, <2>1, <2>2 DEF Inv, Local
<1>7. FirstLaunch'
  BY <1>1 DEF FirstLaunch
<1>8. Orderly => OrderlyOne(i)'
  <2>1. SUFFICES ASSUME Orderly PROVE OrderlyOne(i)'
    OBVIOUS
  <2>2. ~Left(writes, i) /\ ~Called("delete", i)
    BY <1>0, <2>1, RequestAlone DEF Orderly
  <2> QED
    BY <1>1, <1>3, <2>2 DEF OrderlyOne, AtWork, Pending, TERMINAL_STATUS_KEYS, Quieter
<1>9. Plain => PathsOf(i)'
  BY <1>0, <1>1, <1>3 DEF Inv, Typed, PathsNamed, PathsOf, OfLink, AtFile, InSlot, Live
<1> QED
  BY <1>1, <1>3, <1>4, <1>5, <1>6, <1>7, <1>8, <1>9, OneStep

LEMMA RetryKeeps ==
  ASSUME Inv, NEW i \in Id, RetryDuplicate(i)
  PROVE  Inv'
<1>1. /\ Request /\ i \in listed /\ Restart(i) /\ task[i] = "none"
      /\ WouldRelaunch(i) /\ entry[i].status \in RESTARTABLE_DOWNLOAD_STATUS_KEYS
  BY DEF RetryDuplicate, CanRetry, WouldRelaunch
<1>2. event[i] = "none"
  BY <1>1 DEF Inv, Local, Quiet, NoEvent
<1> QED
  BY <1>1, <1>2, InvNotTwice, RestartKeeps DEF NeverLaunchedTwice

\* A status set with the pause event: pause, and resume of a live task.
LEMMA ToldKeeps ==
  ASSUME Inv, NEW i \in Id, Request, Reaches(i), event[i] # "none",
         NEW s \in {"paused", "downloading"}, SetStatus(i, s, "answer"),
         NEW v \in {"set", "clear"}, event' = [event EXCEPT ![i] = v],
         UNCHANGED <<taskVars, fileVars, row, listed, launchVars, asked, restarted, fixedVars>>
  PROVE  Inv'
<1>0. Typed
  BY DEF Inv
<1>1. /\ SameScope /\ restarted' = restarted /\ task' = task /\ listed' = listed /\ dest' = dest /\ claimed' = claimed
      /\ resuming' = resuming /\ cancelling' = cancelling /\ row' = row
      /\ launching' = launching /\ launchPath' = launchPath /\ asked' = asked /\ event'[i] = v
  BY <1>0 DEF Typed, SameScope, taskVars, launchVars, fileVars, fixedVars
<1>2. entry[i].link \in Link
  <2>1. entry[i].link \in Link \cup {Nothing}
    BY <1>0 DEF Typed, Entries
  <2> QED
    BY <2>1 DEF Reaches, Inv, Local, HasLink
<1>3. /\ entry' \in [Id -> Entries] /\ entry' = [entry EXCEPT ![i] = entry'[i]]
      /\ entry'[i].status = s /\ entry'[i].link = entry[i].link
      /\ entry'[i].path = entry[i].path /\ (entry'[i].removed <=> entry[i].removed)
      /\ writes' \in Seq(Calls)
      /\ \A k \in 1..Len(writes') : writes'[k].left # {} => writes'[k].by = "clear"
      /\ \A j \in Id \ {i} : DbStep(j)
      /\ Quieter(i)
      /\ Kept(i) /\ ~Gone(i) => Kept(i)'
  <2>1. s \in Status /\ "answer" \in Callers \ {"delete"}
    BY DEF Status, RESUMABLE_ON_STARTUP_KEYS, RESTARTABLE_DOWNLOAD_STATUS_KEYS, Callers
  <2> QED
    BY <1>0, <1>1, <1>2, <2>1, StatusSet
<1>4. Typed'
  <2>1. event' \in [Id -> {"none", "set", "clear"}]
    BY <1>0 DEF Typed
  <2> QED
    BY <1>0, <1>1, <1>3, <2>1 DEF Typed, SameScope
<1>5. \A j \in Id \ {i} : Untouched(j) /\ DbStep(j)
  BY <1>0, <1>1, <1>3 DEF Typed, Untouched
<1>6. Local(i)'
  <2>1. HasLink(i)' /\ Quiet(i)' /\ NotDone(i)' /\ HasDest(i)'
    BY <1>1, <1>2, <1>3 DEF Inv, Local, HasLink, Quiet, LaunchQuiet, UnstartedQuiet, EventOfTask, NoEvent,
       NotDone, AtWork, Live, HasDest, AtFile, InSlot
  <2>2. ~Gone(i)
    BY DEF Gone
  <2> QED
    BY <1>3, <2>1, <2>2 DEF Inv, Local
<1>7. FirstLaunch'
  BY <1>1, <1>5, FirstKept DEF Inv, FirstLaunch, NoPathYet, Holds, AtFile, InSlot
<1>8. Orderly => OrderlyOne(i)'
  <2>1. SUFFICES ASSUME Orderly PROVE OrderlyOne(i)'
    OBVIOUS
  <2>2. ~Left(writes, i) /\ ~Called("delete", i)
    BY <1>0, <2>1, RequestAlone DEF Orderly
  <2>3. s \notin TERMINAL_STATUS_KEYS /\ i \in listed
    BY <2>1 DEF TERMINAL_STATUS_KEYS, Reaches, Orderly
  <2> QED
    BY <1>1, <1>3, <2>2, <2>3 DEF OrderlyOne, AtWork, Pending, Quieter
<1>9. Plain => PathsOf(i)'
  BY <1>1, <1>3 DEF Inv, Typed, PathsNamed, PathsOf, OfLink, AtFile, InSlot, Live
<1> QED
  BY <1>1, <1>3, <1>4, <1>5, <1>6, <1>7, <1>8, <1>9, OneStep

LEMMA PauseKeeps ==
  ASSUME Inv, NEW i \in Id, Pause(i)
  PROVE  Inv'
  BY ToldKeeps DEF Pause

LEMMA ResumeKeeps ==
  ASSUME Inv, NEW i \in Id, Resume(i)
  PROVE  Inv'
<1>1. CASE event[i] # "none"
  BY <1>1, ToldKeeps DEF Resume
<1>2. CASE event[i] = "none"
  <2>1. /\ Request /\ i \in listed /\ Restart(i) /\ WouldRelaunch(i)
        /\ entry[i].status \in RESTARTABLE_DOWNLOAD_STATUS_KEYS
    BY <1>2 DEF Resume, WouldRelaunch
  <2> QED
    BY <1>2, <2>1, InvNotTwice, RestartKeeps DEF NeverLaunchedTwice
<1> QED
  BY <1>1, <1>2

LEMMA CancelTransferKeeps ==
  ASSUME Inv, NEW i \in Id, CancelTransfer(i)
  PROVE  Inv'
<1>0. Typed
  BY DEF Inv
<1>1. /\ SameScope /\ restarted' = restarted /\ task' = task /\ listed' = listed /\ dest' = dest
      /\ claimed' = claimed /\ event' = event /\ UNCHANGED dbVars
      /\ resuming' = resuming /\ cancelling' = [cancelling EXCEPT ![i] = @ \/ Live(i)]
      /\ launching' = launching /\ launchPath' = launchPath /\ asked' = [asked EXCEPT ![i] = "delete"]
  BY <1>0 DEF Typed, CancelTransfer, launchVars, fileVars, fixedVars, SameScope
<1>2. /\ entry' \in [Id -> Entries] /\ entry' = [entry EXCEPT ![i] = entry'[i]]
      /\ entry'[i].removed /\ entry'[i].link = entry[i].link
      /\ entry'[i].path = entry[i].path /\ entry'[i].status = entry[i].status
  BY <1>0, RemovedWritten DEF CancelTransfer
<1>3. /\ \A j \in Id : DbStep(j)
      /\ row' \in [Id -> Rows \cup {Nothing}] /\ writes' \in Seq(Calls)
      /\ \A k \in 1..Len(writes') : writes'[k].left # {} => writes'[k].by = "clear"
  BY <1>0, <1>1, DbRests
<1>4. Typed'
  <2>1. cancelling' \in [Id -> BOOLEAN] /\ asked' \in [Id -> {"none", "stop", "delete"}]
    BY <1>0, <1>1 DEF Typed, Live
  <2> QED
    BY <1>0, <1>1, <1>2, <1>3, <2>1 DEF Typed, SameScope
<1>5. \A j \in Id \ {i} : Untouched(j) /\ DbStep(j)
  BY <1>0, <1>1, <1>2, <1>3 DEF Typed, Untouched
<1>6. Local(i)'
  <2>1. HasLink(i)' /\ Quiet(i)' /\ NotDone(i)' /\ HasDest(i)'
    BY <1>1, <1>2 DEF Inv, Local, HasLink, Quiet, LaunchQuiet, UnstartedQuiet, EventOfTask, NoEvent,
       NotDone, AtWork, Live, HasDest, AtFile, InSlot
  <2> QED
    BY <1>2, <2>1 DEF Local, Kept
<1>7. FirstLaunch'
  BY <1>1, <1>5, FirstKept DEF Inv, FirstLaunch, NoPathYet, Holds, AtFile, InSlot
<1>8. Orderly => OrderlyOne(i)'
  <2>1. Quieter(i)
    BY <1>3, MovesQuieter DEF DbStep
  <2> QED
    BY <1>1, <1>2, <2>1 DEF Inv, OrderlyPart, OrderlyOne, AtWork, Pending, Live, Quieter
<1>9. Plain => PathsOf(i)'
  BY <1>1, <1>2 DEF Inv, Typed, PathsNamed, PathsOf, OfLink, AtFile, InSlot, Live
<1> QED
  BY <1>1, <1>2, <1>4, <1>5, <1>6, <1>7, <1>8, <1>9, OneStep

LEMMA RemoveIdleKeeps ==
  ASSUME Inv, NEW i \in Id, RemoveIdle(i)
  PROVE  Inv'
<1>0. Typed
  BY DEF Inv
<1>1. /\ SameScope /\ restarted' = restarted /\ task' = task /\ listed' = listed /\ dest' = dest
      /\ claimed' = claimed /\ event' = event /\ row' = row /\ Request
      /\ resuming' = resuming /\ cancelling' = cancelling /\ task[i] = "none"
      /\ launching' = launching /\ launchPath' = launchPath /\ asked' = asked
  BY DEF RemoveIdle, taskVars, launchVars, fixedVars, SameScope
<1>2. /\ entry' \in [Id -> Entries] /\ entry' = [entry EXCEPT ![i] = entry'[i]]
      /\ entry'[i].removed /\ entry'[i].link = entry[i].link
      /\ entry'[i].path = entry[i].path /\ entry'[i].status = entry[i].status
  BY <1>0, RemovedWritten DEF RemoveIdle
<1> DEFINE c == Call("delete", i, Nothing)
<1>3. c \in Calls /\ c.left = {} /\ c.id = i /\ writes' = Append(writes, c)
  BY DEF Call, Calls, Callers, RemoveIdle
<1> HIDE DEF c
<1>4. /\ writes' \in Seq(Calls)
      /\ \A k \in 1..Len(writes') : writes'[k].left # {} => writes'[k].by = "clear"
      /\ \A j \in Id \ {i} : DbStep(j)
      /\ \A j \in Id : Left(writes', j) => Left(writes, j)
  BY <1>0, <1>1, <1>3, DbAppends
<1>5. Typed'
  BY <1>0, <1>1, <1>2, <1>4 DEF Typed, SameScope
<1>6. \A j \in Id \ {i} : Untouched(j) /\ DbStep(j)
  BY <1>0, <1>1, <1>2, <1>4 DEF Typed, Untouched
<1>7. Local(i)'
  <2>1. HasLink(i)' /\ Quiet(i)' /\ NotDone(i)' /\ HasDest(i)'
    BY <1>1, <1>2 DEF Inv, Local, HasLink, Quiet, LaunchQuiet, UnstartedQuiet, EventOfTask, NoEvent,
       NotDone, AtWork, Live, HasDest, AtFile, InSlot
  <2> QED
    BY <1>2, <2>1 DEF Local, Kept
<1>8. FirstLaunch'
  BY <1>1, <1>6, FirstKept DEF Inv, FirstLaunch, NoPathYet, Holds, AtFile, InSlot
<1>9. Orderly => OrderlyOne(i)'
  <2>1. SUFFICES ASSUME Orderly PROVE OrderlyOne(i)'
    OBVIOUS
  <2>2. launching[i] = "none" /\ ~Left(writes, i)
    BY <1>0, <1>1, <2>1, RequestAlone DEF Orderly
  <2>3. ~AtWork(i)' /\ ~Left(writes', i)
    BY <1>1, <1>4, <2>2 DEF AtWork, Live
  <2> QED
    BY <2>3 DEF OrderlyOne
<1>10. Plain => PathsOf(i)'
  BY <1>1, <1>2 DEF Inv, Typed, PathsNamed, PathsOf, OfLink, AtFile, InSlot, Live
<1> QED
  BY <1>1, <1>2, <1>5, <1>6, <1>7, <1>8, <1>9, <1>10, OneStep

\* A last call returns: that of a DELETE pops its entry, the others do nothing.
LEMMA LastReturnKeeps ==
  ASSUME Inv, NEW i \in Id, NEW by, Returns(by, i),
         listed' = listed \/ (by = "delete" /\ listed' = listed \ {i}),
         UNCHANGED <<entry, taskVars, event, fileVars, launchVars, asked, scopeVars>>
  PROVE  Inv'
<1>0. Typed
  BY DEF Inv
<1>1. /\ SameScope /\ restarted' = restarted /\ task' = task /\ dest' = dest /\ claimed' = claimed /\ event' = event
      /\ resuming' = resuming /\ cancelling' = cancelling /\ entry' = entry /\ asked' = asked
      /\ launching' = launching /\ launchPath' = launchPath
  BY DEF taskVars, launchVars, fileVars, scopeVars, fixedVars, SameScope
<1>2. /\ row' \in [Id -> Rows \cup {Nothing}] /\ writes' \in Seq(Calls)
      /\ \A k \in 1..Len(writes') : writes'[k].left # {} => writes'[k].by = "clear"
      /\ \A j \in Id : DbStep(j)
      /\ Called(by, i)
  BY <1>0, DbReturns
<1>3. Typed'
  BY <1>0, <1>1, <1>2 DEF Typed, SameScope
<1>4. \A j \in Id \ {i} : Untouched(j) /\ DbStep(j)
  BY <1>1, <1>2 DEF Untouched
<1>5. Local(i)'
  <2>1. HasLink(i)' /\ Quiet(i)' /\ NotDone(i)' /\ HasDest(i)'
    BY <1>1 DEF Inv, Local, HasLink, Quiet, LaunchQuiet, UnstartedQuiet, EventOfTask, NoEvent, NotDone,
       AtWork, Live, HasDest, AtFile, InSlot
  <2>2. (Gone(i) => Gone(i)') /\ (Ending(i) => Ending(i)')
    BY <1>1 DEF Gone, Ending
  <2>3. Kept(i)'
    BY <1>0, <1>1, <1>2, <2>2, KeptByStep DEF Inv, Local, DbStep
  <2> QED
    BY <2>1, <2>3 DEF Local
<1>6. FirstLaunch'
  BY <1>1, <1>4, FirstKept DEF Inv, FirstLaunch, NoPathYet, Holds, AtFile, InSlot
<1>7. Orderly => OrderlyOne(i)'
  <2>1. Quieter(i)
    BY <1>2, MovesQuieter DEF DbStep
  <2> QED
    BY <1>1, <1>2, <2>1 DEF Inv, OrderlyPart, OrderlyOne, AtWork, Pending, Live, Quieter
<1>8. Plain => PathsOf(i)'
  BY <1>1 DEF Inv, Typed, PathsNamed, PathsOf, OfLink, AtFile, InSlot, Live
<1> QED
  BY <1>1, <1>3, <1>4, <1>5, <1>6, <1>7, <1>8, OneStep

LEMMA PopRemovedKeeps ==
  ASSUME Inv, NEW i \in Id, PopRemoved(i)
  PROVE  Inv'
  BY LastReturnKeeps DEF PopRemoved

LEMMA LastCallReturnsKeeps ==
  ASSUME Inv, NEW i \in Id, LastCallReturns(i)
  PROVE  Inv'
<1>1. \E by \in {"answer", "final"} : Returns(by, i)
  BY DEF LastCallReturns
<1> QED
  BY <1>1, LastReturnKeeps DEF LastCallReturns

\* The link is not listed yet, so it is listed once with its new entry.
LEMMA CreateDownloadKeeps ==
  ASSUME Inv, NEW l \in Link, CreateDownload(l)
  PROVE  Inv'
<1>0. Typed
  BY DEF Inv
<1>1. PICK i \in Id :
         /\ Fresh(i)
         /\ listed' = listed \cup {i}
         /\ entry' = [entry EXCEPT ![i] = NewEntry(l)]
         /\ Persist("create", i)
         /\ launching' = [launching EXCEPT ![i] = "creating"]
         /\ launchPath' = [launchPath EXCEPT ![i] = Nothing]
  BY DEF CreateDownload
<1>2. /\ SameScope /\ restarted' = restarted /\ task' = task /\ dest' = dest /\ claimed' = claimed /\ event' = event
      /\ resuming' = resuming /\ cancelling' = cancelling /\ row' = row /\ asked' = asked
      /\ task[i] = "none" /\ i \notin listed /\ launching[i] = "none"
      /\ launching'[i] = "creating" /\ launchPath'[i] = Nothing
  BY <1>0, <1>1 DEF Typed, CreateDownload, taskVars, fileVars, fixedVars, SameScope, Fresh
<1>3. /\ NewEntry(l) \in Entries /\ NewEntry(l).link = l /\ NewEntry(l).path = Nothing
      /\ NewEntry(l).status = "starting" /\ ~NewEntry(l).removed
  BY DEF NewEntry, Entries, Status, RESUMABLE_ON_STARTUP_KEYS, MaybePath
<1>4. /\ entry' \in [Id -> Entries] /\ entry'[i].link = l /\ entry'[i].path = Nothing
      /\ entry'[i].status = "starting" /\ ~entry'[i].removed
      /\ \A j \in Id \ {i} : entry'[j] = entry[j]
  BY <1>0, <1>1, <1>3 DEF Typed
<1>5. Pend(writes, i) = {} /\ ~Left(writes, i)
  BY <1>1 DEF Fresh, Pend, Left
<1>6. /\ writes' \in Seq(Calls)
      /\ \A k \in 1..Len(writes') : writes'[k].left # {} => writes'[k].by = "clear"
      /\ \A j \in Id \ {i} : DbStep(j)
      /\ Quieter(i)
      /\ Backed(i)' /\ PathWritten(i)'
  <2>1. entry'[i] \in Entries /\ entry'[i].link \in Link /\ "create" \in Callers
    BY <1>4 DEF Callers
  <2> QED
    BY <1>0, <1>1, <1>2, <1>5, <2>1, Persisted
<1>7. Typed'
  <2>1. /\ launching' \in [Id -> {"none", "creating", "restarting", "announcing"}]
        /\ launchPath' \in [Id -> MaybePath] /\ listed' \subseteq Id
    BY <1>0, <1>1 DEF Typed, MaybePath
  <2> QED
    BY <1>0, <1>2, <1>4, <1>6, <2>1 DEF Typed, SameScope
<1>8. \A j \in Id \ {i} : Untouched(j) /\ DbStep(j)
  BY <1>0, <1>1, <1>2, <1>4, <1>6 DEF Typed, Untouched
<1>9. Local(i)'
  <2>1. HasLink(i)' /\ Quiet(i)' /\ NotDone(i)' /\ HasDest(i)'
    BY <1>2, <1>4 DEF Inv, Local, HasLink, Quiet, LaunchQuiet, UnstartedQuiet, EventOfTask, NoEvent,
       NotDone, AtWork, Live, HasDest, AtFile, InSlot
  <2> QED
    BY <1>6, <2>1 DEF Local, Kept
<1>10. FirstLaunch'
  BY <1>2, <1>8, FirstKept DEF Inv, FirstLaunch, NoPathYet, Holds, AtFile, InSlot
<1>11. OneEntryPerLink'
  <2>1. FindByLink(l) = {}
    BY DEF CreateDownload
  <2>2. \A j \in listed : j # i /\ entry'[j].link = entry[j].link /\ entry[j].link # l
    BY <1>0, <1>2, <1>4, <2>1 DEF Typed, FindByLink
  <2> QED
    BY <1>1, <1>2, <1>4, <2>2 DEF Inv, OneEntryPerLink, LinkListedOnce, SameScope
<1>12. Orderly => OrderlyOne(i)'
  <2>1. ~Called("delete", i) /\ ~Left(writes, i)
    BY <1>5 DEF Called
  <2>2. Pending(i)'
    BY <1>1, <1>4 DEF Pending, TERMINAL_STATUS_KEYS
  <2> QED
    BY <1>6, <2>1, <2>2 DEF OrderlyOne, Quieter
<1>13. Plain => PathsOf(i)'
  BY <1>2, <1>4 DEF PathsOf, OfLink, AtFile, InSlot, Live
<1> QED
  BY <1>2, <1>7, <1>8, <1>9, <1>10, <1>11, <1>12, <1>13, OneStep

LEMMA StopAllKeeps ==
  ASSUME Inv, StopAll
  PROVE  Inv'
<1>0. Typed
  BY DEF Inv
<1>1. /\ listed' = listed /\ entry' = entry /\ task' = task /\ dest' = dest /\ resuming' = resuming
      /\ event' = event /\ claimed' = claimed /\ UNCHANGED dbVars /\ launching' = launching /\ launchPath' = launchPath
      /\ restarted' = restarted /\ SameScope
      /\ cancelling' = [j \in Id |-> cancelling[j] \/ Live(j)]
      /\ asked' = [j \in Id |-> IF Live(j) /\ asked[j] = "none" THEN "stop" ELSE asked[j]]
  BY DEF StopAll, fileVars, launchVars, fixedVars, SameScope
<1>2. /\ \A j \in Id : DbStep(j)
      /\ row' \in [Id -> Rows \cup {Nothing}] /\ writes' \in Seq(Calls)
      /\ \A k \in 1..Len(writes') : writes'[k].left # {} => writes'[k].by = "clear"
  BY <1>0, <1>1, DbRests
<1>3. Typed'
  <2>1. cancelling' \in [Id -> BOOLEAN] /\ asked' \in [Id -> {"none", "stop", "delete"}]
    BY <1>0, <1>1 DEF Typed, Live
  <2> QED
    BY <1>0, <1>1, <1>2, <2>1 DEF Typed, SameScope
<1>4. \A j \in Id : Untouched(j) /\ DbStep(j)
  BY <1>1, <1>2 DEF Untouched
<1>5. \A j \in Id : Local(j)'
  BY <1>0, <1>4, UntouchedKept DEF Inv
<1>6. OneEntryPerLink' /\ FirstLaunch' /\ PathsNamed'
  BY <1>1 DEF PathsNamed, Plain, PathsOf, OfLink, Inv, OneEntryPerLink, LinkListedOnce, FirstLaunch,
     NoPathYet, Holds, AtFile, InSlot, Live, SameScope
<1>7. OrderlyPart'
  BY <1>1, <1>4, UntouchedOrderly DEF Inv, OrderlyPart, Orderly, SameScope
<1> QED
  BY <1>3, <1>5, <1>6, <1>7 DEF Inv

\* clear-finished pops one entry and calls the database for it: what it holds is
\* not listed, and what it has left is finished.
LEMMA PopFinishedKeeps ==
  ASSUME Inv, NEW q \in Seq(Calls), NEW rest \in SUBSET Id, PopFinished(q, rest),
         row' \in [Id -> Rows \cup {Nothing}],
         \A k \in 1..Len(q) : q[k].left # {} => q[k].by = "clear",
         \A j \in Id : /\ Moves(q, row', j) /\ Follows(q, row', j)
                       /\ Left(q, j) => Left(writes, j),
         Orderly => \A i \in rest : entry[i].status \in TERMINAL_STATUS_KEYS,
         restarted' = restarted,
         UNCHANGED <<entry, taskVars, event, claimed, launchVars, asked, fixedVars>>
  PROVE  Inv'
<1>0. Typed
  BY DEF Inv
<1>1. /\ entry' = entry /\ task' = task /\ dest' = dest /\ resuming' = resuming /\ cancelling' = cancelling
      /\ event' = event /\ claimed' = claimed /\ launching' = launching /\ launchPath' = launchPath
      /\ asked' = asked /\ SameScope
  BY DEF taskVars, launchVars, fixedVars, SameScope
<1>2. /\ listed' \subseteq listed /\ listed \ listed' \subseteq rest
      /\ writes' \in Seq(Calls)
      /\ \A k \in 1..Len(writes') : writes'[k].left # {} => writes'[k].by = "clear"
      /\ \A j \in listed' : Moves(writes', row', j) /\ Follows(writes', row', j)
      /\ \A j \in Id : Left(writes', j) => Left(writes, j) \/ j \in rest
      /\ \A j \in Id : Called("delete", j)' => Called("delete", j)
  <2>1. CASE writes' = q /\ listed' = listed
    BY <1>0, <2>1 DEF Typed, Called, Moves
  <2>2. ASSUME NEW i \in rest \cap listed,
               writes' = Append(q, [Call("clear", i, Nothing) EXCEPT !.left = rest \ {i}]), listed' = listed \ {i}
        PROVE  /\ listed' \subseteq listed /\ listed \ listed' \subseteq rest
               /\ writes' \in Seq(Calls)
               /\ \A k \in 1..Len(writes') : writes'[k].left # {} => writes'[k].by = "clear"
               /\ \A j \in listed' : Moves(writes', row', j) /\ Follows(writes', row', j)
               /\ \A j \in Id : Left(writes', j) => Left(writes, j) \/ j \in rest
               /\ \A j \in Id : Called("delete", j)' => Called("delete", j)
    <3> DEFINE c == [Call("clear", i, Nothing) EXCEPT !.left = rest \ {i}]
    <3>1. c \in Calls /\ c.id = i /\ c.by = "clear" /\ c.left \subseteq rest /\ writes' = Append(q, c)
      BY <2>2 DEF Call, Calls, Callers
    <3> HIDE DEF c
    <3>2. \A j \in Id : /\ writes' \in Seq(Calls)
                        /\ Pend(writes', j) = Pend(q, j) \cup (IF c.id = j THEN {c} ELSE {})
                        /\ \A p : LastPath(writes', j, p) <=>
                                     IF c.id = j THEN c.row.path = p ELSE LastPath(q, j, p)
                        /\ Left(writes', j) <=> Left(q, j) \/ j \in c.left
      BY <3>1, Appended
    <3>3. \A k \in 1..Len(writes') : writes'[k].left # {} => writes'[k].by = "clear"
      <4>1. /\ Len(writes') = Len(q) + 1 /\ Len(q) \in Nat
            /\ \A k \in 1..Len(q) : writes'[k] = q[k]
            /\ writes'[Len(q) + 1] = c
        BY <3>1, AppendProperties, LenProperties
      <4> QED
        BY <3>1, <4>1
    <3>4. ASSUME NEW j \in Id \ {i} PROVE Moves(writes', row', j) /\ Follows(writes', row', j)
      <4>1. Pend(writes', j) = Pend(q, j) /\ \A p : LastPath(writes', j, p) <=> LastPath(q, j, p)
        BY <3>1, <3>2
      <4>2. Moves(q, row', j) /\ Follows(q, row', j)
        OBVIOUS
      <4> QED
        BY <4>1, <4>2 DEF Moves, Follows, Ends
    <3>5. \A j \in Id : Called("delete", j)' => Called("delete", j)
      BY <3>1, <3>2 DEF Called, Moves
    <3>6. \A j \in Id : Left(writes', j) => Left(writes, j) \/ j \in rest
      BY <3>1, <3>2
    <3>7. listed' \subseteq Id \ {i} /\ i \in Id
      BY <1>0, <2>2 DEF Typed
    <3> QED
      BY <2>2, <3>2, <3>3, <3>4, <3>5, <3>6, <3>7
  <2> QED
    BY <2>1, <2>2 DEF PopFinished
<1>3. Typed'
  BY <1>0, <1>1, <1>2 DEF Typed, SameScope
<1>4. ASSUME NEW i \in Id PROVE Local(i)'
  <2>1. HasLink(i)' /\ Quiet(i)' /\ NotDone(i)' /\ HasDest(i)'
    BY <1>1, <1>2 DEF Inv, Local, HasLink, Quiet, LaunchQuiet, UnstartedQuiet, EventOfTask, NoEvent,
       NotDone, AtWork, Live, HasDest, AtFile, InSlot
  <2>2. Kept(i)'
    <3>1. CASE i \in listed'
      <4>1. (Gone(i) => Gone(i)') /\ (Ending(i) => Ending(i)')
        BY <1>1 DEF Gone, Ending
      <4> QED
        BY <1>0, <1>1, <1>2, <3>1, <4>1, KeptByStep DEF Inv, Local
    <3>2. CASE i \notin listed'
      BY <3>2 DEF Kept
    <3> QED
      BY <3>1, <3>2
  <2> QED
    BY <2>1, <2>2 DEF Local
<1>5. OneEntryPerLink'
  BY <1>1, <1>2 DEF Inv, OneEntryPerLink, LinkListedOnce, SameScope
<1>6. FirstLaunch'
  BY <1>1 DEF Inv, FirstLaunch, NoPathYet, Holds, AtFile, InSlot
<1>7. OrderlyPart'
  BY <1>1, <1>2 DEF Inv, OrderlyPart, Orderly, OrderlyOne, AtWork, Pending, Live, SameScope
<1>8. PathsNamed'
  BY <1>1, <1>2 DEF Inv, PathsNamed, Plain, PathsOf, OfLink, AtFile, InSlot, Live, SameScope
<1> QED
  BY <1>3, <1>4, <1>5, <1>6, <1>7, <1>8 DEF Inv

LEMMA ClearFinishedKeeps ==
  ASSUME Inv, ClearFinished
  PROVE  Inv'
<1> DEFINE finished == {i \in listed : entry[i].status \in TERMINAL_STATUS_KEYS}
<1>1. finished \in SUBSET Id /\ Typed /\ row' = row /\ restarted' = restarted
  BY DEF Inv, Typed, ClearFinished
<1>2. PopFinished(writes, finished)
  BY DEF ClearFinished
<1>3. Orderly => \A i \in finished : entry[i].status \in TERMINAL_STATUS_KEYS
  OBVIOUS
<1> HIDE DEF finished
<1>4. \A j \in Id : Moves(writes, row', j) /\ Follows(writes, row', j)
  BY <1>1, Standing
<1>5. /\ writes \in Seq(Calls) /\ row' \in [Id -> Rows \cup {Nothing}]
      /\ \A k \in 1..Len(writes) : writes[k].left # {} => writes[k].by = "clear"
  BY <1>1 DEF Typed
<1>6. UNCHANGED <<entry, taskVars, event, claimed, launchVars, asked, fixedVars>>
  BY DEF ClearFinished, fileVars
<1> QED
  BY <1>1, <1>2, <1>3, <1>4, <1>5, <1>6, PopFinishedKeeps

LEMMA ClearNextKeeps ==
  ASSUME Inv, NEW i \in Id, ClearNext(i)
  PROVE  Inv'
<1>0. Typed /\ writes \in Seq(Calls)
  BY DEF Inv, Typed
<1>1. /\ writes # <<>> /\ row' = Committed /\ restarted' = restarted
      /\ PopFinished(Tail(writes), Head(writes).left)
      /\ UNCHANGED <<entry, taskVars, event, claimed, launchVars, asked, fixedVars>>
  BY DEF ClearNext, Commits, scopeVars
<1>2. \A j \in Id : /\ row' \in [Id -> Rows \cup {Nothing}] /\ Tail(writes) \in Seq(Calls)
                    /\ Moves(Tail(writes), row', j) /\ Follows(Tail(writes), row', j)
                    /\ Left(Tail(writes), j) => Left(writes, j)
  BY <1>0, <1>1, Committing
<1>3. /\ \A k \in 1..Len(Tail(writes)) : Tail(writes)[k] = writes[k + 1] /\ k + 1 \in 1..Len(writes)
      /\ Head(writes) = writes[1] /\ 1 \in 1..Len(writes)
  BY <1>0, <1>1, HeadTailProperties, LenProperties, EmptySeq
<1>4. \A k \in 1..Len(Tail(writes)) : Tail(writes)[k].left # {} => Tail(writes)[k].by = "clear"
  <2>1. \A m \in 1..Len(writes) : writes[m].left # {} => writes[m].by = "clear"
    BY <1>0 DEF Typed
  <2> QED
    BY <1>3, <2>1
<1>5. Head(writes).left \in SUBSET Id
  BY <1>0, <1>1, Headed DEF Calls
<1>6. \A j \in Head(writes).left : Left(writes, j)
  BY <1>3 DEF Left
<1>7. Orderly => \A j \in Head(writes).left : entry[j].status \in TERMINAL_STATUS_KEYS
  BY <1>5, <1>6 DEF Inv, OrderlyPart, OrderlyOne
<1> QED
  BY <1>1, <1>2, <1>4, <1>5, <1>7, PopFinishedKeeps

-----------------------------------------------------------------------------
(* Restarts, and the invariant as a whole.                                  *)

\* A restart: what was mid-flight is relaunched from the rows as they are, and
\* nothing else is left of it.
LEMMA CrashKeeps ==
  ASSUME Inv, Crash
  PROVE  Inv'
<1> DEFINE restored == {i \in Id : row'[i] # Nothing}
           relaunched == {i \in restored : row'[i].status \in RESUMABLE_ON_STARTUP_KEYS}
<1>0. Typed
  BY DEF Inv
<1>1. /\ listed' = restored /\ restarted' /\ ~Orderly' /\ crashes' # 0 /\ crashes' \in Nat
      /\ writes' = <<>> /\ serial' = serial /\ sameName' = sameName
  BY <1>0 DEF Crash, Typed, Orderly
<1>2. row' \in [Id -> Rows \cup {Nothing}]
  <2>1. CASE row' = row
    BY <1>0, <2>1 DEF Typed
  <2>2. CASE writes # <<>> /\ row' = Committed
    <3>1. \A j \in Id : row' \in [Id -> Rows \cup {Nothing}]
      BY <1>0, <2>2, Committing
    <3>2. CASE Id = {}
      BY <1>0, <2>2, <3>2, Headed DEF Committed, Typed
    <3> QED
      BY <3>1, <3>2
  <2> QED
    BY <2>1, <2>2 DEF Crash
<1>3. entry' = [i \in Id |->
         IF i \in restored
         THEN [link |-> row'[i].link, path |-> row'[i].path, removed |-> FALSE,
               status |-> IF i \in relaunched THEN "queued" ELSE row'[i].status]
         ELSE Blank]
  BY DEF Crash
<1>4. /\ task' = [i \in Id |-> IF i \in relaunched THEN "metadata" ELSE "none"]
      /\ event' = [i \in Id |-> IF i \in relaunched THEN "set" ELSE "none"]
      /\ dest' = [i \in Id |-> IF i \in relaunched THEN row'[i].path ELSE Nothing]
      /\ resuming' = [i \in Id |-> i \in relaunched /\ row'[i].path # Nothing]
      /\ cancelling' = [i \in Id |-> FALSE]
      /\ launching' = [i \in Id |-> "none"] /\ launchPath' = [i \in Id |-> Nothing]
      /\ asked' = [i \in Id |-> "none"] /\ restarted' = TRUE
  BY DEF Crash
<1>5. ASSUME NEW i \in restored
      PROVE  /\ row'[i] \in Rows /\ entry'[i] \in Entries /\ entry'[i].link = row'[i].link /\ entry'[i].link \in Link
             /\ entry'[i].path = row'[i].path /\ (i \in relaunched => entry'[i].status = "queued")
  <2>1. row'[i] \in Rows
    BY <1>2
  <2> QED
    BY <1>3, <2>1 DEF Rows, Entries, Status, RESUMABLE_ON_STARTUP_KEYS
<1>6. Blank \in Entries
  BY DEF Blank, NewEntry, Entries, Status, RESUMABLE_ON_STARTUP_KEYS, MaybePath
<1>7. entry' \in [Id -> Entries]
  <2>1. \A i \in Id : entry'[i] \in Entries
    BY <1>3, <1>5, <1>6
  <2> QED
    BY <1>3, <2>1
<1>8. \A i \in relaunched : row'[i].path \in MaybePath /\ i \in restored
  BY <1>5 DEF Rows
<1>9. /\ writes' \in Seq(Calls)
      /\ \A k \in 1..Len(writes') : writes'[k].left # {} => writes'[k].by = "clear"
      /\ \A i \in Id : Pend(writes', i) = {}
  <2>1. writes' \in Seq(Calls) /\ Len(writes') = 0 /\ 1..Len(writes') = {}
    BY <1>1, EmptySeq
  <2> QED
    BY <2>1 DEF Pend
<1>10. \A i \in restored : row'[i] # Nothing /\ i \in Id
  OBVIOUS
<1>11. restored \subseteq Id
  OBVIOUS
<1> HIDE DEF restored, relaunched
<1>12. Typed'
  <2>1. dest' \in [Id -> MaybePath] /\ launchPath' \in [Id -> MaybePath]
    BY <1>4, <1>8 DEF MaybePath
  <2>2. task' \in [Id -> Places] /\ resuming' \in [Id -> BOOLEAN] /\ cancelling' \in [Id -> BOOLEAN]
    BY <1>4 DEF Places
  <2>3. /\ event' \in [Id -> {"none", "set", "clear"}] /\ asked' \in [Id -> {"none", "stop", "delete"}]
        /\ launching' \in [Id -> {"none", "creating", "restarting", "announcing"}]
    BY <1>4
  <2> QED
    BY <1>0, <1>1, <1>2, <1>4, <1>7, <1>9, <1>11, <2>1, <2>2, <2>3 DEF Typed
<1>13. ASSUME NEW i \in Id PROVE Local(i)'
  <2>1. HasLink(i)' /\ Quiet(i)' /\ NotDone(i)'
    BY <1>1, <1>4, <1>5, <1>8 DEF NotDone, AtWork, HasLink, Quiet, LaunchQuiet, UnstartedQuiet,
       EventOfTask, NoEvent, Live
  <2>2. Kept(i)'
    <3>1. SUFFICES ASSUME (i \in listed)' PROVE Backed(i)' /\ PathWritten(i)'
      BY DEF Kept
    <3>2. i \in restored
      BY <1>1, <3>1
    <3> QED
      BY <1>5, <1>9, <1>10, <3>2 DEF Backed, PathWritten, Restores, Ends
  <2>3. HasDest(i)'
    BY <1>4 DEF HasDest, AtFile, InSlot
  <2> QED
    BY <2>1, <2>2, <2>3 DEF Local
<1> QED
  BY <1>1, <1>12, <1>13 DEF Inv, OneEntryPerLink, FirstLaunch, PathsNamed, Plain, OrderlyPart

LEMMA InvInit == Init => Inv
<1>1. SUFFICES ASSUME Init PROVE Inv
  OBVIOUS
<1>2. \A i \in Id : Local(i)
  BY <1>1 DEF Init, Local, HasLink, Quiet, LaunchQuiet, UnstartedQuiet, EventOfTask, NoEvent, NotDone,
     AtWork, Live, Kept, HasDest, AtFile, InSlot, Blank, NewEntry
<1>3. OneEntryPerLink /\ FirstLaunch
  BY <1>1 DEF Init, OneEntryPerLink, LinkListedOnce, FirstLaunch, NoPathYet, Holds, AtFile, InSlot
<1>4. PathsNamed
  BY <1>1 DEF Init, PathsNamed, PathsOf, AtFile, InSlot, Live
<1>5. OrderlyPart
  <2>1. 1..Len(writes) = {}
    BY <1>1, EmptySeq DEF Init
  <2>2. \A i \in Id : ~Called("delete", i) /\ ~Left(writes, i)
    BY <2>1 DEF Called, Left, Pend
  <2> QED
    BY <1>1, <2>2 DEF Init, OrderlyPart, OrderlyOne, AtWork, Pending, Live
<1> QED
  BY <1>1, <1>2, <1>3, <1>4, <1>5, TypedInit DEF Inv

LEMMA StutterKeeps ==
  ASSUME Inv, UNCHANGED vars
  PROVE  Inv'
<1>0. Typed
  BY DEF Inv
<1>1. /\ SameScope /\ restarted' = restarted /\ listed' = listed /\ entry' = entry /\ claimed' = claimed
      /\ task' = task /\ dest' = dest /\ event' = event /\ resuming' = resuming /\ cancelling' = cancelling
      /\ launching' = launching /\ launchPath' = launchPath /\ asked' = asked /\ UNCHANGED dbVars
  BY DEF vars, taskVars, fileVars, launchVars, dbVars, scopeVars, fixedVars, SameScope
<1>2. /\ \A j \in Id : DbStep(j)
      /\ row' \in [Id -> Rows \cup {Nothing}] /\ writes' \in Seq(Calls)
      /\ \A k \in 1..Len(writes') : writes'[k].left # {} => writes'[k].by = "clear"
  BY <1>0, <1>1, DbRests
<1>3. Typed'
  BY <1>0, <1>1, <1>2 DEF Typed, SameScope
<1>4. \A i \in Id : Untouched(i)
  BY <1>1 DEF Untouched
<1>5. \A i \in Id : Local(i)'
  BY <1>0, <1>2, <1>4, UntouchedKept DEF Inv
<1>6. OneEntryPerLink'
  BY <1>1 DEF Inv, OneEntryPerLink, LinkListedOnce, SameScope
<1>7. FirstLaunch'
  BY <1>1 DEF Inv, FirstLaunch, NoPathYet, Holds, AtFile, InSlot
<1>8. PathsNamed'
  BY <1>1, <1>4, UntouchedPaths DEF Inv, PathsNamed, Plain, SameScope
<1>9. OrderlyPart'
  BY <1>1, <1>2, <1>4, UntouchedOrderly DEF Inv, OrderlyPart, Orderly, SameScope
<1> QED
  BY <1>3, <1>5, <1>6, <1>7, <1>8, <1>9 DEF Inv

LEMMA InvStep == Inv /\ [Next]_vars => Inv'
<1>1. SUFFICES ASSUME Inv, Next PROVE Inv'
  BY StutterKeeps
<1>2. CASE UserRequest
  BY <1>1, <1>2, CreateDownloadKeeps, RetryKeeps, PauseKeeps, ResumeKeeps, CancelTransferKeeps,
     RemoveIdleKeeps, StopAllKeeps, ClearFinishedKeeps DEF UserRequest
<1>3. ASSUME NEW i \in Id, HandlerStep(i) PROVE Inv'
  BY <1>1, <1>3, AnnounceKeeps, CreateTaskKeeps, PopRemovedKeeps, LastCallReturnsKeeps, ClearNextKeeps DEF
     HandlerStep
<1>4. ASSUME NEW i \in Id, TaskStep(i) PROVE Inv'
  BY <1>1, <1>4, StartTaskKeeps, ResolveKeeps, CallReturnsKeeps, QueueKeeps, AcquireKeeps, OpenFileKeeps,
     CompleteKeeps, FailKeeps, DeliverCancelKeeps, UnwoundKeeps, CloseKeeps DEF TaskStep
<1>5. CASE Crash
  BY <1>1, <1>5, CrashKeeps
<1> QED
  BY <1>1, <1>2, <1>3, <1>4, <1>5 DEF Next

-----------------------------------------------------------------------------
(* The files.  FileInv needs Inv in the state before a step.                *)

Files == [link : Link \cup {Mixed}, whole : BOOLEAN] \cup {Nothing}
FilesNamed == Plain => \A p \in Path : file[p] # Nothing => file[p].link = p[1]
DoneWhole == Orderly => \A i \in Id : DoneFile(i) => file[entry[i].path].whole
\* What clear-finished has popped and not thrown away yet is no longer in the
\* queue under any id.
HandApart ==
    Orderly => \A j \in Id : Called("clear", j) =>
       OfLink(j, entry[j].path) /\ \A i \in listed : entry[i].link # entry[j].link
FileInv == file \in [Path -> Files] /\ FilesNamed /\ DoneWhole /\ HandApart

\* A call other than those of clear-finished joins the queue.
LEMMA OtherCall ==
  ASSUME Typed, NEW by, by # "clear", NEW i, NEW r, writes' = Append(writes, Call(by, i, r)), NEW j
  PROVE  Called("clear", j)' => Called("clear", j)
<1> DEFINE c == Call(by, i, r)
           S == Calls \cup {c}
<1>1. c.by # "clear"
  BY DEF Call
<1>2. writes' = Append(writes, c)
  OBVIOUS
<1> HIDE DEF c
<1>3. writes \in Seq(S) /\ c \in S
  BY DEF Typed
<1> HIDE DEF S
<1>4. /\ Len(writes') = Len(writes) + 1 /\ Len(writes) \in Nat
      /\ \A k \in 1..Len(writes) : writes'[k] = writes[k]
      /\ writes'[Len(writes) + 1] = c
  BY <1>2, <1>3, AppendProperties, LenProperties
<1>5. SUFFICES ASSUME NEW k \in 1..Len(writes'), writes'[k].id = j, writes'[k].by = "clear"
               PROVE  Called("clear", j)
  BY DEF Called, Pend
<1>6. k \in 1..Len(writes) /\ writes[k] = writes'[k]
  BY <1>1, <1>4, <1>5
<1> QED
  BY <1>5, <1>6 DEF Called, Pend

\* One pop of clear-finished.
Pops(j) == j \in listed /\ listed' = listed \ {j} /\ entry' = entry

LEMMA PoppedCall ==
  ASSUME Typed, NEW q \in Seq(Calls), NEW rest \in SUBSET Id, PopFinished(q, rest), entry' = entry,
         NEW j \in Id, Pend(q, j) \subseteq Pend(writes, j), Called("clear", j)'
  PROVE  (Called("clear", j) /\ entry' = entry /\ listed' \subseteq listed) \/ Pops(j)
<1>1. CASE writes' = q /\ listed' = listed
  BY <1>1 DEF Called
<1>2. ASSUME NEW i \in rest \cap listed,
             writes' = Append(q, [Call("clear", i, Nothing) EXCEPT !.left = rest \ {i}]), listed' = listed \ {i}
      PROVE  (Called("clear", j) /\ entry' = entry /\ listed' \subseteq listed) \/ Pops(j)
  <2> DEFINE c == [Call("clear", i, Nothing) EXCEPT !.left = rest \ {i}]
  <2>1. c \in Calls /\ c.id = i /\ writes' = Append(q, c)
    BY <1>2 DEF Call, Calls, Callers
  <2> HIDE DEF c
  <2>2. Pend(writes', j) = Pend(q, j) \cup (IF c.id = j THEN {c} ELSE {})
    BY <2>1, Appended
  <2>3. CASE i = j
    BY <1>2, <2>3 DEF Pops
  <2>4. CASE i # j
    BY <1>2, <2>1, <2>2, <2>4 DEF Called
  <2> QED
    BY <2>3, <2>4
<1> QED
  BY <1>1, <1>2 DEF PopFinished

LEMMA ClearCalls ==
  ASSUME Inv, Next, ~Crash, NEW j \in Id, Called("clear", j)'
  PROVE  Called("clear", j) \/ Pops(j)
<1>0. Typed
  BY DEF Inv
<1>1. ASSUME dbVars' = dbVars PROVE Called("clear", j)
  BY <1>1 DEF dbVars, Called
<1>2. ASSUME NEW by, NEW i \in Id, Returns(by, i) PROVE Called("clear", j)
  BY <1>0, <1>2, DbReturns DEF DbStep, Moves, Called
<1>3. ASSUME NEW by, by # "clear", NEW i, Persist(by, i) PROVE Called("clear", j)
  BY <1>0, <1>3, OtherCall DEF Persist
<1>4. CASE UserRequest
  <2>1. CASE ClearFinished
    <3> DEFINE finished == {i \in listed : entry[i].status \in TERMINAL_STATUS_KEYS}
    <3>1. PopFinished(writes, finished) /\ finished \in SUBSET Id /\ entry' = entry
      BY <1>0, <2>1 DEF ClearFinished, Typed
    <3> HIDE DEF finished
    <3>2. writes \in Seq(Calls)
      BY <1>0 DEF Typed
    <3> QED
      BY <1>0, <3>1, <3>2, PoppedCall
  <2>2. CASE \E l \in Link : CreateDownload(l)
    BY <1>3, <2>2 DEF CreateDownload
  <2>3. CASE \E i \in Id : RetryDuplicate(i) \/ Pause(i) \/ Resume(i)
    BY <1>3, <2>3 DEF RetryDuplicate, Restart, Pause, Resume, SetStatus
  <2>4. CASE \E i \in Id : RemoveIdle(i)
    BY <1>0, <2>4, OtherCall DEF RemoveIdle
  <2>5. CASE StopAll \/ \E i \in Id : CancelTransfer(i)
    BY <1>1, <2>5 DEF StopAll, CancelTransfer
  <2> QED
    BY <1>4, <2>1, <2>2, <2>3, <2>4, <2>5 DEF UserRequest
<1>5. ASSUME NEW i \in Id, HandlerStep(i) PROVE Called("clear", j) \/ Pops(j)
  <2>1. CASE ClearNext(i)
    <3>1. writes # <<>> /\ row' = Committed /\ PopFinished(Tail(writes), Head(writes).left) /\ entry' = entry
      BY <2>1 DEF ClearNext, Commits
    <3>2. Tail(writes) \in Seq(Calls) /\ Moves(Tail(writes), row', j)
      BY <1>0, <3>1, Committing
    <3>3. Head(writes).left \in SUBSET Id
      BY <1>0, <3>1, Headed DEF Typed, Calls
    <3> QED
      BY <1>0, <3>1, <3>2, <3>3, PoppedCall DEF Moves
  <2>2. CASE ~ClearNext(i)
    BY <1>1, <1>2, <1>5, <2>2 DEF HandlerStep, Announce, CreateTask, PopRemoved, LastCallReturns
  <2> QED
    BY <2>1, <2>2
<1>6. ASSUME NEW i \in Id, TaskStep(i) PROVE Called("clear", j)
  <2>1. CASE DeliverCancel(i)
    <3>1. CASE GiveUpCall(i)
      BY <1>0, <3>1, DbGivesUp DEF Moves, Called
    <3>2. GiveUpCall(i) \/ dbVars' = dbVars
      BY <2>1 DEF DeliverCancel
    <3> QED
      BY <1>1, <3>1, <3>2
  <2>2. CASE CallReturns(i)
    BY <1>2, <2>2 DEF CallReturns
  <2>3. CASE Resolve(i) \/ EnterSlot(i)
    BY <1>3, <2>3 DEF Resolve, EnterSlot, SetStatus
  <2>4. CASE Queue(i)
    BY <1>3, <2>4 DEF Queue, SetStatus, Called
  <2>5. CASE Close(i)
    BY <1>0, <2>5, OtherCall DEF Close
  <2>6. CASE StartTask(i) \/ OpenFile(i) \/ Complete(i) \/ Fail(i) \/ Unwound(i)
    <3>1. dbVars' = dbVars
      BY <2>6 DEF StartTask, OpenFile, Complete, Fail, Unwound
    <3> QED
      BY <1>1, <3>1
  <2> QED
    BY <1>6, <2>1, <2>2, <2>3, <2>4, <2>5, <2>6 DEF TaskStep
<1> QED
  BY <1>4, <1>5, <1>6 DEF Next

\* An entry that is done was done before, or has just completed.
LEMMA EntryChanges ==
  ASSUME Inv, Next, ~Crash, NEW i \in Id
  PROVE  /\ \/ entry'[i].link = entry[i].link
            \/ Request /\ i \notin listed /\ ~Called("clear", i)
         /\ i \in listed' /\ entry'[i].status = "done" =>
               /\ i \in listed /\ entry'[i].path = entry[i].path /\ entry'[i].link = entry[i].link
               /\ entry[i].status = "done" \/ Complete(i)
<1> DEFINE Goal == /\ \/ entry'[i].link = entry[i].link
                      \/ Request /\ i \notin listed /\ ~Called("clear", i)
                   /\ i \in listed' /\ entry'[i].status = "done" =>
                         /\ i \in listed /\ entry'[i].path = entry[i].path /\ entry'[i].link = entry[i].link
                         /\ entry[i].status = "done" \/ Complete(i)
<1>0. Typed
  BY DEF Inv
<1>1. ASSUME entry' = entry, listed' \subseteq listed PROVE Goal
  BY <1>1
<1>2. ASSUME NEW k \in Id, NEW s \in Status \ {"done"}, entry' = [entry EXCEPT ![k].status = s], listed' = listed
      PROVE  Goal
  <2>1. /\ entry'[k].status = s /\ entry'[k].link = entry[k].link
        /\ entry' = [entry EXCEPT ![k] = entry'[k]]
    BY <1>0, <1>2, StatusWritten
  <2> QED
    BY <1>0, <1>2, <2>1 DEF Typed
<1>3. ASSUME NEW k \in Id, entry' = [entry EXCEPT ![k].removed = TRUE], listed' = listed
      PROVE  Goal
  <2>1. /\ entry'[k].status = entry[k].status /\ entry'[k].link = entry[k].link /\ entry'[k].path = entry[k].path
        /\ entry' = [entry EXCEPT ![k] = entry'[k]]
    BY <1>0, <1>3, RemovedWritten
  <2> QED
    BY <1>0, <1>3, <2>1 DEF Typed
<1>4. \A s \in {"starting", "queued", "downloading", "paused", "cancelled", "error", "mac_mismatch"} : s \in Status \ {"done"}
  BY DEF Status, TERMINAL_STATUS_KEYS, RESUMABLE_ON_STARTUP_KEYS, RESTARTABLE_DOWNLOAD_STATUS_KEYS
<1>5. CASE UserRequest
  <2>1. CASE \E l \in Link : CreateDownload(l)
    <3>1. PICK l \in Link, k \in Id :
            Request /\ Fresh(k) /\ listed' = listed \cup {k} /\ entry' = [entry EXCEPT ![k] = NewEntry(l)]
      BY <2>1 DEF CreateDownload
    <3>2. NewEntry(l).status = "starting" /\ k \notin listed /\ ~Called("clear", k)
      BY <3>1 DEF NewEntry, Fresh, Called, Pend
    <3> QED
      BY <1>0, <3>1, <3>2 DEF Typed
  <2>2. CASE \E k \in Id : RetryDuplicate(k)
    BY <1>2, <1>4, <2>2 DEF RetryDuplicate, Restart, SetStatus
  <2>3. CASE \E k \in Id : Pause(k)
    BY <1>2, <1>4, <2>3 DEF Pause, SetStatus
  <2>4. CASE \E k \in Id : Resume(k)
    BY <1>2, <1>4, <2>4 DEF Resume, Restart, SetStatus
  <2>5. CASE \E k \in Id : CancelTransfer(k) \/ RemoveIdle(k)
    BY <1>3, <2>5 DEF CancelTransfer, RemoveIdle
  <2>6. CASE StopAll \/ ClearFinished
    BY <1>1, <2>6 DEF StopAll, ClearFinished, PopFinished
  <2> QED
    BY <1>5, <2>1, <2>2, <2>3, <2>4, <2>5, <2>6 DEF UserRequest
<1>6. ASSUME NEW k \in Id, HandlerStep(k) PROVE Goal
  BY <1>1, <1>6 DEF HandlerStep, Announce, CreateTask, PopRemoved, LastCallReturns, ClearNext, PopFinished
<1>7. ASSUME NEW k \in Id, TaskStep(k) PROVE Goal
  <2>1. CASE StartTask(k) \/ Close(k) \/ OpenFile(k)
    BY <1>1, <2>1 DEF StartTask, Close, OpenFile, OtherVars
  <2>2. CASE Resolve(k)
    <3>1. task[k] = "metadata" /\ listed' = listed
      BY <2>2 DEF Resolve, Step, OtherVars
    <3>2. entry[k].status # "done" /\ entry[k].link \in Link
      BY <3>1 DEF Inv, Local, NotDone, AtWork, HasLink, Live
    <3>3. PICK d \in IF dest[k] = Nothing THEN ClaimUnique(entry[k].link) ELSE {dest[k]} :
            entry' = [entry EXCEPT ![k].path = d]
      BY <2>2 DEF Resolve
    <3>4. d \in MaybePath
      <4>1. CASE dest[k] = Nothing
        BY <3>2, <3>3, <4>1, ClaimedIsFree DEF MaybePath
      <4>2. CASE dest[k] # Nothing
        BY <1>0, <3>3, <4>2 DEF Typed
      <4> QED
        BY <4>1, <4>2
    <3>5. /\ entry'[k].link = entry[k].link /\ entry'[k].status = entry[k].status
          /\ entry' = [entry EXCEPT ![k] = entry'[k]]
      BY <1>0, <3>3, <3>4, PathTyped
    <3>6. i # k => entry'[i] = entry[i]
      BY <1>0, <3>5 DEF Typed
    <3> QED
      BY <3>1, <3>2, <3>5, <3>6
  <2>3. CASE EnterSlot(k)
    BY <1>2, <1>4, <2>3 DEF EnterSlot, SetStatus, OtherVars
  <2>4. CASE Complete(k)
    <3>1. PICK s \in {"done", "mac_mismatch"} : entry' = [entry EXCEPT ![k].status = s]
      BY <2>4 DEF Complete
    <3>2. s \in Status /\ listed' = listed
      BY <2>4, <3>1 DEF Complete, OtherVars, Status, TERMINAL_STATUS_KEYS
    <3>3. /\ entry'[k].link = entry[k].link /\ entry'[k].path = entry[k].path
          /\ entry' = [entry EXCEPT ![k] = entry'[k]]
      BY <1>0, <3>1, <3>2, StatusWritten
    <3>4. CASE i = k
      BY <2>4, <3>2, <3>3, <3>4
    <3>5. CASE i # k
      BY <1>0, <3>2, <3>3, <3>5 DEF Typed
    <3> QED
      BY <3>4, <3>5
  <2>5. CASE Fail(k)
    BY <1>2, <1>4, <2>5 DEF Fail, OtherVars
  <2>6. CASE DeliverCancel(k)
    BY <1>1, <1>2, <1>4, <2>6 DEF DeliverCancel, Cancelled, OtherVars
  <2>7. CASE Unwound(k)
    BY <1>2, <1>4, <2>7 DEF Unwound, Cancelled, OtherVars
  <2>8. CASE CallReturns(k)
    BY <1>1, <1>2, <1>4, <2>8 DEF CallReturns, OtherVars
  <2>9. CASE Queue(k)
    BY <1>1, <1>2, <1>4, <2>9 DEF Queue, SetStatus, OtherVars
  <2> QED
    BY <1>7, <2>1, <2>2, <2>3, <2>4, <2>5, <2>6, <2>7, <2>8, <2>9 DEF TaskStep
<1> QED
  BY <1>5, <1>6, <1>7 DEF Next

\* Who may unlink a file: a transfer that is not done, of its own path or
\* destination.
MayUnlink(k, p) ==
    /\ entry[k].status # "done"
    /\ \/ (k \in listed \/ Called("clear", k)) /\ p = entry[k].path
       \/ Live(k) /\ task[k] # "closing" /\ p = dest[k]

LEMMA FileChanges ==
  ASSUME Inv, Next
  PROVE  \/ file' = file
         \/ \E k \in Id, p \in Path : MayUnlink(k, p) /\ file' = Unlink(p)
         \/ \E k \in Id : OpenFile(k) /\ file' = [file EXCEPT ![dest[k]] = Opened(k)]
         \/ \E k \in Id : Complete(k)
<1> DEFINE Goal == \/ file' = file
                   \/ \E k \in Id, p \in Path : MayUnlink(k, p) /\ file' = Unlink(p)
                   \/ \E k \in Id : OpenFile(k) /\ file' = [file EXCEPT ![dest[k]] = Opened(k)]
                   \/ \E k \in Id : Complete(k)
<1>1. \A k \in Id : /\ Exists(entry[k].path) => entry[k].path \in Path
                    /\ Exists(dest[k]) => dest[k] \in Path
  BY DEF Inv, Typed, Exists, MaybePath, Entries
<1>2. CASE UserRequest
  <2>1. ASSUME NEW k \in Id, k \in listed, Restart(k) PROVE Goal
    <3>1. file' = file \/ (entry[k].status = "mac_mismatch" /\ Exists(entry[k].path) /\ file' = Unlink(entry[k].path))
      BY <2>1 DEF Restart
    <3> QED
      BY <1>1, <2>1, <3>1 DEF MayUnlink
  <2>2. ASSUME NEW k \in Id, RemoveIdle(k) PROVE Goal
    BY <1>1, <2>2 DEF RemoveIdle, IsGarbage, MayUnlink
  <2>3. CASE \E k \in Id : RetryDuplicate(k) \/ Pause(k) \/ Resume(k)
    BY <2>1, <2>3 DEF RetryDuplicate, Pause, Resume, fileVars
  <2>4. CASE StopAll \/ ClearFinished \/ (\E l \in Link : CreateDownload(l)) \/ (\E k \in Id : CancelTransfer(k))
    <3>1. file' = file
      BY <2>4 DEF CreateDownload, CancelTransfer, StopAll, ClearFinished, fileVars
    <3> QED
      BY <3>1
  <2> QED
    BY <1>2, <2>2, <2>3, <2>4 DEF UserRequest
<1>3. ASSUME NEW k \in Id, HandlerStep(k) PROVE Goal
  <2>1. CASE ClearNext(k)
    <3>1. writes # <<>> /\ Head(writes).by = "clear" /\ Head(writes).id = k /\ Typed
      BY <2>1 DEF ClearNext, Commits, Inv
    <3>2. Called("clear", k)
      BY <3>1, Headed DEF Typed, Called
    <3> QED
      BY <1>1, <2>1, <3>2 DEF ClearNext, IsGarbage, MayUnlink
  <2> QED
    BY <1>3, <2>1 DEF HandlerStep, Announce, CreateTask, PopRemoved, LastCallReturns, fileVars
<1>4. ASSUME NEW k \in Id, TaskStep(k) PROVE Goal
  <2>1. ASSUME Cancelled(k), Live(k), task[k] # "closing" PROVE Goal
    <3>1. entry[k].status # "done"
      BY <2>1 DEF Inv, Local, NotDone, AtWork
    <3> QED
      BY <1>1, <2>1, <3>1 DEF Cancelled, MayUnlink
  <2>2. CASE DeliverCancel(k)
    BY <2>1, <2>2 DEF DeliverCancel, Interrupted, Calling
  <2>3. CASE Unwound(k)
    BY <2>1, <2>3 DEF Unwound, Step, Live
  <2>4. CASE OpenFile(k) \/ Complete(k)
    BY <2>4 DEF OpenFile
  <2>5. CASE StartTask(k) \/ Resolve(k) \/ CallReturns(k) \/ Queue(k) \/ EnterSlot(k) \/ Fail(k) \/ Close(k)
    <3>1. file' = file
      BY <2>5 DEF StartTask, Resolve, CallReturns, Queue, EnterSlot, Fail, Close, fileVars
    <3> QED
      BY <3>1
  <2> QED
    BY <1>4, <2>2, <2>3, <2>4, <2>5 DEF TaskStep
<1>5. CASE Crash
  BY <1>5 DEF Crash
<1> QED
  BY <1>2, <1>3, <1>4, <1>5 DEF Next

LEMMA PlainStays ==
  ASSUME Inv, Next, Plain'
  PROVE  ~Crash /\ Plain /\ serial' = serial
<1>1. CASE Crash
  BY <1>1 DEF Crash, Plain, Inv, Typed
<1>2. ASSUME UNCHANGED fixedVars PROVE ~Crash /\ Plain /\ serial' = serial
  BY <1>2 DEF fixedVars, Plain, Crash, Inv, Typed
<1>3. CASE UserRequest
  BY <1>2, <1>3 DEF UserRequest, CreateDownload, RetryDuplicate, Restart, Pause, Resume, CancelTransfer,
     RemoveIdle, StopAll, ClearFinished
<1>4. ASSUME NEW k \in Id, HandlerStep(k) PROVE UNCHANGED fixedVars
  BY <1>4 DEF HandlerStep, Announce, CreateTask, PopRemoved, LastCallReturns, ClearNext, scopeVars,
     fixedVars
<1>5. ASSUME NEW k \in Id, TaskStep(k) PROVE UNCHANGED fixedVars
  BY <1>5 DEF TaskStep, StartTask, Resolve, CallReturns, Queue, EnterSlot, OpenFile, Complete, Fail,
     DeliverCancel, Unwound, Close, OtherVars, scopeVars, fixedVars
<1> QED
  BY <1>1, <1>2, <1>3, <1>4, <1>5 DEF Next

\* What a download that is about to write has to do with the file of one that is
\* done: nothing.
LEMMA OpensItsOwn ==
  ASSUME Inv, FilesNamed, Plain, NEW k \in Id, task[k] = "starting"
  PROVE  /\ dest[k] \in Path /\ dest[k][1] = entry[k].link
         /\ Opened(k) = [link |-> entry[k].link, whole |-> FALSE] /\ entry[k].link \in Link
         /\ Orderly => \A i \in listed : entry[i].status = "done" => entry[i].path # dest[k]
<1>1. dest[k] \in Path /\ dest[k] # Nothing /\ entry[k].link \in Link /\ entry[k].status # "done" /\ AtWork(k)
  BY DEF Inv, Typed, Local, HasDest, AtFile, InSlot, HasLink, NotDone, AtWork, Live, MaybePath
<1>2. dest[k][1] = entry[k].link
  BY <1>1 DEF Inv, PathsNamed, PathsOf, OfLink, Live
<1>3. Opened(k) = [link |-> entry[k].link, whole |-> FALSE]
  BY <1>1, <1>2 DEF Opened, FilesNamed, Exists
<1>4. ASSUME Orderly, NEW i \in listed, entry[i].status = "done", entry[i].path = dest[k] PROVE FALSE
  <2>1. entry[i].link = entry[k].link
    BY <1>1, <1>2, <1>4 DEF Inv, Typed, PathsNamed, PathsOf, OfLink
  <2>2. k \in listed
    BY <1>1, <1>4 DEF Inv, OrderlyPart, OrderlyOne, Pending
  <2> QED
    BY <1>1, <1>4, <2>1, <2>2 DEF Inv, OneEntryPerLink, LinkListedOnce, Plain
<1> QED
  BY <1>1, <1>2, <1>3, <1>4

LEMMA CompleteWrites ==
  ASSUME Inv, file \in [Path -> Files], NEW k \in Id, Complete(k)
  PROVE  /\ file' \in [Path -> Files] /\ task[k] = "running" /\ dest[k] # Nothing
         /\ \A p \in Path : /\ file[p] = Nothing => file'[p] = Nothing
                            /\ file[p] # Nothing => file'[p].link = file[p].link
                            /\ file[p] # Nothing => (file[p].whole => file'[p].whole)
                            /\ p # dest[k] => file'[p] = file[p]
         /\ file[dest[k]] # Nothing /\ file[dest[k]].link = entry[k].link => file'[dest[k]].whole
<1>1. task[k] = "running"
  BY DEF Complete, Step
<1>2. dest[k] # Nothing /\ dest[k] \in Path
  BY <1>1 DEF Inv, Typed, Local, HasDest, AtFile, InSlot, MaybePath
<1> DEFINE r == [file[dest[k]] EXCEPT !.whole = TRUE]
<1>3. CASE Exists(dest[k]) /\ file[dest[k]].link \in {entry[k].link, Mixed}
  <2>1. file' = [file EXCEPT ![dest[k]] = r]
    BY <1>3 DEF Complete
  <2>2. file[dest[k]] \in [link : Link \cup {Mixed}, whole : BOOLEAN]
    BY <1>2, <1>3 DEF Exists, Files
  <2>3. r \in [link : Link \cup {Mixed}, whole : BOOLEAN] /\ r.link = file[dest[k]].link /\ r.whole
    BY <2>2
  <2> HIDE DEF r
  <2>4. /\ file'[dest[k]] = r /\ file' \in [Path -> Files]
        /\ \A p \in Path : p # dest[k] => file'[p] = file[p]
    BY <1>2, <2>1, <2>3 DEF Files
  <2>5. file[dest[k]] # Nothing
    BY <1>3 DEF Exists
  <2> QED
    BY <1>1, <1>2, <2>3, <2>4, <2>5
<1>4. CASE ~(Exists(dest[k]) /\ file[dest[k]].link \in {entry[k].link, Mixed})
  <2>1. file' = file
    BY <1>4 DEF Complete
  <2> QED
    BY <1>1, <1>2, <1>4, <2>1 DEF Exists
<1> QED
  BY <1>3, <1>4

LEMMA FilesTypedStep ==
  ASSUME Inv, FileInv, Next
  PROVE  file' \in [Path -> Files]
<1>1. CASE file' = file
  BY <1>1 DEF FileInv
<1>2. ASSUME NEW p \in Path, file' = Unlink(p) PROVE file' \in [Path -> Files]
  BY <1>2 DEF FileInv, Unlink, Files
<1>3. ASSUME NEW k \in Id, OpenFile(k), file' = [file EXCEPT ![dest[k]] = Opened(k)]
      PROVE  file' \in [Path -> Files]
  <2>1. entry[k].link \in Link
    BY <1>3 DEF Inv, Local, HasLink, OpenFile, Step, Live
  <2>2. Opened(k) \in Files
    BY <2>1 DEF Opened, Files
  <2> QED
    BY <1>3, <2>2 DEF FileInv
<1>4. ASSUME NEW k \in Id, Complete(k) PROVE file' \in [Path -> Files]
  BY <1>4, CompleteWrites DEF FileInv
<1> QED
  BY <1>1, <1>2, <1>3, <1>4, FileChanges

LEMMA FilesNamedStep ==
  ASSUME Inv, FileInv, Next, Plain'
  PROVE  \A p \in Path : file'[p] # Nothing => file'[p].link = p[1]
<1>0. Plain
  BY PlainStays
<1>1. CASE file' = file
  BY <1>0, <1>1 DEF FileInv, FilesNamed
<1>2. ASSUME NEW q \in Path, file' = Unlink(q)
      PROVE  \A p \in Path : file'[p] # Nothing => file'[p].link = p[1]
  BY <1>0, <1>2 DEF FileInv, FilesNamed, Unlink
<1>3. ASSUME NEW k \in Id, OpenFile(k), file' = [file EXCEPT ![dest[k]] = Opened(k)]
      PROVE  \A p \in Path : file'[p] # Nothing => file'[p].link = p[1]
  <2>1. Opened(k).link = dest[k][1] /\ dest[k] \in Path
    BY <1>0, <1>3, OpensItsOwn DEF FileInv, OpenFile, Step
  <2> QED
    BY <1>0, <1>3, <2>1 DEF FileInv, FilesNamed
<1>4. ASSUME NEW k \in Id, Complete(k)
      PROVE  \A p \in Path : file'[p] # Nothing => file'[p].link = p[1]
  BY <1>0, <1>4, CompleteWrites DEF FileInv, FilesNamed
<1> QED
  BY <1>1, <1>2, <1>3, <1>4, FileChanges

LEMMA DoneWholeStep ==
  ASSUME Inv, FileInv, Next, Orderly'
  PROVE  DoneWhole'
<1>0. Plain /\ Orderly /\ ~Crash
  BY PlainStays DEF Orderly, Plain
<1>1. SUFFICES ASSUME NEW i \in Id, DoneFile(i)' PROVE file'[entry'[i].path].whole
  BY DEF DoneWhole
<1> DEFINE p == entry[i].path
<1>2. /\ i \in listed /\ entry'[i].path = p /\ entry'[i].link = entry[i].link
      /\ entry[i].status = "done" \/ Complete(i)
      /\ p # Nothing /\ file'[p] # Nothing
  BY <1>0, <1>1, EntryChanges DEF DoneFile, Exists
<1>3. p \in Path /\ p[1] = entry[i].link
  BY <1>0, <1>2 DEF Inv, Typed, Entries, MaybePath, PathsNamed, PathsOf, OfLink
<1> HIDE DEF p
<1>4. entry[i].status = "done" /\ file[p] # Nothing => file[p].whole
  BY <1>0, <1>2 DEF FileInv, DoneWhole, DoneFile, Exists, p
<1>5. CASE Complete(i)
  <2>1. p = dest[i]
    BY <1>0, <1>5 DEF Inv, PathsNamed, PathsOf, AtFile, InSlot, Complete, Step, p
  <2>2. file[p] # Nothing /\ file[p].link = entry[i].link
    BY <1>0, <1>2, <1>3, <1>5, CompleteWrites DEF FileInv, FilesNamed
  <2> QED
    BY <1>2, <1>5, <2>1, <2>2, CompleteWrites DEF FileInv
<1>6. CASE entry[i].status = "done"
  <2>1. CASE file' = file
    BY <1>2, <1>4, <1>6, <2>1
  <2>2. ASSUME NEW q \in Path, file' = Unlink(q) PROVE file'[p].whole
    BY <1>2, <1>3, <1>4, <1>6, <2>2 DEF Unlink, FileInv
  <2>3. ASSUME NEW k \in Id, OpenFile(k), file' = [file EXCEPT ![dest[k]] = Opened(k)]
        PROVE  file'[p].whole
    <3>1. p # dest[k] /\ dest[k] \in Path
      BY <1>0, <1>2, <1>6, <2>3, OpensItsOwn DEF FileInv, OpenFile, Step, p
    <3> QED
      BY <1>2, <1>3, <1>4, <1>6, <2>3, <3>1 DEF FileInv
  <2>4. ASSUME NEW k \in Id, Complete(k) PROVE file'[p].whole
    BY <1>2, <1>3, <1>4, <1>6, <2>4, CompleteWrites DEF FileInv
  <2> QED
    BY <1>2, <2>1, <2>2, <2>3, <2>4, FileChanges
<1> QED
  BY <1>2, <1>5, <1>6

LEMMA HandApartStep ==
  ASSUME Inv, FileInv, Next
  PROVE  HandApart'
<1>1. SUFFICES ASSUME Orderly', NEW j \in Id, Called("clear", j)'
               PROVE  OfLink(j, entry[j].path)' /\ \A i \in listed' : entry'[i].link # entry'[j].link
  BY DEF HandApart
<1>2. Plain' /\ Plain /\ ~Crash /\ Orderly
  BY <1>1, PlainStays DEF Orderly, Plain
<1>3. CASE Pops(j)
  BY <1>2, <1>3 DEF Pops, Inv, Typed, OneEntryPerLink, LinkListedOnce, PathsNamed, PathsOf, OfLink, Plain
<1>4. CASE Called("clear", j)
  <2>1. /\ OfLink(j, entry[j].path) /\ j \notin listed
        /\ \A i \in listed : entry[i].link # entry[j].link
    BY <1>2, <1>4 DEF FileInv, HandApart
  <2>2. ~Request
    BY <1>2, <1>4, RequestAlone DEF Inv, Orderly
  <2>3. ~AtWork(j)
    BY <1>2, <2>1 DEF Inv, OrderlyPart, OrderlyOne, Pending
  <2>4. ~UserRequest
    BY <2>2 DEF UserRequest, CreateDownload, RetryDuplicate, Pause, Resume, CancelTransfer, RemoveIdle,
       StopAll, ClearFinished
  <2>5. ASSUME NEW k \in Id, HandlerStep(k) PROVE listed' \subseteq listed /\ entry' = entry
    BY <2>5 DEF HandlerStep, Announce, CreateTask, PopRemoved, LastCallReturns, ClearNext, PopFinished
  <2>6. ASSUME NEW k \in Id, TaskStep(k) PROVE listed' = listed /\ entry'[j].path = entry[j].path
    <3>1. listed' = listed
      BY <2>6 DEF TaskStep, StartTask, Resolve, CallReturns, Queue, EnterSlot, OpenFile, Complete, Fail,
         DeliverCancel, Unwound, Close, OtherVars
    <3>2. CASE k # j
      BY <2>6, <3>2 DEF Inv, Typed, TaskStep, StartTask, Resolve, CallReturns, Queue, EnterSlot, OpenFile,
         SetStatus, Complete, Fail, DeliverCancel, Cancelled, Unwound, Close, OtherVars
    <3>3. CASE k = j
      <4>1. task[j] \in {"none", "killed", "closing"}
        BY <2>3 DEF AtWork, Live
      <4>2. Close(j) \/ DeliverCancel(j)
        BY <2>6, <3>3, <4>1 DEF TaskStep, StartTask, Resolve, CallReturns, Calling, Queue, EnterSlot,
           OpenFile, Complete, Fail, Unwound, Step
      <4> QED
        BY <3>1, <4>1, <4>2 DEF Close, DeliverCancel, Interrupted, Calling
    <3> QED
      BY <3>1, <3>2, <3>3
  <2>7. listed' \subseteq listed /\ entry'[j].path = entry[j].path
    BY <1>2, <2>4, <2>5, <2>6 DEF Next
  <2>8. \A i \in listed \cup {j} : entry'[i].link = entry[i].link
    BY <1>2, <2>1, <2>2, EntryChanges DEF Inv, Typed
  <2> QED
    BY <2>1, <2>7, <2>8 DEF OfLink
<1> QED
  BY <1>1, <1>2, <1>3, <1>4, ClearCalls

LEMMA FileInvStep == Inv /\ FileInv /\ [Next]_vars => FileInv'
<1>1. SUFFICES ASSUME Inv, FileInv, [Next]_vars PROVE FileInv'
  OBVIOUS
<1>2. CASE Next
  <2>1. FilesNamed'
    BY <1>1, <1>2, FilesNamedStep DEF FilesNamed
  <2>2. DoneWhole'
    <3>1. CASE Orderly'
      BY <1>1, <1>2, <3>1, DoneWholeStep
    <3>2. CASE ~Orderly'
      BY <3>2 DEF DoneWhole
    <3> QED
      BY <3>1, <3>2
  <2> QED
    BY <1>1, <1>2, <2>1, <2>2, FilesTypedStep, HandApartStep DEF FileInv
<1>3. CASE UNCHANGED vars
  BY <1>1, <1>3 DEF vars, fileVars, taskVars, dbVars, scopeVars, fixedVars, FileInv, FilesNamed,
     DoneWhole, DoneFile, Exists, HandApart, Called, OfLink, Plain, Orderly
<1> QED
  BY <1>1, <1>2, <1>3

LEMMA FileInvInit == Init => FileInv
<1>1. SUFFICES ASSUME Init PROVE FileInv
  OBVIOUS
<1>2. \A i \in Id : ~Called("clear", i)
  BY <1>1, EmptySeq DEF Init, Called, Pend
<1> QED
  BY <1>1, <1>2 DEF Init, FileInv, Files, FilesNamed, DoneWhole, DoneFile, HandApart

-----------------------------------------------------------------------------
(* The theorems.                                                            *)

THEOREM Invariance == Spec => []Inv
<1> QED
  BY InvInit, InvStep, PTL DEF Spec

\* No link is in the queue twice within one life of the process, whatever
\* handlers and tasks interleave (routes_transfers.py:324-329).
THEOREM LinksStayUnique == Spec => []OneEntryPerLink
<1>1. Inv => OneEntryPerLink
  BY DEF Inv
<1> QED
  BY <1>1, Invariance, PTL

\* Nothing that resume or a repeated link would relaunch has a task or a handler
\* about to create one (routes_transfers.py:_restart_download).
THEOREM NoDoubleLaunch == Spec => []NeverLaunchedTwice
<1> QED
  BY InvNotTwice, Invariance, PTL

\* The rows are enough to rebuild the queue whenever the process may die
\* (routes_transfers.py:56-61): though a row is written after a wait for the
\* database lock, may be given up by a cancel, and the entry has changed since.
THEOREM QueueAlwaysSurvives == Spec => []QueueSurvives
<1>1. Inv => QueueSurvives
  <2>1. SUFFICES ASSUME Inv, NEW i \in listed, entry[i].status # "done", ~entry[i].removed
                 PROVE  /\ Waits("create", i) \/ (row[i] # Nothing /\ row[i].link = entry[i].link)
                        /\ \/ Unwritten(i) \/ task[i] \in {"closing", "killed"}
                           \/ row[i].path = entry[i].path
    BY DEF QueueSurvives
  <2>2. i \in Id /\ Backed(i) /\ (Ending(i) \/ PathWritten(i))
    BY <2>1 DEF Inv, Typed, Local, Kept, Gone
  <2>3. (\E c \in Pend(writes, i) : c.by = "create") => Waits("create", i)
    BY DEF Pend, Waits
  <2>4. ~Unwritten(i) => Pend(writes, i) = {}
    BY DEF Pend, Unwritten
  <2> QED
    BY <2>2, <2>3, <2>4 DEF Backed, Restores, Ending, PathWritten, Ends
<1> QED
  BY <1>1, Invariance, PTL

\* No two downloads are at the same file, in their first launch or while requests
\* are orderly (state.py:92-95).
THEOREM WritersNeverMeet == Spec => []OneWriterPerFile
<1>1. Inv => OneWriterPerFile
  <2>1. SUFFICES ASSUME Inv, Orderly \/ ~restarted, NEW i \in Id, NEW j \in Id, i # j,
                        AtFile(i), AtFile(j), dest[i] = dest[j]
                 PROVE  FALSE
    BY DEF OneWriterPerFile, SharedFile
  <2>2. dest[i] # Nothing /\ AtWork(i) /\ AtWork(j) /\ Live(i) /\ Live(j)
    BY <2>1 DEF Inv, Local, HasDest, AtFile, InSlot, Live, AtWork
  <2>3. CASE ~restarted
    BY <2>1, <2>2, <2>3 DEF Inv, FirstLaunch, Holds
  <2>4. CASE Orderly
    <3>1. /\ i \in listed /\ j \in listed /\ entry[i].link = entry[j].link
      BY <2>1, <2>2, <2>4 DEF Inv, OrderlyPart, OrderlyOne, Pending, Orderly, Plain, PathsNamed, PathsOf,
         OfLink
    <3> QED
      BY <2>1, <2>4, <3>1 DEF Inv, Orderly, OneEntryPerLink, LinkListedOnce
  <2> QED
    BY <2>1, <2>3, <2>4
<1> QED
  BY <1>1, Invariance, PTL

LEMMA FileInvariance == Spec => []FileInv
<1> QED
  BY FileInvInit, FileInvStep, Invariance, PTL DEF Spec

\* "Done" means whole while requests are orderly: the file of a finished download
\* holds the link's bytes and no others, though a resume looks only at its size
\* (download.py:320-333), for any number of downloads and slots.
THEOREM DoneMeansWhole == Spec => [](Orderly => WholeWhenDone)
<1>1. Inv /\ FileInv => (Orderly => WholeWhenDone)
  <2>1. SUFFICES ASSUME Inv, FileInv, Orderly, Plain, NEW i \in Id, DoneFile(i)
                 PROVE  file[entry[i].path] = Own(i)
    BY DEF WholeWhenDone, Plain, Orderly
  <2>2. entry[i].path \in Path /\ entry[i].path # Nothing /\ file[entry[i].path] # Nothing /\ i \in listed
    BY <2>1 DEF DoneFile, Exists, Inv, Typed, Entries, MaybePath
  <2>3. file[entry[i].path].link = entry[i].link
    BY <2>1, <2>2 DEF Inv, PathsNamed, PathsOf, OfLink, FileInv, FilesNamed
  <2>4. file[entry[i].path].whole
    BY <2>1 DEF FileInv, DoneWhole
  <2>5. file[entry[i].path] \in [link : Link \cup {Mixed}, whole : BOOLEAN]
    BY <2>1, <2>2 DEF FileInv, Files
  <2> QED
    BY <2>3, <2>4, <2>5 DEF Own
<1> QED
  BY <1>1, Invariance, FileInvariance, PTL

\* While requests are orderly no removal, clear or retry of any transfer
\* deletes the file of a finished download (routes_transfers.py:127, 255).
THEOREM DoneFilesNeverGo == Spec => DoneFileKept
<1>1. Inv /\ FileInv /\ [Next]_vars => [Orderly => DoneFilesStay]_vars
  <2>1. SUFFICES ASSUME Inv, FileInv, Next, Orderly, NEW i \in Id, DoneFile(i)
                 PROVE  file'[entry[i].path] # Nothing
    BY DEF DoneFilesStay
  <2> DEFINE p == entry[i].path
  <2>2. /\ p \in Path /\ p # Nothing /\ file[p] # Nothing /\ i \in listed /\ entry[i].status = "done" /\ Plain
        /\ p[1] = entry[i].link
    BY <2>1 DEF DoneFile, Exists, Inv, Typed, Entries, MaybePath, PathsNamed, PathsOf, OfLink, Orderly,
       Plain
  <2> HIDE DEF p
  <2>3. ASSUME NEW k \in Id, MayUnlink(k, p) PROVE FALSE
    <3>1. Called("clear", k) \/ k \in listed
      BY <2>1, <2>3 DEF MayUnlink, Inv, OrderlyPart, OrderlyOne, AtWork, Pending
    <3>2. p[1] = entry[k].link
      BY <2>1, <2>2, <2>3 DEF MayUnlink, Inv, PathsNamed, PathsOf, OfLink, FileInv, HandApart
    <3>3. k # i
      BY <2>2, <2>3 DEF MayUnlink
    <3> QED
      BY <2>1, <2>2, <3>1, <3>2, <3>3 DEF FileInv, HandApart, Inv, OneEntryPerLink, LinkListedOnce, Orderly
  <2>4. ASSUME NEW k \in Id, NEW q \in Path, MayUnlink(k, q), file' = Unlink(q) PROVE file'[p] # Nothing
    BY <2>2, <2>3, <2>4 DEF Unlink, FileInv
  <2>5. ASSUME NEW k \in Id, OpenFile(k), file' = [file EXCEPT ![dest[k]] = Opened(k)]
        PROVE  file'[p] # Nothing
    <3>1. p # dest[k] /\ dest[k] \in Path
      BY <2>1, <2>2, <2>5, OpensItsOwn DEF FileInv, OpenFile, Step, p
    <3> QED
      BY <2>2, <2>5, <3>1 DEF FileInv
  <2>6. ASSUME NEW k \in Id, Complete(k) PROVE file'[p] # Nothing
    <3>1. task[k] = "running" /\ dest[k] # Nothing
      BY <2>1, <2>6, CompleteWrites DEF FileInv
    <3>2. k \in listed /\ k # i
      BY <2>1, <2>2, <3>1 DEF Inv, OrderlyPart, OrderlyOne, AtWork, Pending, Live, TERMINAL_STATUS_KEYS
    <3>3. p # dest[k]
      BY <2>1, <2>2, <3>1, <3>2 DEF Inv, PathsNamed, PathsOf, OfLink, Live, OneEntryPerLink,
         LinkListedOnce, Orderly
    <3> QED
      BY <2>1, <2>2, <2>6, <3>3, CompleteWrites DEF FileInv
  <2> QED
    BY <2>1, <2>2, <2>4, <2>5, <2>6, FileChanges DEF p
<1> QED
  BY <1>1, Invariance, FileInvariance, PTL DEF Spec, DoneFileKept

=============================================================================
