------------------------ MODULE UploadPipelineProofs ------------------------
(***************************************************************************)
(* Theorems about UploadPipeline, for every number of chunks, slots,       *)
(* retries, pauses and cancels.                                            *)
(***************************************************************************)
EXTENDS UploadPipeline, FiniteSetTheorems, SequenceTheorems, TLAPS

State == Holding \cup {"absent", "new", "waiting", "folded", "failed", "cancelled"}

Typed ==
    /\ total_chunks \in 0..MaxChunks /\ next_id \in 1..(total_chunks + 1)
    /\ claims \in Int
    /\ task \in [Chunk -> State] /\ answer \in [Chunk -> BOOLEAN]
    /\ stored \subseteq InFile

\* Only the file's chunks have tasks, and all of these start together.
TasksOfFile ==
    /\ \A c \in Chunk \ InFile : task[c] = "absent"
    /\ phase \in {"queued", "reserving"} => claims = Slots /\ \A c \in Chunk : task[c] = "absent"
    /\ (\E c \in Chunk : task[c] = "new") => \A c \in Chunk : task[c] \in {"absent", "new"}

\* The MAC has folded the chunks before next_id.
FoldedInOrder ==
    /\ mac = [i \in 1..(next_id - 1) |-> i]
    /\ \A c \in 1..(next_id - 1) : task[c] = "folded"

\* What was answered is stored.
StoredBehind == \A c \in Chunk : task[c] \in {"stored", "pending", "folded"} => c \in stored

\* Only a run that has folded everything completes, and only one that
\* completes registers a node, with its MAC.
Outcome ==
    /\ result \in {"complete", "no_handle"} \/ finish_sent => next_id = total_chunks + 1
    /\ phase \in {"queued", "reserving", "transfer"} => result = "none" /\ ~finish_sent
    /\ result = "complete" => phase \in {"unwinding", "finishing"}
    /\ phase = "finishing" => result = "complete"
    /\ result = "no_handle" => phase = "ended" /\ ~completion_handle
    /\ node # NoNode => finish_sent /\ node = mac

\* The handle is there, or on its way with the answer to a stored chunk.
HandleKept ==
    ~lost /\ stored = InFile /\ total_chunks > 0 =>
        \/ completion_handle \/ result \in {"error", "cancelled"}
        \/ \E c \in Chunk : task[c] = "stored" /\ answer[c]

Inv ==
    /\ Typed /\ TasksOfFile /\ ClaimsAccounted /\ FoldedInOrder
    /\ StoredBehind /\ Outcome /\ HandleKept

-----------------------------------------------------------------------------
(* Lemmas on the permits and the MAC.                                       *)

LEMMA Chunks ==
    /\ MaxChunks \in Nat /\ Slots \in Nat /\ IsFiniteSet(Chunk) /\ Chunk \subseteq Nat
    /\ \A states : InTask(states) \subseteq Chunk /\ IsFiniteSet(InTask(states))
<1>1. MaxChunks \in Nat /\ Slots \in Nat /\ IsFiniteSet(Chunk) /\ Chunk \subseteq Nat
  BY UploadAssumption, FS_Interval DEF Chunk
<1> QED
  BY <1>1, FS_Subset DEF InTask

\* Only a chunk of the file has a task that holds a permit.
LEMMA HolderInFile ==
    ASSUME Inv, NEW c \in Chunk, task[c] \in Holding
    PROVE  c \in InFile /\ c >= next_id /\ phase \notin {"queued", "reserving"}
<1>1. c \in InFile
  BY DEF Inv, TasksOfFile, Holding, Posting
<1>2. c \notin 1..(next_id - 1)
  BY DEF Inv, FoldedInOrder, Holding, Posting
<1>3. c \in Nat /\ next_id \in Nat /\ c >= 1
  BY Chunks, <1>1 DEF Inv, Typed, InFile
<1>4. phase \notin {"queued", "reserving"}
  BY DEF Inv, TasksOfFile, Holding, Posting
<1> QED
  BY <1>1, <1>2, <1>3, <1>4

\* No permits given back wake nobody.
LEMMA NobodyGranted == LongestWaiting(0) = {}
<1>1. ASSUME NEW c \in Waiting
      PROVE  ~(Cardinality({w \in Waiting : w < c}) < 0)
  <2>1. {w \in Waiting : w < c} \subseteq Waiting /\ IsFiniteSet(Waiting)
    BY Chunks DEF Waiting
  <2>2. Cardinality({w \in Waiting : w < c}) \in Nat
    BY <2>1, FS_Subset, FS_CardinalityType
  <2> QED
    BY <2>2
<1> QED
  BY <1>1 DEF LongestWaiting

\* Permits given back are free again, or with the tasks that waited longest.
LEMMA ReleaseKeepsCount ==
    ASSUME Typed, claims + Cardinality(InTask(Holding)) = Slots,
           NEW F \in SUBSET InTask(Holding), NEW n \in Int, Cardinality(F) = n,
           NEW s \in {"failed", "folded"}, task' = Moved(F, s, n), Release(n)
    PROVE  claims' \in Int /\ claims' + Cardinality(InTask(Holding)') = Slots
<1> DEFINE H == InTask(Holding)
           L == LongestWaiting(n)
<1>1. H \subseteq Chunk /\ IsFiniteSet(H) /\ L \subseteq Waiting /\ IsFiniteSet(Waiting)
  BY Chunks DEF LongestWaiting, Waiting
<1>2. IsFiniteSet(F) /\ IsFiniteSet(L) /\ IsFiniteSet(H \ F) /\ IsFiniteSet((H \ F) \cup L)
  BY <1>1, FS_Subset, FS_Union
<1>3. L \cap H = {} /\ L \subseteq Chunk
  BY <1>1 DEF Waiting, InTask, Holding, Posting
<1> HIDE DEF L
<1>4. InTask(Holding)' = (H \ F) \cup L
  <2>1. task' = [c \in Chunk |-> IF c \in F THEN s ELSE IF c \in L THEN "granted" ELSE task[c]]
    BY DEF Moved, L
  <2>2. s \notin Holding /\ "granted" \in Holding
    BY DEF Holding, Posting
  <2>3. InTask(Holding)' = {c \in Chunk : task'[c] \in Holding}
    BY DEF InTask, Holding, Posting
  <2>4. H = {c \in Chunk : task[c] \in Holding}
    BY DEF InTask
  <2> HIDE DEF H
  <2>5. ASSUME NEW c \in Chunk
        PROVE  task'[c] \in Holding <=> c \in (H \ F) \cup L
    <3>1. task'[c] = IF c \in F THEN s ELSE IF c \in L THEN "granted" ELSE task[c]
      BY <2>1
    <3>2. c \in H <=> task[c] \in Holding
      BY <2>4
    <3>3. c \in L => c \notin H
      BY <1>3
    <3>4. c \in F => c \in H
      BY DEF H
    <3>5. c \in (H \ F) \cup L <=> (c \in H /\ c \notin F) \/ c \in L
      OBVIOUS
    <3> QED
      BY <2>2, <3>1, <3>2, <3>3, <3>4, <3>5
  <2> QED
    BY <2>3, <2>5, <1>1, <1>3
<1>5. Cardinality(H \ F) = Cardinality(H) - n
  <2>1. H \cap F = F
    OBVIOUS
  <2> QED
    BY <1>1, <2>1, FS_Difference
<1>6. Cardinality((H \ F) \cup L) = Cardinality(H \ F) + Cardinality(L)
  <2>1. (H \ F) \cap L = {}
    BY <1>3
  <2>2. Cardinality((H \ F) \cap L) = 0
    BY <2>1, FS_EmptySet
  <2>3. Cardinality(H \ F) \in Nat /\ Cardinality(L) \in Nat
    BY <1>2, FS_CardinalityType
  <2> DEFINE A == H \ F
  <2>4. IsFiniteSet(A) /\ Cardinality(A \cap L) = 0 /\ Cardinality(A) \in Nat
    BY <1>2, <2>2, <2>3
  <2> HIDE DEF A
  <2>5. Cardinality(A \cup L) = Cardinality(A) + Cardinality(L) - Cardinality(A \cap L)
    BY <1>2, <2>4, FS_Union
  <2>6. Cardinality(A \cup L) = Cardinality(A) + Cardinality(L)
    BY <2>3, <2>4, <2>5
  <2> QED
    BY <2>6 DEF A
<1>7. Cardinality(H) \in Nat /\ Cardinality(L) \in Nat /\ claims \in Int /\ Slots \in Nat
  BY <1>1, <1>2, FS_CardinalityType, Chunks DEF Typed
<1>8. claims' = claims + n - Cardinality(L)
  BY DEF Release, L
<1> HIDE DEF H
<1>9. claims + Cardinality(H) = Slots
  BY DEF H
<1> QED
  BY <1>4, <1>5, <1>6, <1>7, <1>8, <1>9

\* Folding the chunks from one on prolongs the MAC.
LEMMA FoldProlongs ==
    ASSUME NEW m \in Nat \ {0}, NEW k \in Nat, m <= k
    PROVE  [i \in 1..(m - 1) |-> i] \o [i \in 1..(k - m) |-> m + i - 1] = [i \in 1..(k - 1) |-> i]
<1> DEFINE s == [i \in 1..(m - 1) |-> i]
           t == [i \in 1..(k - m) |-> m + i - 1]
           u == [i \in 1..(k - 1) |-> i]
<1>1. s \in Seq(Nat) /\ t \in Seq(Nat) /\ u \in Seq(Nat)
  <2>1. m - 1 \in Nat /\ k - m \in Nat /\ k - 1 \in Nat
    OBVIOUS
  <2>2. s \in [1..(m - 1) -> Nat] /\ t \in [1..(k - m) -> Nat] /\ u \in [1..(k - 1) -> Nat]
    OBVIOUS
  <2> QED
    BY <2>1, <2>2, SeqDef
<1>2. Len(s) = m - 1 /\ Len(t) = k - m /\ Len(u) = k - 1
  <2>1. DOMAIN s = 1..(m - 1) /\ DOMAIN t = 1..(k - m) /\ DOMAIN u = 1..(k - 1)
    OBVIOUS
  <2>2. m - 1 \in Nat /\ k - m \in Nat /\ k - 1 \in Nat
    OBVIOUS
  <2> HIDE DEF s, t, u
  <2>3. /\ Len(s) \in Nat /\ DOMAIN s = 1..Len(s)
        /\ Len(t) \in Nat /\ DOMAIN t = 1..Len(t)
        /\ Len(u) \in Nat /\ DOMAIN u = 1..Len(u)
    BY <1>1, LenProperties
  <2>4. \A a, b \in Nat : 1..a = 1..b => a = b
    OBVIOUS
  <2> QED
    BY <2>1, <2>2, <2>3, <2>4
<1>3. /\ \A i \in 1..(m - 1) : s[i] = i
      /\ \A i \in 1..(k - m) : t[i] = m + i - 1
      /\ \A i \in 1..(k - 1) : u[i] = i
  OBVIOUS
<1> HIDE DEF s, t, u
<1>4. /\ s \o t \in Seq(Nat) /\ Len(s \o t) = k - 1
      /\ \A i \in 1..(k - 1) : (s \o t)[i] = IF i <= m - 1 THEN s[i] ELSE t[i - (m - 1)]
  <2>1. /\ s \o t \in Seq(Nat) /\ Len(s \o t) = Len(s) + Len(t)
        /\ \A i \in 1..(Len(s) + Len(t)) : (s \o t)[i] = IF i <= Len(s) THEN s[i] ELSE t[i - Len(s)]
    BY <1>1, ConcatProperties
  <2>2. Len(s) + Len(t) = k - 1
    BY <1>2
  <2> QED
    BY <1>2, <2>1, <2>2
<1>5. \A i \in 1..Len(s \o t) : (s \o t)[i] = u[i]
  BY <1>3, <1>4
<1>6. s \o t = u
  BY <1>1, <1>2, <1>4, <1>5, SeqEqual
<1> QED
  BY <1>6 DEF s, t, u

-----------------------------------------------------------------------------
(* The steps of upload_one.                                                 *)

\* A handle that is there or on its way stays so, whatever other tasks do.
LEMMA HandleStays ==
    ASSUME HandleKept, lost => lost', UNCHANGED <<stored, total_chunks, answer>>,
           completion_handle => completion_handle',
           result' = result \/ result' \in {"error", "cancelled"}
                             \/ (result \notin {"error", "cancelled"}),
           \A d \in Chunk : task[d] = "stored" => task'[d] = "stored" \/ lost'
    PROVE  HandleKept'
BY DEF HandleKept, InFile

\* A task with a permit moves on and keeps it.
LEMMA HolderMoves ==
    ASSUME Inv, NEW c \in Chunk, task[c] \in Holding, NEW s \in Holding,
           task' = [task EXCEPT ![c] = s],
           UNCHANGED <<total_chunks, phase, result, next_id, mac, claims, finish_sent, node>>,
           answer' \in [Chunk -> BOOLEAN],
           stored' \subseteq InFile, stored \subseteq stored',
           s \in {"stored", "pending"} => c \in stored'
    PROVE  /\ Typed' /\ TasksOfFile' /\ ClaimsAccounted' /\ FoldedInOrder'
           /\ StoredBehind' /\ Outcome'
<1>1. c \in InFile /\ c >= next_id /\ phase \notin {"queued", "reserving"}
  BY HolderInFile
<1>2. /\ task \in [Chunk -> State] /\ task' \in [Chunk -> State] /\ task'[c] = s
      /\ \A d \in Chunk \ {c} : task'[d] = task[d]
  BY DEF Inv, Typed, State
<1>3. \A d \in Chunk : task[d] # "new"
  BY DEF Inv, TasksOfFile, Holding, Posting
<1>4. InFile' = InFile /\ s \notin {"new", "folded", "absent"}
  BY DEF InFile, Holding, Posting
<1>5. Typed'
  BY <1>2, <1>4 DEF Inv, Typed
<1>6. TasksOfFile'
  BY <1>1, <1>2, <1>3, <1>4 DEF Inv, TasksOfFile
<1>7. ClaimsAccounted'
  <2>1. InTask(Holding)' = InTask(Holding)
    BY <1>2 DEF InTask, Holding, Posting
  <2> QED
    BY <2>1 DEF Inv, ClaimsAccounted
<1>8. FoldedInOrder'
  <2>1. total_chunks \in Nat /\ next_id \in Nat /\ c \in Nat /\ total_chunks <= MaxChunks
        /\ next_id <= total_chunks + 1 /\ MaxChunks \in Nat
    BY Chunks, <1>1 DEF Inv, Typed, InFile
  <2>2. \A d \in 1..(next_id - 1) : d \in Chunk /\ d # c
    BY <1>1, <2>1 DEF Chunk
  <2> QED
    BY <1>2, <2>2 DEF Inv, FoldedInOrder
<1>9. StoredBehind'
  BY <1>2, <1>4 DEF Inv, StoredBehind
<1>10. Outcome'
  <2>1. result # "no_handle"
    <3>1. c <= total_chunks /\ c \in Nat /\ total_chunks \in Nat
      BY Chunks, <1>1 DEF Inv, Typed, InFile
    <3>2. next_id # total_chunks + 1
      BY <1>1, <3>1
    <3> QED
      BY <3>2 DEF Inv, Outcome
  <2> QED
    BY <2>1 DEF Inv, Outcome
<1> QED
  BY <1>5, <1>6, <1>7, <1>8, <1>9, <1>10

\* A step that changes only where one task is, and not to or from "stored".
LEMMA MovesInv ==
    ASSUME Inv, NEW c \in Chunk, task[c] \in Holding \ {"stored"},
           NEW s \in Holding \ {"stored", "pending"}, task' = [task EXCEPT ![c] = s],
           UNCHANGED <<answer, claims, completion_handle, runVars, remoteVars>>, lost => lost'
    PROVE  Inv'
<1>1. /\ Typed' /\ TasksOfFile' /\ ClaimsAccounted' /\ FoldedInOrder'
      /\ StoredBehind' /\ Outcome'
  BY HolderMoves DEF runVars, remoteVars, Inv, Typed
<1>2. \A d \in Chunk : task[d] = "stored" => task'[d] = "stored"
  BY DEF Inv, Typed
<1>3. HandleKept'
  BY <1>2, HandleStays DEF runVars, remoteVars, Inv
<1> QED
  BY <1>1, <1>3 DEF Inv

\* A failed chunk gives its permit back.
LEMMA UploadFailsInv ==
    ASSUME Inv, NEW c \in Chunk, task[c] \in Holding, UploadFails(c),
           lost => lost', task[c] = "stored" => lost'
    PROVE  Inv'
<1> DEFINE L == LongestWaiting(1)
<1>1. c \in InFile /\ c >= next_id /\ phase \notin {"queued", "reserving"}
  BY HolderInFile
<1>2. /\ task' = Moved({c}, "failed", 1) /\ Release(1)
      /\ UNCHANGED <<answer, completion_handle, stored, finish_sent, node>>
      /\ UNCHANGED <<total_chunks, phase, result, next_id, mac>>
  BY DEF UploadFails, remoteVars
<1>3. L \subseteq Chunk /\ IsFiniteSet(L) /\ \A d \in L : task[d] = "waiting"
  <2>1. L \subseteq Waiting /\ IsFiniteSet(Waiting) /\ Waiting \subseteq Chunk
    BY Chunks DEF LongestWaiting, Waiting
  <2>2. \A d \in Waiting : task[d] = "waiting"
    BY DEF Waiting, InTask
  <2> HIDE DEF L
  <2> QED
    BY <2>1, <2>2, FS_Subset
<1>4. /\ \A d \in Chunk : task'[d] = IF d = c THEN "failed" ELSE IF d \in L THEN "granted" ELSE task[d]
      /\ task \in [Chunk -> State] /\ task' \in [Chunk -> State]
  <2>1. task' = [d \in Chunk |-> IF d \in {c} THEN "failed" ELSE IF d \in L THEN "granted" ELSE task[d]]
    BY <1>2 DEF Moved
  <2>2. task \in [Chunk -> State] /\ "failed" \in State /\ "granted" \in State
    BY DEF Inv, Typed, State, Holding
  <2> HIDE DEF L
  <2> QED
    BY <2>1, <2>2
<1>5. \A d \in Chunk : task[d] # "new"
  BY DEF Inv, TasksOfFile, Holding, Posting
<1>6. InFile' = InFile
  BY <1>2 DEF InFile
<1>7. claims' \in Int
  BY <1>2, <1>3, FS_CardinalityType DEF Release, Inv, Typed
<1> HIDE DEF L
<1>8. Typed'
  BY <1>2, <1>4, <1>6, <1>7 DEF Inv, Typed
<1>9. TasksOfFile'
  <2>1. \A d \in Chunk \ InFile : task'[d] = "absent"
    BY <1>1, <1>3, <1>4 DEF Inv, TasksOfFile
  <2>2. \A d \in Chunk : task'[d] # "new"
    BY <1>4, <1>5
  <2> QED
    BY <1>1, <1>2, <1>6, <2>1, <2>2 DEF TasksOfFile
<1>10. ClaimsAccounted'
  <2>1. CASE phase = "transfer"
    <3>1. claims + Cardinality(InTask(Holding)) = Slots
      BY <2>1 DEF Inv, ClaimsAccounted
    <3>2. {c} \in SUBSET InTask(Holding) /\ Cardinality({c}) = 1
      BY FS_Singleton DEF InTask
    <3> QED
      BY <1>2, <3>1, <3>2, ReleaseKeepsCount DEF Inv, ClaimsAccounted
  <2> QED
    BY <1>2, <2>1 DEF ClaimsAccounted
<1>11. FoldedInOrder'
  <2>1. total_chunks \in Nat /\ next_id \in Nat /\ c \in Nat /\ total_chunks <= MaxChunks
        /\ next_id <= total_chunks + 1 /\ MaxChunks \in Nat
    BY Chunks, <1>1 DEF Inv, Typed, InFile
  <2>2. \A d \in 1..(next_id - 1) : d \in Chunk /\ d # c /\ task[d] = "folded" /\ d \notin L
    BY <1>1, <1>3, <2>1 DEF Chunk, Inv, FoldedInOrder
  <2> QED
    BY <1>2, <1>4, <2>2 DEF Inv, FoldedInOrder
<1>12. StoredBehind'
  BY <1>2, <1>4 DEF Inv, StoredBehind
<1>13. Outcome'
  BY <1>2 DEF Inv, Outcome
<1>14. HandleKept'
  <2>1. \A d \in Chunk : task[d] = "stored" => task'[d] = "stored" \/ lost'
    BY <1>3, <1>4
  <2> QED
    BY <1>2, <2>1, HandleStays DEF Inv
<1> QED
  BY <1>8, <1>9, <1>10, <1>11, <1>12, <1>13, <1>14 DEF Inv

\* The storage node gets a chunk, and says so with the handle or without.
LEMMA StoreChunkInv == ASSUME Inv, NEW c \in Chunk, StoreChunk(c) PROVE Inv'
<1>1. /\ task[c] = "posting" /\ task' = [task EXCEPT ![c] = "stored"]
      /\ stored' = stored \cup {c} /\ UNCHANGED <<total_chunks, phase, result, next_id, mac>>
      /\ UNCHANGED <<claims, completion_handle, finish_sent, node, lost>>
  BY DEF StoreChunk, runVars
<1>2. PICK handle \in BOOLEAN : /\ c \notin stored => handle = (stored' = InFile)
                               /\ answer' = [answer EXCEPT ![c] = handle]
  BY DEF StoreChunk
<1>3. /\ answer \in [Chunk -> BOOLEAN] /\ answer' \in [Chunk -> BOOLEAN]
      /\ answer'[c] = handle /\ \A d \in Chunk \ {c} : answer'[d] = answer[d]
  BY <1>2 DEF Inv, Typed
<1>4. task'[c] = "stored" /\ \A d \in Chunk \ {c} : task'[d] = task[d]
  BY <1>1 DEF Inv, Typed
<1>5. c \in InFile /\ task[c] \in Holding /\ "stored" \in Holding
  BY <1>1, HolderInFile DEF Holding, Posting
<1>6. /\ Typed' /\ TasksOfFile' /\ ClaimsAccounted' /\ FoldedInOrder'
      /\ StoredBehind' /\ Outcome'
  <2>1. stored' \subseteq InFile /\ stored \subseteq stored' /\ c \in stored'
    BY <1>1, <1>5 DEF Inv, Typed
  <2> QED
    BY <1>1, <1>3, <1>5, <2>1, HolderMoves
<1>7. HandleKept'
  <2>1. InFile' = InFile
    BY <1>1 DEF InFile
  <2>2. CASE c \notin stored
    <3>1. stored' = InFile => answer'[c] /\ task'[c] = "stored"
      BY <1>2, <1>3, <1>4, <2>2
    <3> QED
      BY <2>1, <3>1 DEF HandleKept
  <2>3. CASE c \in stored
    <3>1. stored' = stored
      BY <1>1, <2>3
    <3>2. \A d \in Chunk : task[d] = "stored" /\ answer[d] => task'[d] = "stored" /\ answer'[d]
      BY <1>1, <1>3, <1>4
    <3> QED
      BY <1>1, <2>1, <3>1, <3>2 DEF Inv, HandleKept
  <2> QED
    BY <2>2, <2>3
<1> QED
  BY <1>6, <1>7 DEF Inv

\* The answer is kept, and with it the handle it may bring.
LEMMA AnsweredInv == ASSUME Inv, NEW c \in Chunk, Answered(c) PROVE Inv'
<1>1. /\ task[c] = "stored" /\ UNCHANGED <<total_chunks, phase, result, next_id, mac>>
      /\ UNCHANGED <<claims, answer, stored, finish_sent, node, lost>>
      /\ completion_handle' = (completion_handle \/ answer[c])
  BY DEF Answered, KeepsClaim, HandleAfter, remoteVars
<1>2. task' = [task EXCEPT ![c] = "pending"]
  <2>1. task' = [d \in Chunk |-> IF d \in {c} THEN "pending"
                                ELSE IF d \in {} THEN "granted" ELSE task[d]]
    BY NobodyGranted DEF Answered, KeepsClaim, Moved
  <2> QED
    BY <2>1 DEF Inv, Typed
<1>3. c \in InFile /\ task[c] \in Holding /\ "pending" \in Holding /\ c \in stored
  BY <1>1, HolderInFile DEF Holding, Posting, Inv, StoredBehind
<1>4. /\ Typed' /\ TasksOfFile' /\ ClaimsAccounted' /\ FoldedInOrder'
      /\ StoredBehind' /\ Outcome'
  <2>1. stored' \subseteq InFile /\ stored \subseteq stored' /\ c \in stored'
    BY <1>1, <1>3 DEF Inv, Typed
  <2>2. answer' \in [Chunk -> BOOLEAN]
    BY <1>1 DEF Inv, Typed
  <2> QED
    BY <1>1, <1>2, <1>3, <2>1, <2>2, HolderMoves
<1>5. HandleKept'
  <2>1. \A d \in Chunk \ {c} : task'[d] = task[d]
    BY <1>2 DEF Inv, Typed
  <2>2. InFile' = InFile
    BY <1>1 DEF InFile
  <2>3. CASE \E d \in Chunk : task[d] = "stored" /\ answer[d]
    <3>1. PICK d \in Chunk : task[d] = "stored" /\ answer[d]
      BY <2>3
    <3>2. CASE d = c
      BY <1>1, <3>1, <3>2 DEF HandleKept
    <3>3. CASE d # c
      <4>1. task'[d] = "stored" /\ answer'[d]
        BY <1>1, <2>1, <3>1, <3>3
      <4> QED
        BY <4>1 DEF HandleKept
    <3> QED
      BY <3>2, <3>3
  <2>4. CASE ~\E d \in Chunk : task[d] = "stored" /\ answer[d]
    <3>1. completion_handle => completion_handle'
      BY <1>1
    <3> QED
      BY <1>1, <2>2, <2>4, <3>1 DEF Inv, HandleKept
  <2> QED
    BY <2>3, <2>4
<1> QED
  BY <1>4, <1>5 DEF Inv

\* An attempt fails: again, or for good.
LEMMA AttemptFailsInv == ASSUME Inv, NEW c \in Chunk, AttemptFails(c) PROVE Inv'
<1>1. /\ task[c] \in Posting /\ task[c] \in Holding
      /\ lost => lost'
      /\ task[c] = "stored" => lost'
  BY DEF AttemptFails, Holding
<1>2. CASE UploadFails(c)
  BY <1>1, <1>2, UploadFailsInv
<1>3. CASE /\ task' = [task EXCEPT ![c] = "posting"]
           /\ UNCHANGED <<answer, claims, first_error, completion_handle>>
           /\ UNCHANGED <<runVars, pauseVars, remoteVars>>
  <2>1. CASE task[c] = "stored"
    <3>1. "posting" \in Holding /\ answer' \in [Chunk -> BOOLEAN] /\ stored \subseteq InFile
      BY <1>3 DEF Holding, Posting, Inv, Typed
    <3>2. /\ Typed' /\ TasksOfFile' /\ ClaimsAccounted' /\ FoldedInOrder'
          /\ StoredBehind' /\ Outcome'
      BY <1>1, <1>3, <3>1, HolderMoves DEF runVars, remoteVars
    <3>3. HandleKept'
      BY <1>1, <2>1 DEF HandleKept
    <3> QED
      BY <3>2, <3>3 DEF Inv
  <2>2. CASE task[c] # "stored"
    <3>1. "posting" \in Holding \ {"stored", "pending"} /\ task[c] \in Holding \ {"stored"}
      BY <1>1, <2>2 DEF Holding, Posting
    <3> QED
      BY <1>1, <1>3, <3>1, MovesInv
  <2> QED
    BY <2>1, <2>2
<1> QED
  BY <1>2, <1>3 DEF AttemptFails

LEMMA UploadStepInv == ASSUME Inv, NEW c \in Chunk, UploadStep(c) PROVE Inv'
<1>1. CASE Proceed(c)
  <2>1. PICK s \in {"reading", "paused"} : task' = [task EXCEPT ![c] = s]
    BY <1>1 DEF Proceed, Goes
  <2>2. task[c] \in Holding \ {"stored"} /\ s \in Holding \ {"stored", "pending"}
    BY <1>1 DEF Proceed, Holding, Posting
  <2> QED
    BY <1>1, <2>1, <2>2, MovesInv DEF Proceed
<1>2. CASE ReadChunk(c) \/ Rerouted(c)
  <2>1. task' = [task EXCEPT ![c] = "posting"] /\ task[c] \in {"reading", "rerouting"}
    BY <1>2 DEF ReadChunk, Rerouted
  <2>2. task[c] \in Holding \ {"stored"} /\ "posting" \in Holding \ {"stored", "pending"}
    BY <2>1 DEF Holding, Posting
  <2>3. UNCHANGED <<answer, claims, completion_handle, runVars, remoteVars>> /\ (lost => lost')
    BY <1>2 DEF ReadChunk, Rerouted
  <2> QED
    BY <2>1, <2>2, <2>3, MovesInv
<1>3. CASE Reroute(c)
  <2>1. task[c] \in Holding \ {"stored"} /\ "rerouting" \in Holding \ {"stored", "pending"}
    BY <1>3 DEF Reroute, Holding, Posting
  <2> QED
    BY <1>3, <2>1, MovesInv DEF Reroute
<1>4. CASE ReadFails(c) \/ NoProxyLeft(c)
  <2>1. task[c] \in Holding /\ task[c] # "stored"
    BY <1>4 DEF ReadFails, NoProxyLeft, Holding, Posting
  <2> QED
    BY <1>4, <2>1, UploadFailsInv DEF ReadFails, NoProxyLeft
<1> QED
  BY <1>1, <1>2, <1>3, <1>4, StoreChunkInv, AnsweredInv, AttemptFailsInv DEF UploadStep

-----------------------------------------------------------------------------
(* The steps of the run.                                                    *)

LEMMA InitInv == Init => Inv
<1> SUFFICES ASSUME Init
             PROVE  Inv
  OBVIOUS
<1>1. /\ total_chunks \in 0..MaxChunks /\ total_chunks \in Nat /\ next_id = 1 /\ claims = Slots
      /\ Slots \in Nat /\ phase = "queued" /\ result = "none" /\ mac = <<>> /\ stored = {}
      /\ task = [c \in Chunk |-> "absent"] /\ answer = [c \in Chunk |-> FALSE]
      /\ ~finish_sent /\ node = NoNode
  BY Chunks DEF Init
<1>2. Typed
  BY <1>1 DEF Typed, State
<1>3. TasksOfFile /\ ClaimsAccounted /\ StoredBehind /\ Outcome
  BY <1>1 DEF TasksOfFile, ClaimsAccounted, StoredBehind, Outcome
<1>4. FoldedInOrder
  <2>1. 1..(next_id - 1) = {} /\ DOMAIN <<>> = {}
    BY <1>1
  <2>2. [i \in {} |-> i] = <<>>
    OBVIOUS
  <2> QED
    BY <1>1, <2>1, <2>2 DEF FoldedInOrder
<1>5. HandleKept
  <2>1. total_chunks > 0 => 1 \in InFile
    BY <1>1 DEF InFile
  <2> QED
    BY <1>1, <2>1 DEF HandleKept
<1> QED
  BY <1>2, <1>3, <1>4, <1>5 DEF Inv

\* The steps of the run that move no task.
LEMMA PhaseStepsInv == Inv /\ (GetSlot \/ ReserveFails \/ Finish \/ Register \/ Finished) => Inv'
<1> SUFFICES ASSUME Inv, GetSlot \/ ReserveFails \/ Finish \/ Register \/ Finished
             PROVE  Inv'
  OBVIOUS
<1>1. UNCHANGED <<total_chunks, next_id, mac, taskVars, stored, lost>>
  BY DEF GetSlot, ReserveFails, Finish, Register, Finished, runVars, remoteVars
<1>2. Typed' /\ FoldedInOrder' /\ StoredBehind'
  BY <1>1 DEF Inv, Typed, FoldedInOrder, StoredBehind, taskVars, InFile
<1>3. TasksOfFile'
  <2>1. phase' \in {"queued", "reserving"} => phase \in {"queued", "reserving"}
    BY DEF GetSlot, ReserveFails, Finish, Register, Finished, runVars
  <2> QED
    BY <1>1, <2>1 DEF Inv, TasksOfFile, taskVars, InFile
<1>4. ClaimsAccounted'
  <2>1. phase' = "transfer" => phase = "transfer"
    BY DEF GetSlot, ReserveFails, Finish, Register, Finished, runVars
  <2>2. InTask(Holding)' = InTask(Holding)
    BY <1>1 DEF InTask, Holding, Posting, taskVars
  <2> QED
    BY <1>1, <2>1, <2>2 DEF Inv, ClaimsAccounted, taskVars
<1>5. Outcome'
  <2>1. CASE GetSlot
    BY <2>1 DEF GetSlot, Inv, Outcome, remoteVars, taskVars
  <2>2. CASE ReserveFails
    BY <2>2 DEF ReserveFails, Inv, Outcome, remoteVars, taskVars
  <2>3. CASE Finish
    BY <2>3 DEF Finish, Inv, Outcome, taskVars
  <2>4. CASE Register
    BY <2>4 DEF Register, Inv, Outcome, runVars, taskVars
  <2>5. CASE Finished
    BY <2>5 DEF Finished, Inv, Outcome, remoteVars, taskVars
  <2> QED
    BY <2>1, <2>2, <2>3, <2>4, <2>5
<1>6. HandleKept'
  <2>1. result \in {"error", "cancelled"} => result' \in {"error", "cancelled"}
    BY DEF GetSlot, ReserveFails, Finish, Register, Finished, runVars, Inv, Outcome
  <2> QED
    BY <1>1, <2>1 DEF Inv, HandleKept, taskVars, InFile
<1> QED
  BY <1>2, <1>3, <1>4, <1>5, <1>6 DEF Inv

LEMMA ReservedInv == Inv /\ Reserved => Inv'
<1> SUFFICES ASSUME Inv, Reserved
             PROVE  Inv'
  OBVIOUS
<1>1. /\ phase = "reserving" /\ phase' = "transfer" /\ UNCHANGED <<total_chunks, result, next_id, mac>>
      /\ UNCHANGED <<answer, claims, completion_handle, stored, finish_sent, node, lost>>
  BY DEF Reserved, remoteVars
<1>2. /\ claims = Slots /\ \A c \in Chunk : task[c] = "absent"
      /\ \A c \in Chunk : task'[c] = IF c \in InFile THEN "new" ELSE "absent"
      /\ task' \in [Chunk -> State]
  BY <1>1 DEF Reserved, Inv, TasksOfFile, State
<1>3. InFile' = InFile
  BY <1>1 DEF InFile
<1>4. Typed' /\ TasksOfFile' /\ StoredBehind' /\ Outcome'
  BY <1>1, <1>2, <1>3 DEF Inv, Typed, TasksOfFile, StoredBehind, Outcome
<1>5. ClaimsAccounted'
  <2>1. InTask(Holding)' = {}
    BY <1>2 DEF InTask, Holding, Posting
  <2> QED
    BY <1>1, <1>2, <2>1, FS_EmptySet, Chunks DEF ClaimsAccounted
<1>6. FoldedInOrder'
  <2>1. next_id = 1
    <3>1. next_id \in Nat /\ next_id >= 1 /\ next_id <= total_chunks + 1 /\ total_chunks \in Nat
          /\ total_chunks <= MaxChunks
      BY Chunks DEF Inv, Typed
    <3>2. ASSUME next_id > 1
          PROVE  FALSE
      <4>1. 1 \in 1..(next_id - 1) /\ 1 \in Chunk
        BY <3>1, <3>2, Chunks DEF Chunk
      <4> QED
        BY <1>2, <4>1 DEF Inv, FoldedInOrder
    <3> QED
      BY <3>1, <3>2
  <2> QED
    BY <1>1, <2>1 DEF Inv, FoldedInOrder
<1>7. HandleKept'
  BY <1>1, <1>2, <1>3 DEF Inv, HandleKept
<1> QED
  BY <1>4, <1>5, <1>6, <1>7 DEF Inv

\* The first tasks claim: nobody has held a permit before.
LEMMA StartTasksInv == Inv /\ StartTasks => Inv'
<1> SUFFICES ASSUME Inv, StartTasks
             PROVE  Inv'
  OBVIOUS
<1> DEFINE New == InTask({"new"})
           Claimed == {c \in New : c <= Slots}
<1>1. /\ New # {} /\ claims' = Slots - Cardinality(Claimed)
      /\ task' = [c \in Chunk |-> IF c \in Claimed THEN Goes
                                ELSE IF c \in New THEN "waiting" ELSE task[c]]
      /\ UNCHANGED <<total_chunks, phase, result, next_id, mac>>
      /\ UNCHANGED <<answer, completion_handle, stored, finish_sent, node, lost>>
  BY DEF StartTasks, runVars, remoteVars
<1>2. /\ Goes \in {"reading", "paused"} /\ Claimed \subseteq New /\ New \subseteq Chunk
      /\ \A c \in Chunk : c \in New <=> task[c] = "new"
  BY DEF Goes, InTask
<1> HIDE DEF New, Claimed
<1>3. /\ \A c \in Claimed : c \in Chunk /\ task[c] = "new" /\ task'[c] = Goes
      /\ \A c \in New \ Claimed : c \in Chunk /\ task[c] = "new" /\ task'[c] = "waiting"
      /\ \A c \in Chunk \ New : task[c] = "absent" /\ task'[c] = "absent" /\ c \notin Claimed
  <2>1. \A c \in Chunk : task[c] \in {"absent", "new"}
    BY <1>1, <1>2 DEF Inv, TasksOfFile
  <2> QED
    BY <1>1, <1>2, <2>1
<1>4. InFile' = InFile
  BY <1>1 DEF InFile
<1>5. Typed'
  <2>1. claims' \in Int
    <3>1. IsFiniteSet(Claimed)
      BY <1>2, Chunks, FS_Subset
    <3> QED
      BY <1>1, <3>1, FS_CardinalityType, Chunks
  <2>2. task' \in [Chunk -> State]
    <3>1. Goes \in State /\ "waiting" \in State /\ task \in [Chunk -> State]
      BY <1>2 DEF State, Holding, Inv, Typed
    <3> QED
      BY <1>1, <3>1
  <2> QED
    BY <1>1, <1>4, <2>1, <2>2 DEF Inv, Typed
<1>6. TasksOfFile'
  <2>1. phase \notin {"queued", "reserving"}
    BY <1>1, <1>2 DEF Inv, TasksOfFile
  <2>2. \A c \in Chunk : task'[c] # "new"
    <3>1. ASSUME NEW c \in Chunk
          PROVE  task'[c] # "new"
      <4>1. c \in Claimed \/ c \in New \ Claimed \/ c \notin New
        OBVIOUS
      <4> QED
        BY <1>2, <1>3, <4>1
    <3> QED
      BY <3>1
  <2>3. \A c \in Chunk \ InFile : task'[c] = "absent"
    <3>1. ASSUME NEW c \in Chunk \ InFile
          PROVE  task'[c] = "absent"
      <4>1. task[c] = "absent" /\ c \notin New
        BY <1>2 DEF Inv, TasksOfFile
      <4> QED
        BY <1>3, <4>1
    <3> QED
      BY <3>1
  <2> QED
    BY <1>1, <1>4, <2>1, <2>2, <2>3 DEF TasksOfFile
<1>7. ClaimsAccounted'
  <2>1. InTask(Holding)' = Claimed
    <3>1. ASSUME NEW c \in Chunk
          PROVE  task'[c] \in Holding <=> c \in Claimed
      <4>1. Goes \in Holding /\ "waiting" \notin Holding /\ "absent" \notin Holding
        BY <1>2 DEF Holding, Posting
      <4>2. c \in Claimed \/ c \in New \ Claimed \/ (c \notin New /\ c \notin Claimed)
        BY <1>2
      <4> QED
        BY <1>3, <4>1, <4>2
    <3>2. InTask(Holding)' = {c \in Chunk : task'[c] \in Holding}
      BY DEF InTask, Holding, Posting
    <3> QED
      BY <1>2, <3>1, <3>2
  <2>2. Cardinality(Claimed) \in Nat /\ Slots \in Nat
    BY <1>2, Chunks, FS_Subset, FS_CardinalityType
  <2> QED
    BY <1>1, <2>1, <2>2 DEF ClaimsAccounted
<1>8. \A c \in Chunk : task'[c] \notin {"stored", "pending", "folded"} /\ task[c] \notin {"stored", "folded"}
  <2>1. ASSUME NEW c \in Chunk
        PROVE  task'[c] \notin {"stored", "pending", "folded"} /\ task[c] \notin {"stored", "folded"}
    <3>1. c \in Claimed \/ c \in New \ Claimed \/ c \notin New
      OBVIOUS
    <3> QED
      BY <1>2, <1>3, <3>1
  <2> QED
    BY <2>1
<1>9. FoldedInOrder'
  <2>1. next_id - 1 <= MaxChunks /\ next_id \in Nat
    BY Chunks DEF Inv, Typed
  <2>2. ASSUME NEW c \in 1..(next_id - 1)
        PROVE  FALSE
    BY <1>8, <2>1, Chunks DEF Inv, FoldedInOrder, Chunk
  <2> QED
    BY <1>1, <2>2 DEF Inv, FoldedInOrder
<1>10. StoredBehind' /\ Outcome'
  BY <1>1, <1>8 DEF Inv, StoredBehind, Outcome
<1>11. HandleKept'
  BY <1>1, <1>4, <1>8 DEF Inv, HandleKept
<1> QED
  BY <1>5, <1>6, <1>7, <1>9, <1>10, <1>11 DEF Inv

\* Leaving the loop without the whole file.
LEMMA UnwindInv ==
    ASSUME Inv, phase = "transfer", NEW how \in {"error", "cancelled"}, Unwind(how, task),
           UNCHANGED <<total_chunks, next_id, mac, claims, answer, completion_handle>>,
           UNCHANGED <<stored, finish_sent, node, lost>>
    PROVE  Inv'
<1>1. /\ phase' = "unwinding" /\ result' = how
      /\ \A c \in Chunk : task'[c] = task[c] \/ (task[c] # "folded" /\ task[c] # "absent"
                                                 /\ task'[c] = "cancelled")
      /\ \A c \in Chunk : task'[c] # "new"
      /\ task' \in [Chunk -> State]
  <2>1. /\ phase' = "unwinding" /\ result' = how
        /\ task' = [c \in Chunk |-> IF task[c] \in (Holding \cup {"new", "waiting"}) \ {"pending"}
                                  THEN "cancelled" ELSE task[c]]
    BY DEF Unwind
  <2>2. {"folded", "absent"} \cap (Holding \cup {"new", "waiting"}) = {} /\ "cancelled" \in State
    BY DEF Holding, Posting, State
  <2>3. task \in [Chunk -> State]
    BY DEF Inv, Typed
  <2> QED
    BY <2>1, <2>2, <2>3
<1>2. InFile' = InFile
  BY DEF InFile
<1>3. Typed' /\ TasksOfFile' /\ ClaimsAccounted' /\ StoredBehind'
  BY <1>1, <1>2 DEF Inv, Typed, TasksOfFile, ClaimsAccounted, StoredBehind
<1>4. FoldedInOrder'
  <2>1. \A c \in 1..(next_id - 1) : c \in Chunk
    BY Chunks DEF Inv, Typed, Chunk
  <2> QED
    BY <1>1, <2>1 DEF Inv, FoldedInOrder
<1>5. Outcome' /\ HandleKept'
  BY <1>1 DEF Inv, Outcome, HandleKept
<1> QED
  BY <1>3, <1>4, <1>5 DEF Inv

\* The loop folds what is there, and is done or waits.
LEMMA FoldInv ==
    ASSUME Inv, phase = "transfer", NEW k \in next_id..(total_chunks + 1), StopsAt(k), Fold(k),
           UNCHANGED <<total_chunks, answer, completion_handle, stored, finish_sent, node, lost>>
    PROVE  Inv'
<1> DEFINE n == k - next_id
           F == next_id..(k - 1)
           L == LongestWaiting(n)
           moved == Moved(F, "folded", n)
<1>1. /\ k \in Nat /\ next_id \in Nat \ {0} /\ next_id <= k /\ k <= total_chunks + 1
      /\ total_chunks \in Nat /\ total_chunks <= MaxChunks /\ MaxChunks \in Nat /\ n \in Nat
      /\ F \subseteq InFile /\ InFile \subseteq Chunk /\ Chunk \subseteq Nat
  BY Chunks DEF Inv, Typed, InFile, Chunk
<1>2. \A c \in F : c \in Chunk /\ task[c] = "pending"
  BY DEF StopsAt, Pending, InTask
<1>3. L \subseteq Chunk /\ IsFiniteSet(L) /\ \A d \in L : task[d] = "waiting"
  <2>1. L \subseteq Waiting /\ IsFiniteSet(Waiting) /\ Waiting \subseteq Chunk
    BY Chunks DEF LongestWaiting, Waiting
  <2>2. \A d \in Waiting : task[d] = "waiting"
    BY DEF Waiting, InTask
  <2> HIDE DEF L
  <2> QED
    BY <2>1, <2>2, FS_Subset
<1>4. /\ moved \in [Chunk -> State]
      /\ \A c \in Chunk : moved[c] = IF c \in F THEN "folded" ELSE IF c \in L THEN "granted" ELSE task[c]
  <2>1. moved = [c \in Chunk |-> IF c \in F THEN "folded" ELSE IF c \in L THEN "granted" ELSE task[c]]
    BY DEF Moved
  <2>2. task \in [Chunk -> State] /\ "folded" \in State /\ "granted" \in State
    BY DEF Inv, Typed, State, Holding
  <2> HIDE DEF L, F, moved
  <2> QED
    BY <2>1, <2>2
<1>5. /\ next_id' = k /\ mac' = mac \o [i \in 1..n |-> next_id + i - 1] /\ Release(n)
      /\ \/ Unwind("complete", moved) /\ k > total_chunks
         \/ loop' = "asleep" /\ task' = moved /\ UNCHANGED <<phase, result>>
  BY DEF Fold, AllFolded
<1>6. mac' = [i \in 1..(k - 1) |-> i]
  BY <1>1, <1>5, FoldProlongs DEF Inv, FoldedInOrder
<1>7. claims' \in Int
  <2>1. Cardinality(L) \in Nat /\ claims' = claims + n - Cardinality(L)
    BY <1>3, <1>5, FS_CardinalityType DEF Release
  <2> HIDE DEF L, n
  <2> QED
    BY <1>1, <2>1 DEF Inv, Typed
<1>8. InFile' = InFile
  BY DEF InFile
<1>9. \A c \in 1..(k - 1) : c \in Chunk /\ moved[c] = "folded" /\ task[c] \in {"folded", "pending"}
  <2>1. ASSUME NEW c \in 1..(k - 1)
        PROVE  c \in Chunk /\ moved[c] = "folded" /\ task[c] \in {"folded", "pending"}
    <3>1. c \in Chunk
      BY <1>1 DEF Chunk
    <3>2. CASE c \in F
      BY <1>2, <1>4, <3>1, <3>2
    <3>3. CASE c \notin F
      <4>1. c \in 1..(next_id - 1)
        BY <1>1, <3>3
      <4>2. task[c] = "folded"
        BY <4>1 DEF Inv, FoldedInOrder
      <4>3. c \notin L
        BY <1>3, <4>2
      <4> HIDE DEF F, L, moved
      <4> QED
        BY <1>4, <3>1, <3>3, <4>2, <4>3
    <3> QED
      BY <3>2, <3>3
  <2> QED
    BY <2>1
<1>10. /\ \A c \in Chunk : moved[c] \in {"stored", "pending", "folded"}
                          => task[c] \in {"stored", "pending", "folded"}
       /\ \A c \in Chunk : task[c] = "stored" => moved[c] = "stored"
       /\ \A c \in Chunk : task[c] = "absent" => moved[c] = "absent"
       /\ \A c \in Chunk : moved[c] = "new" => task[c] = "new" /\ L = {} /\ F = {}
  <2>1. ASSUME NEW c \in Chunk, task[c] = "new"
        PROVE  L = {} /\ F = {}
    <3>1. \A d \in Chunk : task[d] \in {"absent", "new"}
      BY <2>1 DEF Inv, TasksOfFile
    <3> HIDE DEF L, F
    <3> QED
      BY <1>2, <1>3, <3>1
  <2> HIDE DEF L, F, moved
  <2>2. ASSUME NEW c \in Chunk
        PROVE  /\ moved[c] \in {"stored", "pending", "folded"} => task[c] \in {"stored", "pending", "folded"}
               /\ task[c] = "stored" => moved[c] = "stored"
               /\ task[c] = "absent" => moved[c] = "absent"
               /\ moved[c] = "new" => task[c] = "new"
    <3>1. CASE c \in F
      BY <1>2, <1>4, <3>1
    <3>2. CASE c \notin F /\ c \in L
      BY <1>3, <1>4, <3>2
    <3>3. CASE c \notin F /\ c \notin L
      BY <1>4, <3>3
    <3> QED
      BY <3>1, <3>2, <3>3
  <2> QED
    BY <2>1, <2>2
<1>11. StoredBehind => \A c \in Chunk : moved[c] \in {"stored", "pending", "folded"} => c \in stored
  BY <1>10 DEF StoredBehind
<1> HIDE DEF L, F, n, moved
<1>12. CASE loop' = "asleep" /\ task' = moved /\ UNCHANGED <<phase, result>>
  <2>1. Typed'
    <3>1. next_id' \in 1..(total_chunks' + 1) /\ total_chunks' \in 0..MaxChunks
      BY <1>1, <1>5 DEF Inv, Typed
    <3> QED
      BY <1>4, <1>7, <1>8, <1>12, <3>1 DEF Inv, Typed
  <2>2. TasksOfFile'
    <3>1. \A c \in Chunk \ InFile : task'[c] = "absent"
      BY <1>10, <1>12 DEF Inv, TasksOfFile
    <3>2. (\E c \in Chunk : task'[c] = "new") => \A c \in Chunk : task'[c] \in {"absent", "new"}
      <4>1. ASSUME NEW c \in Chunk, task'[c] = "new"
            PROVE  \A d \in Chunk : task'[d] \in {"absent", "new"}
        <5>1. task[c] = "new" /\ L = {} /\ F = {}
          BY <1>10, <1>12, <4>1
        <5>2. \A d \in Chunk : task[d] \in {"absent", "new"}
          BY <5>1 DEF Inv, TasksOfFile
        <5> QED
          BY <1>4, <1>12, <5>1, <5>2
      <4> QED
        BY <4>1
    <3> QED
      BY <1>8, <1>12, <3>1, <3>2 DEF TasksOfFile
  <2>3. ClaimsAccounted'
    <3>1. claims + Cardinality(InTask(Holding)) = Slots
      BY DEF Inv, ClaimsAccounted
    <3>2. Cardinality(F) = n
      BY <1>1, FS_Interval DEF F, n
    <3>3. F \in SUBSET InTask(Holding)
      BY <1>2 DEF InTask, Holding
    <3>4. task' = Moved(F, "folded", n)
      BY <1>12 DEF moved
    <3>5. claims' + Cardinality(InTask(Holding)') = Slots
      BY <1>1, <1>5, <3>1, <3>2, <3>3, <3>4, ReleaseKeepsCount DEF Inv
    <3> QED
      BY <3>5 DEF ClaimsAccounted
  <2>4. FoldedInOrder' /\ StoredBehind'
    BY <1>5, <1>6, <1>9, <1>11, <1>12 DEF FoldedInOrder, StoredBehind, Inv
  <2>5. Outcome'
    BY <1>12 DEF Inv, Outcome
  <2>6. HandleKept'
    <3>1. \A d \in Chunk : task[d] = "stored" => task'[d] = "stored"
      BY <1>10, <1>12
    <3> QED
      BY <1>12, <3>1, HandleStays DEF Inv
  <2> QED
    BY <2>1, <2>2, <2>3, <2>4, <2>5, <2>6 DEF Inv
<1>13. CASE Unwind("complete", moved) /\ k > total_chunks
  <2>1. k = total_chunks + 1 /\ k - 1 = total_chunks /\ phase' = "unwinding" /\ result' = "complete"
    BY <1>1, <1>13 DEF Unwind
  <2>2. \A c \in Chunk : moved[c] = IF c \in InFile THEN "folded" ELSE "absent"
    <3>1. \A c \in Chunk : c \in InFile <=> c \in 1..(k - 1)
      BY <2>1 DEF InFile
    <3>2. \A c \in Chunk \ InFile : moved[c] = "absent"
      BY <1>10 DEF Inv, TasksOfFile
    <3> QED
      BY <1>9, <3>1, <3>2
  <2>3. task' = [c \in Chunk |-> IF moved[c] \in (Holding \cup {"new", "waiting"}) \ {"pending"}
                                THEN "cancelled" ELSE moved[c]]
    BY <1>13 DEF Unwind
  <2>4. \A c \in Chunk : task'[c] = IF c \in InFile THEN "folded" ELSE "absent"
    BY <2>2, <2>3 DEF Holding, Posting
  <2>5. Typed'
    <3>1. task' \in [Chunk -> State]
      BY <2>3, <2>4 DEF State
    <3> QED
      BY <1>1, <1>5, <1>7, <1>8, <3>1 DEF Inv, Typed
  <2>6. TasksOfFile' /\ ClaimsAccounted'
    BY <1>8, <2>1, <2>4 DEF TasksOfFile, ClaimsAccounted
  <2>7. FoldedInOrder'
    <3>1. \A c \in 1..(k - 1) : c \in InFile /\ c \in Chunk
      BY <1>9, <2>1 DEF InFile
    <3> QED
      BY <1>5, <1>6, <2>4, <3>1 DEF FoldedInOrder
  <2>8. StoredBehind'
    BY <1>11, <2>2, <2>4 DEF Inv, StoredBehind
  <2>9. Outcome'
    BY <1>5, <2>1 DEF Inv, Outcome
  <2>10. HandleKept'
    <3>1. \A c \in Chunk : task[c] # "stored"
      <4>1. \A c \in 1..(k - 1) : task[c] \in {"folded", "pending"}
        BY <1>9
      <4>2. \A c \in Chunk : c \in InFile => c \in 1..(k - 1)
        BY <2>1 DEF InFile
      <4>3. \A c \in Chunk \ InFile : task[c] = "absent"
        BY DEF Inv, TasksOfFile
      <4> QED
        BY <4>1, <4>2, <4>3
    <3>2. result = "none"
      BY DEF Inv, Outcome
    <3> QED
      BY <1>8, <3>1, <3>2 DEF Inv, HandleKept
  <2> QED
    BY <2>5, <2>6, <2>7, <2>8, <2>9, <2>10 DEF Inv
<1> QED
  BY <1>5, <1>12, <1>13

LEMMA MacLoopInv == Inv /\ MacLoop => Inv'
<1> SUFFICES ASSUME Inv, MacLoop
             PROVE  Inv'
  OBVIOUS
<1>1. phase = "transfer" /\ UNCHANGED <<total_chunks, answer, completion_handle, stored, finish_sent, node, lost>>
  BY DEF MacLoop, remoteVars
<1>2. CASE Unwind("error", task) /\ UNCHANGED <<next_id, mac, claims>>
  BY <1>1, <1>2, UnwindInv
<1>3. CASE \E k \in next_id..(total_chunks + 1) : StopsAt(k) /\ Fold(k)
  BY <1>1, <1>3, FoldInv
<1> QED
  BY <1>2, <1>3 DEF MacLoop

LEMMA CancelInv == Inv /\ Cancel => Inv'
<1> SUFFICES ASSUME Inv, Cancel
             PROVE  Inv'
  OBVIOUS
<1>1. /\ phase # "ended" /\ UNCHANGED <<total_chunks, next_id, mac, claims, answer, completion_handle>>
      /\ UNCHANGED <<stored, finish_sent, node, lost>>
  BY DEF Cancel, remoteVars
<1>2. CASE phase = "transfer"
  BY <1>1, <1>2, UnwindInv DEF Cancel
<1>3. CASE phase # "transfer"
  <2>1. phase' = "ended" /\ result' = "cancelled" /\ UNCHANGED task
    BY <1>3 DEF Cancel
  <2>2. Typed' /\ TasksOfFile' /\ FoldedInOrder' /\ StoredBehind'
    BY <1>1, <2>1 DEF Inv, Typed, TasksOfFile, FoldedInOrder, StoredBehind, InFile
  <2>3. ClaimsAccounted' /\ Outcome' /\ HandleKept'
    BY <1>1, <2>1 DEF Inv, ClaimsAccounted, Outcome, HandleKept
  <2> QED
    BY <2>2, <2>3 DEF Inv
<1> QED
  BY <1>2, <1>3

\* Waking the paused tasks moves them among the states that hold a permit.
LEMMA ResumeInv == Inv /\ Resume => Inv'
<1> SUFFICES ASSUME Inv, Resume
             PROVE  Inv'
  OBVIOUS
<1>1. /\ task' = [c \in Chunk |-> IF task[c] = "paused" THEN "woken" ELSE task[c]]
      /\ UNCHANGED <<total_chunks, phase, result, next_id, mac, claims, answer, completion_handle>>
      /\ UNCHANGED <<stored, finish_sent, node, lost>>
  BY DEF Resume, runVars, remoteVars
<1>2. \A c \in Chunk : task'[c] = task[c] \/ (task[c] = "paused" /\ task'[c] = "woken")
  BY <1>1
<1>3. {"paused", "woken"} \subseteq Holding /\ Holding \subseteq State
  BY DEF Holding, State
<1>4. InFile' = InFile /\ \A c \in 1..(next_id - 1) : c \in Chunk
  BY <1>1, Chunks DEF InFile, Inv, Typed, Chunk
<1>5. Typed'
  <2>1. task' \in [Chunk -> State]
    BY <1>1, <1>3 DEF Inv, Typed
  <2> QED
    BY <1>1, <1>4, <2>1 DEF Inv, Typed
<1>6. TasksOfFile' /\ FoldedInOrder' /\ StoredBehind' /\ Outcome' /\ HandleKept'
  <2>1. TasksOfFile'
    BY <1>1, <1>2, <1>4 DEF Inv, TasksOfFile
  <2>2. FoldedInOrder' /\ StoredBehind' /\ Outcome'
    BY <1>1, <1>2, <1>4 DEF Inv, FoldedInOrder, StoredBehind, Outcome
  <2>3. HandleKept'
    BY <1>1, <1>2, <1>4 DEF Inv, HandleKept
  <2> QED
    BY <2>1, <2>2, <2>3
<1>7. ClaimsAccounted'
  <2>1. InTask(Holding)' = InTask(Holding)
    <3>1. \A c \in Chunk : task'[c] \in Holding <=> task[c] \in Holding
      BY <1>2, <1>3
    <3>2. Holding' = Holding
      BY DEF Holding, Posting
    <3> QED
      BY <3>1, <3>2 DEF InTask
  <2> QED
    BY <1>1, <2>1 DEF Inv, ClaimsAccounted
<1> QED
  BY <1>5, <1>6, <1>7 DEF Inv

LEMMA StutterInv ==
    ASSUME Inv, UNCHANGED <<runVars, taskVars, remoteVars, lost>>
    PROVE  Inv'
<1>1. UNCHANGED <<total_chunks, phase, result, next_id, mac, claims, task, answer, completion_handle>>
      /\ UNCHANGED <<stored, finish_sent, node, lost>>
  BY DEF runVars, taskVars, remoteVars
<1>2. Typed' /\ TasksOfFile' /\ FoldedInOrder' /\ StoredBehind' /\ Outcome' /\ HandleKept'
  BY <1>1 DEF Inv, Typed, TasksOfFile, FoldedInOrder, StoredBehind, Outcome, HandleKept, InFile
<1>3. ClaimsAccounted'
  BY <1>1 DEF Inv, ClaimsAccounted, InTask, Holding, Posting
<1> QED
  BY <1>2, <1>3 DEF Inv

LEMMA NextInv == Inv /\ [Next]_vars => Inv'
<1> SUFFICES ASSUME Inv, [Next]_vars
             PROVE  Inv'
  OBVIOUS
<1>1. CASE RunStep
  BY <1>1, PhaseStepsInv, ReservedInv, StartTasksInv, MacLoopInv DEF RunStep
<1>2. CASE \E c \in Chunk : UploadStep(c)
  BY <1>2, UploadStepInv
<1>3. CASE Register \/ Cancel \/ Resume
  BY <1>3, PhaseStepsInv, CancelInv, ResumeInv
<1>4. CASE Pause \/ UNCHANGED vars
  <2>1. UNCHANGED <<runVars, taskVars, remoteVars, lost>>
    BY <1>4 DEF Pause, vars
  <2> QED
    BY <2>1, StutterInv
<1> QED
  BY <1>1, <1>2, <1>3, <1>4 DEF Next

-----------------------------------------------------------------------------
(* What follows from the invariant.                                         *)

\* Once the MAC has every chunk, every chunk is on the storage node.
LEMMA WholeIsStored ==
    ASSUME Inv, next_id = total_chunks + 1
    PROVE  /\ mac = [c \in InFile |-> c] /\ stored = InFile
           /\ \A c \in Chunk : task[c] \in {"folded", "absent"}
<1>1. total_chunks \in Nat /\ total_chunks <= MaxChunks /\ MaxChunks \in Nat
  BY Chunks DEF Inv, Typed
<1>2. 1..(next_id - 1) = InFile
  BY <1>1 DEF InFile
<1>3. mac = [c \in InFile |-> c] /\ \A c \in InFile : task[c] = "folded"
  BY <1>2 DEF Inv, FoldedInOrder
<1>4. InFile \subseteq Chunk /\ \A c \in Chunk \ InFile : task[c] = "absent"
  BY <1>1 DEF InFile, Chunk, Inv, TasksOfFile
<1>5. \A c \in InFile : c \in stored
  BY <1>3, <1>4 DEF Inv, StoredBehind
<1>6. stored \subseteq InFile
  BY DEF Inv, Typed
<1> QED
  BY <1>3, <1>4, <1>5, <1>6

\* The invariant holds of every reachable state.
THEOREM Invariance == Spec => []Inv
<1>1. Init => Inv
  BY InitInv
<1>2. Inv /\ [Next]_vars => Inv'
  BY NextInv
<1> QED
  BY <1>1, <1>2, PTL DEF Spec

\* A node registered with MEGA has every chunk behind it, and the MAC of all of
\* them in order, whatever was lost, repeated or cancelled.
THEOREM NodeAlwaysWhole == Spec => []NodeIsWhole
<1>1. Inv => NodeIsWhole
  <2> SUFFICES ASSUME Inv, node # NoNode
               PROVE  stored = InFile /\ node = [c \in InFile |-> c]
    BY DEF NodeIsWhole
  <2>1. node = mac /\ next_id = total_chunks + 1
    BY DEF Inv, Outcome
  <2> QED
    BY <2>1, WholeIsStored
<1> QED
  BY <1>1, Invariance, PTL

\* While a transfer runs, every permit is free or with a chunk that is read
\* and not yet folded.
THEOREM PermitsNeverLost == Spec => []ClaimsAccounted
<1>1. Inv => ClaimsAccounted
  BY DEF Inv
<1> QED
  BY <1>1, Invariance, PTL

\* An upload that stored and folded every chunk and lost no answer has its
\* completion handle.
THEOREM HandleNeverLost == Spec => []HandleFound
<1>1. Inv => HandleFound
  <2> SUFFICES ASSUME Inv, result = "no_handle", ~lost, total_chunks # 0
               PROVE  FALSE
    BY DEF HandleFound
  <2>1. next_id = total_chunks + 1 /\ ~completion_handle
    BY DEF Inv, Outcome
  <2>2. stored = InFile /\ \A c \in Chunk : task[c] # "stored"
    BY <2>1, WholeIsStored
  <2>3. total_chunks > 0
    BY DEF Inv, Typed
  <2> QED
    BY <2>1, <2>2, <2>3 DEF Inv, HandleKept
<1> QED
  BY <1>1, Invariance, PTL
=============================================================================
