------------------------- MODULE ChunkPipelineProofs -------------------------
(***************************************************************************)
(* Theorems about ChunkPipeline, for every number of chunks, slots,        *)
(* retries and runs and in every mode: first its state invariants, then    *)
(* the window of claims, the temp files, what a step may do to the file,   *)
(* and the refinement of OrderedFile.                                      *)
(***************************************************************************)
EXTENDS MCChunkPipeline, FiniteSetTheorems, SequenceTheorems, WellFoundedInduction, TLAPS

FileChunk == 0..TotalChunks

-----------------------------------------------------------------------------
(* Lemmas on the file: prefixes, how they grow, tear and are cut.           *)

\* A prefix is a sequence of chunks, as long as it says.
LEMMA PrefixIsSeq ==
    ASSUME NEW k \in 0..TotalChunks
    PROVE  /\ Prefix(k) \in Seq(Chunk) /\ Prefix(k) \in Seq(FileChunk)
           /\ Len(Prefix(k)) = k
           /\ \A i \in 1..k : Prefix(k)[i] = i
<1> k \in Nat /\ TotalChunks \in Nat
  BY SizesAssumption
<1>1. Prefix(k) \in [1..k -> Chunk] /\ Prefix(k) \in [1..k -> FileChunk]
  BY DEF Prefix, Chunk, FileChunk
<1>2. Prefix(k) \in Seq(Chunk) /\ Prefix(k) \in Seq(FileChunk)
  BY <1>1, SeqDef
<1>3. DOMAIN Prefix(k) = 1..k /\ DOMAIN Prefix(k) = 1..Len(Prefix(k)) /\ Len(Prefix(k)) \in Nat
  BY <1>2, LenProperties DEF Prefix
<1>4. Len(Prefix(k)) = k
  BY <1>3
<1> QED
  BY <1>2, <1>4 DEF Prefix

\* Writing the next chunk gives the next prefix.
LEMMA GrowPrefix ==
    ASSUME NEW k \in 0..TotalChunks, k < TotalChunks
    PROVE  Append(Prefix(k), k + 1) = Prefix(k + 1)
<1> DEFINE a == Append(Prefix(k), k + 1)
           p == Prefix(k + 1)
<1>0. k \in Nat /\ TotalChunks \in Nat /\ k + 1 \in 0..TotalChunks /\ k + 1 \in FileChunk
  BY SizesAssumption DEF FileChunk
<1>1. Prefix(k) \in Seq(FileChunk) /\ Len(Prefix(k)) = k /\ \A i \in 1..k : Prefix(k)[i] = i
  BY PrefixIsSeq
<1>2. p \in Seq(FileChunk) /\ Len(p) = k + 1 /\ \A i \in 1..(k + 1) : p[i] = i
  BY <1>0, PrefixIsSeq
<1>3. a \in Seq(FileChunk) /\ Len(a) = k + 1 /\ a[k + 1] = k + 1 /\ \A i \in 1..k : a[i] = Prefix(k)[i]
  BY <1>0, <1>1, AppendProperties
<1>4. \A i \in 1..Len(a) : a[i] = p[i]
  BY <1>0, <1>1, <1>2, <1>3
<1> HIDE DEF a, p
<1>5. a = p
  BY <1>2, <1>3, <1>4, SeqEqual
<1> QED
  BY <1>5 DEF a, p

\* Writing only part of it tears the last chunk of that prefix.
LEMMA TearPrefix ==
    ASSUME NEW k \in 0..TotalChunks, k < TotalChunks
    PROVE  Append(Prefix(k), Torn) = [Prefix(k + 1) EXCEPT ![k + 1] = Torn]
<1> DEFINE a == Append(Prefix(k), Torn)
           p == Prefix(k + 1)
           t == [p EXCEPT ![k + 1] = Torn]
<1>0. k \in Nat /\ TotalChunks \in Nat /\ k + 1 \in 0..TotalChunks /\ Torn \in FileChunk
  BY SizesAssumption DEF FileChunk, Torn
<1>1. Prefix(k) \in Seq(FileChunk) /\ Len(Prefix(k)) = k /\ \A i \in 1..k : Prefix(k)[i] = i
  BY PrefixIsSeq
<1>2. p \in Seq(FileChunk) /\ Len(p) = k + 1 /\ \A i \in 1..(k + 1) : p[i] = i
  BY <1>0, PrefixIsSeq
<1>3. a \in Seq(FileChunk) /\ Len(a) = k + 1 /\ a[k + 1] = Torn /\ \A i \in 1..k : a[i] = Prefix(k)[i]
  BY <1>0, <1>1, AppendProperties
<1> HIDE DEF p
<1>4. /\ t \in Seq(FileChunk) /\ Len(t) = k + 1
      /\ \A j \in 1..(k + 1) : t[j] = IF j = k + 1 THEN Torn ELSE p[j]
  BY <1>0, <1>2, ExceptSeq
<1> HIDE DEF a, t
<1>5. \A i \in 1..Len(a) : a[i] = t[i]
  BY <1>0, <1>1, <1>2, <1>3, <1>4
<1>6. a = t
  BY <1>3, <1>4, <1>5, SeqEqual
<1> QED
  BY <1>6 DEF a, t, p

\* What a file of the pipeline looks like.
LEMMA FileShape ==
    ASSUME NEW f, IsFile(f)
    PROVE  /\ f \in Seq(FileChunk) /\ Len(f) \in 0..TotalChunks
           /\ \A i \in 1..Len(f) : i < Len(f) => f[i] = i
           /\ Len(f) > 0 => f[Len(f)] \in {Torn, Len(f)}
<1> TotalChunks \in Nat /\ Torn \in FileChunk
  BY SizesAssumption DEF FileChunk, Torn
<1>1. CASE \E k \in 0..TotalChunks : f = Prefix(k)
  <2>1. PICK k \in 0..TotalChunks : f = Prefix(k)
    BY <1>1
  <2>2. Prefix(k) \in Seq(FileChunk) /\ Len(Prefix(k)) = k /\ \A i \in 1..k : Prefix(k)[i] = i
    BY PrefixIsSeq
  <2> DEFINE p == Prefix(k)
  <2> HIDE DEF p
  <2>3. p \in Seq(FileChunk) /\ Len(p) = k /\ (\A i \in 1..k : p[i] = i) /\ f = p
    BY <2>1, <2>2 DEF p
  <2> QED
    BY <2>3
<1>2. CASE \E k \in 1..TotalChunks : f = [Prefix(k) EXCEPT ![k] = Torn]
  <2>1. PICK k \in 1..TotalChunks : f = [Prefix(k) EXCEPT ![k] = Torn]
    BY <1>2
  <2>2. k \in 0..TotalChunks
    OBVIOUS
  <2>3. Prefix(k) \in Seq(FileChunk) /\ Len(Prefix(k)) = k /\ \A i \in 1..k : Prefix(k)[i] = i
    BY <2>2, PrefixIsSeq
  <2> DEFINE p == Prefix(k)
  <2> HIDE DEF p
  <2>4. p \in Seq(FileChunk) /\ Len(p) = k /\ (\A i \in 1..k : p[i] = i) /\ f = [p EXCEPT ![k] = Torn]
    BY <2>1, <2>3 DEF p
  <2>5. /\ f \in Seq(FileChunk) /\ Len(f) = k
        /\ \A j \in 1..k : f[j] = IF j = k THEN Torn ELSE p[j]
    BY <2>4, ExceptSeq
  <2> QED
    BY <2>4, <2>5
<1> QED
  BY <1>1, <1>2 DEF IsFile

\* Cutting a file above its torn tail gives a prefix.
LEMMA CutFile ==
    ASSUME NEW f, IsFile(f), NEW k \in 0..Len(f),
           k < Len(f) \/ f[Len(f)] = k
    PROVE  k \in 0..TotalChunks /\ SubSeq(f, 1, k) = Prefix(k)
<1> DEFINE s == SubSeq(f, 1, k)
<1>1. /\ f \in Seq(FileChunk) /\ Len(f) \in 0..TotalChunks
      /\ \A i \in 1..Len(f) : i < Len(f) => f[i] = i
  BY FileShape
<1>2. k \in 0..TotalChunks /\ k \in Nat /\ TotalChunks \in Nat
  BY <1>1, SizesAssumption
<1>3. \A i \in 1..k : f[i] \in FileChunk /\ f[i] = i
  BY <1>1, <1>2 DEF FileChunk
<1>4. s \in Seq(FileChunk) /\ Len(s) = k /\ \A i \in 1..k : s[i] = f[i]
  <2>1. /\ s \in Seq(FileChunk) /\ Len(s) = IF 1 <= k THEN k - 1 + 1 ELSE 0
        /\ \A i \in 1..(k - 1 + 1) : s[i] = f[1 + i - 1]
    BY <1>2, <1>3, SubSeqProperties
  <2> QED
    BY <1>2, <2>1
<1>5. Prefix(k) \in Seq(FileChunk) /\ Len(Prefix(k)) = k /\ \A i \in 1..k : Prefix(k)[i] = i
  BY <1>2, PrefixIsSeq
<1> HIDE DEF s
<1>6. s = Prefix(k)
  BY <1>3, <1>4, <1>5, SeqEqual
<1> QED
  BY <1>2, <1>6 DEF s

-----------------------------------------------------------------------------
(* Lemmas on the queue of the semaphore and on counting its permits.        *)

\* A nonempty set of naturals has a least element.
LEMMA LeastElement ==
    ASSUME NEW T \in SUBSET Nat, T # {}
    PROVE  \E x \in T : \A y \in T : x <= y
<1> DEFINE F == {0..x : x \in T}
           R == StrictSubsetOrdering(Nat)
<1>1. IsWellFoundedOn(R, FiniteSubsetsOf(Nat))
  BY FS_StrictSubsetOrderingWellFounded
<1>2. F \subseteq FiniteSubsetsOf(Nat) /\ F # {}
  <2>1. \A x \in T : IsFiniteSet(0..x) /\ 0..x \subseteq Nat
    BY FS_Interval
  <2> QED
    BY <2>1 DEF FiniteSubsetsOf
<1>3. PICK I \in F : \A J \in F : <<J, I>> \notin R
  <2> HIDE DEF F, R
  <2> QED
    BY <1>1, <1>2, WFMin
<1>4. PICK x \in T : I = 0..x
  OBVIOUS
<1>5. ASSUME NEW y \in T, y < x
      PROVE  FALSE
  <2>1. 0..y \subseteq 0..x /\ 0..y # 0..x
    <3>1. x \in 0..x /\ x \notin 0..y
      BY <1>5
    <3> QED
      BY <1>5, <3>1
  <2>2. 0..y \in SUBSET Nat /\ 0..x \in SUBSET Nat
    OBVIOUS
  <2>3. <<0..y, I>> \in R
    BY <1>4, <2>1, <2>2 DEF StrictSubsetOrdering
  <2> QED
    BY <1>3, <2>3
<1> QED
  BY <1>5

TaskState == Live \cup {"absent", "deposited", "taken", "written", "failed", "cancelled"}

\* A task that neither gains nor loses its permit leaves the count alone.
LEMMA SameHolding ==
    ASSUME ClaimsAccounted, claims' = claims,
           \A c \in Chunk : task[c] \in Holding <=> task'[c] \in Holding
    PROVE  ClaimsAccounted'
<1>1. InTask(Holding)' = InTask(Holding)
  BY DEF InTask
<1> QED
  BY <1>1 DEF ClaimsAccounted

\* With no permit held all of them are free.
LEMMA NoneHeld ==
    ASSUME claims' = Slots, \A c \in Chunk : task'[c] \notin Holding
    PROVE  ClaimsAccounted' /\ claims' \in 0..Slots
<1>1. InTask(Holding)' = {}
  BY DEF InTask
<1>2. Cardinality(InTask(Holding)') = 0
  BY <1>1, FS_EmptySet
<1> QED
  BY <1>2, SizesAssumption DEF ClaimsAccounted

\* The permit of a chunk that ends goes back to the pool, or to one waiter.
LEMMA ReleaseKeepsCount ==
    ASSUME TypeOK, ClaimsAccounted, NEW c \in Chunk, task[c] \in Holding,
           NEW s \in {"failed", "written"}, ReleaseClaim(c, s)
    PROVE  /\ task' \in [Chunk -> TaskState] /\ task'[c] = s
           /\ \A d \in Chunk \ {c} :
                task'[d] = task[d] \/ (task[d] = "waiting" /\ task'[d] = "granted")
           /\ ClaimsAccounted' /\ claims' \in 0..Slots
<1> DEFINE H == InTask(Holding)
           W == FirstWaiter
<1>1. IsFiniteSet(Chunk) /\ Chunk \subseteq Nat
  BY SizesAssumption, FS_Interval DEF Chunk
<1>2. H \subseteq Chunk /\ c \in H /\ IsFiniteSet(H)
  BY <1>1, FS_Subset DEF InTask
<1>3. IsFiniteSet(H \ {c}) /\ Cardinality(H \ {c}) = Cardinality(H) - 1
  BY <1>2, FS_RemoveElement
<1>4. Cardinality(H) \in Nat /\ Cardinality(H \ {c}) \in Nat
  BY <1>2, <1>3, FS_CardinalityType
<1>5. claims \in 0..Slots /\ Slots \in Nat /\ claims + Cardinality(H) = Slots
  BY SizesAssumption DEF TypeOK, ClaimsAccounted
<1>6. task \in [Chunk -> TaskState]
  BY DEF TypeOK, TaskState
<1>7. CASE Waiting = {}
  <2>1. task' = [task EXCEPT ![c] = s] /\ claims' = claims + 1
    BY <1>7 DEF ReleaseClaim
  <2>2. InTask(Holding)' = H \ {c}
    BY <1>6, <2>1 DEF InTask, Holding
  <2>3. claims' + Cardinality(InTask(Holding)') = Slots
    BY <1>3, <1>4, <1>5, <2>1, <2>2
  <2>4. task' \in [Chunk -> TaskState] /\ task'[c] = s /\ \A d \in Chunk \ {c} : task'[d] = task[d]
    BY <1>6, <2>1 DEF TaskState
  <2>5. claims' \in 0..Slots
    BY <1>3, <1>4, <1>5, <2>1
  <2> QED
    BY <2>3, <2>4, <2>5 DEF ClaimsAccounted
<1>8. CASE Waiting # {}
  <2>1. W \in Waiting
    <3>1. Waiting \in SUBSET Nat
      BY <1>1 DEF Waiting, InTask
    <3>2. \E w \in Waiting : \A v \in Waiting : w <= v
      BY <1>8, <3>1, LeastElement
    <3> QED
      BY <3>2 DEF FirstWaiter
  <2>2. W \in Chunk /\ task[W] = "waiting" /\ W # c
    BY <2>1 DEF Waiting, InTask, Holding
  <2>3. task' = [task EXCEPT ![c] = s, ![W] = "granted"] /\ claims' = claims
    BY <1>8 DEF ReleaseClaim
  <2> HIDE DEF W
  <2>4. InTask(Holding)' = (H \ {c}) \cup {W} /\ W \notin H \ {c}
    BY <1>6, <2>2, <2>3 DEF InTask, Holding
  <2>5. Cardinality((H \ {c}) \cup {W}) = Cardinality(H \ {c}) + 1
    BY <1>3, <2>4, FS_AddElement
  <2>6. claims' + Cardinality(InTask(Holding)') = Slots
    BY <1>3, <1>4, <1>5, <2>3, <2>4, <2>5
  <2>7. /\ task' \in [Chunk -> TaskState] /\ task'[c] = s
        /\ \A d \in Chunk \ {c} :
             task'[d] = task[d] \/ (task[d] = "waiting" /\ task'[d] = "granted")
    BY <1>6, <2>2, <2>3 DEF TaskState, Live
  <2> QED
    BY <1>5, <2>3, <2>6, <2>7 DEF ClaimsAccounted
<1> QED
  BY <1>7, <1>8

-----------------------------------------------------------------------------
(* The inductive invariant.                                                 *)

\* Until StartTasks runs every permit is free and the missing chunks are new.
NewTasks ==
    InTask({"new"}) # {} =>
        /\ claims = Slots
        /\ \A c \in Chunk : task[c] = IF c <= resumed THEN "absent" ELSE "new"

\* The chunk the writer works on has been taken and keeps its permit.
WriterHolds ==
    /\ writer # "off" => phase \in {"transfer", "unwinding"}
    /\ phase = "transfer" => writer # "off"
    /\ phase = "unwinding" => writer \in {"off", "writing"}
    /\ writer \in {"staged", "writing"} => next_id \in Chunk
    /\ writer \in {"staged", "writing"} /\ phase = "transfer" => task[next_id] = "taken"

\* Where the file and the MAC stand while the writer may still change them.
FilePos ==
    /\ phase = "transfer" \/ writer = "writing" => disk = Prefix(next_id - 1)
    /\ phase = "transfer" => mac = disk

\* A run that is about to report its result has everything.
CompletePending ==
    result = "complete" =>
        /\ phase \in {"unwinding", "ended"} /\ writer = "off"
        /\ disk = Prefix(TotalChunks) /\ mac = disk

Inv ==
    /\ TypeOK /\ FileIsPrefix /\ FilePos /\ WriterHolds /\ CompletePending
    /\ ClaimsAccounted /\ NewTasks /\ NoLostWakeup

\* What the fetch tasks leave alone: file, MAC and the state of the writer.
LEMMA WriterUntouched ==
    ASSUME Inv, UNCHANGED <<phase, result, next_id, resumed, disk, mac>>,
           writer' = writer \/ (writer = "asleep" /\ writer' = "check"),
           \A d \in Chunk : task[d] = "taken" => task'[d] = "taken"
    PROVE  FileIsPrefix' /\ FilePos' /\ CompletePending' /\ WriterHolds'
<1>1. FileIsPrefix'
  BY DEF Inv, FileIsPrefix, IsFile
<1>2. FilePos'
  BY DEF Inv, FilePos
<1>3. CompletePending'
  BY DEF Inv, CompletePending
<1>4. WriterHolds'
  BY DEF Inv, WriterHolds
<1> QED
  BY <1>1, <1>2, <1>3, <1>4

\* Once any task has got going, none is new again before the next run.
LEMMA NoNewTasks ==
    ASSUME NewTasks, NEW c \in Chunk, task[c] \notin {"new", "absent"},
           \A d \in Chunk : task'[d] = "new" => task[d] = "new"
    PROVE  NewTasks'
<1>1. InTask({"new"}) = {}
  <2>1. SUFFICES ASSUME InTask({"new"}) # {} PROVE FALSE
    OBVIOUS
  <2>2. task[c] = IF c <= resumed THEN "absent" ELSE "new"
    BY <2>1 DEF NewTasks
  <2> QED
    BY <2>2
<1>2. InTask({"new"})' = {}
  BY <1>1 DEF InTask
<1> QED
  BY <1>2 DEF NewTasks

\* No wakeup is lost where nothing is deposited and nothing fails.
LEMMA QuietStep ==
    ASSUME NoLostWakeup, writer' # "asleep" \/ writer' = writer,
           next_id' = next_id, first_error' = first_error,
           \A d \in Chunk : task'[d] = "deposited" => task[d] = "deposited"
    PROVE  NoLostWakeup'
BY DEF NoLostWakeup, Pending, InTask

LEMMA InitInv == Init => Inv
<1> SUFFICES ASSUME Init PROVE Inv
  OBVIOUS
<1> TotalChunks \in Nat /\ Slots \in Nat \ {0} /\ MaxRetries \in Nat \ {0}
  BY SizesAssumption
<1>1. disk = Prefix(0)
  <2>1. Prefix(0) \in Seq(Chunk) /\ Len(Prefix(0)) = 0
    BY PrefixIsSeq
  <2> QED
    BY <2>1, EmptySeq DEF Init
<1>2. FileIsPrefix
  BY <1>1 DEF FileIsPrefix, IsFile
<1>3. TypeOK
  <2>1. disk \in Seq(0..TotalChunks) /\ mac \in Seq(Chunk)
    BY EmptySeq DEF Init
  <2>2. attempt \in [Chunk -> 0..MaxRetries - 1] /\ task \in [Chunk -> TaskState]
    <3>1. 0 \in 0..MaxRetries - 1
      OBVIOUS
    <3> QED
      BY <3>1 DEF Init, TaskState
  <2>3. pause_event \in BOOLEAN /\ first_error \in BOOLEAN
    BY Zenon DEF Init
  <2>4. /\ claims \in 0..Slots /\ next_id \in 1..TotalChunks + 1 /\ resumed \in 0..TotalChunks
        /\ cancels \in 0..MaxCancels /\ runs \in 0..MaxRuns /\ pauses \in 0..MaxPauses
    BY BoundsAssumption DEF Init
  <2> QED
    BY <2>1, <2>2, <2>3, <2>4 DEF Init, TypeOK, TaskState
<1>4. FilePos /\ WriterHolds /\ CompletePending /\ NoLostWakeup
  BY DEF Init, FilePos, WriterHolds, CompletePending, NoLostWakeup
<1>5. InTask({"new"}) = {} /\ InTask(Holding) = {}
  BY DEF Init, InTask, Holding
<1>6. NewTasks /\ ClaimsAccounted
  BY <1>5, FS_EmptySet DEF Init, NewTasks, ClaimsAccounted
<1> QED
  BY <1>2, <1>3, <1>4, <1>6 DEF Inv

-----------------------------------------------------------------------------
(* Starting a run.                                                          *)

\* The resume finds the whole-chunk prefix of whatever an earlier run left.
LEMMA WholeChunksOfFile ==
    ASSUME FileIsPrefix
    PROVE  /\ WholeChunks \in 0..TotalChunks
           /\ SubSeq(disk, 1, WholeChunks) = Prefix(WholeChunks)
<1>1. /\ disk \in Seq(FileChunk) /\ Len(disk) \in 0..TotalChunks
      /\ \A i \in 1..Len(disk) : i < Len(disk) => disk[i] = i
      /\ Len(disk) > 0 => disk[Len(disk)] \in {Torn, Len(disk)}
  BY FileShape DEF FileIsPrefix
<1>2. IsFile(disk) /\ TotalChunks \in Nat
  BY SizesAssumption DEF FileIsPrefix
<1>3. CASE disk = <<>>
  <2>1. Len(disk) = 0 /\ WholeChunks = 0
    BY <1>3 DEF WholeChunks
  <2>2. SubSeq(disk, 1, 0) = <<>>
    BY SubSeqEmpty
  <2>3. Prefix(0) \in Seq(Chunk) /\ Len(Prefix(0)) = 0
    BY <1>2, PrefixIsSeq
  <2>4. Prefix(0) = <<>>
    BY <2>3, EmptySeq
  <2>5. SubSeq(disk, 1, WholeChunks) = Prefix(WholeChunks)
    BY <2>1, <2>2, <2>4
  <2>6. WholeChunks \in 0..TotalChunks
    BY <1>2, <2>1
  <2> QED
    BY <2>5, <2>6
<1>4. CASE disk # <<>> /\ disk[Len(disk)] = Torn
  <2>1. Len(disk) > 0
    BY <1>1, <1>4, EmptySeq
  <2>2. WholeChunks = Len(disk) - 1 /\ WholeChunks \in 0..Len(disk) /\ WholeChunks < Len(disk)
    BY <1>1, <1>4, <2>1 DEF WholeChunks
  <2> QED
    BY <1>2, <2>2, CutFile
<1>5. CASE disk # <<>> /\ disk[Len(disk)] # Torn
  <2>1. Len(disk) > 0
    BY <1>1, <1>5, EmptySeq
  <2>2. WholeChunks = Len(disk) /\ WholeChunks \in 0..Len(disk) /\ disk[Len(disk)] = WholeChunks
    BY <1>1, <1>5, <2>1 DEF WholeChunks
  <2> QED
    BY <1>2, <2>2, CutFile
<1> QED
  BY <1>3, <1>4, <1>5

\* What Begin and OpenFails share.
LEMMA StartRunFacts ==
    ASSUME Inv, StartRun
    PROVE  /\ task' \in [Chunk -> TaskState] /\ mac' = Prefix(WholeChunks)
           /\ mac' \in Seq(Chunk)
           /\ NewTasks' /\ ClaimsAccounted' /\ claims' \in 0..Slots
           /\ next_id' \in 1..TotalChunks + 1 /\ resumed' \in 0..TotalChunks
           /\ attempt' \in [Chunk -> 0..MaxRetries - 1]
           /\ pause_event' \in BOOLEAN /\ first_error' \in BOOLEAN
           /\ ram_saver' \in BOOLEAN
           /\ cancels' \in 0..MaxCancels /\ runs' \in 0..MaxRuns /\ pauses' \in 0..MaxPauses
           /\ temps' \subseteq Chunk
<1> TotalChunks \in Nat /\ Slots \in Nat \ {0} /\ MaxRetries \in Nat \ {0}
  BY SizesAssumption
<1>1. WholeChunks \in 0..TotalChunks /\ SubSeq(disk, 1, WholeChunks) = Prefix(WholeChunks)
  BY WholeChunksOfFile DEF Inv
<1>2. mac' = Prefix(WholeChunks) /\ mac' \in Seq(Chunk)
  BY <1>1, PrefixIsSeq DEF StartRun, Replayed
<1>3. task' = [c \in Chunk |-> IF c <= WholeChunks THEN "absent" ELSE "new"]
  BY DEF StartRun
<1>4. task' \in [Chunk -> TaskState]
  BY <1>3 DEF TaskState, Live
<1>5. NewTasks'
  BY <1>3 DEF StartRun, NewTasks
<1>6. ClaimsAccounted' /\ claims' \in 0..Slots
  BY <1>3, NoneHeld DEF StartRun, Holding
<1>7. next_id' \in 1..TotalChunks + 1 /\ resumed' \in 0..TotalChunks
  BY <1>1 DEF StartRun
<1>8. /\ attempt' \in [Chunk -> 0..MaxRetries - 1] /\ pause_event' \in BOOLEAN
      /\ first_error' \in BOOLEAN /\ ram_saver' \in BOOLEAN
  <2>1. 0 \in 0..MaxRetries - 1
    OBVIOUS
  <2>2. attempt' \in [Chunk -> 0..MaxRetries - 1]
    BY <2>1 DEF StartRun
  <2> QED
    BY <2>2, Zenon DEF StartRun
<1>9. cancels' \in 0..MaxCancels /\ runs' \in 0..MaxRuns /\ pauses' \in 0..MaxPauses /\ temps' \subseteq Chunk
  BY BoundsAssumption DEF StartRun, Inv, TypeOK
<1> QED
  BY <1>2, <1>4, <1>5, <1>6, <1>7, <1>8, <1>9

LEMMA BeginInv == Inv /\ Begin => Inv'
<1> SUFFICES ASSUME Inv, Begin PROVE Inv'
  OBVIOUS
<1>0. WholeChunks \in 0..TotalChunks /\ SubSeq(disk, 1, WholeChunks) = Prefix(WholeChunks) /\ TotalChunks \in Nat
  BY WholeChunksOfFile, SizesAssumption DEF Inv
<1>1. /\ phase' = "transfer" /\ result' = "none" /\ writer' = "check"
      /\ disk' = Prefix(WholeChunks) /\ mac' = Prefix(WholeChunks) /\ next_id' = WholeChunks + 1
  BY <1>0, StartRunFacts DEF Begin, Kept, StartRun
<1>2. TypeOK'
  <2>1. disk' \in Seq(0..TotalChunks)
    BY <1>0, <1>1, PrefixIsSeq DEF FileChunk
  <2> QED
    BY <1>1, <2>1, StartRunFacts DEF Begin, TypeOK, TaskState
<1>3. FileIsPrefix'
  BY <1>0, <1>1 DEF FileIsPrefix, IsFile
<1>4. FilePos'
  BY <1>0, <1>1 DEF FilePos
<1>5. WriterHolds' /\ CompletePending' /\ NoLostWakeup'
  BY <1>1 DEF WriterHolds, CompletePending, NoLostWakeup
<1> QED
  BY <1>2, <1>3, <1>4, <1>5, StartRunFacts DEF Begin, Inv

LEMMA OpenFailsInv == Inv /\ OpenFails => Inv'
<1> SUFFICES ASSUME Inv, OpenFails PROVE Inv'
  OBVIOUS
<1>1. phase' = "ended" /\ result' = "open_error" /\ writer' = "off" /\ disk' = disk
  BY DEF OpenFails
<1>2. TypeOK'
  BY <1>1, StartRunFacts DEF OpenFails, Inv, TypeOK, TaskState
<1>3. FileIsPrefix'
  BY <1>1 DEF Inv, FileIsPrefix, IsFile
<1>4. FilePos' /\ WriterHolds' /\ CompletePending' /\ NoLostWakeup'
  BY <1>1 DEF FilePos, WriterHolds, CompletePending, NoLostWakeup
<1> QED
  BY <1>2, <1>3, <1>4, StartRunFacts DEF OpenFails, Inv

-----------------------------------------------------------------------------
(* The fetch tasks.                                                         *)

LEMMA StartTasksInv == Inv /\ StartTasks => Inv'
<1> SUFFICES ASSUME Inv, StartTasks PROVE Inv'
  OBVIOUS
<1> DEFINE New == InTask({"new"})
           Claimed == {c \in New : c <= resumed + Slots}
<1>0. /\ New # {} /\ claims' = Slots - Cardinality(Claimed)
      /\ task' = [c \in Chunk |->
                    IF c \in Claimed THEN IF pause_event THEN "fetching" ELSE "paused"
                    ELSE IF c \in New THEN "waiting" ELSE task[c]]
      /\ UNCHANGED <<attempt, first_error, writer>>
      /\ UNCHANGED <<runVars, userVars, fileVars>>
  BY DEF StartTasks
<1>1. TotalChunks \in Nat /\ Slots \in Nat \ {0} /\ resumed \in Nat /\ task \in [Chunk -> TaskState]
  BY SizesAssumption DEF Inv, TypeOK, TaskState
<1>2. \A c \in Chunk : task[c] = IF c <= resumed THEN "absent" ELSE "new"
  BY <1>0 DEF Inv, NewTasks
<1>3. New \subseteq Chunk /\ Claimed \subseteq New /\ \A c \in Chunk : task[c] = "new" <=> c \in New
  BY DEF InTask
<1>4. /\ IsFiniteSet(Claimed) /\ Cardinality(Claimed) \in 0..Slots
  <2>1. Claimed \subseteq (resumed + 1)..(resumed + Slots)
    BY <1>1, <1>2, <1>3 DEF Chunk
  <2>2. /\ IsFiniteSet((resumed + 1)..(resumed + Slots))
        /\ Cardinality((resumed + 1)..(resumed + Slots)) = Slots
    BY <1>1, FS_Interval
  <2> HIDE DEF Claimed
  <2>3. IsFiniteSet(Claimed) /\ Cardinality(Claimed) <= Slots /\ Cardinality(Claimed) \in Nat
    BY <2>1, <2>2, FS_Subset, FS_CardinalityType
  <2> QED
    BY <1>1, <2>3
<1> HIDE DEF New, Claimed
<1>5. task' \in [Chunk -> TaskState]
  BY <1>0, <1>1 DEF TaskState, Live
<1>6. InTask(Holding)' = Claimed
  BY <1>0, <1>2, <1>3 DEF InTask, Holding
<1>7. ClaimsAccounted' /\ claims' \in 0..Slots
  BY <1>0, <1>1, <1>4, <1>6 DEF ClaimsAccounted
<1>8. temps' \subseteq Chunk
  BY <1>3 DEF StartTasks, Inv, TypeOK, New, Claimed
<1>9. TypeOK'
  BY <1>0, <1>5, <1>7, <1>8 DEF Inv, TypeOK, TaskState, runVars, userVars, fileVars
<1>10. InTask({"new"})' = {}
  BY <1>0, <1>1, <1>3 DEF InTask
<1>11. NewTasks'
  BY <1>10 DEF NewTasks
<1>12. \A d \in Chunk : /\ task[d] = "taken" => task'[d] = "taken"
                        /\ task'[d] = "deposited" => task[d] = "deposited"
  BY <1>0, <1>1, <1>3
<1>13. NoLostWakeup'
  BY <1>0, <1>12, QuietStep DEF Inv, fileVars
<1>14. FileIsPrefix' /\ FilePos' /\ CompletePending' /\ WriterHolds'
  BY <1>0, <1>12, WriterUntouched DEF runVars, fileVars
<1> QED
  BY <1>7, <1>9, <1>11, <1>13, <1>14 DEF Inv

\* A task that moves on with its permit, leaving everything else to others.
LEMMA HolderMoves ==
    ASSUME Inv, NEW c \in Chunk, NEW s \in Holding \cap TaskState,
           task[c] \in Holding \ {"deposited", "taken"}, s # "taken",
           task' = [task EXCEPT ![c] = s],
           writer' = writer \/ (writer = "asleep" /\ writer' = "check"),
           s = "deposited" => writer' # "asleep",
           temps' \subseteq Chunk, attempt' = attempt,
           UNCHANGED <<claims, first_error>>, UNCHANGED <<runVars, userVars, fileVars>>
    PROVE  Inv'
<1>1. task \in [Chunk -> TaskState]
  BY DEF Inv, TypeOK, TaskState
<1>2. task' \in [Chunk -> TaskState] /\ task'[c] = s /\ \A d \in Chunk \ {c} : task'[d] = task[d]
  BY <1>1
<1>3. ClaimsAccounted'
  BY <1>2, SameHolding DEF Inv
<1>4. writer' \in {"check", "asleep", "staged", "writing", "off"}
  BY DEF Inv, TypeOK
<1>5. TypeOK'
  BY <1>2, <1>4 DEF Inv, TypeOK, TaskState, runVars, userVars, fileVars
<1>6. NewTasks'
  BY <1>2, NoNewTasks DEF Inv, Holding
<1>7. NoLostWakeup'
  <2>1. CASE s = "deposited"
    BY <2>1 DEF NoLostWakeup
  <2>2. CASE s # "deposited"
    <3>1. \A d \in Chunk : task'[d] = "deposited" => task[d] = "deposited"
      BY <1>2, <2>2
    <3>2. writer' # "asleep" \/ writer' = writer
      OBVIOUS
    <3>3. next_id' = next_id
      BY DEF fileVars
    <3> QED
      BY <3>1, <3>2, <3>3, QuietStep DEF Inv
  <2> QED
    BY <2>1, <2>2
<1>8. FileIsPrefix' /\ FilePos' /\ CompletePending' /\ WriterHolds'
  <2>1. \A d \in Chunk : task[d] = "taken" => task'[d] = "taken"
    BY <1>2
  <2> QED
    BY <2>1, WriterUntouched DEF runVars, fileVars
<1> QED
  BY <1>3, <1>5, <1>6, <1>7, <1>8 DEF Inv

\* A chunk whose fetch has failed for good gives its permit back.
LEMMA FetchFailsInv ==
    ASSUME Inv, NEW c \in Chunk, task[c] \in {"fetching", "rerouting"}, FetchFails(c)
    PROVE  Inv'
<1>1. /\ task' \in [Chunk -> TaskState] /\ task'[c] = "failed"
      /\ \A d \in Chunk \ {c} :
           task'[d] = task[d] \/ (task[d] = "waiting" /\ task'[d] = "granted")
      /\ ClaimsAccounted' /\ claims' \in 0..Slots
  BY ReleaseKeepsCount DEF FetchFails, Inv, Holding
<1>2. first_error' = TRUE /\ first_error' \in BOOLEAN
  BY Zenon DEF FetchFails
<1>3. /\ writer' = IF writer = "asleep" THEN "check" ELSE writer
      /\ UNCHANGED <<attempt, temps>> /\ UNCHANGED <<runVars, userVars, fileVars>>
  BY DEF FetchFails, NotifyWriter
<1>4. TypeOK'
  BY <1>1, <1>2, <1>3 DEF Inv, TypeOK, TaskState, runVars, userVars, fileVars
<1>5. NewTasks'
  BY <1>1, NoNewTasks DEF Inv
<1>6. NoLostWakeup'
  BY <1>3 DEF NoLostWakeup
<1>7. FileIsPrefix' /\ FilePos' /\ CompletePending' /\ WriterHolds'
  <2>1. \A d \in Chunk : task[d] = "taken" => task'[d] = "taken"
    BY <1>1
  <2> QED
    BY <1>3, <2>1, WriterUntouched DEF runVars, fileVars
<1> QED
  BY <1>1, <1>4, <1>5, <1>6, <1>7 DEF Inv

LEMMA FetchStepInv ==
    ASSUME Inv, NEW c \in Chunk, FetchStep(c)
    PROVE  Inv'
<1>0. {"fetching", "paused", "rerouting", "deposited"} \subseteq Holding \cap TaskState
  BY DEF Holding, TaskState, Live
<1>00. temps \subseteq Chunk
  BY DEF Inv, TypeOK
<1>1. CASE RunGranted(c)
  <2>1. /\ task[c] = "granted" /\ UNCHANGED <<attempt, claims, first_error, writer>>
        /\ UNCHANGED <<runVars, userVars, fileVars>> /\ temps' \subseteq Chunk
    BY <1>1, <1>00 DEF RunGranted
  <2>2. PICK s \in {"fetching", "paused"} : task' = [task EXCEPT ![c] = s]
    BY <1>1 DEF RunGranted
  <2> QED
    BY <1>0, <2>1, <2>2, HolderMoves DEF Holding
<1>2. CASE RunWoken(c)
  <2>1. temps' \subseteq Chunk
    BY <1>2, <1>00 DEF RunWoken
  <2> QED
    BY <1>0, <1>2, <2>1, HolderMoves DEF RunWoken, Holding
<1>3. CASE Deposit(c)
  <2>1. writer' = IF writer = "asleep" THEN "check" ELSE writer
    BY <1>3 DEF Deposit, NotifyWriter
  <2> QED
    BY <1>0, <1>00, <1>3, <2>1, HolderMoves DEF Deposit, Holding
<1>4. CASE Reroute(c)
  BY <1>0, <1>00, <1>4, HolderMoves DEF Reroute, Holding
<1>5. CASE Rerouted(c)
  BY <1>0, <1>00, <1>5, HolderMoves DEF Rerouted, Holding
<1>6. CASE NoProxyLeft(c)
  BY <1>6, FetchFailsInv DEF NoProxyLeft
<1>7. CASE AttemptFails(c)
  <2>1. CASE attempt[c] + 1 >= MaxRetries /\ FetchFails(c)
    BY <1>7, <2>1, FetchFailsInv DEF AttemptFails
  <2>2. CASE /\ attempt[c] + 1 < MaxRetries
             /\ attempt' = [attempt EXCEPT ![c] = @ + 1]
             /\ UNCHANGED <<task, claims, first_error, writer, temps>>
             /\ UNCHANGED <<runVars, userVars, fileVars>>
    <3>1. attempt' \in [Chunk -> 0..MaxRetries - 1]
      <4>1. attempt \in [Chunk -> 0..MaxRetries - 1] /\ MaxRetries \in Nat
        BY SizesAssumption DEF Inv, TypeOK
      <4>2. attempt[c] + 1 \in 0..MaxRetries - 1
        BY <2>2, <4>1
      <4> QED
        BY <2>2, <4>1, <4>2
    <3>2. TypeOK'
      BY <2>2, <3>1 DEF Inv, TypeOK, runVars, userVars, fileVars
    <3>3. ClaimsAccounted' /\ NewTasks' /\ NoLostWakeup'
      BY <2>2 DEF Inv, ClaimsAccounted, NewTasks, NoLostWakeup, Pending, InTask, fileVars
    <3>4. FileIsPrefix' /\ FilePos' /\ CompletePending' /\ WriterHolds'
      BY <2>2, WriterUntouched DEF runVars, fileVars
    <3> QED
      BY <3>2, <3>3, <3>4 DEF Inv
  <2> QED
    BY <1>7, <2>1, <2>2 DEF AttemptFails
<1> QED
  BY <1>1, <1>2, <1>3, <1>4, <1>5, <1>6, <1>7 DEF FetchStep

-----------------------------------------------------------------------------
(* The writer and its finally block.                                        *)

\* Unwinding gives up every task and every permit.
LEMMA UnwindFacts ==
    ASSUME TypeOK, NEW how, Unwind(how)
    PROVE  /\ task' \in [Chunk -> TaskState] /\ ClaimsAccounted' /\ claims' \in 0..Slots
           /\ NewTasks' /\ \A c \in Chunk : task'[c] \notin Live \cup {"deposited", "taken"}
<1>1. task \in [Chunk -> TaskState]
  BY DEF TypeOK, TaskState
<1>2. task' = [c \in Chunk |-> IF task[c] \in Live \cup {"deposited", "taken"}
                               THEN "cancelled" ELSE task[c]]
  BY DEF Unwind
<1>3. /\ task' \in [Chunk -> TaskState]
      /\ \A c \in Chunk : task'[c] \notin Live \cup {"deposited", "taken"}
  BY <1>1, <1>2 DEF TaskState, Live
<1>4. \A c \in Chunk : task'[c] \notin Holding
  BY <1>3 DEF Holding, Live
<1>5. InTask({"new"})' = {}
  BY <1>3 DEF InTask, Live
<1> QED
  BY <1>3, <1>4, <1>5, NoneHeld DEF Unwind, NewTasks

LEMMA WriterCheckInv == Inv /\ WriterCheck => Inv'
<1> SUFFICES ASSUME Inv, WriterCheck PROVE Inv'
  OBVIOUS
<1>0. /\ phase = "transfer" /\ writer = "check"
      /\ UNCHANGED <<attempt, first_error, cancels, runs, temps>>
      /\ UNCHANGED <<userVars, fileVars>>
  BY DEF WriterCheck
<1>1. /\ TotalChunks \in Nat /\ next_id \in 1..TotalChunks + 1
      /\ disk = Prefix(next_id - 1) /\ mac = disk
  BY <1>0, SizesAssumption DEF Inv, TypeOK, FilePos
<1>2. FileIsPrefix'
  BY <1>0 DEF Inv, FileIsPrefix, IsFile, fileVars
<1>3. ASSUME NEW how \in {"complete", "error"}, Unwind(how), writer' = "off",
             how = "complete" => AllWritten
      PROVE  Inv'
  <2>1. phase' = "unwinding" /\ result' = how
    BY <1>3 DEF Unwind
  <2>2. /\ task' \in [Chunk -> TaskState] /\ ClaimsAccounted' /\ claims' \in 0..Slots /\ NewTasks'
    BY <1>3, UnwindFacts DEF Inv
  <2>3. TypeOK'
    BY <1>0, <1>3, <2>1, <2>2 DEF Inv, TypeOK, TaskState, userVars, fileVars
  <2>4. FilePos' /\ WriterHolds' /\ NoLostWakeup'
    BY <1>3, <2>1 DEF FilePos, WriterHolds, NoLostWakeup
  <2>5. CompletePending'
    <3>1. how = "complete" => next_id - 1 = TotalChunks
      BY <1>1, <1>3 DEF AllWritten
    <3> QED
      BY <1>0, <1>1, <1>3, <2>1, <3>1 DEF CompletePending, fileVars
  <2> QED
    BY <1>2, <2>2, <2>3, <2>4, <2>5 DEF Inv
<1>4. CASE AllWritten /\ Unwind("complete") /\ writer' = "off"
  BY <1>3, <1>4
<1>5. CASE ~AllWritten /\ first_error /\ Unwind("error") /\ writer' = "off"
  BY <1>3, <1>5
<1>6. CASE /\ ~AllWritten /\ next_id \in Pending /\ ~first_error
           /\ task' = [task EXCEPT ![next_id] = "taken"]
           /\ writer' = IF ram_saver THEN "staged" ELSE "writing"
           /\ UNCHANGED <<phase, result, claims>>
  <2>1. next_id \in Chunk /\ task[next_id] = "deposited" /\ task \in [Chunk -> TaskState]
    BY <1>6 DEF Pending, InTask, Inv, TypeOK, TaskState
  <2>2. /\ task' \in [Chunk -> TaskState] /\ task'[next_id] = "taken"
        /\ \A d \in Chunk \ {next_id} : task'[d] = task[d]
    BY <1>6, <2>1 DEF TaskState
  <2>3. next_id' = next_id /\ UNCHANGED <<disk, mac, resumed>>
    BY <1>0 DEF fileVars
  <2>4. TypeOK'
    BY <1>0, <1>6, <2>2 DEF Inv, TypeOK, TaskState, userVars, fileVars
  <2>5. ClaimsAccounted'
    BY <1>6, <2>1, <2>2, SameHolding DEF Inv, Holding
  <2>6. NewTasks'
    BY <2>1, <2>2, NoNewTasks DEF Inv
  <2>7. FilePos' /\ WriterHolds' /\ NoLostWakeup'
    BY <1>0, <1>1, <1>6, <2>1, <2>2, <2>3 DEF FilePos, WriterHolds, NoLostWakeup
  <2>8. CompletePending'
    BY <1>0, <1>6 DEF Inv, CompletePending
  <2> QED
    BY <1>2, <2>4, <2>5, <2>6, <2>7, <2>8 DEF Inv
<1>7. CASE /\ ~AllWritten /\ next_id \notin Pending /\ ~first_error
           /\ writer' = "asleep"
           /\ UNCHANGED <<phase, result, task, claims>>
  <2>1. TypeOK'
    BY <1>0, <1>7 DEF Inv, TypeOK, userVars, fileVars
  <2>2. ClaimsAccounted' /\ NewTasks' /\ NoLostWakeup'
    BY <1>0, <1>7 DEF Inv, ClaimsAccounted, NewTasks, NoLostWakeup, Pending, InTask, fileVars
  <2>3. FilePos' /\ WriterHolds' /\ CompletePending'
    BY <1>0, <1>1, <1>7 DEF Inv, FilePos, WriterHolds, CompletePending, fileVars
  <2> QED
    BY <1>2, <2>1, <2>2, <2>3 DEF Inv
<1> QED
  BY <1>4, <1>5, <1>6, <1>7 DEF WriterCheck

LEMMA ReadStagedInv == Inv /\ ReadStaged => Inv'
<1> SUFFICES ASSUME Inv, ReadStaged PROVE Inv'
  OBVIOUS
<1>0. /\ phase = "transfer" /\ writer = "staged" /\ writer' = "writing" /\ temps' \subseteq temps
      /\ UNCHANGED <<runVars, userVars, fileVars, taskVars>>
  BY DEF ReadStaged
<1>1. TypeOK' /\ FileIsPrefix'
  BY <1>0 DEF Inv, TypeOK, FileIsPrefix, IsFile, runVars, userVars, fileVars, taskVars
<1>2. ClaimsAccounted' /\ NewTasks' /\ NoLostWakeup'
  BY <1>0 DEF Inv, ClaimsAccounted, NewTasks, NoLostWakeup, InTask, taskVars, fileVars
<1>3. FilePos' /\ WriterHolds' /\ CompletePending'
  BY <1>0 DEF Inv, FilePos, WriterHolds, CompletePending, runVars, fileVars, taskVars
<1> QED
  BY <1>1, <1>2, <1>3 DEF Inv

LEMMA WriteDoneInv == Inv /\ WriteDone => Inv'
<1> SUFFICES ASSUME Inv, WriteDone PROVE Inv'
  OBVIOUS
<1>0. /\ phase = "transfer" /\ writer = "writing" /\ writer' = "check"
      /\ disk' = Append(disk, next_id) /\ mac' = Append(mac, next_id) /\ next_id' = next_id + 1
      /\ ReleaseClaim(next_id, "written")
      /\ UNCHANGED <<attempt, first_error, resumed, temps>>
      /\ UNCHANGED <<runVars, userVars>>
  BY DEF WriteDone
<1>1. /\ TotalChunks \in Nat /\ next_id \in Chunk /\ task[next_id] = "taken"
      /\ disk = Prefix(next_id - 1) /\ mac = disk
  BY <1>0, SizesAssumption DEF Inv, FilePos, WriterHolds
<1>2. /\ next_id - 1 \in 0..TotalChunks /\ next_id - 1 < TotalChunks /\ next_id - 1 + 1 = next_id
      /\ next_id \in 0..TotalChunks
  BY <1>1 DEF Chunk
<1>3. disk' = Prefix(next_id) /\ mac' = Prefix(next_id)
  BY <1>0, <1>1, <1>2, GrowPrefix
<1>4. disk' \in Seq(0..TotalChunks) /\ mac' \in Seq(Chunk)
  BY <1>2, <1>3, PrefixIsSeq DEF FileChunk
<1>5. /\ task' \in [Chunk -> TaskState] /\ task'[next_id] = "written"
      /\ \A d \in Chunk \ {next_id} :
           task'[d] = task[d] \/ (task[d] = "waiting" /\ task'[d] = "granted")
      /\ ClaimsAccounted' /\ claims' \in 0..Slots
  BY <1>0, <1>1, ReleaseKeepsCount DEF Inv, Holding
<1>6. TypeOK'
  <2>1. next_id' \in 1..TotalChunks + 1
    BY <1>0, <1>1 DEF Chunk
  <2> QED
    BY <1>0, <1>4, <1>5, <2>1 DEF Inv, TypeOK, TaskState, runVars, userVars
<1>7. FileIsPrefix'
  BY <1>2, <1>3 DEF FileIsPrefix, IsFile
<1>8. FilePos' /\ WriterHolds' /\ NoLostWakeup'
  <2>1. next_id' - 1 = next_id
    BY <1>0, <1>1 DEF Chunk
  <2> QED
    BY <1>0, <1>3, <2>1 DEF FilePos, WriterHolds, NoLostWakeup, runVars
<1>9. CompletePending'
  BY <1>0 DEF Inv, CompletePending, runVars
<1>10. NewTasks'
  BY <1>1, <1>5, NoNewTasks DEF Inv
<1> QED
  BY <1>5, <1>6, <1>7, <1>8, <1>9, <1>10 DEF Inv

\* Tearing the chunk after a prefix leaves a file.
LEMMA TornIsFile ==
    ASSUME NEW k \in 0..TotalChunks, k < TotalChunks
    PROVE  IsFile(Append(Prefix(k), Torn))
<1>1. k + 1 \in 1..TotalChunks
  BY SizesAssumption
<1>2. Append(Prefix(k), Torn) = [Prefix(k + 1) EXCEPT ![k + 1] = Torn]
  BY TearPrefix
<1> QED
  BY <1>1, <1>2 DEF IsFile

LEMMA WriterFailsInv == Inv /\ WriterFails => Inv'
<1> SUFFICES ASSUME Inv, WriterFails PROVE Inv'
  OBVIOUS
<1>0. /\ phase = "transfer" /\ writer \in {"staged", "writing"} /\ writer' = "off"
      /\ Unwind("error") /\ phase' = "unwinding" /\ result' = "error"
      /\ disk' = disk \/ disk' = Append(disk, Torn)
      /\ UNCHANGED <<attempt, first_error, cancels, runs, next_id, resumed, mac, temps>>
      /\ UNCHANGED userVars
  BY DEF WriterFails, Unwind
<1>1. TotalChunks \in Nat /\ next_id \in Chunk /\ disk = Prefix(next_id - 1) /\ IsFile(disk)
  BY <1>0, SizesAssumption DEF Inv, WriterHolds, FilePos, FileIsPrefix
<1>2. next_id - 1 \in 0..TotalChunks /\ next_id - 1 < TotalChunks
  BY <1>1 DEF Chunk
<1>3. IsFile(disk')
  BY <1>0, <1>1, <1>2, TornIsFile
<1>4. disk' \in Seq(0..TotalChunks)
  BY <1>3, FileShape DEF FileChunk
<1>5. /\ task' \in [Chunk -> TaskState] /\ ClaimsAccounted' /\ claims' \in 0..Slots /\ NewTasks'
  BY <1>0, UnwindFacts DEF Inv
<1>6. TypeOK'
  BY <1>0, <1>4, <1>5 DEF Inv, TypeOK, TaskState, userVars
<1>7. FilePos' /\ WriterHolds' /\ NoLostWakeup' /\ CompletePending'
  BY <1>0 DEF FilePos, WriterHolds, NoLostWakeup, CompletePending
<1>8. FileIsPrefix'
  BY <1>3 DEF FileIsPrefix, IsFile
<1> QED
  BY <1>5, <1>6, <1>7, <1>8 DEF Inv

LEMMA CancelInv == Inv /\ Cancel => Inv'
<1> SUFFICES ASSUME Inv, Cancel PROVE Inv'
  OBVIOUS
<1>0. /\ phase = "transfer" /\ cancels' \in 0..MaxCancels
      /\ Unwind("cancelled") /\ phase' = "unwinding" /\ result' = "cancelled"
      /\ writer' = IF writer = "writing" THEN "writing" ELSE "off"
      /\ UNCHANGED <<attempt, first_error, runs, temps>>
      /\ UNCHANGED <<userVars, fileVars>>
  BY BoundsAssumption DEF Cancel, Unwind, Inv, TypeOK
<1>1. /\ task' \in [Chunk -> TaskState] /\ ClaimsAccounted' /\ claims' \in 0..Slots /\ NewTasks'
  BY <1>0, UnwindFacts DEF Inv
<1>2. TypeOK'
  BY <1>0, <1>1 DEF Inv, TypeOK, TaskState, userVars, fileVars
<1>3. FilePos' /\ WriterHolds' /\ NoLostWakeup' /\ CompletePending'
  BY <1>0 DEF Inv, FilePos, WriterHolds, NoLostWakeup, CompletePending, fileVars
<1>4. FileIsPrefix'
  BY <1>0 DEF Inv, FileIsPrefix, IsFile, fileVars
<1> QED
  BY <1>1, <1>2, <1>3, <1>4 DEF Inv

\* A write in flight either lands whole or not at all.
LEMMA LandedIsFile ==
    ASSUME Inv, writer = "writing"
    PROVE  IsFile(Append(disk, next_id))
<1>1. TotalChunks \in Nat /\ next_id \in Chunk /\ disk = Prefix(next_id - 1)
  BY SizesAssumption DEF Inv, WriterHolds, FilePos
<1>2. /\ next_id - 1 \in 0..TotalChunks /\ next_id - 1 < TotalChunks /\ next_id - 1 + 1 = next_id
      /\ next_id \in 0..TotalChunks
  BY <1>1 DEF Chunk
<1>3. Append(disk, next_id) = Prefix(next_id)
  BY <1>1, <1>2, GrowPrefix
<1> QED
  BY <1>2, <1>3 DEF IsFile

\* Both ways out of the finally block.
LEMMA ClosedInv ==
    ASSUME Inv, phase = "unwinding", phase' = "ended", CloseFile,
           result' = result \/ result' = "abandoned",
           cancels' \in 0..MaxCancels, temps' \subseteq temps,
           UNCHANGED <<runs, next_id, resumed, mac>>, UNCHANGED <<userVars, taskVars>>
    PROVE  Inv'
<1>1. writer' = "off" /\ (disk' = disk \/ (writer = "writing" /\ disk' = Append(disk, next_id)))
  BY DEF CloseFile
<1>2. IsFile(disk')
  BY <1>1, LandedIsFile DEF Inv, FileIsPrefix
<1>3. disk' \in Seq(0..TotalChunks)
  BY <1>2, FileShape DEF FileChunk
<1>4. TypeOK'
  BY <1>1, <1>3 DEF Inv, TypeOK, userVars, taskVars
<1>5. FileIsPrefix'
  BY <1>2 DEF FileIsPrefix, IsFile
<1>6. FilePos' /\ WriterHolds' /\ NoLostWakeup'
  BY <1>1 DEF FilePos, WriterHolds, NoLostWakeup
<1>7. CompletePending'
  BY <1>1 DEF Inv, CompletePending
<1>8. ClaimsAccounted' /\ NewTasks'
  BY DEF Inv, ClaimsAccounted, NewTasks, InTask, taskVars
<1> QED
  BY <1>4, <1>5, <1>6, <1>7, <1>8 DEF Inv

LEMMA FinishInv == Inv /\ (Finish \/ CancelAgain) => Inv'
<1> SUFFICES ASSUME Inv, Finish \/ CancelAgain PROVE Inv'
  OBVIOUS
<1>1. CASE Finish
  <2>1. cancels' \in 0..MaxCancels /\ temps' \subseteq temps
    BY <1>1 DEF Finish, CleanupTemps, Inv, TypeOK
  <2> QED
    BY <1>1, <2>1, ClosedInv DEF Finish
<1>2. CASE CancelAgain
  <2>1. cancels' \in 0..MaxCancels
    BY <1>2, BoundsAssumption DEF CancelAgain, Inv, TypeOK
  <2> QED
    BY <1>2, <2>1, ClosedInv DEF CancelAgain
<1> QED
  BY <1>1, <1>2

-----------------------------------------------------------------------------
(* The surroundings.                                                        *)

\* A crash cuts the file back, possibly inside a chunk.
LEMMA CrashedIsFile ==
    ASSUME NEW f, IsFile(f), NEW k \in 0..Len(f),
           NEW g, g = SubSeq(f, 1, k) \/ (k < Len(f) /\ g = Append(SubSeq(f, 1, k), Torn))
    PROVE  IsFile(g)
<1>1. f \in Seq(FileChunk) /\ Len(f) \in 0..TotalChunks /\ TotalChunks \in Nat
  BY FileShape, SizesAssumption
<1>2. CASE k < Len(f)
  <2>1. k \in 0..TotalChunks /\ k < TotalChunks /\ SubSeq(f, 1, k) = Prefix(k)
    BY <1>1, <1>2, CutFile
  <2>2. IsFile(Prefix(k)) /\ IsFile(Append(Prefix(k), Torn))
    BY <2>1, TornIsFile DEF IsFile
  <2> QED
    BY <2>1, <2>2
<1>3. CASE k = Len(f)
  <2>1. SubSeq(f, 1, k) = f
    BY <1>1, <1>3, SubSeqFull
  <2> QED
    BY <1>1, <1>3, <2>1
<1> QED
  BY <1>1, <1>2, <1>3

LEMMA CrashInv == Inv /\ Crash => Inv'
<1> SUFFICES ASSUME Inv, Crash PROVE Inv'
  OBVIOUS
<1> DEFINE written == IF writer = "writing" THEN Append(disk, next_id) ELSE disk
<1>0. /\ phase' = "ended" /\ result' = "crashed" /\ writer' = "off"
      /\ task' = [c \in Chunk |-> "absent"] /\ claims' = Slots
      /\ UNCHANGED <<attempt, first_error, cancels, runs, next_id, resumed, mac, temps>>
      /\ UNCHANGED userVars
  BY DEF Crash
<1>1. IsFile(written)
  BY LandedIsFile DEF Inv, FileIsPrefix
<1>2. Len(written) \in Nat /\ resumed \in Nat
  BY <1>1, FileShape, SizesAssumption DEF Inv, TypeOK
<1>3. \E k \in resumed..Len(written) :
         \/ disk' = SubSeq(written, 1, k)
         \/ k < Len(written) /\ disk' = Append(SubSeq(written, 1, k), Torn)
  BY DEF Crash
<1> HIDE DEF written
<1>4. PICK k \in 0..Len(written) :
         \/ disk' = SubSeq(written, 1, k)
         \/ k < Len(written) /\ disk' = Append(SubSeq(written, 1, k), Torn)
  BY <1>2, <1>3
<1>5. IsFile(disk')
  BY <1>1, <1>4, CrashedIsFile
<1>6. disk' \in Seq(0..TotalChunks)
  BY <1>5, FileShape DEF FileChunk
<1>7. ClaimsAccounted' /\ claims' \in 0..Slots
  BY <1>0, NoneHeld DEF Holding
<1>8. InTask({"new"})' = {}
  BY <1>0 DEF InTask
<1>9. TypeOK'
  BY <1>0, <1>6, <1>7 DEF Inv, TypeOK, userVars
<1>10. FilePos' /\ WriterHolds' /\ NoLostWakeup' /\ CompletePending' /\ NewTasks'
  BY <1>0, <1>8 DEF FilePos, WriterHolds, NoLostWakeup, CompletePending, NewTasks
<1>11. FileIsPrefix'
  BY <1>5 DEF FileIsPrefix, IsFile
<1> QED
  BY <1>7, <1>9, <1>10, <1>11 DEF Inv

LEMMA PauseInv == Inv /\ Pause => Inv'
<1> SUFFICES ASSUME Inv, Pause PROVE Inv'
  OBVIOUS
<1>0. UNCHANGED <<runVars, taskVars, fileVars, writer, temps, ram_saver>> /\ pauses' \in 0..MaxPauses
  BY BoundsAssumption DEF Pause, Inv, TypeOK
<1>1. pause_event' \in BOOLEAN
  BY Zenon DEF Pause
<1>2. TypeOK' /\ FileIsPrefix'
  BY <1>0, <1>1 DEF Inv, TypeOK, FileIsPrefix, IsFile, runVars, taskVars, fileVars
<1>3. ClaimsAccounted' /\ NewTasks' /\ NoLostWakeup'
  BY <1>0 DEF Inv, ClaimsAccounted, NewTasks, NoLostWakeup, Pending, InTask, taskVars, fileVars
<1>4. FilePos' /\ WriterHolds' /\ CompletePending'
  BY <1>0 DEF Inv, FilePos, WriterHolds, CompletePending, runVars, fileVars, taskVars
<1> QED
  BY <1>2, <1>3, <1>4 DEF Inv

LEMMA ResumeInv == Inv /\ Resume => Inv'
<1> SUFFICES ASSUME Inv, Resume PROVE Inv'
  OBVIOUS
<1>0. /\ UNCHANGED <<attempt, claims, first_error, pauses, writer, temps, ram_saver>>
      /\ UNCHANGED <<runVars, fileVars>>
      /\ task' = [c \in Chunk |-> IF task[c] = "paused" THEN "woken" ELSE task[c]]
  BY DEF Resume
<1>1. pause_event' \in BOOLEAN
  BY Zenon DEF Resume
<1>2. task \in [Chunk -> TaskState]
  BY DEF Inv, TypeOK, TaskState
<1>3. /\ task' \in [Chunk -> TaskState]
      /\ \A d \in Chunk : task'[d] = task[d] \/ (task[d] = "paused" /\ task'[d] = "woken")
  BY <1>0, <1>2 DEF TaskState, Live
<1>4. TypeOK'
  BY <1>0, <1>1, <1>3 DEF Inv, TypeOK, TaskState, runVars, fileVars
<1>5. ClaimsAccounted'
  BY <1>0, <1>3, SameHolding DEF Inv, Holding
<1>6. NewTasks'
  <2>1. CASE \E c \in Chunk : task[c] = "paused"
    BY <1>3, <2>1, NoNewTasks DEF Inv
  <2>2. CASE \A c \in Chunk : task[c] # "paused"
    <3>1. \A c \in Chunk : task'[c] = task[c]
      BY <1>3, <2>2
    <3> QED
      BY <1>0, <3>1 DEF Inv, NewTasks, InTask, fileVars
  <2> QED
    BY <2>1, <2>2
<1>7. NoLostWakeup'
  BY <1>0, <1>3, QuietStep DEF Inv, fileVars
<1>8. FileIsPrefix' /\ FilePos' /\ CompletePending' /\ WriterHolds'
  BY <1>0, <1>3, WriterUntouched DEF runVars, fileVars
<1> QED
  BY <1>4, <1>5, <1>6, <1>7, <1>8 DEF Inv

-----------------------------------------------------------------------------
(* The theorems.                                                            *)

LEMMA StutterInv == Inv /\ UNCHANGED vars => Inv'
<1> SUFFICES ASSUME Inv, UNCHANGED vars PROVE Inv'
  OBVIOUS
<1>1. TypeOK' /\ FileIsPrefix' /\ FilePos' /\ WriterHolds' /\ CompletePending'
  BY DEF vars, Inv, TypeOK, FileIsPrefix, IsFile, FilePos, WriterHolds, CompletePending
<1>2. ClaimsAccounted' /\ NewTasks' /\ NoLostWakeup'
  BY DEF vars, Inv, ClaimsAccounted, NewTasks, NoLostWakeup, Pending, InTask
<1> QED
  BY <1>1, <1>2 DEF Inv

LEMMA NextInv == Inv /\ [Next]_vars => Inv'
<1> SUFFICES ASSUME Inv, [Next]_vars PROVE Inv'
  OBVIOUS
<1>1. CASE Begin
  BY <1>1, BeginInv
<1>2. CASE OpenFails
  BY <1>2, OpenFailsInv
<1>3. CASE StartTasks
  BY <1>3, StartTasksInv
<1>4. CASE \E c \in Chunk : FetchStep(c)
  BY <1>4, FetchStepInv
<1>5. CASE WriterStep
  BY <1>5, WriterCheckInv, ReadStagedInv, WriteDoneInv, WriterFailsInv DEF WriterStep
<1>6. CASE Cancel
  BY <1>6, CancelInv
<1>7. CASE Finish \/ CancelAgain
  BY <1>7, FinishInv
<1>8. CASE Crash
  BY <1>8, CrashInv
<1>9. CASE Pause
  BY <1>9, PauseInv
<1>10. CASE Resume
  BY <1>10, ResumeInv
<1>11. CASE UNCHANGED vars
  BY <1>11, StutterInv
<1> QED
  BY <1>1, <1>2, <1>3, <1>4, <1>5, <1>6, <1>7, <1>8, <1>9, <1>10, <1>11 DEF Next

\* The invariant holds in every reachable state.
THEOREM Invariance == Spec => []Inv
<1>1. Init => Inv
  BY InitInv
<1>2. Inv /\ [Next]_vars => Inv'
  BY NextInv
<1> QED
  BY <1>1, <1>2, PTL DEF Spec

\* Every variable of Downloader.run keeps its kind, and claim_sem never has
\* more than `slots` permits.
THEOREM TypeCorrect == Spec => []TypeOK
<1>1. Inv => TypeOK
  BY DEF Inv
<1> QED
  BY <1>1, Invariance, PTL

\* After any number of cancels, failed writes, crashes and resumes the file is
\* its first chunks in order, torn at most in the last one: its size alone
\* tells Downloader.run where to go on.
THEOREM FileAlwaysPrefix == Spec => []FileIsPrefix
<1>1. Inv => FileIsPrefix
  BY DEF Inv
<1> QED
  BY <1>1, Invariance, PTL

\* A resumed download folds the same MAC as an uninterrupted one.
THEOREM MacAlwaysFollows == Spec => []MacFollowsFile
<1>1. Inv => MacFollowsFile
  <2> SUFFICES ASSUME Inv, phase = "transfer" PROVE mac = disk /\ next_id = Len(disk) + 1
    BY DEF MacFollowsFile
  <2>1. mac = disk /\ disk = Prefix(next_id - 1) /\ next_id \in 1..TotalChunks + 1 /\ TotalChunks \in Nat
    BY SizesAssumption DEF Inv, FilePos, TypeOK
  <2>2. Len(disk) = next_id - 1
    BY <2>1, PrefixIsSeq
  <2> QED
    BY <2>1, <2>2
<1> QED
  BY <1>1, Invariance, PTL

\* At most `slots` chunks are claimed, fetched or buffered at any time.
THEOREM PermitsNeverLost == Spec => []ClaimsAccounted
<1>1. Inv => ClaimsAccounted
  BY DEF Inv
<1> QED
  BY <1>1, Invariance, PTL

\* The writer never sleeps through the deposit or failure it waits for.
THEOREM WakeupNeverLost == Spec => []NoLostWakeup
<1>1. Inv => NoLostWakeup
  BY DEF Inv
<1> QED
  BY <1>1, Invariance, PTL

\* A reported result always stands for the whole file and its whole MAC.
THEOREM ResultIsWhole == Spec => []CompleteIsWhole
<1>1. Inv => CompleteIsWhole
  BY DEF Inv, CompletePending, CompleteIsWhole
<1> QED
  BY <1>1, Invariance, PTL

-----------------------------------------------------------------------------
(* The window of claims.                                                    *)

AllNew ==
    next_id = resumed + 1 /\ \A c \in Chunk : task[c] = IF c <= resumed THEN "absent" ELSE "new"

\* Below the chunk that is written next nothing is claimed or waits; the Slots
\* chunks from it on are claimed; the rest wait.
InWindow ==
    \A c \in Chunk :
      task[c] \in IF c < next_id THEN {"absent", "written"}
                  ELSE IF c < next_id + Slots THEN Holding ELSE {"waiting"}

Placed == phase = "transfer" /\ ~first_error => AllNew \/ InWindow

LEMMA Numbers ==
    ASSUME Inv
    PROVE  /\ TotalChunks \in Nat /\ Slots \in Nat \ {0} /\ next_id \in Nat /\ resumed \in Nat
           /\ Chunk \subseteq Nat /\ task \in [Chunk -> TaskState]
BY SizesAssumption DEF Inv, TypeOK, Chunk, TaskState

\* A task that got going is not alone in having done so.
LEMMA GoneIsPlaced ==
    ASSUME Placed, phase = "transfer", ~first_error, NEW c \in Chunk, task[c] \notin {"absent", "new"}
    PROVE  InWindow
BY DEF Placed, AllNew

\* Claimed tasks stay in the window as long as they stay claimed.
LEMMA WindowStays ==
    ASSUME InWindow, next_id' = next_id,
           \A c \in Chunk : task'[c] = task[c] \/ (task[c] \in Holding /\ task'[c] \in Holding)
    PROVE  InWindow'
<1>1. ASSUME NEW c \in Chunk
      PROVE  task'[c] \in IF c < next_id THEN {"absent", "written"}
                         ELSE IF c < next_id + Slots THEN Holding ELSE {"waiting"}
  <2>1. CASE task'[c] = task[c]
    BY <2>1 DEF InWindow
  <2>2. CASE task[c] \in Holding /\ task'[c] \in Holding
    BY <2>2 DEF InWindow, Holding
  <2> QED
    BY <2>1, <2>2
<1> QED
  BY <1>1 DEF InWindow, Holding

LEMMA StartTasksPlaced ==
    ASSUME Inv, Placed, StartTasks, phase = "transfer", ~first_error
    PROVE  InWindow'
<1> DEFINE New == InTask({"new"})
           Claimed == {c \in New : c <= resumed + Slots}
<1>1. /\ New # {} /\ next_id' = next_id
      /\ task' = [c \in Chunk |->
                    IF c \in Claimed THEN IF pause_event THEN "fetching" ELSE "paused"
                    ELSE IF c \in New THEN "waiting" ELSE task[c]]
  BY DEF StartTasks, fileVars
<1>2. \A c \in Chunk : c \in New <=> task[c] = "new"
  BY DEF InTask
<1>3. \A c \in Chunk : c \in Claimed <=> task[c] = "new" /\ c <= resumed + Slots
  BY <1>2
<1>4. New \subseteq Chunk
  BY DEF InTask
<1> HIDE DEF New, Claimed
<1>5. AllNew
  <2>1. PICK c \in Chunk : task[c] = "new"
    BY <1>1, <1>2, <1>4
  <2> QED
    BY <2>1 DEF Placed, InWindow, Holding
<1>6. ASSUME NEW c \in Chunk
      PROVE  task'[c] \in IF c < next_id THEN {"absent", "written"}
                         ELSE IF c < next_id + Slots THEN Holding ELSE {"waiting"}
  <2>1. c \in Nat /\ next_id = resumed + 1 /\ resumed \in Nat /\ Slots \in Nat
    BY <1>5, Numbers DEF AllNew
  <2>2. task[c] = IF c <= resumed THEN "absent" ELSE "new"
    BY <1>5 DEF AllNew
  <2>3. CASE c <= resumed
    <3>1. task'[c] = "absent"
      BY <1>1, <1>2, <1>3, <2>2, <2>3
    <3> QED
      BY <2>1, <2>3, <3>1
  <2>4. CASE c > resumed /\ c <= resumed + Slots
    <3>1. task'[c] \in {"fetching", "paused"}
      BY <1>1, <1>3, <2>1, <2>2, <2>4
    <3> QED
      BY <2>1, <2>4, <3>1 DEF Holding
  <2>5. CASE c > resumed + Slots
    <3>1. task'[c] = "waiting"
      BY <1>1, <1>2, <1>3, <2>1, <2>2, <2>5
    <3> QED
      BY <2>1, <2>5, <3>1
  <2> QED
    BY <2>1, <2>3, <2>4, <2>5
<1> QED
  BY <1>1, <1>6 DEF InWindow, Holding

\* The chunk written gives its permit to the one that follows the window.
LEMMA WriteDonePlaced ==
    ASSUME Inv, Placed, WriteDone, ~first_error
    PROVE  InWindow'
<1>1. /\ phase = "transfer" /\ next_id' = next_id + 1 /\ ReleaseClaim(next_id, "written")
      /\ next_id \in Chunk /\ task[next_id] = "taken"
  BY DEF WriteDone, Inv, WriterHolds
<1>2. InWindow
  BY <1>1, GoneIsPlaced
<1>3. /\ TotalChunks \in Nat /\ Slots \in Nat \ {0} /\ next_id \in Nat /\ Chunk \subseteq Nat
      /\ Chunk = 1..TotalChunks /\ task \in [Chunk -> TaskState]
  BY Numbers DEF Chunk
<1>4. \A c \in Chunk : c \in Waiting <=> c >= next_id + Slots
  <2>1. ASSUME NEW c \in Chunk
        PROVE  task[c] = "waiting" <=> c >= next_id + Slots
    <3>1. c \in Nat
      BY <1>3
    <3> QED
      BY <1>2, <1>3, <3>1 DEF InWindow, Holding
  <2> QED
    BY <2>1 DEF Waiting, InTask
<1>5. Waiting \subseteq Chunk
  BY DEF Waiting, InTask
<1>6. CASE Waiting = {}
  <2>1. task' = [task EXCEPT ![next_id] = "written"]
    BY <1>1, <1>6 DEF ReleaseClaim
  <2>2. ASSUME NEW c \in Chunk
        PROVE  task'[c] \in IF c < next_id + 1 THEN {"absent", "written"}
                           ELSE IF c < next_id + 1 + Slots THEN Holding ELSE {"waiting"}
    <3>1. c \in Nat /\ c < next_id + Slots
      BY <1>3, <1>4, <1>6
    <3>2. task'[c] = IF c = next_id THEN "written" ELSE task[c]
      BY <1>3, <2>1
    <3>3. task[c] \in IF c < next_id THEN {"absent", "written"} ELSE Holding
      BY <1>2, <3>1 DEF InWindow
    <3> QED
      BY <1>3, <3>1, <3>2, <3>3
  <2> QED
    BY <1>1, <2>2 DEF InWindow, Holding
<1>7. CASE Waiting # {}
  <2> DEFINE k == next_id + Slots
  <2>1. k \in Chunk /\ k \in Waiting /\ k # next_id
    <3>1. PICK w \in Waiting : w \in Chunk
      BY <1>5, <1>7
    <3>2. w \in Nat /\ w <= TotalChunks /\ w >= k /\ k >= 1 /\ k \in Nat /\ k # next_id
      BY <1>3, <1>4, <3>1
    <3>3. k \in Chunk
      BY <1>3, <3>2
    <3>4. k >= k
      BY <3>2
    <3> QED
      BY <1>4, <3>2, <3>3, <3>4
  <2>2. FirstWaiter = k
    <3>1. \A v \in Waiting : k <= v
      BY <1>3, <1>4, <1>5
    <3>2. \A w \in Waiting : (\A v \in Waiting : w <= v) => w = k
      <4>1. ASSUME NEW w \in Waiting, \A v \in Waiting : w <= v
            PROVE  w = k
        <5>1. w <= k /\ k <= w /\ w \in Nat /\ k \in Nat
          BY <1>3, <1>5, <2>1, <3>1, <4>1
        <5> QED
          BY <5>1
      <4> QED
        BY <4>1
    <3> HIDE DEF k
    <3> QED
      BY <2>1, <3>1, <3>2 DEF FirstWaiter
  <2>3. task' = [task EXCEPT ![next_id] = "written", ![k] = "granted"]
    BY <1>1, <1>7, <2>2 DEF ReleaseClaim
  <2>4. ASSUME NEW c \in Chunk
        PROVE  task'[c] \in IF c < next_id + 1 THEN {"absent", "written"}
                           ELSE IF c < next_id + 1 + Slots THEN Holding ELSE {"waiting"}
    <3>1. c \in Nat /\ k \in Nat /\ k = next_id + Slots /\ next_id < k
      BY <1>3
    <3>2. task'[c] = IF c = k THEN "granted" ELSE IF c = next_id THEN "written" ELSE task[c]
      <4> HIDE DEF k
      <4> QED
        BY <1>1, <1>3, <2>1, <2>3
    <3>3. task[c] \in IF c < next_id THEN {"absent", "written"}
                      ELSE IF c < k THEN Holding ELSE {"waiting"}
      BY <1>2 DEF InWindow
    <3>4. "granted" \in Holding
      BY DEF Holding
    <3> HIDE DEF k
    <3> QED
      BY <1>3, <3>1, <3>2, <3>3, <3>4
  <2> QED
    BY <1>1, <2>4 DEF InWindow, Holding
<1> QED
  BY <1>6, <1>7

LEMMA NextPlaced ==
    ASSUME Inv, Placed, [Next]_vars
    PROVE  Placed'
<1> SUFFICES ASSUME phase' = "transfer", ~first_error'
             PROVE  (AllNew \/ InWindow)'
  BY DEF Placed
<1>1. CASE Begin
  <2>1. next_id' = resumed' + 1 /\ resumed' = WholeChunks
        /\ task' = [c \in Chunk |-> IF c <= WholeChunks THEN "absent" ELSE "new"]
    BY <1>1 DEF Begin, StartRun
  <2> QED
    BY <2>1 DEF AllNew
<1>2. CASE StartTasks
  BY <1>2, StartTasksPlaced DEF StartTasks, runVars
<1>3. ASSUME NEW c \in Chunk, FetchStep(c)
      PROVE  InWindow'
  <2>1. /\ UNCHANGED <<phase, next_id>> /\ task[c] \in Holding
        /\ task[c] \notin {"absent", "new"}
    BY <1>3 DEF FetchStep, RunGranted, RunWoken, Deposit, AttemptFails, Reroute, Rerouted, NoProxyLeft,
                FetchFails, runVars, fileVars, Holding
  <2>2. ~FetchFails(c) /\ UNCHANGED first_error
    BY <1>3 DEF FetchStep, RunGranted, RunWoken, Deposit, AttemptFails, Reroute, Rerouted, NoProxyLeft, FetchFails
  <2>3. InWindow
    BY <2>1, <2>2, GoneIsPlaced
  <2>4. \E s \in Holding : task' = [task EXCEPT ![c] = s]
    <3>1. CASE RunGranted(c)
      BY <3>1 DEF RunGranted, Holding
    <3>2. CASE AttemptFails(c)
      <4>1. task' = task /\ task \in [Chunk -> TaskState]
        BY <2>2, <3>2, Numbers DEF AttemptFails
      <4>2. task' = [task EXCEPT ![c] = task[c]]
        BY <4>1
      <4> QED
        BY <2>1, <4>2
    <3>3. CASE RunWoken(c) \/ Deposit(c) \/ Reroute(c) \/ Rerouted(c)
      BY <3>3 DEF RunWoken, Deposit, Reroute, Rerouted, Holding
    <3>4. CASE NoProxyLeft(c)
      BY <2>2, <3>4 DEF NoProxyLeft
    <3> QED
      BY <1>3, <3>1, <3>2, <3>3, <3>4 DEF FetchStep
  <2>5. \A d \in Chunk : task'[d] = task[d] \/ (task[d] \in Holding /\ task'[d] \in Holding)
    <3>1. task \in [Chunk -> TaskState]
      BY Numbers
    <3> QED
      BY <2>1, <2>4, <3>1
  <2> QED
    BY <2>1, <2>3, <2>5, WindowStays
<1>4. CASE WriterCheck
  <2>1. writer = "check" /\ phase = "transfer" /\ UNCHANGED <<first_error, next_id, resumed>>
    BY <1>4 DEF WriterCheck, fileVars
  <2>2. CASE task' = task
    BY <2>1, <2>2 DEF Placed, AllNew, InWindow, Holding
  <2>3. CASE next_id \in Pending /\ task' = [task EXCEPT ![next_id] = "taken"]
    <3>1. next_id \in Chunk /\ task[next_id] = "deposited" /\ task \in [Chunk -> TaskState]
      BY <2>3, Numbers DEF Pending, InTask
    <3>2. InWindow
      BY <2>1, <3>1, GoneIsPlaced
    <3>3. \A d \in Chunk : task'[d] = task[d] \/ (task[d] \in Holding /\ task'[d] \in Holding)
      BY <2>3, <3>1 DEF Holding
    <3> QED
      BY <2>1, <3>2, <3>3, WindowStays
  <2> QED
    BY <1>4, <2>2, <2>3 DEF WriterCheck, Unwind
<1>5. CASE WriteDone
  BY <1>5, WriteDonePlaced DEF WriteDone
<1>6. CASE ReadStaged \/ Pause \/ UNCHANGED vars
  <2>1. UNCHANGED <<phase, first_error, next_id, resumed, task>>
    BY <1>6 DEF ReadStaged, Pause, vars, runVars, fileVars, taskVars
  <2> QED
    BY <2>1 DEF Placed, AllNew, InWindow, Holding
<1>7. CASE Resume
  <2>1. /\ UNCHANGED <<phase, first_error, next_id, resumed>>
        /\ task' = [c \in Chunk |-> IF task[c] = "paused" THEN "woken" ELSE task[c]]
    BY <1>7 DEF Resume, runVars, fileVars
  <2>2. CASE AllNew
    <3>1. \A c \in Chunk : task'[c] = task[c]
      BY <2>1, <2>2 DEF AllNew
    <3> QED
      BY <2>1, <2>2, <3>1 DEF AllNew
  <2>3. CASE InWindow
    <3>1. \A c \in Chunk : task'[c] = task[c] \/ (task[c] \in Holding /\ task'[c] \in Holding)
      BY <2>1 DEF Holding
    <3> QED
      BY <2>1, <2>3, <3>1, WindowStays
  <2> QED
    BY <2>1, <2>2, <2>3 DEF Placed
<1>8. ~(OpenFails \/ WriterFails \/ Cancel \/ Finish \/ CancelAgain \/ Crash)
  BY DEF OpenFails, WriterFails, Cancel, Finish, CancelAgain, Crash, Unwind
<1> QED
  BY <1>1, <1>2, <1>3, <1>4, <1>5, <1>6, <1>7, <1>8 DEF Next, WriterStep

\* Until a fetch fails, claims are for the Slots chunks from the next one on.
THEOREM WindowKept == Spec => []ClaimWindow
<1>1. Init => Placed
  BY DEF Init, Placed
<1>2. Inv /\ Placed /\ [Next]_vars => Placed'
  BY NextPlaced
<1>3. Inv /\ Placed => ClaimWindow
  <2> SUFFICES ASSUME Inv, AllNew \/ InWindow, NEW c \in Chunk, task[c] \in Holding
               PROVE  c \in next_id..(next_id + Slots - 1)
    BY DEF ClaimWindow, Placed, InTask
  <2>1. InWindow
    BY DEF AllNew, Holding
  <2>2. c \in Int /\ next_id \in Int /\ Slots \in Int
    BY Numbers
  <2>3. ~(c < next_id) /\ c < next_id + Slots
    BY <2>1 DEF InWindow, Holding
  <2> QED
    BY <2>2, <2>3
<1> QED
  BY <1>1, <1>2, <1>3, Invariance, PTL DEF Spec

-----------------------------------------------------------------------------
(* The temp files.                                                          *)

\* Chunks the run has begun and not yet written or lost.
Working == Live \cup {"deposited", "taken"}

\* The writer has yet to take a chunk's plaintext from its temp file.
Ahead(c) == c > next_id \/ (c = next_id /\ writer # "writing")

\* While a run transfers, its unfinished chunks are those from the next one on, and
\* with the RAM saver on a temp file is at one of them, or at a chunk found on
\* disk; a complete run has no fetch left that could make another.
TempsInv ==
    /\ phase = "transfer" => \A c \in Chunk : task[c] \in Working => c >= next_id
    /\ phase = "transfer" /\ ram_saver => \A c \in temps : c <= resumed \/ Ahead(c)
    /\ result = "complete" =>
         InTask(Live) = {} /\ (ram_saver => \A c \in temps : c <= resumed)

LEMMA UnwindKillsAll ==
    ASSUME NEW how, Unwind(how)
    PROVE  InTask(Live)' = {} /\ phase' = "unwinding"
<1>1. \A c \in Chunk : task'[c] \notin Live
  BY DEF Unwind, Live
<1> QED
  BY <1>1 DEF InTask, Live, Unwind

\* A step of some live fetch tasks, which may make their temp files.
LEMMA FetchTemps ==
    ASSUME Inv, TempsInv, NEW S \in SUBSET InTask(Live), S # {}, temps' \subseteq temps \cup S,
           \A d \in Chunk : task'[d] \in Working => task[d] \in Working,
           writer' = "writing" => writer = "writing",
           UNCHANGED <<phase, result, next_id, resumed, ram_saver>>
    PROVE  TempsInv'
<1>1. \A c \in S : c \in Chunk /\ task[c] \in Live /\ task[c] \in Working /\ task[c] # "taken"
  BY DEF InTask, Live, Working
<1>2. phase = "transfer" => \A c \in Chunk : task'[c] \in Working => c >= next_id
  BY DEF TempsInv
<1>3. ASSUME phase = "transfer", ram_saver, NEW c \in temps'
      PROVE  c <= resumed \/ c > next_id \/ (c = next_id /\ writer' # "writing")
  <2>1. CASE c \in temps
    BY <1>3, <2>1 DEF TempsInv, Ahead
  <2>2. CASE c \in S
    <3>1. c >= next_id /\ c \in Int /\ next_id \in Int
      BY <1>1, <1>3, <2>2, Numbers DEF TempsInv
    <3>2. ASSUME c = next_id PROVE writer # "writing"
      BY <1>1, <1>3, <2>2, <3>2 DEF Inv, WriterHolds
    <3> QED
      BY <3>1, <3>2
  <2> QED
    BY <1>3, <2>1, <2>2
<1>4. result # "complete"
  BY <1>1 DEF TempsInv
<1> QED
  BY <1>2, <1>3, <1>4 DEF TempsInv, Ahead

\* The writer's look: everything is written, or it goes on.
LEMMA CheckTemps == ASSUME Inv, TempsInv, WriterCheck PROVE TempsInv'
<1>1. /\ phase = "transfer" /\ UNCHANGED <<next_id, resumed, temps, ram_saver>>
      /\ TotalChunks \in Nat /\ next_id \in Int /\ resumed \in Int /\ temps \subseteq Chunk
      /\ result # "complete" /\ task \in [Chunk -> TaskState]
  BY SizesAssumption DEF WriterCheck, Inv, TypeOK, CompletePending, TaskState, fileVars, userVars
<1>2. CASE AllWritten /\ Unwind("complete")
  <2>1. InTask(Live)' = {} /\ phase' = "unwinding"
    BY <1>2, UnwindKillsAll
  <2>2. ASSUME ram_saver, NEW c \in temps PROVE c <= resumed
    <3>1. c \in Int /\ c <= TotalChunks /\ next_id > TotalChunks
      BY <1>1, <1>2, <2>2 DEF AllWritten, Chunk
    <3> QED
      BY <1>1, <2>2, <3>1 DEF TempsInv, Ahead
  <2> QED
    BY <1>1, <2>1, <2>2 DEF TempsInv
<1>3. CASE Unwind("error")
  BY <1>3 DEF Unwind, TempsInv
<1>4. CASE /\ task' = [task EXCEPT ![next_id] = "taken"] /\ next_id \in Pending
           /\ writer' = IF ram_saver THEN "staged" ELSE "writing"
           /\ UNCHANGED <<phase, result>>
  <2>1. \A d \in Chunk : task'[d] \in Working => task[d] \in Working
    BY <1>1, <1>4 DEF Working, Pending, InTask
  <2>2. ram_saver => writer' = "staged"
    BY <1>4
  <2> QED
    BY <1>1, <1>4, <2>1, <2>2, Numbers DEF TempsInv, Ahead, Inv, TypeOK
<1>5. CASE writer' = "asleep" /\ UNCHANGED <<phase, result, task>>
  BY <1>1, <1>5 DEF TempsInv, Ahead, WriterCheck
<1> QED
  BY <1>2, <1>3, <1>4, <1>5 DEF WriterCheck

\* The chunk is on disk, and what waits for a permit is behind it.
LEMMA WrittenTemps == ASSUME Inv, TempsInv, WriteDone PROVE TempsInv'
<1>1. /\ phase = "transfer" /\ writer = "writing" /\ writer' = "check" /\ next_id' = next_id + 1
      /\ UNCHANGED <<phase, result, resumed, temps, ram_saver>> /\ ReleaseClaim(next_id, "written")
  BY DEF WriteDone, runVars, userVars
<1>2. /\ next_id \in Chunk /\ task[next_id] = "taken" /\ result # "complete"
      /\ next_id \in Int /\ resumed \in Int /\ temps \subseteq Chunk /\ Chunk \subseteq Int
  BY <1>1, Numbers DEF Inv, TypeOK, WriterHolds, CompletePending, Chunk
<1>3. ASSUME NEW c \in Chunk, task'[c] \in Working PROVE c >= next_id + 1
  <2>1. /\ task'[next_id] = "written"
        /\ \A d \in Chunk \ {next_id} :
             task'[d] = task[d] \/ (task[d] = "waiting" /\ task'[d] = "granted")
    BY <1>1, <1>2, ReleaseKeepsCount DEF Inv, TypeOK, Holding
  <2>2. c # next_id /\ task[c] \in Working
    BY <1>3, <2>1 DEF Working, Live
  <2>3. c >= next_id
    BY <1>1, <2>2 DEF TempsInv
  <2> QED
    BY <1>2, <2>2, <2>3
<1>4. ASSUME ram_saver, NEW c \in temps PROVE c <= resumed \/ c >= next_id + 1
  <2>1. c <= resumed \/ c > next_id
    BY <1>1, <1>4 DEF TempsInv, Ahead
  <2> QED
    BY <1>2, <2>1
<1> QED
  BY <1>1, <1>2, <1>3, <1>4 DEF TempsInv, Ahead

LEMMA NextTemps == ASSUME Inv, TempsInv, [Next]_vars PROVE TempsInv'
<1>1. CASE Begin
  <2>1. /\ phase' = "transfer" /\ result' = "none" /\ writer' = "check" /\ UNCHANGED temps
        /\ resumed' = WholeChunks /\ next_id' = WholeChunks + 1
        /\ task' = [c \in Chunk |-> IF c <= WholeChunks THEN "absent" ELSE "new"]
        /\ WholeChunks \in Int /\ temps \subseteq Chunk /\ Chunk \subseteq Int
    BY <1>1, WholeChunksOfFile DEF Begin, StartRun, Inv, TypeOK, Chunk
  <2>2. \A c \in Chunk : task'[c] \in Working => c >= WholeChunks + 1
    BY <2>1 DEF Working, Live
  <2>3. \A c \in temps : c <= WholeChunks \/ c >= WholeChunks + 1
    BY <2>1
  <2> HIDE DEF WholeChunks
  <2> QED
    BY <2>1, <2>2, <2>3 DEF TempsInv, Ahead
<1>2. CASE OpenFails
  BY <1>2 DEF OpenFails, TempsInv
<1>3. CASE StartTasks
  <2> DEFINE S == InTask({"new"})
  <2>1. S \in SUBSET InTask(Live) /\ S # {} /\ temps' \subseteq temps \cup S
    BY <1>3 DEF StartTasks, InTask, Live
  <2>2. \A d \in Chunk : task'[d] \in Working => task[d] \in Working
    BY <1>3 DEF StartTasks, InTask, Working, Live
  <2>3. UNCHANGED <<phase, result, next_id, resumed, ram_saver, writer>>
    BY <1>3 DEF StartTasks, runVars, fileVars, userVars
  <2> HIDE DEF S
  <2> QED
    BY <2>1, <2>2, <2>3, FetchTemps
<1>4. ASSUME NEW c \in Chunk, FetchStep(c) PROVE TempsInv'
  <2>1. task[c] \in Live /\ {c} \in SUBSET InTask(Live) /\ task \in [Chunk -> TaskState]
    BY <1>4 DEF FetchStep, RunGranted, RunWoken, Deposit, AttemptFails, Reroute, Rerouted,
                NoProxyLeft, InTask, Live, Inv, TypeOK, TaskState
  <2>2. /\ UNCHANGED <<phase, result, next_id, resumed, ram_saver>> /\ temps' \subseteq temps \cup {c}
        /\ writer' = "writing" => writer = "writing"
    BY <1>4 DEF FetchStep, RunGranted, RunWoken, Deposit, AttemptFails, Reroute, Rerouted,
                NoProxyLeft, FetchFails, NotifyWriter, runVars, fileVars, userVars
  <2>3. ASSUME NEW d \in Chunk, task'[d] \in Working PROVE task[d] \in Working
    <3>1. CASE FetchFails(c)
      <4>1. ReleaseClaim(c, "failed") /\ task[c] \in Holding
        BY <1>4, <2>1, <3>1 DEF FetchFails, FetchStep, RunGranted, RunWoken, Deposit, AttemptFails,
                                Reroute, Rerouted, NoProxyLeft, Holding
      <4>2. /\ task'[c] = "failed"
            /\ \A e \in Chunk \ {c} :
                 task'[e] = task[e] \/ (task[e] = "waiting" /\ task'[e] = "granted")
        BY <4>1, ReleaseKeepsCount DEF Inv
      <4> QED
        BY <2>3, <4>2 DEF Working, Live
    <3>2. CASE ~FetchFails(c)
      <4>1. \A e \in Chunk \ {c} : task'[e] = task[e]
        BY <1>4, <2>1, <3>2 DEF FetchStep, RunGranted, RunWoken, Deposit, AttemptFails, Reroute,
                                Rerouted, NoProxyLeft
      <4> QED
        BY <2>1, <2>3, <4>1 DEF Working
    <3> QED
      BY <3>1, <3>2
  <2> QED
    BY <2>1, <2>2, <2>3, FetchTemps
<1>5. CASE ReadStaged
  <2>1. /\ phase = "transfer" /\ temps' = temps \ {next_id}
        /\ UNCHANGED <<phase, result, next_id, resumed, task, ram_saver>>
    BY <1>5 DEF ReadStaged, runVars, userVars, fileVars, taskVars
  <2>2. result # "complete"
    BY <2>1 DEF Inv, CompletePending
  <2> QED
    BY <2>1, <2>2 DEF TempsInv, Ahead
<1>6. CASE WriterFails \/ Cancel
  BY <1>6 DEF WriterFails, Cancel, Unwind, TempsInv
<1>7. CASE Finish
  <2>1. /\ phase' = "ended" /\ temps' \subseteq temps
        /\ UNCHANGED <<result, task, resumed, ram_saver>>
    BY <1>7 DEF Finish, CleanupTemps, taskVars, userVars
  <2> QED
    BY <2>1 DEF TempsInv, InTask
<1>8. CASE CancelAgain \/ Crash
  BY <1>8 DEF CancelAgain, Crash, TempsInv
<1>9. CASE Pause \/ Resume \/ UNCHANGED vars
  <2>1. UNCHANGED <<phase, result, temps, next_id, resumed, ram_saver, writer>>
    BY <1>9 DEF Pause, Resume, vars, runVars, fileVars
  <2>2. /\ \A c \in Chunk : task'[c] \in Working => task[c] \in Working
        /\ \A c \in Chunk : task'[c] \in Live => task[c] \in Live
    BY <1>9 DEF Pause, Resume, vars, taskVars, Working, Live
  <2>3. InTask(Live) = {} => InTask(Live)' = {}
    BY <2>2 DEF InTask
  <2> QED
    BY <2>1, <2>2, <2>3 DEF TempsInv, Ahead
<1> QED
  BY <1>1, <1>2, <1>3, <1>4, <1>5, <1>6, <1>7, <1>8, <1>9, CheckTemps, WrittenTemps
     DEF Next, WriterStep

\* A run with the RAM saver on that reports a result has consumed every temp file
\* at a chunk it wrote, whatever the final sweep misses (download.py:55-61,
\* 437-453); what may be left is from killed runs, at chunks the resume kept.
THEOREM CleanRunAlwaysConsumes == Spec => []CleanRunConsumes
<1>1. Init => TempsInv
  BY DEF Init, TempsInv
<1>2. Inv /\ TempsInv /\ [Next]_vars => TempsInv'
  BY NextTemps
<1>3. Inv /\ TempsInv => CleanRunConsumes
  <2> SUFFICES ASSUME Inv, TempsInv, result = "complete", ram_saver, NEW c \in temps
               PROVE  c \in 1..resumed
    BY DEF CleanRunConsumes
  <2>1. c \in Chunk /\ resumed \in 0..TotalChunks /\ c <= resumed /\ TotalChunks \in Nat
    BY SizesAssumption DEF Inv, TypeOK, TempsInv
  <2> QED
    BY <2>1 DEF Chunk
<1> QED
  BY <1>1, <1>2, <1>3, Invariance, PTL DEF Spec

-----------------------------------------------------------------------------
(* Steps while the download is paused.                                      *)

\* A release starts no fetch.
LEMMA ReleaseStartsNothing ==
    ASSUME NEW d \in Chunk, NEW s \in {"failed", "written"}, ReleaseClaim(d, s), task \in [Chunk -> TaskState]
    PROVE  \A c \in Chunk : task'[c] = "fetching" => task[c] = "fetching"
BY DEF ReleaseClaim

LEMMA StepHolds ==
    ASSUME Inv, [Next]_vars, NEW c \in Chunk, ~pause_event', task'[c] = "fetching"
    PROVE  task[c] \in {"fetching", "rerouting", "woken"}
<1>0. task \in [Chunk -> TaskState]
  BY Numbers
<1>1. ~(Begin \/ OpenFails \/ Resume \/ Crash)
  BY DEF Begin, OpenFails, StartRun, Resume, Crash
<1>2. CASE StartTasks
  <2>1. ~pause_event
    BY <1>2 DEF StartTasks, userVars
  <2>2. task'[c] \in {"paused", "waiting", task[c]}
    BY <1>2, <2>1 DEF StartTasks
  <2> QED
    BY <2>2
<1>3. ASSUME NEW d \in Chunk, FetchStep(d)
      PROVE  task[c] \in {"fetching", "rerouting", "woken"}
  <2>1. CASE FetchFails(d)
    BY <1>0, <2>1, ReleaseStartsNothing DEF FetchFails
  <2>2. CASE RunGranted(d)
    <3>1. ~pause_event
      BY <2>2 DEF RunGranted, userVars
    <3> QED
      BY <1>0, <2>2, <3>1 DEF RunGranted, Goes
  <2>3. CASE AttemptFails(d) /\ ~FetchFails(d)
    BY <2>3 DEF AttemptFails
  <2>4. CASE RunWoken(d) \/ Deposit(d) \/ Reroute(d) \/ Rerouted(d)
    BY <1>0, <2>4 DEF RunWoken, Deposit, Reroute, Rerouted
  <2> QED
    BY <1>3, <2>1, <2>2, <2>3, <2>4 DEF FetchStep, NoProxyLeft
<1>4. CASE \E how \in {"complete", "error", "cancelled"} : Unwind(how)
  BY <1>4 DEF Unwind, Live
<1>5. CASE WriteDone
  <2>1. next_id \in Chunk /\ ReleaseClaim(next_id, "written")
    BY <1>5 DEF WriteDone, Inv, WriterHolds
  <2> QED
    BY <1>0, <2>1, ReleaseStartsNothing
<1>6. CASE WriterCheck /\ ~\E how \in {"complete", "error", "cancelled"} : Unwind(how)
  <2>1. task' = task \/ task' = [task EXCEPT ![next_id] = "taken"]
    BY <1>6 DEF WriterCheck
  <2> QED
    BY <1>0, <2>1
<1>7. CASE ReadStaged \/ Finish \/ CancelAgain \/ Pause \/ UNCHANGED vars
  BY <1>7 DEF ReadStaged, Finish, CancelAgain, Pause, vars, taskVars
<1> QED
  BY <1>1, <1>2, <1>3, <1>4, <1>5, <1>6, <1>7 DEF Next, WriterStep, WriterFails, Cancel

\* While it is paused only tasks that a resume had woken start a fetch.
THEOREM PauseAlwaysHolds == Spec => PauseHolds
<1>1. Inv /\ [Next]_vars
        => [\A c \in Chunk : ~pause_event' /\ task'[c] = "fetching"
                                => task[c] \in {"fetching", "rerouting", "woken"}]_vars
  BY StepHolds
<1> QED
  BY <1>1, Invariance, PTL DEF Spec, PauseHolds

-----------------------------------------------------------------------------
(* Steps of the file.                                                       *)

\* The whole chunks of a file that is k of them, and of one torn after them.
LEMMA WholeOfPrefix ==
    ASSUME NEW k \in 0..TotalChunks, NEW f,
           f = Prefix(k) \/ (k < TotalChunks /\ f = Append(Prefix(k), Torn))
    PROVE  /\ (IF f # <<>> /\ f[Len(f)] = Torn THEN Len(f) - 1 ELSE Len(f)) = k
           /\ SubSeq(f, 1, k) = Prefix(k)
<1>1. /\ k \in Nat /\ Torn = 0 /\ Torn \in FileChunk /\ IsFile(Prefix(k))
      /\ Prefix(k) \in Seq(FileChunk) /\ Len(Prefix(k)) = k /\ \A i \in 1..k : Prefix(k)[i] = i
  BY PrefixIsSeq, SizesAssumption DEF Torn, FileChunk, IsFile
<1>2. CASE f = Prefix(k)
  <2>1. Len(f) = k /\ f \in Seq(FileChunk)
    BY <1>1, <1>2
  <2>2. SubSeq(f, 1, k) = f
    BY <2>1, SubSeqFull
  <2>3. f # <<>> => f[Len(f)] = k /\ k # 0
    <3>1. f # <<>> => Len(f) # 0
      BY <2>1, EmptySeq
    <3> QED
      BY <1>1, <1>2, <2>1, <3>1
  <2> QED
    BY <1>1, <1>2, <2>1, <2>2, <2>3
<1>3. CASE k < TotalChunks /\ f = Append(Prefix(k), Torn)
  <2> DEFINE p == Prefix(k)
  <2>1. p \in Seq(FileChunk) /\ Len(p) = k
    BY <1>1
  <2> HIDE DEF p
  <2>2. f = Append(p, Torn)
    BY <1>3 DEF p
  <2>3. f \in Seq(FileChunk) /\ Len(f) = k + 1 /\ f[k + 1] = Torn
    BY <1>1, <2>1, <2>2, AppendProperties
  <2>4. f # <<>>
    BY <1>1, <2>3, EmptySeq
  <2>5. IsFile(f)
    BY <1>3, TornIsFile
  <2>6. k \in 0..Len(f) /\ k < Len(f)
    BY <1>1, <2>3
  <2>7. SubSeq(f, 1, k) = Prefix(k)
    BY <2>5, <2>6, CutFile
  <2> QED
    BY <1>1, <2>3, <2>4, <2>7
<1> QED
  BY <1>2, <1>3

\* No more than the last chunk of a file is not whole.
LEMMA WholeIsClose ==
    ASSUME Inv
    PROVE  /\ WholeChunks \in 0..TotalChunks /\ Len(disk) \in Nat /\ Len(disk) <= WholeChunks + 1
           /\ SubSeq(disk, 1, WholeChunks) = Prefix(WholeChunks) /\ TotalChunks \in Nat
<1>1. Len(disk) \in Nat /\ TotalChunks \in Nat
  BY FileShape, SizesAssumption DEF Inv, FileIsPrefix
<1> QED
  BY <1>1, WholeChunksOfFile DEF Inv, WholeChunks

\* While a chunk is written, the file is the chunks before it.
LEMMA WritingPos ==
    ASSUME Inv, writer = "writing"
    PROVE  /\ next_id \in 1..TotalChunks /\ next_id \in Nat
           /\ next_id - 1 \in 0..TotalChunks /\ next_id - 1 < TotalChunks
           /\ disk = Prefix(next_id - 1) /\ WholeChunks = next_id - 1
           /\ Append(disk, next_id) = Prefix(next_id)
<1>1. next_id \in 1..TotalChunks /\ disk = Prefix(next_id - 1) /\ TotalChunks \in Nat
  BY SizesAssumption DEF Inv, WriterHolds, FilePos, Chunk
<1>2. /\ next_id - 1 \in 0..TotalChunks /\ next_id - 1 < TotalChunks /\ next_id - 1 + 1 = next_id
      /\ next_id \in Nat
  BY <1>1
<1>3. WholeChunks = next_id - 1
  BY <1>1, <1>2, WholeOfPrefix DEF WholeChunks
<1>4. Append(disk, next_id) = Prefix(next_id)
  BY <1>1, <1>2, GrowPrefix
<1> QED
  BY <1>1, <1>2, <1>3, <1>4

\* A step leaves k whole chunks, and perhaps part of another.
LeavesWhole(k) == disk' = Prefix(k) \/ (k < TotalChunks /\ disk' = Append(Prefix(k), Torn))

LEMMA CrashLeaves ==
    ASSUME Inv, Crash
    PROVE  \/ disk' = disk
           \/ \E k \in 0..TotalChunks : LeavesWhole(k) /\ k <= WholeChunks + 1 /\ k >= resumed
<1> DEFINE written == IF writer = "writing" THEN Append(disk, next_id) ELSE disk
<1>1. /\ IsFile(written) /\ Len(written) \in Nat /\ Len(written) <= WholeChunks + 1
      /\ written = disk \/ (written = Prefix(WholeChunks + 1) /\ WholeChunks + 1 \in 0..TotalChunks)
  <2>1. CASE writer = "writing"
    <3>1. written = Prefix(next_id) /\ next_id = WholeChunks + 1 /\ next_id \in 0..TotalChunks
      BY <2>1, WritingPos
    <3>2. Len(Prefix(next_id)) = next_id /\ IsFile(Prefix(next_id))
      BY <3>1, PrefixIsSeq DEF IsFile
    <3>3. next_id \in Nat /\ Len(written) = next_id /\ IsFile(written)
      BY <2>1, <3>1, <3>2, WritingPos
    <3> HIDE DEF written
    <3> QED
      BY <3>1, <3>3
  <2>2. CASE writer # "writing"
    BY <2>2, WholeIsClose DEF Inv, FileIsPrefix
  <2> QED
    BY <2>1, <2>2
<1>2. \E k \in resumed..Len(written) :
         \/ disk' = SubSeq(written, 1, k)
         \/ k < Len(written) /\ disk' = Append(SubSeq(written, 1, k), Torn)
  BY DEF Crash
<1>3. resumed \in Nat /\ WholeChunks \in Nat
  BY WholeIsClose, Numbers
<1> HIDE DEF written
<1>4. PICK k \in 0..Len(written) :
         /\ k >= resumed
         /\ \/ disk' = SubSeq(written, 1, k)
            \/ k < Len(written) /\ disk' = Append(SubSeq(written, 1, k), Torn)
  BY <1>1, <1>2, <1>3
<1>5. CASE k < Len(written)
  <2>1. k \in 0..TotalChunks /\ SubSeq(written, 1, k) = Prefix(k)
    BY <1>1, <1>4, <1>5, CutFile
  <2>2. Len(written) \in 0..TotalChunks /\ TotalChunks \in Nat
    BY <1>1, FileShape, SizesAssumption
  <2>3. k < TotalChunks /\ k <= WholeChunks + 1
    BY <1>1, <1>3, <1>5, <2>1, <2>2
  <2>4. LeavesWhole(k)
    BY <1>4, <2>1, <2>3 DEF LeavesWhole
  <2> QED
    BY <1>4, <2>1, <2>3, <2>4
<1>6. CASE k = Len(written)
  <2>1. disk' = written
    BY <1>1, <1>4, <1>6, FileShape, SubSeqFull
  <2>2. CASE written = Prefix(WholeChunks + 1) /\ WholeChunks + 1 \in 0..TotalChunks
    <3>1. LeavesWhole(WholeChunks + 1)
      BY <2>1, <2>2 DEF LeavesWhole
    <3>2. WholeChunks + 1 >= resumed
      BY <1>1, <1>3, <1>4, <1>6
    <3> QED
      BY <1>3, <2>2, <3>1, <3>2
  <2> QED
    BY <1>1, <2>1, <2>2
<1> QED
  BY <1>1, <1>4, <1>5, <1>6

LEMMA FileStep ==
    ASSUME Inv, [Next]_vars
    PROVE  \/ disk' = disk
           \/ \E k \in 0..TotalChunks :
                /\ LeavesWhole(k) /\ k <= WholeChunks + 1
                /\ k >= WholeChunks \/ (Crash /\ k >= resumed)
<1>0. WholeChunks \in 0..TotalChunks /\ WholeChunks \in Nat
  BY WholeIsClose
<1>1. CASE Begin
  <2>1. LeavesWhole(WholeChunks)
    BY <1>1, WholeIsClose DEF Begin, Kept, LeavesWhole
  <2> QED
    BY <1>0, <2>1
<1>2. CASE Crash
  BY <1>2, CrashLeaves
<1>3. CASE writer = "writing" /\ disk' = Append(disk, next_id)
  <2>1. LeavesWhole(next_id) /\ next_id = WholeChunks + 1 /\ next_id \in 0..TotalChunks
    BY <1>3, WritingPos DEF LeavesWhole
  <2> QED
    BY <1>0, <2>1
<1>4. CASE writer = "writing" /\ disk' = Append(disk, Torn)
  <2>1. LeavesWhole(next_id - 1) /\ next_id - 1 = WholeChunks
    BY <1>4, WritingPos DEF LeavesWhole
  <2> QED
    BY <1>0, <2>1
<1>5. ASSUME ~Begin, ~Crash, disk' # disk
      PROVE  writer = "writing" /\ disk' \in {Append(disk, next_id), Append(disk, Torn)}
  BY <1>5 DEF Next, OpenFails, StartTasks, FetchStep, RunGranted, RunWoken, Deposit, AttemptFails, Reroute,
              Rerouted, NoProxyLeft, FetchFails, WriterStep, WriterCheck, ReadStaged, WriteDone, WriterFails,
              Cancel, Finish, CancelAgain, CloseFile, Pause, Resume, vars, fileVars
<1> QED
  BY <1>1, <1>2, <1>3, <1>4, <1>5

\* What a run has resumed it still has while it goes on.
ResumedKept == phase \in {"transfer", "unwinding"} => resumed <= WholeChunks

LEMMA WholeStep ==
    ASSUME Inv, ResumedKept, [Next]_vars
    PROVE  /\ WholeChunks' \in Nat
           /\ WholeChunks' >= WholeChunks \/ (Crash /\ WholeChunks' >= resumed)
<1>0. WholeChunks \in Nat /\ resumed \in Nat
  BY WholeIsClose, Numbers
<1>1. CASE disk' = disk
  <2>1. WholeChunks' = WholeChunks
    BY <1>1 DEF WholeChunks
  <2> QED
    BY <1>0, <2>1
<1>2. ASSUME NEW k \in 0..TotalChunks, LeavesWhole(k), k >= WholeChunks \/ (Crash /\ k >= resumed)
      PROVE  /\ WholeChunks' \in Nat
             /\ WholeChunks' >= WholeChunks \/ (Crash /\ WholeChunks' >= resumed)
  <2>1. WholeChunks' = k
    BY <1>2, WholeOfPrefix DEF WholeChunks, LeavesWhole
  <2> QED
    BY <1>0, <1>2, <2>1, SizesAssumption
<1> QED
  BY <1>1, <1>2, FileStep

LEMMA NextResumedKept ==
    ASSUME Inv, ResumedKept, [Next]_vars
    PROVE  ResumedKept'
<1> SUFFICES ASSUME phase' \in {"transfer", "unwinding"}
             PROVE  resumed' <= WholeChunks'
  BY DEF ResumedKept
<1>0. WholeChunks \in Nat /\ resumed \in Nat
  BY WholeIsClose, Numbers
<1>1. CASE Begin
  <2>1. resumed' = WholeChunks /\ LeavesWhole(WholeChunks)
    BY <1>1, WholeIsClose DEF Begin, StartRun, Kept, LeavesWhole
  <2>2. WholeChunks' = WholeChunks
    <3> DEFINE k == WholeChunks
    <3>1. k \in 0..TotalChunks /\ (disk' = Prefix(k) \/ (k < TotalChunks /\ disk' = Append(Prefix(k), Torn)))
      BY <2>1, WholeIsClose DEF LeavesWhole
    <3> HIDE DEF k
    <3>2. WholeChunks' = k
      BY <3>1, WholeOfPrefix DEF WholeChunks
    <3> QED
      BY <3>2 DEF k
  <2> QED
    BY <1>0, <2>1, <2>2
<1>2. CASE ~Begin
  <2>1. ~Crash /\ phase \in {"transfer", "unwinding"} /\ resumed' = resumed
    BY <1>2 DEF Next, OpenFails, StartTasks, FetchStep, RunGranted, RunWoken, Deposit, AttemptFails, Reroute,
                Rerouted, NoProxyLeft, FetchFails, WriterStep, WriterCheck, ReadStaged, WriteDone, WriterFails,
                Cancel, Finish, CancelAgain, Crash, Pause, Resume, vars, fileVars, runVars
  <2>2. WholeChunks' \in Nat /\ WholeChunks' >= WholeChunks /\ resumed <= WholeChunks
    BY <2>1, WholeStep DEF ResumedKept
  <2> QED
    BY <1>0, <2>1, <2>2
<1> QED
  BY <1>1, <1>2

LEMMA ResumedAlwaysKept == Spec => []ResumedKept
<1>1. Init => ResumedKept
  BY DEF Init, ResumedKept
<1>2. Inv /\ ResumedKept /\ [Next]_vars => ResumedKept'
  BY NextResumedKept
<1> QED
  BY <1>1, <1>2, Invariance, PTL DEF Spec

\* No step gives up a whole chunk, but a crash those its run had written.
THEOREM WholeChunksAlwaysKept == Spec => WholeChunksKept
<1>1. Inv /\ ResumedKept /\ [Next]_vars
        => [WholeChunks' >= IF phase # "ended" /\ phase' = "ended" /\ result' = "crashed"
                            THEN resumed ELSE WholeChunks]_vars
  <2> SUFFICES ASSUME Inv, ResumedKept, [Next]_vars
               PROVE  WholeChunks' >= IF phase # "ended" /\ phase' = "ended" /\ result' = "crashed"
                                      THEN resumed ELSE WholeChunks
    OBVIOUS
  <2>0. WholeChunks \in Nat /\ resumed \in Nat /\ WholeChunks' \in Nat
    BY WholeIsClose, Numbers, WholeStep
  <2>1. CASE Crash
    <3>1. phase # "ended" /\ phase' = "ended" /\ result' = "crashed" /\ phase \in {"transfer", "unwinding"}
      BY <2>1 DEF Crash
    <3>2. resumed <= WholeChunks
      BY <3>1 DEF ResumedKept
    <3> QED
      BY <2>0, <3>1, <3>2, WholeStep
  <2>2. CASE ~Crash
    <3>1. WholeChunks' >= WholeChunks
      BY <2>2, WholeStep
    <3>2. CASE phase \in {"transfer", "unwinding"}
      BY <2>0, <3>1, <3>2 DEF ResumedKept
    <3>3. CASE phase \notin {"transfer", "unwinding"}
      <4>1. ~(phase # "ended" /\ phase' = "ended" /\ result' = "crashed")
        BY <2>2, <3>3
           DEF Next, Begin, OpenFails, StartTasks, FetchStep, RunGranted, RunWoken, Deposit, AttemptFails,
               Reroute, Rerouted, NoProxyLeft, FetchFails, WriterStep, WriterCheck, ReadStaged, WriteDone,
               WriterFails, Cancel, Finish, CancelAgain, Pause, Resume, vars, runVars
      <4> QED
        BY <3>1, <4>1
    <3> QED
      BY <3>2, <3>3
  <2> QED
    BY <2>1, <2>2
<1> QED
  BY <1>1, Invariance, ResumedAlwaysKept, PTL DEF Spec, WholeChunksKept

-----------------------------------------------------------------------------
(* The refinement.                                                          *)

content == SubSeq(disk, 1, WholeChunks)
sealed == phase = "ended" /\ result = "complete"

\* A run seals the file by ending complete, and nothing follows it.
LEMMA SealStep ==
    ASSUME Inv, [Next]_vars
    PROVE  /\ sealed => sealed' /\ disk' = disk
           /\ sealed' /\ ~sealed => disk' = disk /\ disk = Prefix(TotalChunks)
<1>1. CASE Finish
  <2>1. phase = "unwinding" /\ result' = result
        /\ disk' \in IF writer = "writing" THEN {disk, Append(disk, next_id)} ELSE {disk}
    BY <1>1 DEF Finish, CloseFile
  <2>2. result = "complete" => writer = "off" /\ disk = Prefix(TotalChunks)
    BY DEF Inv, CompletePending
  <2> QED
    BY <2>1, <2>2 DEF sealed
<1>2. CASE ~Finish
  <2>1. sealed' => sealed
    BY <1>2 DEF sealed, Next, Begin, OpenFails, StartTasks, FetchStep, RunGranted, RunWoken, Deposit,
         AttemptFails, Reroute, Rerouted, NoProxyLeft, FetchFails, WriterStep, WriterCheck, Unwind,
         ReadStaged, WriteDone, WriterFails, Cancel, CancelAgain, Crash, Pause, Resume, vars, runVars
  <2>2. sealed => sealed' /\ disk' = disk
    BY <1>2 DEF sealed, Next, Begin, OpenFails, StartRun, StartTasks, FetchStep, RunGranted, RunWoken, Deposit,
         AttemptFails, Reroute, Rerouted, NoProxyLeft, FetchFails, WriterStep, WriterCheck,
         ReadStaged, WriteDone, WriterFails, Cancel, CancelAgain, Crash, Pause, Resume, vars, runVars, fileVars
  <2> QED
    BY <2>1, <2>2
<1> QED
  BY <1>1, <1>2

\* Where the content changes, it grows by the next chunk or loses a tail.
LEMMA ContentStep ==
    ASSUME Inv, [Next]_vars
    PROVE  \/ content' = content
           \/ Len(content) < TotalChunks /\ content' = Append(content, Len(content) + 1)
           \/ \E k \in 0..Len(content) : content' = SubSeq(content, 1, k)
<1> DEFINE n == WholeChunks
<1>1. n \in 0..TotalChunks /\ TotalChunks \in Nat /\ content = Prefix(n)
  BY WholeIsClose DEF content
<1>2. CASE disk' = disk
  BY <1>2 DEF content, WholeChunks
<1>3. ASSUME NEW k \in 0..TotalChunks, LeavesWhole(k), k <= n + 1
      PROVE  \/ content' = content
             \/ Len(content) < TotalChunks /\ content' = Append(content, Len(content) + 1)
             \/ \E j \in 0..Len(content) : content' = SubSeq(content, 1, j)
  <2>1. content' = Prefix(k)
    BY <1>3, WholeOfPrefix DEF content, WholeChunks, LeavesWhole
  <2> HIDE DEF n
  <2>2. Len(Prefix(n)) = n /\ IsFile(Prefix(n)) /\ n \in Nat /\ \A i \in 1..n : Prefix(n)[i] = i
    BY <1>1, PrefixIsSeq DEF IsFile
  <2>3. CASE k = n + 1
    <3>1. n < TotalChunks /\ Append(Prefix(n), n + 1) = Prefix(n + 1)
      BY <1>1, <1>3, <2>2, <2>3, GrowPrefix
    <3> QED
      BY <1>1, <2>1, <2>2, <2>3, <3>1
  <2>4. CASE k <= n
    <3>1. k = n => content' = content
      BY <1>1, <2>1
    <3>2. k < n => SubSeq(Prefix(n), 1, k) = Prefix(k) /\ k \in 0..n
      BY <2>2, <2>4, CutFile
    <3> QED
      BY <1>1, <1>3, <2>1, <2>2, <2>4, <3>1, <3>2
  <2> QED
    BY <1>3, <2>2, <2>3, <2>4
<1> QED
  BY <1>2, <1>3, FileStep

\* The pipeline implements the file that grows in order and is sealed whole.
THEOREM PipelineImplements == Spec => ImplementsOrderedFile
<1>1. Init => Ordered!Init
  <2> SUFFICES ASSUME Init
               PROVE  SubSeq(disk, 1, WholeChunks) = <<>> /\ ~(phase = "ended" /\ result = "complete")
    BY DEF Ordered!Init
  <2>1. disk = <<>> /\ phase = "idle"
    BY DEF Init
  <2>2. WholeChunks = 0
    BY <2>1 DEF WholeChunks
  <2> QED
    BY <2>1, <2>2, SubSeqEmpty
<1>2. Inv /\ [Next]_vars => [Ordered!Next]_<<content, sealed>>
  <2> SUFFICES ASSUME Inv, [Next]_vars
               PROVE  Ordered!Next \/ UNCHANGED <<content, sealed>>
    OBVIOUS
  <2>1. CASE sealed
    <3>1. sealed' /\ disk' = disk
      BY <2>1, SealStep
    <3>2. content' = content
      BY <3>1 DEF content, WholeChunks
    <3>3. sealed' = sealed
      BY <2>1, <3>1 DEF sealed
    <3> QED
      BY <3>2, <3>3
  <2>2. CASE ~sealed /\ sealed'
    <3>1. disk' = disk /\ disk = Prefix(TotalChunks)
      BY <2>2, SealStep
    <3>2. TotalChunks \in 0..TotalChunks
      BY SizesAssumption
    <3>3. content' = content /\ content = Prefix(TotalChunks)
      BY <3>1, <3>2, WholeOfPrefix DEF content, WholeChunks
    <3> QED
      BY <2>2, <3>3 DEF Ordered!Next, Ordered!Seal, content, sealed, Prefix
  <2>3. CASE ~sealed /\ ~sealed'
    <3>1. CASE content' = content
      <4>1. sealed' = sealed
        BY <2>3 DEF sealed
      <4> QED
        BY <3>1, <4>1
    <3>2. CASE Len(content) < TotalChunks /\ content' = Append(content, Len(content) + 1)
      BY <2>3, <3>2 DEF Ordered!Next, Ordered!Grow, content, sealed
    <3>3. CASE \E k \in 0..Len(content) : content' = SubSeq(content, 1, k)
      BY <2>3, <3>3 DEF Ordered!Next, Ordered!LoseTail, content, sealed
    <3> QED
      BY <3>1, <3>2, <3>3, ContentStep
  <2> QED
    BY <2>1, <2>2, <2>3
<1>3. [Ordered!Next]_<<content, sealed>>
        <=> [Ordered!Next]_<<SubSeq(disk, 1, WholeChunks), phase = "ended" /\ result = "complete">>
  BY DEF content, sealed
<1> QED
  BY <1>1, <1>2, <1>3, Invariance, PTL DEF Spec, ImplementsOrderedFile, Ordered!Spec
=============================================================================
