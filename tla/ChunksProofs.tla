---------------------------- MODULE ChunksProofs ----------------------------
(***************************************************************************)
(* Theorems about the two modules of pure functions: Chunks, for files of  *)
(* any size, any multipliers, any partial download, and any number of bytes*)
(* in a kilobyte; PublicLinks, for files and ranges of any size and folders*)
(* of any finite set of nodes.                                             *)
(***************************************************************************)
EXTENDS Chunks, PublicLinks, FiniteSetTheorems, SequenceTheorems,
        WellFoundedInduction, TLAPS

Positive == Nat \ {0}

\* The chunk an iter_chunks yields as its i-th.
ChunkAt(i, multi, size) ==
    LET offset == calculate_chunk_offset(i, multi) IN
    [offset |-> offset, size |-> calculate_chunk_size(i, size, offset, multi)]

Typed ==
    /\ file_size \in Nat /\ existing \in Nat
    /\ size_multi \in [Side -> Positive]
    /\ chunks \in [Side -> Seq([offset : Nat, size : Nat])]
    /\ exhausted \in [Side -> BOOLEAN]
    /\ resume_chunks \in Nat /\ resume_chunks <= Len(chunks["download"])

\* A generator yields what starts inside the file, and returns at its end.
Yielded(s) ==
    /\ \A i \in 1..Len(chunks[s]) :
         /\ chunks[s][i] = ChunkAt(i, size_multi[s], file_size)
         /\ calculate_chunk_offset(i, size_multi[s]) < file_size
    /\ exhausted[s] => calculate_chunk_offset(Len(chunks[s]) + 1, size_multi[s]) >= file_size

\* The resume loop has counted whole chunks, up to the end of the last one.
Counted ==
    /\ resume_bytes = IF resume_chunks = 0 THEN 0 ELSE End(chunks["download"][resume_chunks])
    /\ resume_bytes <= existing

Inv == Typed /\ (\A s \in Side : Yielded(s)) /\ Counted

-----------------------------------------------------------------------------
(* The arithmetic.                                                          *)

\* A chunk ends where the next one starts, and starts on a cipher block.
LEMMA OffsetsAddUp ==
    ASSUME NEW i \in Positive, NEW multi \in Positive
    PROVE  /\ calculate_chunk_offset(i, multi) \in Nat
           /\ FullSize(i, multi) \in Positive
           /\ calculate_chunk_offset(i + 1, multi) = calculate_chunk_offset(i, multi) + FullSize(i, multi)
<1>0. KB \in Positive
  BY ChunksAssumption DEF Positive
<1>1. CASE i \in 1..6
  <2>1. CASE i = 1
    BY <1>0, <2>1 DEF calculate_chunk_offset, FullSize, _GEOMETRIC_OFFSETS_KB, Positive
  <2>2. CASE i = 2
    BY <1>0, <2>2 DEF calculate_chunk_offset, FullSize, _GEOMETRIC_OFFSETS_KB, Positive
  <2>3. CASE i = 3
    BY <1>0, <2>3 DEF calculate_chunk_offset, FullSize, _GEOMETRIC_OFFSETS_KB, Positive
  <2>4. CASE i = 4
    BY <1>0, <2>4 DEF calculate_chunk_offset, FullSize, _GEOMETRIC_OFFSETS_KB, Positive
  <2>5. CASE i = 5
    BY <1>0, <2>5 DEF calculate_chunk_offset, FullSize, _GEOMETRIC_OFFSETS_KB, Positive
  <2>6. CASE i = 6
    BY <1>0, <2>6 DEF calculate_chunk_offset, FullSize, _GEOMETRIC_OFFSETS_KB, Positive
  <2> QED
    BY <1>1, <2>1, <2>2, <2>3, <2>4, <2>5, <2>6
<1>2. CASE i = 7
  BY <1>0, <1>2 DEF calculate_chunk_offset, FullSize, _GEOMETRIC_OFFSETS_KB, Positive
<1>3. CASE i \notin 1..7
  <2>1. PICK k \in Nat : i = k + 8
    <3>1. i - 8 \in Nat /\ i = (i - 8) + 8
      BY <1>3 DEF Positive
    <3> QED
      BY <3>1
  <2>2. PICK u \in Positive : u = 1024 * multi
    BY DEF Positive
  <2>3. /\ calculate_chunk_offset(i, multi) = (3584 + k * u) * KB
        /\ calculate_chunk_offset(i + 1, multi) = (3584 + (k + 1) * u) * KB
        /\ FullSize(i, multi) = u * KB
    <3>1. i - 8 = k /\ (i + 1) - 8 = k + 1 /\ i + 1 \notin 1..7
      BY <1>3, <2>1 DEF Positive
    <3>2. k * 1024 * multi = k * u /\ (k + 1) * 1024 * multi = (k + 1) * u
      BY <2>2 DEF Positive
    <3>3. 1024 * KB * multi = u * KB
      BY <1>0, <2>2 DEF Positive
    <3> QED
      BY <1>3, <3>1, <3>2, <3>3 DEF calculate_chunk_offset, FullSize
  <2>4. (3584 + (k + 1) * u) * KB = (3584 + k * u) * KB + u * KB
    BY <1>0, <2>2 DEF Positive
  <2>5. (3584 + k * u) * KB \in Nat /\ u * KB \in Positive
    BY <1>0, <2>2 DEF Positive
  <2> QED
    BY <2>3, <2>4, <2>5
<1> QED
  BY <1>1, <1>2, <1>3 DEF Positive

LEMMA OnBlock ==
    ASSUME NEW i \in Positive, NEW multi \in Positive
    PROVE  (calculate_chunk_offset(i, multi) \div Block) * Block = calculate_chunk_offset(i, multi)
<1>0. KB \in Positive
  BY ChunksAssumption DEF Positive
<1>1. \E n \in Nat : calculate_chunk_offset(i, multi) = 16 * n
  <2>1. CASE i \in 1..7
    <3>1. PICK g \in Nat : _GEOMETRIC_OFFSETS_KB[i] = 16 * g
      <4>1. _GEOMETRIC_OFFSETS_KB[i] \in {16 * 0, 16 * 8, 16 * 24, 16 * 48, 16 * 80, 16 * 120, 16 * 168}
        BY <2>1 DEF _GEOMETRIC_OFFSETS_KB
      <4> QED
        BY <4>1
    <3>2. calculate_chunk_offset(i, multi) = 16 * (g * KB) /\ g * KB \in Nat
      BY <1>0, <2>1, <3>1 DEF calculate_chunk_offset, Positive
    <3> QED
      BY <3>2
  <2>2. CASE i \notin 1..7
    <3>1. PICK k \in Nat : k = (i - 8) * multi
      BY <2>2 DEF Positive
    <3>2. (i - 8) * 1024 * multi = 1024 * k
      BY <3>1 DEF Positive
    <3>3. (3584 + 1024 * k) * KB = 16 * ((224 + 64 * k) * KB) /\ (224 + 64 * k) * KB \in Nat
      BY <1>0 DEF Positive
    <3> QED
      BY <2>2, <3>2, <3>3 DEF calculate_chunk_offset
  <2> QED
    BY <2>1, <2>2
<1>2. PICK n \in Nat : calculate_chunk_offset(i, multi) = 16 * n
  BY <1>1
<1>3. (16 * n) \div 16 = n
  OBVIOUS
<1> QED
  BY <1>2, <1>3 DEF Block

LEMMA FirstAtZero ==
    ASSUME NEW multi \in Positive
    PROVE  calculate_chunk_offset(1, multi) = 0
<1>1. KB \in Nat
  BY ChunksAssumption
<1> QED
  BY <1>1 DEF calculate_chunk_offset, _GEOMETRIC_OFFSETS_KB

\* A chunk that starts inside the file has bytes, and ends where the next one
\* starts or, clamped, at the end of the file.
LEMMA ChunkFits ==
    ASSUME NEW i \in Positive, NEW multi \in Positive, NEW size \in Nat,
           calculate_chunk_offset(i, multi) < size
    PROVE  LET c == ChunkAt(i, multi, size)
               next == calculate_chunk_offset(i + 1, multi) IN
           /\ c \in [offset : Nat, size : Positive]
           /\ End(c) = IF next > size THEN size ELSE next
<1> DEFINE offset == calculate_chunk_offset(i, multi)
           next == calculate_chunk_offset(i + 1, multi)
<1>1. /\ offset \in Nat /\ FullSize(i, multi) \in Positive
      /\ next = offset + FullSize(i, multi)
  BY OffsetsAddUp
<1>2. calculate_chunk_size(i, size, offset, multi) = IF next > size THEN size - offset ELSE FullSize(i, multi)
  BY <1>1 DEF calculate_chunk_size
<1>3. /\ calculate_chunk_size(i, size, offset, multi) \in Positive
      /\ offset + calculate_chunk_size(i, size, offset, multi) = IF next > size THEN size ELSE next
  <2> HIDE DEF offset, next
  <2> QED
    BY <1>1, <1>2 DEF Positive, offset
<1> QED
  BY <1>1, <1>3 DEF ChunkAt, End

-----------------------------------------------------------------------------
(* The steps.                                                               *)

LEMMA InitInv == Init => Inv
<1> SUFFICES ASSUME Init PROVE Inv
  OBVIOUS
<1>1. Typed
  <2>1. file_size \in Nat /\ existing \in Nat /\ Multis \subseteq Positive
    BY ChunksAssumption DEF Init, Positive
  <2>2. size_multi \in [Side -> Positive]
    BY <2>1 DEF Init, Side, Positive
  <2>3. /\ chunks \in [Side -> Seq([offset : Nat, size : Nat])]
        /\ exhausted \in [Side -> BOOLEAN] /\ chunks["download"] = << >> /\ Len(<< >>) = 0
    BY DEF Init, Side
  <2> QED
    BY <2>1, <2>2, <2>3 DEF Init, Typed
<1>2. \A s \in Side : Yielded(s)
  BY DEF Init, Yielded
<1>3. Counted
  BY <1>1 DEF Init, Counted, Typed
<1> QED
  BY <1>1, <1>2, <1>3 DEF Inv

\* A turn of one generator leaves the other's chunks and its own earlier ones.
LEMMA YieldInv == ASSUME Inv, NEW s \in Side, Yield(s) PROVE Inv'
<1> DEFINE n == Len(chunks[s])
           m == size_multi[s]
           offset == calculate_chunk_offset(n + 1, m)
           new == [offset |-> offset, size |-> calculate_chunk_size(n + 1, file_size, offset, m)]
           more == offset < file_size /\ new.size > 0
<1>1. /\ file_size \in Nat /\ m \in Positive /\ n \in Nat /\ n + 1 \in Positive
      /\ chunks[s] \in Seq([offset : Nat, size : Nat])
      /\ resume_chunks \in Nat /\ resume_chunks <= Len(chunks["download"])
  BY DEF Inv, Typed, Positive
<1>2. /\ ~exhausted[s]
      /\ chunks' = IF more THEN [chunks EXCEPT ![s] = Append(chunks[s], new)] ELSE chunks
      /\ exhausted' = [exhausted EXCEPT ![s] = ~more]
      /\ UNCHANGED <<file_size, size_multi, existing, resume_bytes, resume_chunks>>
  BY DEF Yield, resumeVars
<1>3. new = ChunkAt(n + 1, m, file_size) /\ offset \in Nat
  BY <1>1, OffsetsAddUp DEF ChunkAt
<1>4. offset < file_size => new \in [offset : Nat, size : Positive] /\ more
  BY <1>1, <1>3, ChunkFits DEF Positive
<1> HIDE DEF new, offset
<1>5. CASE more
  <2>0. new \in [offset : Nat, size : Nat]
    BY <1>4, <1>5 DEF Positive
  <2>1. /\ chunks'[s] = Append(chunks[s], new) /\ chunks'[s] \in Seq([offset : Nat, size : Nat])
        /\ Len(chunks'[s]) = n + 1 /\ chunks'[s][n + 1] = new
        /\ \A i \in 1..n : chunks'[s][i] = chunks[s][i]
        /\ \A t \in Side \ {s} : chunks'[t] = chunks[t]
    BY <2>0, <1>1, <1>2, <1>5 DEF Inv, Typed
  <2>2. \A t \in Side : Len(chunks'[t]) >= Len(chunks[t])
                         /\ \A i \in 1..Len(chunks[t]) : chunks'[t][i] = chunks[t][i]
    <3> TAKE t \in Side
    <3>1. Len(chunks[t]) \in Nat
      BY DEF Inv, Typed
    <3>2. CASE t = s
      BY <1>1, <2>1, <3>2
    <3>3. CASE t # s
      BY <2>1, <3>1, <3>3
    <3> QED
      BY <3>2, <3>3
  <2>3. Typed'
    <3>1. chunks' \in [Side -> Seq([offset : Nat, size : Nat])]
      BY <1>2, <1>5, <2>0, <2>1 DEF Inv, Typed
    <3>2. exhausted' \in [Side -> BOOLEAN]
      BY <1>2, <1>5 DEF Inv, Typed
    <3>3. resume_chunks <= Len(chunks'["download"])
      BY <1>1, <2>2, <3>1 DEF Side, Inv, Typed
    <3> QED
      BY <1>1, <1>2, <3>1, <3>2, <3>3 DEF Inv, Typed
  <2>4. ASSUME NEW t \in Side PROVE Yielded(t)'
    <3>1. CASE t = s
      <4>1. ~exhausted'[s]
        BY <1>2, <1>5 DEF Inv, Typed
      <4>2. ASSUME NEW i \in 1..(n + 1)
            PROVE  /\ chunks'[s][i] = ChunkAt(i, m, file_size)
                   /\ calculate_chunk_offset(i, m) < file_size
        <5>1. CASE i = n + 1
          BY <1>3, <1>5, <2>1, <5>1 DEF offset
        <5>2. CASE i \in 1..n
          BY <2>1, <5>2 DEF Inv, Yielded
        <5> QED
          BY <1>1, <5>1, <5>2
      <4> QED
        BY <1>2, <2>1, <3>1, <4>1, <4>2 DEF Yielded
    <3>2. CASE t # s
      <4>1. exhausted'[t] = exhausted[t]
        BY <1>2, <3>2 DEF Inv, Typed
      <4> QED
        BY <1>2, <2>1, <3>2, <4>1 DEF Inv, Yielded
    <3> QED
      BY <3>1, <3>2
  <2>5. Counted'
    BY <1>1, <1>2, <2>2 DEF Inv, Counted, Side, End
  <2> QED
    BY <2>3, <2>4, <2>5 DEF Inv
<1>6. CASE ~more
  <2>1. chunks' = chunks
    BY <1>2, <1>6
  <2>2. exhausted' \in [Side -> BOOLEAN] /\ \A t \in Side \ {s} : exhausted'[t] = exhausted[t]
    BY <1>2, <1>6 DEF Inv, Typed
  <2>3. offset >= file_size
    BY <1>1, <1>3, <1>4, <1>6
  <2>4. ASSUME NEW t \in Side PROVE Yielded(t)'
    BY <1>2, <2>1, <2>2, <2>3 DEF Inv, Yielded, offset
  <2>5. Typed' /\ Counted'
    BY <1>2, <2>1, <2>2 DEF Inv, Typed, Counted, End
  <2> QED
    BY <2>4, <2>5 DEF Inv
<1> QED
  BY <1>5, <1>6

\* Every chunk ends where the next one starts.
LEMMA Adjacent ==
    ASSUME Inv, NEW s \in Side, NEW i \in 1..Len(chunks[s])
    PROVE  LET c == chunks[s][i] IN
           /\ c \in [offset : Nat, size : Positive]
           /\ c.offset = IF i = 1 THEN 0 ELSE End(chunks[s][i - 1])
           /\ End(c) \in Nat /\ End(c) <= file_size
           /\ End(c) = file_size \/ End(c) = calculate_chunk_offset(i + 1, size_multi[s])
<1> DEFINE m == size_multi[s]
<1>1. /\ file_size \in Nat /\ m \in Positive /\ Len(chunks[s]) \in Nat
      /\ \A j \in 1..Len(chunks[s]) : /\ chunks[s][j] = ChunkAt(j, m, file_size)
                                      /\ calculate_chunk_offset(j, m) < file_size
  BY DEF Inv, Typed, Yielded
<1>2. ASSUME NEW j \in 1..Len(chunks[s])
      PROVE  /\ chunks[s][j] \in [offset : Nat, size : Positive]
             /\ j \in Positive /\ calculate_chunk_offset(j + 1, m) \in Nat
             /\ chunks[s][j].offset = calculate_chunk_offset(j, m)
             /\ End(chunks[s][j]) = IF calculate_chunk_offset(j + 1, m) > file_size
                                    THEN file_size ELSE calculate_chunk_offset(j + 1, m)
  <2>1. j \in Positive /\ j + 1 \in Positive
    BY <1>1 DEF Positive
  <2>2. chunks[s][j].offset = calculate_chunk_offset(j, m)
    <3>1. ChunkAt(j, m, file_size).offset = calculate_chunk_offset(j, m)
      BY DEF ChunkAt
    <3> HIDE DEF m
    <3> QED
      BY <1>1, <3>1
  <2>3. calculate_chunk_offset(j + 1, m) \in Nat
    BY <1>1, <2>1, OffsetsAddUp
  <2> HIDE DEF m
  <2> QED
    BY <1>1, <2>1, <2>2, <2>3, ChunkFits
<1>3. chunks[s][i].offset = IF i = 1 THEN 0 ELSE End(chunks[s][i - 1])
  <2>1. CASE i = 1
    BY <1>1, <1>2, <2>1, FirstAtZero
  <2>2. CASE i # 1
    <3>1. i - 1 \in 1..Len(chunks[s]) /\ (i - 1) + 1 = i
      BY <1>1, <2>2
    <3>2. calculate_chunk_offset(i, m) < file_size /\ calculate_chunk_offset(i, m) \in Nat
      BY <1>1, <1>2, <3>1
    <3>3. End(chunks[s][i - 1]) = calculate_chunk_offset(i, m)
      <4>1. End(chunks[s][i - 1]) = IF calculate_chunk_offset((i - 1) + 1, m) > file_size
                                    THEN file_size ELSE calculate_chunk_offset((i - 1) + 1, m)
        BY <1>2, <3>1
      <4> HIDE DEF m
      <4>2. ~(calculate_chunk_offset(i, m) > file_size)
        BY <1>1, <3>2
      <4> QED
        BY <3>1, <4>1, <4>2
    <3> QED
      BY <1>2, <2>2, <3>3
  <2> QED
    BY <2>1, <2>2
<1> QED
  BY <1>1, <1>2, <1>3

LEMMA CountInv == Inv /\ CountWhole => Inv'
<1> SUFFICES ASSUME Inv, CountWhole PROVE Inv'
  OBVIOUS
<1> DEFINE fetched == chunks["download"]
           k == resume_chunks + 1
<1>1. /\ resume_chunks < Len(fetched) /\ NextWhole <= existing
      /\ resume_bytes' = NextWhole /\ resume_chunks' = k
      /\ UNCHANGED <<file_size, size_multi, chunks, exhausted, existing>>
  BY DEF CountWhole, CanCount, OnDisk, genVars
<1>2. k \in 1..Len(fetched) /\ k \in Nat /\ k <= Len(fetched) /\ k # 0 /\ k - 1 = resume_chunks
  BY <1>1 DEF Inv, Typed, Side
<1>3. fetched[k].offset = resume_bytes
  BY <1>2, Adjacent DEF Inv, Counted, Side
<1>4. NextWhole = End(fetched[k])
  BY <1>3 DEF NextWhole, End
<1>5. Counted'
  BY <1>1, <1>2, <1>4 DEF Counted, End
<1>6. Typed' /\ \A s \in Side : Yielded(s)'
  BY <1>1, <1>2 DEF Inv, Typed, Yielded
<1> QED
  BY <1>5, <1>6 DEF Inv

LEMMA NextInv == Inv /\ [Next]_vars => Inv'
<1> SUFFICES ASSUME Inv, [Next]_vars PROVE Inv'
  OBVIOUS
<1>1. CASE Next
  BY <1>1, YieldInv, CountInv DEF Next
<1>2. CASE UNCHANGED vars
  BY <1>2 DEF vars, genVars, resumeVars, Inv, Typed, Yielded, Counted, End
<1> QED
  BY <1>1, <1>2

THEOREM Invariance == Spec => []Inv
BY InitInv, NextInv, PTL DEF Spec

-----------------------------------------------------------------------------
(* Theorems.                                                                *)

\* What the storage node serves for the chunks is the file, byte for byte and
\* aligned to cipher blocks, for any size and multiplier.
THEOREM ChunksAlwaysTile == Spec => []ChunksTile
<1>1. Inv => ChunksTile
  <2> SUFFICES ASSUME Inv, NEW s \in Side
               PROVE  LET n == Len(chunks[s]) IN
                      /\ \A i \in 1..n :
                           LET c == chunks[s][i]
                               start == IF i = 1 THEN 0 ELSE End(chunks[s][i - 1]) IN
                           /\ Served(gen_chunk_url(file_size, c.offset, c.size), file_size) = <<start, End(c)>>
                           /\ CounterStart(c) * Block = start
                      /\ exhausted[s] => file_size = IF n = 0 THEN 0 ELSE End(chunks[s][n])
    BY DEF ChunksTile
  <2> DEFINE n == Len(chunks[s])
             m == size_multi[s]
  <2>0. file_size \in Nat /\ m \in Positive /\ n \in Nat
    BY DEF Inv, Typed
  <2>1. ASSUME NEW i \in 1..n
        PROVE  LET c == chunks[s][i]
                   start == IF i = 1 THEN 0 ELSE End(chunks[s][i - 1]) IN
               /\ Served(gen_chunk_url(file_size, c.offset, c.size), file_size) = <<start, End(c)>>
               /\ CounterStart(c) * Block = start
    <3> DEFINE c == chunks[s][i]
    <3>1. /\ c \in [offset : Nat, size : Positive]
          /\ c.offset = IF i = 1 THEN 0 ELSE End(chunks[s][i - 1])
      BY Adjacent
    <3>2. Served(gen_chunk_url(file_size, c.offset, c.size), file_size) = <<c.offset, End(c)>>
      <4> HIDE DEF c
      <4>1. CASE c.offset + c.size = file_size
        BY <4>1 DEF Served, gen_chunk_url, End
      <4>2. CASE c.offset + c.size # file_size
        <5>1. c.offset \in Nat /\ c.size \in Nat \ {0}
          BY <3>1 DEF Positive
        <5>2. c.offset + c.size - 1 # -1 /\ c.offset + c.size - 1 + 1 = c.offset + c.size
          BY <5>1
        <5> QED
          BY <4>2, <5>2 DEF Served, gen_chunk_url, End
      <4> QED
        BY <4>1, <4>2
    <3>3. CounterStart(c) * Block = c.offset
      <4>1. c.offset = calculate_chunk_offset(i, m)
        <5>1. chunks[s][i] = ChunkAt(i, m, file_size)
          BY DEF Inv, Yielded
        <5>2. ChunkAt(i, m, file_size).offset = calculate_chunk_offset(i, m)
          BY DEF ChunkAt
        <5> HIDE DEF m
        <5> QED
          BY <5>1, <5>2
      <4>2. i \in Positive
        BY <2>0 DEF Positive
      <4> QED
        BY <2>0, <4>1, <4>2, OnBlock DEF CounterStart
    <3> QED
      BY <3>1, <3>2, <3>3
  <2>2. exhausted[s] => file_size = IF n = 0 THEN 0 ELSE End(chunks[s][n])
    <3> SUFFICES ASSUME exhausted[s]
                 PROVE  file_size = IF n = 0 THEN 0 ELSE End(chunks[s][n])
      OBVIOUS
    <3>1. calculate_chunk_offset(n + 1, m) >= file_size
      BY DEF Inv, Yielded
    <3>2. CASE n = 0
      <4>1. calculate_chunk_offset(1, m) = 0
        BY <2>0, FirstAtZero
      <4> QED
        BY <2>0, <3>1, <3>2, <4>1
    <3>3. CASE n # 0
      <4>1. n \in 1..n
        BY <2>0, <3>3
      <4>2. /\ End(chunks[s][n]) \in Nat /\ End(chunks[s][n]) <= file_size
            /\ End(chunks[s][n]) = file_size \/ End(chunks[s][n]) = calculate_chunk_offset(n + 1, m)
        BY <4>1, Adjacent
      <4> QED
        BY <2>0, <3>1, <3>3, <4>2
    <3> QED
      BY <3>2, <3>3
  <2> QED
    BY <2>1, <2>2
<1> QED
  BY <1>1, Invariance, PTL

\* The resume loop stops at the last boundary the file on disk reaches, whatever
\* its size is.
THEOREM ResumesAtBoundary == Spec => []ResumeAtBoundary
<1>1. Inv => ResumeAtBoundary
  <2> SUFFICES ASSUME Inv PROVE ResumeAtBoundary
    OBVIOUS
  <2> DEFINE fetched == chunks["download"]
             k == resume_chunks + 1
  <2>1. ASSUME ~CanCount, resume_chunks < Len(fetched)
        PROVE  existing < End(fetched[k])
    <3>1. k \in 1..Len(fetched) /\ k - 1 = resume_chunks /\ (k = 1 <=> resume_chunks = 0)
      BY <2>1 DEF Inv, Typed, Side
    <3>2. fetched[k].offset = resume_bytes /\ End(fetched[k]) \in Nat
      BY <3>1, Adjacent DEF Inv, Counted, Side
    <3>3. NextWhole = End(fetched[k])
      BY <3>2 DEF NextWhole, End
    <3>4. ~(NextWhole <= existing) /\ existing \in Nat
      BY <2>1 DEF CanCount, OnDisk, Inv, Typed
    <3> QED
      BY <3>2, <3>3, <3>4
  <2> QED
    BY <2>1 DEF Inv, Counted, ResumeAtBoundary
<1> QED
  BY <1>1, Invariance, PTL

\* Where both sides have the same multiplier, or the file ends in the first flat
\* chunk at the latest, they fold the MAC over the same chunks.
Verifiable == size_multi["upload"] = size_multi["download"] \/ file_size <= 4608 * KB

LEMMA SameChunk ==
    ASSUME NEW size \in Nat, size <= 4608 * KB, NEW i \in Positive, NEW m \in Positive, NEW n \in Positive
    PROVE  /\ calculate_chunk_offset(i, m) < size => calculate_chunk_offset(i, n) < size
           /\ calculate_chunk_offset(i, m) < size => ChunkAt(i, m, size) = ChunkAt(i, n, size)
<1>0. KB \in Positive
  BY ChunksAssumption DEF Positive
<1>1. CASE i \in 1..7
  BY <1>1 DEF calculate_chunk_offset, ChunkAt, calculate_chunk_size, FullSize
<1>2. CASE i = 8
  <2>1. (8 - 8) * 1024 * m = 0 /\ (8 - 8) * 1024 * n = 0
    BY DEF Positive
  <2>2. calculate_chunk_offset(8, m) = 3584 * KB /\ calculate_chunk_offset(8, n) = 3584 * KB
    BY <2>1, <1>0 DEF calculate_chunk_offset, Positive
  <2>3. ASSUME NEW multi \in Positive
        PROVE  3584 * KB + FullSize(8, multi) >= size
    <3>1. FullSize(8, multi) = 1024 * KB * multi
      BY DEF FullSize
    <3>2. 1024 * KB * multi >= 1024 * KB
      BY <1>0 DEF Positive
    <3> QED
      BY <1>0, <3>1, <3>2 DEF Positive
  <2>4. FullSize(8, m) \in Nat /\ FullSize(8, n) \in Nat
    BY <1>0 DEF FullSize, Positive
  <2>5. /\ calculate_chunk_size(8, size, 3584 * KB, m) = size - 3584 * KB
        /\ calculate_chunk_size(8, size, 3584 * KB, n) = size - 3584 * KB
    BY <1>0, <2>3, <2>4 DEF calculate_chunk_size, Positive
  <2> QED
    BY <1>2, <2>2, <2>5 DEF ChunkAt
<1>3. CASE i \notin 1..8
  <2>1. i - 8 \in Positive /\ i \notin 1..7
    BY <1>3 DEF Positive
  <2>2. PICK k \in Positive : k = (i - 8) * m
    BY <2>1 DEF Positive
  <2>3. (i - 8) * 1024 * m = 1024 * k
    BY <2>1, <2>2 DEF Positive
  <2>4. calculate_chunk_offset(i, m) = (3584 + 1024 * k) * KB
    BY <2>1, <2>3 DEF calculate_chunk_offset
  <2>5. (3584 + 1024 * k) * KB >= 4608 * KB
    BY <1>0 DEF Positive
  <2> QED
    BY <1>0, <2>4, <2>5 DEF Positive
<1> QED
  BY <1>1, <1>2, <1>3 DEF Positive

\* A download with the uploader's multiplier, or of a file of at most 4608 KB,
\* folds the MAC over the uploader's chunks, whatever its multiplier: what finding
\* 2 of the README leaves of mac.py:8.
THEOREM FoldsAlikeUpTo4608KB == Spec => [](Verifiable => FoldedAlike)
<1>1. ASSUME Inv, Verifiable, exhausted["upload"], exhausted["download"]
      PROVE  chunks["upload"] = chunks["download"]
  <2> DEFINE m == size_multi["upload"]
             n == size_multi["download"]
  <2>1. m \in Positive /\ n \in Positive /\ file_size \in Nat
    BY <1>1 DEF Inv, Typed, Side
  <2>2. /\ chunks["upload"] \in Seq([offset : Nat, size : Nat])
        /\ chunks["download"] \in Seq([offset : Nat, size : Nat])
    BY <1>1 DEF Inv, Typed, Side
  <2>3. Yielded("upload") /\ Yielded("download")
    BY <1>1 DEF Inv, Side
  <2>4. \A i \in Positive :
          /\ calculate_chunk_offset(i, m) < file_size <=> calculate_chunk_offset(i, n) < file_size
          /\ calculate_chunk_offset(i, m) < file_size =>
               ChunkAt(i, m, file_size) = ChunkAt(i, n, file_size)
    BY <1>1, <2>1, SameChunk DEF Verifiable
  <2>5. \A i \in Positive : calculate_chunk_offset(i, m) \in Nat /\ calculate_chunk_offset(i, n) \in Nat
    BY <2>1, OffsetsAddUp
  <2>6. Len(chunks["upload"]) = Len(chunks["download"])
    <3> DEFINE u == Len(chunks["upload"])
               d == Len(chunks["download"])
    <3>1. /\ u \in Nat /\ d \in Nat
          /\ \A i \in 1..u : calculate_chunk_offset(i, m) < file_size
          /\ \A i \in 1..d : calculate_chunk_offset(i, n) < file_size
          /\ calculate_chunk_offset(u + 1, m) >= file_size
          /\ calculate_chunk_offset(d + 1, n) >= file_size
      BY <1>1, <2>2, <2>3 DEF Yielded
    <3> HIDE DEF u, d, m, n
    <3>2. ~(u < d)
      <4> SUFFICES ASSUME u < d PROVE FALSE
        OBVIOUS
      <4>1. u + 1 \in 1..d /\ u + 1 \in Positive
        BY <3>1 DEF Positive
      <4> QED
        BY <2>1, <2>4, <2>5, <3>1, <4>1
    <3>3. ~(d < u)
      <4> SUFFICES ASSUME d < u PROVE FALSE
        OBVIOUS
      <4>1. d + 1 \in 1..u /\ d + 1 \in Positive
        BY <3>1 DEF Positive
      <4> QED
        BY <2>1, <2>4, <2>5, <3>1, <4>1
    <3> QED
      BY <3>1, <3>2, <3>3 DEF u, d
  <2>7. \A i \in 1..Len(chunks["upload"]) : chunks["upload"][i] = chunks["download"][i]
    <3> TAKE i \in 1..Len(chunks["upload"])
    <3>1. i \in Positive
      BY <2>2 DEF Positive
    <3>2. chunks["upload"][i] = ChunkAt(i, m, file_size) /\ calculate_chunk_offset(i, m) < file_size
      BY <2>3 DEF Yielded
    <3>3. chunks["download"][i] = ChunkAt(i, n, file_size)
      BY <2>3, <2>6 DEF Yielded
    <3> QED
      BY <2>4, <3>1, <3>2, <3>3
  <2> QED
    BY <2>2, <2>6, <2>7, SeqEqual
<1>2. Inv => (Verifiable => FoldedAlike)
  BY <1>1 DEF FoldedAlike
<1> QED
  BY <1>2, Invariance, PTL

-----------------------------------------------------------------------------
(* Ranges of a video.                                                       *)

\* The start of a cipher block at or before a byte.
LEMMA AlignedBefore ==
    ASSUME NEW start \in Nat
    PROVE  /\ AlignedStart(start) \in Nat
           /\ AlignedStart(start) <= start /\ start - AlignedStart(start) < AesBlock
           /\ AlignedStart(AlignedStart(start)) = AlignedStart(start)
<1>1. PICK n \in Nat : n = start \div 16
  OBVIOUS
<1>2. AlignedStart(start) = n * 16
  BY <1>1 DEF AlignedStart, AesBlock
<1>3. n * 16 <= start /\ start - n * 16 < 16
  BY <1>1
<1>4. (n * 16) \div 16 = n
  OBVIOUS
<1> QED
  BY <1>2, <1>3, <1>4 DEF AlignedStart, AesBlock

\* What is left of the decrypted blocks begins with the byte that was asked for.
LEMMA DiscardedExactly ==
    ASSUME NEW start \in Nat, NEW end \in Nat, start <= end
    PROVE  Discard(Plain(AlignedStart(start), end), start - AlignedStart(start))
             = [i \in 1..(end - start + 1) |-> [byte |-> start + i - 1, key |-> start + i - 1]]
<1> DEFINE aligned == AlignedStart(start)
           n == end - aligned + 1
           d == start - aligned
           plain == Plain(aligned, end)
<1>1. aligned \in Nat /\ aligned <= start /\ d \in 0..(AesBlock - 1) /\ n \in Nat
  <2>1. aligned \in Nat /\ aligned <= start /\ start - aligned < AesBlock
    BY AlignedBefore
  <2> HIDE DEF aligned
  <2> QED
    BY <2>1 DEF AesBlock
<1>2. (aligned \div AesBlock) * AesBlock = aligned
  BY AlignedBefore DEF AlignedStart
<1>3. plain = [i \in 1..n |-> [byte |-> aligned + i - 1, key |-> aligned + i - 1]]
  BY <1>2 DEF Plain
<1> HIDE DEF aligned
<1>4. Len(plain) = n
  BY <1>1, <1>3
<1>5. Least(d, CHUNK_READ_SIZE) = d
  BY <1>1, LinksAssumption DEF Least, AesBlock
<1>6. Discard(plain, d) = SubSeq(plain, 1 + d, n)
  BY <1>4, <1>5 DEF Discard
<1>7. SubSeq(plain, 1 + d, n) = [i \in 1..(1 + n - (1 + d)) |-> plain[i + (1 + d) - 1]]
  BY <1>1
<1>8. 1 + n - (1 + d) = end - start + 1
  BY <1>1
<1>9. ASSUME NEW i \in 1..(end - start + 1)
      PROVE  plain[i + (1 + d) - 1] = [byte |-> start + i - 1, key |-> start + i - 1]
  <2>1. i + (1 + d) - 1 \in 1..n /\ aligned + (i + (1 + d) - 1) - 1 = start + i - 1
    BY <1>1
  <2> QED
    BY <1>3, <2>1
<1> HIDE DEF plain
<1>10. Discard(plain, d) = [i \in 1..(end - start + 1) |-> [byte |-> start + i - 1, key |-> start + i - 1]]
  BY <1>6, <1>7, <1>8, <1>9
<1> QED
  BY <1>10 DEF plain, aligned

\* A range request is answered as RangeServed says.
LEMMA StreamServes ==
    ASSUME link \in File, StreamVideo
    PROVE  RangeServed'
<1> SUFFICES ASSUME response'.status \in {200, 206, 416}
             PROVE  RangeServed'
  BY DEF RangeServed
<1>1. link.size \in Nat /\ link' = link
  <2>1. link.size \in VideoSizes
    BY DEF File
  <2>2. link.size \in Nat
    BY <2>1, LinksAssumption
  <2> QED
    BY <2>2 DEF StreamVideo
<1>2. PICK header \in Header :
        LET range == _parse_range(header, link.size)
            aligned == AlignedStart(range.start) IN
        response' =
          IF range.start > range.end \/ range.end >= link.size
          THEN [status |-> 416, header |-> header]
          ELSE [status |-> IF header.ranged THEN 206 ELSE 200, header |-> header,
                content_length |-> range.end - range.start + 1,
                body |-> Discard(Plain(aligned, range.end), range.start - aligned)]
  BY DEF StreamVideo
<1> DEFINE start == IF header.start = Blank THEN 0 ELSE header.start
           end == IF header.end = Blank THEN link.size - 1 ELSE Least(header.end, link.size - 1)
<1>3. /\ header.ranged \in BOOLEAN
      /\ header.start \in Nat \cup {Blank} /\ header.end \in Nat \cup {Blank}
      /\ ~header.ranged => header.start = Blank /\ header.end = Blank
  BY LinksAssumption DEF Header
<1>4. _parse_range(header, link.size) = [start |-> start, end |-> end]
  BY DEF _parse_range
<1>5. start \in Nat /\ end \in Int /\ end < link.size
  BY <1>1, <1>3 DEF Least
<1>6. response'.header = header
  BY <1>2
<1>7. CASE start > end
  <2>1. response' = [status |-> 416, header |-> header]
    BY <1>2, <1>4, <1>7
  <2>2. response'.status = 416
    BY <2>1
  <2> QED
    BY <1>1, <1>3, <1>6, <1>7, <2>2 DEF RangeServed
<1>8. CASE ~(start > end)
  <2>1. response' = [status |-> IF header.ranged THEN 206 ELSE 200, header |-> header,
                     content_length |-> end - start + 1,
                     body |-> Discard(Plain(AlignedStart(start), end), start - AlignedStart(start))]
    <3>1. ~(start > end \/ end >= link.size)
      BY <1>1, <1>5, <1>8
    <3> HIDE DEF start, end
    <3> QED
      BY <1>2, <1>4, <3>1
  <2>2. end \in Nat /\ start <= end
    BY <1>5, <1>8
  <2>3. /\ response'.content_length = end - start + 1
        /\ response'.body = [i \in 1..(end - start + 1) |-> [byte |-> start + i - 1, key |-> start + i - 1]]
    <3> HIDE DEF start, end
    <3> QED
      BY <1>5, <2>1, <2>2, DiscardedExactly
  <2> DEFINE asked == IF header.ranged THEN header.start ELSE 0
  <2>4. asked # Blank => asked = start
    BY <1>3
  <2> HIDE DEF start, asked
  <2>5. asked # Blank =>
          IF asked > end
          THEN response'.status = 416
          ELSE /\ response'.content_length = end - asked + 1
               /\ response'.body = [i \in 1..(end - asked + 1) |->
                                      [byte |-> asked + i - 1, key |-> asked + i - 1]]
    BY <1>8, <2>3, <2>4
  <2> QED
    BY <1>1, <1>6, <2>5 DEF RangeServed, asked
<1> QED
  BY <1>7, <1>8

LinkInv == link \in Folder \cup File /\ RangeServed

\* The folder page answers for a folder, or refuses a file's link.
LEMMA LinkInvariance == LinkSpec => []LinkInv
<1>1. ASSUME LinkInit PROVE LinkInv
  BY <1>1 DEF LinkInit, LinkInv, RangeServed, NoResponse
<1>2. ASSUME LinkInv, [LinkNext]_linkVars PROVE LinkInv'
  <2>1. link' = link
    BY <1>2 DEF LinkNext, linkVars, Browse, StreamVideo
  <2>2. CASE UNCHANGED response
    BY <1>2, <2>1, <2>2 DEF LinkInv, RangeServed
  <2>3. CASE Browse
    <3>1. link'.kind = "file" => response' = [status |-> 400]
      BY <2>1, <2>3 DEF Browse
    <3>2. RangeServed'
      BY <3>1 DEF RangeServed
    <3> QED
      BY <1>2, <2>1, <3>2 DEF LinkInv
  <2>4. CASE StreamVideo
    <3>1. link \in File
      BY <1>2, <2>4 DEF LinkInv, StreamVideo, Folder
    <3> QED
      BY <1>2, <2>1, <2>4, <3>1, StreamServes DEF LinkInv
  <2> QED
    BY <1>2, <2>2, <2>3, <2>4 DEF LinkNext, linkVars
<1> QED
  BY <1>1, <1>2, PTL DEF LinkSpec

\* A player gets exactly the bytes its range names, each decrypted with its own
\* byte of the keystream, for a file of any size, any range that names its first
\* byte and any block size of the HTTP client from one cipher block on.
THEOREM PlayerGetsItsRange == LinkSpec => []RangeServed
BY LinkInvariance, PTL DEF LinkInv

-----------------------------------------------------------------------------
(* Functions defined by recursion along a folder tree.                      *)

\* A nonempty set of naturals has a least element.
LEMMA LeastElement ==
    ASSUME NEW T \in SUBSET Nat, T # {}
    PROVE  \E x \in T : \A y \in T : x <= y
<1> DEFINE F == {0..x : x \in T}
           R == StrictSubsetOrdering(Nat)
<1>1. IsWellFoundedOn(R, FiniteSubsetsOf(Nat))
  BY FS_StrictSubsetOrderingWellFounded
<1>2. F \subseteq FiniteSubsetsOf(Nat) /\ F # {}
  <2>1. \A x \in T : IsFiniteSet(0..x) /\ 0..x \subseteq Nat
    BY FS_Interval
  <2> QED
    BY <2>1 DEF FiniteSubsetsOf
<1>3. PICK I \in F : \A J \in F : <<J, I>> \notin R
  <2> HIDE DEF F, R
  <2> QED
    BY <1>1, <1>2, WFMin
<1>4. PICK x \in T : I = 0..x
  OBVIOUS
<1>5. ASSUME NEW y \in T, y < x
      PROVE  FALSE
  <2>1. 0..y \subseteq 0..x /\ 0..y # 0..x
    <3>1. x \in 0..x /\ x \notin 0..y
      BY <1>5
    <3> QED
      BY <1>5, <3>1
  <2>2. 0..y \in SUBSET Nat /\ 0..x \in SUBSET Nat
    OBVIOUS
  <2>3. <<0..y, I>> \in R
    BY <1>4, <2>1, <2>2 DEF StrictSubsetOrdering
  <2> QED
    BY <1>3, <2>3
<1> QED
  BY <1>5

\* Nodes of a share: a parent that is among them is nearer to the top.
IsTree(nodes, depth) ==
    /\ DOMAIN nodes \subseteq Handle
    /\ depth \in [Handle -> 1..Cardinality(Handle)]
    /\ \A h \in DOMAIN nodes : nodes[h] \in DOMAIN nodes => depth[nodes[h]] < depth[h]

LEMMA DepthsFinite ==
    ASSUME NEW nodes, NEW depth, IsTree(nodes, depth)
    PROVE  /\ Cardinality(Handle) \in Nat
           /\ \A h \in DOMAIN nodes : depth[h] \in Nat /\ 1 <= depth[h] /\ depth[h] <= Cardinality(Handle)
<1>1. Cardinality(Handle) \in Nat
  BY LinksAssumption, FS_CardinalityType
<1> QED
  BY <1>1 DEF IsTree

\* What build and Chain say of their functions at one node.
BuiltAt(f, nodes, h) == {[handle |-> c, children |-> f[c]] : c \in Children(nodes, h)}
ChainAt(f, nodes, h) == IF nodes[h] \in DOMAIN nodes THEN Append(f[nodes[h]], h) ELSE <<h>>

\* A set of naturals with no first element is empty: the form in which the
\* recursions below are shown to be settled step by step.
LEMMA StepByStep ==
    ASSUME NEW Missing \in SUBSET Nat, 0 \notin Missing,
           \A m \in Nat : m \notin Missing => m + 1 \notin Missing
    PROVE  Missing = {}
<1> SUFFICES ASSUME Missing # {} PROVE FALSE
  OBVIOUS
<1>1. PICK x \in Missing : \A y \in Missing : x <= y
  BY LeastElement
<1>2. x \in Nat /\ x # 0
  BY <1>1
<1>3. x - 1 \in Nat /\ x - 1 \notin Missing
  BY <1>1, <1>2
<1>4. (x - 1) + 1 \notin Missing
  BY <1>3
<1> QED
  BY <1>1, <1>2, <1>4

\* The function of build exists: the lists of the lowest nodes are settled first.
LEMMA BuildExists ==
    ASSUME NEW nodes, NEW depth, IsTree(nodes, depth)
    PROVE  \E f : f = [h \in DOMAIN nodes |-> BuiltAt(f, nodes, h)]
<1> DEFINE D == DOMAIN nodes
           N == Cardinality(Handle)
           Settled(f, m) == \A h \in D : N - depth[h] < m => f[h] = BuiltAt(f, nodes, h)
           Missing == {m \in Nat : ~\E f : f = [h \in D |-> f[h]] /\ Settled(f, m)}
<1>0. N \in Nat /\ \A h \in D : depth[h] \in Nat /\ 1 <= depth[h] /\ depth[h] <= N
  BY DepthsFinite
<1> HIDE DEF N
<1>1. 0 \notin Missing
  <2> DEFINE f == [h \in D |-> {}]
  <2>1. f = [h \in D |-> f[h]] /\ Settled(f, 0)
    BY <1>0
  <2> HIDE DEF f
  <2> QED
    BY <2>1
<1>2. ASSUME NEW m \in Nat, m \notin Missing
      PROVE  m + 1 \notin Missing
  <2>1. PICK f : f = [h \in D |-> f[h]] /\ Settled(f, m)
    BY <1>2
  <2> DEFINE g == [h \in D |-> BuiltAt(f, nodes, h)]
  <2>2. ASSUME NEW h \in D, N - depth[h] < m + 1
        PROVE  g[h] = BuiltAt(g, nodes, h)
    <3>1. ASSUME NEW c \in Children(nodes, h)
          PROVE  f[c] = g[c]
      <4>1. c \in D /\ depth[h] < depth[c]
        BY <3>1 DEF Children, IsTree
      <4>2. N - depth[c] < m
        BY <1>0, <2>2, <4>1
      <4> QED
        BY <2>1, <4>1, <4>2
    <3>2. g[h] = BuiltAt(f, nodes, h)
      OBVIOUS
    <3> HIDE DEF g
    <3> QED
      BY <3>1, <3>2 DEF BuiltAt
  <2>3. g = [h \in D |-> g[h]]
    OBVIOUS
  <2> HIDE DEF g
  <2>4. Settled(g, m + 1)
    BY <2>2
  <2> QED
    BY <2>3, <2>4
<1>3. Missing = {}
  <2>1. Missing \in SUBSET Nat
    OBVIOUS
  <2> HIDE DEF Missing
  <2> QED
    BY <1>1, <1>2, <2>1, StepByStep
<1>4. PICK f : f = [h \in D |-> f[h]] /\ Settled(f, N)
  BY <1>0, <1>3
<1>5. \A h \in D : f[h] = BuiltAt(f, nodes, h)
  <2>1. \A h \in D : N - depth[h] < N
    BY <1>0
  <2> QED
    BY <1>4, <2>1
<1> QED
  BY <1>4, <1>5

\* The list of a node holds its children, each with its own list.
LEMMA BuildIs ==
    ASSUME NEW nodes, NEW depth, IsTree(nodes, depth), NEW h \in DOMAIN nodes
    PROVE  build(nodes)[h] = {[handle |-> c, children |-> build(nodes)[c]] : c \in Children(nodes, h)}
<1> DEFINE b == CHOOSE f : f = [x \in DOMAIN nodes |->
                                 {[handle |-> c, children |-> f[c]] : c \in Children(nodes, x)}]
<1>1. \E f : f = [x \in DOMAIN nodes |->
                    {[handle |-> c, children |-> f[c]] : c \in Children(nodes, x)}]
  <2>1. PICK f : f = [x \in DOMAIN nodes |-> BuiltAt(f, nodes, x)]
    BY BuildExists
  <2>2. f = [x \in DOMAIN nodes |-> {[handle |-> c, children |-> f[c]] : c \in Children(nodes, x)}]
    BY ONLY <2>1 DEF BuiltAt
  <2> QED
    BY ONLY <2>2
<1>2. b = [x \in DOMAIN nodes |-> {[handle |-> c, children |-> b[c]] : c \in Children(nodes, x)}]
  BY <1>1
<1>3. build(nodes) = b
  BY DEF build
<1> HIDE DEF b
<1>4. b[h] = {[handle |-> c, children |-> b[c]] : c \in Children(nodes, h)}
  BY <1>2
<1> QED
  BY <1>3, <1>4

\* The function of Chain exists: the highest nodes are settled first.
LEMMA ChainExists ==
    ASSUME NEW nodes, NEW depth, IsTree(nodes, depth)
    PROVE  \E f : f = [h \in DOMAIN nodes |-> ChainAt(f, nodes, h)]
<1> DEFINE D == DOMAIN nodes
           N == Cardinality(Handle)
           Settled(f, m) == \A h \in D : depth[h] <= m => f[h] = ChainAt(f, nodes, h)
           Missing == {m \in Nat : ~\E f : f = [h \in D |-> f[h]] /\ Settled(f, m)}
<1>0. N \in Nat /\ \A h \in D : depth[h] \in Nat /\ 1 <= depth[h] /\ depth[h] <= N
  BY DepthsFinite
<1> HIDE DEF N
<1>1. 0 \notin Missing
  <2> DEFINE f == [h \in D |-> <<>>]
  <2>1. f = [h \in D |-> f[h]] /\ Settled(f, 0)
    BY <1>0
  <2> HIDE DEF f
  <2> QED
    BY <2>1
<1>2. ASSUME NEW m \in Nat, m \notin Missing
      PROVE  m + 1 \notin Missing
  <2>1. PICK f : f = [h \in D |-> f[h]] /\ Settled(f, m)
    BY <1>2
  <2> DEFINE g == [h \in D |-> ChainAt(f, nodes, h)]
  <2>2. ASSUME NEW h \in D, depth[h] <= m + 1
        PROVE  g[h] = ChainAt(g, nodes, h)
    <3>1. ASSUME nodes[h] \in D
          PROVE  f[nodes[h]] = g[nodes[h]]
      <4>1. depth[nodes[h]] < depth[h]
        BY <3>1 DEF IsTree
      <4>2. depth[nodes[h]] <= m
        BY <1>0, <2>2, <3>1, <4>1
      <4> QED
        BY <2>1, <3>1, <4>2
    <3>2. g[h] = ChainAt(f, nodes, h)
      OBVIOUS
    <3> HIDE DEF g
    <3> QED
      BY <3>1, <3>2 DEF ChainAt
  <2>3. g = [h \in D |-> g[h]]
    OBVIOUS
  <2> HIDE DEF g
  <2>4. Settled(g, m + 1)
    BY <2>2
  <2> QED
    BY <2>3, <2>4
<1>3. Missing = {}
  <2>1. Missing \in SUBSET Nat
    OBVIOUS
  <2> HIDE DEF Missing
  <2> QED
    BY <1>1, <1>2, <2>1, StepByStep
<1>4. PICK f : f = [h \in D |-> f[h]] /\ Settled(f, N)
  BY <1>0, <1>3
<1>5. \A h \in D : f[h] = ChainAt(f, nodes, h)
  BY <1>0, <1>4
<1> QED
  BY <1>4, <1>5

\* A node's chain is its parent's and the node, or the node alone at the top.
LEMMA ChainIs ==
    ASSUME NEW nodes, NEW depth, IsTree(nodes, depth), NEW h \in DOMAIN nodes
    PROVE  Chain(nodes)[h] = ChainAt(Chain(nodes), nodes, h)
<1> DEFINE b == CHOOSE f : f = [x \in DOMAIN nodes |->
                                 IF nodes[x] \in DOMAIN nodes THEN Append(f[nodes[x]], x) ELSE <<x>>]
<1>1. \E f : f = [x \in DOMAIN nodes |->
                    IF nodes[x] \in DOMAIN nodes THEN Append(f[nodes[x]], x) ELSE <<x>>]
  <2>1. PICK f : f = [x \in DOMAIN nodes |-> ChainAt(f, nodes, x)]
    BY ChainExists
  <2>2. f = [x \in DOMAIN nodes |->
               IF nodes[x] \in DOMAIN nodes THEN Append(f[nodes[x]], x) ELSE <<x>>]
    BY ONLY <2>1 DEF ChainAt
  <2> QED
    BY ONLY <2>2
<1>2. b = [x \in DOMAIN nodes |->
             IF nodes[x] \in DOMAIN nodes THEN Append(b[nodes[x]], x) ELSE <<x>>]
  BY <1>1
<1>3. Chain(nodes) = b
  BY DEF Chain
<1> HIDE DEF b
<1>4. b[h] = IF nodes[h] \in DOMAIN nodes THEN Append(b[nodes[h]], h) ELSE <<h>>
  BY <1>2
<1> QED
  BY <1>3, <1>4 DEF ChainAt

\* A chain is a sequence of nodes no longer than the node is deep; it has one
\* node exactly at the top.
LEMMA ChainShape ==
    ASSUME NEW nodes, NEW depth, IsTree(nodes, depth), NEW h \in DOMAIN nodes
    PROVE  /\ Chain(nodes)[h] \in Seq(Handle)
           /\ 1 <= Len(Chain(nodes)[h]) /\ Len(Chain(nodes)[h]) <= Cardinality(Handle)
           /\ IF nodes[h] \in DOMAIN nodes
              THEN /\ Chain(nodes)[h] = Append(Chain(nodes)[nodes[h]], h)
                   /\ Chain(nodes)[nodes[h]] \in Seq(Handle)
                   /\ Len(Chain(nodes)[h]) = Len(Chain(nodes)[nodes[h]]) + 1
                   /\ Len(Chain(nodes)[nodes[h]]) >= 1
              ELSE Chain(nodes)[h] = <<h>>
<1> DEFINE D == DOMAIN nodes
           N == Cardinality(Handle)
           chain == Chain(nodes)
           Shaped(x) == chain[x] \in Seq(Handle) /\ 1 <= Len(chain[x]) /\ Len(chain[x]) <= depth[x]
           Missing == {m \in Nat : \E x \in D : depth[x] <= m /\ ~Shaped(x)}
<1>0. N \in Nat /\ \A x \in D : depth[x] \in Nat /\ 1 <= depth[x] /\ depth[x] <= N
  BY DepthsFinite
<1>1. \A x \in D : chain[x] = ChainAt(chain, nodes, x)
  BY ChainIs
<1>2. D \subseteq Handle
  BY DEF IsTree
<1> HIDE DEF N, chain
<1>3. 0 \notin Missing
  BY <1>0
<1>4. ASSUME NEW m \in Nat, m \notin Missing, NEW x \in D, depth[x] <= m + 1
      PROVE  Shaped(x)
  <2>1. CASE nodes[x] \in D
    <3>1. depth[nodes[x]] < depth[x]
      BY <2>1 DEF IsTree
    <3>2. depth[nodes[x]] <= m
      BY <1>0, <1>4, <2>1, <3>1
    <3>3. Shaped(nodes[x])
      BY <1>4, <2>1, <3>2
    <3>4. chain[x] = Append(chain[nodes[x]], x) /\ x \in Handle
      BY <1>1, <1>2, <2>1 DEF ChainAt
    <3>5. chain[x] \in Seq(Handle) /\ Len(chain[x]) = Len(chain[nodes[x]]) + 1
      BY <3>3, <3>4
    <3> QED
      BY <1>0, <2>1, <3>1, <3>3, <3>5
  <2>2. CASE nodes[x] \notin D
    <3>1. chain[x] = <<x>> /\ x \in Handle
      BY <1>1, <1>2, <2>2 DEF ChainAt
    <3> QED
      BY <1>0, <3>1
  <2> QED
    BY <2>1, <2>2
<1>5. Missing = {}
  <2>1. \A m \in Nat : m \notin Missing => m + 1 \notin Missing
    BY <1>4
  <2>2. Missing \in SUBSET Nat
    OBVIOUS
  <2> HIDE DEF Missing
  <2> QED
    BY <1>3, <2>1, <2>2, StepByStep
<1>6. \A x \in D : Shaped(x)
  <2> TAKE x \in D
  <2>1. depth[x] \in Nat /\ depth[x] <= depth[x]
    BY <1>0
  <2> HIDE DEF Shaped
  <2> QED
    BY <1>5, <2>1
<1>7. chain[h] \in Seq(Handle) /\ 1 <= Len(chain[h]) /\ Len(chain[h]) <= N
  BY <1>0, <1>6
<1>8. CASE nodes[h] \in D
  <2>1. Shaped(nodes[h])
    BY <1>6, <1>8
  <2>2. chain[h] = Append(chain[nodes[h]], h)
    BY <1>1, <1>8 DEF ChainAt
  <2>3. Len(chain[h]) = Len(chain[nodes[h]]) + 1
    BY <2>1, <2>2
  <2> QED
    BY <1>7, <1>8, <2>1, <2>2, <2>3 DEF chain, N
<1>9. CASE nodes[h] \notin D
  BY <1>1, <1>7, <1>9 DEF ChainAt, chain, N
<1> QED
  BY <1>8, <1>9

-----------------------------------------------------------------------------
(* The paths of a tree.                                                     *)

LevelAt(f, tree, k) ==
    IF k = 0
    THEN {[path |-> <<n.handle>>, node |-> n] : n \in tree}
    ELSE UNION {{[path |-> Append(up.path, n.handle), node |-> n] : n \in up.node.children} :
                  up \in f[k - 1]}

\* The function of Levels exists: each level is settled by the one above it.
LEMMA LevelsExist ==
    ASSUME NEW tree
    PROVE  \E f : f = [k \in 0..Cardinality(Handle) |-> LevelAt(f, tree, k)]
<1> DEFINE N == Cardinality(Handle)
           D == 0..N
           Settled(f, m) == \A k \in D : k <= m => f[k] = LevelAt(f, tree, k)
           Missing == {m \in Nat : ~\E f : f = [k \in D |-> f[k]] /\ Settled(f, m)}
<1>0. N \in Nat
  BY LinksAssumption, FS_CardinalityType
<1> HIDE DEF N
<1>1. 0 \notin Missing
  <2> DEFINE f == [k \in D |-> LevelAt(<<>>, tree, 0)]
  <2>1. f = [k \in D |-> f[k]]
    OBVIOUS
  <2>2. ASSUME NEW k \in D, k <= 0 PROVE f[k] = LevelAt(f, tree, k)
    <3>1. k = 0 /\ f[k] = LevelAt(<<>>, tree, 0)
      BY <1>0, <2>2
    <3> HIDE DEF f
    <3> QED
      BY <3>1 DEF LevelAt
  <2> HIDE DEF f
  <2> QED
    BY <2>1, <2>2
<1>2. ASSUME NEW m \in Nat, m \notin Missing
      PROVE  m + 1 \notin Missing
  <2>1. PICK f : f = [k \in D |-> f[k]] /\ Settled(f, m)
    BY <1>2
  <2> DEFINE g == [k \in D |-> LevelAt(f, tree, k)]
  <2>2. ASSUME NEW k \in D, k <= m + 1
        PROVE  g[k] = LevelAt(g, tree, k)
    <3>1. g[k] = LevelAt(f, tree, k)
      OBVIOUS
    <3>2. ASSUME k # 0 PROVE g[k - 1] = f[k - 1]
      <4>1. k - 1 \in D /\ k - 1 <= m
        BY <1>0, <2>2, <3>2
      <4> QED
        BY <2>1, <4>1
    <3> HIDE DEF g
    <3> QED
      BY <3>1, <3>2 DEF LevelAt
  <2>3. g = [k \in D |-> g[k]]
    OBVIOUS
  <2> HIDE DEF g
  <2>4. Settled(g, m + 1)
    BY <2>2
  <2> QED
    BY <2>3, <2>4
<1>3. Missing = {}
  <2>1. Missing \in SUBSET Nat
    OBVIOUS
  <2> HIDE DEF Missing
  <2> QED
    BY <1>1, <1>2, <2>1, StepByStep
<1>4. PICK f : f = [k \in D |-> f[k]] /\ Settled(f, N)
  BY <1>0, <1>3
<1>5. \A k \in D : f[k] = LevelAt(f, tree, k)
  BY <1>0, <1>4
<1> QED
  BY <1>4, <1>5 DEF N

LEMMA LevelsAre ==
    ASSUME NEW tree, NEW k \in 0..Cardinality(Handle)
    PROVE  Levels(tree)[k] = LevelAt(Levels(tree), tree, k)
<1> DEFINE b == CHOOSE f : f = [j \in 0..Cardinality(Handle) |->
                  IF j = 0
                  THEN {[path |-> <<n.handle>>, node |-> n] : n \in tree}
                  ELSE UNION {{[path |-> Append(up.path, n.handle), node |-> n] : n \in up.node.children} :
                                up \in f[j - 1]}]
<1>1. \E f : f = [j \in 0..Cardinality(Handle) |->
                  IF j = 0
                  THEN {[path |-> <<n.handle>>, node |-> n] : n \in tree}
                  ELSE UNION {{[path |-> Append(up.path, n.handle), node |-> n] : n \in up.node.children} :
                                up \in f[j - 1]}]
  <2>1. PICK f : f = [j \in 0..Cardinality(Handle) |-> LevelAt(f, tree, j)]
    BY LevelsExist
  <2>2. f = [j \in 0..Cardinality(Handle) |->
                  IF j = 0
                  THEN {[path |-> <<n.handle>>, node |-> n] : n \in tree}
                  ELSE UNION {{[path |-> Append(up.path, n.handle), node |-> n] : n \in up.node.children} :
                                up \in f[j - 1]}]
    BY ONLY <2>1 DEF LevelAt
  <2> QED
    BY ONLY <2>2
<1>2. b = [j \in 0..Cardinality(Handle) |->
                  IF j = 0
                  THEN {[path |-> <<n.handle>>, node |-> n] : n \in tree}
                  ELSE UNION {{[path |-> Append(up.path, n.handle), node |-> n] : n \in up.node.children} :
                                up \in b[j - 1]}]
  BY <1>1
<1>3. Levels(tree) = b
  BY DEF Levels
<1> HIDE DEF b
<1>4. b = [j \in 0..Cardinality(Handle) |-> LevelAt(b, tree, j)]
  BY ONLY <1>2 DEF LevelAt
<1> QED
  BY <1>3, <1>4

\* A node of a tree as build makes it.
NodeOf(nodes, h) == [handle |-> h, children |-> build(nodes)[h]]

\* The nodes at the top of a tree have themselves for a path and rank 0; a node
\* that is shown has its parent's path and itself, and a rank one more; a node
\* left out has a negative rank.
Ranked(nodes, top, route, rank) ==
    /\ top \subseteq DOMAIN nodes /\ rank \in [DOMAIN nodes -> Int]
    /\ \A c \in top : route[c] = <<c>> /\ rank[c] = 0
    /\ \A c \in DOMAIN nodes :
         /\ rank[c] = 0 => c \in top
         /\ nodes[c] \in DOMAIN nodes /\ rank[nodes[c]] >= 0 =>
              route[c] = Append(route[nodes[c]], c) /\ rank[c] = rank[nodes[c]] + 1
         /\ rank[c] > 0 => nodes[c] \in DOMAIN nodes /\ rank[nodes[c]] = rank[c] - 1
         /\ rank[c] <= Cardinality(Handle)

\* A tree with such nodes at its top has the paths of the nodes that are shown.
LEMMA PathsOfTree ==
    ASSUME NEW nodes, NEW depth, IsTree(nodes, depth),
           NEW top, NEW route, NEW rank, Ranked(nodes, top, route, rank),
           NEW tree, tree = {NodeOf(nodes, h) : h \in top}
    PROVE  Paths(tree) = {route[h] : h \in {x \in DOMAIN nodes : rank[x] >= 0}}
<1> DEFINE D == DOMAIN nodes
           N == Cardinality(Handle)
           level == Levels(tree)
           At(h) == [path |-> route[h], node |-> NodeOf(nodes, h)]
           Right(k) == level[k] = {At(h) : h \in {x \in D : rank[x] = k}}
           Missing == {m \in Nat : m \in 0..N /\ ~Right(m)}
<1>0. N \in Nat
  BY LinksAssumption, FS_CardinalityType
<1>ranked. /\ top \subseteq D /\ rank \in [D -> Int]
           /\ \A c \in top : route[c] = <<c>> /\ rank[c] = 0
           /\ \A c \in D :
                /\ rank[c] = 0 => c \in top
                /\ nodes[c] \in D /\ rank[nodes[c]] >= 0 =>
                     route[c] = Append(route[nodes[c]], c) /\ rank[c] = rank[nodes[c]] + 1
                /\ rank[c] > 0 => nodes[c] \in D /\ rank[nodes[c]] = rank[c] - 1
                /\ rank[c] <= N
  BY DEF Ranked
<1>1. \A k \in 0..N : level[k] = LevelAt(level, tree, k)
  BY LevelsAre
<1>2. \A h \in D : build(nodes)[h] = {NodeOf(nodes, c) : c \in {x \in D : nodes[x] = h}}
  BY BuildIs DEF NodeOf, Children
<1>3. \A h : NodeOf(nodes, h).handle = h /\ NodeOf(nodes, h).children = build(nodes)[h]
  BY DEF NodeOf
<1>4. \A h : At(h).path = route[h] /\ At(h).node = NodeOf(nodes, h)
  OBVIOUS
<1> HIDE DEF N, level
<1>5. Right(0)
  <2>1. level[0] = {[path |-> <<n.handle>>, node |-> n] : n \in tree}
    <3>1. level[0] = LevelAt(level, tree, 0)
      BY <1>0, <1>1
    <3> QED
      BY <3>1 DEF LevelAt
  <2>2. \A h \in top : At(h) = [path |-> <<NodeOf(nodes, h).handle>>, node |-> NodeOf(nodes, h)]
    BY <1>3, <1>ranked
  <2>3. {x \in D : rank[x] = 0} = top
    BY <1>ranked
  <2>4. level[0] = {At(h) : h \in top}
    <3> HIDE DEF At
    <3> QED
      BY <2>1, <2>2
  <2> QED
    BY <2>3, <2>4
<1>6. ASSUME NEW k \in 0..N, k # 0, Right(k - 1)
      PROVE  Right(k)
  <2>0. k - 1 \in 0..N
    BY <1>0, <1>6
  <2>1. level[k] = UNION {{[path |-> Append(up.path, n.handle), node |-> n] : n \in up.node.children} :
                            up \in level[k - 1]}
    BY <1>1, <1>6 DEF LevelAt
  <2>2. ASSUME NEW e \in level[k]
        PROVE  e \in {At(h) : h \in {x \in D : rank[x] = k}}
    <3>0. PICK up \in level[k - 1] :
            e \in {[path |-> Append(up.path, n.handle), node |-> n] : n \in up.node.children}
      BY <2>1, <2>2
    <3>1. PICK n \in up.node.children : e = [path |-> Append(up.path, n.handle), node |-> n]
      BY <3>0
    <3>2. PICK h \in D : rank[h] = k - 1 /\ up = At(h)
      BY <1>6, <3>1
    <3>3. up.path = route[h] /\ up.node.children = build(nodes)[h]
      BY <1>3, <1>4, <3>2
    <3>4. PICK c \in D : nodes[c] = h /\ n = NodeOf(nodes, c)
      BY <1>2, <3>1, <3>3
    <3>5. route[c] = Append(route[h], c) /\ rank[c] = k
      BY <1>0, <1>6, <1>ranked, <3>2, <3>4
    <3>6. e = At(c)
      BY <1>3, <3>1, <3>3, <3>4, <3>5
    <3> QED
      BY <3>5, <3>6
  <2>3. ASSUME NEW c \in D, rank[c] = k
        PROVE  At(c) \in level[k]
    <3>1. nodes[c] \in D /\ rank[nodes[c]] = k - 1
      BY <1>0, <1>6, <1>ranked, <2>3
    <3>2. route[c] = Append(route[nodes[c]], c)
      BY <1>0, <1>6, <1>ranked, <3>1
    <3>3. At(nodes[c]) \in level[k - 1]
      BY <1>6, <3>1
    <3>4. NodeOf(nodes, c) \in At(nodes[c]).node.children
      <4>1. NodeOf(nodes, c) \in build(nodes)[nodes[c]]
        BY <1>2, <3>1
      <4> QED
        BY <1>3, <1>4, <4>1
    <3>5. At(c) = [path |-> Append(At(nodes[c]).path, NodeOf(nodes, c).handle), node |-> NodeOf(nodes, c)]
      BY <1>3, <3>2
    <3> DEFINE below(up) == {[path |-> Append(up.path, n.handle), node |-> n] : n \in up.node.children}
    <3> HIDE DEF At
    <3>6. At(c) \in below(At(nodes[c]))
      BY <3>4, <3>5
    <3>7. level[k] = UNION {below(up) : up \in level[k - 1]}
      BY <2>1
    <3> HIDE DEF below
    <3> QED
      BY <3>3, <3>6, <3>7
  <2> HIDE DEF At
  <2> QED
    BY <2>2, <2>3
<1>7. Missing = {}
  <2>1. 0 \notin Missing
    <3> HIDE DEF Right
    <3> QED
      BY <1>5
  <2>2. \A m \in Nat : m \notin Missing => m + 1 \notin Missing
    <3> SUFFICES ASSUME NEW m \in Nat, m \notin Missing, m + 1 \in 0..N
                 PROVE  Right(m + 1)
      OBVIOUS
    <3>1. m \in 0..N /\ (m + 1) - 1 = m /\ m + 1 # 0
      BY <1>0
    <3> HIDE DEF Right
    <3>2. Right((m + 1) - 1)
      BY <3>1
    <3> QED
      BY <1>6, <3>1, <3>2
  <2>3. Missing \in SUBSET Nat
    OBVIOUS
  <2> HIDE DEF Missing
  <2> QED
    BY <2>1, <2>2, <2>3, StepByStep
<1>8. \A k \in 0..N : Right(k)
  <2> HIDE DEF Right
  <2> QED
    BY <1>7
<1>9. Paths(tree) = {at.path : at \in UNION {level[k] : k \in 0..N}}
  BY DEF Paths, level, N
<1>10. UNION {level[k] : k \in 0..N} = {At(h) : h \in {x \in D : rank[x] >= 0}}
  <2>1. \A h \in D : rank[h] >= 0 <=> rank[h] \in 0..N
    BY <1>0, <1>ranked
  <2> HIDE DEF At
  <2> QED
    BY <1>8, <2>1
<1>11. Paths(tree) = {At(h).path : h \in {x \in D : rank[x] >= 0}}
  <2> DEFINE shown == {At(h) : h \in {x \in D : rank[x] >= 0}}
  <2>1. Paths(tree) = {at.path : at \in shown}
    BY <1>9, <1>10
  <2> HIDE DEF At
  <2>2. {at.path : at \in shown} = {At(h).path : h \in {x \in D : rank[x] >= 0}}
    OBVIOUS
  <2> QED
    BY <2>1, <2>2
<1> QED
  BY <1>4, <1>11

-----------------------------------------------------------------------------
(* The folder page.                                                         *)

\* What the client keeps of a share is a tree, or several.
LEMMA ShareIsTree ==
    ASSUME link \in Folder
    PROVE  /\ \E depth : IsTree(get_folder_nodes, depth)
           /\ DOMAIN get_folder_nodes = link.readable
<1> DEFINE nodes == get_folder_nodes
<1>1. IsShare(link.parent, link.folders) /\ link.readable \in SUBSET Handle
  BY DEF Folder
<1>2. PICK wrapper \in link.folders, depth \in [Handle -> 1..Cardinality(Handle)] :
        /\ \A h \in Handle : link.parent[h] = Outside <=> h = wrapper
        /\ \A h \in Handle \ {wrapper} :
             link.parent[h] \in link.folders /\ depth[link.parent[h]] < depth[h]
  BY <1>1 DEF IsShare
<1>3. DOMAIN nodes = link.readable /\ \A h \in link.readable : nodes[h] = link.parent[h]
  BY DEF get_folder_nodes
<1>4. ASSUME NEW h \in DOMAIN nodes, nodes[h] \in DOMAIN nodes
      PROVE  depth[nodes[h]] < depth[h]
  <2>1. h \in Handle /\ link.parent[h] \in Handle /\ nodes[h] = link.parent[h]
    BY <1>1, <1>3, <1>4
  <2>2. h # wrapper
    BY <1>2, <2>1, LinksAssumption
  <2> QED
    BY <1>2, <2>1, <2>2
<1>5. IsTree(nodes, depth)
  BY <1>1, <1>2, <1>3, <1>4 DEF IsTree
<1> QED
  BY <1>3, <1>5

\* With no root, or several, every node is shown with the nodes above it.
LEMMA ManyRoots ==
    ASSUME NEW nodes, NEW depth, IsTree(nodes, depth)
    PROVE  Paths({[handle |-> h, children |-> build(nodes)[h]] : h \in Roots(nodes)})
             = {Chain(nodes)[h] : h \in DOMAIN nodes}
<1> DEFINE D == DOMAIN nodes
           chain == Chain(nodes)
           rank == [h \in D |-> Len(chain[h]) - 1]
           top == Roots(nodes)
<1>1. \A h \in D : /\ chain[h] \in Seq(Handle) /\ 1 <= Len(chain[h]) /\ Len(chain[h]) \in Nat
                   /\ Len(chain[h]) <= Cardinality(Handle)
                   /\ nodes[h] \in D => /\ chain[h] = Append(chain[nodes[h]], h)
                                        /\ Len(chain[h]) = Len(chain[nodes[h]]) + 1
                   /\ nodes[h] \notin D => chain[h] = <<h>>
  BY ChainShape
<1>2. Cardinality(Handle) \in Nat
  BY DepthsFinite
<1> HIDE DEF chain
<1>3. rank \in [D -> Int] /\ \A h \in D : rank[h] = Len(chain[h]) - 1
  BY <1>1
<1> HIDE DEF rank
<1>4. top \in SUBSET D /\ \A c \in D : c \in top <=> nodes[c] \notin D
  BY DEF Roots
<1>5. \A c \in top : chain[c] = <<c>> /\ rank[c] = 0
  <2> TAKE c \in top
  <2>1. c \in D /\ chain[c] = <<c>>
    BY <1>1, <1>4
  <2>2. Len(chain[c]) = 1
    BY <2>1
  <2>3. rank[c] = 0
    <3>1. rank[c] = Len(chain[c]) - 1
      BY <1>3, <2>1
    <3> HIDE DEF top
    <3> QED
      BY ONLY <3>1, <2>2
  <2> QED
    BY <2>1, <2>3
<1>6. \A c \in D : nodes[c] \in D => rank[c] = rank[nodes[c]] + 1 /\ rank[nodes[c]] >= 0
                                     /\ chain[c] = Append(chain[nodes[c]], c)
  BY <1>1, <1>3
<1>7. /\ \A c \in D : rank[c] = 0 => c \in top
      /\ \A c \in D : rank[c] > 0 => nodes[c] \in D /\ rank[nodes[c]] = rank[c] - 1
  <2>1. ASSUME NEW c \in D, rank[c] = 0 PROVE c \in top
    <3>1. nodes[c] \in D => rank[nodes[c]] \in Int
      BY <1>3
    <3> QED
      BY <1>4, <1>6, <2>1, <3>1
  <2>2. ASSUME NEW c \in D, rank[c] > 0 PROVE nodes[c] \in D /\ rank[nodes[c]] = rank[c] - 1
    <3>1. nodes[c] \in D
      BY <1>4, <1>5, <2>2
    <3>2. rank[nodes[c]] \in Int
      BY <1>3, <3>1
    <3> QED
      BY <1>6, <3>1, <3>2
  <2> QED
    BY <2>1, <2>2
<1>8. \A c \in D : rank[c] <= Cardinality(Handle) /\ rank[c] >= 0
  BY <1>1, <1>2, <1>3
<1> HIDE DEF top
<1>9. Paths({NodeOf(nodes, h) : h \in top}) = {chain[h] : h \in {x \in D : rank[x] >= 0}}
  <2>1. Ranked(nodes, top, chain, rank)
    BY <1>3, <1>4, <1>5, <1>6, <1>7, <1>8 DEF Ranked
  <2> QED
    BY <2>1, PathsOfTree
<1>10. {x \in D : rank[x] >= 0} = D
  BY <1>8
<1> QED
  BY <1>9, <1>10 DEF NodeOf, chain, top

\* With one root, every other node is shown with the nodes between it and the root.
LEMMA OneRoot ==
    ASSUME NEW nodes, NEW depth, IsTree(nodes, depth), NEW wrapper, Roots(nodes) = {wrapper}
    PROVE  Paths(build(nodes)[wrapper]) = {Tail(Chain(nodes)[h]) : h \in DOMAIN nodes \ {wrapper}}
<1> DEFINE D == DOMAIN nodes
           chain == Chain(nodes)
           rank == [h \in D |-> Len(chain[h]) - 2]
           route == [h \in D |-> Tail(chain[h])]
           top == Children(nodes, wrapper)
<1>1. \A h \in D : /\ chain[h] \in Seq(Handle) /\ 1 <= Len(chain[h]) /\ Len(chain[h]) \in Nat
                   /\ Len(chain[h]) <= Cardinality(Handle)
                   /\ nodes[h] \in D => /\ chain[h] = Append(chain[nodes[h]], h)
                                        /\ Len(chain[h]) = Len(chain[nodes[h]]) + 1
                   /\ nodes[h] \notin D => chain[h] = <<h>>
  BY ChainShape
<1>2. Cardinality(Handle) \in Nat /\ D \subseteq Handle
  BY DepthsFinite DEF IsTree
<1> HIDE DEF chain
<1>3. /\ rank \in [D -> Int] /\ \A h \in D : rank[h] = Len(chain[h]) - 2
      /\ \A h \in D : route[h] = Tail(chain[h])
  BY <1>1
<1> HIDE DEF rank, route
<1>4. wrapper \in D /\ \A c \in D : nodes[c] \notin D <=> c = wrapper
  BY DEF Roots
<1>5. top \in SUBSET D /\ \A c \in D : c \in top <=> nodes[c] = wrapper
  BY DEF Children
<1> HIDE DEF top
<1>6. chain[wrapper] = <<wrapper>> /\ Len(chain[wrapper]) = 1 /\ rank[wrapper] = -1
  <2>1. chain[wrapper] = <<wrapper>>
    BY <1>1, <1>4
  <2>2. Len(chain[wrapper]) = 1
    BY <2>1
  <2>3. rank[wrapper] = -1
    <3>1. rank[wrapper] = Len(chain[wrapper]) - 2
      BY <1>3, <1>4
    <3> QED
      BY ONLY <3>1, <2>2
  <2> QED
    BY <2>1, <2>2, <2>3
<1>7. ASSUME NEW c \in D, c # wrapper
      PROVE  nodes[c] \in D /\ rank[c] = rank[nodes[c]] + 1 /\ rank[nodes[c]] \in Int /\ rank[c] >= 0
             /\ chain[c] = Append(chain[nodes[c]], c)
  BY <1>1, <1>3, <1>4, <1>7
<1>8. \A c \in top : route[c] = <<c>> /\ rank[c] = 0
  <2> TAKE c \in top
  <2>1. c \in D /\ nodes[c] = wrapper /\ c # wrapper
    BY <1>4, <1>5
  <2>2. chain[c] = <<wrapper, c>> /\ rank[c] = 0
    BY <1>6, <1>7, <2>1
  <2>3. Tail(<<wrapper, c>>) = <<c>>
    OBVIOUS
  <2> QED
    BY <1>3, <2>1, <2>2, <2>3
<1>9. \A c \in D : rank[c] = 0 => c \in top
  <2> SUFFICES ASSUME NEW c \in D, rank[c] = 0 PROVE nodes[c] = wrapper
    BY <1>5
  <2>1. c # wrapper
    BY <1>6
  <2>2. nodes[c] \in D /\ rank[nodes[c]] = -1
    BY <1>7, <2>1
  <2> QED
    BY <1>7, <2>2
<1>10. \A c \in D : nodes[c] \in D /\ rank[nodes[c]] >= 0 =>
             route[c] = Append(route[nodes[c]], c) /\ rank[c] = rank[nodes[c]] + 1
  <2> SUFFICES ASSUME NEW c \in D, nodes[c] \in D, rank[nodes[c]] >= 0
               PROVE  route[c] = Append(route[nodes[c]], c) /\ rank[c] = rank[nodes[c]] + 1
    OBVIOUS
  <2> DEFINE s == chain[nodes[c]]
  <2>1. c # wrapper
    BY <1>4
  <2>2. s \in Seq(Handle) /\ Len(s) >= 2 /\ c \in Handle
    BY <1>1, <1>2, <1>3
  <2>3. chain[c] = Append(s, c) /\ rank[c] = rank[nodes[c]] + 1
    BY <1>7, <2>1
  <2> HIDE DEF s
  <2>4. Tail(Append(s, c)) = Append(Tail(s), c)
    <3>1. /\ Tail(Append(s, c)) \in Seq(Handle) /\ Append(Tail(s), c) \in Seq(Handle)
          /\ Len(Tail(Append(s, c))) = Len(s) /\ Len(Append(Tail(s), c)) = Len(s)
      BY <2>2
    <3>2. \A i \in 1..Len(s) : Tail(Append(s, c))[i] = Append(Tail(s), c)[i]
      BY <2>2
    <3> QED
      BY <3>1, <3>2, SeqEqual
  <2> QED
    BY <1>3, <2>3, <2>4 DEF s
<1>11. \A c \in D : rank[c] > 0 => nodes[c] \in D /\ rank[nodes[c]] = rank[c] - 1
  <2> SUFFICES ASSUME NEW c \in D, rank[c] > 0
               PROVE  nodes[c] \in D /\ rank[nodes[c]] = rank[c] - 1
    OBVIOUS
  <2>1. c # wrapper
    BY <1>6
  <2> QED
    BY <1>7, <2>1
<1>12. \A c \in D : rank[c] <= Cardinality(Handle)
  BY <1>1, <1>2, <1>3
<1>13. Paths({NodeOf(nodes, h) : h \in top}) = {route[h] : h \in {x \in D : rank[x] >= 0}}
  <2>1. Ranked(nodes, top, route, rank)
    BY <1>3, <1>5, <1>8, <1>9, <1>10, <1>11, <1>12 DEF Ranked
  <2> QED
    BY <2>1, PathsOfTree
<1>14. {x \in D : rank[x] >= 0} = D \ {wrapper}
  BY <1>6, <1>7
<1>15. build(nodes)[wrapper] = {NodeOf(nodes, h) : h \in top}
  BY <1>4, BuildIs DEF NodeOf, top
<1>16. {route[h] : h \in D \ {wrapper}} = {Tail(chain[h]) : h \in D \ {wrapper}}
  BY <1>3
<1> QED
  BY <1>13, <1>14, <1>15, <1>16 DEF chain

\* The page shows what the client kept.
TreeAnswered ==
    link.kind = "folder" /\ response.status = 200 => response.tree = build_tree(get_folder_nodes)

LEMMA AnswerComplete ==
    ASSUME link \in Folder \cup File, TreeAnswered
    PROVE  TreeComplete
<1> SUFFICES ASSUME link.kind = "folder", response.status = 200
             PROVE  TreeComplete
  BY DEF TreeComplete
<1> DEFINE nodes == get_folder_nodes
           top == Roots(nodes)
<1>1. link \in Folder /\ response.tree = build_tree(nodes)
  BY DEF TreeAnswered, File
<1>2. PICK depth : IsTree(nodes, depth)
  BY <1>1, ShareIsTree
<1>3. DOMAIN nodes = link.readable
  BY <1>1, ShareIsTree
<1> HIDE DEF nodes
<1>4. CASE Cardinality(top) # 1
  <2>1. response.tree = {[handle |-> h, children |-> build(nodes)[h]] : h \in top}
    BY <1>1, <1>4 DEF build_tree
  <2>2. Paths(response.tree) = {Chain(nodes)[h] : h \in link.readable}
    BY <1>2, <1>3, <2>1, ManyRoots
  <2> QED
    BY <1>4, <2>2 DEF TreeComplete, nodes
<1>5. CASE Cardinality(top) = 1
  <2>1. IsFiniteSet(top)
    <3>1. top \subseteq Handle
      BY <1>2 DEF IsTree, Roots
    <3> QED
      BY <3>1, LinksAssumption, FS_Subset
  <2>2. PICK wrapper : top = {wrapper}
    BY <1>5, <2>1, FS_Singleton
  <2>3. (CHOOSE h \in top : TRUE) = wrapper
    BY <2>2
  <2>4. response.tree = build(nodes)[wrapper]
    BY <1>1, <1>5, <2>3 DEF build_tree
  <2>5. Paths(response.tree) = {Tail(Chain(nodes)[h]) : h \in link.readable \ {wrapper}}
    BY <1>2, <1>3, <2>2, <2>4, OneRoot
  <2>6. wrapper \in top
    BY <2>2
  <2> QED
    BY <1>5, <2>5, <2>6 DEF TreeComplete, nodes
<1> QED
  BY <1>4, <1>5

\* For a share of any finite size and shape and any nodes that cannot be read, the
\* folder page shows every readable node under its nearest readable folder, and
\* leaves out only the shared folder's own node (folder_tree.py:55-77).
THEOREM FolderShownWhole == LinkSpec => []TreeComplete
<1> DEFINE TInv == link \in Folder \cup File /\ TreeAnswered
<1>1. ASSUME LinkInit PROVE TInv
  BY <1>1 DEF LinkInit, TreeAnswered, NoResponse
<1>2. ASSUME TInv, [LinkNext]_linkVars PROVE TInv'
  <2>1. link' = link
    BY <1>2 DEF LinkNext, linkVars, Browse, StreamVideo
  <2>2. get_folder_nodes' = get_folder_nodes
    BY <2>1 DEF get_folder_nodes
  <2>3. CASE UNCHANGED response
    BY <1>2, <2>1, <2>2, <2>3 DEF TreeAnswered
  <2>4. CASE Browse
    BY <1>2, <2>1, <2>2, <2>4 DEF TreeAnswered, Browse
  <2>5. CASE StreamVideo
    <3>1. link'.kind = "file"
      BY <2>1, <2>5 DEF StreamVideo
    <3> QED
      BY <1>2, <2>1, <3>1 DEF TreeAnswered
  <2> QED
    BY <1>2, <2>3, <2>4, <2>5 DEF LinkNext, linkVars
<1>3. TInv => TreeComplete
  BY AnswerComplete
<1> QED
  BY <1>1, <1>2, <1>3, PTL DEF LinkSpec
=============================================================================
