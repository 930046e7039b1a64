------------------------------- MODULE Chunks -------------------------------
(***************************************************************************)
(* app/core/chunks.py and what is built on its arithmetic: the URL and the *)
(* keystream position of a chunk, the chunks the file MAC is folded over,  *)
(* and the resume point of Downloader.run.                                 *)
(*                                                                         *)
(* Two generators run iter_chunks over the same file: the uploader, always *)
(* with size_multi = 1, and a downloader with its own.  KB is 1024 in the  *)
(* code; a smaller value keeps all the formulas and shrinks the file.      *)
(***************************************************************************)
EXTENDS Integers, Sequences

CONSTANTS
    KB,           \* bytes in a kilobyte
    Multis,       \* size_multi of the downloader
    FileSizes,    \* sizes of the file, in bytes
    Existing,     \* sizes of a partial download found on disk
    DEFAULT_SIZE_MULTI    \* what Downloader uses unless it is told otherwise

ASSUME ChunksAssumption ==
    /\ KB \in Nat \ {0}
    /\ Multis \subseteq Nat \ {0} /\ DEFAULT_SIZE_MULTI \in Multis
    /\ FileSizes \subseteq Nat /\ Existing \subseteq Nat

Side == {"upload", "download"}
Block == 16               \* AES block

VARIABLES
    file_size,
    size_multi,      \* of each side
    chunks,          \* what each side's iter_chunks has yielded
    exhausted,       \* it has returned
    existing,        \* bytes on disk when the download is resumed
    resume_bytes, resume_chunks

genVars == <<chunks, exhausted>>
resumeVars == <<resume_bytes, resume_chunks>>
vars == <<file_size, size_multi, genVars, existing, resumeVars>>

-----------------------------------------------------------------------------
_GEOMETRIC_OFFSETS_KB == <<0, 128, 384, 768, 1280, 1920, 2688>>

calculate_chunk_offset(chunk_id, multi) ==
    IF chunk_id \in 1..7
    THEN _GEOMETRIC_OFFSETS_KB[chunk_id] * KB
    ELSE (3584 + (chunk_id - 8) * 1024 * multi) * KB

FullSize(chunk_id, multi) ==
    IF chunk_id \in 1..7 THEN chunk_id * 128 * KB ELSE 1024 * KB * multi

calculate_chunk_size(chunk_id, size, offset, multi) ==
    IF offset + FullSize(chunk_id, multi) > size
    THEN size - offset
    ELSE FullSize(chunk_id, multi)

\* Faulty variant: the end is one byte too far.
GenUrlEndExclusive(size, offset, chunk_size) == [from |-> offset, to |-> offset + chunk_size]
\* "/from-to", or "/from" (to = -1) for the last chunk.
gen_chunk_url(size, offset, chunk_size) ==
    IF offset + chunk_size = size
    THEN [from |-> offset, to |-> -1]
    ELSE [from |-> offset, to |-> offset + chunk_size - 1]

\* The bytes the storage node answers with: first and one past the last.
Served(url, size) == <<url.from, IF url.to = -1 THEN size ELSE url.to + 1>>

\* counter_start of aes_ctr_crypt for a chunk.
CounterStart(c) == c.offset \div Block

-----------------------------------------------------------------------------
(* The two generators, then the resume loop over the downloader's chunks.   *)

Init ==
    /\ file_size \in FileSizes /\ existing \in Existing
    /\ size_multi \in {[upload |-> 1, download |-> m] : m \in Multis}
    /\ chunks = [s \in Side |-> <<>>] /\ exhausted = [s \in Side |-> FALSE]
    /\ resume_bytes = 0 /\ resume_chunks = 0

\* One turn of iter_chunks' loop.
Yield(s) ==
    LET chunk_id == Len(chunks[s]) + 1
        offset == calculate_chunk_offset(chunk_id, size_multi[s])
        size == calculate_chunk_size(chunk_id, file_size, offset, size_multi[s])
        more == offset < file_size /\ size > 0
    IN  /\ ~exhausted[s]
        /\ chunks' = IF more
                     THEN [chunks EXCEPT ![s] = Append(@, [offset |-> offset, size |-> size])]
                     ELSE chunks
        /\ exhausted' = [exhausted EXCEPT ![s] = ~more]
        /\ UNCHANGED <<file_size, size_multi, existing, resumeVars>>

\* Faulty variant: a chunk must end before the end of the file on disk.
EndsInside(bytes) == bytes < existing
OnDisk(bytes) == bytes <= existing

\* The loop over the downloader's chunks that finds the resume point.
NextWhole == resume_bytes + chunks["download"][resume_chunks + 1].size
CanCount == resume_chunks < Len(chunks["download"]) /\ OnDisk(NextWhole)
CountWhole ==
    /\ exhausted["download"] /\ CanCount
    /\ resume_bytes' = NextWhole
    /\ resume_chunks' = resume_chunks + 1
    /\ UNCHANGED <<file_size, size_multi, genVars, existing>>

Next == (\E s \in Side : Yield(s)) \/ CountWhole
Spec == Init /\ [][Next]_vars

-----------------------------------------------------------------------------
(* Properties.                                                              *)

End(c) == c.offset + c.size

\* What the storage node serves for the chunks of one side, one after another,
\* is the file: each byte in exactly one chunk, up to the last byte once the
\* generator returns, and each chunk from a block of the keystream on, where its
\* counter starts (chunks.py:42-70, crypto.py:144-147).
ChunksTile ==
    \A s \in Side :
      LET n == Len(chunks[s]) IN
      /\ \A i \in 1..n :
           LET c == chunks[s][i]
               start == IF i = 1 THEN 0 ELSE End(chunks[s][i - 1]) IN
           /\ Served(gen_chunk_url(file_size, c.offset, c.size), file_size) = <<start, End(c)>>
           /\ CounterStart(c) * Block = start
      /\ exhausted[s] => file_size = IF n = 0 THEN 0 ELSE End(chunks[s][n])

\* FileMacGenerator folds one MAC per chunk, so a download verifies only if it
\* folds over the uploader's chunks.
FoldedAlike == exhausted["upload"] /\ exhausted["download"] => chunks["upload"] = chunks["download"]

\* "Must be fed one whole MEGA chunk at a time" (mac.py:8): what every
\* download with the default multiplier does.
DefaultVerifies == size_multi["download"] = DEFAULT_SIZE_MULTI => FoldedAlike

\* The resume loop stops at the last chunk boundary that the file on disk
\* reaches: it re-fetches every chunk that is not whole and no other
\* (download.py:320-331).
ResumeAtBoundary ==
    LET fetched == chunks["download"] IN
    /\ resume_bytes = IF resume_chunks = 0 THEN 0 ELSE End(fetched[resume_chunks])
    /\ resume_bytes <= existing
    /\ exhausted["download"] /\ ~CanCount /\ resume_chunks < Len(fetched)
          => existing < End(fetched[resume_chunks + 1])

=============================================================================
