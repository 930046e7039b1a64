--------------------------- MODULE MCChunkPipeline ---------------------------
(* ChunkPipeline for TLC: the constants get their small values in the .cfg   *)
(* files; here is the abstract specification it is checked against.          *)
EXTENDS ChunkPipeline

\* The download as its user sees it: whole chunks on disk, sealed once a run
\* reported the result.
Ordered == INSTANCE OrderedFile WITH
    content <- SubSeq(disk, 1, WholeChunks),
    sealed <- phase = "ended" /\ result = "complete"

\* The pipeline, over any number of runs, implements the in-order file.
ImplementsOrderedFile == Ordered!Spec
=============================================================================
