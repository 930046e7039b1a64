----------------------------- MODULE OrderedFile -----------------------------
(***************************************************************************)
(* What a download promises about its file, over all of its runs: the      *)
(* file only ever grows at its end, chunk by chunk in order; it may lose a *)
(* tail (a crash, a torn write); once a run has reported its result the    *)
(* file is whole and no longer changes.                                    *)
(***************************************************************************)
EXTENDS Integers, Sequences

CONSTANT TotalChunks
VARIABLES content, sealed

Init == content = <<>> /\ sealed = FALSE

Grow ==
    /\ ~sealed /\ Len(content) < TotalChunks
    /\ content' = Append(content, Len(content) + 1)
    /\ UNCHANGED sealed

LoseTail ==
    /\ ~sealed
    /\ \E k \in 0..Len(content) : content' = SubSeq(content, 1, k)
    /\ UNCHANGED sealed

Seal ==
    /\ ~sealed /\ content = [i \in 1..TotalChunks |-> i]
    /\ sealed' = TRUE
    /\ UNCHANGED content

Next == Grow \/ LoseTail \/ Seal
Spec == Init /\ [][Next]_<<content, sealed>>
=============================================================================
