--------------------------- MODULE MCTransferQueue ---------------------------
(* TransferQueue for TLC: ids and links are interchangeable.                 *)
EXTENDS TransferQueue, TLC

Symmetry == Permutations(Id) \cup Permutations(Link)
=============================================================================
