--------------------------- MODULE MCWriteAheadLog ---------------------------
(* The handles of the write-ahead log are interchangeable.                 *)
EXTENDS WriteAheadLog

ConnSymmetry == Permutations(Conns)
=============================================================================
