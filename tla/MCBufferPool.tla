---------------------------- MODULE MCBufferPool ----------------------------
(* Small instances of BufferPool for TLC.                                  *)
EXTENDS BufferPool, TLC

Powers == [i \in Classes |-> 2 ^ i]
OneOfEach == [i \in Classes |-> 1]
Least == -2
Symmetry == Permutations(Buffers)
=============================================================================
