-------------------------------- MODULE MCPipe --------------------------------
(* Small instances of Pipe. *)
EXTENDS Pipe, TLC

CONSTANTS w1, w2, r1, r2
Symm == Permutations(Writers) \cup Permutations(Readers)
===============================================================================
