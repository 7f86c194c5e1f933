-------------------------------- MODULE MCProc --------------------------------
(* Small instances of Proc. *)
EXTENDS Proc, TLC

CONSTANTS c1, c2
SymmCpus == Permutations(Cpus)
===============================================================================
