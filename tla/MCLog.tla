-------------------------------- MODULE MCLog --------------------------------
(***************************************************************************)
(* Two instances of Log, explored one after the other.  In one, two        *)
(* processes write two blocks and what the disk holds is followed; in the  *)
(* other, three processes compete for the space of the log, within their   *)
(* reservations or using them up, and neither the contents nor what is     *)
(* cached is told apart.  As mkfs makes it, the log has LOGSIZE sectors    *)
(* and one of them is its head.                                            *)
(***************************************************************************)
EXTENDS Log

CONSTANTS p3, b3, b4

VARIABLE part

Crowd == Procs \cup {p3}
S == INSTANCE Log WITH Procs <- Crowd, Blocks <- Blocks \cup {b3, b4}, Vals <- {0},
       NotCached <- 0

MCInit == \/ part = "contents" /\ Init
          \/ part = "space" /\ S!Init
MCNext == /\ \/ part = "contents" /\ Next
             \/ part = "space" /\ S!Next
          /\ UNCHANGED part

OnSpace(A) == part = "space" /\ A /\ UNCHANGED part

\* A process in the kernel keeps getting the CPU, and a file-system call calls
\* log_write finitely often before its end_op.
MCSpec == /\ MCInit /\ [][MCNext]_<<part, vars>>
          /\ \A p \in Crowd : /\ WF_<<part, vars>>(OnSpace(S!Step(p)))
                              /\ SF_<<part, vars>>(OnSpace(~halted /\ S!EndOp(p)))

\* A process that waits in begin_op, for space or for a commit, is woken in the
\* end, if no panic stops the machine.
SleeperWakes ==
  \A p \in Crowd : (part = "space" /\ pc[p] = "asleep") ~>
                   (part = "space" /\ (pc[p] # "asleep" \/ halted))
==============================================================================
