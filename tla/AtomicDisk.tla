------------------------------ MODULE AtomicDisk ------------------------------
(***************************************************************************)
(* What the logging layer (log.c) promises the file system: a disk whose   *)
(* blocks change only by whole groups of operations.  Operations write a   *)
(* volatile image; when no operation is active the image may become        *)
(* durable, all of it at once; a crash falls back to the durable image.    *)
(***************************************************************************)
CONSTANTS Procs, Blocks, Vals

VARIABLES
  durable,   \* what a reboot would find in each block
  volatile,  \* what a running system call reads from each block
  active     \* processes between begin_op and end_op

vars == <<durable, volatile, active>>

Init == /\ durable \in [Blocks -> Vals]
        /\ volatile = durable
        /\ active = {}

Begin(p) == /\ p \notin active
            /\ active' = active \cup {p}
            /\ UNCHANGED <<durable, volatile>>

Write(p) == /\ p \in active
            /\ \E b \in Blocks, v \in Vals : volatile' = [volatile EXCEPT ![b] = v]
            /\ UNCHANGED <<durable, active>>

End(p) == /\ p \in active
          /\ active' = active \ {p}
          /\ UNCHANGED <<durable, volatile>>

Commit == /\ active = {}
          /\ durable' = volatile
          /\ UNCHANGED <<volatile, active>>

Crash == /\ volatile' = durable
         /\ active' = {}
         /\ UNCHANGED durable

Next == Commit \/ Crash \/ \E p \in Procs : Begin(p) \/ Write(p) \/ End(p)

Spec == Init /\ [][Next]_vars
===============================================================================
