----------------------------- MODULE SectorStore -----------------------------
(***************************************************************************)
(* What bio.c promises its callers: every sector has one current content,  *)
(* one process at a time holds a sector, and only its holder changes it.   *)
(***************************************************************************)
CONSTANTS Procs, Sectors, Vals, None

VARIABLES content, holder

vars == <<content, holder>>

Init == /\ content = [s \in Sectors |-> CHOOSE v \in Vals[s] : TRUE]
        /\ holder = [s \in Sectors |-> None]

Take(p, s) == /\ holder[s] = None
              /\ holder' = [holder EXCEPT ![s] = p]
              /\ UNCHANGED content

Store(s) == /\ holder[s] # None
            /\ \E v \in Vals[s] : content' = [content EXCEPT ![s] = v]
            /\ UNCHANGED holder

Drop(s) == /\ holder' = [holder EXCEPT ![s] = None]
           /\ UNCHANGED content

Next == \E s \in Sectors : Store(s) \/ Drop(s) \/ \E p \in Procs : Take(p, s)

Spec == Init /\ [][Next]_vars
==============================================================================
