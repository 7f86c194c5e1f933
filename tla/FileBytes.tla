------------------------------ MODULE FileBytes ------------------------------
(***************************************************************************)
(* What an open file promises: an array of bytes with an offset; a write   *)
(* puts a chunk at the offset, a read takes the bytes from there, and both *)
(* move the offset, each in one step.                                      *)
(***************************************************************************)
EXTENDS Naturals, Sequences

CONSTANTS Files, Bytes, MAXSIZE, MAXCHUNK

VARIABLES content, off, got

vars == <<content, off, got>>

Init == /\ content = [f \in Files |-> <<>>] /\ off = [f \in Files |-> 0]
        /\ got = <<>>

Write(f, s) ==
  LET n == Len(s)  old == content[f] IN
  /\ off[f] + n <= MAXSIZE
  /\ content' = [content EXCEPT ![f] =
       SubSeq(old, 1, off[f]) \o s \o SubSeq(old, off[f] + n + 1, Len(old))]
  /\ off' = [off EXCEPT ![f] = @ + n]
  /\ got' = <<>>

Read(f) ==
  /\ got' = SubSeq(content[f], off[f] + 1, off'[f])
  /\ \E m \in off[f]..Len(content[f]) : off' = [off EXCEPT ![f] = m]
  /\ UNCHANGED content

Seek(f) == off' = [off EXCEPT ![f] = 0] /\ got' = <<>> /\ UNCHANGED content

Remove(f) == /\ content' = [content EXCEPT ![f] = <<>>] /\ off' = [off EXCEPT ![f] = 0]
             /\ got' = <<>>

Next == \E f \in Files :
  \/ \E n \in 1..MAXCHUNK : \E s \in [1..n -> Bytes] : Write(f, s)
  \/ Read(f) \/ Seek(f) \/ Remove(f)

Spec == Init /\ [][Next]_vars
==============================================================================
