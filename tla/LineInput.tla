------------------------------ MODULE LineInput ------------------------------
(***************************************************************************)
(* What console.c promises about typed input: a line can be edited until   *)
(* it is entered; entered characters are read once, in order; a read ends  *)
(* with a newline; and an end of file is a read of its own.                *)
(***************************************************************************)
EXTENDS Naturals, Sequences

CONSTANTS INPUT_BUF, Chars

VARIABLES entered, line

vars == <<entered, line>>

Init == entered = <<>> /\ line = <<>>

\* The line is entered by a newline, an end of file, or for want of room.
Type(c) ==
  /\ Len(entered) + Len(line) < INPUT_BUF
  /\ IF c \in {"newline", "eof"} \/ Len(entered) + Len(line) + 1 = INPUT_BUF
     THEN entered' = entered \o Append(line, c) /\ line' = <<>>
     ELSE line' = Append(line, c) /\ UNCHANGED entered

Erase(k) ==
  /\ line' = SubSeq(line, 1, Len(line) - k)
  /\ UNCHANGED entered

Read(k) ==
  /\ entered' = SubSeq(entered, k + 1, Len(entered))
  /\ \A i \in 1..k : entered[i] = "newline" => i = k
  /\ \A i \in 1..k : entered[i] = "eof" => k = 1
  /\ UNCHANGED line

Next == \/ \E c \in Chars : Type(c)
        \/ \E k \in 1..Len(line) : Erase(k)
        \/ \E k \in 1..Len(entered) : Read(k)

Spec == Init /\ [][Next]_vars
==============================================================================
