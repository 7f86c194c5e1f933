------------------------------- MODULE Console -------------------------------
(***************************************************************************)
(* The console's input: consoleintr, called by the keyboard's and the      *)
(* serial line's interrupt for each character, and consoleread.  Both run  *)
(* under input.lock; a reader that has found nothing to read holds it from *)
(* its test of proc->killed to its sleep, where kill may step in.  The     *)
(* indices wrap around at Word, as the code's do at 2^32.                  *)
(***************************************************************************)
EXTENDS Naturals, Sequences

CONSTANTS
  Readers, Killable,
  INPUT_BUF, Word,
  Letters,
  MaxRead          \* bound: the n of one read

Chars == Letters \cup {"newline", "eof"}

VARIABLES
  buf, r, w, e,    \* input
  pc,              \* "idle", "loop", "doze", "asleep", "exit" of a reader
  n, target,       \* the locals of consoleread
  killed

input == <<buf, r, w, e>>
reader == <<pc, n, target, killed>>
vars == <<input, reader>>

Init ==
  /\ buf = [i \in 0..INPUT_BUF - 1 |-> "newline"]
  /\ r = 0 /\ w = 0 /\ e = 0
  /\ pc = [p \in Readers |-> "idle"]
  /\ n = [p \in Readers |-> 0] /\ target = [p \in Readers |-> 0]
  /\ killed = [p \in Readers |-> FALSE]

Minus(a, b) == (a + Word - b) % Word
At(i) == buf[i % INPUT_BUF]
Slice(a, b) == [i \in 1..Minus(b, a) |-> At(a + i - 1)]
Unlocked == \A p \in Readers : pc[p] # "doze"

------------------------------------------------------------------------------
(* consoleintr *)

\* Mutant: the reader is not woken.
TypeQuiet(c) ==
  /\ Unlocked /\ Minus(e, r) < INPUT_BUF
  /\ buf' = [buf EXCEPT ![e % INPUT_BUF] = c]
  /\ e' = (e + 1) % Word
  /\ w' = IF c \in {"newline", "eof"} \/ e' = (r + INPUT_BUF) % Word THEN e' ELSE w
  /\ UNCHANGED <<r, reader>>

\* A carriage return has become a newline.
Type(c) ==
  /\ Unlocked /\ Minus(e, r) < INPUT_BUF
  /\ buf' = [buf EXCEPT ![e % INPUT_BUF] = c]
  /\ e' = (e + 1) % Word
  /\ IF c \in {"newline", "eof"} \/ e' = (r + INPUT_BUF) % Word
     THEN /\ w' = e'
          /\ pc' = [p \in Readers |-> IF pc[p] = "asleep" THEN "loop" ELSE pc[p]]
     ELSE UNCHANGED <<w, pc>>
  /\ UNCHANGED <<r, n, target, killed>>

Backspace ==
  /\ Unlocked /\ e # w
  /\ e' = Minus(e, 1)
  /\ UNCHANGED <<buf, r, w, reader>>

\* Control-U: back to the last newline or to what has been entered.
KillLine ==
  LET stops == {k \in 0..Minus(e, w) : k = Minus(e, w) \/ At(Minus(e, k + 1)) = "newline"}
  IN /\ Unlocked /\ e # w
     /\ e' = Minus(e, CHOOSE k \in stops : \A j \in stops : k <= j)
     /\ UNCHANGED <<buf, r, w, reader>>

------------------------------------------------------------------------------
(* consoleread *)

ReadCall(p) ==
  /\ pc[p] = "idle" /\ ~killed[p]
  /\ \E k \in 1..MaxRead : n' = [n EXCEPT ![p] = k] /\ target' = [target EXCEPT ![p] = k]
  /\ pc' = [pc EXCEPT ![p] = "loop"]
  /\ UNCHANGED <<input, killed>>

Goto(p, where) ==
  /\ pc' = [pc EXCEPT ![p] = where]
  /\ target' = [target EXCEPT ![p] = IF where = "doze" THEN @ ELSE 0]

\* The length of the longest run of ordinary characters that p's loop copies.
Run(p) == LET s == Slice(r, w)
              upto == {k \in 0..Len(s) : k <= n[p] /\ \A i \in 1..k : s[i] \in Letters}
          IN CHOOSE k \in upto : \A j \in upto : j <= k

\* Nothing is left to read: -1 to a killed process, whose caller exits.
Empty(p) == IF killed[p] THEN Goto(p, "exit") ELSE Goto(p, "doze")

\* Mutant: an end of file is consumed by the read that it ends.
CopyEatsEof(p) ==
  LET k == Run(p) IN
  /\ pc[p] = "loop" /\ Unlocked
  /\ IF k = n[p] THEN r' = (r + k) % Word /\ Goto(p, "idle")
     ELSE IF k = Minus(w, r) THEN r' = w /\ Empty(p)
     ELSE r' = (r + k + 1) % Word /\ Goto(p, "idle")
  /\ n' = [n EXCEPT ![p] = IF pc'[p] = "doze" THEN @ - k ELSE 0]
  /\ UNCHANGED <<buf, w, e, killed>>

\* The loop, up to its end or to its sleep: it ends with n characters, with a
\* newline, or at an end of file, which it keeps if it has copied a character.
Copy(p) ==
  LET k == Run(p) IN
  /\ pc[p] = "loop" /\ Unlocked
  /\ IF k = n[p] THEN r' = (r + k) % Word /\ Goto(p, "idle")
     ELSE IF k = Minus(w, r) THEN r' = w /\ Empty(p)
     ELSE /\ r' = IF At(r + k) = "eof" /\ n[p] - k < target[p] THEN (r + k) % Word
                  ELSE (r + k + 1) % Word
          /\ Goto(p, "idle")
  /\ n' = [n EXCEPT ![p] = IF pc'[p] = "doze" THEN @ - k ELSE 0]
  /\ UNCHANGED <<buf, w, e, killed>>

Sleep(p) ==
  /\ pc[p] = "doze"
  /\ pc' = [pc EXCEPT ![p] = "asleep"]
  /\ UNCHANGED <<input, n, target, killed>>

kill(p) ==
  /\ ~killed[p]
  /\ killed' = [killed EXCEPT ![p] = TRUE]
  /\ pc' = [pc EXCEPT ![p] = IF @ = "asleep" THEN "loop" ELSE @]
  /\ UNCHANGED <<input, n, target>>

Read(p) == Copy(p) \/ Sleep(p)

Next ==
  \/ \E c \in Chars : Type(c)
  \/ Backspace \/ KillLine
  \/ \E p \in Readers : ReadCall(p) \/ Read(p)
  \/ \E p \in Killable : kill(p)

Spec == Init /\ [][Next]_vars

==============================================================================
