-------------------------------- MODULE Pipe --------------------------------
(***************************************************************************)
(* One pipe of pipe.c, its writers, its readers, and kill.  Each process   *)
(* holds one descriptor of its end.  The lock of the pipe is a variable:   *)
(* between the test of proc->killed and the sleep a process holds it, but  *)
(* kill, which takes only ptable.lock, may step in.  The counters nread    *)
(* and nwrite wrap around at Wrap, as the code's do at 2^32.               *)
(***************************************************************************)
EXTENDS Naturals, Sequences

CONSTANTS
  Writers, Readers,
  Killable,     \* the processes that may be the target of kill
  PIPESIZE, Wrap,
  Bytes,
  MaxCount,     \* bound: the n of one call
  None, Eof, Nothing

Users == Writers \cup Readers

ASSUME PipeAssumption ==
  /\ Writers \cap Readers = {} /\ Killable \subseteq Users /\ None \notin Users
  /\ PIPESIZE \in Nat \ {0} /\ Wrap \in Nat
  /\ Wrap % PIPESIZE = 0 /\ PIPESIZE < Wrap
  /\ Bytes \subseteq Nat /\ MaxCount \in Nat

VARIABLES
  data, nread, nwrite, readopen, writeopen, lock,   \* struct pipe
  freed,
  open,     \* the processes that have their descriptor
  pc,       \* "idle", "call", "copy", "full", "doze", "asleep", "woken"
  todo,     \* the bytes a writer has still to write
  want,     \* the n of a reader
  got,      \* what the last read returned
  killed

pipe == <<data, nread, nwrite, readopen, writeopen>>
vars == <<pipe, lock, freed, open, pc, todo, want, got, killed>>

Init ==
  /\ data \in [0..PIPESIZE - 1 -> Bytes]   \* whatever the page held
  /\ nread = 0 /\ nwrite = 0
  /\ readopen = TRUE /\ writeopen = TRUE /\ freed = FALSE
  /\ lock = None
  /\ open = Users
  /\ pc = [p \in Users |-> "idle"]
  /\ todo = [w \in Writers |-> <<>>]
  /\ want = [r \in Readers |-> 0]
  /\ got = [r \in Readers |-> Nothing]
  /\ killed = {}

Used == (nwrite + Wrap - nread) % Wrap
Goto(p, where) == pc' = [pc EXCEPT ![p] = where]

\* wakeup, for the processes of one end; p itself goes to where.
Wake(S, p, where) ==
  pc' = [r \in Users |-> IF r = p THEN where
                         ELSE IF r \in S /\ pc[r] = "asleep" THEN "woken" ELSE pc[r]]

Acquire(p) ==
  /\ pc[p] \in {"call", "woken"} /\ lock = None
  /\ lock' = p
  /\ Goto(p, "copy")
  /\ UNCHANGED <<pipe, freed, open, todo, want, got, killed>>

\* The end of a call that releases the lock.
Return(p) == lock' = None

------------------------------------------------------------------------------
(* pipewrite *)

WriteCall(w) ==
  /\ pc[w] = "idle" /\ w \in open \ killed
  /\ \E n \in 1..MaxCount : \E s \in [1..n -> Bytes] : todo' = [todo EXCEPT ![w] = s]
  /\ Goto(w, "call")
  /\ UNCHANGED <<pipe, lock, freed, open, want, got, killed>>

\* The loop, up to the end of the bytes or to a full pipe.
WriteCopy(w) ==
  LET room == PIPESIZE - Used
      k == IF Len(todo[w]) <= room THEN Len(todo[w]) ELSE room
  IN /\ pc[w] = "copy"
     /\ data' = [i \in DOMAIN data |->
                   IF \E j \in 1..k : i = (nwrite + j - 1) % PIPESIZE
                   THEN todo[w][CHOOSE j \in 1..k : i = (nwrite + j - 1) % PIPESIZE]
                   ELSE data[i]]
     /\ nwrite' = (nwrite + k) % Wrap
     /\ todo' = [todo EXCEPT ![w] = SubSeq(@, k + 1, Len(@))]
     /\ IF k = Len(todo[w]) THEN Wake(Readers, w, "idle") /\ Return(w)
        ELSE Goto(w, "full") /\ UNCHANGED lock
     /\ UNCHANGED <<nread, readopen, writeopen, freed, open, want, got, killed>>

\* The body of the while loop, up to its sleep.
WriteFull(w) ==
  /\ pc[w] = "full"
  /\ IF ~readopen \/ w \in killed
     THEN Return(w) /\ Goto(w, "idle") /\ todo' = [todo EXCEPT ![w] = <<>>]
     ELSE Wake(Readers, w, "doze") /\ UNCHANGED <<lock, todo>>
  /\ UNCHANGED <<pipe, freed, open, want, got, killed>>

------------------------------------------------------------------------------
(* piperead *)

ReadCall(r) ==
  /\ pc[r] = "idle" /\ r \in open \ killed
  /\ \E n \in 1..MaxCount : want' = [want EXCEPT ![r] = n]
  /\ got' = [got EXCEPT ![r] = Nothing]
  /\ Goto(r, "call")
  /\ UNCHANGED <<pipe, lock, freed, open, todo, killed>>

\* The bytes of the pipe, oldest first.
Content == [i \in 1..Used |-> data[(nread + i - 1) % PIPESIZE]]

\* The while loop, up to its sleep.
ReadEmpty(r) ==
  /\ pc[r] = "copy" /\ r \in Readers
  /\ nread = nwrite /\ writeopen
  /\ IF r \in killed
     THEN Return(r) /\ Goto(r, "idle") /\ want' = [want EXCEPT ![r] = 0]
     ELSE Goto(r, "doze") /\ UNCHANGED <<lock, want>>
  /\ UNCHANGED <<pipe, freed, open, todo, got, killed>>

\* Mutant: a counter that wraps around starts again at 0.
ReadCopyShort(r) ==
  LET k == IF Used <= want[r] THEN Used ELSE want[r] IN
  /\ pc[r] = "copy" /\ r \in Readers
  /\ nread # nwrite \/ ~writeopen
  /\ got' = [got EXCEPT ![r] = IF k = 0 THEN Eof ELSE SubSeq(Content, 1, k)]
  /\ nread' = IF nread + k >= Wrap THEN 0 ELSE nread + k
  /\ Wake(Writers, r, "idle")
  /\ Return(r) /\ want' = [want EXCEPT ![r] = 0]
  /\ UNCHANGED <<data, nwrite, readopen, writeopen, freed, open, todo, killed>>

\* Mutant: writers are not woken.
ReadCopyQuiet(r) ==
  LET k == IF Used <= want[r] THEN Used ELSE want[r] IN
  /\ pc[r] = "copy" /\ r \in Readers
  /\ nread # nwrite \/ ~writeopen
  /\ got' = [got EXCEPT ![r] = IF k = 0 THEN Eof ELSE SubSeq(Content, 1, k)]
  /\ nread' = (nread + k) % Wrap
  /\ Goto(r, "idle")
  /\ Return(r) /\ want' = [want EXCEPT ![r] = 0]
  /\ UNCHANGED <<data, nwrite, readopen, writeopen, freed, open, todo, killed>>

ReadCopy(r) ==
  LET k == IF Used <= want[r] THEN Used ELSE want[r] IN
  /\ pc[r] = "copy" /\ r \in Readers
  /\ nread # nwrite \/ ~writeopen
  /\ got' = [got EXCEPT ![r] = IF k = 0 THEN Eof ELSE SubSeq(Content, 1, k)]
  /\ nread' = (nread + k) % Wrap
  /\ Wake(Writers, r, "idle")
  /\ Return(r) /\ want' = [want EXCEPT ![r] = 0]
  /\ UNCHANGED <<data, nwrite, readopen, writeopen, freed, open, todo, killed>>

\* sleep(chan, &p->lock): asleep, and the lock released.
Sleep(p) ==
  /\ pc[p] = "doze"
  /\ Goto(p, "asleep")
  /\ lock' = None
  /\ UNCHANGED <<pipe, freed, open, todo, want, got, killed>>

------------------------------------------------------------------------------
\* Mutant: readers are not woken for the end of file.
CloseQuiet(p) ==
  LET mine == IF p \in Writers THEN Writers ELSE Readers
      others == (mine \ {p}) \cap open # {}
  IN /\ pc[p] = "idle" /\ p \in open /\ lock = None
     /\ open' = open \ {p}
     /\ writeopen' = (writeopen /\ (p \in Readers \/ others))
     /\ readopen' = (readopen /\ (p \in Writers \/ others))
     /\ freed' = (~readopen' /\ ~writeopen')
     /\ UNCHANGED <<data, nread, nwrite, lock, pc, todo, want, got, killed>>

\* Mutant: the page is freed with the read end.
CloseEarly(p) ==
  LET mine == IF p \in Writers THEN Writers ELSE Readers
      others == (mine \ {p}) \cap open # {}
  IN /\ pc[p] = "idle" /\ p \in open /\ lock = None
     /\ open' = open \ {p}
     /\ writeopen' = (writeopen /\ (p \in Readers \/ others))
     /\ readopen' = (readopen /\ (p \in Writers \/ others))
     /\ freed' = ~readopen'
     /\ IF others THEN UNCHANGED pc ELSE Wake(Users \ mine, p, "idle")
     /\ UNCHANGED <<data, nread, nwrite, lock, todo, want, got, killed>>

\* fileclose of p's descriptor, by close or by exit: the last one of an end
\* runs pipeclose.
Close(p) ==
  LET mine == IF p \in Writers THEN Writers ELSE Readers
      others == (mine \ {p}) \cap open # {}
  IN /\ pc[p] = "idle" /\ p \in open /\ lock = None
     /\ open' = open \ {p}
     /\ writeopen' = (writeopen /\ (p \in Readers \/ others))
     /\ readopen' = (readopen /\ (p \in Writers \/ others))
     /\ freed' = (~readopen' /\ ~writeopen')
     /\ IF others THEN UNCHANGED pc ELSE Wake(Users \ mine, p, "idle")
     /\ UNCHANGED <<data, nread, nwrite, lock, todo, want, got, killed>>

\* kill, at any time.
Kill(p) ==
  /\ p \notin killed
  /\ killed' = killed \cup {p}
  /\ Wake({p}, None, "woken")
  /\ UNCHANGED <<pipe, lock, freed, open, todo, want, got>>

\* Nothing is left to do.
Gone == freed /\ UNCHANGED vars

Run(p) == Acquire(p) \/ Sleep(p)
Write(w) == WriteCopy(w) \/ WriteFull(w)
Read(r) == ReadEmpty(r) \/ ReadCopy(r)

Next ==
  \/ \E w \in Writers : WriteCall(w) \/ Write(w)
  \/ \E r \in Readers : ReadCall(r) \/ Read(r)
  \/ \E p \in Users : Run(p) \/ Close(p)
  \/ \E p \in Killable : Kill(p)
  \/ Gone

Spec == Init /\ [][Next]_vars
------------------------------------------------------------------------------
TypeOK ==
  /\ data \in [0..PIPESIZE - 1 -> Bytes]
  /\ nread \in 0..Wrap - 1 /\ nwrite \in 0..Wrap - 1 /\ Used \in 0..PIPESIZE
  /\ lock \in Users \cup {None}
  /\ open \subseteq Users /\ killed \subseteq Users
  /\ pc \in [Users -> {"idle", "call", "copy", "full", "doze", "asleep", "woken"}]
  /\ \A w \in Writers : Len(todo[w]) <= MaxCount
  /\ want \in [Readers -> 0..MaxCount]

Stream == INSTANCE ByteStream WITH
  stream <- Content, offer <- todo, Capacity <- PIPESIZE

\* pipewrite, piperead and pipeclose implement one bounded stream of bytes: no
\* byte is lost, duplicated, overtaken or made up, whoever sleeps, wakes or is
\* killed in between, and however often the counters wrap around.
StreamSpec == Stream!Spec

\* The pipe's page is freed only when no call can use it any more.
FreedUnused == TypeOK /\ (freed => open = {} /\ \A p \in Users : pc[p] = "idle")

\* "Wake process from sleep if necessary.": kill leaves no process asleep.
KilledAwake == \A p \in Users : pc[p] = "asleep" => p \notin killed
------------------------------------------------------------------------------
(* What the theorems of PipeProofs need besides TypeOK. *)

\* An end of the pipe is open while a process has its descriptor, and the page
\* is freed when both ends are closed.
EndInv ==
  /\ open \cap Writers # {} => writeopen
  /\ open \cap Readers # {} => readopen
  /\ freed => ~readopen /\ ~writeopen

\* A process in a call has its descriptor; a writer has bytes to write only in
\* a call, and a reader's call asks for a byte at least.
CallInv ==
  /\ \A p \in Users : pc[p] # "idle" => p \in open
  /\ \A w \in Writers : pc[w] = "idle" => todo[w] = <<>>
  /\ \A r \in Readers : pc[r] # "idle" => want[r] # 0

IInv ==
  /\ TypeOK
  /\ todo \in [Writers -> Seq(Bytes)]
  /\ readopen \in BOOLEAN /\ writeopen \in BOOLEAN
  /\ EndInv /\ CallInv
==============================================================================
