----------------------------- MODULE ByteStream -----------------------------
(***************************************************************************)
(* What a pipe promises: one bounded stream of bytes.  A writer moves the  *)
(* front of what it still has to write to the end of the stream, a reader  *)
(* takes the front of the stream, and end of file is reported only for an  *)
(* empty stream without a write end.                                       *)
(***************************************************************************)
EXTENDS Naturals, Sequences

CONSTANTS Writers, Readers, Capacity, Eof, Nothing

VARIABLES
  stream,
  offer,      \* offer[w]: what writer w still has to write
  got,        \* got[r]: what the last read of r returned
  writeopen

vars == <<stream, offer, got, writeopen>>

Init == /\ stream = <<>>
        /\ offer = [w \in Writers |-> <<>>]
        /\ got = [r \in Readers |-> Nothing]
        /\ writeopen = TRUE

Front(s, k) == SubSeq(s, 1, k)
Rest(s, k) == SubSeq(s, k + 1, Len(s))

\* A write is called; of a write given up, the rest is dropped.
Offer(w) == /\ offer[w] = <<>>
            /\ \A v \in Writers \ {w} : offer'[v] = offer[v]
            /\ UNCHANGED <<stream, got, writeopen>>

GiveUp(w) == offer' = [offer EXCEPT ![w] = <<>>] /\ UNCHANGED <<stream, got, writeopen>>

Put(w) == \E k \in 1..Len(offer[w]) :
  /\ Len(stream) + k <= Capacity
  /\ stream' = stream \o Front(offer[w], k)
  /\ offer' = [offer EXCEPT ![w] = Rest(@, k)]
  /\ UNCHANGED <<got, writeopen>>

Get(r) == \E k \in 1..Len(stream) :
  /\ got' = [got EXCEPT ![r] = Front(stream, k)]
  /\ stream' = Rest(stream, k)
  /\ UNCHANGED <<offer, writeopen>>

AtEof(r) == /\ stream = <<>> /\ ~writeopen
            /\ got' = [got EXCEPT ![r] = Eof]
            /\ UNCHANGED <<stream, offer, writeopen>>

Close == writeopen /\ writeopen' = FALSE /\ UNCHANGED <<stream, offer, got>>

\* A reader starts a new read, or gives one up.
Forget(r) == got' = [got EXCEPT ![r] = Nothing] /\ UNCHANGED <<stream, offer, writeopen>>

Next == \/ \E w \in Writers : Offer(w) \/ Put(w) \/ GiveUp(w)
        \/ \E r \in Readers : Get(r) \/ AtEof(r) \/ Forget(r)
        \/ Close

Spec == Init /\ [][Next]_vars
==============================================================================
