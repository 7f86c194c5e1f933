------------------------------- MODULE RRQueue -------------------------------
(***************************************************************************)
(* The run queue of the FRR, FCFS and PRS schedulers of proc.c: a doubly   *)
(* linked FIFO threaded through struct proc (rrnext, rrprev), and the      *)
(* lottery drawn over it.  The C code changes the links in place; here     *)
(* each function maps a queue to a queue.  A queue is a record with fields *)
(* first, last, rrnext and rrprev; Nil is the null pointer.                *)
(***************************************************************************)
EXTENDS Integers, Sequences

CONSTANTS
  NPROC,           \* processes are 1..NPROC
  POLICY,          \* SCHEDFLAG: "DEFAULT", "FRR", "FCFS" or "PRS"
  EXE_TICKETS,
  FIFO_DIFFERECE

ASSUME RRQueueAssumption ==
  /\ NPROC \in Nat \ {0} /\ EXE_TICKETS \in Nat /\ FIFO_DIFFERECE \in Nat
  /\ POLICY \in {"DEFAULT", "FRR", "FCFS", "PRS"}

Slots == 1..NPROC
Nil == 0

EmptyQueue == [first |-> Nil, last |-> Nil,
               rrnext |-> [s \in Slots |-> Nil], rrprev |-> [s \in Slots |-> Nil]]

pushProcToRRqueue(q, p) ==
  [first  |-> IF q.first = Nil THEN p ELSE q.first,
   last   |-> p,
   rrnext |-> IF q.last = Nil THEN q.rrnext ELSE [q.rrnext EXCEPT ![q.last] = p],
   rrprev |-> IF q.last = Nil THEN q.rrprev ELSE [q.rrprev EXCEPT ![p] = q.last]]

removeProcFromRRqueue(q, p) ==
  [first  |-> IF p = q.first THEN q.rrnext[p] ELSE q.first,
   last   |-> IF p = q.last THEN q.rrprev[p] ELSE q.last,
   rrnext |-> [s \in Slots |-> IF s = p THEN Nil
                               ELSE IF s = q.rrprev[p] THEN q.rrnext[p] ELSE q.rrnext[s]],
   rrprev |-> [s \in Slots |-> IF s = p THEN Nil
                               ELSE IF s = q.rrnext[p] THEN q.rrprev[p] ELSE q.rrprev[s]]]

\* The processes met from p on along a link, at most NPROC of them.
Along(p, link) ==
  LET at[i \in 1..NPROC] == IF i = 1 THEN p
                            ELSE IF at[i - 1] = Nil THEN Nil ELSE link[at[i - 1]]
  IN SelectSeq([i \in 1..NPROC |-> at[i]], LAMBDA s : s # Nil)

Fifo(q) == Along(q.first, q.rrnext)
Members(q) == {Fifo(q)[i] : i \in 1..Len(Fifo(q))}

------------------------------------------------------------------------------
(* deliverTicketsToFIFOProcs.  d holds the queue, the loop pointer p and   *)
(* the tickets given so far.                                               *)

Give(d, n) == [d EXCEPT !.firstTicketNum[d.p] = d.totalTickets + 1,
                        !.tickets[d.p] = n,
                        !.totalTickets = @ + n]

\* A step of a loop that drops processes that are not RUNNABLE.
Drop(d) == [d EXCEPT !.q = removeProcFromRRqueue(d.q, d.p), !.p = d.q.rrprev[d.p]]
Back(d) == [d EXCEPT !.p = d.q.rrprev[d.p]]

Iterate(d, Body(_)) == LET it[i \in 0..NPROC] == IF i = 0 THEN d ELSE Body(it[i - 1]) IN it[NPROC]

\* The tickets of the first of the FIFO when the others got others in all.
FifoShare(others) == EXE_TICKETS + FIFO_DIFFERECE * others

\* The tickets of a process when low processes have priority 0 and mid have 1.
PrsShare(priority, low, mid) ==
  EXE_TICKETS + (IF priority <= 0 THEN 0
                 ELSE IF priority = 1 THEN EXE_TICKETS * low * FIFO_DIFFERECE
                 ELSE EXE_TICKETS * (low + mid * FIFO_DIFFERECE) * FIFO_DIFFERECE)

DeliverFifo(d, state) ==
  LET body(e) == IF e.p = e.q.first THEN e
                 ELSE IF state[e.p] # "RUNNABLE" THEN Drop(e)
                 ELSE Back(Give(e, EXE_TICKETS))
      e == Iterate(d, body)
  IN Give(e, FifoShare(e.totalTickets))

DeliverPrs(d, state, priority) ==
  LET drop(e) == IF e.p = Nil THEN e ELSE IF state[e.p] # "RUNNABLE" THEN Drop(e) ELSE Back(e)
      kept == Iterate(d, drop).q
      count(P(_)) == Len(SelectSeq(Fifo(kept), P))
      low == count(LAMBDA s : priority[s] <= 0)
      mid == count(LAMBDA s : priority[s] = 1)
      body(e) == IF e.p = Nil THEN e ELSE Back(Give(e, PrsShare(priority[e.p], low, mid)))
  IN Iterate([d EXCEPT !.q = kept, !.p = kept.last], body)

deliverTicketsToFIFOProcs(q, state, priority) ==
  LET d == [q |-> q, p |-> q.last, totalTickets |-> 0,
            firstTicketNum |-> [s \in Slots |-> 0], tickets |-> [s \in Slots |-> 0]]
  IN IF q.last = Nil THEN d   \* an empty queue
     ELSE IF POLICY = "PRS" THEN DeliverPrs(d, state, priority) ELSE DeliverFifo(d, state)

\* The values of xorshift128() % totalTickets: C's remainder has the sign of
\* the random number.
Rolls(d) == (1 - d.totalTickets)..(d.totalTickets - 1)

\* Mutant: the first ticket of a process does not count.
pickProcessOffByOne(d, ticket) ==
  LET owns(s) == /\ ticket > d.firstTicketNum[s]
                 /\ ticket <= d.tickets[s] + d.firstTicketNum[s] - 1
      found == SelectSeq(Fifo(d.q), owns)
  IN IF d.totalTickets > 0 /\ found # <<>> THEN Head(found) ELSE Nil

\* pickProcess, for one roll.
pickProcess(d, ticket) ==
  LET owns(s) == /\ ticket >= d.firstTicketNum[s]
                 /\ ticket <= d.tickets[s] + d.firstTicketNum[s] - 1
      found == SelectSeq(Fifo(d.q), owns)
  IN IF d.totalTickets > 0 /\ found # <<>> THEN Head(found) ELSE Nil

------------------------------------------------------------------------------
\* The queue is one chain: read backwards it is the same, and a process that
\* is not queued has no links.
WellLinked(q) ==
  LET f == Fifo(q)
      b == Along(q.last, q.rrprev)
  IN /\ Len(b) = Len(f) /\ \A i \in 1..Len(f) : b[i] = f[Len(f) + 1 - i]
     /\ \A i, j \in 1..Len(f) : f[i] = f[j] => i = j
     /\ \A s \in Slots \ Members(q) : q.rrnext[s] = Nil /\ q.rrprev[s] = Nil
==============================================================================
