------------------------------- MODULE Lottery -------------------------------
(***************************************************************************)
(* The run queue under its callers: a process is pushed when it becomes    *)
(* RUNNABLE, unless sigsend made it so; the scheduler delivers tickets,    *)
(* rolls one and removes the winner; sys_priority changes a priority.      *)
(***************************************************************************)
EXTENDS RRQueue, FiniteSets

CONSTANT Priorities

VARIABLES q, state, priority,
  signalled   \* history: the processes that sigsend made RUNNABLE

vars == <<q, state, priority, signalled>>

Init ==
  /\ q = EmptyQueue
  /\ state = [s \in Slots |-> "SLEEPING"]
  /\ priority \in [Slots -> Priorities]
  /\ signalled = {}

\* wakeup1, fork, yield, kill: RUNNABLE and pushed.
Ready(s) ==
  /\ state[s] # "RUNNABLE"
  /\ state' = [state EXCEPT ![s] = "RUNNABLE"]
  /\ q' = pushProcToRRqueue(q, s)
  /\ UNCHANGED <<priority, signalled>>

Sleep(s) ==
  /\ state[s] = "RUNNING"
  /\ state' = [state EXCEPT ![s] = "SLEEPING"]
  /\ UNCHANGED <<q, priority, signalled>>

\* sigsend wakes a sleeper and does not push it.
sigsend(s) ==
  /\ state[s] = "SLEEPING"
  /\ state' = [state EXCEPT ![s] = "RUNNABLE"]
  /\ signalled' = signalled \cup {s}
  /\ UNCHANGED <<q, priority>>

\* The scheduler's pass over the queue.
Schedule ==
  LET d == deliverTicketsToFIFOProcs(q, state, priority) IN
  \E ticket \in Rolls(d) \cup {0} :
    LET s == pickProcess(d, ticket) IN
    /\ q' = IF s = Nil THEN d.q ELSE removeProcFromRRqueue(d.q, s)
    /\ state' = IF s = Nil THEN state ELSE [state EXCEPT ![s] = "RUNNING"]
    /\ UNCHANGED <<priority, signalled>>

sys_priority(s) ==
  /\ state[s] = "RUNNING"
  /\ \E n \in Priorities : priority' = [priority EXCEPT ![s] = n]
  /\ UNCHANGED <<q, state, signalled>>

Next == Schedule \/ \E s \in Slots : Ready(s) \/ Sleep(s) \/ sigsend(s) \/ sys_priority(s)

Spec == Init /\ [][Next]_vars
------------------------------------------------------------------------------
Delivered == deliverTicketsToFIFOProcs(q, state, priority)
Queued == {s \in Slots : state[s] = "RUNNABLE"} \ signalled

\* Except for the processes that sigsend woke, which are not in the queue, no
\* RUNNABLE process is shut out of the lottery, whatever its place in the queue,
\* its priority and those of the others: the links form one chain of these
\* processes, each of the tickets 1..totalTickets is the ticket of one of them,
\* and pickProcess can pick every one of them.
EveryoneCanWin ==
  /\ WellLinked(q) /\ Members(q) = Queued
  /\ \A t \in 1..Delivered.totalTickets :
       Cardinality({s \in Queued : t \in Delivered.firstTicketNum[s] ..
                      (Delivered.firstTicketNum[s] + Delivered.tickets[s] - 1)}) = 1
  /\ \A s \in Queued : \E ticket \in Rolls(Delivered) : pickProcess(Delivered, ticket) = s

\* "returns the process which holds that ticket, or 0 if FIFO is empty"
PickFailsOnlyWhenEmpty ==
  Queued # {} => \A ticket \in Rolls(Delivered) : pickProcess(Delivered, ticket) # Nil
==============================================================================
