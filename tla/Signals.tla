------------------------------- MODULE Signals -------------------------------
(***************************************************************************)
(* Signals: signal and sigsend of proc.c, handleSignals of trap.c, which   *)
(* alltraps calls on every return from a trap, the trampoline              *)
(* implicit_sigret of trapasm.S and sys_sigreturn.  sigsend updates        *)
(* pending under ptable.lock, handleSignals without it: each update is a   *)
(* read and a write.  handler, interrupted and owed are history variables. *)
(***************************************************************************)
EXTENDS Naturals, FiniteSets

CONSTANTS
  Procs,        \* slots of the process table
  Sends,        \* pairs: who sends signals to whom
  Programs,     \* bound: the processes that make other calls, and may exit
  SIGNUM,
  Points,       \* places in a program, other than in a handler
  Handlers,     \* places where a handler starts
  NoHandler,    \* a handler that was never set
  NoProc,
  MaxSends,     \* bound: signals sent in all
  MaxBirths     \* bound: reuses of a slot in all

Sigs == 0..SIGNUM - 1

ASSUME SignalsAssumption ==
  /\ Sends \subseteq Procs \X Procs /\ Programs \subseteq Procs /\ NoProc \notin Procs
  /\ SIGNUM \in Nat \ {0} /\ MaxSends \in Nat /\ MaxBirths \in Nat
  /\ NoHandler \notin Handlers /\ Points \cap (Handlers \cup {NoHandler}) = {}

VARIABLES
  pending, signal_handlers, tf, backuptf,   \* struct proc
  insignal,    \* the processes with insignal set
  mode,        \* "user", "ret" (before handleSignals), "clear" (in it), "send", "dead"
  seen,        \* the value of pending read for an update
  sending,     \* <<target, signum>> of a process in sigsend
  lock,        \* the process that holds ptable.lock
  trampoline,  \* the processes whose copy of implicit_sigret on the stack is intact
  sends, births,
  handler,     \* the processes whose handler has been started and has not returned
  interrupted, \* the trap frame that it interrupted
  owed         \* the signals sent and not yet handled

bounds == <<sends, births>>
history == <<handler, interrupted, owed>>
vars == <<pending, insignal, signal_handlers, tf, backuptf, mode, seen, sending,
          lock, trampoline, bounds, history>>

Frames == [eip : Points \cup Handlers \cup {NoHandler}, eax : {0, 1}]

Init ==
  /\ pending = [p \in Procs |-> {}]
  /\ insignal = {}
  /\ signal_handlers = [p \in Procs |-> [n \in Sigs |-> NoHandler]]
  /\ tf \in [Procs -> [eip : Points, eax : {0}]]
  /\ backuptf = tf /\ interrupted = tf
  /\ mode = [p \in Procs |-> "user"]
  /\ seen = [p \in Procs |-> {}]
  /\ sending = [p \in Procs |-> <<NoProc, 0>>]
  /\ lock = NoProc
  /\ trampoline = {}
  /\ sends = 0 /\ births = 0
  /\ handler = {}
  /\ owed = [p \in Procs |-> {}]

Goto(p, m) == mode' = [mode EXCEPT ![p] = m]

------------------------------------------------------------------------------
(* System calls.  Each sets eax and comes to handleSignals. *)

\* Any other call, or one that is refused, made somewhere in the program or in
\* a handler.
Call(p) ==
  /\ p \in Programs /\ mode[p] = "user"
  /\ \E r \in {0, 1} : \E at \in (IF p \in handler THEN {tf[p].eip} ELSE Points) :
       tf' = [tf EXCEPT ![p] = [eip |-> at, eax |-> r]]
  /\ Goto(p, "ret")
  /\ UNCHANGED <<pending, insignal, signal_handlers, backuptf, seen, sending,
                 lock, trampoline, bounds, history>>

signal(p, n, h) ==
  /\ p \in Programs /\ mode[p] = "user" /\ n < SIGNUM
  /\ signal_handlers' = [signal_handlers EXCEPT ![p][n] = h]
  /\ tf' = [tf EXCEPT ![p].eax = IF signal_handlers[p][n] = NoHandler THEN 0 ELSE 1]
  /\ Goto(p, "ret")
  /\ UNCHANGED <<pending, insignal, backuptf, seen, sending, lock, trampoline,
                 bounds, history>>

\* The signals that sigsend accepts.
Sendable(n) == n < SIGNUM - 1

SigsendRead(p, t, n) ==
  /\ mode[p] = "user" /\ lock = NoProc /\ sends < MaxSends
  /\ Sendable(n)
  /\ lock' = p
  /\ seen' = [seen EXCEPT ![p] = pending[t]]
  /\ sending' = [sending EXCEPT ![p] = <<t, n>>]
  /\ sends' = sends + 1
  /\ Goto(p, "send")
  /\ UNCHANGED <<pending, insignal, signal_handlers, tf, backuptf, trampoline,
                 births, history>>

\* Mutant: the signal replaces the pending ones.
SigsendWriteAlone(p) ==
  LET t == sending[p][1]
      n == sending[p][2]
  IN /\ mode[p] = "send"
     /\ pending' = [pending EXCEPT ![t] = {n}]
     /\ owed' = [owed EXCEPT ![t] = @ \cup {n}]
     /\ lock' = NoProc
     /\ tf' = [tf EXCEPT ![p].eax = 0]
     /\ Goto(p, "ret")
     /\ seen' = [seen EXCEPT ![p] = {}]
     /\ sending' = [sending EXCEPT ![p] = <<NoProc, 0>>]
     /\ UNCHANGED <<insignal, signal_handlers, backuptf, trampoline, bounds,
                    handler, interrupted>>

SigsendWrite(p) ==
  LET t == sending[p][1]
      n == sending[p][2]
  IN /\ mode[p] = "send"
     /\ pending' = [pending EXCEPT ![t] = seen[p] \cup {n}]
     /\ owed' = [owed EXCEPT ![t] = @ \cup {n}]
     /\ lock' = NoProc
     /\ tf' = [tf EXCEPT ![p].eax = 0]
     /\ Goto(p, "ret")
     /\ seen' = [seen EXCEPT ![p] = {}]
     /\ sending' = [sending EXCEPT ![p] = <<NoProc, 0>>]
     /\ UNCHANGED <<insignal, signal_handlers, backuptf, trampoline, bounds,
                    handler, interrupted>>

\* The handler can return: its stack still holds the trampoline.
Returns(p) == p \in handler /\ p \in trampoline

\* Mutant: insignal stays set.
SigreturnStuck(p) ==
  /\ mode[p] = "user" /\ (p \in Programs \/ Returns(p))
  /\ tf' = [tf EXCEPT ![p] = [backuptf[p] EXCEPT !.eax = 0]]
  /\ handler' = handler \ {p}
  /\ Goto(p, "ret")
  /\ UNCHANGED <<pending, insignal, signal_handlers, backuptf, seen, sending, lock,
                 trampoline, bounds, interrupted, owed>>

\* The handler returns through the trampoline, or the program calls sigreturn by
\* itself, in a handler or not: sys_sigreturn restores the saved trap frame, and
\* syscall stores its result, 0, in eax.
Sigreturn(p) ==
  /\ mode[p] = "user" /\ (p \in Programs \/ Returns(p))
  /\ tf' = [tf EXCEPT ![p] = [backuptf[p] EXCEPT !.eax = 0]]
  /\ insignal' = insignal \ {p}
  /\ handler' = handler \ {p}
  /\ Goto(p, "ret")
  /\ UNCHANGED <<pending, signal_handlers, backuptf, seen, sending, lock,
                 trampoline, bounds, interrupted, owed>>

------------------------------------------------------------------------------
(* handleSignals *)

\* Mutant: a signal is handled inside a handler.
HandleReadNested(p) ==
  /\ mode[p] = "ret"
  /\ IF pending[p] # {}
     THEN seen' = [seen EXCEPT ![p] = pending[p]] /\ Goto(p, "clear")
     ELSE Goto(p, "user") /\ UNCHANGED seen
  /\ UNCHANGED <<pending, insignal, signal_handlers, tf, backuptf, sending, lock,
                 trampoline, bounds, history>>

HandleRead(p) ==
  /\ mode[p] = "ret"
  /\ IF pending[p] # {} /\ p \notin insignal
     THEN seen' = [seen EXCEPT ![p] = pending[p]] /\ Goto(p, "clear")
     ELSE Goto(p, "user") /\ UNCHANGED seen
  /\ UNCHANGED <<pending, insignal, signal_handlers, tf, backuptf, sending, lock,
                 trampoline, bounds, history>>

getLowestSetBit(bits) == CHOOSE n \in bits : \A m \in bits : n <= m

HandleWrite(p) ==
  LET signum == getLowestSetBit(seen[p]) IN
  /\ mode[p] = "clear"
  /\ pending' = [pending EXCEPT ![p] = seen[p] \ {signum}]
  /\ insignal' = insignal \cup {p}
  /\ backuptf' = [backuptf EXCEPT ![p] = tf[p]]
  /\ tf' = [tf EXCEPT ![p].eip = signal_handlers[p][signum]]
  /\ trampoline' = trampoline \cup {p}
  /\ handler' = handler \cup {p}
  /\ interrupted' = [interrupted EXCEPT ![p] = IF p \in handler THEN @ ELSE tf[p]]
  /\ owed' = [owed EXCEPT ![p] = @ \ {signum}]
  /\ seen' = [seen EXCEPT ![p] = {}]
  /\ Goto(p, "user")
  /\ UNCHANGED <<signal_handlers, sending, lock, bounds>>

------------------------------------------------------------------------------
\* The handler keeps a local, or saves a second register, 8 to 16 bytes below
\* its return address, where the trampoline is.
UseStack(p) ==
  /\ mode[p] = "user" /\ p \in handler
  /\ trampoline' = trampoline \ {p}
  /\ UNCHANGED <<pending, insignal, signal_handlers, tf, backuptf, mode, seen,
                 sending, lock, bounds, history>>

\* exit, and the trap that ends a process without a trampoline to return to.
Exit(p) ==
  /\ p \in Programs /\ mode[p] = "user" /\ births < MaxBirths
  /\ Goto(p, "dead")
  /\ handler' = handler \ {p}
  /\ UNCHANGED <<pending, insignal, signal_handlers, tf, backuptf, seen, sending, lock,
                 trampoline, bounds, interrupted, owed>>

\* wait, allocproc and fork: the slot becomes another process, which first returns
\* through trapret with the frame of its parent, somewhere in the program or in a
\* handler of the parent's.  None of the fields of signals is reset.
Reuse(p) ==
  /\ mode[p] = "dead"
  /\ births' = births + 1
  /\ \E at \in Points \cup Handlers : tf' = [tf EXCEPT ![p] = [eip |-> at, eax |-> 0]]
  /\ owed' = [owed EXCEPT ![p] = {}]
  /\ Goto(p, "user")
  /\ UNCHANGED <<pending, insignal, signal_handlers, backuptf, seen, sending, lock,
                 trampoline, sends, handler, interrupted>>

Handle(p) == HandleRead(p) \/ HandleWrite(p)

Next ==
  \/ \E p \in Procs : Call(p) \/ Handle(p) \/ SigsendWrite(p) \/ Sigreturn(p)
                      \/ UseStack(p) \/ Exit(p) \/ Reuse(p)
  \/ \E p \in Procs, n \in 0..SIGNUM, h \in Handlers : signal(p, n, h)
  \/ \E e \in Sends, n \in 0..SIGNUM : SigsendRead(e[1], e[2], n)

Spec == Init /\ [][Next]_vars
------------------------------------------------------------------------------
TypeOK ==
  /\ pending \in [Procs -> SUBSET Sigs] /\ seen \in [Procs -> SUBSET Sigs]
  /\ insignal \subseteq Procs /\ trampoline \subseteq Procs /\ handler \subseteq Procs
  /\ signal_handlers \in [Procs -> [Sigs -> Handlers \cup {NoHandler}]]
  /\ tf \in [Procs -> Frames] /\ backuptf \in [Procs -> Frames]
  /\ mode \in [Procs -> {"user", "ret", "clear", "send", "dead"}]
  /\ lock \in Procs \cup {NoProc}

\* After a handler the program goes on where it was interrupted, however many
\* signals arrive while the handler makes system calls of its own: the one
\* backuptf is never overwritten while it is needed.
ResumesWhereInterrupted ==
  [][\A p \in Procs : p \in handler /\ p \notin handler' /\ mode'[p] # "dead" =>
       tf'[p].eip = interrupted[p].eip]_vars

\* "When a signal is about to execute, the trap frame is saved here to be
\* restored when returned.": the interrupted call still returns its result.
FrameRestored ==
  [][\A p \in Procs : p \in handler /\ p \notin handler' /\ mode'[p] # "dead" =>
       tf'[p] = interrupted[p]]_vars

SelfOnly(p) == \A e \in Sends : e[2] = p => e[1] = p

\* pending holds the signals that were sent and not yet handled, no fewer and
\* no more: sigsend and handleSignals lose and repeat none.  This holds for the
\* first process of a slot as long as only the process itself sends it signals.
SelfSendsExact ==
  TypeOK /\ \A p \in Procs : births = 0 /\ SelfOnly(p) => pending[p] = owed[p]

\* "representing up to 32 pending singals for this process": the same, whoever
\* sends the signals.
PendingExact ==
  \A p \in Procs : mode[p] \notin {"clear", "dead"} => pending[p] = owed[p]

\* "set to 1 - when the process is handling a signal, 0 otherwise"
InsignalExact == \A p \in Procs : mode[p] # "dead" => (p \in insignal <=> p \in handler)

\* "representing up to 32 pending singals": a signal with a handler can be sent.
HandledCanBeSent ==
  \A p \in Procs, n \in Sigs : signal_handlers[p][n] # NoHandler => Sendable(n)

\* "Copy trap frame, to be reconstruced later": the handler can still return
\* through the trampoline to sigreturn, which does so.
TrampolineKept == \A p \in Procs : p \in handler => p \in trampoline
------------------------------------------------------------------------------
(* Fairness: a process runs on, and makes system calls again and again; a   *)
(* handler that leaves the trampoline alone returns.                        *)
Fairness ==
  \A p \in Procs : /\ WF_vars(Handle(p)) /\ WF_vars(SigsendWrite(p))
                   /\ WF_vars(Call(p)) /\ SF_vars(Returns(p) /\ Sigreturn(p))

LiveSpec == Spec /\ Fairness

\* A pending signal of a process that makes system calls is handled, unless the
\* process ends, runs a handler that cannot return, or took over a used slot,
\* whose insignal may be left set.
PendingHandled ==
  \A p \in Programs, n \in Sigs :
    n \in pending[p] ~> \/ n \notin pending[p] \/ mode[p] = "dead"
                        \/ (p \in handler /\ p \notin trampoline) \/ births > 0
------------------------------------------------------------------------------
(* What the theorems of SignalsProofs need. *)

CallInv ==
  /\ interrupted \in [Procs -> Frames] /\ owed \in [Procs -> SUBSET Sigs] /\ births \in Nat
  /\ sending \in [Procs -> (Procs \cup {NoProc}) \X Nat]
  /\ \A p \in Procs :
       mode[p] = "send" => <<p, sending[p][1]>> \in Sends /\ Sendable(sending[p][2])

\* insignal keeps handleSignals out while backuptf is needed.
FrameInv ==
  \A p \in Procs : /\ p \in handler => p \in insignal /\ backuptf[p] = interrupted[p]
                   /\ mode[p] = "clear" => p \notin insignal /\ seen[p] # {}

\* What a process reads for an update of its own pending signals stays true.
SelfInv ==
  \A p \in Procs : births = 0 /\ SelfOnly(p) =>
    /\ pending[p] = owed[p]
    /\ mode[p] = "clear" \/ (mode[p] = "send" /\ sending[p][1] = p) => seen[p] = pending[p]

IInv == TypeOK /\ CallInv /\ FrameInv /\ SelfInv
==============================================================================
