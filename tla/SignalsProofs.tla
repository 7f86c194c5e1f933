---------------------------- MODULE SignalsProofs ----------------------------
(***************************************************************************)
(* Theorems about Signals, for any processes, signals and handlers: a      *)
(* program goes on where a handler interrupted it, and a process that      *)
(* signals itself neither loses nor repeats a signal.                      *)
(***************************************************************************)
EXTENDS Signals, WellFoundedInduction, TLAPS

\* What the proofs use of the constants.
LEMMA Consts ==
  /\ Sends \subseteq Procs \X Procs /\ NoProc \notin Procs /\ SIGNUM \in Nat \ {0}
  /\ Sigs \subseteq Nat
BY SignalsAssumption DEF Sigs

\* getLowestSetBit finds a pending signal when there is one.
LEMMA LowestSetBit ==
  ASSUME NEW S \in SUBSET Sigs, S # {}
  PROVE  getLowestSetBit(S) \in S
<1>1. S \subseteq Nat  BY Zenon, Consts
<1>2. PICK x \in S : \A y \in S : ~(<<y, x>> \in OpToRel(<, Nat))
  BY Zenon, <1>1, WFMin, NatLessThanWellFounded
<1>3. \A y \in S : x <= y
  <2>. SUFFICES ASSUME NEW y \in S, y < x  PROVE FALSE
    BY <1>1
  <2>1. <<y, x>> \in OpToRel(<, Nat)  BY Zenon, <1>1 DEF OpToRel
  <2>. QED  BY Zenon, <1>2, <2>1
<1>. QED  BY Zenon, <1>3 DEF getLowestSetBit

------------------------------------------------------------------------------
(* Types.  A step of p changes the state of p only, but for sigsend, which *)
(* also changes the pending signals of its target.                         *)

Modes == {"user", "ret", "clear", "send", "dead"}
Places == Points \cup Handlers \cup {NoHandler}

Types ==
  /\ pending \in [Procs -> SUBSET Sigs] /\ seen \in [Procs -> SUBSET Sigs]
  /\ insignal \subseteq Procs /\ trampoline \subseteq Procs /\ handler \subseteq Procs
  /\ signal_handlers \in [Procs -> [Sigs -> Handlers \cup {NoHandler}]]
  /\ tf \in [Procs -> Frames] /\ backuptf \in [Procs -> Frames]
  /\ mode \in [Procs -> Modes] /\ lock \in Procs \cup {NoProc}
  /\ interrupted \in [Procs -> Frames] /\ owed \in [Procs -> SUBSET Sigs] /\ births \in Nat
  /\ sending \in [Procs -> (Procs \cup {NoProc}) \X Nat]

SendInv ==
  \A p \in Procs : mode[p] = "send" => <<p, sending[p][1]>> \in Sends /\ Sendable(sending[p][2])

Inv == Types /\ SendInv /\ FrameInv /\ SelfInv

\* Inv is the invariant of Signals, spelled out for the provers.
LEMMA InvIs == Inv <=> IInv
BY Zenon DEF Inv, IInv, Types, SendInv, TypeOK, CallInv, Modes

\* No process has a signal at the start.
LEMMA SignalsInit == Init => Inv
<1>. SUFFICES ASSUME Init  PROVE Inv
  BY Zenon
<1>1. [eip : Points, eax : {0}] \subseteq Frames  BY Zenon DEF Frames
<1>2. tf \in [Procs -> Frames]  BY Zenon, <1>1 DEF Init
<1>3. <<NoProc, 0>> \in (Procs \cup {NoProc}) \X Nat  BY Zenon
<1>4. Types  BY Zenon, <1>2, <1>3 DEF Init, Types, Modes
<1>5. SendInv /\ FrameInv /\ SelfInv  BY Zenon DEF Init, SendInv, FrameInv, SelfInv
<1>. QED  BY Zenon, <1>4, <1>5 DEF Inv

\* A change of the trap frame, of its place or of its result alone.
LEMMA Frame ==
  ASSUME NEW f \in [Procs -> Frames], NEW p \in Procs, NEW r \in {0, 1}, NEW a \in Places
  PROVE  /\ [eip |-> a, eax |-> r] \in Frames
         /\ [f EXCEPT ![p] = [eip |-> a, eax |-> r]] \in [Procs -> Frames]
         /\ [f EXCEPT ![p].eax = r] \in [Procs -> Frames]
         /\ [f EXCEPT ![p].eip = a] \in [Procs -> Frames]
         /\ [f[p] EXCEPT !.eax = r] \in Frames
<1>1. f[p] \in Frames  BY Zenon
<1>2. [f[p] EXCEPT !.eax = r] \in Frames /\ [f[p] EXCEPT !.eip = a] \in Frames
  BY Zenon, <1>1 DEF Frames, Places
<1>3. [eip |-> a, eax |-> r] \in Frames  BY Zenon DEF Frames, Places
<1>. QED  BY Zenon, <1>2, <1>3

\* A step that leaves the signals of every process alone, and its saved frames.
LEMMA Quiet ==
  ASSUME Inv, NEW p \in Procs, mode' \in [Procs -> Modes], tf' \in [Procs -> Frames],
         signal_handlers' \in [Procs -> [Sigs -> Handlers \cup {NoHandler}]],
         mode'[p] \notin {"send", "clear"}, \A q \in Procs \ {p} : mode'[q] = mode[q],
         trampoline' \subseteq Procs, handler' \subseteq handler, births' = births,
         UNCHANGED <<pending, insignal, backuptf, seen, sending, lock, interrupted, owed>>
  PROVE  Inv'
<1>1. Types'  BY Zenon DEF Inv, Types
<1>2. SendInv'  BY Zenon DEF Inv, SendInv, Sendable
<1>3. FrameInv'  BY Zenon DEF Inv, FrameInv
<1>4. SelfInv'  BY Zenon DEF Inv, SelfInv, SelfOnly
<1>. QED  BY Zenon, <1>1, <1>2, <1>3, <1>4 DEF Inv

------------------------------------------------------------------------------
(* The steps. *)

\* A system call that has nothing to do with signals.
LEMMA CallStep == ASSUME Inv, NEW p \in Procs, Call(p)  PROVE Inv'
<1>1. PICK r \in {0, 1} : \E at \in (IF p \in handler THEN {tf[p].eip} ELSE Points) :
        tf' = [tf EXCEPT ![p] = [eip |-> at, eax |-> r]]
  BY Zenon DEF Call
<1>2. PICK at \in (IF p \in handler THEN {tf[p].eip} ELSE Points) :
        tf' = [tf EXCEPT ![p] = [eip |-> at, eax |-> r]]
  BY Zenon, <1>1
<1>3. at \in Places  BY Zenon DEF Inv, Types, Frames, Places
<1>4. tf' \in [Procs -> Frames]  BY Zenon, <1>2, <1>3, Frame DEF Inv, Types
<1>. QED  BY Zenon, <1>4, Quiet DEF Call, Goto, bounds, history, Inv, Types, Modes

\* signal installs a handler.
LEMMA SignalStep ==
  ASSUME Inv, NEW p \in Procs, NEW n \in 0..SIGNUM, NEW h \in Handlers, signal(p, n, h)
  PROVE  Inv'
<1>1. PICK r \in {0, 1} : tf' = [tf EXCEPT ![p].eax = r]  BY Zenon DEF signal
<1>2. NoHandler \in Places  BY Zenon DEF Places
<1>3. tf' \in [Procs -> Frames]  BY Zenon, <1>1, <1>2, Frame DEF Inv, Types
<1>4. n \in Sigs /\ signal_handlers' = [signal_handlers EXCEPT ![p][n] = h]
  BY Consts DEF signal, Sigs
<1>5. signal_handlers' \in [Procs -> [Sigs -> Handlers \cup {NoHandler}]]
  <2>1. [signal_handlers[p] EXCEPT ![n] = h] \in [Sigs -> Handlers \cup {NoHandler}]
    BY Zenon, <1>4 DEF Inv, Types
  <2>. QED  BY Zenon, <1>4, <2>1 DEF Inv, Types
<1>. QED  BY Zenon, <1>3, <1>5, Quiet DEF signal, Goto, bounds, history, Inv, Types, Modes

\* sigsend reads pending, under ptable.lock.
LEMMA SigsendReadStep ==
  ASSUME Inv, NEW p \in Procs, NEW t \in Procs, <<p, t>> \in Sends, NEW n \in 0..SIGNUM,
         SigsendRead(p, t, n)
  PROVE  Inv'
<1>1. /\ UNCHANGED <<pending, insignal, signal_handlers, tf, backuptf, trampoline, births,
                     handler, interrupted, owed>>
      /\ lock' = p /\ Sendable(n) /\ mode[p] = "user"
  BY Zenon DEF SigsendRead, history
<1>2. /\ seen' = [seen EXCEPT ![p] = pending[t]] /\ sending' = [sending EXCEPT ![p] = <<t, n>>]
      /\ mode' = [mode EXCEPT ![p] = "send"]
  BY Zenon DEF SigsendRead, Goto
<1>3. /\ seen \in [Procs -> SUBSET Sigs] /\ mode \in [Procs -> Modes]
      /\ sending \in [Procs -> (Procs \cup {NoProc}) \X Nat]
  BY Zenon DEF Inv, Types
<1>4. /\ seen'[p] = pending[t] /\ sending'[p] = <<t, n>> /\ mode'[p] = "send"
      /\ \A q \in Procs \ {p} : seen'[q] = seen[q] /\ sending'[q] = sending[q] /\ mode'[q] = mode[q]
  BY Zenon, <1>2, <1>3
<1>5. Types'
  <2>1. <<t, n>> \in (Procs \cup {NoProc}) \X Nat  BY Consts
  <2>2. pending[t] \in SUBSET Sigs  BY Zenon DEF Inv, Types
  <2>. QED  BY Zenon, <1>1, <1>2, <2>1, <2>2 DEF Inv, Types, Modes
<1>6. SendInv'  BY <1>1, <1>4 DEF Inv, SendInv, Sendable
<1>7. FrameInv'  BY Zenon, <1>1, <1>4 DEF Inv, FrameInv
<1>8. SelfInv'  BY <1>1, <1>4 DEF Inv, SelfInv, SelfOnly
<1>. QED  BY Zenon, <1>5, <1>6, <1>7, <1>8 DEF Inv

\* sigsend writes pending, with the new signal added to what it read.
LEMMA SigsendWriteStep == ASSUME Inv, NEW p \in Procs, SigsendWrite(p)  PROVE Inv'
<1>1. PICK t \in Procs, n \in Sigs : sending[p] = <<t, n>> /\ <<p, t>> \in Sends
  <2>1. mode[p] = "send" /\ sending[p] \in (Procs \cup {NoProc}) \X Nat
    BY Zenon DEF SigsendWrite, Inv, Types
  <2>2. <<p, sending[p][1]>> \in Sends /\ sending[p][2] < SIGNUM - 1
    BY Zenon, <2>1 DEF Inv, SendInv, Sendable
  <2>3. sending[p][1] \in Procs /\ sending[p][2] \in Sigs  BY <2>1, <2>2, Consts DEF Sigs
  <2>. QED  BY <2>1, <2>2, <2>3
<1>2. /\ UNCHANGED <<insignal, signal_handlers, backuptf, trampoline, births, handler, interrupted>>
      /\ lock' = NoProc /\ mode[p] = "send"
  BY Zenon DEF SigsendWrite, bounds
<1>3. /\ pending' = [pending EXCEPT ![t] = seen[p] \cup {n}]
      /\ owed' = [owed EXCEPT ![t] = owed[t] \cup {n}]
      /\ tf' = [tf EXCEPT ![p].eax = 0] /\ mode' = [mode EXCEPT ![p] = "ret"]
      /\ seen' = [seen EXCEPT ![p] = {}] /\ sending' = [sending EXCEPT ![p] = <<NoProc, 0>>]
  BY <1>1 DEF SigsendWrite, Goto
<1>4. /\ seen \in [Procs -> SUBSET Sigs] /\ mode \in [Procs -> Modes]
      /\ sending \in [Procs -> (Procs \cup {NoProc}) \X Nat]
      /\ pending \in [Procs -> SUBSET Sigs] /\ owed \in [Procs -> SUBSET Sigs]
  BY Zenon DEF Inv, Types
<1>5. /\ mode'[p] = "ret"
      /\ \A q \in Procs \ {p} : seen'[q] = seen[q] /\ sending'[q] = sending[q] /\ mode'[q] = mode[q]
      /\ \A q \in Procs \ {t} : pending'[q] = pending[q] /\ owed'[q] = owed[q]
      /\ pending'[t] = seen[p] \cup {n} /\ owed'[t] = owed[t] \cup {n}
  BY Zenon, <1>3, <1>4
<1>6. Types'
  <2>1. NoHandler \in Places  BY Zenon DEF Places
  <2>2. tf' \in [Procs -> Frames]  BY Zenon, <1>3, <2>1, Frame DEF Inv, Types
  <2>3. pending' \in [Procs -> SUBSET Sigs] /\ owed' \in [Procs -> SUBSET Sigs]  BY Zenon, <1>3, <1>4
  <2>4. seen' \in [Procs -> SUBSET Sigs] /\ sending' \in [Procs -> (Procs \cup {NoProc}) \X Nat]
        /\ mode' \in [Procs -> Modes]
    BY Zenon, <1>3, <1>4 DEF Modes
  <2>. QED  BY Zenon, <1>2, <2>2, <2>3, <2>4 DEF Inv, Types
<1>7. SendInv'  BY Zenon, <1>2, <1>5 DEF Inv, SendInv, Sendable
<1>8. FrameInv'  BY Zenon, <1>2, <1>5 DEF Inv, FrameInv
<1>9. SelfInv'
  <2>. SUFFICES ASSUME NEW q \in Procs, births = 0, SelfOnly(q)
                PROVE  /\ pending'[q] = owed'[q]
                       /\ mode'[q] = "clear" \/ (mode'[q] = "send" /\ sending'[q][1] = q) => seen'[q] = pending'[q]
    BY Zenon, <1>2 DEF SelfInv, SelfOnly
  <2>1. q = t => p = t  BY Zenon, <1>1 DEF SelfOnly
  <2>2. /\ pending[q] = owed[q]
        /\ mode[q] = "clear" \/ (mode[q] = "send" /\ sending[q][1] = q) => seen[q] = pending[q]
    BY Zenon DEF Inv, SelfInv
  <2>3. CASE q = t
    <3>1. q = p /\ sending[q][1] = q  BY <1>1, <2>1, <2>3
    <3>2. seen[p] = owed[t]  BY Zenon, <1>2, <2>2, <2>3, <3>1
    <3>. QED  BY Zenon, <1>5, <2>3, <3>1, <3>2
  <2>4. CASE q # t
    <3>1. pending'[q] = pending[q] /\ owed'[q] = owed[q]  BY Zenon, <1>5, <2>4
    <3>2. CASE q = p  BY Zenon, <1>5, <2>2, <3>1, <3>2
    <3>3. CASE q # p  BY Zenon, <1>5, <2>2, <3>1, <3>3
    <3>. QED  BY Zenon, <3>2, <3>3
  <2>. QED  BY Zenon, <2>3, <2>4
<1>. QED  BY Zenon, <1>6, <1>7, <1>8, <1>9 DEF Inv

\* sigreturn restores backuptf.
LEMMA SigreturnStep == ASSUME Inv, NEW p \in Procs, Sigreturn(p)  PROVE Inv'
<1>1. /\ UNCHANGED <<pending, signal_handlers, backuptf, seen, sending, lock, trampoline, births,
                     interrupted, owed>>
      /\ insignal' = insignal \ {p} /\ handler' = handler \ {p}
      /\ mode' = [mode EXCEPT ![p] = "ret"]
      /\ tf' = [tf EXCEPT ![p] = [backuptf[p] EXCEPT !.eax = 0]]
  BY Zenon DEF Sigreturn, Goto, bounds
<1>2. mode'[p] = "ret" /\ \A q \in Procs \ {p} : mode'[q] = mode[q]  BY Zenon, <1>1 DEF Inv, Types
<1>3. Types'
  <2>1. NoHandler \in Places  BY Zenon DEF Places
  <2>2. [backuptf[p] EXCEPT !.eax = 0] \in Frames  BY Zenon, <2>1, Frame DEF Inv, Types
  <2>. QED  BY Zenon, <1>1, <2>2 DEF Inv, Types, Modes
<1>4. SendInv'  BY Zenon, <1>1, <1>2 DEF Inv, SendInv, Sendable
<1>5. FrameInv'  BY Zenon, <1>1, <1>2 DEF Inv, FrameInv
<1>6. SelfInv'  BY Zenon, <1>1, <1>2 DEF Inv, SelfInv, SelfOnly
<1>. QED  BY Zenon, <1>3, <1>4, <1>5, <1>6 DEF Inv

\* handleSignals reads pending and picks a signal.
LEMMA HandleReadStep == ASSUME Inv, NEW p \in Procs, HandleRead(p)  PROVE Inv'
<1>1. UNCHANGED <<pending, insignal, signal_handlers, tf, backuptf, sending, lock, trampoline, births,
                  handler, interrupted, owed>>
  BY Zenon DEF HandleRead, bounds, history
<1>2. CASE pending[p] # {} /\ p \notin insignal
  <2>1. seen' = [seen EXCEPT ![p] = pending[p]] /\ mode' = [mode EXCEPT ![p] = "clear"]
    BY Zenon, <1>2 DEF HandleRead, Goto
  <2>2. /\ seen'[p] = pending[p] /\ mode'[p] = "clear"
        /\ \A q \in Procs \ {p} : seen'[q] = seen[q] /\ mode'[q] = mode[q]
    BY Zenon, <2>1 DEF Inv, Types
  <2>3. Types'
    <3>1. pending[p] \in SUBSET Sigs  BY Zenon DEF Inv, Types
    <3>. QED  BY Zenon, <1>1, <2>1, <3>1 DEF Inv, Types, Modes
  <2>4. SendInv'  BY Zenon, <1>1, <2>2 DEF Inv, SendInv, Sendable
  <2>5. FrameInv'  BY Zenon, <1>1, <1>2, <2>2 DEF Inv, FrameInv
  <2>6. SelfInv'  BY Zenon, <1>1, <2>2 DEF Inv, SelfInv, SelfOnly
  <2>. QED  BY Zenon, <2>3, <2>4, <2>5, <2>6 DEF Inv
<1>3. CASE ~(pending[p] # {} /\ p \notin insignal)
  <2>1. UNCHANGED seen /\ mode' = [mode EXCEPT ![p] = "user"]  BY Zenon, <1>3 DEF HandleRead, Goto
  <2>. QED  BY Zenon, <1>1, <2>1, Quiet DEF Inv, Types, Modes
<1>. QED  BY Zenon, <1>2, <1>3

\* handleSignals writes pending and saves the frame.
LEMMA HandleWriteStep == ASSUME Inv, NEW p \in Procs, HandleWrite(p)  PROVE Inv'
<1>1. PICK n \in Sigs : n = getLowestSetBit(seen[p]) /\ n \in seen[p]
  <2>1. mode[p] = "clear" /\ seen[p] \in SUBSET Sigs  BY Zenon DEF HandleWrite, Inv, Types
  <2>2. seen[p] # {}  BY Zenon, <2>1 DEF Inv, FrameInv
  <2>. QED  BY Zenon, <2>1, <2>2, LowestSetBit
<1>2. p \notin handler  BY Zenon DEF HandleWrite, Inv, FrameInv
<1>3. /\ UNCHANGED <<signal_handlers, sending, lock, births>> /\ mode[p] = "clear"
      /\ insignal' = insignal \cup {p} /\ handler' = handler \cup {p} /\ trampoline' = trampoline \cup {p}
  BY Zenon DEF HandleWrite, bounds
<1>4. /\ pending' = [pending EXCEPT ![p] = seen[p] \ {n}]
      /\ owed' = [owed EXCEPT ![p] = owed[p] \ {n}]
      /\ seen' = [seen EXCEPT ![p] = {}] /\ mode' = [mode EXCEPT ![p] = "user"]
  BY Zenon, <1>1 DEF HandleWrite, Goto
<1>5. /\ backuptf' = [backuptf EXCEPT ![p] = tf[p]]
      /\ interrupted' = [interrupted EXCEPT ![p] = tf[p]]
      /\ tf' = [tf EXCEPT ![p].eip = signal_handlers[p][n]]
  BY Zenon, <1>1, <1>2 DEF HandleWrite
<1>6. /\ pending'[p] = seen[p] \ {n} /\ owed'[p] = owed[p] \ {n} /\ mode'[p] = "user"
      /\ backuptf'[p] = tf[p] /\ interrupted'[p] = tf[p]
      /\ \A q \in Procs \ {p} : /\ pending'[q] = pending[q] /\ owed'[q] = owed[q] /\ seen'[q] = seen[q]
                                /\ backuptf'[q] = backuptf[q] /\ interrupted'[q] = interrupted[q]
                                /\ mode'[q] = mode[q]
  BY Zenon, <1>4, <1>5 DEF Inv, Types
<1>7. Types'
  <2>1. signal_handlers[p][n] \in Places  BY DEF Inv, Types, Places
  <2>2. tf' \in [Procs -> Frames]  BY Zenon, <1>5, <2>1, Frame DEF Inv, Types
  <2>3. backuptf' \in [Procs -> Frames] /\ interrupted' \in [Procs -> Frames]
    BY Zenon, <1>5 DEF Inv, Types
  <2>4. pending' \in [Procs -> SUBSET Sigs] /\ owed' \in [Procs -> SUBSET Sigs]
        /\ seen' \in [Procs -> SUBSET Sigs] /\ mode' \in [Procs -> Modes]
    BY Zenon, <1>4 DEF Inv, Types, Modes
  <2>. QED  BY Zenon, <1>3, <2>2, <2>3, <2>4 DEF Inv, Types
<1>8. SendInv'  BY Zenon, <1>3, <1>6 DEF Inv, SendInv, Sendable
<1>9. FrameInv'  BY Zenon, <1>3, <1>6 DEF Inv, FrameInv
<1>10. SelfInv'
  <2>. SUFFICES ASSUME NEW q \in Procs, births = 0, SelfOnly(q)
                PROVE  /\ pending'[q] = owed'[q]
                       /\ mode'[q] = "clear" \/ (mode'[q] = "send" /\ sending'[q][1] = q) => seen'[q] = pending'[q]
    BY Zenon, <1>3 DEF SelfInv, SelfOnly
  <2>1. /\ pending[q] = owed[q]
        /\ mode[q] = "clear" \/ (mode[q] = "send" /\ sending[q][1] = q) => seen[q] = pending[q]
    BY Zenon DEF Inv, SelfInv
  <2>2. CASE q = p  BY Zenon, <1>3, <1>6, <2>1, <2>2
  <2>3. CASE q # p  BY Zenon, <1>3, <1>6, <2>1, <2>3
  <2>. QED  BY Zenon, <2>2, <2>3
<1>. QED  BY Zenon, <1>7, <1>8, <1>9, <1>10 DEF Inv

\* A process exits.
LEMMA EndStep == ASSUME Inv, NEW p \in Procs, UseStack(p) \/ Exit(p)  PROVE Inv'
<1>1. mode' \in [Procs -> Modes] /\ \A q \in Procs \ {p} : mode'[q] = mode[q]
  BY Zenon DEF UseStack, Exit, Goto, Inv, Types, Modes
<1>2. mode'[p] \notin {"send", "clear"}  BY Zenon DEF UseStack, Exit, Goto, Inv, Types
<1>3. /\ UNCHANGED <<pending, insignal, signal_handlers, tf, backuptf, seen, sending, lock, births,
                     interrupted, owed>>
      /\ trampoline' \subseteq trampoline /\ handler' \subseteq handler
  BY Zenon DEF UseStack, Exit, bounds, history
<1>. QED  BY Zenon, <1>1, <1>2, <1>3, Quiet DEF Inv, Types

\* allocproc gives the slot to the next process.
LEMMA ReuseStep == ASSUME Inv, NEW p \in Procs, Reuse(p)  PROVE Inv'
<1>1. /\ UNCHANGED <<pending, insignal, signal_handlers, backuptf, seen, sending, lock, trampoline,
                     handler, interrupted>>
      /\ births' = births + 1 /\ mode' = [mode EXCEPT ![p] = "user"] /\ owed' = [owed EXCEPT ![p] = {}]
  BY Zenon DEF Reuse, Goto
<1>2. mode'[p] = "user" /\ \A q \in Procs \ {p} : mode'[q] = mode[q]  BY Zenon, <1>1 DEF Inv, Types
<1>3. PICK at \in Points \cup Handlers : tf' = [tf EXCEPT ![p] = [eip |-> at, eax |-> 0]]  BY Zenon DEF Reuse
<1>4. at \in Places  BY Zenon DEF Places
<1>5. tf' \in [Procs -> Frames]  BY Zenon, <1>3, <1>4, Frame DEF Inv, Types
<1>6. births' \in Nat /\ births' # 0  BY <1>1 DEF Inv, Types
<1>7. Types'  BY Zenon, <1>1, <1>5, <1>6 DEF Inv, Types, Modes
<1>8. SendInv'  BY Zenon, <1>1, <1>2 DEF Inv, SendInv, Sendable
<1>9. FrameInv'  BY Zenon, <1>1, <1>2 DEF Inv, FrameInv
<1>10. SelfInv'  BY Zenon, <1>6 DEF SelfInv
<1>. QED  BY Zenon, <1>7, <1>8, <1>9, <1>10 DEF Inv

\* Every step keeps the invariant.
LEMMA SignalsNext == Inv /\ [Next]_vars => Inv'
<1>. SUFFICES ASSUME Inv, [Next]_vars  PROVE Inv'
  BY Zenon
<1>1. CASE UNCHANGED vars
  <2>1. UNCHANGED <<pending, insignal, signal_handlers, tf, backuptf, mode, seen, sending, lock,
                    trampoline, births, handler, interrupted, owed>>
    BY Zenon, <1>1 DEF vars, bounds, history
  <2>. QED  BY Zenon, <2>1 DEF Inv, Types, SendInv, FrameInv, SelfInv, Sendable, SelfOnly
<1>2. ASSUME NEW e \in Sends, NEW n \in 0..SIGNUM, SigsendRead(e[1], e[2], n)  PROVE Inv'
  <2>1. e[1] \in Procs /\ e[2] \in Procs /\ <<e[1], e[2]>> \in Sends  BY Consts
  <2>. QED  BY Zenon, <1>2, <2>1, SigsendReadStep
<1>. QED
  BY Zenon, <1>1, <1>2, CallStep, SignalStep, SigsendWriteStep, SigreturnStep, HandleReadStep, HandleWriteStep,
     EndStep, ReuseStep DEF Next, Handle

\* The invariant holds in every reachable state.
LEMMA SignalsInvariant == Spec => []Inv
BY SignalsInit, SignalsNext, PTL DEF Spec

------------------------------------------------------------------------------
(* The theorems. *)

\* sigsend and handleSignals keep the pending signals of a process exact, as long
\* as it signals itself and is the first in its slot, for any number of signals
\* and of other processes that do the same.
THEOREM SelfSignalsExact == Spec => []SelfSendsExact
<1>1. Inv => SelfSendsExact
  BY Zenon, InvIs DEF IInv, SelfInv, SelfSendsExact
<1>. QED  BY <1>1, SignalsInvariant, PTL

\* sys_sigreturn takes a program back to where handleSignals interrupted it,
\* whatever signals arrive meanwhile and from whom: backuptf is not overwritten
\* before it is used.
THEOREM ResumesInterrupted == Spec => ResumesWhereInterrupted
<1>. DEFINE Back(p) == p \in handler /\ p \notin handler' /\ mode'[p] # "dead" =>
                         tf'[p].eip = interrupted[p].eip
<1>1. ASSUME Inv, Next, NEW p \in Procs  PROVE Back(p)
  <2>. SUFFICES ASSUME p \in handler, p \notin handler', mode'[p] # "dead"
                PROVE  tf'[p].eip = interrupted[p].eip
    BY Zenon
  <2>1. ASSUME NEW q \in Procs, \/ Call(q) \/ HandleRead(q) \/ HandleWrite(q) \/ SigsendWrite(q)
                                \/ UseStack(q) \/ Reuse(q)
        PROVE  FALSE
    BY Zenon, <2>1 DEF Call, HandleRead, HandleWrite, SigsendWrite, UseStack, Reuse, history
  <2>2. ASSUME NEW q \in Procs, NEW n \in 0..SIGNUM, NEW h \in Handlers, signal(q, n, h)  PROVE FALSE
    BY Zenon, <2>2 DEF signal, history
  <2>3. ASSUME NEW e \in Sends, NEW n \in 0..SIGNUM, SigsendRead(e[1], e[2], n)  PROVE FALSE
    BY Zenon, <2>3 DEF SigsendRead, history
  <2>4. ASSUME NEW q \in Procs, Exit(q)  PROVE FALSE
    BY Zenon, <1>1, <2>4 DEF Exit, Goto, Inv, Types
  <2>5. PICK q \in Procs : Sigreturn(q)  BY Zenon, <1>1, <2>1, <2>2, <2>3, <2>4 DEF Next, Handle
  <2>6. q = p  BY Zenon, <2>5 DEF Sigreturn
  <2>7. tf' = [tf EXCEPT ![p] = [backuptf[p] EXCEPT !.eax = 0]]  BY Zenon, <2>5, <2>6 DEF Sigreturn
  <2>8. tf \in [Procs -> Frames] /\ backuptf[p] \in Frames  BY Zenon, <1>1 DEF Inv, Types
  <2>9. tf'[p].eip = backuptf[p].eip  BY Zenon, <2>7, <2>8 DEF Frames
  <2>10. backuptf[p] = interrupted[p]  BY Zenon, <1>1 DEF Inv, FrameInv
  <2>. QED  BY Zenon, <2>9, <2>10
<1>2. Inv /\ [Next]_vars => [\A p \in Procs : Back(p)]_vars  BY <1>1
<1>. QED  BY <1>2, SignalsInvariant, PTL DEF Spec, ResumesWhereInterrupted
==============================================================================
