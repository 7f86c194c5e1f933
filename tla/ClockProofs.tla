----------------------------- MODULE ClockProofs -----------------------------
(***************************************************************************)
(* Theorems about Clock, for any number of processes, any quantum, and any *)
(* point at which ticks wraps around: a pass of advanceprocstats counts a  *)
(* process once, a process loses its CPU after a quantum, and sleep does   *)
(* not return early.                                                       *)
(***************************************************************************)
EXTENDS Clock, Integers, TLAPS

\* What the proofs use of the constants.
LEMMA Consts ==
  /\ NPROC \in Nat \ {0} /\ QUANTA \in Nat \ {0} /\ Wrap \in Nat \ {0} /\ MaxTicks \in Nat
  /\ SleepTimes \subseteq 0..Wrap - 1 /\ NoProc \notin Slots /\ 1 \in Slots
BY ClockAssumption DEF Slots, NoProc

------------------------------------------------------------------------------
(* Arithmetic. *)

\* A number is its remainder and a multiple of the divisor.
LEMMA DivMod ==
  ASSUME NEW a \in Nat, NEW b \in Nat \ {0}
  PROVE  \E q \in Nat : a = b * q + (a % b) /\ a % b \in 0..(b - 1)
<1>1. a % b \in 0..(b - 1)  OBVIOUS
<1>2. a \div b \in Int  OBVIOUS
<1>3. a = b * (a \div b) + (a % b)  OBVIOUS
<1>4. a \div b \in Nat  BY <1>1, <1>2, <1>3
<1>5. PICK q \in Nat : q = a \div b  BY Zenon, <1>4
<1>6. PICK r \in 0..(b - 1) : r = a % b  BY Zenon, <1>1
<1>7. a = b * q + r  BY Zenon, <1>3, <1>5, <1>6
<1>. QED  BY Zenon, <1>6, <1>7

\* A sum below twice the divisor is reduced by one subtraction.
LEMMA ModOnce ==
  ASSUME NEW W \in Nat \ {0}, NEW a \in Nat, a < 2 * W
  PROVE  a % W \in 0..W - 1 /\ a % W = IF a < W THEN a ELSE a - W
OBVIOUS

\* The remainder of a multiple and a rest.
LEMMA ModUnique ==
  ASSUME NEW b \in Nat \ {0}, NEW q \in Nat, NEW r \in 0..(b - 1)
  PROVE  (b * q + r) % b = r
OBVIOUS

\* The difference of two counters that wrap around is no more than the
\* difference of what they count.
LEMMA ElapsedAtMost ==
  ASSUME NEW W \in Nat \ {0}, NEW a \in Nat, NEW b \in Nat, a <= b
  PROVE  ((b % W) + W - (a % W)) % W <= b - a
<1>1. PICK p \in Nat : a = W * p + (a % W) /\ a % W \in 0..(W - 1)  BY Zenon, DivMod
<1>2. PICK q \in Nat : b = W * q + (b % W) /\ b % W \in 0..(W - 1)  BY Zenon, DivMod
<1>3. PICK x \in 0..(W - 1), y \in 0..(W - 1) : x = a % W /\ y = b % W  BY Zenon, <1>1, <1>2
<1>4. a = W * p + x /\ b = W * q + y  BY Zenon, <1>1, <1>2, <1>3
<1>5. PICK d \in Nat : d = y + W - x /\ d < 2 * W  OBVIOUS
<1>6. d % W = IF d < W THEN d ELSE d - W  BY Zenon, <1>5, ModOnce
<1>7. CASE x <= y
  <2>1. d % W = y - x  BY <1>5, <1>6, <1>7
  <2>2. p <= q
    <3>1. CASE q < p
      <4>1. q + 1 <= p  BY <3>1
      <4>2. W * (q + 1) <= W * p  BY <4>1
      <4>3. W * (q + 1) = W * q + W  OBVIOUS
      <4>. QED  BY <1>4, <4>2, <4>3
    <3>. QED  BY <3>1
  <2>3. W * p <= W * q  BY <2>2
  <2>. QED  BY SMTT(30), <1>3, <1>4, <1>5, <2>1, <2>3
<1>8. CASE y < x
  <2>1. d % W = y + W - x  BY <1>5, <1>6, <1>8
  <2>2. p < q
    <3>1. CASE q <= p
      <4>1. W * q <= W * p  BY <3>1
      <4>. QED  BY <1>4, <1>8, <4>1
    <3>. QED  BY <3>1
  <2>3. p + 1 <= q  BY <2>2
  <2>4. W * (p + 1) <= W * q  BY <2>3
  <2>5. W * (p + 1) = W * p + W  OBVIOUS
  <2>. QED  BY <1>3, <1>4, <1>5, <2>1, <2>4, <2>5
<1>. QED  BY <1>7, <1>8

\* One step of runQuanta between two numbers that the quantum divides.
LEMMA QuantumStep ==
  ASSUME NEW Q \in Nat \ {0}, NEW a \in Nat, a % Q # 0
  PROVE  (a + 1 + Q - 1) % Q = ((a + Q - 1) % Q) + 1
<1>1. PICK p \in Nat : a = Q * p + (a % Q) /\ a % Q \in 0..(Q - 1)  BY Zenon, DivMod
<1>2. PICK x \in 1..(Q - 1) : x = a % Q  BY <1>1
<1>3. PICK m \in Nat, z \in 0..(Q - 1) : m = p + 1 /\ z = x - 1  OBVIOUS
<1>4. x \in 0..(Q - 1)  OBVIOUS
<1>5. (Q * m + x) % Q = x /\ (Q * m + z) % Q = z  BY Zenon, <1>4, ModUnique
<1>6. Q * m = Q * p + Q  BY <1>3
<1>7. a + 1 + Q - 1 = Q * m + x /\ a + Q - 1 = Q * m + z  BY <1>1, <1>2, <1>3, <1>6
<1>. QED  BY <1>3, <1>5, <1>7

------------------------------------------------------------------------------
(* Types. *)

Tests == {"RUNNING", "RUNNABLE", "SLEEPING"}
States == {"UNUSED", "EMBRYO", "SLEEPING", "RUNNABLE", "RUNNING", "ZOMBIE"}
Places == [at : Slots, test : Tests] \cup {Off}

Types ==
  /\ now \in 0..MaxTicks /\ exiting \in Slots \cup {NoProc}
  /\ scan \in [Scanners -> Places]
  /\ state \in [Slots -> States]
  /\ stime \in [Slots -> Nat] /\ retime \in [Slots -> Nat] /\ rutime \in [Slots -> Nat]
  /\ ctime \in [Slots -> Nat] /\ ttime \in [Slots -> Nat]
  /\ runQuanta \in [Slots -> Nat] /\ killed \subseteq Slots /\ timed \subseteq Slots
  /\ HistoryOK

\* Types is TypeOK and HistoryOK, spelled out for the provers.
LEMMA TypesOK == Types <=> TypeOK /\ HistoryOK
BY Zenon DEF Types, TypeOK, Tests, States, Places

\* The invariants hold when the kernel starts.
LEMMA ClockInit == Init => Types /\ CountInv /\ QuantumInv /\ SleepInv
<1>. SUFFICES ASSUME Init  PROVE Types /\ CountInv /\ QuantumInv /\ SleepInv
  BY Zenon
<1>1. 0 \in 0..Wrap - 1 /\ 0 \in 0..MaxTicks  BY Consts
<1>2. Types  BY Zenon, <1>1, Consts DEF Init, Types, HistoryOK, States, Places, NoSleep
<1>3. CountInv
  BY Consts DEF Init, CountInv, Charged, Counted, Ahead, Scanners, Off, Passes, NoProc
<1>4. QuantumInv
  <2>1. PICK z \in Nat : z = 0 + QUANTA - 1  BY Consts
  <2>2. z % QUANTA \in Nat  BY Consts
  <2>. QED  BY <2>1, <2>2 DEF Init, QuantumInv
<1>5. SleepInv  BY Zenon DEF Init, SleepInv, InSleep
<1>. QED  BY Zenon, <1>2, <1>3, <1>4, <1>5

\* The place of a pass after a test.
LEMMA AdvanceTo ==
  ASSUME Types, NEW k \in Scanners, Advance(k)
  PROVE  \E s \in Slots, t \in Tests :
           /\ s = scan[k].at /\ t = scan[k].test
           /\ \/ /\ state[s] = t /\ Count(s, t)
                 /\ scan' = [scan EXCEPT ![k] = [at |-> NextProc(s), test |-> "RUNNING"]]
              \/ /\ state[s] # t /\ UNCHANGED <<stime, retime, rutime>>
                 /\ \/ scan' = [scan EXCEPT ![k] = [at |-> NextProc(s), test |-> "RUNNING"]]
                    \/ scan' = [scan EXCEPT ![k] = [at |-> s, test |-> NextTest(t)]]
           /\ [at |-> NextProc(s), test |-> "RUNNING"] \in Places
           /\ [at |-> s, test |-> NextTest(t)] \in Places
<1>1. scan[k] \in [at : Slots, test : Tests]  BY Zenon DEF Advance, Types, Places
<1>2. PICK s \in Slots, t \in Tests : s = scan[k].at /\ t = scan[k].test  BY Zenon, <1>1
<1>3. NextProc(s) \in Slots \/ NextProc(s) = NoProc  BY Consts DEF NextProc, Slots
<1>4. [at |-> NextProc(s), test |-> "RUNNING"] \in Places  BY Zenon, <1>3 DEF Places, Off, Tests
<1>5. NextTest(t) \in Tests  BY Zenon DEF NextTest, Tests
<1>6. [at |-> s, test |-> NextTest(t)] \in Places  BY Zenon, <1>5 DEF Places
<1>. QED  BY Zenon, <1>2, <1>4, <1>6 DEF Advance

\* A counter of a process goes on by 1.
LEMMA Incr ==
  ASSUME NEW f \in [Slots -> Nat], NEW s \in Slots
  PROVE  [f EXCEPT ![s] = f[s] + 1] \in [Slots -> Nat]
OBVIOUS

\* ticks, the low word of the time, has its range.
LEMMA TicksOK == ASSUME Types  PROVE ticks \in 0..Wrap - 1 /\ ticks \in Nat /\ now \in Nat
<1>1. now \in Nat  BY Consts DEF Types
<1>2. now % Wrap \in 0..Wrap - 1  BY <1>1, Consts
<1>. QED  BY <1>1, <1>2 DEF ticks

\* Every step keeps the types.
LEMMA TypesNext == ASSUME Types, CountInv, Next  PROVE Types'
<1>. USE DEF Types, HistoryOK
<1>1. CASE Tick
  <2>1. [at |-> 1, test |-> "RUNNING"] \in Places  BY Zenon, Consts DEF Places, Tests
  <2>2. now' \in 0..MaxTicks  BY <1>1, Consts DEF Tick
  <2>. QED  BY Zenon, <1>1, <2>1, <2>2 DEF Tick, stats, sleeps, life, States
<1>2. CASE SysAdvance
  <2>1. [at |-> 1, test |-> "RUNNING"] \in Places  BY Zenon, Consts DEF Places, Tests
  <2>2. scan' \in [Scanners -> Places]  BY Zenon, <1>2, <2>1 DEF SysAdvance
  <2>3. advances' \in Nat  BY <1>2 DEF SysAdvance
  <2>. QED  BY Zenon, <1>2, <2>2, <2>3 DEF SysAdvance, stats, sleeps
<1>3. CASE ExitTime
  <2>1. ticks \in Nat  BY Zenon, TicksOK
  <2>. QED  BY Zenon, <1>3, <2>1 DEF ExitTime, sleeps, life
<1>4. ASSUME NEW k \in Scanners, Advance(k)  PROVE Types'
  <2>1. scan' \in [Scanners -> Places]  BY Zenon, <1>4, AdvanceTo
  <2>2. stime' \in [Slots -> Nat] /\ retime' \in [Slots -> Nat] /\ rutime' \in [Slots -> Nat]
    <3>1. PICK s \in Slots : \E t : Count(s, t) \/ UNCHANGED <<stime, retime, rutime>>
      BY Zenon, <1>4, AdvanceTo
    <3>2. PICK t : Count(s, t) \/ UNCHANGED <<stime, retime, rutime>>  BY Zenon, <3>1
    <3>3. stime' = stime \/ stime' = [stime EXCEPT ![s] = stime[s] + 1]  BY Zenon, <3>2 DEF Count
    <3>4. retime' = retime \/ retime' = [retime EXCEPT ![s] = retime[s] + 1]  BY Zenon, <3>2 DEF Count
    <3>5. rutime' = rutime \/ rutime' = [rutime EXCEPT ![s] = rutime[s] + 1]  BY Zenon, <3>2 DEF Count
    <3>6. stime' \in [Slots -> Nat]  BY <3>3, Incr
    <3>7. retime' \in [Slots -> Nat]  BY <3>4, Incr
    <3>8. rutime' \in [Slots -> Nat]  BY <3>5, Incr
    <3>. QED  BY Zenon, <3>6, <3>7, <3>8
  <2>. QED  BY Zenon, <1>4, <2>1, <2>2 DEF Advance, sleeps, life
<1>5. ASSUME NEW s \in Slots, Timer(s)  PROVE Types'
  <2>1. runQuanta' = [runQuanta EXCEPT ![s] = rutime[s]]
        \/ runQuanta' = [runQuanta EXCEPT ![s] = runQuanta[s] + 1]
    BY Zenon, <1>5 DEF Timer
  <2>2. ran' = [ran EXCEPT ![s] = 0] \/ ran' = [ran EXCEPT ![s] = ran[s] + 1]  BY Zenon, <1>5 DEF Timer
  <2>3. runQuanta' \in [Slots -> Nat]
    <3>1. rutime[s] \in Nat  BY Zenon
    <3>2. [runQuanta EXCEPT ![s] = rutime[s]] \in [Slots -> Nat]  BY Zenon, <3>1
    <3>3. [runQuanta EXCEPT ![s] = runQuanta[s] + 1] \in [Slots -> Nat]  BY Incr
    <3>. QED  BY <2>1, <3>2, <3>3, Zenon
  <2>5. ran' \in [Slots -> Nat]
    <3>1. [ran EXCEPT ![s] = 0] \in [Slots -> Nat]  BY Zenon
    <3>2. [ran EXCEPT ![s] = ran[s] + 1] \in [Slots -> Nat]  BY Incr
    <3>. QED  BY <2>2, <3>1, <3>2, Zenon
  <2>4. state' \in [Slots -> States]  BY <1>5 DEF Timer, States
  <2>. QED  BY Zenon, <1>5, <2>3, <2>4, <2>5 DEF Timer, stats, sleeps, life
<1>6. ASSUME NEW s \in Slots, Run(s) \/ Wake(s)  PROVE Types'
  BY Zenon, <1>6 DEF Run, Wake, Move, stats, sleeps, life, States
<1>7. ASSUME NEW s \in Slots, Kill(s)  PROVE Types'
  BY <1>7 DEF Kill, stats, sleeps, States
<1>8. ASSUME NEW s \in Slots, Block(s)  PROVE Types'
  BY Zenon, <1>8 DEF Block, stats, sleeps, life, States
<1>9. ASSUME NEW s \in Slots, Alloc(s)  PROVE Types'
  <2>1. ticks \in Nat  BY Zenon, TicksOK
  <2>. QED  BY Zenon, <1>9, <2>1 DEF Alloc, sleeps, life, States
<1>10. ASSUME NEW s \in Slots, ForkFail(s) \/ ForkTime(s) \/ ForkRun(s)  PROVE Types'
  <2>1. ticks \in Nat  BY Zenon, TicksOK
  <2>2. Passes - (IF scan["user"] = Off THEN 0 ELSE 1) \in Nat
    <3>1. scan["user"] # Off => advances # 0  BY Zenon DEF CountInv
    <3>2. now \in Nat /\ advances \in Nat  BY Consts
    <3>. QED  BY <3>1, <3>2 DEF Passes
  <2>3. CASE ForkFail(s)  BY Zenon, <2>3 DEF ForkFail, stats, sleeps, life, States
  <2>4. CASE ForkTime(s)  BY Zenon, <2>1, <2>2, <2>4 DEF ForkTime, sleeps, States
  <2>5. CASE ForkRun(s)  BY Zenon, <2>5 DEF ForkRun, sleeps, States
  <2>. QED  BY Zenon, <1>10, <2>3, <2>4, <2>5
<1>11. ASSUME NEW s \in Slots, Exit(s)  PROVE Types'
  <2>1. Passes \in Nat  BY Consts DEF Passes
  <2>. QED  BY Zenon, <1>11, <2>1 DEF Exit, stats, sleeps, States
<1>12. ASSUME NEW s \in Slots, SleepLoop(s)  PROVE Types'
  <2>1. NoSleep \in [ticks0 : 0..Wrap - 1, n : 0..Wrap - 1]  BY Consts DEF NoSleep
  <2>2. sleeping' \in [Slots -> [ticks0 : 0..Wrap - 1, n : 0..Wrap - 1]] /\ since' \in [Slots -> Nat]
    <3>1. CASE Awake(s)  BY Zenon, <2>1, <3>1 DEF Awake
    <3>2. CASE UNCHANGED sleeps  BY Zenon, <3>2 DEF sleeps
    <3>. QED  BY Zenon, <1>12, <3>1, <3>2 DEF SleepLoop
  <2>. QED  BY SMTT(30), <1>12, <2>2 DEF SleepLoop, Awake, stats, sleeps, life, States
<1>13. ASSUME NEW s \in Slots, NEW resets \in BOOLEAN, Reap(s, resets)  PROVE Types'
  BY <1>13 DEF Reap, sleeps, States
<1>14. ASSUME NEW s \in Slots, NEW n \in SleepTimes, SleepCall(s, n)  PROVE Types'
  <2>1. n \in 0..Wrap - 1 /\ ticks \in 0..Wrap - 1 /\ now \in Nat  BY Zenon, Consts, TicksOK
  <2>2. [ticks0 |-> ticks, n |-> n] \in [ticks0 : 0..Wrap - 1, n : 0..Wrap - 1]  BY Zenon, <2>1
  <2>. QED  BY Zenon, <1>14, <2>1, <2>2 DEF SleepCall, stats, life
<1>. QED
  BY Zenon, <1>1, <1>2, <1>3, <1>4, <1>5, <1>6, <1>7, <1>8, <1>9, <1>10, <1>11, <1>12, <1>13, <1>14
     DEF Next

------------------------------------------------------------------------------
(* The quantum. *)

Share(s) == (runQuanta[s] + QUANTA - 1) % QUANTA

\* A remainder modulo QUANTA has its range.
LEMMA ShareNat == ASSUME NEW a \in Nat  PROVE (a + QUANTA - 1) % QUANTA \in 0..QUANTA - 1
<1>1. PICK z \in Nat : z = a + QUANTA - 1  BY Consts
<1>2. z % QUANTA \in 0..QUANTA - 1  BY Consts
<1>. QED  BY Zenon, <1>1, <1>2

\* A step that leaves both counters alone and takes no CPU from a process.
LEMMA QuantumFrame ==
  ASSUME Types, Types', QuantumInv, UNCHANGED runQuanta,
         \A s \in Slots : ran'[s] = ran[s] \/ ran'[s] = 0,
         \A s \in Slots : state'[s] # "RUNNING" => ran'[s] = 0 \/ state[s] # "RUNNING"
  PROVE  QuantumInv'
<1>1. \A s \in Slots : ran[s] \in Nat /\ ran'[s] \in Nat /\ Share(s) \in Nat
  BY ShareNat DEF Types, HistoryOK, Share
<1>2. \A s \in Slots : Share(s)' = Share(s)  BY Zenon DEF Share
<1>. QED  BY <1>1, <1>2 DEF QuantumInv, Share

\* Every step keeps the count of interrupts within the quantum: trap gives up the
\* CPU when runQuanta reaches a multiple of QUANTA.
LEMMA QuantumNext == ASSUME Types, Types', QuantumInv, Next  PROVE QuantumInv'
<1>0. ran \in [Slots -> Nat] /\ runQuanta \in [Slots -> Nat] /\ state \in [Slots -> States]
      /\ rutime \in [Slots -> Nat] /\ ran' \in [Slots -> Nat] /\ runQuanta' \in [Slots -> Nat]
  BY Zenon DEF Types, HistoryOK
<1>1. CASE Tick \/ SysAdvance \/ ExitTime \/ \E k \in Scanners : Advance(k)
  <2>1. UNCHANGED <<runQuanta, ran>>  BY Zenon, <1>1 DEF Tick, SysAdvance, ExitTime, Advance
  <2>2. \A s \in Slots : state'[s] # "RUNNING" => state[s] # "RUNNING"
    BY Zenon, <1>1 DEF Tick, SysAdvance, ExitTime, Advance
  <2>. QED  BY Zenon, <2>1, <2>2, QuantumFrame
<1>2. ASSUME NEW p \in Slots, Timer(p)  PROVE QuantumInv'
  <2>1. CASE runQuanta[p] % QUANTA = 0
    <3>1. /\ ran' = [ran EXCEPT ![p] = 0] /\ state' = [state EXCEPT ![p] = "RUNNABLE"]
          /\ \A s \in Slots \ {p} : runQuanta'[s] = runQuanta[s]
      BY Zenon, <1>0, <1>2, <2>1 DEF Timer
    <3>2. Share(p)' \in Nat  BY <1>0, ShareNat DEF Share
    <3>3. \A s \in Slots \ {p} : Share(s)' = Share(s)  BY Zenon, <3>1 DEF Share
    <3>4. ran'[p] <= Share(p)' /\ ran'[p] = 0  BY <1>0, <3>1, <3>2
    <3>5. \A s \in Slots \ {p} : ran'[s] = ran[s] /\ state'[s] = state[s]  BY Zenon, <1>0, <3>1
    <3>. QED  BY Zenon, <3>3, <3>4, <3>5 DEF QuantumInv, Share
  <2>2. CASE runQuanta[p] % QUANTA # 0
    <3>1. /\ ran' = [ran EXCEPT ![p] = ran[p] + 1] /\ state' = state
          /\ runQuanta' = [runQuanta EXCEPT ![p] = runQuanta[p] + 1] /\ state[p] = "RUNNING"
      BY Zenon, <1>0, <1>2, <2>2 DEF Timer
    <3>2. PICK a \in Nat : a = runQuanta[p]  BY Zenon, <1>0
    <3>3. (a + 1 + QUANTA - 1) % QUANTA = ((a + QUANTA - 1) % QUANTA) + 1
      BY Zenon, <2>2, <3>2, Consts, QuantumStep
    <3>4. Share(p) \in Nat /\ Share(p) = (a + QUANTA - 1) % QUANTA  BY <3>2, ShareNat DEF Share
    <3>5. Share(p)' = (a + 1 + QUANTA - 1) % QUANTA  BY Zenon, <1>0, <3>1, <3>2 DEF Share
    <3>6. Share(p)' = Share(p) + 1  BY Zenon, <3>3, <3>4, <3>5
    <3>7. ran[p] <= Share(p) /\ ran[p] \in Nat /\ ran'[p] = ran[p] + 1
      BY Zenon, <1>0, <3>1 DEF QuantumInv, Share
    <3>8. ran'[p] <= Share(p)'  BY <3>4, <3>6, <3>7
    <3>9. \A s \in Slots \ {p} : ran'[s] = ran[s] /\ runQuanta'[s] = runQuanta[s]  BY Zenon, <1>0, <3>1
    <3>10. \A s \in Slots \ {p} : Share(s)' = Share(s)  BY Zenon, <3>9 DEF Share
    <3>11. \A s \in Slots : ran'[s] <= Share(s)'  BY Zenon, <3>8, <3>9, <3>10 DEF QuantumInv, Share
    <3>12. \A s \in Slots : state'[s] # "RUNNING" => ran'[s] = 0  BY Zenon, <3>1, <3>9 DEF QuantumInv
    <3>. QED  BY Zenon, <3>11, <3>12 DEF QuantumInv, Share
  <2>. QED  BY Zenon, <2>1, <2>2
<1>3. ASSUME NEW p \in Slots, Run(p) \/ Wake(p) \/ Kill(p) \/ Block(p) \/ Alloc(p) \/ ForkFail(p) \/ ForkRun(p)
                              \/ Exit(p) \/ SleepLoop(p)
      PROVE  QuantumInv'
  <2>1. UNCHANGED runQuanta /\ \A s \in Slots : ran'[s] = ran[s] \/ ran'[s] = 0
    BY Zenon, <1>0, <1>3 DEF Run, Wake, Move, Kill, Block, Alloc, ForkFail, ForkRun, Exit, SleepLoop
  <2>2. \A s \in Slots : state'[s] # "RUNNING" => ran'[s] = 0 \/ state[s] # "RUNNING"
    BY Zenon, <1>0, <1>3 DEF Run, Wake, Move, Kill, Block, Alloc, ForkFail, ForkRun, Exit, SleepLoop
  <2>. QED  BY Zenon, <2>1, <2>2, QuantumFrame
<1>4. ASSUME NEW p \in Slots, NEW n \in SleepTimes, SleepCall(p, n)  PROVE QuantumInv'
  <2>1. UNCHANGED <<runQuanta, ran, state>>  BY Zenon, <1>4 DEF SleepCall
  <2>. QED  BY Zenon, <2>1, QuantumFrame
<1>5. ASSUME NEW p \in Slots, ForkTime(p) \/ \E resets \in BOOLEAN : Reap(p, resets)  PROVE QuantumInv'
  <2>1. /\ state[p] # "RUNNING" /\ \A s \in Slots \ {p} : state'[s] = state[s]
        /\ \A s \in Slots \ {p} : runQuanta'[s] = runQuanta[s]
        /\ \A s \in Slots : ran'[s] = ran[s] \/ ran'[s] = 0
    BY Zenon, <1>0, <1>5 DEF ForkTime, Reap
  <2>2. \A s \in Slots \ {p} : Share(s)' = Share(s)  BY Zenon, <2>1 DEF Share
  <2>3. \A s \in Slots : Share(s) \in Nat /\ Share(s)' \in Nat  BY <1>0, ShareNat DEF Share
  <2>4. ran'[p] = 0  BY Zenon, <2>1 DEF QuantumInv
  <2>. QED  BY <1>0, <2>1, <2>2, <2>3, <2>4 DEF QuantumInv, Share
<1>. QED  BY Zenon, <1>1, <1>2, <1>3, <1>4, <1>5 DEF Next

------------------------------------------------------------------------------
(* sys_sleep. *)

\* Every step keeps the time at which a call of sys_sleep began.
LEMMA SleepNext == ASSUME Types, SleepInv, Next  PROVE SleepInv'
<1>0. /\ sleeping \in [Slots -> [ticks0 : 0..Wrap - 1, n : 0..Wrap - 1]]
      /\ since \in [Slots -> Nat] /\ now \in Nat
  BY Zenon, TicksOK DEF Types, HistoryOK
<1>1. ASSUME now' = now \/ now' = now + 1, UNCHANGED sleeps  PROVE SleepInv'
  BY <1>0, <1>1 DEF SleepInv, InSleep, sleeps
<1>2. CASE Tick \/ SysAdvance \/ ExitTime \/ \E k \in Scanners : Advance(k)
  BY Zenon, <1>1, <1>2 DEF Tick, SysAdvance, ExitTime, Advance
<1>3. ASSUME NEW p \in Slots, Timer(p) \/ Run(p) \/ Wake(p) \/ Kill(p) \/ Block(p) \/ Alloc(p)
                              \/ ForkFail(p) \/ ForkTime(p) \/ ForkRun(p) \/ Exit(p) \/ \E resets \in BOOLEAN : Reap(p, resets)
      PROVE  SleepInv'
  <2>1. UNCHANGED <<now, sleeps>>
    BY Zenon, <1>3 DEF Timer, Run, Wake, Move, Kill, Block, Alloc, ForkFail, ForkTime, ForkRun, Exit, Reap
  <2>. QED  BY Zenon, <1>1, <2>1
<1>4. ASSUME NEW p \in Slots, SleepLoop(p)  PROVE SleepInv'
  <2>1. CASE Awake(p)
    <3>1. \A s \in Slots : InSleep(s)' => s # p /\ sleeping'[s] = sleeping[s] /\ since'[s] = since[s]
      BY Zenon, <1>0, <2>1 DEF Awake, InSleep
    <3>. QED  BY Zenon, <1>4, <3>1 DEF SleepInv, SleepLoop, InSleep
  <2>. QED  BY Zenon, <1>1, <1>4, <2>1 DEF SleepLoop
<1>5. ASSUME NEW p \in Slots, NEW n \in SleepTimes, SleepCall(p, n)  PROVE SleepInv'
  <2>1. now' = now /\ sleeping'[p].ticks0 = now % Wrap /\ since'[p] = now
    BY Zenon, <1>0, <1>5 DEF SleepCall, ticks
  <2>2. \A s \in Slots \ {p} : sleeping'[s] = sleeping[s] /\ since'[s] = since[s]
    BY Zenon, <1>0, <1>5 DEF SleepCall
  <2>. QED  BY <1>0, <2>1, <2>2 DEF SleepInv, InSleep
<1>. QED  BY Zenon, <1>2, <1>3, <1>4, <1>5 DEF Next

------------------------------------------------------------------------------
(* The statistics. *)

\* CountInv, spelled out.
LEMMA CountIs ==
  CountInv <=>
  /\ scan["user"] # Off => advances # 0
  /\ \A s \in Slots :
       /\ s \in timed => state[s] = "EMBRYO"
       /\ Counted(s) =>
            Charged(s) + Ahead("timer", s) + Ahead("user", s) + born[s] <= now + advances
       /\ state[s] = "ZOMBIE" => Charged(s) + born[s] <= died[s]
BY Zenon DEF CountInv, Passes

\* The terms of CountInv are naturals.
LEMMA CountNats ==
  ASSUME Types
  PROVE  /\ now \in Nat /\ advances \in Nat
         /\ \A s \in Slots : /\ Charged(s) \in Nat /\ born[s] \in Nat /\ died[s] \in Nat
                             /\ Ahead("timer", s) \in 0..1 /\ Ahead("user", s) \in 0..1
BY Consts DEF Types, HistoryOK, Charged, Ahead

\* A step that neither counts nor begins a pass, a life or an end.
LEMMA CountFrame ==
  ASSUME Types, CountInv,
         UNCHANGED <<scan, stime, retime, rutime, now, advances, born, died, timed>>,
         \A s \in Slots : /\ Counted(s)' => Counted(s)
                          /\ s \in timed => state'[s] = state[s]
                          /\ state'[s] = "ZOMBIE" => state[s] = "ZOMBIE"
  PROVE  CountInv'
BY Zenon DEF CountInv, Charged, Ahead, Passes

\* A pass begins: every process may be counted once more.
LEMMA CountBegins ==
  ASSUME Types, CountInv, NEW k \in Scanners, scan[k] = Off,
         scan' = [scan EXCEPT ![k] = [at |-> 1, test |-> "RUNNING"]],
         UNCHANGED <<stime, retime, rutime, born, died, timed>>,
         now' \in Nat, advances' \in Nat, now' + advances' = now + advances + 1,
         (k = "user" \/ scan["user"] # Off) => advances' # 0,
         \A s \in Slots : /\ Counted(s)' => Counted(s)
                          /\ s \in timed => state'[s] = state[s]
                          /\ state'[s] = "ZOMBIE" => state[s] = "ZOMBIE"
  PROVE  CountInv'
<1>1. scan \in [Scanners -> Places]  BY Zenon DEF Types
<1>2. \A j \in Scanners : scan'[j] = IF j = k THEN [at |-> 1, test |-> "RUNNING"] ELSE scan[j]
  BY Zenon, <1>1
<1>3. \A s \in Slots : 1 <= s /\ Ahead(k, s) = 0 /\ Ahead(k, s)' = 1
  BY <1>2, Consts DEF Ahead, Off, Slots, NoProc
<1>4. \A j \in Scanners \ {k}, s \in Slots : Ahead(j, s)' = Ahead(j, s)  BY Zenon, <1>2 DEF Ahead
<1>5. k = "timer" \/ k = "user"  BY Zenon DEF Scanners
<1>6. \A s \in Slots : Ahead("timer", s)' + Ahead("user", s)' = Ahead("timer", s) + Ahead("user", s) + 1
  BY <1>3, <1>4, <1>5, CountNats DEF Scanners
<1>7. \A s \in Slots : Charged(s)' = Charged(s) /\ born'[s] = born[s] /\ died'[s] = died[s]
  BY Zenon DEF Charged
<1>8. scan'["user"] # Off => advances' # 0  BY Zenon, <1>2 DEF Scanners
<1>9. ASSUME NEW s \in Slots, Counted(s)'
      PROVE  Charged(s)' + Ahead("timer", s)' + Ahead("user", s)' + born'[s] <= now' + advances'
  <2>1. Charged(s) + Ahead("timer", s) + Ahead("user", s) + born[s] <= now + advances
    BY Zenon, <1>9, CountIs
  <2>2. PICK a \in Nat, c \in Nat : a = Ahead("timer", s)' /\ c = Ahead("user", s)'
    BY <1>3, <1>4, <1>5, CountNats DEF Scanners
  <2>. QED  BY <1>6, <1>7, <2>1, <2>2, CountNats
<1>10. \A s \in Slots : state'[s] = "ZOMBIE" => Charged(s)' + born'[s] <= died'[s]
  BY Zenon, <1>7, CountIs
<1>11. \A s \in Slots : s \in timed' => state'[s] = "EMBRYO"  BY Zenon, CountIs
<1>. QED  BY Zenon, <1>8, <1>9, <1>10, <1>11 DEF CountInv, Passes

\* A test of a pass: the process it counts is behind it afterwards.
LEMMA CountAdvance == ASSUME Types, CountInv, NEW k \in Scanners, Advance(k)  PROVE CountInv'
<1>1. PICK p \in Slots, t \in Tests :
           /\ p = scan[k].at /\ t = scan[k].test
           /\ \/ /\ state[p] = t /\ Count(p, t)
                 /\ scan' = [scan EXCEPT ![k] = [at |-> NextProc(p), test |-> "RUNNING"]]
              \/ /\ state[p] # t /\ UNCHANGED <<stime, retime, rutime>>
                 /\ \/ scan' = [scan EXCEPT ![k] = [at |-> NextProc(p), test |-> "RUNNING"]]
                    \/ scan' = [scan EXCEPT ![k] = [at |-> p, test |-> NextTest(t)]]
  BY ZenonT(30), AdvanceTo
<1>2. UNCHANGED <<now, state, advances, born, died, timed>> /\ scan[k] # Off  BY Zenon DEF Advance, life
<1>3. scan \in [Scanners -> Places] /\ stime \in [Slots -> Nat] /\ retime \in [Slots -> Nat]
      /\ rutime \in [Slots -> Nat]
  BY Zenon DEF Types
<1>4. \A j \in Scanners \ {k} : scan'[j] = scan[j]  BY Zenon, <1>1, <1>3
<1>5. scan'[k].at = NextProc(p) \/ (scan'[k].at = p /\ UNCHANGED <<stime, retime, rutime>>)
  BY <1>1, <1>3
<1>6. p \in Nat /\ p # NoProc /\ NPROC \in Nat  BY Consts DEF Slots
<1>7. \A s \in Slots : /\ Ahead(k, s) = IF p <= s THEN 1 ELSE 0
                       /\ scan'[k].at = p => Ahead(k, s)' = Ahead(k, s)
                       /\ scan'[k].at = NextProc(p) => Ahead(k, s)' = IF p < s THEN 1 ELSE 0
  BY <1>1, <1>6, Consts DEF Ahead, NextProc, Slots, NoProc
<1>8. \A j \in Scanners \ {k}, s \in Slots : Ahead(j, s)' = Ahead(j, s)  BY Zenon, <1>4 DEF Ahead
<1>9. \A s \in Slots \ {p} : Charged(s)' = Charged(s) /\ Ahead(k, s)' = Ahead(k, s)
  <2>1. \A s \in Slots \ {p} : stime'[s] = stime[s] /\ retime'[s] = retime[s] /\ rutime'[s] = rutime[s]
    BY Zenon, <1>1, <1>3 DEF Count
  <2>2. \A s \in Slots \ {p} : Ahead(k, s)' = Ahead(k, s)
    BY <1>5, <1>6, <1>7 DEF Slots
  <2>. QED  BY Zenon, <1>2, <2>1, <2>2 DEF Charged
<1>10. Charged(p)' + Ahead(k, p)' <= Charged(p) + Ahead(k, p)
       /\ Charged(p)' \in Nat /\ Ahead(k, p)' \in 0..1
  <2>1. CASE state[p] = t /\ Count(p, t)
    <3>1. scan'[k].at = NextProc(p)  BY <1>1, <1>3, <2>1
    <3>2. Ahead(k, p)' = 0 /\ Ahead(k, p) = 1  BY <1>6, <1>7, <3>1
    <3>3. p \notin timed /\ p \notin timed'  BY Zenon, <1>2, <2>1, CountIs DEF Tests
    <3>4. stime'[p] + retime'[p] + rutime'[p] = stime[p] + retime[p] + rutime[p] + 1
      BY <1>3, <2>1 DEF Count, Tests
    <3>5. Charged(p)' = Charged(p) + 1  BY <3>3, <3>4 DEF Charged
    <3>. QED  BY <3>2, <3>5, CountNats
  <2>2. CASE UNCHANGED <<stime, retime, rutime>>
    <3>1. Charged(p)' = Charged(p)  BY Zenon, <1>2, <2>2 DEF Charged
    <3>2. Ahead(k, p)' <= Ahead(k, p) /\ Ahead(k, p)' \in 0..1  BY <1>5, <1>6, <1>7
    <3>3. Ahead(k, p) \in 0..1  BY <1>6, <1>7
    <3>. QED  BY <3>1, <3>2, <3>3, CountNats
  <2>. QED  BY Zenon, <1>1, <2>1, <2>2
<1>11. k = "timer" \/ k = "user"  BY Zenon DEF Scanners
<1>12. scan'["user"] # Off => advances' # 0
  BY Zenon, <1>2, <1>4, <1>11, CountIs DEF Scanners
<1>13. ASSUME NEW s \in Slots, Counted(s)'
       PROVE  Charged(s)' + Ahead("timer", s)' + Ahead("user", s)' + born'[s] <= now' + advances'
  <2>1. Charged(s) + Ahead("timer", s) + Ahead("user", s) + born[s] <= now + advances
    BY Zenon, <1>2, <1>13, CountIs DEF Counted
  <2>2. CASE s # p
    <3>1. \A j \in Scanners : Ahead(j, s)' = Ahead(j, s)  BY Zenon, <1>8, <1>9, <2>2
    <3>. QED  BY Zenon, <1>2, <1>9, <2>1, <2>2, <3>1 DEF Scanners
  <2>3. CASE s = p
    BY <1>2, <1>8, <1>10, <1>11, <2>1, <2>3, CountNats DEF Scanners
  <2>. QED  BY Zenon, <2>2, <2>3
<1>14. ASSUME NEW s \in Slots, state'[s] = "ZOMBIE"
       PROVE  Charged(s)' + born'[s] <= died'[s]
  <2>1. Charged(s)' = Charged(s)
    <3>1. CASE s = p  BY Zenon, <1>1, <1>2, <1>14, <3>1 DEF Charged, Tests
    <3>. QED  BY Zenon, <1>9, <3>1
  <2>. QED  BY Zenon, <1>2, <1>14, <2>1, CountIs
<1>15. \A s \in Slots : s \in timed' => state'[s] = "EMBRYO"  BY Zenon, <1>2, CountIs
<1>. QED  BY Zenon, <1>12, <1>13, <1>14, <1>15 DEF CountInv, Passes

\* fork takes the time: no pass begun so far counts the child, but one of a program.
LEMMA CountForkTime == ASSUME Types, CountInv, NEW p \in Slots, ForkTime(p)  PROVE CountInv'
<1>1. /\ rutime \in [Slots -> Nat] /\ born \in [Slots -> Nat] /\ timed \subseteq Slots
  BY Zenon DEF Types, HistoryOK
<1>2. /\ UNCHANGED <<now, scan, state, stime, retime, died, advances>>
      /\ scan["timer"] = Off /\ state[p] = "EMBRYO" /\ timed' = timed \cup {p}
  BY Zenon DEF ForkTime, TicksFree
<1>3. rutime'[p] = 0 /\ born'[p] = now + advances - (IF scan["user"] = Off THEN 0 ELSE 1)
  <2>1. rutime' = [rutime EXCEPT ![p] = 0]  BY Zenon DEF ForkTime
  <2>2. born' = [born EXCEPT ![p] = Passes - (IF scan["user"] = Off THEN 0 ELSE 1)]
    BY Zenon DEF ForkTime
  <2>3. PICK f \in Int : f = Passes - (IF scan["user"] = Off THEN 0 ELSE 1)
    BY CountNats DEF Passes
  <2>4. f = now + advances - (IF scan["user"] = Off THEN 0 ELSE 1)  BY <2>3, CountNats DEF Passes
  <2>5. born'[p] = f  BY <1>1, <2>2, <2>3, Zenon
  <2>. QED  BY Zenon, <1>1, <2>1, <2>4, <2>5
<1>4. \A s \in Slots \ {p} : /\ rutime'[s] = rutime[s] /\ born'[s] = born[s]
                             /\ s \in timed' <=> s \in timed
  BY Zenon, <1>1, <1>2 DEF ForkTime
<1>5. \A s \in Slots \ {p} : Charged(s)' = Charged(s) /\ Counted(s)' = Counted(s)
  BY Zenon, <1>2, <1>4 DEF Charged, Counted
<1>6. Ahead("timer", p)' = 0  BY <1>2 DEF Ahead, Off
<1>7. Ahead("user", p)' <= (IF scan["user"] = Off THEN 0 ELSE 1) /\ Ahead("user", p)' \in Nat
  BY <1>2 DEF Ahead, Off
<1>8. Charged(p)' = 0  BY Zenon, <1>2, <1>3 DEF Charged
<1>9. Charged(p)' + Ahead("timer", p)' + Ahead("user", p)' + born'[p] <= now' + advances'
  BY <1>2, <1>3, <1>6, <1>7, <1>8, CountNats
<1>10. \A s \in Slots \ {p} : Counted(s)' =>
         Charged(s)' + Ahead("timer", s)' + Ahead("user", s)' + born'[s] <= now' + advances'
  <2>1. \A s \in Slots : Ahead("timer", s)' = Ahead("timer", s) /\ Ahead("user", s)' = Ahead("user", s)
    BY Zenon, <1>2 DEF Ahead
  <2>. QED  BY Zenon, <1>2, <1>4, <1>5, <2>1, CountIs
<1>11. \A s \in Slots : state'[s] = "ZOMBIE" => Charged(s)' + born'[s] <= died'[s]
  BY Zenon, <1>2, <1>4, <1>5, CountIs
<1>12. scan'["user"] # Off => advances' # 0  BY Zenon, <1>2, CountIs
<1>13. \A s \in Slots : s \in timed' => state'[s] = "EMBRYO"  BY Zenon, <1>2, CountIs
<1>. QED  BY Zenon, <1>9, <1>10, <1>11, <1>12, <1>13 DEF CountInv, Passes

\* The child becomes RUNNABLE: what has been counted of it is its rutime.
LEMMA CountForkRun == ASSUME Types, CountInv, NEW p \in Slots, ForkRun(p)  PROVE CountInv'
<1>1. /\ stime \in [Slots -> Nat] /\ retime \in [Slots -> Nat] /\ rutime \in [Slots -> Nat]
      /\ state \in [Slots -> States]
  BY Zenon DEF Types
<1>2. UNCHANGED <<now, scan, rutime, born, died, advances>> /\ p \in timed /\ timed' = timed \ {p}
  BY Zenon DEF ForkRun
<1>3. stime'[p] = 0 /\ retime'[p] = 0 /\ state'[p] = "RUNNABLE"  BY Zenon, <1>1 DEF ForkRun
<1>4. \A s \in Slots \ {p} : /\ stime'[s] = stime[s] /\ retime'[s] = retime[s]
                             /\ state'[s] = state[s] /\ (s \in timed' <=> s \in timed)
  BY Zenon, <1>1, <1>2 DEF ForkRun
<1>5. Charged(p)' = Charged(p)
  <2>1. Charged(p) = rutime[p]  BY Zenon, <1>2 DEF Charged
  <2>2. Charged(p)' = 0 + 0 + rutime[p]  BY Zenon, <1>2, <1>3 DEF Charged
  <2>. QED  BY <1>1, <2>1, <2>2
<1>6. \A s \in Slots : Charged(s)' = Charged(s) /\ (Counted(s)' => Counted(s))
  BY Zenon, <1>2, <1>4, <1>5 DEF Charged, Counted
<1>7. \A s \in Slots : Ahead("timer", s)' = Ahead("timer", s) /\ Ahead("user", s)' = Ahead("user", s)
  BY Zenon, <1>2 DEF Ahead
<1>8. \A s \in Slots : Counted(s)' =>
        Charged(s)' + Ahead("timer", s)' + Ahead("user", s)' + born'[s] <= now' + advances'
  BY Zenon, <1>2, <1>6, <1>7, CountIs
<1>9. \A s \in Slots : state'[s] = "ZOMBIE" => Charged(s)' + born'[s] <= died'[s]
  BY Zenon, <1>2, <1>3, <1>4, <1>6, CountIs
<1>10. scan'["user"] # Off => advances' # 0  BY Zenon, <1>2, CountIs
<1>11. \A s \in Slots : s \in timed' => state'[s] = "EMBRYO"  BY Zenon, <1>2, <1>4, CountIs
<1>. QED  BY Zenon, <1>8, <1>9, <1>10, <1>11 DEF CountInv, Passes

\* A life ends with the passes begun by then.
LEMMA CountExit == ASSUME Types, CountInv, NEW p \in Slots, Exit(p)  PROVE CountInv'
<1>1. died \in [Slots -> Nat] /\ state \in [Slots -> States]  BY Zenon DEF Types, HistoryOK
<1>2. UNCHANGED <<now, scan, born, advances, stime, retime, rutime, timed>> /\ state[p] = "RUNNING"
  BY Zenon DEF Exit, stats
<1>3. state'[p] = "ZOMBIE" /\ died'[p] = now + advances  BY Zenon, <1>1 DEF Exit, Passes
<1>4. \A s \in Slots \ {p} : state'[s] = state[s] /\ died'[s] = died[s]  BY Zenon, <1>1 DEF Exit
<1>5. \A s \in Slots : /\ Charged(s)' = Charged(s) /\ Ahead("timer", s)' = Ahead("timer", s)
                       /\ Ahead("user", s)' = Ahead("user", s)
  BY Zenon, <1>2 DEF Charged, Ahead
<1>6. Charged(p) + Ahead("timer", p) + Ahead("user", p) + born[p] <= now + advances
  BY Zenon, <1>2, CountIs DEF Counted
<1>7. Charged(p)' + born'[p] <= died'[p]  BY <1>2, <1>3, <1>5, <1>6, CountNats
<1>8. \A s \in Slots : Counted(s)' =>
        Charged(s)' + Ahead("timer", s)' + Ahead("user", s)' + born'[s] <= now' + advances'
  BY Zenon, <1>2, <1>4, <1>5, CountIs DEF Counted
<1>9. \A s \in Slots : state'[s] = "ZOMBIE" => Charged(s)' + born'[s] <= died'[s]
  BY Zenon, <1>2, <1>4, <1>5, <1>7, CountIs
<1>10. \A s \in Slots : s \in timed' => state'[s] = "EMBRYO"
  BY Zenon, <1>2, <1>4, CountIs
<1>. QED  BY Zenon, <1>2, <1>8, <1>9, <1>10, CountIs DEF CountInv, Passes

\* wait, which resets the times of the slot it frees or not.
LEMMA CountReap ==
  ASSUME Types, CountInv, NEW p \in Slots, NEW resets \in BOOLEAN, Reap(p, resets)
  PROVE  CountInv'
<1>1. /\ rutime \in [Slots -> Nat] /\ born \in [Slots -> Nat] /\ died \in [Slots -> Nat]
      /\ state \in [Slots -> States]
  BY Zenon DEF Types, HistoryOK
<1>2. /\ UNCHANGED <<now, scan, advances, stime, retime, timed>>
      /\ state[p] = "ZOMBIE" /\ state'[p] = "UNUSED"
  BY Zenon, <1>1 DEF Reap
<1>3. \A s \in Slots \ {p} : /\ state'[s] = state[s] /\ rutime'[s] = rutime[s]
                             /\ born'[s] = born[s] /\ died'[s] = died[s]
  BY Zenon, <1>1 DEF Reap
<1>4. p \notin timed  BY Zenon, <1>2, CountIs
<1>. QED  BY Zenon, <1>2, <1>3, <1>4 DEF CountInv, Charged, Counted, Ahead, Passes

\* Every step keeps the count of the passes over a process.
LEMMA CountNext == ASSUME Types, Types', CountInv, Next  PROVE CountInv'
<1>0. state \in [Slots -> States] /\ now' \in Nat /\ advances' \in Nat
  BY Consts DEF Types, HistoryOK
<1>1. CASE Tick
  <2>1. /\ scan["timer"] = Off /\ scan' = [scan EXCEPT !["timer"] = [at |-> 1, test |-> "RUNNING"]]
        /\ now' = now + 1 /\ UNCHANGED <<advances, stime, retime, rutime, born, died, timed>>
    BY Zenon, <1>1 DEF Tick, TicksFree, stats, life
  <2>2. \A s \in Slots : /\ Counted(s)' => Counted(s)
                         /\ s \in timed => state'[s] = state[s]
                         /\ state'[s] = "ZOMBIE" => state[s] = "ZOMBIE"
    BY Zenon, <1>1, <2>1, CountIs DEF Tick, Counted
  <2>3. now' + advances' = now + advances + 1  BY <2>1, CountNats
  <2>4. "timer" \in Scanners /\ (scan["user"] # Off => advances' # 0)
    BY Zenon, <2>1, CountIs DEF Scanners
  <2>. QED  BY Zenon, <1>0, <2>1, <2>2, <2>3, <2>4, CountBegins
<1>2. CASE SysAdvance
  <2>1. /\ scan["user"] = Off /\ scan' = [scan EXCEPT !["user"] = [at |-> 1, test |-> "RUNNING"]]
        /\ advances' = advances + 1 /\ UNCHANGED <<now, state, stime, retime, rutime, born, died, timed>>
    BY Zenon, <1>2 DEF SysAdvance, stats
  <2>2. now' + advances' = now + advances + 1 /\ advances' # 0  BY <2>1, CountNats
  <2>3. "user" \in Scanners  BY Zenon DEF Scanners
  <2>4. \A s \in Slots : Counted(s)' => Counted(s)  BY Zenon, <2>1 DEF Counted
  <2>. QED  BY Zenon, <1>0, <2>1, <2>2, <2>3, <2>4, CountBegins
<1>3. CASE ExitTime  BY Zenon, <1>3, CountFrame DEF ExitTime, life, Counted
<1>4. ASSUME NEW p \in Slots, Timer(p) \/ Run(p) \/ Wake(p) \/ Kill(p) \/ Block(p) \/ Alloc(p) \/ ForkFail(p)
                              \/ SleepLoop(p)
      PROVE  CountInv'
  <2>1. UNCHANGED <<scan, stime, retime, rutime, now, advances, born, died, timed>>
    BY Zenon, <1>4 DEF Timer, Run, Wake, Move, Kill, Block, Alloc, ForkFail, SleepLoop, stats, life
  <2>2. \A s \in Slots : /\ Counted(s)' => Counted(s)
                         /\ s \in timed => state'[s] = state[s]
                         /\ state'[s] = "ZOMBIE" => state[s] = "ZOMBIE"
    BY Zenon, <1>0, <1>4, <2>1, CountIs
       DEF Timer, Run, Wake, Move, Kill, Block, Alloc, ForkFail, SleepLoop, Counted
  <2>. QED  BY Zenon, <2>1, <2>2, CountFrame
<1>5. ASSUME NEW p \in Slots, NEW n \in SleepTimes, SleepCall(p, n)  PROVE CountInv'
  BY Zenon, <1>5, CountFrame DEF SleepCall, stats, life, Counted
<1>. QED
  BY Zenon, <1>1, <1>2, <1>3, <1>4, <1>5, CountAdvance, CountForkTime, CountForkRun, CountExit, CountReap
     DEF Next

------------------------------------------------------------------------------
(* The theorems. *)

\* The invariants hold in every reachable state.
LEMMA ClockInvariant == Spec => [](Types /\ CountInv /\ QuantumInv /\ SleepInv)
<1>. DEFINE Inv == Types /\ CountInv /\ QuantumInv /\ SleepInv
<1>1. Inv /\ UNCHANGED vars => Inv'
  <2>. SUFFICES ASSUME Inv, UNCHANGED vars  PROVE Inv'
    BY Zenon
  <2>1. UNCHANGED <<now, scan, state, ctime, ttime, stime, retime, rutime, runQuanta, killed, exiting,
                    sleeping, since, ran, born, died, advances, kills, timed>>
    BY Zenon DEF vars, stats, sleeps, life
  <2>2. Types'  BY Zenon, <2>1 DEF Types, HistoryOK
  <2>3. CountInv'  BY Zenon, <2>1 DEF CountInv, Charged, Counted, Ahead, Passes
  <2>4. QuantumInv'  BY Zenon, <2>1 DEF QuantumInv
  <2>5. SleepInv'  BY Zenon, <2>1 DEF SleepInv, InSleep
  <2>. QED  BY Zenon, <2>2, <2>3, <2>4, <2>5
<1>2. Inv /\ Next => Inv'  BY Zenon, TypesNext, CountNext, QuantumNext, SleepNext
<1>3. Init => Inv  BY ClockInit
<1>. QED  BY <1>1, <1>2, <1>3, PTL DEF Spec

\* A pass of advanceprocstats, the timer's or a program's, counts a process at
\* most once, and only within its life (a pass of the timer only if it begins after
\* fork has set ctime), for any number of processes and ticks.
THEOREM ClockCountedOnce == Spec => []CountedOnce
<1>1. Types /\ CountInv => CountedOnce
  <2>. SUFFICES ASSUME Types, CountInv  PROVE CountedOnce
    BY Zenon
  <2>1. ASSUME NEW s \in Slots, state[s] \notin {"UNUSED", "EMBRYO"}
        PROVE  stime[s] + retime[s] + rutime[s] <= (IF state[s] = "ZOMBIE" THEN died[s] ELSE now + advances) - born[s]
    <3>1. state[s] = "ZOMBIE" \/ state[s] \in Tests  BY Zenon, <2>1 DEF Types, States, Tests
    <3>0. Charged(s) = stime[s] + retime[s] + rutime[s]  BY Zenon, <2>1, CountIs DEF Charged
    <3>2. CASE state[s] = "ZOMBIE"
      <4>1. Charged(s) + born[s] <= died[s]  BY Zenon, <3>2, CountIs
      <4>. QED  BY <3>0, <3>2, <4>1, CountNats
    <3>3. CASE state[s] \in Tests
      <4>1. Charged(s) + Ahead("timer", s) + Ahead("user", s) + born[s] <= now + advances
        BY Zenon, <3>3, CountIs DEF Counted, Tests
      <4>2. Charged(s) <= now + advances - born[s]  BY <4>1, CountNats
      <4>3. state[s] # "ZOMBIE"  BY Zenon, <3>3 DEF Tests
      <4>. QED  BY <3>0, <4>2, <4>3, CountNats
    <3>. QED  BY Zenon, <3>1, <3>2, <3>3
  <2>2. TypeOK  BY Zenon, TypesOK
  <2>. QED  BY Zenon, <2>1, <2>2 DEF CountedOnce, Passes
<1>. QED  BY <1>1, ClockInvariant, PTL

\* trap takes the CPU from a process after at most QUANTA timer interrupts, for
\* any quantum and whatever rutime it leaves in runQuanta.
THEOREM ClockQuantumBounded == Spec => []QuantumBounded
<1>1. Types /\ QuantumInv => QuantumBounded
  <2>. SUFFICES ASSUME Types, QuantumInv, NEW s \in Slots  PROVE ran[s] < QUANTA
    BY Zenon DEF QuantumBounded
  <2>1. ran[s] \in Nat /\ runQuanta[s] \in Nat  BY Zenon DEF Types, HistoryOK
  <2>2. Share(s) \in 0..QUANTA - 1  BY Zenon, <2>1, ShareNat DEF Share
  <2>3. ran[s] <= Share(s)  BY Zenon DEF QuantumInv, Share
  <2>. QED  BY <2>1, <2>2, <2>3, Consts
<1>. QED  BY <1>1, ClockInvariant, PTL

\* sleep(n) of a process that is not killed returns after n ticks or later,
\* wherever ticks wraps around and however often the process is woken.
THEOREM ClockSleepsLongEnough == Spec => SleepsLongEnough
<1>. DEFINE Late(s) == InSleep(s) /\ sleeping'[s] = NoSleep /\ s \notin killed =>
                         now - since[s] >= sleeping[s].n
<1>1. ASSUME Types, SleepInv, Next, NEW s \in Slots  PROVE Late(s)
  <2>. SUFFICES ASSUME InSleep(s), sleeping'[s] = NoSleep, s \notin killed
                PROVE  now - since[s] >= sleeping[s].n
    BY Zenon
  <2>0. /\ sleeping \in [Slots -> [ticks0 : 0..Wrap - 1, n : 0..Wrap - 1]]
        /\ since \in [Slots -> Nat] /\ now \in Nat /\ Wrap \in Nat \ {0}
    BY Zenon, <1>1, TicksOK, Consts DEF Types, HistoryOK
  <2>1. sleeping' # sleeping  BY Zenon DEF InSleep
  <2>2. ~(Tick \/ SysAdvance \/ ExitTime \/ \E k \in Scanners : Advance(k))
    BY Zenon, <2>1 DEF Tick, SysAdvance, ExitTime, Advance, sleeps
  <2>3. ASSUME NEW p \in Slots, Timer(p) \/ Run(p) \/ Wake(p) \/ Kill(p) \/ Block(p) \/ Alloc(p)
                                \/ ForkFail(p) \/ ForkTime(p) \/ ForkRun(p) \/ Exit(p) \/ \E resets \in BOOLEAN : Reap(p, resets)
        PROVE  FALSE
    BY Zenon, <2>1, <2>3 DEF Timer, Run, Wake, Move, Kill, Block, Alloc, ForkFail, ForkTime, ForkRun, Exit, Reap, sleeps
  <2>4. ASSUME NEW p \in Slots, NEW n \in SleepTimes, SleepCall(p, n)  PROVE FALSE
    <3>1. ~InSleep(p) /\ n > 0 /\ sleeping' = [sleeping EXCEPT ![p] = [ticks0 |-> ticks, n |-> n]]
      BY Zenon, <2>4 DEF SleepCall
    <3>2. p # s  BY Zenon, <3>1
    <3>. QED  BY Zenon, <2>0, <3>1, <3>2 DEF InSleep
  <2>5. PICK p \in Slots : SleepLoop(p)  BY Zenon, <1>1, <2>2, <2>3, <2>4 DEF Next
  <2>6. p = s  BY Zenon, <2>0, <2>1, <2>5 DEF SleepLoop, Awake, InSleep, sleeps
  <2>7. Elapsed(s)  BY Zenon, <2>1, <2>5, <2>6 DEF SleepLoop, sleeps
  <2>8. since[s] <= now /\ sleeping[s].ticks0 = since[s] % Wrap  BY Zenon, <1>1 DEF SleepInv
  <2>9. PICK a \in Nat : a = since[s]  BY Zenon, <2>0
  <2>10. ((now % Wrap) + Wrap - (a % Wrap)) % Wrap <= now - a
    BY Zenon, <2>0, <2>8, <2>9, ElapsedAtMost
  <2>11. ((now % Wrap) + Wrap - (a % Wrap)) % Wrap >= sleeping[s].n
    BY Zenon, <2>7, <2>8, <2>9 DEF Elapsed, ticks
  <2>12. PICK m \in Nat : m = sleeping[s].n  BY <2>0
  <2>13. ((now % Wrap) + Wrap - (a % Wrap)) % Wrap \in Nat
    <3>1. now % Wrap \in 0..Wrap - 1 /\ a % Wrap \in 0..Wrap - 1  BY <2>0
    <3>2. PICK x \in 0..Wrap - 1, y \in 0..Wrap - 1 : x = now % Wrap /\ y = a % Wrap  BY Zenon, <3>1
    <3>3. PICK d \in Nat : d = x + Wrap - y  BY <2>0
    <3>4. d % Wrap \in Nat  BY <2>0
    <3>. QED  BY Zenon, <3>2, <3>3, <3>4
  <2>. QED  BY <2>0, <2>9, <2>10, <2>11, <2>12, <2>13
<1>2. Types /\ SleepInv /\ [Next]_vars => [\A s \in Slots : Late(s)]_vars  BY <1>1
<1>. QED  BY <1>2, ClockInvariant, PTL DEF Spec, SleepsLongEnough
==============================================================================
