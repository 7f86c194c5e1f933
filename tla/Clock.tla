-------------------------------- MODULE Clock --------------------------------
(***************************************************************************)
(* The clock tick: ticks, the statistics of advanceprocstats and           *)
(* wait_stat, the quantum that trap enforces, and sys_sleep.  The tick     *)
(* handler of CPU 0 holds tickslock while it goes through the table, but   *)
(* not ptable.lock: processes change state under its hands.                *)
(***************************************************************************)
EXTENDS Naturals

CONSTANTS
  NPROC,
  QUANTA,
  Wrap,          \* ticks is counted modulo Wrap (2^32)
  SleepTimes,    \* arguments of sleep
  MaxTicks,      \* bound: ticks in all
  MaxCalls       \* bound: calls of sys_advanceprocstats and kill in all

Slots == 1..NPROC
NoProc == 0

ASSUME ClockAssumption ==
  /\ NPROC \in Nat \ {0} /\ QUANTA \in Nat \ {0} /\ MaxTicks \in Nat
  /\ Wrap \in Nat \ {0} /\ SleepTimes \subseteq 0..Wrap - 1
  /\ MaxCalls \in Nat

VARIABLES
  now,        \* ticks since boot; ticks is now % Wrap
  scan,       \* for the timer and for a program: the process its advanceprocstats
              \* is at and the state it tests, or Off
  advances,   \* calls of sys_advanceprocstats so far
  kills,      \* calls of kill so far
  state, ctime, ttime, stime, retime, rutime, runQuanta,   \* ptable.proc[s]
  killed,     \* the slots with killed set
  exiting,    \* the process in exit that holds ptable.lock
  timed,      \* the EMBRYOs that fork has given their ctime
  sleeping,   \* [ticks0, n] of a process in sys_sleep
  since,      \* history: when its sys_sleep began
  born, died, \* history: passes begun before its ctime and before its end
  ran         \* history: timer interrupts since the process was last given a CPU

stats == <<ctime, ttime, stime, retime, rutime>>
sleeps == <<sleeping, since>>
life == <<born, died, advances, kills, timed>>
Scanners == {"timer", "user"}
vars == <<now, scan, state, stats, runQuanta, killed, exiting, sleeps, ran, life>>

ticks == now % Wrap
NoSleep == [ticks0 |-> 0, n |-> 0]
Off == [at |-> NoProc, test |-> "RUNNING"]
TicksFree == scan["timer"] = Off   \* tickslock can be acquired
Passes == now + advances           \* passes of advanceprocstats begun so far
PtableFree == exiting = NoProc     \* ptable.lock can be acquired

Init ==
  /\ now = 0 /\ scan = [k \in Scanners |-> Off] /\ exiting = NoProc
  /\ advances = 0 /\ kills = 0 /\ born = [s \in Slots |-> 0] /\ died = [s \in Slots |-> 0]
  /\ state = [s \in Slots |-> IF s = 1 THEN "RUNNABLE" ELSE "UNUSED"]
  /\ ctime = [s \in Slots |-> 0] /\ ttime = [s \in Slots |-> 0]
  /\ stime = [s \in Slots |-> 0] /\ retime = [s \in Slots |-> 0]
  /\ rutime = [s \in Slots |-> 0] /\ runQuanta = [s \in Slots |-> 0]
  /\ sleeping = [s \in Slots |-> NoSleep] /\ since = [s \in Slots |-> 0]
  /\ ran = [s \in Slots |-> 0] /\ killed = {} /\ timed = {}

------------------------------------------------------------------------------
(* The timer interrupt of CPU 0 *)

InSleep(s) == sleeping[s] # NoSleep

\* ticks++ and wakeup(&ticks).
Tick ==
  /\ TicksFree /\ PtableFree /\ now < MaxTicks
  /\ now' = now + 1
  /\ state' = [s \in Slots |-> IF state[s] = "SLEEPING" /\ InSleep(s) THEN "RUNNABLE" ELSE state[s]]
  /\ scan' = [scan EXCEPT !["timer"] = [at |-> 1, test |-> "RUNNING"]]
  /\ UNCHANGED <<stats, runQuanta, killed, exiting, sleeps, ran, life>>

NextTest(t) == IF t = "RUNNING" THEN "RUNNABLE" ELSE IF t = "RUNNABLE" THEN "SLEEPING" ELSE "RUNNING"

NextProc(s) == IF s = NPROC THEN NoProc ELSE s + 1

Count(s, st) ==
  /\ rutime' = IF st = "RUNNING" THEN [rutime EXCEPT ![s] = @ + 1] ELSE rutime
  /\ retime' = IF st = "RUNNABLE" THEN [retime EXCEPT ![s] = @ + 1] ELSE retime
  /\ stime' = IF st = "SLEEPING" THEN [stime EXCEPT ![s] = @ + 1] ELSE stime

\* Mutant: the tests go on after one that held.
AdvanceOn(k) ==
  LET s == scan[k].at
      t == scan[k].test
  IN /\ scan[k] # Off
     /\ IF state[s] = t THEN Count(s, t) ELSE UNCHANGED <<rutime, retime, stime>>
     /\ scan' = [scan EXCEPT ![k] = IF t = "SLEEPING" THEN [at |-> NextProc(s), test |-> "RUNNING"]
                                    ELSE [at |-> s, test |-> NextTest(t)]]
     /\ UNCHANGED <<now, state, ctime, ttime, runQuanta, killed, exiting, sleeps, ran, life>>

\* advanceprocstats, one test of p->state at a time.
Advance(k) ==
  LET s == scan[k].at
      t == scan[k].test
  IN /\ scan[k] # Off
     /\ IF state[s] = t THEN Count(s, t) ELSE UNCHANGED <<rutime, retime, stime>>
     /\ scan' = [scan EXCEPT ![k] = IF state[s] = t \/ t = "SLEEPING"
                                    THEN [at |-> NextProc(s), test |-> "RUNNING"]
                                    ELSE [at |-> s, test |-> NextTest(t)]]
     /\ UNCHANGED <<now, state, ctime, ttime, runQuanta, killed, exiting, sleeps, ran, life>>

\* sys_advanceprocstats: the same, begun by a program, without tickslock.
SysAdvance ==
  /\ scan["user"] = Off /\ advances + kills < MaxCalls
  /\ \E s \in Slots : state[s] = "RUNNING"
  /\ scan' = [scan EXCEPT !["user"] = [at |-> 1, test |-> "RUNNING"]]
  /\ advances' = advances + 1
  /\ UNCHANGED <<now, state, stats, runQuanta, killed, exiting, sleeps, ran, born, died, kills, timed>>

\* Mutant: runQuanta is not moved on.
TimerIdle(s) ==
  /\ state[s] = "RUNNING"
  /\ IF runQuanta[s] % QUANTA = 0
     THEN /\ PtableFree
          /\ runQuanta' = [runQuanta EXCEPT ![s] = rutime[s]]
          /\ state' = [state EXCEPT ![s] = "RUNNABLE"]
          /\ ran' = [ran EXCEPT ![s] = 0]
     ELSE /\ ran' = [ran EXCEPT ![s] = @ + 1]
          /\ UNCHANGED <<state, runQuanta>>
  /\ UNCHANGED <<now, scan, stats, exiting, sleeps, killed, life>>

\* The end of trap, for a timer interrupt of the CPU that runs s (not FCFS).
Timer(s) ==
  /\ state[s] = "RUNNING"
  /\ IF runQuanta[s] % QUANTA = 0
     THEN /\ PtableFree
          /\ runQuanta' = [runQuanta EXCEPT ![s] = rutime[s]]
          /\ state' = [state EXCEPT ![s] = "RUNNABLE"]
          /\ ran' = [ran EXCEPT ![s] = 0]
     ELSE /\ runQuanta' = [runQuanta EXCEPT ![s] = @ + 1]
          /\ ran' = [ran EXCEPT ![s] = @ + 1]
          /\ UNCHANGED state
  /\ UNCHANGED <<now, scan, stats, exiting, sleeps, killed, life>>

------------------------------------------------------------------------------
(* The life of a process, as far as it is timed *)

Move(s, from, to) ==
  /\ PtableFree /\ state[s] = from
  /\ state' = [state EXCEPT ![s] = to]
  /\ UNCHANGED <<now, scan, stats, runQuanta, killed, exiting, sleeps, ran, life>>

Run(s) == Move(s, "RUNNABLE", "RUNNING")
\* sigsend or an event wakes a sleeper.
Wake(s) == Move(s, "SLEEPING", "RUNNABLE")

Kill(s) ==
  /\ advances + kills < MaxCalls /\ PtableFree /\ state[s] # "UNUSED"
  /\ kills' = kills + 1
  /\ killed' = killed \cup {s}
  /\ state' = IF state[s] = "SLEEPING" THEN [state EXCEPT ![s] = "RUNNABLE"] ELSE state
  /\ UNCHANGED <<now, scan, stats, runQuanta, exiting, sleeps, ran, born, died, advances, timed>>

\* sleep, other than in sys_sleep.
Block(s) ==
  /\ PtableFree /\ state[s] = "RUNNING" /\ ~InSleep(s)
  /\ state' = [state EXCEPT ![s] = "SLEEPING"]
  /\ ran' = [ran EXCEPT ![s] = 0]
  /\ UNCHANGED <<now, scan, stats, runQuanta, killed, exiting, sleeps, life>>

\* allocproc
Alloc(s) ==
  /\ TicksFree /\ PtableFree /\ state[s] = "UNUSED"
  /\ \E p \in Slots : state[p] = "RUNNING"
  /\ state' = [state EXCEPT ![s] = "EMBRYO"]
  /\ ctime' = [ctime EXCEPT ![s] = ticks]
  /\ UNCHANGED <<now, scan, ttime, stime, retime, rutime, runQuanta, killed, exiting, sleeps, ran, life>>

\* allocproc or fork fails for want of memory.
ForkFail(s) ==
  /\ state[s] = "EMBRYO" /\ s \notin timed
  /\ state' = [state EXCEPT ![s] = "UNUSED"]
  /\ UNCHANGED <<now, scan, stats, runQuanta, killed, exiting, sleeps, ran, life>>

\* The end of fork, up to the release of tickslock ...
ForkTime(s) ==
  /\ TicksFree /\ state[s] = "EMBRYO" /\ s \notin timed
  /\ runQuanta' = [runQuanta EXCEPT ![s] = 0] /\ rutime' = [rutime EXCEPT ![s] = 0]
  /\ ctime' = [ctime EXCEPT ![s] = ticks]
  /\ timed' = timed \cup {s}
  /\ born' = [born EXCEPT ![s] = Passes - (IF scan["user"] = Off THEN 0 ELSE 1)]
  /\ UNCHANGED <<now, scan, state, ttime, stime, retime, exiting, sleeps, ran, killed, died, advances, kills>>

\* ... and after it: the other statistics, and then RUNNABLE under ptable.lock.
ForkRun(s) ==
  /\ PtableFree /\ s \in timed
  /\ ttime' = [ttime EXCEPT ![s] = 0]
  /\ stime' = [stime EXCEPT ![s] = 0] /\ retime' = [retime EXCEPT ![s] = 0]
  /\ state' = [state EXCEPT ![s] = "RUNNABLE"]
  /\ timed' = timed \ {s}
  /\ ran' = [ran EXCEPT ![s] = 0]
  /\ UNCHANGED <<now, scan, ctime, rutime, runQuanta, exiting, sleeps, killed, born, died, advances, kills>>

\* exit: ZOMBIE, and then, still under ptable.lock, ttime under tickslock.
Exit(s) ==
  /\ PtableFree /\ state[s] = "RUNNING" /\ ~InSleep(s) /\ s # 1
  /\ state' = [state EXCEPT ![s] = "ZOMBIE"]
  /\ died' = [died EXCEPT ![s] = Passes]
  /\ exiting' = s
  /\ ran' = [ran EXCEPT ![s] = 0]
  /\ UNCHANGED <<now, scan, stats, runQuanta, sleeps, killed, born, advances, kills, timed>>

ExitTime ==
  /\ exiting # NoProc /\ TicksFree
  /\ ttime' = [ttime EXCEPT ![exiting] = ticks]
  /\ exiting' = NoProc
  /\ UNCHANGED <<now, scan, state, ctime, stime, retime, rutime, runQuanta, sleeps, ran, killed, life>>

\* wait, and wait_stat, which leaves rutime and runQuanta to fork.
Reap(s, resets) ==
  /\ PtableFree /\ state[s] = "ZOMBIE"
  /\ state' = [state EXCEPT ![s] = "UNUSED"]
  /\ killed' = killed \ {s}
  /\ born' = [born EXCEPT ![s] = 0] /\ died' = [died EXCEPT ![s] = 0]
  /\ IF resets THEN /\ runQuanta' = [runQuanta EXCEPT ![s] = 0]
                    /\ rutime' = [rutime EXCEPT ![s] = 0]
     ELSE UNCHANGED <<rutime, runQuanta>>
  /\ UNCHANGED <<now, scan, ctime, ttime, stime, retime, exiting, sleeps, ran, advances, kills, timed>>

\* sys_sleep: ticks0, and the first or a later round of its loop.
SleepCall(s, n) ==
  /\ TicksFree /\ state[s] = "RUNNING" /\ ~InSleep(s) /\ n > 0
  /\ sleeping' = [sleeping EXCEPT ![s] = [ticks0 |-> ticks, n |-> n]]
  /\ since' = [since EXCEPT ![s] = now]
  /\ UNCHANGED <<now, scan, state, stats, runQuanta, killed, exiting, ran, life>>

\* Mutant: the deadline is compared, not the time elapsed.
ElapsedDeadline(s) == ticks >= (sleeping[s].ticks0 + sleeping[s].n) % Wrap

\* !(ticks - ticks0 < n), in unsigned arithmetic.
Elapsed(s) == (ticks + Wrap - sleeping[s].ticks0) % Wrap >= sleeping[s].n

Awake(s) == sleeping' = [sleeping EXCEPT ![s] = NoSleep] /\ since' = [since EXCEPT ![s] = 0]

SleepLoop(s) ==
  /\ TicksFree /\ PtableFree /\ state[s] = "RUNNING" /\ InSleep(s)
  /\ IF Elapsed(s)
     THEN Awake(s) /\ UNCHANGED <<state, ran>>
     ELSE IF s \in killed
     THEN Awake(s) /\ UNCHANGED <<state, ran>>
     ELSE /\ state' = [state EXCEPT ![s] = "SLEEPING"]
          /\ ran' = [ran EXCEPT ![s] = 0]
          /\ UNCHANGED sleeps
  /\ UNCHANGED <<now, scan, stats, runQuanta, killed, exiting, life>>

Next ==
  \/ Tick \/ SysAdvance \/ ExitTime \/ \E k \in Scanners : Advance(k)
  \/ \E s \in Slots : \/ Timer(s) \/ Run(s) \/ Wake(s) \/ Kill(s) \/ Block(s) \/ Alloc(s)
                      \/ ForkFail(s) \/ ForkTime(s) \/ ForkRun(s) \/ Exit(s) \/ SleepLoop(s)
                      \/ \E resets \in BOOLEAN : Reap(s, resets)
                      \/ \E n \in SleepTimes : SleepCall(s, n)

Spec == Init /\ [][Next]_vars
------------------------------------------------------------------------------
TypeOK ==
  /\ now \in 0..MaxTicks /\ exiting \in Slots \cup {NoProc}
  /\ scan \in [Scanners -> [at : Slots, test : {"RUNNING", "RUNNABLE", "SLEEPING"}] \cup {Off}]
  /\ state \in [Slots -> {"UNUSED", "EMBRYO", "SLEEPING", "RUNNABLE", "RUNNING", "ZOMBIE"}]
  /\ \A f \in {stime, retime, rutime, ctime, ttime} : f \in [Slots -> Nat]
  /\ runQuanta \in [Slots -> Nat] /\ killed \subseteq Slots /\ timed \subseteq Slots

\* A pass of advanceprocstats counts a process at most once, and only if the
\* pass falls into its life (a pass of the timer: begins after its ctime),
\* although it reads p->state several times without ptable.lock: a slot is not
\* given to another process under the timer's hands, because fork takes tickslock.
CountedOnce ==
  TypeOK /\ \A s \in Slots : state[s] \notin {"UNUSED", "EMBRYO"} =>
    stime[s] + retime[s] + rutime[s] <=
      (IF state[s] = "ZOMBIE" THEN died[s] ELSE Passes) - born[s]

\* What wait_stat reports of a process, "Running state time" and the others, is
\* time: in all no more than the ticks from its creation to its end.
StatsAreTime ==
  \A s \in Slots : state[s] = "ZOMBIE" /\ exiting # s =>
    stime[s] + retime[s] + rutime[s] <= (ttime[s] + Wrap - ctime[s]) % Wrap

\* A process keeps its CPU for at most QUANTA timer interrupts, whatever value
\* rutime leaves in runQuanta.
QuantumBounded == \A s \in Slots : ran[s] < QUANTA

\* sleep(n) of a process that is not killed does not return before n ticks have
\* passed, also across a wrap of ticks and after wakeups for another reason.
SleepsLongEnough ==
  [][\A s \in Slots : InSleep(s) /\ sleeping'[s] = NoSleep /\ s \notin killed =>
       now - since[s] >= sleeping[s].n]_vars
------------------------------------------------------------------------------
(* What the theorems of ClockProofs need: inductive forms of the above. *)

\* A pass that has not come to s, or not left it, may count it once more.
Ahead(k, s) == IF scan[k].at # NoProc /\ scan[k].at <= s THEN 1 ELSE 0

\* What is counted of s; fork resets the times of an EMBRYO one by one.
Charged(s) == IF s \in timed THEN rutime[s] ELSE stime[s] + retime[s] + rutime[s]
Counted(s) == s \in timed \/ state[s] \in {"RUNNING", "RUNNABLE", "SLEEPING"}

CountInv ==
  /\ scan["user"] # Off => advances # 0
  /\ \A s \in Slots :
       /\ s \in timed => state[s] = "EMBRYO"
       /\ Counted(s) =>
            Charged(s) + Ahead("timer", s) + Ahead("user", s) + born[s] <= Passes
       /\ state[s] = "ZOMBIE" => Charged(s) + born[s] <= died[s]

\* The interrupts counted in ran have taken runQuanta on from a number that
\* QUANTA does not divide, without meeting one that it does.
QuantumInv ==
  \A s \in Slots : /\ ran[s] <= (runQuanta[s] + QUANTA - 1) % QUANTA
                   /\ state[s] # "RUNNING" => ran[s] = 0

SleepInv ==
  \A s \in Slots : InSleep(s) => since[s] <= now /\ sleeping[s].ticks0 = since[s] % Wrap

HistoryOK ==
  /\ advances \in Nat /\ kills \in Nat
  /\ born \in [Slots -> Nat] /\ died \in [Slots -> Nat]
  /\ ran \in [Slots -> Nat] /\ since \in [Slots -> Nat]
  /\ sleeping \in [Slots -> [ticks0 : 0..Wrap - 1, n : 0..Wrap - 1]]

IInv == TypeOK /\ HistoryOK /\ CountInv /\ QuantumInv /\ SleepInv
==============================================================================
