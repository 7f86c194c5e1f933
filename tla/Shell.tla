-------------------------------- MODULE Shell --------------------------------
(***************************************************************************)
(* The shell, sh.c: the parser on a line of tokens, and runcmd as          *)
(* processes with descriptors.  A word is its place in the line; a command *)
(* is <<"EXEC", words>>, <<"REDIR", command, fd, file>>,                   *)
(* <<"BACK", command>>, <<"LIST", left, right>> or                         *)
(* <<"PIPE", left, right, place of the bar>>.                              *)
(***************************************************************************)
EXTENDS Integers, Sequences, FiniteSets, FiniteSetsExt, SequencesExt

CONSTANTS
  MaxLine,     \* bound: lines up to this length are parsed
  RunLines,    \* the lines that are run
  Pids,        \* 1: the shell itself
  MAXARGS

Tokens == {"a", "<", ">", "|", "&", ";", "(", ")"}

VARIABLES
  line,        \* the tokens typed
  procs        \* the processes

vars == <<line, procs>>

------------------------------------------------------------------------------
(* The parser.  A parsing function is given the line and a place in it, and   *)
(* yields the command and the place after it; place 0: panic was called.      *)

Result(c, i) == [cmd |-> c, at |-> i]
Panic == Result(<<>>, 0)
peek(s, i, toks) == i <= Len(s) /\ s[i] \in toks

\* The commands.
execcmd(words) == <<"EXEC", words>>
redircmd(c, fd, file) == <<"REDIR", c, fd, file>>
pipecmd(l, r, bar) == <<"PIPE", l, r, bar>>
listcmd(l, r) == <<"LIST", l, r>>
backcmd(c) == <<"BACK", c>>

\* The redirections at i: descriptor and file.
RECURSIVE parseredirs(_, _, _)
parseredirs(s, i, R) ==
  IF ~peek(s, i, {"<", ">"}) THEN Result(R, i)
  ELSE IF ~peek(s, i + 1, {"a"}) THEN Panic
  ELSE parseredirs(s, i + 2, Append(R, <<IF s[i] = "<" THEN 0 ELSE 1, i + 1>>))

\* redircmd around a command for each redirection, the last one outermost.
Redirected(c, R) == FoldLeft(LAMBDA d, r : redircmd(d, r[1], r[2]), c, R)

\* The loop of parseexec over words and redirections.
RECURSIVE Args(_, _, _, _)
Args(s, i, A, R) ==
  LET r == parseredirs(s, i, R)
      j == r.at IN
  IF j = 0 THEN Panic
  ELSE IF j > Len(s) \/ peek(s, j, {"|", ")", "&", ";"})
  THEN Result(Redirected(execcmd(A), r.cmd), j)
  ELSE IF ~peek(s, j, {"a"}) \/ Len(A) + 1 >= MAXARGS THEN Panic
  ELSE Args(s, j + 1, Append(A, j), r.cmd)

RECURSIVE Ampersands(_, _, _)
Ampersands(s, c, i) == IF peek(s, i, {"&"}) THEN Ampersands(s, backcmd(c), i + 1) ELSE Result(c, i)

RECURSIVE parseline(_, _), parsepipe(_, _), parseblock(_, _)
parseexec(s, i) == IF peek(s, i, {"("}) THEN parseblock(s, i) ELSE Args(s, i, <<>>, <<>>)

parsepipe(s, i) ==
  LET l == parseexec(s, i) IN
  IF l.at = 0 \/ ~peek(s, l.at, {"|"}) THEN l
  ELSE LET r == parsepipe(s, l.at + 1) IN
       IF r.at = 0 THEN Panic ELSE Result(pipecmd(l.cmd, r.cmd, l.at), r.at)

parseline(s, i) ==
  LET p == parsepipe(s, i)
      l == Ampersands(s, p.cmd, p.at) IN
  IF p.at = 0 THEN Panic
  ELSE IF ~peek(s, l.at, {";"}) THEN l
  ELSE LET r == parseline(s, l.at + 1) IN
       IF r.at = 0 THEN Panic ELSE Result(listcmd(l.cmd, r.cmd), r.at)

parseblock(s, i) ==
  LET b == parseline(s, i + 1)
      r == parseredirs(s, b.at + 1, <<>>) IN
  IF b.at = 0 \/ ~peek(s, b.at, {")"}) \/ r.at = 0 THEN Panic
  ELSE Result(Redirected(b.cmd, r.cmd), r.at)

\* With leftovers the line is refused.
parsecmd(s) == LET r == parseline(s, 1) IN IF r.at = Len(s) + 1 THEN r ELSE Panic

------------------------------------------------------------------------------
(* What a line means, by splitting it: at its first semicolon outside           *)
(* parentheses, then at its first bar.  P is the set of places of a part of it.  *)

Depth(s, P, i) == Cardinality({j \in P : j <= i /\ s[j] = "("})
                  - Cardinality({j \in P : j < i /\ s[j] = ")"})
Outside(s, P, t) == {i \in P : s[i] = t /\ Depth(s, P, i) = 0}
Below(P, k) == {i \in P : i < k}
Above(P, k) == {i \in P : i > k}
Sorted(P) == SetToSortSeq(P, <)
Bad == <<"BAD">>
Node(parts, c) == IF Bad \in parts THEN Bad ELSE c

Marks(s, P) == {i \in P : s[i] \in {"<", ">"}}
Words(s, P) == P \ (Marks(s, P) \cup {i + 1 : i \in Marks(s, P)})
\* Words and redirections, each with its file.
IsSimple(s, P) == /\ \A i \in P : s[i] \in {"a", "<", ">"}
                  /\ \A i \in Marks(s, P) : i + 1 \in P /\ s[i + 1] = "a"
                  /\ Cardinality(Words(s, P)) < MAXARGS
WithRedirs(c, s, P) ==
  LET M == Sorted(Marks(s, P)) IN
  Redirected(c, [j \in 1..Len(M) |-> <<IF s[M[j]] = "<" THEN 0 ELSE 1, M[j] + 1>>])

RECURSIVE LineMeans(_, _)
ExecMeans(s, P) ==
  IF IsSimple(s, P) THEN WithRedirs(execcmd(Sorted(Words(s, P))), s, P)
  ELSE LET ends == {i \in P : s[i] = ")" /\ Depth(s, P, i) = 1}
           T == Above(P, Min(ends))
       IN IF s[Min(P)] # "(" \/ ends = {} THEN Bad
          ELSE IF ~IsSimple(s, T) \/ Words(s, T) # {} THEN Bad
          ELSE LET c == LineMeans(s, Below(P, Min(ends)) \ {Min(P)}) IN
               Node({c}, WithRedirs(c, s, T))

RECURSIVE PipeMeans(_, _)
PipeMeans(s, P) ==
  LET bars == Outside(s, P, "|") IN
  IF bars = {} THEN ExecMeans(s, P)
  ELSE LET k == Min(bars)  l == ExecMeans(s, Below(P, k))  r == PipeMeans(s, Above(P, k)) IN
       Node({l, r}, pipecmd(l, r, k))

RECURSIVE BackMeans(_, _)
BackMeans(s, P) ==
  IF P = {} \/ s[Max(P)] # "&" THEN PipeMeans(s, P)
  ELSE LET c == BackMeans(s, P \ {Max(P)}) IN Node({c}, backcmd(c))

LineMeans(s, P) ==
  LET semis == Outside(s, P, ";") IN
  IF semis = {} THEN BackMeans(s, P)
  ELSE LET k == Min(semis)  l == BackMeans(s, Below(P, k))  r == LineMeans(s, Above(P, k)) IN
       Node({l, r}, listcmd(l, r))

------------------------------------------------------------------------------
(* Running a command. *)

None == <<>>
Tty == <<"console">>
Fds == 0..4
Dead == [pc |-> "none", cmd |-> <<>>, fds |-> [d \in Fds |-> None], parent |-> 0]

\* A new child of p, with pc and command, and the descriptors F.
Child(p, c, F) == [pc |-> "cmd", cmd |-> c, fds |-> F, parent |-> p]
FreePid == Min({q \in Pids : procs[q].pc = "none" /\ q > 1})

Init ==
  /\ line \in {<<>>} \cup RunLines
  /\ procs = [q \in Pids |-> IF q = 1
       THEN [pc |-> "prompt", cmd |-> <<>>, parent |-> 0,
             fds |-> [d \in Fds |-> IF d <= 2 THEN Tty ELSE None]] ELSE Dead]

\* getcmd: the line is typed; one line is run in a behaviour.
Type(t) == /\ procs[1].pc = "prompt" /\ Len(line) < MaxLine
           /\ line' = Append(line, t) /\ UNCHANGED procs

Is(p, type) == procs[p].pc = "cmd" /\ procs[p].cmd # <<>> /\ procs[p].cmd[1] = type
\* The first free descriptor is used, as fdalloc does.
Lowest(F) == Min({d \in Fds : F[d] = None})
Put(F, o) == [F EXCEPT ![Lowest(F)] = o]
Closed(F, D) == [d \in Fds |-> IF d \in D THEN None ELSE F[d]]

\* exit: children go to init, which waits for them.
Exits(P, p) == [q \in Pids |->
  IF q = p THEN IF P[p].parent = 0 THEN Dead ELSE [Dead EXCEPT !.pc = "zombie", !.parent = P[p].parent]
  ELSE IF P[q].parent # p THEN P[q]
  ELSE IF P[q].pc = "zombie" THEN Dead ELSE [P[q] EXCEPT !.parent = 0]]
exit(p) == procs' = Exits(procs, p) /\ UNCHANGED line

\* main: a child parses the line and runs it; at the end of the input, or when it
\* cannot fork, the shell exits.  A "cd" line changes no process.
main ==
  /\ procs[1].pc = "prompt"
  /\ \/ line \in RunLines \cup {<<>>} /\ exit(1)
     \/ /\ line \in RunLines
        /\ procs' = [procs EXCEPT ![1].pc = "wait",
                       ![FreePid] = Child(1, parsecmd(line).cmd, procs[1].fds)]
        /\ UNCHANGED line

\* EXEC: an empty command exits; the program, if there is one, runs.
runExec(p) ==
  /\ Is(p, "EXEC")
  /\ \/ exit(p)
     \/ /\ procs[p].cmd[2] # <<>>
        /\ procs' = [procs EXCEPT ![p].pc = "program"] /\ UNCHANGED line

\* A program reads its input to the end and exits.
program(p) ==
  /\ procs[p].pc = "program"
  /\ LET i == procs[p].fds[0] IN
     i[1] = "r" => \A q \in Pids : \A d \in Fds : procs[q].fds[d] # <<"w", i[2]>>
  /\ exit(p)

runRedir(p) ==
  /\ Is(p, "REDIR")
  /\ \/ exit(p)
     \/ /\ procs' = [procs EXCEPT ![p].fds = Put(Closed(@, {procs[p].cmd[3]}), <<"file", procs[p].cmd[4]>>),
                                  ![p].cmd = @[2]]
        /\ UNCHANGED line

\* Mutant: the child leaves p[1] open.
PluggedOpen(F, fd, o, r, w) == Closed(Put(Closed(F, {fd}), o), {r})

\* The child's close(fd), dup(e), close(p[0]), close(p[1]), p[0] and p[1] being r and w.
Plugged(F, fd, o, r, w) == Closed(Put(Closed(F, {fd}), o), {r, w})

\* pipe: the read end gets the first free descriptor, the write end the next.
sys_pipe(F, id) == Put(Put(F, <<"r", id>>), <<"w", id>>)
EndOf(F, o) == CHOOSE d \in Fds : F[d] = o

\* pipe, and the fork of the left command; without descriptors panic exits.
runPipe(p) ==
  LET c == procs[p].cmd  F == sys_pipe(procs[p].fds, c[4])
      r == EndOf(F, <<"r", c[4]>>)  w == EndOf(F, <<"w", c[4]>>) IN
  /\ Is(p, "PIPE")
  /\ \/ exit(p)
     \/ /\ procs' = [procs EXCEPT ![p].pc = "right", ![p].fds = F,
                       ![FreePid] = Child(p, c[2], Plugged(F, 1, <<"w", c[4]>>, r, w))]
        /\ UNCHANGED line

\* Mutant: the parent keeps the write end.
runRightKeeps(p) ==
  LET c == procs[p].cmd  F == procs[p].fds
      r == EndOf(F, <<"r", c[4]>>)  w == EndOf(F, <<"w", c[4]>>) IN
  /\ procs[p].pc = "right"
  /\ procs' = [procs EXCEPT ![p].pc = "wait2", ![p].fds = Closed(@, {r}),
                 ![FreePid] = Child(p, c[3], Plugged(F, 0, <<"r", c[4]>>, r, w))]
  /\ UNCHANGED line

\* The fork of the right command; the parent closes both ends.
runRight(p) ==
  LET c == procs[p].cmd  F == procs[p].fds
      r == EndOf(F, <<"r", c[4]>>)  w == EndOf(F, <<"w", c[4]>>) IN
  /\ procs[p].pc = "right"
  /\ \/ exit(p)
     \/ /\ procs' = [procs EXCEPT ![p].pc = "wait2", ![p].fds = Closed(@, {r, w}),
                       ![FreePid] = Child(p, c[3], Plugged(F, 0, <<"r", c[4]>>, r, w))]
        /\ UNCHANGED line

\* LIST and BACK fork; when fork fails, fork1 exits.
runList(p) ==
  /\ Is(p, "LIST") \/ Is(p, "BACK")
  /\ LET P == [procs EXCEPT ![FreePid] = Child(p, procs[p].cmd[2], procs[p].fds)] IN
     \/ exit(p)
     \/ procs' = (IF Is(p, "BACK") THEN Exits(P, p) ELSE [P EXCEPT ![p].pc = "wait1"]) /\ UNCHANGED line

\* wait: a zombie child is reaped; each wait has a child.
Then(p, P) ==
  CASE P[p].pc = "wait"  -> [P EXCEPT ![p].pc = "next"]
    [] P[p].pc = "wait1" -> [P EXCEPT ![p].pc = "cmd", ![p].cmd = P[p].cmd[3]]
    [] P[p].pc = "wait2" -> [P EXCEPT ![p].pc = "last"]
    [] P[p].pc = "last"  -> Exits(P, p)
wait(p) ==
  /\ procs[p].pc \in {"wait", "wait1", "wait2", "last"}
  /\ \E q \in Pids : /\ procs[q].pc = "zombie" /\ procs[q].parent = p
                     /\ procs' = Then(p, [procs EXCEPT ![q] = Dead])
  /\ UNCHANGED line

Step(p) == \/ runExec(p) \/ program(p) \/ runRedir(p) \/ runPipe(p) \/ runRight(p) \/ runList(p)
           \/ wait(p)
Next == (\E t \in Tokens : Type(t)) \/ main \/ \E p \in Pids : Step(p)
Spec == Init /\ [][Next]_vars
------------------------------------------------------------------------------
\* The words of each program of a command, with its input and its output.
RECURSIVE Plan(_, _, _)
Plan(c, i, o) ==
  CASE c[1] = "EXEC"  -> {<<c[2], i, o>>}
    [] c[1] = "REDIR" -> Plan(c[2], IF c[3] = 0 THEN <<"file", c[4]>> ELSE i,
                                    IF c[3] = 1 THEN <<"file", c[4]>> ELSE o)
    [] c[1] = "BACK"  -> Plan(c[2], i, o)
    [] c[1] = "LIST"  -> Plan(c[2], i, o) \cup Plan(c[3], i, o)
    [] c[1] = "PIPE"  -> Plan(c[2], i, <<"w", c[4]>>) \cup Plan(c[3], <<"r", c[4]>>, o)

\* The parser accepts the lines that have a meaning, and yields that meaning.
ParseExact ==
  LET m == LineMeans(line, 1..Len(line)) IN
  parsecmd(line) = IF m = Bad THEN Panic ELSE Result(m, Len(line) + 1)

\* What runs is what the line says: the parser yields the meaning of the line or
\* refuses a line without one, and each program starts with the input and output that
\* the line gives it and no other descriptor, so that what runcmd closes and
\* dups in its processes leaves no end of a pipe behind.
RunsAsWritten ==
  /\ procs[1].pc = "prompt" => ParseExact
  /\ \A p \in Pids : procs[p].pc = "program" =>
       LET F == procs[p].fds IN
       /\ <<procs[p].cmd[2], F[0], F[1]>> \in Plan(LineMeans(line, 1..Len(line)), Tty, Tty)
       /\ F[2] = Tty /\ \A d \in Fds \ 0..2 : F[d] = None
==============================================================================
