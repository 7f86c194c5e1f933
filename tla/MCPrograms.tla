----------------------------- MODULE MCPrograms -----------------------------
(***************************************************************************)
(* What programs rely on: the signals of a process, and the shell.  They   *)
(* share no state, so one run explores one after the other: part says      *)
(* which, the other stays as it begins.                                    *)
(***************************************************************************)
EXTENDS MCSignals, Sequences

VARIABLES part, line, procs

\* Lines to run: pipes, lists, blocks, redirections and background jobs in one another.
ToRun == {<<"a", "|", "a", "|", "a">>, <<"(", "a", ";", "a", ">", "a", ")", "|", "a">>,
          <<"(", "a", "&", ")", "|", "a">>, <<"a", "&", ";", "a", "|", "a">>,
          <<"a", "<", "a", ">", "a", "|", "a", ">", "a">>,
          <<"(", "(", "a", "|", "a", ")", "&", ";", "a", ")", "|", "a">>}
S == INSTANCE Shell WITH MaxLine <- 5, RunLines <- ToRun, Pids <- 1..8, MAXARGS <- 3

allvars == <<part, line, procs, vars>>

MCInit ==
  /\ Init
  /\ \/ part = "signals" /\ line = <<>> /\ procs = <<>>
     \/ part = "shell" /\ S!Init /\ \A p \in Procs : tf[p].eip = CHOOSE x \in Points : TRUE

OnSignals(A) == part = "signals" /\ A /\ UNCHANGED <<part, line, procs>>
OnShell(A) == part = "shell" /\ A /\ UNCHANGED <<part, vars>>

MCNext == OnSignals(Next) \/ OnShell(S!Next)

\* Fairness of Signals; and while a process of the shell's can run, one of them does.
MCSpec ==
  /\ MCInit /\ [][MCNext]_allvars
  /\ \A p \in Procs :
       /\ WF_allvars(OnSignals(Handle(p))) /\ WF_allvars(OnSignals(SigsendWrite(p)))
       /\ WF_allvars(OnSignals(Call(p))) /\ SF_allvars(OnSignals(Returns(p) /\ Sigreturn(p)))
  /\ WF_allvars(OnShell(\E i \in 1..8 : S!Step(i)))
------------------------------------------------------------------------------
In(x, F) == part = x /\ F

\* What runs is what the line says, with the descriptors the line says.
RunsAsWritten == part = "shell" => S!RunsAsWritten

\* Every line is followed by another prompt, if programs end at the end of their
\* input: no process keeps the write end of a pipe that another reads to the end,
\* and each wait has its child.
PromptReturns == In("shell", procs[1].pc = "wait") ~> In("shell", procs[1].pc = "next")
==============================================================================
