------------------------------ MODULE MCSignals ------------------------------
(* Small instances of Signals. *)
EXTENDS Signals

CONSTANTS p1, p2

\* A process that signals itself, as test.c does; one process that signals
\* another.
SelfSends == {<<p, p>> : p \in Procs}
OneWay == {<<p1, p2>>}
==============================================================================
