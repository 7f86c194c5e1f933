------------------------------ MODULE MCSpinlock ------------------------------
(* Two of the locks of the kernel, in both the orders in which it takes them. *)
EXTENDS Spinlock

CONSTANTS tickslock, ptable

\* The timer and sys_sleep take ptable.lock inside tickslock; allocproc and
\* exit take tickslock inside ptable.lock.
Kernel == {<<tickslock, ptable>>, <<ptable, tickslock>>}
==============================================================================
