------------------------------- MODULE Memory -------------------------------
(***************************************************************************)
(* Physical pages and address spaces: kalloc.c, vm.c, exec, and the parts  *)
(* of fork, growproc, exit and wait that give pages out and take them      *)
(* back.  Calls of different processes run on different processors and     *)
(* share kmem's free list, so a call is one step per allocation.  Freeing  *)
(* neither waits nor fails and is one step.  The order of the free list is *)
(* not told apart: kalloc takes the least page.                            *)
(***************************************************************************)
EXTENDS Naturals, Sequences, FiniteSets, FiniteSetsExt

CONSTANTS
  Slots,               \* the process table's entries: numbers, the least is init's
  Pages,               \* what freerange puts on the list: page numbers above 0
  NPTENTRIES,          \* pages mapped by one page table
  VMAX,                \* KERNBASE, in pages
  Programs,            \* what exec may find in a file: see Segment
  MaxCalls             \* bound: the system calls of a behaviour

Init0 == Min(Slots)
VPages == 0..VMAX - 1
Tabs == 0..(VMAX - 1) \div NPTENTRIES
TabOf(v) == v \div NPTENTRIES

\* A program header of type ELF_PROG_LOAD: the page of vaddr, whether vaddr is the
\* page's first address, and the ends of what is in the file and of the segment.
Segment == [va : VPages, aligned : BOOLEAN, fileEnd : 0..VMAX, end : 0..VMAX]

VARIABLES
  free,    \* kmem.freelist
  proc,    \* state, kstack, address space and size of each entry
  cr3,     \* the directory loaded on the processor of each process; 0: kpgdir
  job,     \* the system call of each process
  calls,   \* system calls made
  short,   \* mappages has been refused a page for a table
  panic    \* the kernel has stopped

vars == <<free, proc, cr3, job, calls, short, panic>>

\* An address space: directory, the kernel's page tables (one stands for all), the
\* user's page tables and the pages they map; 0: not present.
NoSpace == [dir |-> 0, kt |-> 0, tab |-> [t \in Tabs |-> 0], pte |-> [v \in VPages |-> 0]]
Unused == [state |-> "UNUSED", kstack |-> 0, as |-> NoSpace, sz |-> 0]
\* as: the space under construction, or the old one after exec's commit;
\* i..end-1: the pages still to be mapped, from start; mem: a page that waits for its
\* table; prog: the segments that exec has still to load.
NoJob == [op |-> "none", pc |-> "user", as |-> NoSpace, start |-> 0, i |-> 0, end |-> 0,
          mem |-> 0, prog |-> <<>>, child |-> Init0]

PagesOf(s) == ({s.dir, s.kt} \cup {s.tab[t] : t \in Tabs} \cup {s.pte[v] : v \in VPages}) \ {0}

------------------------------------------------------------------------------
kalloc == IF free = {} THEN 0 ELSE Min(free)
kfree(P) == free' = free \cup P

\* init after userinit: inituvm has mapped its one page.
Init ==
  LET s == [NoSpace EXCEPT !.dir = 2, !.kt = 3, !.tab[0] = 4, !.pte[0] = 5] IN
  /\ proc = [p \in Slots |-> IF p = Init0 THEN [state |-> "RUNNING", kstack |-> 1, as |-> s, sz |-> 1]
                             ELSE Unused]
  /\ free = Pages \ 1..5
  /\ cr3 = [p \in Slots |-> IF p = Init0 THEN 2 ELSE 0]
  /\ job = [p \in Slots |-> NoJob] /\ calls = 0 /\ short = FALSE /\ panic = FALSE

At(p, pc) == proc[p].state = "RUNNING" /\ job[p].pc = pc /\ ~panic
User(p) == At(p, "user")

\* Pages v >= newsz below oldsz are unmapped; page tables stay.
deallocuvm(s, oldsz, newsz) == [s EXCEPT !.pte = [v \in VPages |->
                                  IF v >= newsz /\ v < oldsz THEN 0 ELSE s.pte[v]]]

------------------------------------------------------------------------------
(* The calls. *)

\* fork: allocproc takes the first entry that is free, and a kernel stack.
fork(p) ==
  LET unused == {s \in Slots : proc[s].state = "UNUSED"}
      c == Min(unused) IN
  /\ User(p) /\ unused # {} /\ kalloc # 0
  /\ free' = free \ {kalloc}
  /\ proc' = [proc EXCEPT ![c].state = "EMBRYO", ![c].kstack = kalloc]
  /\ job' = [job EXCEPT ![p] = [NoJob EXCEPT !.op = "fork", !.pc = "dir", !.end = proc[p].sz,
                                              !.child = c]]
  /\ UNCHANGED <<cr3, short, panic>>

exec(p) ==
  /\ User(p)
  /\ \E prog \in Programs :
       job' = [job EXCEPT ![p] = [NoJob EXCEPT !.op = "exec", !.pc = "dir", !.prog = prog]]
  /\ UNCHANGED <<free, proc, cr3, short, panic>>

\* sbrk(n) with n > 0, where allocuvm does not refuse the size at once.
growproc(p, n) ==
  /\ User(p) /\ proc[p].sz + n < VMAX
  /\ job' = [job EXCEPT ![p] = [NoJob EXCEPT !.op = "grow", !.pc = "page", !.start = proc[p].sz,
                                              !.i = proc[p].sz, !.end = proc[p].sz + n]]
  /\ UNCHANGED <<free, proc, cr3, short, panic>>

\* sbrk(-n): for the new size 0 growproc takes deallocuvm's result for an error and
\* leaves sz; the process has lost its text and the next trap ends it.
shrinkproc(p, newsz) ==
  /\ User(p) /\ newsz < proc[p].sz
  /\ LET s == deallocuvm(proc[p].as, proc[p].sz, newsz) IN
     /\ kfree(PagesOf(proc[p].as) \ PagesOf(s))
     /\ proc' = [proc EXCEPT ![p].as = s, ![p].sz = IF newsz = 0 THEN @ ELSE newsz]
     /\ job' = [job EXCEPT ![p].pc = IF newsz = 0 THEN "fault" ELSE "user"]
  /\ UNCHANGED <<cr3, short, panic>>

\* The end of a call that failed: fork gives the entry and the stack back.
Failed(p, P, s) ==
  LET c == job[p].child  j == job[p] IN
  /\ kfree(P \cup IF j.op = "fork" THEN {proc[c].kstack} ELSE {})
  /\ proc' = IF j.op = "fork" THEN [proc EXCEPT ![c] = Unused]
             ELSE IF j.op = "grow" THEN [proc EXCEPT ![p].as = s] ELSE proc
  /\ job' = [job EXCEPT ![p] = NoJob]
  /\ UNCHANGED <<cr3, panic>>

------------------------------------------------------------------------------
\* setupkvm: the directory, then the kernel's tables; without a page for those
\* it returns 0 and the directory is nobody's.
setupkvm(p) ==
  \/ /\ At(p, "dir") /\ kalloc # 0
     /\ free' = free \ {kalloc}
     /\ job' = [job EXCEPT ![p].as.dir = kalloc, ![p].pc = "kmap"]
     /\ UNCHANGED <<proc, cr3, short, panic>>
  \/ /\ At(p, "dir") /\ kalloc = 0 /\ Failed(p, {}, NoSpace) /\ UNCHANGED short
  \/ /\ At(p, "kmap") /\ kalloc # 0
     /\ free' = free \ {kalloc}
     /\ job' = [job EXCEPT ![p].as.kt = kalloc,
                           ![p].pc = IF job[p].op = "exec" THEN "header" ELSE "page"]
     /\ UNCHANGED <<proc, cr3, short, panic>>
  \/ /\ At(p, "kmap") /\ kalloc = 0 /\ Failed(p, {}, NoSpace) /\ short' = TRUE

\* The space that the call of p fills.
Space(p) == IF job[p].op = "grow" THEN proc[p].as ELSE job[p].as
\* Page i is done, as the space s says.
Mapped(p, s) ==
  LET j == [job[p] EXCEPT !.pc = "page", !.i = @ + 1, !.mem = 0] IN
  IF j.op = "grow"
  THEN proc' = [proc EXCEPT ![p].as = s] /\ job' = [job EXCEPT ![p] = j]
  ELSE job' = [job EXCEPT ![p] = [j EXCEPT !.as = s]] /\ UNCHANGED proc

\* copyuvm's parent page is there.
CanCopy(p) == job[p].op # "fork" \/ proc[p].as.pte[job[p].i] # 0

\* One turn of the loop of allocuvm, or of copyuvm: a page, which waits if there is
\* no table for it.
mappages(p) ==
  LET s == Space(p)  v == job[p].i IN
  /\ At(p, "page") /\ v < job[p].end /\ CanCopy(p) /\ kalloc # 0
  /\ free' = free \ {kalloc}
  /\ IF s.tab[TabOf(v)] # 0 THEN Mapped(p, [s EXCEPT !.pte[v] = kalloc])
     ELSE job' = [job EXCEPT ![p].pc = "table", ![p].mem = kalloc] /\ UNCHANGED proc
  /\ UNCHANGED <<cr3, short, panic>>

walkpgdir(p) ==
  LET s == Space(p)  v == job[p].i IN
  /\ At(p, "table") /\ kalloc # 0
  /\ free' = free \ {kalloc}
  /\ Mapped(p, [s EXCEPT !.tab[TabOf(v)] = kalloc, !.pte[v] = job[p].mem])
  /\ UNCHANGED <<cr3, short, panic>>

\* No page for the table: copyuvm gives up, without the page; allocuvm does not
\* look at the result and leaves a hole.
mappagesFails(p) ==
  LET s == Space(p) IN
  /\ At(p, "table") /\ kalloc = 0
  /\ short' = TRUE
  /\ IF job[p].op = "fork" THEN Failed(p, PagesOf(s), s)
     ELSE Mapped(p, s) /\ UNCHANGED <<free, cr3, panic>>

\* Mutant: the pages mapped so far are left in place.
OutOfMemoryKeeps(p) ==
  LET s == Space(p) IN
  /\ At(p, "page") /\ job[p].i < job[p].end /\ CanCopy(p) /\ kalloc = 0
  /\ Failed(p, IF job[p].op = "grow" THEN {} ELSE PagesOf(s), s)
  /\ UNCHANGED short

\* No page: allocuvm takes back what it mapped, and exec's bad: frees the rest;
\* copyuvm frees its copy.
OutOfMemory(p) ==
  LET s == Space(p)
      t == IF job[p].op = "grow" THEN deallocuvm(s, job[p].end, job[p].start) ELSE NoSpace IN
  /\ At(p, "page") /\ job[p].i < job[p].end /\ CanCopy(p) /\ kalloc = 0
  /\ Failed(p, PagesOf(s) \ PagesOf(t), t)
  /\ UNCHANGED short

\* The loop has ended, or copyuvm met a page that is not present.
growproced(p) ==
  /\ At(p, "page") /\ job[p].i = job[p].end /\ job[p].op = "grow"
  /\ proc' = [proc EXCEPT ![p].sz = job[p].end]
  /\ job' = [job EXCEPT ![p] = NoJob]
  /\ UNCHANGED <<free, cr3, short, panic>>

forked(p) ==
  LET c == job[p].child IN
  /\ At(p, "page") /\ job[p].i = job[p].end /\ job[p].op = "fork"
  /\ proc' = [proc EXCEPT ![c].state = "RUNNING", ![c].as = job[p].as, ![c].sz = job[p].end]
  /\ cr3' = [cr3 EXCEPT ![c] = job[p].as.dir]
  /\ job' = [job EXCEPT ![p] = NoJob]
  /\ UNCHANGED <<free, short, panic>>

copyuvmPanic(p) ==
  /\ At(p, "page") /\ job[p].i < job[p].end /\ ~CanCopy(p)
  /\ panic' = TRUE
  /\ UNCHANGED <<free, proc, cr3, job, short>>

------------------------------------------------------------------------------
\* walkpgdir finds no table for one of these pages.
NoTable(s, V) == \E v \in V : s.tab[TabOf(v)] = 0

\* exec's loop over the program headers: allocuvm for the next segment, or for the
\* guard page and the stack after the last one.  It refuses a size of VMAX or more
\* and leaves a smaller one as it is; a size of 0 is an error to exec.  The file may
\* be too short, or a segment larger in the file than in memory.
ProgramHeader(p) ==
  LET j == job[p]
      new == IF j.prog = <<>> THEN j.end + 2 ELSE Max({Head(j.prog).end, j.end}) IN
  /\ At(p, "header")
  /\ \/ (j.prog # <<>> \/ new >= VMAX) /\ Failed(p, PagesOf(j.as), NoSpace) /\ UNCHANGED short
     \/ /\ new \in 1..VMAX - 1
        /\ job' = [job EXCEPT ![p].i = j.end, ![p].end = new, ![p].pc = "page"]
        /\ UNCHANGED <<free, proc, cr3, short, panic>>

\* The segment is mapped: loaduvm stops if its address is not aligned or a table is
\* missing, fails on a short read, and else exec goes on to the next one.  (Of a
\* hole in a table it reads the program into physical page 0, which is not on the
\* list.)
loaduvm(p) ==
  LET j == job[p]
      seg == Head(j.prog)
      stops == ~seg.aligned \/ NoTable(j.as, seg.va..seg.fileEnd - 1) IN
  /\ At(p, "page") /\ j.op = "exec" /\ j.i = j.end /\ j.prog # <<>>
  /\ \/ stops /\ panic' = TRUE /\ UNCHANGED <<free, proc, cr3, job, short>>
     \/ seg.aligned /\ Failed(p, PagesOf(j.as), NoSpace) /\ UNCHANGED short
     \/ /\ ~stops
        /\ job' = [job EXCEPT ![p].pc = "header", ![p].prog = Tail(j.prog)]
        /\ UNCHANGED <<free, proc, cr3, short, panic>>

\* copyout can write to the page: uva2ka finds it.
CanCopyOut(s, v) == s.pte[v] # 0

\* The process has its new image.
Commit(p) ==
  /\ proc' = [proc EXCEPT ![p].as = job[p].as, ![p].sz = job[p].end]
  /\ job' = [job EXCEPT ![p].as = proc[p].as, ![p].pc = "commit"]

\* clearpteu needs the guard page's table, copyout the stack page and its table
\* (without it uva2ka reads through a null pointer: the call fails, or the
\* machine stops); too many arguments are an error too.
pushArgs(p) ==
  LET j == job[p]  stack == j.end - 1  guard == j.end - 2 IN
  /\ At(p, "page") /\ j.op = "exec" /\ j.i = j.end /\ j.prog = <<>>
  /\ \/ /\ NoTable(j.as, {guard, stack})
        /\ panic' = TRUE /\ UNCHANGED <<free, proc, cr3, job, short>>
     \/ Failed(p, PagesOf(j.as), NoSpace) /\ UNCHANGED short
     \/ /\ ~NoTable(j.as, {guard, stack}) /\ CanCopyOut(j.as, stack)
        /\ Commit(p)
        /\ UNCHANGED <<free, cr3, short, panic>>

\* Mutant: the old space is freed while it is still loaded.
switchuvmLate(p) ==
  /\ At(p, "commit")
  /\ kfree(PagesOf(job[p].as))
  /\ job' = [job EXCEPT ![p].as = NoSpace, ![p].pc = "switched"]
  /\ UNCHANGED <<proc, cr3, short, panic>>

\* exec's commit: the new directory is loaded, then the old space freed.
switchuvm(p) ==
  /\ At(p, "commit")
  /\ cr3' = [cr3 EXCEPT ![p] = proc[p].as.dir]
  /\ job' = [job EXCEPT ![p].pc = "switched"]
  /\ UNCHANGED <<free, proc, short, panic>>

freevm(p) ==
  /\ At(p, "switched")
  /\ kfree(PagesOf(job[p].as))
  /\ job' = [job EXCEPT ![p] = NoJob]
  /\ UNCHANGED <<proc, cr3, short, panic>>

------------------------------------------------------------------------------
\* exit, up to the scheduler's switchkvm: ptable.lock is held until then.
exit(p) ==
  /\ (User(p) \/ At(p, "fault")) /\ p # Init0
  /\ proc' = [proc EXCEPT ![p].state = "ZOMBIE"]
  /\ cr3' = [cr3 EXCEPT ![p] = 0] /\ job' = [job EXCEPT ![p] = NoJob]
  /\ UNCHANGED <<free, short, panic>>

\* wait, for a child; who is whose child, Proc tells.
wait(p, c) ==
  /\ User(p) /\ proc[c].state = "ZOMBIE"
  /\ kfree(PagesOf(proc[c].as) \cup {proc[c].kstack})
  /\ proc' = [proc EXCEPT ![c] = Unused]
  /\ UNCHANGED <<cr3, job, short, panic>>

Call(p) == /\ calls < MaxCalls /\ calls' = calls + 1
           /\ \/ fork(p) \/ \E c \in Slots : wait(p, c)
              \/ exec(p) \/ \E n \in VPages : (n > 0 /\ growproc(p, n)) \/ shrinkproc(p, n)
              \/ exit(p)

Step(p) == /\ UNCHANGED calls
           /\ \/ setupkvm(p) \/ mappages(p) \/ walkpgdir(p) \/ mappagesFails(p) \/ OutOfMemory(p)
              \/ growproced(p) \/ forked(p) \/ copyuvmPanic(p)
              \/ ProgramHeader(p) \/ loaduvm(p) \/ pushArgs(p) \/ switchuvm(p) \/ freevm(p)

Next == \E p \in Slots : Call(p) \/ Step(p)

Spec == Init /\ [][Next]_vars
------------------------------------------------------------------------------
\* The pages of an entry, each under the role it has.
Roles(p) ==
  LET R(s, k) == {<<k, "dir", 0, s.dir>>, <<k, "kt", 0, s.kt>>}
                 \cup {<<k, "tab", t, s.tab[t]>> : t \in Tabs}
                 \cup {<<k, "pte", v, s.pte[v]>> : v \in VPages}
  IN {r \in R(proc[p].as, "as") \cup R(job[p].as, "job")
            \cup {<<"proc", "kstack", 0, proc[p].kstack>>, <<"job", "mem", 0, job[p].mem>>} :
        r[4] # 0}

Held == UNION {PagesOf(proc[p].as) \cup PagesOf(job[p].as) \cup {proc[p].kstack, job[p].mem} :
               p \in Slots}
        \ {0}

\* Every page has one use: no page is mapped twice or is free while fork, exec,
\* sbrk or a processor's cr3 uses it, however the calls interleave and wherever
\* they run out of memory; and until mappages has been refused a page, none is lost.
PagesExact ==
  /\ Held \cap free = {}
  /\ Cardinality(Held) = MapThenSumSet(LAMBDA p : Cardinality(Roles(p)), Slots)
  /\ ~short => Held \cup free = Pages
  /\ \A p \in Slots : cr3[p] # 0 => cr3[p] \in {proc[p].as.dir, job[p].as.dir}

\* exec is in loaduvm with a segment at an address that is not page aligned.
Misaligned(p) == job[p].pc = "page" /\ job[p].prog # <<>> /\ ~Head(job[p].prog).aligned

\* As long as mappages has not been refused a page the kernel does not stop in
\* copyuvm, clearpteu or, but for a program file with a segment that is not page
\* aligned, loaduvm, however many segments there are and in whatever order: a
\* process between calls has every page below its size, and never one above it.
SpaceWhole ==
  /\ panic => short \/ \E p \in Slots : Misaligned(p)
  /\ \A p \in Slots : User(p) => \A v \in VPages :
       /\ v >= proc[p].sz => proc[p].as.pte[v] = 0
       /\ v < proc[p].sz /\ ~short => proc[p].as.pte[v] # 0
==============================================================================
