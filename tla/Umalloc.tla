------------------------------- MODULE Umalloc -------------------------------
(***************************************************************************)
(* The user-level allocator, umalloc.c: a circular free list of blocks     *)
(* that starts in base.  Addresses count in headers; base lies below the   *)
(* heap, as the data segment does.  The program also calls sbrk itself.    *)
(***************************************************************************)
EXTENDS Naturals, Sequences, FiniteSets

CONSTANTS
  LIMIT,       \* the break up to which sbrk succeeds
  MORECORE,    \* the units morecore asks for at least: 4096
  Requests     \* nunits of the mallocs, and units of the program's own sbrks

base == 0
Start == 2                 \* the break when the program starts
Nil == LIMIT + 1
Addrs == 0..LIMIT

VARIABLES
  heap,    \* size and ptr of the headers; freep; brk
  inUse,   \* the blocks the program holds, by the address of their header
  own      \* the units the program took with sbrk itself

vars == <<heap, inUse, own>>

Init == /\ heap = [size |-> [a \in Addrs |-> 0], ptr |-> [a \in Addrs |-> Nil],
                   freep |-> Nil, brk |-> Start]
        /\ inUse = {} /\ own = {}

------------------------------------------------------------------------------
(* These take the heap before a call and return it after the call. *)

\* Where free's loop stops: bp is between p and its successor, or p is the last
\* block and bp is beyond either end.
Place(H, bp) ==
  LET Here(p) == LET q == H.ptr[p] IN \/ bp > p /\ bp < q
                                      \/ p >= q /\ (bp > p \/ bp < q)
      f[p \in Addrs] == IF Here(p) THEN p ELSE f[H.ptr[p]]
  IN f[H.freep]

\* Mutant: a block is not joined to the one above it.
freeLower(H, bp) ==
  LET p == Place(H, bp)
      H1 == [H EXCEPT !.ptr[bp] = H.ptr[p], !.freep = p] IN
  IF p + H1.size[p] = bp
  THEN [H1 EXCEPT !.size[p] = @ + H1.size[bp], !.ptr[p] = H1.ptr[bp]]
  ELSE [H1 EXCEPT !.ptr[p] = bp]

free(H, bp) ==
  LET p == Place(H, bp)
      q == H.ptr[p]
      H1 == IF bp + H.size[bp] = q
            THEN [H EXCEPT !.size[bp] = @ + H.size[q], !.ptr[bp] = H.ptr[q], !.freep = p]
            ELSE [H EXCEPT !.ptr[bp] = q, !.freep = p]
  IN IF p + H1.size[p] = bp
     THEN [H1 EXCEPT !.size[p] = @ + H1.size[bp], !.ptr[p] = H1.ptr[bp]]
     ELSE [H1 EXCEPT !.ptr[p] = bp]

CanGrow(H, n) == H.brk + n <= LIMIT

\* The new block is put on the list by free.
morecore(H, n) ==
  LET nu == IF n < MORECORE THEN MORECORE ELSE n IN
  free([H EXCEPT !.size[H.brk] = nu, !.brk = @ + nu], H.brk)

\* The block before the first that fits, from freep on; Nil after a full turn.
PrevOfFit(H, n) ==
  LET f[prevp \in Addrs] ==
        LET p == H.ptr[prevp] IN
        IF H.size[p] >= n THEN prevp ELSE IF p = H.freep THEN Nil ELSE f[p]
  IN f[H.freep]

\* The tail of the block after prevp is cut off, or the block taken whole.
\* Yields the heap and the block's header.
Cut(H, prevp, n) ==
  LET p == H.ptr[prevp]  q == p + (H.size[p] - n) IN
  IF H.size[p] = n
  THEN [h |-> [H EXCEPT !.ptr[prevp] = H.ptr[p], !.freep = prevp], bp |-> p]
  ELSE [h |-> [H EXCEPT !.size[p] = @ - n, !.size[q] = n, !.freep = prevp], bp |-> q]

\* bp is Nil when sbrk fails.
malloc(H, n) ==
  LET H0 == IF H.freep = Nil THEN [H EXCEPT !.ptr[base] = base, !.freep = base] ELSE H
      nu == IF n < MORECORE THEN MORECORE ELSE n
  IN IF PrevOfFit(H0, n) # Nil THEN Cut(H0, PrevOfFit(H0, n), n)
     ELSE IF ~CanGrow(H0, nu) THEN [h |-> H0, bp |-> Nil]
     ELSE LET H1 == morecore(H0, n) IN Cut(H1, PrevOfFit(H1, n), n)

------------------------------------------------------------------------------
\* A header that is neither free nor in use is left as dirt, and not told apart.
Clean(H, U) ==
  LET live == U \cup {a \in Addrs : \E b \in Addrs : H.ptr[b] = a} IN
  [H EXCEPT !.size = [a \in Addrs |-> IF a \in live THEN @[a] ELSE 0],
            !.ptr = [a \in Addrs |-> IF a \in live \ U THEN @[a] ELSE Nil]]

Malloc(n) == LET r == malloc(heap, n)
                 U == IF r.bp = Nil THEN inUse ELSE inUse \cup {r.bp} IN
             heap' = Clean(r.h, U) /\ inUse' = U /\ UNCHANGED own

Free(bp) == /\ inUse' = inUse \ {bp}
            /\ heap' = Clean(free(heap, bp), inUse')
            /\ UNCHANGED own

Sbrk(n) == /\ CanGrow(heap, n)
           /\ heap' = [heap EXCEPT !.brk = @ + n]
           /\ own' = own \cup (heap.brk..heap.brk + n - 1)
           /\ UNCHANGED inUse

Next == \/ \E n \in Requests : Malloc(n) \/ Sbrk(n)
        \/ \E bp \in inUse : Free(bp)

Spec == Init /\ [][Next]_vars
------------------------------------------------------------------------------
Units(a) == a..a + heap.size[a] - 1
FreeBlocks == {a \in Addrs \ {base} : heap.ptr[a] # Nil}

\* malloc and free account for every unit that sbrk gave them: the blocks in use,
\* the free blocks and the program's own units do not overlap and leave nothing
\* out; the list runs through the free blocks in the order of their addresses
\* and no two of them touch.
HeapExact ==
  LET B == FreeBlocks \cup inUse IN
  /\ \A a, b \in B : a # b => Units(a) \cap Units(b) = {}
  /\ own \cap UNION {Units(a) : a \in B} = {}
  /\ own \cup UNION {Units(a) : a \in B} = Start..heap.brk - 1
  /\ \A a, b \in FreeBlocks : b # a + heap.size[a]
  /\ heap.freep # Nil => \A a \in FreeBlocks \cup {base} :
       LET above == {b \in FreeBlocks : b > a} IN
       heap.ptr[a] = IF above = {} THEN base ELSE CHOOSE b \in above : \A c \in above : b <= c
==============================================================================
