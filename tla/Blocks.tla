------------------------------- MODULE Blocks -------------------------------
(***************************************************************************)
(* File contents: the block allocator, bmap, itrunc, readi and writei of   *)
(* fs.c under fileread and filewrite of file.c.  readi, writei and itrunc  *)
(* run under the inode's lock and share only the bitmap, whose block is    *)
(* locked, with calls on other inodes: each is one step.  filewrite is one *)
(* step per transaction.  A block is an array of BSIZE words; a number in  *)
(* an indirect block, like a byte of a file, takes one.  The log's sectors *)
(* are blocks like others to balloc; a behaviour ends with the step that   *)
(* makes one part of a file, for from then on the log overwrites the file. *)
(***************************************************************************)
EXTENDS Naturals, Sequences, FiniteSets, FiniteSetsExt, SequencesExt

CONSTANTS
  Inodes, Procs,
  NMETA,               \* blocks 0..NMETA-1: what mkfs marks as used
  SIZE,                \* sb.size: the blocks of the disk
  NLOG,                \* sb.nlog: the last blocks of the disk are the log's
  BSIZE, NDIRECT, BPB,
  LOGSIZE,             \* log_write takes LOGSIZE - 1 blocks, as nlog is LOGSIZE
  Bytes,
  Counts,              \* bound: the n of one call
  MaxCalls             \* bound: the calls of a behaviour

NINDIRECT == BSIZE
MAXFILE == NDIRECT + NINDIRECT
BlockNos == 0..SIZE - 1
LogBlocks == SIZE - NLOG..SIZE - 1

VARIABLES
  fs,      \* used: the bitmap; blk; addrs: of each inode; log: written in this
           \* transaction; panic: the function that has stopped the machine
  size,    \* ip->size
  off,     \* f->off of the one open file of each inode
  todo,    \* what a filewrite has still to write: inode and bytes
  got,     \* what the last read returned
  calls    \* calls made

vars == <<fs, size, off, todo, got, calls>>
Nothing == [ip |-> 0, src |-> <<>>]
Zeros == [j \in 0..BSIZE - 1 |-> 0]

\* balloc of mkfs.c: the first blocks are in use.  The log's are not marked.
Marked == 0..NMETA - 1

Init ==
  /\ fs = [used |-> Marked, blk |-> [b \in BlockNos |-> Zeros],
           addrs |-> [i \in Inodes |-> [j \in 0..NDIRECT |-> 0]], log |-> {}, panic |-> ""]
  /\ size = [i \in Inodes |-> 0] /\ off = [i \in Inodes |-> 0]
  /\ todo = [p \in Procs |-> Nothing] /\ got = <<>> /\ calls = 0

------------------------------------------------------------------------------
(* These take the file system before a call and return it after the call. *)

\* What log_write records: a block, or the name of an inode's or a bitmap's block.
BBLOCK(b) == <<"bitmap", b \div BPB>>
IBLOCK(i) == <<"inode", i>>
log_write(S, b) == IF Cardinality(S.log) >= LOGSIZE - 1 THEN [S EXCEPT !.panic = "log_write"]
                   ELSE [S EXCEPT !.log = @ \cup {b}]

Free(S) == BlockNos \ S.used

\* Mutant: the block is not zeroed.
ballocDirty(S) ==
  IF Free(S) = {} THEN [S EXCEPT !.panic = "balloc"]
  ELSE LET b == Min(Free(S)) IN
       log_write(log_write([S EXCEPT !.used = @ \cup {b}], BBLOCK(b)), <<"block", b>>)

\* The first free block is marked and zeroed; without one the machine stops.
balloc(S) ==
  IF Free(S) = {} THEN [S EXCEPT !.panic = "balloc"]
  ELSE LET b == Min(Free(S)) IN
       log_write(log_write([S EXCEPT !.used = @ \cup {b}, !.blk[b] = Zeros], BBLOCK(b)),
                 <<"block", b>>)

\* The block that balloc(S) returns.
Next1(S) == IF Free(S) = {} THEN 0 ELSE Min(Free(S))

bfree(S, b) == IF b \notin S.used THEN [S EXCEPT !.panic = "bfree"]
               ELSE log_write([S EXCEPT !.used = @ \ {b}], BBLOCK(b))

\* bmap, for the file system it leaves and for the address it returns.
bmap(S, i, bn) ==
  IF bn < NDIRECT
  THEN IF S.addrs[i][bn] # 0 THEN S ELSE [balloc(S) EXCEPT !.addrs[i][bn] = Next1(S)]
  ELSE LET S1 == IF S.addrs[i][NDIRECT] # 0 THEN S
                 ELSE [balloc(S) EXCEPT !.addrs[i][NDIRECT] = Next1(S)]
           a == S1.addrs[i][NDIRECT]
       IN IF S1.blk[a][bn - NDIRECT] # 0 THEN S1
          ELSE log_write([balloc(S1) EXCEPT !.blk[a][bn - NDIRECT] = Next1(S1)], <<"block", a>>)

Addr(S, i, bn) == IF bn < NDIRECT THEN S.addrs[i][bn]
                  ELSE S.blk[S.addrs[i][NDIRECT]][bn - NDIRECT]

\* The addresses of an inode, in the order in which itrunc comes to them.
Direct(S, i) == [j \in 1..NDIRECT |-> S.addrs[i][j - 1]]
Indirect(S, i) == LET a == S.addrs[i][NDIRECT] IN
                  IF a = 0 THEN <<>> ELSE [j \in 1..NINDIRECT |-> S.blk[a][j - 1]] \o <<a>>
Addresses(S, i) == SelectSeq(Direct(S, i) \o Indirect(S, i), LAMBDA b : b # 0)
Owned(S, i) == ToSet(Addresses(S, i))

\* Every block of the inode is freed; iupdate.
itrunc(S, i) ==
  LET T == FoldLeft(bfree, S, Addresses(S, i)) IN
  log_write([T EXCEPT !.addrs[i] = [j \in 0..NDIRECT |-> 0]], IBLOCK(i))

\* The word of the file at offset o, and the same with x written to it.
Word(S, i, o) == S.blk[Addr(S, i, o \div BSIZE)][o % BSIZE]
WriteWord(S, i, o, x) ==
  LET S1 == bmap(S, i, o \div BSIZE)  a == Addr(S1, i, o \div BSIZE) IN
  IF S.panic # "" \/ S1.panic # "" THEN S1 ELSE log_write([S1 EXCEPT !.blk[a][o % BSIZE] = x], <<"block", a>>)

\* writei's checks; its last step, which makes the file longer; and what readi
\* makes of n.
CanWrite(i, o, n) == o <= size[i] /\ o + n <= MAXFILE * BSIZE
Extended(S, i, o) == IF o > size[i] THEN log_write(S, IBLOCK(i)) ELSE S
CanRead(i, n) == IF off[i] + n > size[i] THEN size[i] - off[i] ELSE n

\* The loop of writei, word by word: bmap is asked again for the same block.
WriteWords(S, i, o, src) ==
  FoldLeft(LAMBDA T, j : WriteWord(T, i, o + j - 1, src[j]), S, [j \in 1..Len(src) |-> j])

------------------------------------------------------------------------------
\* Mutant: the size of a transaction is reckoned without the bitmap's blocks.
maxLoose == (LOGSIZE - 1 - 1 - 2) * BSIZE

max == ((LOGSIZE - 1 - 1 - 2) \div 2) * BSIZE

\* What a call of filewrite may be asked to write: n words, all the same.
Requests == {[ip |-> i, src |-> [j \in 1..n |-> x]] : i \in Inodes, n \in Counts, x \in Bytes}

\* One turn of filewrite's loop: a transaction with one writei.
filewrite(p, r) ==
  LET i == r.ip  src == r.src
      n1 == IF Len(src) > max THEN max ELSE Len(src)
      o == off[i]
      S == WriteWords([fs EXCEPT !.log = {}], i, o, SubSeq(src, 1, n1))
  IN /\ r \in IF todo[p] = Nothing THEN Requests ELSE {todo[p]}
     /\ IF ~CanWrite(i, o, n1)
        THEN /\ todo' = [todo EXCEPT ![p] = Nothing] /\ fs' = [fs EXCEPT !.log = {}]
             /\ UNCHANGED <<size, off>>
        ELSE IF S.panic # "" THEN fs' = [fs EXCEPT !.panic = S.panic] /\ UNCHANGED <<size, off, todo>>
        ELSE /\ fs' = Extended(S, i, o + n1)
             /\ size' = [size EXCEPT ![i] = IF o + n1 > @ THEN o + n1 ELSE @]
             /\ off' = [off EXCEPT ![i] = @ + n1]
             /\ todo' = [todo EXCEPT ![p] =
                  IF n1 = Len(src) THEN Nothing ELSE [r EXCEPT !.src = SubSeq(src, n1 + 1, Len(src))]]
     /\ got' = <<>>

\* Mutant: the offset stays where it was.
filereadStuck(i, n) ==
  LET m == CanRead(i, n) IN
  /\ off[i] < size[i]
  /\ got' = [j \in 1..m |-> Word(fs, i, off[i] + j - 1)]
  /\ UNCHANGED <<fs, size, off, todo>>

\* fileread: readi, and the offset moves on by what was read.
fileread(i, n) ==
  LET m == CanRead(i, n) IN
  /\ off[i] < size[i]
  /\ got' = [j \in 1..m |-> Word(fs, i, off[i] + j - 1)]
  /\ off' = [off EXCEPT ![i] = @ + m]
  /\ UNCHANGED <<fs, size, todo>>

\* The file is opened anew: another struct file, with offset 0.
Reopen(i) ==
  /\ off[i] # 0 /\ \A p \in Procs : todo[p].ip # i
  /\ off' = [off EXCEPT ![i] = 0] /\ got' = <<>>
  /\ UNCHANGED <<fs, size, todo>>

\* The last use of the inode is gone: iput calls itrunc; the inode is used again.
Discard(i) ==
  /\ size[i] # 0 /\ \A p \in Procs : todo[p].ip # i
  /\ fs' = itrunc([fs EXCEPT !.log = {}], i)
  /\ size' = [size EXCEPT ![i] = 0] /\ off' = [off EXCEPT ![i] = 0]
  /\ got' = <<>> /\ UNCHANGED todo

Call(i) == /\ calls < MaxCalls /\ calls' = calls + 1
           /\ (\E n \in Counts : fileread(i, n)) \/ Reopen(i) \/ Discard(i)

Write(p, r) == /\ IF todo[p] = Nothing THEN calls < MaxCalls /\ calls' = calls + 1
                  ELSE UNCHANGED calls
               /\ filewrite(p, r)

\* A file has got a sector of the log.
Strayed == \E i \in Inodes : Owned(fs, i) \cap LogBlocks # {}

Next ==
  /\ fs.panic = "" /\ ~Strayed
  /\ \/ \E p \in Procs, r \in Requests \cup {todo[q] : q \in Procs} : Write(p, r)
     \/ \E i \in Inodes : Call(i)

Spec == Init /\ [][Next]_vars
------------------------------------------------------------------------------
\* Every block below the log is free, or the file system's own, or part of one inode,
\* once, and a sector of the log becomes part of a file only when none of these is
\* free: balloc, bfree, bmap and itrunc keep the bitmap and the inodes in step, bfree
\* does not meet a block that is free ("freeing free block"), and an address that
\* bmap finds in an indirect block is one that it put there.
BlocksExact ==
  /\ fs.panic # "bfree"
  /\ fs.panic = "" =>
       /\ \A i \in Inodes : Owned(fs, i) \subseteq NMETA..SIZE - 1
       /\ \A i, j \in Inodes : i # j => Owned(fs, i) \cap Owned(fs, j) = {}
       /\ fs.used = Marked \cup UNION {Owned(fs, i) : i \in Inodes}
       /\ \A i \in Inodes : Cardinality(Owned(fs, i)) =
            LET n == (size[i] + BSIZE - 1) \div BSIZE IN IF n > NDIRECT THEN n + 1 ELSE n
       /\ Strayed => BlockNos \ LogBlocks \subseteq fs.used

\* "write a few blocks at a time to avoid exceeding the maximum log transaction
\* size": with the log to itself, one turn of filewrite, also with an offset inside
\* a block, does not meet log_write's panic, and neither does itrunc.
FitsLog == fs.panic # "log_write"

\* "Then sb.nblocks data blocks. Then sb.nlog log blocks."
LogApart == ~Strayed

\* The bytes of a file, for the abstract specification.
Content(i) == [j \in 1..size[i] |-> Word(fs, i, j - 1)]
==============================================================================
