-------------------------------- MODULE Files --------------------------------
(***************************************************************************)
(* The inode cache and the directories of fs.c, the file table of file.c,  *)
(* and the system calls of sysfile.c that name or open files.  A call is   *)
(* a sequence of steps; each takes at most one inode lock that another     *)
(* process can make it wait for, so that it runs from there to the next    *)
(* such lock, or to an iput, which may have to free the inode, in one      *)
(* step.  File contents are left to Blocks, transactions to Log.           *)
(***************************************************************************)
EXTENDS Naturals, Sequences, FiniteSets, FiniteSetsExt

CONSTANTS
  Procs,
  NINODES,          \* inodes on the disk; ROOTINO is 1
  NINODE, NFILE, NOFILE,
  Names,
  Requests,         \* the calls that are made: a name, a path and, of link, another;
                    \* a path is [abs |-> from the root?, elems |-> names]
  Trees,            \* the file systems to begin with: dinode, entries and cwd
  MaxCalls,         \* bound: the calls with a path, and of dup, in a behaviour
  None

ROOTINO == 1
Inums == 1..NINODES
Dots == {".", ".."}
Slots == 1..NINODE
Types == {"free", "dir", "file", "dev"}
NoEntries == [m \in Names \cup Dots |-> 0]

\* The names of an inode, and the directories named in one.
Named(en, i) == {x \in Inums \X Names : en[x[1]][x[2]] = i}
Subdirs(dn, en, i) == {m \in Names : en[i][m] # 0 /\ dn[en[i][m]].type = "dir"}

\* What has a name is there; a directory has one name, and its ".." leads to it.
Rooted(dn, en) ==
  /\ dn[ROOTINO].type = "dir" /\ en[ROOTINO][".."] = ROOTINO
  /\ \A d \in Inums, m \in Names : en[d][m] # 0 =>
       /\ dn[en[d][m]].type # "free" /\ en[d][m] # ROOTINO
       /\ dn[en[d][m]].type = "dir" => en[en[d][m]][".."] = d /\ Named(en, en[d][m]) = {<<d, m>>}

\* A file system as mkfs makes it, or calls that have returned leave it.
Sound(dn, en) ==
  /\ dn \in [Inums -> [type : Types, nlink : Nat]]
  /\ en \in [Inums -> [Names \cup Dots -> 0..NINODES]]
  /\ Rooted(dn, en)
  /\ \A i \in Inums :
       /\ IF dn[i].type = "dir" THEN en[i]["."] = i /\ en[i][".."] # 0 ELSE en[i] = NoEntries
       /\ dn[i].nlink >= Cardinality(Named(en, i)) + Cardinality(Subdirs(dn, en, i))
                         + (IF i = ROOTINO THEN 1 ELSE 0)
  /\ \A i, j \in Inums : ~\E m, n \in Names : en[i][m] = j /\ en[j][n] = i

Path == [abs : BOOLEAN, elems : Seq(Names \cup Dots)]
PathCalls == {"open", "create", "mkdir", "mknod", "unlink", "chdir", "link"}

ASSUME FilesAssumption ==
  /\ NINODES \in Nat \ {0} /\ NINODE \in Nat \ {0, 1} /\ NFILE \in Nat /\ NOFILE \in Nat
  /\ IsFiniteSet(Procs) /\ None \notin Procs
  /\ IsFiniteSet(Names) /\ Names \cap Dots = {}
  /\ \A q \in Requests : /\ q.call \in PathCalls /\ q.path \in Path
                         /\ q.new \in IF q.call = "link" THEN Path ELSE {None}
  /\ \A t \in Trees : /\ Sound(t.dinode, t.entries)
                      /\ t.cwd \in Inums /\ t.dinode[t.cwd].type = "dir"

VARIABLES
  dinode,       \* dinode[i]: type and nlink on the disk
  entries,      \* entries[i]: the directory i, as a function from names to inums
  icache,       \* inum, ref, busy (who holds I_BUSY), valid, type and nlink
  ftable,       \* ref and ip; ip is 0 unless the type is FD_INODE
  ofile, cwd,   \* of each process
  k,            \* where each process is in its system call
  calls, panicked,
  stray         \* history: a lookup has left a directory without a name by its ".."

disk == <<dinode, entries>>
files == <<ftable, ofile, cwd>>
vars == <<disk, icache, files, k, calls, panicked, stray>>

Idle == [call |-> "none", pc |-> "idle", path |-> <<>>, new |-> None, name |-> "",
         ip |-> 0, dp |-> 0, old |-> 0, puts |-> <<>>, freeing |-> FALSE]
Unread(i, n) == [inum |-> i, ref |-> n, busy |-> None, valid |-> FALSE, type |-> "free", nlink |-> 0]

\* The processes are in the root, but for one whose current directory is t.cwd.
Init ==
  \E t \in Trees, q \in Procs :
    LET n == Cardinality(Procs)  away == t.cwd # ROOTINO IN
    /\ dinode = t.dinode /\ entries = t.entries
    /\ icache = [s \in Slots |-> IF s = 1 THEN Unread(ROOTINO, IF away THEN n - 1 ELSE n)
                                 ELSE IF s = 2 /\ away THEN Unread(t.cwd, 1) ELSE Unread(0, 0)]
    /\ cwd = [p \in Procs |-> IF away /\ p = q THEN 2 ELSE 1]
    /\ ftable = [f \in 1..NFILE |-> [ref |-> 0, ip |-> 0]]
    /\ ofile = [p \in Procs |-> [fd \in 1..NOFILE |-> 0]]
    /\ k = [p \in Procs |-> Idle]
    /\ calls = 0 /\ panicked = "" /\ stray = FALSE

\* A process that has exited, and is not forked again, has no cwd.
Alive(p) == cwd[p] # 0
Quiet(p) == Alive(p) /\ k[p].pc = "idle" /\ k[p].puts = <<>>

------------------------------------------------------------------------------
(* The inode cache.  These take a cache and return one. *)

Cached(c, i) == {s \in Slots : c[s].ref > 0 /\ c[s].inum = i}
EmptySlots(c) == {s \in Slots : c[s].ref = 0}
igetSlot(c, i) == IF Cached(c, i) # {} THEN Min(Cached(c, i))
                  ELSE IF EmptySlots(c) # {} THEN Min(EmptySlots(c)) ELSE 0

iget(c, i) ==
  LET s == igetSlot(c, i) IN
  IF s = 0 THEN c
  ELSE IF Cached(c, i) # {} THEN [c EXCEPT ![s].ref = @ + 1]
  ELSE [c EXCEPT ![s] = Unread(i, 1)]

\* Mutant: the reference is not counted.
idupNot(c, s) == c

idup(c, s) == [c EXCEPT ![s].ref = @ + 1]

\* ilock: the lock is free; the inode is read if it is not valid.
CanLock(s) == icache[s].busy = None
ilock(c, s, p) ==
  IF c[s].valid THEN [c EXCEPT ![s].busy = p]
  ELSE [c EXCEPT ![s].busy = p, ![s].valid = TRUE,
                 ![s].type = dinode[c[s].inum].type, ![s].nlink = dinode[c[s].inum].nlink]
NoType(s) == ~icache[s].valid /\ dinode[icache[s].inum].type = "free"
iunlock(c, s) == [c EXCEPT ![s].busy = None]

\* The in-memory nlink changes, and iupdate copies it to the disk.
SetLinks(c, s, d) == [c EXCEPT ![s].nlink = d]
iupdate(c, S) == [i \in Inums |->
  IF \E s \in S : c[s].inum = i
  THEN LET s == CHOOSE s \in S : c[s].inum = i IN [type |-> c[s].type, nlink |-> c[s].nlink]
  ELSE dinode[i]]

dirlookup(s, m) == entries[icache[s].inum][m]

\* The ".." of a directory that has been removed, or the directory it was removed
\* from with it, is not counted: it may name an inode that is free or another one.
Nameless(i) == i # ROOTINO /\ \A d \in Inums, m \in Names : entries[d][m] # i
Strays(s, m) == m = ".." /\ Nameless(icache[s].inum)

Panic(why) == panicked' = why /\ UNCHANGED <<disk, icache, files, k, calls, stray>>

------------------------------------------------------------------------------
(* iput *)

\* Mutants: the links, or the other references, are not looked at.
LastRef(s) == icache[s].ref = 1 /\ icache[s].valid
LastLink(s) == icache[s].valid /\ icache[s].nlink = 0

\* inode has no links and no other references
LastUse(s) == icache[s].ref = 1 /\ icache[s].valid /\ icache[s].nlink = 0

\* A reference is dropped ...
iput(p) ==
  LET s == Head(k[p].puts) IN
  /\ k[p].puts # <<>> /\ ~k[p].freeing /\ ~LastUse(s)
  /\ icache' = [icache EXCEPT ![s].ref = @ - 1]
  /\ k' = [k EXCEPT ![p].puts = Tail(@)]
  /\ UNCHANGED <<disk, files, calls, panicked, stray>>

\* ... or the inode is truncated and freed on disk, without icache.lock, ...
iputFree(p) ==
  LET s == Head(k[p].puts)  i == icache[s].inum IN
  /\ k[p].puts # <<>> /\ ~k[p].freeing /\ LastUse(s)
  /\ IF icache[s].busy # None THEN Panic("iput busy")
     ELSE /\ icache' = [icache EXCEPT ![s].busy = p, ![s].type = "free"]
          /\ dinode' = [dinode EXCEPT ![i].type = "free"]
          /\ entries' = [entries EXCEPT ![i] = NoEntries]
          /\ k' = [k EXCEPT ![p].freeing = TRUE]
          /\ UNCHANGED <<files, calls, panicked, stray>>

\* ... and its slot is given up.
iputFreed(p) ==
  LET s == Head(k[p].puts) IN
  /\ k[p].freeing
  /\ icache' = [icache EXCEPT ![s].busy = None, ![s].valid = FALSE, ![s].ref = @ - 1]
  /\ k' = [k EXCEPT ![p].puts = Tail(@), ![p].freeing = FALSE]
  /\ UNCHANGED <<disk, files, calls, panicked, stray>>
------------------------------------------------------------------------------
(* namex, for one path element at a time *)

\* No iput is pending: p goes on with its call.
At(p, where) == k[p].pc = where /\ k[p].puts = <<>>
Ready(p, where, s) == At(p, where) /\ CanLock(s) /\ ~NoType(s)

Return(p, puts) == k' = [k EXCEPT ![p] = [Idle EXCEPT !.puts = puts]]

\* nameiparent rather than namei; it is the second lookup of link.
ForParent(p) == k[p].call \in {"create", "mkdir", "mknod", "unlink"} \/ k[p].old # 0

\* namex returns 0.
NotFound(p, puts) ==
  IF k[p].old = 0 THEN Return(p, puts)
  ELSE k' = [k EXCEPT ![p].pc = "bad", ![p].ip = 0, ![p].puts = puts]

\* namex begins at the root or at the current directory.
FirstSlot(p, path) == IF path.abs THEN igetSlot(icache, ROOTINO) ELSE cwd[p]
First(c, p, path) == IF path.abs THEN iget(c, ROOTINO) ELSE idup(c, cwd[p])

\* namex returns ip.
namexEnd(p) ==
  /\ At(p, "walk") /\ k[p].path = <<>>
  /\ IF ForParent(p) THEN NotFound(p, <<k[p].ip>>)
     ELSE k' = [k EXCEPT ![p].pc = k[p].call]
  /\ UNCHANGED <<disk, icache, files, calls, panicked, stray>>

\* namex returns the directory that holds the last name.
namexParent(p) ==
  LET s == k[p].ip IN
  /\ k[p].path # <<>> /\ Ready(p, "walk", s) /\ ForParent(p) /\ Len(k[p].path) = 1
  /\ icache' = iunlock(ilock(icache, s, p), s)
  /\ IF icache'[s].type = "dir"
     THEN k' = [k EXCEPT ![p].pc = IF k[p].old # 0 THEN "dirlink" ELSE k[p].call,
                         ![p].name = Head(k[p].path), ![p].path = <<>>,
                         ![p].dp = s, ![p].ip = 0]
     ELSE NotFound(p, <<s>>)
  /\ UNCHANGED <<disk, files, calls, panicked, stray>>

namexStep(p) ==
  LET s == k[p].ip
      c == iunlock(ilock(icache, s, p), s)
      i == IF c[s].type = "dir" THEN dirlookup(s, Head(k[p].path)) ELSE 0
  IN /\ k[p].path # <<>> /\ Ready(p, "walk", s) /\ ~(ForParent(p) /\ Len(k[p].path) = 1)
     /\ IF i = 0 THEN /\ NotFound(p, <<s>>) /\ icache' = c
                      /\ UNCHANGED <<disk, files, calls, panicked, stray>>
        ELSE IF igetSlot(c, i) = 0 THEN Panic("iget: no inodes")
        ELSE /\ icache' = iget(c, i)
             /\ k' = [k EXCEPT ![p].path = Tail(@), ![p].ip = igetSlot(c, i), ![p].puts = <<s>>]
             /\ stray' = (stray \/ Strays(s, Head(k[p].path)))
             /\ UNCHANGED <<disk, files, calls, panicked>>

\* A system call begins.
Call(p, call, path, new) ==
  /\ Quiet(p) /\ calls < MaxCalls
  /\ IF FirstSlot(p, path) = 0 THEN Panic("iget: no inodes")
     ELSE /\ icache' = First(icache, p, path)
          /\ k' = [k EXCEPT ![p] = [Idle EXCEPT !.call = call, !.pc = "walk", !.new = new,
                                     !.path = path.elems, !.ip = FirstSlot(p, path)]]
          /\ calls' = calls + 1
          /\ UNCHANGED <<disk, files, panicked, stray>>

------------------------------------------------------------------------------
(* open; c is the cache with ip locked *)

FreeFiles == {f \in 1..NFILE : ftable[f].ref = 0}
FreeFds(p) == {fd \in 1..NOFILE : ofile[p][fd] = 0}

\* filealloc and fdalloc; without room for both ip is given back.
Opened(p, c, s) ==
  /\ icache' = iunlock(c, s)
  /\ IF FreeFiles = {} \/ FreeFds(p) = {}
     THEN Return(p, <<s>>) /\ UNCHANGED files
     ELSE /\ ftable' = [ftable EXCEPT ![Min(FreeFiles)] = [ref |-> 1, ip |-> s]]
          /\ ofile' = [ofile EXCEPT ![p][Min(FreeFds(p))] = Min(FreeFiles)]
          /\ Return(p, <<>>) /\ UNCHANGED cwd

\* The call fails: unlock and put ip.
Refused(p, c, s) == icache' = iunlock(c, s) /\ Return(p, <<s>>) /\ UNCHANGED files

sys_open(p) ==
  LET s == k[p].ip  c == ilock(icache, s, p) IN
  /\ Ready(p, "open", s)
  /\ \/ Opened(p, c, s)
     \/ c[s].type = "dir" /\ Refused(p, c, s)      \* not O_RDONLY
  /\ UNCHANGED <<disk, calls, panicked, stray>>

------------------------------------------------------------------------------
(* create, for open with O_CREATE, mkdir and mknod *)

TypeOf(call) == IF call = "create" THEN "file" ELSE IF call = "mkdir" THEN "dir" ELSE "dev"
FreeInums == {i \in Inums : dinode[i].type = "free"}

\* The name exists ...
createFound(p) ==
  LET s == k[p].dp  c == iunlock(ilock(icache, s, p), s)  i == dirlookup(s, k[p].name) IN
  /\ k[p].pc \in {"create", "mkdir", "mknod"} /\ Ready(p, k[p].pc, s) /\ i # 0
  /\ IF igetSlot(c, i) = 0 THEN Panic("iget: no inodes")
     ELSE /\ icache' = iget(c, i)
          /\ k' = [k EXCEPT ![p].pc = "exists", ![p].ip = igetSlot(c, i),
                            ![p].dp = 0, ![p].puts = <<s>>]
          /\ stray' = (stray \/ Strays(s, k[p].name))
          /\ UNCHANGED <<disk, files, calls, panicked>>

createExists(p) ==
  LET s == k[p].ip  c == ilock(icache, s, p) IN
  /\ Ready(p, "exists", s)
  /\ IF k[p].call = "create" /\ c[s].type = "file" THEN Opened(p, c, s) ELSE Refused(p, c, s)
  /\ UNCHANGED <<disk, calls, panicked, stray>>

\* ... or an inode is allocated while the directory stays locked; ...
ialloc(p) ==
  LET s == k[p].dp  c == ilock(icache, s, p)  i == Min(FreeInums) IN
  /\ k[p].pc \in {"create", "mkdir", "mknod"} /\ Ready(p, k[p].pc, s)
  /\ dirlookup(s, k[p].name) = 0
  /\ IF FreeInums = {} THEN Panic("ialloc: no inodes")
     ELSE IF igetSlot(c, i) = 0 THEN Panic("iget: no inodes")
     ELSE /\ dinode' = [dinode EXCEPT ![i] = [type |-> TypeOf(k[p].call), nlink |-> 0]]
          /\ icache' = iget(c, i)
          /\ k' = [k EXCEPT ![p].pc = "fill", ![p].ip = igetSlot(c, i)]
          /\ UNCHANGED <<entries, files, calls, panicked, stray>>

\* ... it gets its link and, a directory, its dots; and its name.
createFill(p) ==
  LET s == k[p].ip  d == k[p].dp  isdir == k[p].call = "mkdir"
      c == SetLinks(ilock(icache, s, p), s, 1)
      c2 == SetLinks(c, d, c[d].nlink + IF isdir THEN 1 ELSE 0)
  IN /\ Ready(p, "fill", s)
     /\ icache' = iunlock(c2, d)
     /\ dinode' = iupdate(c2, {s, d})
     /\ entries' = [entries EXCEPT
          ![c[s].inum] = IF isdir THEN [@ EXCEPT !["."] = c[s].inum, ![".."] = c[d].inum] ELSE @,
          ![c[d].inum][k[p].name] = c[s].inum]
     /\ k' = [k EXCEPT ![p].pc = "created", ![p].dp = 0, ![p].puts = <<d>>]
     /\ UNCHANGED <<files, calls, panicked, stray>>

created(p) ==
  /\ At(p, "created")
  /\ IF k[p].call = "create" THEN Opened(p, icache, k[p].ip) ELSE Refused(p, icache, k[p].ip)
  /\ UNCHANGED <<disk, calls, panicked, stray>>

------------------------------------------------------------------------------
(* unlink *)

\* Mutant: ".." is an entry like any other.
NeverKept(m) == FALSE

\* Cannot unlink "." or ".."
Kept(m) == m \in Dots

\* The directory is locked, and its entry looked up; ...
unlinkLookup(p) ==
  LET s == k[p].dp  c == ilock(icache, s, p)
      i == IF Kept(k[p].name) THEN 0 ELSE dirlookup(s, k[p].name)
  IN /\ Ready(p, "unlink", s)
     /\ IF i = 0 THEN /\ icache' = iunlock(c, s) /\ Return(p, <<s>>)
                      /\ UNCHANGED <<disk, files, calls, panicked, stray>>
        ELSE IF igetSlot(c, i) = 0 THEN Panic("iget: no inodes")
        ELSE /\ icache' = iget(c, i)
             /\ k' = [k EXCEPT ![p].pc = "remove", ![p].ip = igetSlot(c, i)]
             /\ UNCHANGED <<disk, files, calls, panicked, stray>>

isdirempty(i) == \A m \in Names : entries[i][m] = 0

\* ... it is erased, unless it is a directory that is not empty; ...
unlinkRemove(p) ==
  LET s == k[p].ip  d == k[p].dp  c == ilock(icache, s, p)
      c2 == SetLinks(c, d, c[d].nlink - IF c[s].type = "dir" THEN 1 ELSE 0)
  IN /\ Ready(p, "remove", s)
     /\ IF c[s].nlink < 1 THEN Panic("unlink: nlink < 1")
        ELSE IF c[s].type = "dir" /\ ~isdirempty(c[s].inum)
        THEN /\ icache' = [iunlock(iunlock(c, s), d) EXCEPT ![s].ref = @ - 1]
             /\ Return(p, <<d>>)
             /\ UNCHANGED <<disk, files, calls, panicked, stray>>
        ELSE /\ icache' = iunlock(c2, d)
             /\ dinode' = iupdate(c2, {d})
             /\ entries' = [entries EXCEPT ![c[d].inum][k[p].name] = 0]
             /\ k' = [k EXCEPT ![p].pc = "removed", ![p].dp = 0, ![p].puts = <<d>>]
             /\ UNCHANGED <<files, calls, panicked, stray>>

\* ... and the inode loses its link.
unlinkRemoved(p) ==
  LET s == k[p].ip  c == SetLinks(icache, s, icache[s].nlink - 1) IN
  /\ At(p, "removed")
  /\ icache' = iunlock(c, s) /\ dinode' = iupdate(c, {s})
  /\ Return(p, <<s>>)
  /\ UNCHANGED <<entries, files, calls, panicked, stray>>

------------------------------------------------------------------------------
(* link *)

\* The inode gets its new link first, and the lookup of the new name begins.
linkOld(p) ==
  LET s == k[p].ip  c == ilock(icache, s, p)  c2 == SetLinks(c, s, c[s].nlink + 1) IN
  /\ Ready(p, "link", s)
  /\ IF c[s].type = "dir" THEN Refused(p, c, s) /\ UNCHANGED <<dinode, entries, calls, panicked, stray>>
     ELSE IF FirstSlot(p, k[p].new) = 0 THEN Panic("iget: no inodes")
     ELSE /\ icache' = First(iunlock(c2, s), p, k[p].new)
          /\ dinode' = iupdate(c2, {s})
          /\ k' = [k EXCEPT ![p].pc = "walk", ![p].old = s, ![p].path = k[p].new.elems,
                            ![p].new = None, ![p].ip = FirstSlot(p, k[p].new)]
          /\ UNCHANGED <<entries, files, calls, panicked, stray>>

\* dirlink adds an entry to a directory that has none of the name.
dirlink(s, m, i) == [entries EXCEPT ![icache[s].inum][m] = i]

linkNew(p) ==
  LET s == k[p].dp  c == iunlock(ilock(icache, s, p), s)  i == dirlookup(s, k[p].name) IN
  /\ Ready(p, "dirlink", s)
  /\ IF i # 0 /\ igetSlot(c, i) = 0 THEN Panic("iget: no inodes")
     ELSE /\ icache' = c
          /\ IF i # 0
             THEN /\ k' = [k EXCEPT ![p].pc = "bad", ![p].dp = 0, ![p].puts = <<s>>]
                  /\ UNCHANGED entries
             ELSE /\ entries' = dirlink(s, k[p].name, icache[k[p].old].inum)
                  /\ Return(p, <<s, k[p].old>>)
          /\ UNCHANGED <<dinode, files, calls, panicked, stray>>

linkBad(p) ==
  LET s == k[p].old  c == ilock(icache, s, p)  c2 == SetLinks(c, s, c[s].nlink - 1) IN
  /\ Ready(p, "bad", s)
  /\ icache' = iunlock(c2, s) /\ dinode' = iupdate(c2, {s})
  /\ Return(p, <<s>>)
  /\ UNCHANGED <<entries, files, calls, panicked, stray>>

------------------------------------------------------------------------------
(* chdir, close, dup, fstat, fork and exit *)

sys_chdir(p) ==
  LET s == k[p].ip  c == ilock(icache, s, p) IN
  /\ Ready(p, "chdir", s)
  /\ IF c[s].type # "dir" THEN Refused(p, c, s)
     ELSE /\ icache' = iunlock(c, s)
          /\ cwd' = [cwd EXCEPT ![p] = s]
          /\ Return(p, <<cwd[p]>>) /\ UNCHANGED <<ftable, ofile>>
  /\ UNCHANGED <<disk, calls, panicked, stray>>

\* fileclose: the last descriptor drops the inode.
fileclose(p, fd) ==
  LET f == ofile[p][fd]  last == ftable[f].ref = 1 IN
  /\ ftable' = IF last THEN [ftable EXCEPT ![f] = [ref |-> 0, ip |-> 0]] ELSE [ftable EXCEPT ![f].ref = @ - 1]
  /\ ofile' = [ofile EXCEPT ![p][fd] = 0]
  /\ k' = [k EXCEPT ![p].puts = IF last THEN <<ftable[f].ip>> ELSE <<>>]

Fds(p) == {fd \in 1..NOFILE : ofile[p][fd] # 0}

sys_close(p) ==
  /\ Quiet(p)
  /\ \E fd \in Fds(p) : fileclose(p, fd)
  /\ UNCHANGED <<disk, icache, cwd, calls, panicked, stray>>

filedup(f) == [ftable EXCEPT ![f].ref = @ + 1]

sys_dup(p) ==
  /\ Quiet(p) /\ FreeFds(p) # {} /\ calls < MaxCalls
  /\ \E fd \in Fds(p) :
       /\ ofile' = [ofile EXCEPT ![p][Min(FreeFds(p))] = ofile[p][fd]]
       /\ ftable' = filedup(ofile[p][fd])
  /\ calls' = calls + 1
  /\ UNCHANGED <<disk, icache, cwd, k, panicked, stray>>

\* fstat, and what read and write do first: the open file's inode is locked,
\* and read if need be; it must still be there.
filestat(p, s) ==
  /\ CanLock(s)
  /\ IF NoType(s) THEN Panic("open file: no type")
     ELSE /\ icache' = iunlock(ilock(icache, s, p), s)
          /\ UNCHANGED <<disk, files, k, calls, panicked, stray>>

UseFile(p) == Quiet(p) /\ \E fd \in Fds(p) : filestat(p, ftable[ofile[p][fd]].ip)

fork(p, q) ==
  /\ Quiet(p) /\ ~Alive(q) /\ k[q].puts = <<>>
  /\ ofile' = [ofile EXCEPT ![q] = ofile[p]]
  /\ ftable' = [f \in 1..NFILE |->
       [ftable[f] EXCEPT !.ref = @ + Cardinality({fd \in 1..NOFILE : ofile[p][fd] = f})]]
  /\ cwd' = [cwd EXCEPT ![q] = cwd[p]]
  /\ icache' = idup(icache, cwd[p])
  /\ UNCHANGED <<disk, k, calls, panicked, stray>>

exitStart(p) ==
  /\ Quiet(p) /\ \E q \in Procs \ {p} : Alive(q) /\ k[q].pc # "exit"
  /\ k' = [k EXCEPT ![p].pc = "exit"]
  /\ UNCHANGED <<disk, icache, files, calls, panicked, stray>>

\* The files are closed one after the other, and then the cwd is given up.
exit(p) ==
  /\ At(p, "exit")
  /\ IF Fds(p) # {} THEN fileclose(p, Min(Fds(p))) /\ UNCHANGED cwd
     ELSE /\ k' = [k EXCEPT ![p] = [Idle EXCEPT !.puts = <<cwd[p]>>]]
          /\ cwd' = [cwd EXCEPT ![p] = 0]
          /\ UNCHANGED <<ftable, ofile>>
  /\ UNCHANGED <<disk, icache, calls, panicked, stray>>

\* The inode whose lock p's next step takes.
Wants(p) ==
  IF k[p].puts # <<>> THEN 0
  ELSE CASE k[p].pc \in {"open", "exists", "fill", "remove", "link", "chdir"} -> k[p].ip
         [] k[p].pc = "walk" -> IF k[p].path = <<>> THEN 0 ELSE k[p].ip
         [] k[p].pc \in {"create", "mkdir", "mknod", "unlink", "dirlink"} -> k[p].dp
         [] k[p].pc = "bad" -> k[p].old
         [] OTHER -> 0

ilockPanic(p) ==
  /\ Wants(p) # 0 /\ CanLock(Wants(p)) /\ NoType(Wants(p))
  /\ Panic("ilock: no type")

Step(p) ==
  \/ iput(p) \/ iputFree(p) \/ iputFreed(p)
  \/ namexEnd(p) \/ namexParent(p) \/ namexStep(p) \/ ilockPanic(p)
  \/ sys_open(p) \/ sys_chdir(p)
  \/ createFound(p) \/ createExists(p) \/ ialloc(p) \/ createFill(p) \/ created(p)
  \/ unlinkLookup(p) \/ unlinkRemove(p) \/ unlinkRemoved(p)
  \/ linkOld(p) \/ linkNew(p) \/ linkBad(p)
  \/ exit(p)

\* No more calls are made, or the machine has stopped.
Done == /\ \/ panicked # ""
           \/ calls = MaxCalls /\ \A p \in Procs : k[p] = Idle
        /\ UNCHANGED vars

Next ==
  \/ panicked = "" /\ \E p \in Procs : \/ \E q \in Requests : Call(p, q.call, q.path, q.new)
                                       \/ Step(p)
                                       \/ sys_close(p) \/ sys_dup(p) \/ UseFile(p)
                                       \/ exitStart(p)
                                       \/ \E q \in Procs : fork(p, q)
  \/ Done

Spec == Init /\ [][Next]_vars
------------------------------------------------------------------------------
(* Where a pointer to a slot is kept: an open file, a current directory, a  *)
(* variable of a call, an iput that is due (the last one first).            *)
Places == ({"file"} \X {None} \X (1..NFILE))
          \cup ({"cwd", "ip", "dp", "old"} \X Procs \X {0}) \cup ({"put"} \X Procs \X (1..2))
Pointer(x) ==
  LET p == x[2]  n == x[3] IN
  CASE x[1] = "file" -> ftable[n].ip
    [] x[1] = "cwd" -> cwd[p]
    [] x[1] = "ip" -> k[p].ip
    [] x[1] = "dp" -> k[p].dp
    [] x[1] = "old" -> k[p].old
    [] OTHER -> IF n <= Len(k[p].puts) THEN k[p].puts[Len(k[p].puts) + 1 - n] ELSE 0

\* Every reference that iget and idup give is dropped once: ip->ref and f->ref
\* are the pointers that there are, in the middle of every call too.  An inode
\* has one slot; unlocked, a valid slot agrees with the disk.
CountsExact ==
  /\ \A s \in Slots : icache[s].ref = Cardinality({x \in Places : Pointer(x) = s})
  /\ \A f \in 1..NFILE : ftable[f].ref =
       Cardinality({x \in Procs \X (1..NOFILE) : ofile[x[1]][x[2]] = f})
  /\ \A s, t \in Slots :
       icache[s].ref > 0 /\ icache[t].ref > 0 /\ icache[s].inum = icache[t].inum => s = t
  /\ \A s \in Slots : icache[s].ref > 0 /\ icache[s].valid /\ icache[s].busy = None =>
       dinode[icache[s].inum] = [type |-> icache[s].type, nlink |-> icache[s].nlink]

\* The directories that can be reached from the root: the least set that holds the
\* root and the directories named in it.
IsDir(i) == i # 0 /\ dinode[i].type = "dir"
Below(D) == D \cup {i \in {entries[d][m] : d \in D, m \in Names} : IsDir(i)}
Tree == LET closed == {D \in SUBSET Inums : ROOTINO \in D /\ Below(D) = D}
        IN {i \in Inums : \A D \in closed : i \in D}

\* However calls overlap, an inode with a name is never freed: nlink counts at
\* least its names and, of a directory, the ".." of its children.  Directories
\* form a tree: one name each, and ".." leads back to the directory that has it.
\* (Until a lookup strays: create may then make a directory of an inode in which
\* the stray call already made another, and set the nlink it counted back to 1.)
NamedIsKept ==
  LET dirs == Tree
      names == {x \in dirs \X Names : entries[x[1]][x[2]] # 0}
      Of(i) == {x \in names : entries[x[1]][x[2]] = i}
  IN ~stray =>
     /\ \A x \in names : dinode[entries[x[1]][x[2]]].type # "free"
     /\ \A i \in Inums : dinode[i].nlink >= Cardinality(Of(i))
          + Cardinality({d \in dirs \ {ROOTINO} : entries[d][".."] = i})
     /\ \A d \in dirs \ {ROOTINO} : \E m \in Names : Of(d) = {<<entries[d][".."], m>>}

\* p waits for an inode that q has locked.
Waits(p, q) == p # q /\ Wants(p) # 0 /\ icache[Wants(p)].busy = q

\* No two processes wait for each other's inode: a call that holds a directory
\* waits at most for one of its entries, never for its parent.
NoLockCycle == \A p, q \in Procs : ~(Waits(p, q) /\ Waits(q, p))

\* The consistency panics are not reached: no inode is freed while it is locked
\* or open, and none loses a link it does not have or is found free, unless a
\* lookup has strayed.  (The cache and the disk can run out of inodes.)
PanicsKnown ==
  \/ panicked \in {"", "iget: no inodes", "ialloc: no inodes"}
  \/ stray /\ panicked \in {"ilock: no type", "unlink: nlink < 1"}

\* "unlink: nlink < 1" is never reached: an inode that is found by its name has a link.
LinksSuffice == panicked # "unlink: nlink < 1"
==============================================================================
