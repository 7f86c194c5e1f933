------------------------------- MODULE Bcache -------------------------------
(***************************************************************************)
(* The buffer cache of bio.c on the disk driver of ide.c.  bget, brelse,   *)
(* iderw and ideintr are critical sections of bcache.lock or idelock and   *)
(* one step each, but for the places where they sleep; both sleep on the   *)
(* buffer, so that each is woken by the other's wakeup too.  A process     *)
(* that uses two buffers at once (bmap and itrunc keep the indirect block  *)
(* while balloc and bfree read the bitmap, write_log and install_trans     *)
(* copy between two) has two pointers to hold them.                        *)
(***************************************************************************)
EXTENDS Naturals, Sequences, FiniteSets, FiniteSetsExt

CONSTANTS
  Refs,        \* the pointers to a struct buf: a use of a buffer from bread to brelse
  Owner,       \* the process of each
  Sectors,
  Nests,       \* <<s, t>>: some code calls bread for t while it holds s
  Vals,        \* the contents a sector may have: a set for each sector
  NBUF,
  MAXPINNED,   \* bound: the buffers that the log keeps dirty
  NoSector, None

ASSUME BcacheAssumption ==
  /\ NBUF \in Nat /\ MAXPINNED \in Nat
  /\ IsFiniteSet(Refs) /\ None \notin Refs
  /\ NoSector \notin Sectors
  /\ \A s \in Sectors : Vals[s] # {}

Bufs == 1..NBUF

VARIABLES
  sector, flags, data,   \* struct buf; flags is a set of "BUSY", "VALID", "DIRTY"
  lru,                   \* bcache.head: the buffers, most recently used first
  idequeue,
  drive,                 \* the request the drive works on
  disk,
  pc, want, buf,         \* of a pointer: where its call is, its sector and its buffer
  panicked

bufs == <<sector, flags, data, lru>>
ide == <<idequeue, drive, disk>>
vars == <<bufs, ide, pc, want, buf, panicked>>

NoRequest == [sector |-> NoSector, cmd |-> "none", data |-> None, status |-> "idle"]

Init ==
  /\ sector = [b \in Bufs |-> NoSector]
  /\ flags = [b \in Bufs |-> {}]
  /\ data = [b \in Bufs |-> None]
  /\ lru = [i \in Bufs |-> NBUF + 1 - i]
  /\ idequeue = <<>>
  /\ drive = NoRequest
  /\ disk = [s \in Sectors |-> CHOOSE v \in Vals[s] : TRUE]
  /\ pc = [p \in Refs |-> "idle"]
  /\ want = [p \in Refs |-> NoSector]
  /\ buf = [p \in Refs |-> 0]
  /\ panicked = FALSE

\* wakeup(b): sleepers of bget go back to its loop, those of iderw to theirs.
Woken(b) ==
  [p \in Refs |-> IF buf[p] # b THEN pc[p]
                  ELSE IF pc[p] = "asleep" THEN "bget"
                  ELSE IF pc[p] = "iowait" THEN "iowoken" ELSE pc[p]]

\* The process of p is not in a call for another of its pointers.
Free(p) == \A q \in Refs \ {p} : Owner[q] = Owner[p] => pc[q] \in {"idle", "held"}

------------------------------------------------------------------------------
(* bio.c *)

bread(p, s) ==
  /\ pc[p] = "idle" /\ Free(p)
  /\ \A q \in Refs \ {p} : Owner[q] = Owner[p] /\ pc[q] = "held" => <<want[q], s>> \in Nests
  /\ pc' = [pc EXCEPT ![p] = "bget"]
  /\ want' = [want EXCEPT ![p] = s]
  /\ UNCHANGED <<bufs, ide, buf, panicked>>

\* The places in the list of the buffers of a sector, and of those that bget may recycle.
Cached(s) == {i \in 1..NBUF : sector[lru[i]] = s}

\* Mutant: a buffer whose changes are not on disk is recycled.
NotBusy == {i \in 1..NBUF : "BUSY" \notin flags[lru[i]]}

Clean == {i \in 1..NBUF : flags[lru[i]] \cap {"BUSY", "DIRTY"} = {}}

\* bget returns b, and bread reads it if it must.
Got(p, b) ==
  /\ buf' = [buf EXCEPT ![p] = b]
  /\ pc' = [pc EXCEPT ![p] = IF "VALID" \in flags'[b] THEN "held" ELSE "iderw"]

BgetHit(p) ==
  /\ pc[p] = "bget" /\ Cached(want[p]) # {}
  /\ LET b == lru[Min(Cached(want[p]))] IN
     /\ "BUSY" \notin flags[b]
     /\ flags' = [flags EXCEPT ![b] = @ \cup {"BUSY"}]
     /\ Got(p, b)
  /\ UNCHANGED <<sector, data, lru, ide, want, panicked>>

BgetSleep(p) ==
  /\ pc[p] = "bget" /\ Cached(want[p]) # {}
  /\ LET b == lru[Min(Cached(want[p]))] IN
     /\ "BUSY" \in flags[b]
     /\ buf' = [buf EXCEPT ![p] = b]
  /\ pc' = [pc EXCEPT ![p] = "asleep"]
  /\ UNCHANGED <<bufs, ide, want, panicked>>

BgetRecycle(p) ==
  /\ pc[p] = "bget" /\ Cached(want[p]) = {}
  /\ IF Clean = {} THEN panicked' = TRUE /\ UNCHANGED <<sector, flags, pc, buf>>
     ELSE LET b == lru[Max(Clean)] IN
          /\ sector' = [sector EXCEPT ![b] = want[p]]
          /\ flags' = [flags EXCEPT ![b] = {"BUSY"}]
          /\ Got(p, b)
          /\ UNCHANGED panicked
  /\ UNCHANGED <<data, lru, ide, want>>

\* The holder changes the data and calls bwrite ...
bwrite(p) ==
  /\ pc[p] = "held" /\ Free(p)
  /\ \E v \in Vals[sector[buf[p]]] : data' = [data EXCEPT ![buf[p]] = v]
  /\ flags' = [flags EXCEPT ![buf[p]] = @ \cup {"DIRTY"}]
  /\ pc' = [pc EXCEPT ![p] = "iderw"]
  /\ UNCHANGED <<sector, lru, ide, want, buf, panicked>>

\* ... or log_write, which keeps the buffer in the cache.
log_write(p) ==
  /\ pc[p] = "held" /\ Free(p)
  /\ Cardinality({b \in Bufs : "DIRTY" \in flags[b]} \cup {buf[p]}) <= MAXPINNED
  /\ \E v \in Vals[sector[buf[p]]] : data' = [data EXCEPT ![buf[p]] = v]
  /\ flags' = [flags EXCEPT ![buf[p]] = @ \cup {"DIRTY"}]
  /\ UNCHANGED <<sector, lru, ide, pc, want, buf, panicked>>

\* The list with b moved to its front.
ToFront(b) ==
  [i \in 1..NBUF |-> IF i = 1 THEN b ELSE IF \E j \in i..NBUF : lru[j] = b THEN lru[i - 1]
                     ELSE lru[i]]

\* Mutant: nobody is woken.
brelseQuiet(p) ==
  LET b == buf[p] IN
  /\ pc[p] = "held" /\ Free(p)
  /\ lru' = ToFront(b)
  /\ flags' = [flags EXCEPT ![b] = @ \ {"BUSY"}]
  /\ pc' = [pc EXCEPT ![p] = "idle"]
  /\ want' = [want EXCEPT ![p] = NoSector] /\ buf' = [buf EXCEPT ![p] = 0]
  /\ UNCHANGED <<sector, data, ide, panicked>>

brelse(p) ==
  LET b == buf[p] IN
  /\ pc[p] = "held" /\ Free(p)
  /\ lru' = ToFront(b)
  /\ flags' = [flags EXCEPT ![b] = @ \ {"BUSY"}]
  /\ pc' = [Woken(b) EXCEPT ![p] = "idle"]
  /\ want' = [want EXCEPT ![p] = NoSector] /\ buf' = [buf EXCEPT ![p] = 0]
  /\ UNCHANGED <<sector, data, ide, panicked>>

------------------------------------------------------------------------------
(* ide.c *)

\* The command that idestart gives the drive for b; a write's data go along.
idestart(b) == [sector |-> sector[b], cmd |-> IF "DIRTY" \in flags[b] THEN "write" ELSE "read",
                data |-> IF "DIRTY" \in flags[b] THEN data[b] ELSE None, status |-> "busy"]

\* iderw, up to its sleep.
iderw(p) ==
  LET b == buf[p] IN
  /\ pc[p] = "iderw"
  /\ panicked' = ("BUSY" \notin flags[b] \/ flags[b] \cap {"VALID", "DIRTY"} = {"VALID"})
  /\ idequeue' = Append(idequeue, b)
  /\ drive' = IF idequeue = <<>> THEN idestart(b) ELSE drive
  /\ pc' = [pc EXCEPT ![p] = "iowait"]
  /\ UNCHANGED <<bufs, disk, want, buf>>

\* The rest of its loop.
IderwWoken(p) ==
  /\ pc[p] = "iowoken"
  /\ pc' = [pc EXCEPT ![p] = IF flags[buf[p]] \cap {"VALID", "DIRTY"} = {"VALID"}
                             THEN "held" ELSE "iowait"]
  /\ UNCHANGED <<bufs, ide, want, buf, panicked>>

\* The drive ends its command and raises the interrupt.
DriveDone ==
  /\ drive.status = "busy"
  /\ drive' = [drive EXCEPT !.status = "done"]
  /\ disk' = IF drive.cmd = "write" THEN [disk EXCEPT ![drive.sector] = drive.data] ELSE disk
  /\ UNCHANGED <<bufs, idequeue, pc, want, buf, panicked>>

\* The interrupt handler; with an empty queue it does nothing.
ideintr ==
  LET b == Head(idequeue) IN
  /\ drive.status = "done" /\ idequeue # <<>>
  /\ idequeue' = Tail(idequeue)
  /\ data' = IF "DIRTY" \in flags[b] THEN data ELSE [data EXCEPT ![b] = disk[drive.sector]]
  /\ flags' = [flags EXCEPT ![b] = (@ \cup {"VALID"}) \ {"DIRTY"}]
  /\ pc' = Woken(b)
  /\ drive' = IF idequeue' = <<>> THEN NoRequest ELSE idestart(Head(idequeue'))
  /\ UNCHANGED <<sector, lru, disk, want, buf, panicked>>

Bget(p) == BgetHit(p) \/ BgetSleep(p) \/ BgetRecycle(p)

Next ==
  /\ ~panicked
  /\ \/ \E p \in Refs : \/ \E s \in Sectors : bread(p, s)
                        \/ Bget(p) \/ bwrite(p) \/ log_write(p)
                        \/ brelse(p) \/ iderw(p) \/ IderwWoken(p)
     \/ DriveDone \/ ideintr

Spec == Init /\ [][Next]_vars

------------------------------------------------------------------------------
Holds(p, b) == buf[p] = b /\ pc[p] \in {"iderw", "iowait", "iowoken", "held"}
Current(s) == {b \in Bufs : sector[b] = s /\ flags[b] \cap {"VALID", "DIRTY"} # {}}

\* What the cache and the disk together hold for s, and who holds it.
Content(s) == IF Current(s) = {} THEN disk[s] ELSE data[CHOOSE b \in Current(s) : TRUE]
Holder(s) == LET H == {p \in Refs : \E b \in Bufs : sector[b] = s /\ Holds(p, b)}
             IN IF H = {} THEN None ELSE CHOOSE p \in H : TRUE

\* A sector has one buffer although bget sleeps in its scan; the queue holds the
\* busy buffers of the processes that wait for the drive, once each, and the
\* drive works on its head; nobody sleeps on a buffer that is free; and the only
\* panic is bget's, with every buffer in use or pinned, which cannot be when NBUF
\* covers the pinned ones and one for each pointer, two per process.
BufferInv ==
  /\ \A a, b \in Bufs : sector[a] = sector[b] /\ sector[a] # NoSector => a = b
  /\ \A p, q \in Refs, b \in Bufs : Holds(p, b) /\ Holds(q, b) => p = q
  /\ \A b \in Bufs : "BUSY" \in flags[b] <=> \E p \in Refs : Holds(p, b)
  /\ \A i, j \in 1..NBUF : lru[i] = lru[j] => i = j
  /\ \A i, j \in 1..Len(idequeue) : idequeue[i] = idequeue[j] => i = j
  /\ (drive = NoRequest) <=> (idequeue = <<>>)
  /\ drive # NoRequest => drive.sector = sector[Head(idequeue)]
  /\ \A p \in Refs : pc[p] = "iowait" => \E i \in 1..Len(idequeue) : idequeue[i] = buf[p]
  /\ \A p \in Refs : pc[p] = "asleep" => "BUSY" \in flags[buf[p]]
  /\ panicked => Clean = {} /\ NBUF < Cardinality(Refs) + MAXPINNED

Store == INSTANCE SectorStore WITH Procs <- Refs,
  content <- [s \in Sectors |-> Content(s)], holder <- [s \in Sectors |-> Holder(s)]

\* bread returns the sector's last content to one pointer at a time, whatever
\* is recycled, pinned by the log, or queued for the drive.
StoreSpec == Store!Spec
==============================================================================
