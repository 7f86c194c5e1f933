---------------------------- MODULE BcacheProofs ----------------------------
(***************************************************************************)
(* The inductive invariant IInv of Bcache.  It ties the flags of a buffer  *)
(* to the place of its holder, the queue to the processes that wait, and   *)
(* the drive's command to the head of the queue.  The steps of bio.c and   *)
(* those of ide.c keep it, and so BufferInv holds, and the cache on the    *)
(* drive implements SectorStore, for any number of processes, buffers (on  *)
(* the disk and held by one process) and sectors, in any order of nesting. *)
(***************************************************************************)
EXTENDS Bcache, FiniteSetTheorems, WellFoundedInduction, TLAPS

Less == {ss \in Nat \X Nat : ss[1] < ss[2]}

\* The order of the naturals, as a set of pairs, is well founded.
LEMMA LessWF == IsWellFoundedOn(Less, Nat)
BY Zenon, NatLessThanWellFounded DEF OpToRel, Less

\* A nonempty set of naturals has a least element.
LEMMA Least ==
  ASSUME NEW S \in SUBSET Nat, S # {}
  PROVE  \E x \in S : \A y \in S : x <= y
<1>1. PICK x \in S : \A y \in S : <<y, x>> \notin Less
  BY Zenon, LessWF, WFMin
<1>2. ASSUME NEW y \in S PROVE x <= y
  <2>1. <<y, x>> \notin Less
    BY Zenon, <1>1
  <2>2. x \in Nat /\ y \in Nat
    BY Zenon
  <2>3. ~ (y < x)
    BY Zenon, <2>1, <2>2 DEF Less
  <2> QED
    BY <2>2, <2>3
<1> QED BY Zenon, <1>2

\* The place bget stops at in its forward scan is one of those it looks for.
LEMMA MinIn ==
  ASSUME NEW S \in SUBSET Nat, S # {}
  PROVE  Min(S) \in S
BY Zenon, Least DEF Min

\* So is the place it stops at in its backward scan.
LEMMA MaxIn ==
  ASSUME NEW n \in Nat, NEW S \in SUBSET (1..n), S # {}
  PROVE  Max(S) \in S
<1> DEFINE T == {n - x : x \in S}
<1>1. T \subseteq Nat /\ T # {}
  <2>1. \A x \in S : x \in Nat /\ n - x \in Nat
    OBVIOUS
  <2> QED
    BY Zenon, <2>1
<1>2. PICK t \in T : \A u \in T : t <= u
  <2> HIDE DEF T
  <2> QED BY Zenon, <1>1, Least
<1>4. PICK x \in S : t = n - x
  BY Zenon
<1>5. \A y \in S : x >= y
  <2> TAKE y \in S
  <2>1. n - y \in T  BY Zenon
  <2>2. t <= n - y BY Zenon, <2>1, <1>2
  <2>3. x \in 1..n /\ y \in 1..n BY Zenon
  <2> HIDE DEF T
  <2> QED BY <2>2, <2>3, <1>4
<1> QED BY Zenon, <1>5 DEF Max

------------------------------------------------------------------------------
\* What a buffer, the disk and the drive may hold.
Contents == {None} \cup UNION {Vals[s] : s \in Sectors}
Busy(b) == "BUSY" \in flags[b]
Valid(b) == "VALID" \in flags[b]
Dirty(b) == "DIRTY" \in flags[b]
Holding(p) == pc[p] \in {"iderw", "iowait", "iowoken", "held"}

TypeOK ==
  /\ sector \in [Bufs -> Sectors \cup {NoSector}]
  /\ flags \in [Bufs -> SUBSET {"BUSY", "VALID", "DIRTY"}]
  /\ data \in [Bufs -> Contents]
  /\ lru \in [Bufs -> Bufs]
  /\ idequeue \in Seq(Bufs)
  /\ drive \in [sector : Sectors \cup {NoSector}, cmd : {"none", "read", "write"},
                data : Contents, status : {"idle", "busy", "done"}]
  /\ disk \in [Sectors -> Contents]
  /\ pc \in [Refs -> {"idle", "bget", "asleep", "iderw", "iowait", "iowoken", "held"}]
  /\ want \in [Refs -> Sectors \cup {NoSector}]
  /\ buf \in [Refs -> 0..NBUF]
  /\ panicked \in BOOLEAN

\* The list of bcache.head has every buffer once.
LruInv ==
  /\ \A i, j \in Bufs : lru[i] = lru[j] => i = j
  /\ \A b \in Bufs : \E i \in Bufs : lru[i] = b

\* A busy buffer has one holder, and is the buffer of the holder's sector.
OneHolder ==
  \A p, q \in Refs : Holding(p) /\ Holding(q) /\ buf[p] = buf[q] => p = q
HoldInv ==
  \A p \in Refs : Holding(p) => /\ buf[p] \in Bufs
                                /\ Busy(buf[p])
                                /\ sector[buf[p]] = want[p]
BusyHeld ==
  \A b \in Bufs : Busy(b) => \E p \in Refs : Holding(p) /\ buf[p] = b

\* The flags of the buffer of a process, by the place the process is at.
PcInv ==
  \A p \in Refs :
    /\ pc[p] # "idle" => want[p] \in Sectors
    /\ pc[p] = "asleep" => buf[p] \in Bufs /\ Busy(buf[p])
    /\ pc[p] = "held" => Valid(buf[p])
    /\ pc[p] \in {"iderw", "iowait"} => ~Valid(buf[p]) \/ Dirty(buf[p])
    /\ pc[p] = "iowoken" => Valid(buf[p]) /\ ~Dirty(buf[p])

\* The queue holds the buffers of the processes that wait in iderw, once each.
QueueInv ==
  /\ \A i, j \in 1..Len(idequeue) : idequeue[i] = idequeue[j] => i = j
  /\ \A i \in 1..Len(idequeue) : \E p \in Refs : pc[p] = "iowait" /\ buf[p] = idequeue[i]
  /\ \A p \in Refs : pc[p] = "iowait" => \E i \in 1..Len(idequeue) : idequeue[i] = buf[p]

\* The drive works on the head of the queue, as it was when it was started.
DriveInv ==
  /\ idequeue = <<>> => drive = NoRequest
  /\ idequeue # <<>> =>
       LET b == idequeue[1] IN
       /\ drive.sector = sector[b] /\ drive.status # "idle"
       /\ Dirty(b) => drive.cmd = "write" /\ drive.data = data[b]
       /\ ~Dirty(b) => drive.cmd = "read"
       /\ Dirty(b) /\ drive.status = "done" => disk[sector[b]] = data[b]

\* A sector is in one buffer, and a clean buffer agrees with the disk.
CacheInv ==
  /\ \A a, b \in Bufs : sector[a] = sector[b] /\ sector[a] # NoSector => a = b
  /\ \A b \in Bufs : Busy(b) \/ Valid(b) => sector[b] \in Sectors
  /\ \A b \in Bufs : Dirty(b) => Valid(b)
  /\ \A b \in Bufs : Valid(b) /\ ~Dirty(b) =>
                       data[b] = disk[sector[b]]

\* The dirty buffers that nobody is writing are those the log pins.
InIO(b) == \E p \in Refs : pc[p] \in {"iderw", "iowait"} /\ buf[p] = b
Pinned == {b \in Bufs : Dirty(b) /\ ~InIO(b)}
PinInv == Cardinality(Pinned) <= MAXPINNED

\* The machine stops for want of buffers only when there are too few.
PanicInv == panicked => NBUF < Cardinality(Refs) + MAXPINNED

\* The inductive invariant.
IInv == /\ TypeOK /\ LruInv /\ OneHolder /\ HoldInv /\ BusyHeld /\ PcInv /\ QueueInv /\ DriveInv
        /\ CacheInv /\ PinInv /\ PanicInv

------------------------------------------------------------------------------
\* The cache has NBUF buffers.
LEMMA BufsFinite == IsFiniteSet(Bufs) /\ Cardinality(Bufs) = NBUF
BY BcacheAssumption, FS_Interval DEF Bufs

\* A step that pins no other buffer keeps within the bound of the log.
LEMMA PinShrinks ==
  ASSUME PinInv, Pinned' \subseteq Pinned
  PROVE  PinInv'
<1>1. IsFiniteSet(Pinned)
  BY Zenon, BufsFinite, FS_Subset DEF Pinned
<1>2. /\ IsFiniteSet(Pinned')
      /\ Cardinality(Pinned') <= Cardinality(Pinned)
  BY Zenon, <1>1, FS_Subset
<1>3. Cardinality(Pinned) \in Nat /\ Cardinality(Pinned') \in Nat
  BY Zenon, <1>1, <1>2, FS_CardinalityType
<1> QED
  BY <1>2, <1>3, BcacheAssumption DEF PinInv

\* binit and ideinit establish the invariant.
LEMMA InitInv == Init => IInv
<1> SUFFICES ASSUME Init PROVE IInv
  BY Zenon
<1> USE BcacheAssumption DEF Init, Bufs
<1>1. TypeOK
  <2>1. disk \in [Sectors -> Contents]
    BY Zenon DEF Contents
  <2>2. lru \in [Bufs -> Bufs]
    OBVIOUS
  <2>3. drive \in [sector : Sectors \cup {NoSector}, cmd : {"none", "read", "write"},
                   data : Contents, status : {"idle", "busy", "done"}]
    BY Zenon DEF NoRequest, Contents
  <2>4. data \in [Bufs -> Contents]
    BY Zenon DEF Contents
  <2>5. idequeue \in Seq(Bufs)
    OBVIOUS
  <2>6. /\ sector \in [Bufs -> Sectors \cup {NoSector}]
        /\ flags \in [Bufs -> SUBSET {"BUSY", "VALID", "DIRTY"}]
        /\ pc \in [Refs -> {"idle", "bget", "asleep", "iderw", "iowait", "iowoken", "held"}]
        /\ want \in [Refs -> Sectors \cup {NoSector}]
        /\ panicked \in BOOLEAN
    BY Zenon
  <2>7. buf \in [Refs -> 0..NBUF]
    OBVIOUS
  <2> QED
    BY Zenon, <2>1, <2>2, <2>3, <2>4, <2>5, <2>6, <2>7 DEF TypeOK
<1>2. LruInv
  <2>1. ASSUME NEW b \in Bufs PROVE \E i \in Bufs : lru[i] = b
    <3>1. NBUF + 1 - b \in Bufs /\ lru[NBUF + 1 - b] = b
      OBVIOUS
    <3> QED BY Zenon, <3>1
  <2> QED BY <2>1 DEF LruInv
<1>3. OneHolder /\ HoldInv /\ BusyHeld /\ PcInv
  BY Zenon DEF OneHolder, HoldInv, BusyHeld, PcInv, Holding, Busy
<1>4. QueueInv /\ DriveInv
  BY DEF QueueInv, DriveInv
<1>5. CacheInv
  BY Zenon DEF CacheInv, Busy, Valid, Dirty
<1>6. PinInv
  <2>1. Pinned = {}
    BY Zenon DEF Pinned, Dirty
  <2> QED BY <2>1, FS_EmptySet DEF PinInv
<1>7. PanicInv
  BY Zenon DEF PanicInv
<1> QED
  BY Zenon, <1>1, <1>2, <1>3, <1>4, <1>5, <1>6, <1>7 DEF IInv

\* A call of bread touches nothing but the caller.
LEMMA StepBread ==
  ASSUME IInv, NEW p \in Refs, NEW s \in Sectors, bread(p, s)
  PROVE  IInv'
<1> USE DEF Busy, Valid, Dirty
<1>0. /\ UNCHANGED <<sector, flags, data, lru, idequeue, drive, disk, buf, panicked>>
      /\ \A q \in Refs : pc'[q] = IF q = p THEN "bget" ELSE pc[q]
      /\ \A q \in Refs : want'[q] = IF q = p THEN s ELSE want[q]
      /\ pc[p] = "idle"
  BY Zenon DEF IInv, TypeOK, bread, bufs, ide
<1>1. TypeOK'
  BY Zenon DEF IInv, TypeOK, bread, bufs, ide
<1>2. LruInv' /\ DriveInv' /\ CacheInv' /\ PanicInv'
  BY Zenon, <1>0 DEF IInv, LruInv, DriveInv, CacheInv, PanicInv
<1>3. /\ \A q \in Refs : Holding(q)' <=> Holding(q)
      /\ \A b \in Bufs : /\ Busy(b)' <=> Busy(b)
                         /\ Valid(b)' <=> Valid(b)
                         /\ Dirty(b)' <=> Dirty(b)
  BY Zenon, <1>0 DEF Holding
<1>4. OneHolder' /\ HoldInv' /\ BusyHeld'
  <2>1. OneHolder'
    BY Zenon, <1>0, <1>3 DEF IInv, OneHolder, HoldInv, Holding
  <2>2. HoldInv'
    BY Zenon, <1>0, <1>3 DEF IInv, HoldInv, Holding
  <2>3. BusyHeld'
    BY Zenon, <1>0, <1>3 DEF IInv, BusyHeld, Holding
  <2> QED
    BY Zenon, <2>1, <2>2, <2>3
<1>5. PcInv'
  BY Zenon, <1>0, <1>3 DEF IInv, PcInv
<1>6. QueueInv'
  BY <1>0 DEF IInv, QueueInv
<1>7. PinInv'
  <2>1. Pinned' \subseteq Pinned
    BY Zenon, <1>0, <1>3 DEF Pinned, InIO
  <2> QED BY Zenon, <2>1, PinShrinks DEF IInv
<1> QED
  BY Zenon, <1>1, <1>2, <1>4, <1>5, <1>6, <1>7 DEF IInv

\* bget's first loop ends at a buffer of the sector, ...
LEMMA CachedBuf ==
  ASSUME TypeOK, NEW s, Cached(s) # {}
  PROVE  /\ lru[Min(Cached(s))] \in Bufs
         /\ sector[lru[Min(Cached(s))]] = s
<1>1. Cached(s) \in SUBSET Nat
  BY BcacheAssumption DEF Cached
<1>2. Min(Cached(s)) \in Cached(s)
  BY Zenon, <1>1, MinIn
<1> QED
  BY Zenon, <1>2 DEF Cached, TypeOK, Bufs

\* ... or the sector has no buffer, since the list has them all.
LEMMA NotCached ==
  ASSUME LruInv, NEW s, Cached(s) = {}, NEW b \in Bufs
  PROVE  sector[b] # s
BY Zenon DEF LruInv, Cached, Bufs

\* bget's second loop ends at a buffer neither busy nor dirty.
LEMMA CleanBuf ==
  ASSUME TypeOK, Clean # {}
  PROVE  /\ lru[Max(Clean)] \in Bufs
         /\ "BUSY" \notin flags[lru[Max(Clean)]]
         /\ "DIRTY" \notin flags[lru[Max(Clean)]]
<1>1. Clean \in SUBSET (1..NBUF)
  BY Zenon DEF Clean
<1>2. Max(Clean) \in Clean
  BY Zenon, <1>1, MaxIn, BcacheAssumption
<1> QED
  BY Zenon, <1>2 DEF Clean, TypeOK, Bufs

\* bget makes the caller the one holder of a buffer that was free.
LEMMA StepBgetHit ==
  ASSUME IInv, NEW p \in Refs, BgetHit(p)
  PROVE  IInv'
<1> USE DEF Busy, Valid, Dirty
<1> DEFINE b == lru[Min(Cached(want[p]))]
<1>1. b \in Bufs /\ sector[b] = want[p] /\ "BUSY" \notin flags[b]
  BY Zenon, CachedBuf DEF IInv, BgetHit
<1>2. /\ UNCHANGED <<sector, data, lru, idequeue, drive, disk, want, panicked>>
      /\ pc[p] = "bget"
  BY Zenon DEF BgetHit, ide
<1>a. /\ flags' = [flags EXCEPT ![b] = @ \cup {"BUSY"}]
      /\ buf' = [buf EXCEPT ![p] = b]
      /\ pc' = [pc EXCEPT ![p] = IF "VALID" \in flags'[b] THEN "held" ELSE "iderw"]
  BY Zenon DEF BgetHit, Got
<1> HIDE DEF b
<1>3. TypeOK'
  BY <1>1, <1>2, <1>a DEF IInv, TypeOK, Bufs
<1>4. /\ \A c \in Bufs : /\ Busy(c)' <=> Busy(c) \/ c = b
                         /\ Valid(c)' <=> Valid(c)
                         /\ Dirty(c)' <=> Dirty(c)
      /\ \A q \in Refs : buf'[q] = IF q = p THEN b ELSE buf[q]
      /\ \A q \in Refs \ {p} : pc'[q] = pc[q]
      /\ pc'[p] = IF Valid(b) THEN "held" ELSE "iderw"
  BY Zenon, <1>1, <1>2, <1>a DEF IInv, TypeOK
<1>5. LruInv' /\ PanicInv'
  BY Zenon, <1>2 DEF IInv, LruInv, PanicInv
<1>6. CacheInv'
  BY Zenon, <1>1, <1>2, <1>4 DEF IInv, CacheInv, PcInv
<1>7. \A q \in Refs : Holding(q)' <=> Holding(q) \/ q = p
  BY Zenon, <1>2, <1>4 DEF Holding
<1>8. OneHolder' /\ HoldInv' /\ BusyHeld'
  <2>1. OneHolder'
    BY <1>1, <1>2, <1>4, <1>7 DEF IInv, OneHolder, HoldInv
  <2>2. HoldInv'
    BY Zenon, <1>1, <1>2, <1>4, <1>7 DEF IInv, HoldInv
  <2>3. BusyHeld'
    <3> SUFFICES ASSUME NEW c \in Bufs, Busy(c)'
                 PROVE  \E q \in Refs : Holding(q)' /\ buf'[q] = c
      BY Zenon DEF BusyHeld
    <3>1. CASE c = b
      BY Zenon, <3>1, <1>4, <1>7
    <3>2. CASE c # b
      <4>1. PICK q \in Refs : Holding(q) /\ buf[q] = c
        BY Zenon, <3>2, <1>4 DEF IInv, BusyHeld
      <4>2. q # p
        BY Zenon, <4>1, <1>2 DEF Holding
      <4> QED
        BY Zenon, <4>1, <4>2, <1>4, <1>7
    <3> QED BY Zenon, <3>1, <3>2
  <2> QED
    BY Zenon, <2>1, <2>2, <2>3
<1>9. PcInv'
  BY <1>1, <1>2, <1>4 DEF IInv, PcInv, HoldInv, Holding
<1>10. QueueInv'
  BY <1>2, <1>4 DEF IInv, QueueInv
<1>11. DriveInv'
  BY <1>2, <1>4 DEF IInv, DriveInv, TypeOK
<1>12. PinInv'
  <2>1. Pinned' \subseteq Pinned
    BY Zenon, <1>2, <1>4 DEF Pinned, InIO
  <2> QED BY Zenon, <2>1, PinShrinks DEF IInv
<1> QED
  BY Zenon, <1>3, <1>5, <1>6, <1>8, <1>9, <1>10, <1>11, <1>12 DEF IInv

\* A process sleeps in bget on a buffer that is busy.
LEMMA StepBgetSleep ==
  ASSUME IInv, NEW p \in Refs, BgetSleep(p)
  PROVE  IInv'
<1> USE DEF Busy, Valid, Dirty
<1> DEFINE b == lru[Min(Cached(want[p]))]
<1>1. b \in Bufs /\ Busy(b)
  BY Zenon, CachedBuf DEF IInv, BgetSleep
<1>2. /\ UNCHANGED <<sector, flags, data, lru, idequeue, drive, disk, want, panicked>>
      /\ buf' = [buf EXCEPT ![p] = b]
      /\ pc' = [pc EXCEPT ![p] = "asleep"]
      /\ pc[p] = "bget"
  BY Zenon DEF BgetSleep, bufs, ide
<1> HIDE DEF b
<1>3. TypeOK'
  BY <1>1, <1>2 DEF IInv, TypeOK, Bufs
<1>4. /\ \A q \in Refs : buf'[q] = IF q = p THEN b ELSE buf[q]
      /\ \A q \in Refs : pc'[q] = IF q = p THEN "asleep" ELSE pc[q]
      /\ \A c \in Bufs : /\ Busy(c)' <=> Busy(c)
                         /\ Valid(c)' <=> Valid(c)
                         /\ Dirty(c)' <=> Dirty(c)
  BY Zenon, <1>1, <1>2 DEF IInv, TypeOK
<1>5. LruInv' /\ DriveInv' /\ CacheInv' /\ PanicInv'
  BY Zenon, <1>2, <1>4 DEF IInv, LruInv, DriveInv, CacheInv, PanicInv
<1>6. \A q \in Refs : Holding(q)' <=> Holding(q) /\ q # p
  BY <1>2, <1>4 DEF Holding
<1>7. OneHolder' /\ HoldInv' /\ BusyHeld'
  <2>1. OneHolder'
    BY <1>2, <1>4, <1>6 DEF IInv, OneHolder, HoldInv, Holding
  <2>2. HoldInv'
    BY <1>2, <1>4, <1>6 DEF IInv, HoldInv, Holding
  <2>3. BusyHeld'
    BY <1>2, <1>4, <1>6 DEF IInv, BusyHeld, Holding
  <2> QED
    BY Zenon, <2>1, <2>2, <2>3
<1>8. PcInv'
  BY <1>1, <1>2, <1>4 DEF IInv, PcInv
<1>9. QueueInv'
  BY <1>2, <1>4 DEF IInv, QueueInv
<1>10. PinInv'
  <2>1. Pinned' \subseteq Pinned
    BY Zenon, <1>2, <1>4 DEF Pinned, InIO
  <2> QED BY Zenon, <2>1, PinShrinks DEF IInv
<1> QED
  BY Zenon, <1>3, <1>5, <1>7, <1>8, <1>9, <1>10 DEF IInv

\* When no buffer can be recycled, each is held by another process or pinned
\* by the log, so that there are fewer than one per process and the pinned ones.
LEMMA BuffersSuffice ==
  ASSUME IInv, NEW p \in Refs, pc[p] = "bget", Clean = {}
  PROVE  NBUF < Cardinality(Refs) + MAXPINNED
<1> DEFINE B == {b \in Bufs : Busy(b)}
           f == [b \in B |-> CHOOSE q \in Refs : Holding(q) /\ buf[q] = b]
<1>1. ASSUME NEW b \in B
      PROVE  f[b] \in Refs \ {p} /\ buf[f[b]] = b
  <2>1. \E q \in Refs : Holding(q) /\ buf[q] = b
    BY Zenon DEF IInv, BusyHeld
  <2>2. f[b] \in Refs /\ Holding(f[b]) /\ buf[f[b]] = b
    BY Zenon, <2>1
  <2> HIDE DEF f
  <2> QED
    BY Zenon, <2>2 DEF Holding
<1>2. f \in Injection(B, Refs \ {p})
  <2>1. f \in [B -> Refs \ {p}]
    BY Zenon, <1>1
  <2> HIDE DEF f
  <2> QED
    BY Zenon, <2>1, <1>1 DEF Injection, IsInjective
<1>3. /\ IsFiniteSet(Refs \ {p})
      /\ Cardinality(Refs \ {p}) = Cardinality(Refs) - 1
      /\ Cardinality(Refs) \in Nat
  BY Zenon, BcacheAssumption, FS_RemoveElement, FS_CardinalityType
<1>4. IsFiniteSet(B) /\ Cardinality(B) <= Cardinality(Refs) - 1
  BY <1>2, <1>3, FS_Injection
<1>5. IsFiniteSet(Pinned) /\ Cardinality(Pinned) <= MAXPINNED
  BY Zenon, BufsFinite, FS_Subset DEF Pinned, IInv, PinInv
<1>6. Bufs = B \cup Pinned
  <2> SUFFICES ASSUME NEW b \in Bufs, ~Busy(b) PROVE b \in Pinned
    BY Zenon DEF Pinned
  <2>1. PICK i \in 1..NBUF : lru[i] = b
    BY Zenon DEF IInv, LruInv, Bufs
  <2>2. Dirty(b)
    BY Zenon, <2>1 DEF Clean, Busy, Dirty
  <2>3. ~InIO(b)
    BY Zenon DEF InIO, IInv, HoldInv, Holding
  <2> QED
    BY Zenon, <2>2, <2>3 DEF Pinned
<1> HIDE DEF B, f
<1>7. NBUF = Cardinality(B) + Cardinality(Pinned) - Cardinality(B \cap Pinned)
  BY Zenon, <1>4, <1>5, <1>6, BufsFinite, FS_Union
<1>8. /\ Cardinality(B) \in Nat /\ Cardinality(Pinned) \in Nat
      /\ Cardinality(B \cap Pinned) \in Nat
  BY Zenon, <1>4, <1>5, FS_CardinalityType, FS_Intersection
<1> QED
  BY <1>3, <1>4, <1>5, <1>7, <1>8, BcacheAssumption

\* bget gives a free and clean buffer to a sector that had none, or panics.
LEMMA StepBgetRecycle ==
  ASSUME IInv, NEW p \in Refs, BgetRecycle(p)
  PROVE  IInv'
<1> USE DEF Busy, Valid, Dirty
<1>1. CASE Clean = {}
  <2>1. /\ UNCHANGED <<sector, flags, data, lru, idequeue, drive, disk, pc, want, buf>>
        /\ panicked' = TRUE /\ pc[p] = "bget"
    BY Zenon, <1>1 DEF BgetRecycle, ide
  <2>2. PanicInv'
    BY Zenon, <1>1, <2>1, BuffersSuffice DEF PanicInv
  <2>3. TypeOK' /\ LruInv' /\ QueueInv' /\ DriveInv' /\ CacheInv' /\ PcInv'
    BY SMTT(30), <2>1 DEF IInv, TypeOK, LruInv, QueueInv, DriveInv, CacheInv, PcInv
  <2>4. OneHolder' /\ HoldInv' /\ BusyHeld' /\ PinInv'
    BY <2>1 DEF IInv, OneHolder, HoldInv, BusyHeld, PinInv, Pinned, InIO, Holding
  <2> QED
    BY Zenon, <2>2, <2>3, <2>4 DEF IInv
<1>2. CASE Clean # {}
  <2> DEFINE b == lru[Max(Clean)]
  <2>1. b \in Bufs /\ ~Busy(b) /\ ~Dirty(b)
    BY Zenon, <1>2, CleanBuf DEF IInv
  <2>2. /\ UNCHANGED <<data, lru, idequeue, drive, disk, want, panicked>>
        /\ pc[p] = "bget"
        /\ \A c \in Bufs : sector[c] # want[p]
        /\ want[p] \in Sectors
    BY Zenon, <1>2, NotCached DEF BgetRecycle, ide, IInv, PcInv
  <2>3. /\ sector' = [sector EXCEPT ![b] = want[p]]
        /\ flags' = [flags EXCEPT ![b] = {"BUSY"}]
        /\ buf' = [buf EXCEPT ![p] = b]
        /\ pc' = [pc EXCEPT ![p] = IF "VALID" \in flags'[b] THEN "held" ELSE "iderw"]
    BY Zenon, <1>2 DEF BgetRecycle, Got
  <2> HIDE DEF b
  <2>4. /\ \A c \in Bufs : /\ Busy(c)' <=> Busy(c) \/ c = b
                           /\ Valid(c)' <=> Valid(c) /\ c # b
                           /\ Dirty(c)' <=> Dirty(c)
        /\ \A c \in Bufs : sector'[c] = IF c = b THEN want[p] ELSE sector[c]
        /\ \A q \in Refs : buf'[q] = IF q = p THEN b ELSE buf[q]
        /\ \A q \in Refs : pc'[q] = IF q = p THEN "iderw" ELSE pc[q]
    BY Zenon, <2>1, <2>3 DEF IInv, TypeOK
  <2>5. TypeOK'
    BY <2>1, <2>2, <2>3 DEF IInv, TypeOK, Bufs
  <2>6. LruInv' /\ PanicInv'
    BY Zenon, <2>2 DEF IInv, LruInv, PanicInv
  <2>7. CacheInv'
    BY <2>1, <2>2, <2>4 DEF IInv, CacheInv
  <2>8. \A q \in Refs : Holding(q)' <=> Holding(q) \/ q = p
    BY Zenon, <2>4 DEF Holding
  <2>9. OneHolder'
    BY SMTT(30), <2>1, <2>4, <2>8 DEF IInv, OneHolder, HoldInv
  <2>10. HoldInv'
    BY <2>1, <2>2, <2>4, <2>8 DEF IInv, HoldInv
  <2>11. BusyHeld'
    <3> SUFFICES ASSUME NEW c \in Bufs, Busy(c)'
                 PROVE  \E q \in Refs : Holding(q)' /\ buf'[q] = c
      BY Zenon DEF BusyHeld
    <3>1. CASE c = b
      BY Zenon, <3>1, <2>4, <2>8
    <3>2. CASE c # b
      <4>1. PICK q \in Refs : Holding(q) /\ buf[q] = c
        BY Zenon, <3>2, <2>4 DEF IInv, BusyHeld
      <4>2. q # p
        BY Zenon, <4>1, <2>2 DEF Holding
      <4> QED
        BY Zenon, <4>1, <4>2, <2>4, <2>8
    <3> QED BY Zenon, <3>1, <3>2
  <2>12. PcInv'
    BY <2>1, <2>2, <2>4 DEF IInv, PcInv, HoldInv, Holding
  <2>13. QueueInv'
    BY <2>2, <2>4 DEF IInv, QueueInv
  <2>14. DriveInv'
    <3>1. ASSUME idequeue # <<>>
          PROVE  idequeue[1] \in Bufs /\ idequeue[1] # b
      BY <3>1, <2>1 DEF IInv, QueueInv, HoldInv, Holding, TypeOK
    <3> QED
      BY Zenon, <3>1, <2>2, <2>4 DEF IInv, DriveInv
  <2>15. PinInv'
    <3>1. Pinned' \subseteq Pinned
      BY Zenon, <2>2, <2>4 DEF Pinned, InIO
    <3> QED BY Zenon, <3>1, PinShrinks DEF IInv
  <2> QED
    BY Zenon, <2>5, <2>6, <2>7, <2>9, <2>10, <2>11, <2>12, <2>13, <2>14, <2>15 DEF IInv
<1> QED
  BY Zenon, <1>1, <1>2

\* The buffer at the head of the queue is not that of a process elsewhere.
LEMMA HeadInIO ==
  ASSUME IInv, NEW p \in Refs, pc[p] # "iowait", Holding(p), idequeue # <<>>
  PROVE  idequeue[1] \in Bufs /\ idequeue[1] # buf[p]
<1>1. idequeue[1] \in Bufs /\ 1 \in 1..Len(idequeue)
  BY DEF IInv, TypeOK
<1>2. PICK q \in Refs : pc[q] = "iowait" /\ buf[q] = idequeue[1]
  BY Zenon, <1>1 DEF IInv, QueueInv
<1> QED
  BY Zenon, <1>1, <1>2 DEF IInv, OneHolder, Holding

\* What bwrite and log_write have in common: the holder changes its buffer.
LEMMA StepWrite ==
  ASSUME IInv, NEW p \in Refs, pc[p] = "held",
         NEW v \in Vals[sector[buf[p]]],
         data' = [data EXCEPT ![buf[p]] = v],
         flags' = [flags EXCEPT ![buf[p]] = @ \cup {"DIRTY"}],
         UNCHANGED <<sector, lru, ide, want, buf, panicked>>,
         NEW r \in {"iderw", "held"}, pc' = [pc EXCEPT ![p] = r],
         PinInv'
  PROVE  IInv'
<1> USE DEF Busy, Valid, Dirty
<1> DEFINE b == buf[p]
<1>1. /\ b \in Bufs /\ Busy(b) /\ Valid(b)
      /\ sector[b] \in Sectors
      /\ v \in Contents
  BY Zenon DEF IInv, HoldInv, Holding, PcInv, Contents
<1>2. UNCHANGED <<sector, lru, idequeue, drive, disk, want, buf, panicked>>
  BY Zenon DEF ide
<1>3. TypeOK'
  BY Zenon, <1>1, <1>2 DEF IInv, TypeOK
<1>4. /\ \A c \in Bufs : /\ Busy(c)' <=> Busy(c)
                         /\ Valid(c)' <=> Valid(c)
                         /\ Dirty(c)' <=> Dirty(c) \/ c = b
      /\ \A c \in Bufs : data'[c] = IF c = b THEN v ELSE data[c]
      /\ \A q \in Refs : pc'[q] = IF q = p THEN r ELSE pc[q]
  BY Zenon, <1>1 DEF IInv, TypeOK
<1>5. \A q \in Refs : /\ Holding(q)' <=> Holding(q)
                      /\ q # p /\ Holding(q) => buf[q] # b
  BY Zenon, <1>4 DEF Holding, IInv, OneHolder
<1> HIDE DEF b
<1>6. LruInv' /\ PanicInv'
  BY <1>2 DEF IInv, LruInv, PanicInv
<1>7. CacheInv'
  BY SMTT(30), <1>1, <1>2, <1>4 DEF IInv, CacheInv
<1>8. OneHolder'
  BY Zenon, <1>2, <1>5 DEF IInv, OneHolder
<1>9. HoldInv'
  BY Zenon, <1>2, <1>4, <1>5 DEF IInv, HoldInv
<1>10. BusyHeld'
  BY Zenon, <1>2, <1>4, <1>5 DEF IInv, BusyHeld
<1>11. PcInv'
  BY <1>1, <1>2, <1>4, <1>5 DEF IInv, PcInv, HoldInv, Holding, b
<1>12. QueueInv'
  BY <1>2, <1>4 DEF IInv, QueueInv
<1>13. DriveInv'
  <2>1. idequeue # <<>> => idequeue[1] \in Bufs /\ idequeue[1] # b
    BY Zenon, HeadInIO DEF b, Holding
  <2> QED
    BY Zenon, <1>2, <1>4, <2>1 DEF IInv, DriveInv
<1> QED
  BY Zenon, <1>3, <1>6, <1>7, <1>8, <1>9, <1>10, <1>11, <1>12, <1>13 DEF IInv

\* bwrite leaves the buffer dirty and goes on to iderw.
LEMMA StepBwrite ==
  ASSUME IInv, NEW p \in Refs, bwrite(p)
  PROVE  IInv'
<1>1. PICK v \in Vals[sector[buf[p]]] : data' = [data EXCEPT ![buf[p]] = v]
  BY Zenon DEF bwrite
<1>2. PinInv'
  <2>1. buf[p] \in Bufs /\ pc'[p] = "iderw" /\ buf' = buf
    BY Zenon DEF bwrite, IInv, TypeOK, HoldInv, Holding
  <2>2. \A c \in Bufs : Dirty(c)' => Dirty(c) \/ c = buf[p]
    BY Zenon, <2>1 DEF bwrite, IInv, TypeOK, Dirty
  <2>3. \A q \in Refs : pc[q] \in {"iderw", "iowait"} => pc'[q] = pc[q]
    BY Zenon DEF bwrite, IInv, TypeOK
  <2>4. Pinned' \subseteq Pinned
    BY Zenon, <2>1, <2>2, <2>3 DEF Pinned, InIO, Dirty
  <2> QED BY Zenon, <2>4, PinShrinks DEF IInv
<1> QED
  BY Zenon, <1>1, <1>2, StepWrite DEF bwrite

\* log_write pins the buffer, within the bound of the log.
LEMMA StepLogWrite ==
  ASSUME IInv, NEW p \in Refs, log_write(p)
  PROVE  IInv'
<1>1. PICK v \in Vals[sector[buf[p]]] : data' = [data EXCEPT ![buf[p]] = v]
  BY Zenon DEF log_write
<1>2. PinInv'
  <2> DEFINE D == {b \in Bufs : "DIRTY" \in flags[b]} \cup {buf[p]}
  <2>1. buf[p] \in Bufs
    BY Zenon DEF log_write, IInv, HoldInv, Holding
  <2>2. IsFiniteSet(D) /\ Cardinality(D) <= MAXPINNED
    BY <2>1, BufsFinite, FS_Subset DEF log_write
  <2>3. \A c \in Bufs : Dirty(c)' => c \in D
    BY <2>1 DEF log_write, IInv, TypeOK, Dirty
  <2>4. Pinned' \subseteq D
    BY Zenon, <2>3 DEF Pinned, Dirty
  <2> HIDE DEF D
  <2>5. /\ IsFiniteSet(Pinned') /\ Cardinality(Pinned') <= Cardinality(D)
        /\ Cardinality(D) \in Nat /\ Cardinality(Pinned') \in Nat
    BY Zenon, <2>2, <2>4, FS_Subset, FS_CardinalityType
  <2> QED
    BY <2>2, <2>5, BcacheAssumption DEF PinInv
<1>3. pc' = [pc EXCEPT ![p] = "held"]
  BY Zenon DEF log_write, IInv, TypeOK
<1> QED
  BY Zenon, <1>1, <1>2, <1>3, StepWrite DEF log_write

\* Moving a buffer to the front of the list keeps every buffer in it once.
LEMMA ToFrontLru ==
  ASSUME TypeOK, LruInv, NEW b \in Bufs, lru' = ToFront(b)
  PROVE  lru' \in [Bufs -> Bufs] /\ LruInv'
<1> USE BcacheAssumption DEF Bufs
<1>1. PICK k \in Bufs : lru[k] = b
  BY Zenon DEF LruInv
<1>2. \A i \in Bufs : (\E j \in i..NBUF : lru[j] = b) <=> i <= k
  BY <1>1 DEF LruInv
<1>3. /\ lru' \in [Bufs -> Bufs]
      /\ \A i \in Bufs : lru'[i] = IF i = 1 THEN b ELSE IF i <= k THEN lru[i - 1] ELSE lru[i]
  <2> DEFINE new(i) == IF i = 1 THEN b ELSE IF i <= k THEN lru[i - 1] ELSE lru[i]
  <2>1. ASSUME NEW i \in Bufs PROVE new(i) \in Bufs
    <3>1. \A j \in Bufs : lru[j] \in Bufs
      BY Zenon DEF TypeOK
    <3>2. i # 1 => i - 1 \in Bufs
      OBVIOUS
    <3> QED
      BY Zenon, <3>1, <3>2
  <2>2. lru' = [i \in Bufs |-> new(i)]
    BY Zenon, <1>2 DEF ToFront
  <2> HIDE DEF new
  <2>3. lru' \in [Bufs -> Bufs] /\ \A i \in Bufs : lru'[i] = new(i)
    BY Zenon, <2>1, <2>2
  <2> QED
    BY Zenon, <2>3 DEF new
<1>4. \A i, j \in Bufs : lru'[i] = lru'[j] => i = j
  <2> DEFINE g(i) == IF i = 1 THEN k ELSE IF i <= k THEN i - 1 ELSE i
  <2>1. \A i \in Bufs : g(i) \in Bufs
    OBVIOUS
  <2>2. \A i \in Bufs : lru'[i] = lru[g(i)]
    BY Zenon, <1>1, <1>3
  <2>3. \A i, j \in Bufs : g(i) = g(j) => i = j
    OBVIOUS
  <2> HIDE DEF g
  <2> SUFFICES ASSUME NEW i \in Bufs, NEW j \in Bufs, lru'[i] = lru'[j]
               PROVE  i = j
    BY Zenon
  <2>4. g(i) \in Bufs /\ g(j) \in Bufs /\ lru[g(i)] = lru[g(j)]
    BY Zenon, <2>1, <2>2
  <2>5. g(i) = g(j)
    BY Zenon, <2>4 DEF LruInv
  <2> QED
    BY Zenon, <2>3, <2>5
<1>5. ASSUME NEW c \in Bufs PROVE \E i \in Bufs : lru'[i] = c
  <2>1. PICK m \in Bufs : lru[m] = c
    BY Zenon DEF LruInv
  <2>2. CASE m = k
    <3>1. 1 \in Bufs
      BY <1>1
    <3>2. lru'[1] = c
      BY Zenon, <1>1, <1>3, <2>1, <2>2, <3>1
    <3> QED BY Zenon, <3>1, <3>2
  <2>3. CASE m < k
    <3>1. m + 1 \in Bufs /\ m + 1 <= k /\ m + 1 # 1 /\ (m + 1) - 1 = m
      BY <2>3
    <3>2. lru'[m + 1] = c
      BY Zenon, <3>1, <2>1, <1>3
    <3> QED BY Zenon, <3>1, <3>2
  <2>4. CASE m > k
    <3>1. m # 1 /\ ~(m <= k)
      BY <2>4
    <3>2. lru'[m] = c
      BY Zenon, <3>1, <2>1, <1>3
    <3> QED BY Zenon, <3>2
  <2> QED BY <2>2, <2>3, <2>4
<1> QED
  BY Zenon, <1>3, <1>4, <1>5 DEF LruInv

\* brelse frees the buffer and wakes all who sleep on it.
LEMMA StepBrelse ==
  ASSUME IInv, NEW p \in Refs, brelse(p)
  PROVE  IInv'
<1> USE DEF Busy, Valid, Dirty
<1> DEFINE b == buf[p]
<1>1. /\ b \in Bufs
      /\ \A q \in Refs : q # p /\ Holding(q) => buf[q] # b
      /\ pc[p] = "held"
  BY Zenon DEF IInv, HoldInv, OneHolder, Holding, brelse
<1>2. /\ UNCHANGED <<sector, data, idequeue, drive, disk, panicked>>
      /\ lru' = ToFront(b)
  BY Zenon DEF brelse, ide
<1>3. /\ flags' = [flags EXCEPT ![b] = @ \ {"BUSY"}]
      /\ pc' = [Woken(b) EXCEPT ![p] = "idle"]
      /\ want' = [want EXCEPT ![p] = NoSector]
      /\ buf' = [buf EXCEPT ![p] = 0]
  BY Zenon DEF brelse
<1> HIDE DEF b
<1>4. /\ \A c \in Bufs : /\ Busy(c)' <=> Busy(c) /\ c # b
                         /\ Valid(c)' <=> Valid(c)
                         /\ Dirty(c)' <=> Dirty(c)
      /\ \A q \in Refs : want'[q] = IF q = p THEN NoSector ELSE want[q]
      /\ \A q \in Refs : buf'[q] = IF q = p THEN 0 ELSE buf[q]
  BY Zenon, <1>1, <1>3 DEF IInv, TypeOK
<1>5. \A q \in Refs : pc'[q] = IF q = p THEN "idle"
                                ELSE IF buf[q] = b /\ pc[q] = "asleep" THEN "bget" ELSE pc[q]
  BY Zenon, <1>1, <1>3 DEF Woken, Holding
<1>6. TypeOK' /\ LruInv'
  <2>1. lru' \in [Bufs -> Bufs] /\ LruInv'
    BY Zenon, <1>1, <1>2, ToFrontLru DEF IInv
  <2>2. pc' \in [Refs -> {"idle", "bget", "asleep", "iderw", "iowait", "iowoken", "held"}]
    BY Zenon, <1>3 DEF Woken, IInv, TypeOK
  <2>3. buf' \in [Refs -> 0..NBUF] /\ want' \in [Refs -> Sectors \cup {NoSector}]
    BY <1>3, BcacheAssumption DEF IInv, TypeOK
  <2>4. flags' \in [Bufs -> SUBSET {"BUSY", "VALID", "DIRTY"}]
    BY Zenon, <1>3 DEF IInv, TypeOK
  <2> QED
    BY Zenon, <1>2, <2>1, <2>2, <2>3, <2>4 DEF IInv, TypeOK
<1>7. \A q \in Refs : Holding(q)' <=> Holding(q) /\ q # p
  BY Zenon, <1>5 DEF Holding
<1>8. CacheInv' /\ PanicInv'
  BY Zenon, <1>2, <1>4 DEF IInv, CacheInv, PanicInv
<1>9. OneHolder'
  BY Zenon, <1>4, <1>7 DEF IInv, OneHolder
<1>10. HoldInv'
  BY Zenon, <1>1, <1>2, <1>4, <1>7 DEF IInv, HoldInv
<1>11. BusyHeld'
  <2> SUFFICES ASSUME NEW c \in Bufs, Busy(c)'
               PROVE  \E q \in Refs : Holding(q)' /\ buf'[q] = c
    BY Zenon DEF BusyHeld
  <2>1. PICK q \in Refs : Holding(q) /\ buf[q] = c
    BY Zenon, <1>4 DEF IInv, BusyHeld
  <2>2. q # p
    BY Zenon, <2>1, <1>4 DEF b
  <2> QED
    BY Zenon, <2>1, <2>2, <1>4, <1>7
<1>12. PcInv'
  BY <1>1, <1>2, <1>4, <1>5 DEF IInv, PcInv, HoldInv, Holding
<1>13. QueueInv'
  BY <1>1, <1>2, <1>4, <1>5 DEF IInv, QueueInv
<1>14. DriveInv'
  <2>1. idequeue # <<>> => idequeue[1] \in Bufs
    BY DEF IInv, TypeOK
  <2> QED
    BY Zenon, <1>2, <1>4, <2>1 DEF IInv, DriveInv
<1>15. PinInv'
  <2>1. Pinned' \subseteq Pinned
    BY Zenon, <1>1, <1>4, <1>5 DEF Pinned, InIO
  <2> QED BY Zenon, <2>1, PinShrinks DEF IInv
<1> QED
  BY Zenon, <1>6, <1>8, <1>9, <1>10, <1>11, <1>12, <1>13, <1>14, <1>15 DEF IInv

------------------------------------------------------------------------------
(* The steps of ide.c. *)

\* The loop of iderw ends when its process is woken by ideintr.
LEMMA StepIderwWoken ==
  ASSUME IInv, NEW p \in Refs, IderwWoken(p)
  PROVE  IInv'
<1> USE DEF Busy, Valid, Dirty
<1>1. /\ UNCHANGED <<sector, flags, data, lru, idequeue, drive, disk, want, buf, panicked>>
      /\ pc[p] = "iowoken" /\ Valid(buf[p]) /\ ~Dirty(buf[p])
  BY Zenon DEF IderwWoken, bufs, ide, IInv, PcInv
<1>2. pc' = [pc EXCEPT ![p] = "held"]
  BY Zenon, <1>1 DEF IderwWoken
<1>3. TypeOK'
  BY Zenon, <1>1, <1>2 DEF IInv, TypeOK
<1>4. \A q \in Refs : pc'[q] = IF q = p THEN "held" ELSE pc[q]
  BY Zenon, <1>2 DEF IInv, TypeOK
<1>5. \A q \in Refs : Holding(q)' <=> Holding(q)
  BY Zenon, <1>1, <1>4 DEF Holding
<1>6. LruInv' /\ DriveInv' /\ CacheInv' /\ PanicInv'
  BY Zenon, <1>1 DEF IInv, LruInv, DriveInv, CacheInv, PanicInv
<1>7. OneHolder' /\ HoldInv'
  BY Zenon, <1>1, <1>5 DEF IInv, OneHolder, HoldInv
<1>8. BusyHeld'
  BY Zenon, <1>1, <1>5 DEF IInv, BusyHeld
<1>9. PcInv'
  BY Zenon, <1>1, <1>4 DEF IInv, PcInv
<1>10. QueueInv'
  BY <1>1, <1>4 DEF IInv, QueueInv
<1>11. PinInv'
  <2>1. Pinned' \subseteq Pinned
    BY Zenon, <1>1, <1>4 DEF Pinned, InIO
  <2> QED BY Zenon, <2>1, PinShrinks DEF IInv
<1> QED
  BY Zenon, <1>3, <1>6, <1>7, <1>8, <1>9, <1>10, <1>11 DEF IInv

\* iderw does not panic.
LEMMA IderwCalm ==
  ASSUME IInv, NEW p \in Refs, iderw(p)
  PROVE  panicked' = FALSE
<1>1. Busy(buf[p]) /\ (~Valid(buf[p]) \/ Dirty(buf[p]))
  BY Zenon DEF IInv, HoldInv, Holding, iderw, PcInv
<1>2. ~("BUSY" \notin flags[buf[p]] \/ flags[buf[p]] \cap {"VALID", "DIRTY"} = {"VALID"})
  BY <1>1 DEF Busy, Valid, Dirty
<1> QED
  BY Zenon, <1>2 DEF iderw

\* It queues a buffer that is not queued yet.
LEMMA StepIderw ==
  ASSUME IInv, NEW p \in Refs, iderw(p)
  PROVE  IInv'
<1> USE DEF Busy, Valid, Dirty
<1> DEFINE b == buf[p]
<1>1. /\ b \in Bufs /\ Busy(b) /\ sector[b] \in Sectors
      /\ \A q \in Refs : q # p /\ Holding(q) => buf[q] # b
      /\ pc[p] = "iderw"
      /\ ~Valid(b) \/ Dirty(b)
  BY Zenon DEF IInv, HoldInv, OneHolder, Holding, iderw, PcInv
<1>2. /\ UNCHANGED <<sector, flags, data, lru, disk, want, buf>>
      /\ idequeue' = Append(idequeue, b)
      /\ drive' = IF idequeue = <<>> THEN idestart(b) ELSE drive
  BY Zenon DEF iderw, bufs
<1>3. panicked' = FALSE
  BY Zenon, IderwCalm
<1>4. pc' = [pc EXCEPT ![p] = "iowait"]
  BY Zenon DEF iderw
<1> HIDE DEF b
<1>5. /\ Len(idequeue') = Len(idequeue) + 1 /\ Len(idequeue) \in Nat
      /\ \A i \in 1..Len(idequeue) : idequeue'[i] = idequeue[i] /\ idequeue[i] \in Bufs
      /\ idequeue'[Len(idequeue) + 1] = b
      /\ idequeue' \in Seq(Bufs)
  BY <1>1, <1>2 DEF IInv, TypeOK
<1>6. \A q \in Refs : pc'[q] = IF q = p THEN "iowait" ELSE pc[q]
  BY Zenon, <1>4 DEF IInv, TypeOK
<1>7. TypeOK'
  <2>1. idestart(b) \in [sector : Sectors \cup {NoSector}, cmd : {"none", "read", "write"},
                         data : Contents, status : {"idle", "busy", "done"}]
    BY Zenon, <1>1 DEF idestart, IInv, TypeOK, Contents
  <2>2. drive' \in [sector : Sectors \cup {NoSector}, cmd : {"none", "read", "write"},
                    data : Contents, status : {"idle", "busy", "done"}]
    BY Zenon, <1>2, <2>1 DEF IInv, TypeOK
  <2> QED
    BY Zenon, <1>2, <1>3, <1>4, <1>5, <2>2 DEF IInv, TypeOK
<1>8. \A q \in Refs : Holding(q)' <=> Holding(q)
  BY Zenon, <1>1, <1>6 DEF Holding
<1>9. LruInv' /\ CacheInv' /\ PanicInv'
  BY Zenon, <1>2, <1>3 DEF IInv, LruInv, CacheInv, PanicInv
<1>10. OneHolder' /\ HoldInv'
  BY Zenon, <1>2, <1>8 DEF IInv, OneHolder, HoldInv
<1>11. BusyHeld'
  BY Zenon, <1>2, <1>8 DEF IInv, BusyHeld
<1>12. PcInv'
  BY Zenon, <1>1, <1>2, <1>6 DEF IInv, PcInv, b
<1>13. QueueInv'
  <2>1. \A i \in 1..Len(idequeue) : idequeue[i] # b
    BY <1>1 DEF IInv, QueueInv, Holding
  <2>2. \A i, j \in 1..Len(idequeue') : idequeue'[i] = idequeue'[j] => i = j
    BY <1>5, <2>1 DEF IInv, QueueInv
  <2>3. ASSUME NEW i \in 1..Len(idequeue')
        PROVE  \E q \in Refs : pc'[q] = "iowait" /\ buf'[q] = idequeue'[i]
    <3>1. CASE i = Len(idequeue) + 1
      BY Zenon, <3>1, <1>2, <1>5, <1>6 DEF b
    <3>2. CASE i \in 1..Len(idequeue)
      BY <3>2, <1>2, <1>5, <1>6 DEF IInv, QueueInv
    <3> QED BY <3>1, <3>2, <1>5
  <2>4. ASSUME NEW q \in Refs, pc'[q] = "iowait"
        PROVE  \E i \in 1..Len(idequeue') : idequeue'[i] = buf'[q]
    <3>1. CASE q = p
      <4>1. Len(idequeue) + 1 \in 1..Len(idequeue')
        BY <1>5
      <4> QED BY Zenon, <3>1, <4>1, <1>2, <1>5 DEF b
    <3>2. CASE q # p
      <4>1. PICK i \in 1..Len(idequeue) : idequeue[i] = buf[q]
        BY Zenon, <3>2, <2>4, <1>6 DEF IInv, QueueInv
      <4>2. i \in 1..Len(idequeue') /\ idequeue'[i] = buf'[q]
        BY <4>1, <1>2, <1>5
      <4> QED BY Zenon, <4>2
    <3> QED BY Zenon, <3>1, <3>2
  <2> QED
    BY Zenon, <2>2, <2>3, <2>4 DEF QueueInv
<1>14. DriveInv'
  <2>1. idequeue' # <<>>
    BY <1>5 DEF IInv, TypeOK
  <2>2. CASE idequeue = <<>>
    <3>1. idequeue'[1] = b /\ drive' = idestart(b)
      BY <2>2, <1>2, <1>5
    <3> QED
      BY <2>1, <3>1, <1>2 DEF DriveInv, idestart
  <2>3. CASE idequeue # <<>>
    <3>1. idequeue'[1] = idequeue[1] /\ drive' = drive
      BY <2>3, <1>2, <1>5 DEF IInv, TypeOK
    <3> QED
      BY Zenon, <2>1, <2>3, <3>1, <1>2 DEF IInv, DriveInv
  <2> QED BY Zenon, <2>2, <2>3
<1>15. PinInv'
  <2>1. Pinned' \subseteq Pinned
    BY Zenon, <1>1, <1>2, <1>6 DEF Pinned, InIO
  <2> QED BY Zenon, <2>1, PinShrinks DEF IInv
<1> QED
  BY Zenon, <1>7, <1>9, <1>10, <1>11, <1>12, <1>13, <1>14, <1>15 DEF IInv

\* A busy drive works on the buffer at the head of the queue.
LEMMA BusyDrive ==
  ASSUME IInv, drive.status = "busy"
  PROVE  /\ idequeue # <<>> /\ 1 \in 1..Len(idequeue)
         /\ idequeue[1] \in Bufs
         /\ sector[idequeue[1]] \in Sectors
         /\ drive.sector = sector[idequeue[1]]
<1>1. idequeue \in Seq(Bufs)
  BY Zenon DEF IInv, TypeOK
<1>2. drive # NoRequest
  BY SMTT(30) DEF NoRequest
<1>3. idequeue # <<>>
  BY Zenon, <1>2 DEF IInv, DriveInv
<1>4. 1 \in 1..Len(idequeue) /\ idequeue[1] \in Bufs
  BY SMTT(30), <1>1, <1>3
<1>5. PICK p \in Refs : pc[p] = "iowait" /\ buf[p] = idequeue[1]
  BY Zenon, <1>4 DEF IInv, QueueInv
<1>6. Busy(idequeue[1])
  BY Zenon, <1>5 DEF IInv, HoldInv, Holding
<1>7. sector[idequeue[1]] \in Sectors
  BY Zenon, <1>4, <1>6 DEF IInv, CacheInv
<1>8. drive.sector = sector[idequeue[1]]
  BY Zenon, <1>3 DEF IInv, DriveInv
<1> QED BY Zenon, <1>3, <1>4, <1>7, <1>8

\* The drive writes the data of the head of the queue, and nothing else.
LEMMA StepDriveDone ==
  ASSUME IInv, DriveDone
  PROVE  IInv'
<1> USE DEF Busy, Valid, Dirty
<1> DEFINE b == idequeue[1]
<1>1. /\ UNCHANGED <<sector, flags, data, lru, idequeue, pc, want, buf, panicked>>
      /\ drive.status = "busy"
  BY Zenon DEF DriveDone, bufs
<1>2. idequeue # <<>> /\ drive.sector = sector[b]
  BY Zenon, <1>1, BusyDrive
<1>3. b \in Bufs /\ sector[b] \in Sectors /\ 1 \in 1..Len(idequeue)
  BY Zenon, <1>1, BusyDrive
<1>4. /\ drive' \in [sector : Sectors \cup {NoSector}, cmd : {"none", "read", "write"},
                     data : Contents, status : {"idle", "busy", "done"}]
      /\ drive'.sector = drive.sector /\ drive'.cmd = drive.cmd
      /\ drive'.data = drive.data /\ drive'.status = "done"
  BY Zenon DEF DriveDone, IInv, TypeOK
<1>5. drive.data \in Contents
  BY Zenon DEF IInv, TypeOK
<1>6. disk' = IF Dirty(b) THEN [disk EXCEPT ![sector[b]] = data[b]] ELSE disk
  BY Zenon, <1>1, <1>2 DEF DriveDone, IInv, DriveInv
<1>7. data[b] \in Contents
  BY Zenon, <1>3 DEF IInv, TypeOK
<1> HIDE DEF b
<1>8. TypeOK'
  BY Zenon, <1>1, <1>3, <1>4, <1>6, <1>7 DEF IInv, TypeOK
<1>9. \A s \in Sectors : disk'[s] = IF Dirty(b) /\ s = sector[b] THEN data[b] ELSE disk[s]
  BY Zenon, <1>3, <1>6 DEF IInv, TypeOK
<1>10. LruInv' /\ PanicInv' /\ PcInv' /\ QueueInv'
  BY <1>1 DEF IInv, LruInv, PanicInv, PcInv, QueueInv
<1>11. OneHolder' /\ HoldInv' /\ BusyHeld' /\ PinInv'
  BY <1>1 DEF IInv, OneHolder, HoldInv, BusyHeld, PinInv, Pinned, InIO, Holding
<1>12. CacheInv'
  BY Zenon, <1>1, <1>3, <1>9, BcacheAssumption DEF IInv, CacheInv
<1>13. DriveInv'
  BY Zenon, <1>1, <1>2, <1>3, <1>4, <1>9 DEF IInv, DriveInv, b
<1> QED
  BY Zenon, <1>8, <1>10, <1>11, <1>12, <1>13 DEF IInv

\* ideintr leaves the head of the queue equal to the disk, and starts the next.
LEMMA StepIdeintr ==
  ASSUME IInv, ideintr
  PROVE  IInv'
<1> USE DEF Busy, Valid, Dirty
<1> DEFINE b == idequeue[1]
<1>1. /\ idequeue # <<>> /\ b = Head(idequeue) /\ b \in Bufs
      /\ 1 \in 1..Len(idequeue)
  BY DEF ideintr, IInv, TypeOK
<1>2. PICK p \in Refs : pc[p] = "iowait" /\ buf[p] = b
  BY Zenon, <1>1 DEF IInv, QueueInv
<1>3. /\ sector[b] \in Sectors /\ Busy(b)
      /\ \A q \in Refs : q # p /\ Holding(q) => buf[q] # b
      /\ ~Valid(b) \/ Dirty(b)
  BY <1>2 DEF IInv, HoldInv, OneHolder, Holding, PcInv
<1>4. /\ UNCHANGED <<sector, lru, disk, want, buf, panicked>>
      /\ idequeue' = Tail(idequeue)
      /\ drive' = IF idequeue' = <<>> THEN NoRequest ELSE idestart(Head(idequeue'))
      /\ drive.status = "done"
  BY Zenon DEF ideintr
<1>5. data' = IF Dirty(b) THEN data ELSE [data EXCEPT ![b] = disk[sector[b]]]
  BY Zenon, <1>1 DEF ideintr, IInv, DriveInv
<1>6. /\ flags' = [flags EXCEPT ![b] = (@ \cup {"VALID"}) \ {"DIRTY"}]
      /\ pc' = Woken(b)
  BY Zenon, <1>1 DEF ideintr
<1>7. Dirty(b) => disk[sector[b]] = data[b]
  BY Zenon, <1>1, <1>4 DEF IInv, DriveInv
<1>8. /\ Len(idequeue') = Len(idequeue) - 1 /\ Len(idequeue) \in Nat
      /\ \A i \in 1..Len(idequeue') : i + 1 \in 1..Len(idequeue) /\ idequeue'[i] = idequeue[i + 1]
      /\ idequeue' \in Seq(Bufs)
      /\ idequeue' # <<>> => Head(idequeue') = idequeue'[1] /\ 1 \in 1..Len(idequeue')
  BY <1>1, <1>4 DEF IInv, TypeOK
<1> HIDE DEF b
<1>9. /\ \A c \in Bufs : /\ Busy(c)' <=> Busy(c)
                         /\ Valid(c)' <=> Valid(c) \/ c = b
                         /\ Dirty(c)' <=> Dirty(c) /\ c # b
      /\ \A c \in Bufs : data'[c] = IF c = b THEN disk[sector[b]] ELSE data[c]
  BY Zenon, <1>1, <1>5, <1>6, <1>7 DEF IInv, TypeOK
<1>10. \A q \in Refs : pc'[q] = IF q = p THEN "iowoken"
                                 ELSE IF buf[q] = b /\ pc[q] = "asleep" THEN "bget" ELSE pc[q]
  BY Zenon, <1>2, <1>3, <1>6 DEF Woken, Holding
<1>11. \A i \in 1..Len(idequeue') : idequeue'[i] \in Bufs /\ idequeue'[i] # b
  <2> SUFFICES ASSUME NEW i \in 1..Len(idequeue')
               PROVE  idequeue'[i] \in Bufs /\ idequeue'[i] # b
    BY Zenon
  <2>1. i + 1 \in 1..Len(idequeue) /\ i + 1 # 1 /\ idequeue'[i] = idequeue[i + 1]
    BY <1>8
  <2>2. idequeue[i + 1] \in Bufs
    BY <2>1 DEF IInv, TypeOK
  <2> QED
    BY Zenon, <2>1, <2>2, <1>1 DEF IInv, QueueInv, b
<1>12. TypeOK'
  <2>1. flags' \in [Bufs -> SUBSET {"BUSY", "VALID", "DIRTY"}]
    BY Zenon, <1>6 DEF IInv, TypeOK
  <2>2. data' \in [Bufs -> Contents]
    BY Zenon, <1>1, <1>3, <1>5 DEF IInv, TypeOK
  <2>3. pc' \in [Refs -> {"idle", "bget", "asleep", "iderw", "iowait", "iowoken", "held"}]
    BY Zenon, <1>6 DEF Woken, IInv, TypeOK
  <2>4. \A c \in Bufs : idestart(c) \in
           [sector : Sectors \cup {NoSector}, cmd : {"none", "read", "write"},
            data : Contents, status : {"idle", "busy", "done"}]
    BY Zenon DEF idestart, IInv, TypeOK, Contents
  <2>5. drive' \in [sector : Sectors \cup {NoSector}, cmd : {"none", "read", "write"},
                    data : Contents, status : {"idle", "busy", "done"}]
    <3>1. CASE idequeue' = <<>>
      BY Zenon, <3>1, <1>4 DEF NoRequest, Contents
    <3>2. CASE idequeue' # <<>>
      BY Zenon, <3>2, <2>4, <1>4, <1>8, <1>11
    <3> QED BY Zenon, <3>1, <3>2
  <2> QED
    BY Zenon, <1>4, <1>8, <2>1, <2>2, <2>3, <2>5 DEF IInv, TypeOK
<1>13. \A q \in Refs : Holding(q)' <=> Holding(q)
  BY Zenon, <1>2, <1>10 DEF Holding
<1>14. LruInv' /\ PanicInv'
  BY Zenon, <1>4 DEF IInv, LruInv, PanicInv
<1>15. CacheInv'
  BY Zenon, <1>1, <1>3, <1>4, <1>9 DEF IInv, CacheInv
<1>16. OneHolder' /\ HoldInv'
  BY Zenon, <1>4, <1>9, <1>13 DEF IInv, OneHolder, HoldInv
<1>17. BusyHeld'
  BY Zenon, <1>4, <1>9, <1>13 DEF IInv, BusyHeld
<1>18. PcInv'
  BY <1>1, <1>2, <1>3, <1>4, <1>9, <1>10 DEF IInv, PcInv, HoldInv, Holding
<1>19. QueueInv'
  <2>1. ASSUME NEW i \in 1..Len(idequeue'), NEW j \in 1..Len(idequeue'),
               idequeue'[i] = idequeue'[j]
        PROVE  i = j
    <3>1. /\ i + 1 \in 1..Len(idequeue) /\ j + 1 \in 1..Len(idequeue)
          /\ idequeue[i + 1] = idequeue[j + 1]
      BY Zenon, <2>1, <1>8
    <3>2. i + 1 = j + 1
      BY Zenon, <3>1 DEF IInv, QueueInv
    <3> QED BY <3>2
  <2>2. ASSUME NEW i \in 1..Len(idequeue')
        PROVE  \E q \in Refs : pc'[q] = "iowait" /\ buf'[q] = idequeue'[i]
    <3>1. PICK q \in Refs : pc[q] = "iowait" /\ buf[q] = idequeue[i + 1]
      BY Zenon, <1>8 DEF IInv, QueueInv
    <3>2. q # p
      BY Zenon, <3>1, <1>2, <1>8, <1>11
    <3> QED
      BY Zenon, <3>1, <3>2, <1>4, <1>8, <1>10
  <2>3. ASSUME NEW q \in Refs, pc'[q] = "iowait"
        PROVE  \E i \in 1..Len(idequeue') : idequeue'[i] = buf'[q]
    <3>1. q # p /\ pc[q] = "iowait" /\ buf[q] # b
      BY Zenon, <2>3, <1>3, <1>10 DEF Holding
    <3>2. PICK k \in 1..Len(idequeue) : idequeue[k] = buf[q]
      BY Zenon, <3>1 DEF IInv, QueueInv
    <3>3. k # 1
      BY Zenon, <3>1, <3>2 DEF b
    <3>4. k - 1 \in 1..Len(idequeue') /\ (k - 1) + 1 = k
      BY <3>3, <1>8
    <3>5. idequeue'[k - 1] = buf'[q]
      BY Zenon, <3>2, <3>4, <1>4, <1>8
    <3> QED BY Zenon, <3>4, <3>5
  <2> QED
    BY Zenon, <2>1, <2>2, <2>3 DEF QueueInv
<1>20. DriveInv'
  <2>1. CASE idequeue' = <<>>
    BY Zenon, <2>1, <1>4 DEF DriveInv
  <2>2. CASE idequeue' # <<>>
    <3>1. PICK c \in Bufs : c = idequeue'[1] /\ c # b /\ drive' = idestart(c)
      BY Zenon, <2>2, <1>4, <1>8, <1>11
    <3>2. /\ drive'.sector = sector[c] /\ drive'.status = "busy"
          /\ Dirty(c) => drive'.cmd = "write" /\ drive'.data = data[c]
          /\ ~Dirty(c) => drive'.cmd = "read"
      BY Zenon, <3>1 DEF idestart
    <3>3. data'[c] = data[c] /\ (Dirty(c)' <=> Dirty(c)) /\ sector' = sector
      BY Zenon, <3>1, <1>4, <1>9
    <3> QED
      BY Zenon, <2>2, <3>1, <3>2, <3>3 DEF DriveInv
  <2> QED BY Zenon, <2>1, <2>2
<1>21. PinInv'
  <2>1. Pinned' \subseteq Pinned
    BY Zenon, <1>2, <1>4, <1>9, <1>10 DEF Pinned, InIO
  <2> QED BY Zenon, <2>1, PinShrinks DEF IInv
<1> QED
  BY Zenon, <1>12, <1>14, <1>15, <1>16, <1>17, <1>18, <1>19, <1>20, <1>21 DEF IInv

\* A step that changes nothing keeps the invariant.
LEMMA StepStutter ==
  ASSUME IInv, UNCHANGED vars
  PROVE  IInv'
<1>1. UNCHANGED <<sector, flags, data, lru, idequeue, drive, disk, pc, want, buf, panicked>>
  BY Zenon DEF vars, bufs, ide
<1>2. TypeOK' /\ LruInv' /\ PanicInv'
  BY Zenon, <1>1 DEF IInv, TypeOK, LruInv, PanicInv
<1>3. QueueInv' /\ DriveInv' /\ CacheInv'
  BY <1>1 DEF IInv, QueueInv, DriveInv, CacheInv, Busy, Valid, Dirty
<1>4. PcInv'
  BY Zenon, <1>1 DEF IInv, PcInv, Busy, Valid, Dirty
<1>5. OneHolder' /\ HoldInv' /\ BusyHeld' /\ PinInv'
  BY <1>1 DEF IInv, OneHolder, HoldInv, BusyHeld, PinInv, Pinned, InIO, Holding, Busy, Dirty
<1> QED
  BY Zenon, <1>2, <1>3, <1>4, <1>5 DEF IInv

\* Every step of the cache and of the driver keeps the invariant.
LEMMA StepInv ==
  ASSUME IInv, [Next]_vars
  PROVE  IInv'
BY Zenon, StepBread, StepBgetHit, StepBgetSleep, StepBgetRecycle, StepBwrite, StepLogWrite,
   StepBrelse, StepIderw, StepIderwWoken, StepDriveDone, StepIdeintr, StepStutter
   DEF Next, Bget

\* The invariant holds throughout.
LEMMA Inductive == Spec => []IInv
<1>1. IInv /\ [Next]_vars => IInv'
  BY Zenon, StepInv
<1> QED
  BY <1>1, InitInv, PTL DEF Spec

\* The machine stops only where bget finds no buffer.
StopInv == panicked => Clean = {}

LEMMA StopStep ==
  ASSUME IInv, StopInv, [Next]_vars
  PROVE  StopInv'
<1>1. CASE UNCHANGED vars
  BY Zenon, <1>1 DEF StopInv, Clean, vars, bufs
<1>2. ASSUME NEW p \in Refs, BgetRecycle(p), ~panicked PROVE StopInv'
  <2>1. CASE Clean = {}
    BY Zenon, <1>2, <2>1 DEF BgetRecycle, StopInv, Clean
  <2>2. CASE Clean # {}
    BY Zenon, <1>2, <2>2 DEF BgetRecycle, StopInv
  <2> QED BY Zenon, <2>1, <2>2
<1>3. ASSUME NEW p \in Refs, iderw(p) PROVE StopInv'
  BY Zenon, <1>3, IderwCalm DEF StopInv
<1>4. ASSUME ~panicked, UNCHANGED panicked PROVE StopInv'
  BY Zenon, <1>4 DEF StopInv
<1>5. ASSUME NEW p \in Refs,
             \/ \E s \in Sectors : bread(p, s)
             \/ BgetHit(p) \/ BgetSleep(p) \/ bwrite(p) \/ log_write(p) \/ brelse(p) \/ IderwWoken(p)
      PROVE  UNCHANGED panicked
  BY Zenon, <1>5 DEF bread, BgetHit, BgetSleep, bwrite, log_write, brelse, IderwWoken
<1>6. DriveDone \/ ideintr => UNCHANGED panicked
  BY Zenon DEF DriveDone, ideintr
<1> QED
  BY Zenon, <1>1, <1>2, <1>3, <1>4, <1>5, <1>6 DEF Next, Bget

LEMMA Stops == Spec => []StopInv
<1>1. Init => StopInv
  BY Zenon DEF Init, StopInv
<1>2. IInv /\ StopInv /\ [Next]_vars => StopInv'
  BY Zenon, StopStep
<1> QED
  BY <1>1, <1>2, Inductive, PTL DEF Spec

\* The invariants say what BufferInv says.
LEMMA IInvBufferInv == IInv /\ StopInv => BufferInv
<1> SUFFICES ASSUME IInv, StopInv PROVE BufferInv
  BY Zenon
<1> USE DEF Busy, Valid, Dirty
<1>1. \A a, b \in Bufs : sector[a] = sector[b] /\ sector[a] # NoSector => a = b
  BY Zenon DEF IInv, CacheInv
<1>2. \A p, q \in Refs, b \in Bufs : Holds(p, b) /\ Holds(q, b) => p = q
  BY Zenon DEF Holds, IInv, OneHolder, Holding
<1>3. \A b \in Bufs : "BUSY" \in flags[b] <=> \E p \in Refs : Holds(p, b)
  <2>1. \A b \in Bufs, p \in Refs : Holds(p, b) <=> Holding(p) /\ buf[p] = b
    BY Zenon DEF Holds, Holding
  <2> QED
    BY Zenon, <2>1 DEF IInv, HoldInv, BusyHeld
<1>4. \A i, j \in 1..NBUF : lru[i] = lru[j] => i = j
  BY Zenon DEF IInv, LruInv, Bufs
<1>5. (drive = NoRequest) <=> (idequeue = <<>>)
  BY DEF IInv, DriveInv, NoRequest
<1>6. drive # NoRequest => drive.sector = sector[Head(idequeue)]
  <2>1. idequeue # <<>> => Head(idequeue) = idequeue[1]
    BY DEF IInv, TypeOK
  <2> QED
    BY Zenon, <2>1, <1>5 DEF IInv, DriveInv
<1>7. /\ \A i, j \in 1..Len(idequeue) : idequeue[i] = idequeue[j] => i = j
      /\ \A p \in Refs : pc[p] = "iowait" => \E i \in 1..Len(idequeue) : idequeue[i] = buf[p]
  BY Zenon DEF IInv, QueueInv
<1>8. \A p \in Refs : pc[p] = "asleep" => "BUSY" \in flags[buf[p]]
  BY Zenon DEF IInv, PcInv
<1> QED
  BY Zenon, <1>1, <1>2, <1>3, <1>4, <1>5, <1>6, <1>7, <1>8
     DEF BufferInv, IInv, PanicInv, StopInv

\* bget, brelse, iderw and ideintr keep one buffer per sector, one holder per
\* busy buffer and one place in the queue per waiting process; nobody sleeps on
\* a free buffer, iderw does not panic, and bget panics only when NBUF is less
\* than the pinned buffers and one for each pointer in which a process, with one
\* or with several, may hold a buffer.
THEOREM BuffersSound == Spec => []BufferInv
BY Inductive, Stops, IInvBufferInv, PTL

------------------------------------------------------------------------------
(* Each step of Bcache is a step of the store, or one that its callers     *)
(* cannot see.                                                             *)

\* What Content and Holder of a sector come to, when IInv holds.
ContentFact ==
  \A s \in Sectors :
    /\ \A b \in Bufs : sector[b] = s /\ Valid(b) => Content(s) = data[b]
    /\ (\A b \in Bufs : ~(sector[b] = s /\ Valid(b))) => Content(s) = disk[s]

HolderFact ==
  \A s \in Sectors :
    /\ \A p \in Refs : Holding(p) /\ want[p] = s => Holder(s) = p
    /\ (\A p \in Refs : ~(Holding(p) /\ want[p] = s)) => Holder(s) = None

\* The abstract content and holder of a sector, read off its buffer.
LEMMA MapFacts == IInv => ContentFact /\ HolderFact
<1> SUFFICES ASSUME IInv, NEW s \in Sectors
             PROVE  /\ \A b \in Bufs : sector[b] = s /\ Valid(b) => Content(s) = data[b]
                    /\ (\A b \in Bufs : ~(sector[b] = s /\ Valid(b))) => Content(s) = disk[s]
                    /\ \A p \in Refs : Holding(p) /\ want[p] = s => Holder(s) = p
                    /\ (\A p \in Refs : ~(Holding(p) /\ want[p] = s)) => Holder(s) = None
  BY Zenon DEF ContentFact, HolderFact
<1>1. \A b : b \in Current(s) <=> b \in Bufs /\ sector[b] = s /\ Valid(b)
  BY Zenon DEF Current, Valid, Dirty, IInv, CacheInv
<1>2. \A a, b \in Current(s) : a = b
  BY <1>1, BcacheAssumption DEF IInv, CacheInv
<1>3. ASSUME NEW b \in Bufs, sector[b] = s, Valid(b) PROVE Content(s) = data[b]
  <2>1. b \in Current(s)
    BY Zenon, <1>1, <1>3
  <2>2. (CHOOSE a \in Current(s) : TRUE) = b
    BY Zenon, <2>1, <1>2
  <2> QED
    BY Zenon, <2>1, <2>2 DEF Content
<1>4. ASSUME \A b \in Bufs : ~(sector[b] = s /\ Valid(b)) PROVE Content(s) = disk[s]
  <2>1. Current(s) = {}
    BY Zenon, <1>1, <1>4
  <2> QED
    BY Zenon, <2>1 DEF Content
<1> DEFINE H == {p \in Refs : \E b \in Bufs : sector[b] = s /\ Holds(p, b)}
<1>5. \A p : p \in H <=> p \in Refs /\ Holding(p) /\ want[p] = s
  BY Zenon DEF Holds, Holding, IInv, HoldInv
<1>6. Holder(s) = IF H = {} THEN None ELSE CHOOSE p \in H : TRUE
  BY Zenon DEF Holder
<1> HIDE DEF H
<1>7. \A p, q \in H : p = q
  BY <1>5, BcacheAssumption DEF IInv, HoldInv, CacheInv, OneHolder
<1>8. ASSUME NEW p \in Refs, Holding(p), want[p] = s PROVE Holder(s) = p
  <2>1. p \in H
    BY Zenon, <1>5, <1>8
  <2>2. (CHOOSE q \in H : TRUE) = p
    BY Zenon, <2>1, <1>7
  <2> QED
    BY Zenon, <2>1, <2>2, <1>6
<1>9. ASSUME \A p \in Refs : ~(Holding(p) /\ want[p] = s) PROVE Holder(s) = None
  <2>1. H = {}
    BY Zenon, <1>5, <1>9
  <2> QED
    BY Zenon, <2>1, <1>6
<1> QED
  BY Zenon, <1>3, <1>4, <1>8, <1>9

\* The same after a step.
LEMMA MapFactsPrime == IInv' => ContentFact' /\ HolderFact'
BY MapFacts, PTL

\* What a step leaves as it is, for the callers of bio.c.
SameContent == \A s \in Sectors : Content(s)' = Content(s)
SameHolder == \A s \in Sectors : Holder(s)' = Holder(s)

\* A step that leaves data, disk and B_VALID alone changes no content.
LEMMA ContentKept ==
  ASSUME IInv, IInv', UNCHANGED <<sector, data, disk>>,
         \A b \in Bufs : Valid(b)' <=> Valid(b)
  PROVE  SameContent
<1>1. ContentFact /\ ContentFact'
  BY Zenon, MapFacts, MapFactsPrime
<1> SUFFICES ASSUME NEW s \in Sectors PROVE Content(s)' = Content(s)
  BY Zenon DEF SameContent
<1>2. CASE \E b \in Bufs : sector[b] = s /\ Valid(b)
  <2>1. PICK b \in Bufs : sector[b] = s /\ Valid(b)
    BY Zenon, <1>2
  <2>2. Content(s) = data[b] /\ Content(s)' = data'[b]
    BY Zenon, <1>1, <2>1 DEF ContentFact
  <2> QED BY Zenon, <2>2
<1>3. CASE ~(\E b \in Bufs : sector[b] = s /\ Valid(b))
  <2>1. Content(s) = disk[s]
    BY Zenon, <1>1, <1>3 DEF ContentFact
  <2>2. Content(s)' = disk'[s]
    BY Zenon, <1>1, <1>3 DEF ContentFact
  <2> QED BY Zenon, <2>1, <2>2
<1> QED BY Zenon, <1>2, <1>3

\* A step that gives and takes no buffer changes no holder.
LEMMA HolderKept ==
  ASSUME IInv, IInv',
         \A q \in Refs : (Holding(q)' <=> Holding(q)) /\ (Holding(q) => want'[q] = want[q])
  PROVE  SameHolder
<1>1. HolderFact /\ HolderFact'
  BY Zenon, MapFacts, MapFactsPrime
<1> SUFFICES ASSUME NEW s \in Sectors PROVE Holder(s)' = Holder(s)
  BY Zenon DEF SameHolder
<1>2. CASE \E q \in Refs : Holding(q) /\ want[q] = s
  <2>1. PICK q \in Refs : Holding(q) /\ want[q] = s
    BY Zenon, <1>2
  <2>2. Holder(s) = q /\ Holder(s)' = q
    BY Zenon, <1>1, <2>1 DEF HolderFact
  <2> QED BY Zenon, <2>2
<1>3. CASE ~(\E q \in Refs : Holding(q) /\ want[q] = s)
  <2>1. Holder(s) = None
    BY Zenon, <1>1, <1>3 DEF HolderFact
  <2>2. Holder(s)' = None
    BY Zenon, <1>1, <1>3 DEF HolderFact
  <2> QED BY Zenon, <2>1, <2>2
<1> QED BY Zenon, <1>2, <1>3

\* Such steps are not seen by the callers of bio.c.
LEMMA Stutters ==
  ASSUME SameContent, SameHolder
  PROVE  UNCHANGED Store!vars
BY Zenon DEF SameContent, SameHolder, Store!vars

\* A process that comes to hold a buffer takes its sector.
LEMMA TakeMaps ==
  ASSUME IInv, IInv', NEW p \in Refs, want[p] \in Sectors,
         \A q \in Refs : Holding(q) => want[q] # want[p],
         \A q \in Refs : (Holding(q)' <=> Holding(q) \/ q = p) /\ want'[q] = want[q],
         SameContent
  PROVE  Store!Next
<1>1. HolderFact /\ HolderFact'
  BY Zenon, MapFacts, MapFactsPrime
<1>2. Holder(want[p]) = None
  BY Zenon, <1>1 DEF HolderFact
<1>3. ASSUME NEW s \in Sectors PROVE Holder(s)' = IF s = want[p] THEN p ELSE Holder(s)
  <2>1. CASE s = want[p]
    BY Zenon, <2>1, <1>1 DEF HolderFact
  <2>2. CASE s # want[p]
    <3>1. CASE \E q \in Refs : Holding(q) /\ want[q] = s
      <4>1. PICK q \in Refs : Holding(q) /\ want[q] = s
        BY Zenon, <3>1
      <4> QED BY Zenon, <4>1, <2>2, <1>1 DEF HolderFact
    <3>2. CASE ~(\E q \in Refs : Holding(q) /\ want[q] = s)
      <4>1. Holder(s) = None
        BY Zenon, <3>2, <1>1 DEF HolderFact
      <4>2. Holder(s)' = None
        BY Zenon, <2>2, <3>2, <1>1 DEF HolderFact
      <4> QED BY Zenon, <4>1, <4>2, <2>2
    <3> QED BY Zenon, <3>1, <3>2
  <2> QED BY Zenon, <2>1, <2>2
<1>4. Store!Take(p, want[p])
  BY Zenon, <1>2, <1>3 DEF Store!Take, SameContent
<1> QED
  BY Zenon, <1>4 DEF Store!Next

\* bget takes the sector when it finds its buffer free, ...
LEMMA MapBgetHit ==
  ASSUME IInv, IInv', NEW p \in Refs, BgetHit(p)
  PROVE  Store!Next
<1> DEFINE b == lru[Min(Cached(want[p]))]
<1>1. b \in Bufs /\ sector[b] = want[p] /\ ~Busy(b) /\ pc[p] = "bget"
  BY Zenon, CachedBuf DEF IInv, BgetHit, Busy
<1>2. UNCHANGED <<sector, data, lru, disk, want>>
  BY Zenon DEF BgetHit, ide
<1>3. /\ flags' = [flags EXCEPT ![b] = @ \cup {"BUSY"}]
      /\ pc' = [pc EXCEPT ![p] = IF "VALID" \in flags'[b] THEN "held" ELSE "iderw"]
  BY Zenon DEF BgetHit, Got
<1> HIDE DEF b
<1>4. SameContent
  <2>1. \A c \in Bufs : Valid(c)' <=> Valid(c)
    BY <1>1, <1>3 DEF IInv, TypeOK, Valid
  <2> QED BY Zenon, <2>1, <1>2, ContentKept
<1>5. \A q \in Refs : Holding(q)' <=> Holding(q) \/ q = p
  BY <1>3 DEF Holding, IInv, TypeOK
<1>6. want[p] \in Sectors
  BY Zenon, <1>1 DEF IInv, PcInv
<1>7. \A q \in Refs : Holding(q) => want[q] # want[p]
  BY <1>1, <1>6, BcacheAssumption DEF IInv, HoldInv, CacheInv
<1> QED
  BY Zenon, <1>2, <1>4, <1>5, <1>6, <1>7, TakeMaps

\* ... and when it recycles a buffer: the content the buffer had is on disk.
LEMMA MapBgetRecycle ==
  ASSUME IInv, IInv', NEW p \in Refs, BgetRecycle(p)
  PROVE  [Store!Next]_(Store!vars)
<1>1. CASE Clean = {}
  <2>1. UNCHANGED <<sector, flags, data, disk, pc, want>>
    BY Zenon, <1>1 DEF BgetRecycle, ide
  <2>2. SameContent
    BY Zenon, <2>1, ContentKept DEF Valid
  <2>3. SameHolder
    BY Zenon, <2>1, HolderKept DEF Holding
  <2> QED BY Zenon, <2>2, <2>3, Stutters
<1>2. CASE Clean # {}
  <2> DEFINE b == lru[Max(Clean)]
  <2>1. b \in Bufs /\ ~Busy(b) /\ ~Dirty(b)
    BY Zenon, <1>2, CleanBuf DEF IInv, Busy, Dirty
  <2>2. /\ UNCHANGED <<data, disk, want>>
        /\ \A c \in Bufs : sector[c] # want[p]
        /\ want[p] \in Sectors /\ pc[p] = "bget"
    BY Zenon, <1>2, NotCached DEF BgetRecycle, ide, IInv, PcInv
  <2>3. /\ sector' = [sector EXCEPT ![b] = want[p]]
        /\ flags' = [flags EXCEPT ![b] = {"BUSY"}]
        /\ pc' = [pc EXCEPT ![p] = IF "VALID" \in flags'[b] THEN "held" ELSE "iderw"]
    BY Zenon, <1>2 DEF BgetRecycle, Got
  <2> HIDE DEF b
  <2>4. \A c \in Bufs : /\ Valid(c)' <=> Valid(c) /\ c # b
                        /\ sector'[c] = IF c = b THEN want[p] ELSE sector[c]
    BY Zenon, <2>1, <2>3 DEF IInv, TypeOK, Valid
  <2>5. ContentFact /\ ContentFact'
    BY Zenon, MapFacts, MapFactsPrime
  <2>6. SameContent
    <3> SUFFICES ASSUME NEW s \in Sectors PROVE Content(s)' = Content(s)
      BY Zenon DEF SameContent
    <3>1. CASE \E c \in Bufs : c # b /\ sector[c] = s /\ Valid(c)
      <4>1. PICK c \in Bufs : c # b /\ sector[c] = s /\ Valid(c)
        BY Zenon, <3>1
      <4>2. Content(s) = data[c]
        BY Zenon, <4>1, <2>5 DEF ContentFact
      <4>3. Content(s)' = data'[c]
        BY Zenon, <4>1, <2>4, <2>5 DEF ContentFact
      <4> QED BY Zenon, <4>2, <4>3, <2>2
    <3>2. CASE ~(\E c \in Bufs : c # b /\ sector[c] = s /\ Valid(c))
      <4>1. Content(s)' = disk'[s]
        BY <3>2, <2>2, <2>4, <2>5 DEF ContentFact
      <4>2. Content(s) = disk[s]
        <5>1. CASE sector[b] = s /\ Valid(b)
          BY Zenon, <5>1, <2>1, <2>5 DEF ContentFact, IInv, CacheInv
        <5>2. CASE ~(sector[b] = s /\ Valid(b))
          BY Zenon, <5>2, <3>2, <2>5 DEF ContentFact
        <5> QED BY Zenon, <5>1, <5>2
      <4> QED BY Zenon, <4>1, <4>2, <2>2
    <3> QED BY Zenon, <3>1, <3>2
  <2>7. \A q \in Refs : Holding(q)' <=> Holding(q) \/ q = p
    BY <2>3 DEF Holding, IInv, TypeOK
  <2>8. \A q \in Refs : Holding(q) => want[q] # want[p]
    BY Zenon, <2>2 DEF IInv, HoldInv
  <2> QED
    BY Zenon, <2>2, <2>6, <2>7, <2>8, TakeMaps
<1> QED BY Zenon, <1>1, <1>2

\* bwrite and log_write store a content in the sector.
LEMMA MapWrite ==
  ASSUME IInv, IInv', NEW p \in Refs, pc[p] = "held",
         NEW v \in Vals[sector[buf[p]]],
         data' = [data EXCEPT ![buf[p]] = v],
         flags' = [flags EXCEPT ![buf[p]] = @ \cup {"DIRTY"}],
         UNCHANGED <<sector, disk, want>>,
         NEW r \in {"iderw", "held"}, pc' = [pc EXCEPT ![p] = r]
  PROVE  Store!Next
<1> DEFINE b == buf[p]
<1>1. /\ b \in Bufs /\ Valid(b) /\ sector[b] = want[p] /\ want[p] \in Sectors
      /\ Holding(p)
  BY Zenon DEF IInv, HoldInv, PcInv, Holding
<1>2. \A c \in Bufs : /\ Valid(c)' <=> Valid(c)
                      /\ data'[c] = IF c = b THEN v ELSE data[c]
  <2>1. \A c \in Bufs : flags'[c] = IF c = b THEN flags[c] \cup {"DIRTY"} ELSE flags[c]
    BY Zenon, <1>1 DEF IInv, TypeOK
  <2>2. \A c \in Bufs : data'[c] = IF c = b THEN v ELSE data[c]
    BY Zenon, <1>1 DEF IInv, TypeOK
  <2>3. \A c \in Bufs : Valid(c)' <=> Valid(c)
    BY SMTT(30), <2>1 DEF Valid
  <2> QED BY Zenon, <2>2, <2>3
<1>3. \A q \in Refs : Holding(q)' <=> Holding(q)
  BY DEF IInv, TypeOK, Holding
<1> HIDE DEF b
<1>4. SameHolder
  BY Zenon, <1>3, HolderKept
<1>5. ContentFact /\ ContentFact' /\ HolderFact
  BY Zenon, MapFacts, MapFactsPrime
<1>6. ASSUME NEW s \in Sectors PROVE Content(s)' = IF s = want[p] THEN v ELSE Content(s)
  <2>1. CASE s = want[p]
    BY Zenon, <2>1, <1>1, <1>2, <1>5 DEF ContentFact
  <2>2. CASE s # want[p]
    <3>1. CASE \E c \in Bufs : sector[c] = s /\ Valid(c)
      <4>1. PICK c \in Bufs : sector[c] = s /\ Valid(c)
        BY Zenon, <3>1
      <4> QED BY <4>1, <2>2, <1>1, <1>2, <1>5 DEF ContentFact
    <3>2. CASE ~(\E c \in Bufs : sector[c] = s /\ Valid(c))
      <4>1. Content(s) = disk[s]
        BY Zenon, <3>2, <1>5 DEF ContentFact
      <4>2. Content(s)' = disk'[s]
        BY Zenon, <3>2, <1>2, <1>5 DEF ContentFact
      <4> QED BY Zenon, <4>1, <4>2, <2>2
    <3> QED BY Zenon, <3>1, <3>2
  <2> QED BY Zenon, <2>1, <2>2
<1>7. Holder(want[p]) # None
  BY Zenon, <1>1, <1>5, BcacheAssumption DEF HolderFact
<1>8. v \in Vals[want[p]]
  BY Zenon, <1>1 DEF b
<1>9. Store!Store(want[p])
  BY Zenon, <1>1, <1>4, <1>6, <1>7, <1>8 DEF Store!Store, SameHolder
<1> QED
  BY Zenon, <1>1, <1>9 DEF Store!Next

\* brelse drops the sector.
LEMMA MapBrelse ==
  ASSUME IInv, IInv', NEW p \in Refs, brelse(p)
  PROVE  Store!Next
<1> DEFINE b == buf[p]
<1>1. /\ UNCHANGED <<sector, data, disk>>
      /\ flags' = [flags EXCEPT ![b] = @ \ {"BUSY"}]
      /\ pc' = [Woken(b) EXCEPT ![p] = "idle"]
      /\ want' = [want EXCEPT ![p] = NoSector]
      /\ pc[p] = "held"
  BY Zenon DEF brelse, ide
<1>2. /\ b \in Bufs /\ want[p] \in Sectors
      /\ \A q \in Refs : q # p /\ Holding(q) => want[q] # want[p]
      /\ Holding(p)
  <2>1. Holding(p)
    BY Zenon, <1>1 DEF Holding
  <2>2. want[p] \in Sectors
    BY Zenon, <1>1 DEF IInv, PcInv
  <2>3. b \in Bufs /\ sector[b] = want[p]
    BY Zenon, <2>1 DEF IInv, HoldInv
  <2>4. ASSUME NEW q \in Refs, q # p, Holding(q) PROVE want[q] # want[p]
    <3>1. buf[q] \in Bufs /\ sector[buf[q]] = want[q]
      BY Zenon, <2>4 DEF IInv, HoldInv
    <3>2. buf[q] # b
      BY Zenon, <2>1, <2>4 DEF IInv, OneHolder
    <3>3. sector[b] # NoSector
      BY Zenon, <2>2, <2>3, BcacheAssumption
    <3>4. sector[buf[q]] # sector[b]
      BY Zenon, <2>3, <3>1, <3>2, <3>3 DEF IInv, CacheInv
    <3> QED BY Zenon, <2>3, <3>1, <3>4
  <2> QED BY Zenon, <2>1, <2>2, <2>3, <2>4
<1> HIDE DEF b
<1>3. SameContent
  <2>1. \A c \in Bufs : Valid(c)' <=> Valid(c)
    BY SMTT(30), <1>1, <1>2 DEF IInv, TypeOK, Valid
  <2> QED BY Zenon, <2>1, <1>1, ContentKept
<1>4. \A q \in Refs : /\ Holding(q)' <=> Holding(q) /\ q # p
                      /\ q # p => want'[q] = want[q]
  BY Zenon, <1>1 DEF IInv, TypeOK, Holding, Woken
<1>5. HolderFact /\ HolderFact'
  BY Zenon, MapFacts, MapFactsPrime
<1>6. ASSUME NEW s \in Sectors PROVE Holder(s)' = IF s = want[p] THEN None ELSE Holder(s)
  <2>1. CASE s = want[p]
    BY Zenon, <2>1, <1>2, <1>4, <1>5 DEF HolderFact
  <2>2. CASE s # want[p]
    <3>1. CASE \E q \in Refs : Holding(q) /\ want[q] = s
      <4>1. PICK q \in Refs : Holding(q) /\ want[q] = s
        BY Zenon, <3>1
      <4> QED BY Zenon, <4>1, <2>2, <1>4, <1>5 DEF HolderFact
    <3>2. CASE ~(\E q \in Refs : Holding(q) /\ want[q] = s)
      <4>1. Holder(s) = None
        BY Zenon, <3>2, <1>5 DEF HolderFact
      <4>2. Holder(s)' = None
        BY Zenon, <2>2, <3>2, <1>4, <1>5 DEF HolderFact
      <4> QED BY Zenon, <4>1, <4>2, <2>2
    <3> QED BY Zenon, <3>1, <3>2
  <2> QED BY Zenon, <2>1, <2>2
<1>7. Store!Drop(want[p])
  BY Zenon, <1>3, <1>6 DEF Store!Drop, SameContent
<1> QED
  BY Zenon, <1>2, <1>7 DEF Store!Next

\* What the drive writes is the content already.
LEMMA MapDriveDone ==
  ASSUME IInv, IInv', DriveDone
  PROVE  SameContent /\ SameHolder
<1> DEFINE b == idequeue[1]
<1>1. /\ UNCHANGED <<sector, flags, data, pc, want>>
      /\ drive.status = "busy"
  BY Zenon DEF DriveDone, bufs
<1>2. idequeue # <<>> /\ drive.sector = sector[b]
  BY Zenon, <1>1, BusyDrive
<1>3. b \in Bufs /\ sector[b] \in Sectors
  BY Zenon, <1>1, BusyDrive
<1>4. disk' = IF Dirty(b) THEN [disk EXCEPT ![sector[b]] = data[b]] ELSE disk
  BY Zenon, <1>1, <1>2 DEF DriveDone, IInv, DriveInv
<1>5. Dirty(b) => Valid(b)
  BY Zenon, <1>3 DEF IInv, CacheInv
<1> HIDE DEF b
<1>6. \A s \in Sectors : disk'[s] = IF Dirty(b) /\ s = sector[b] THEN data[b] ELSE disk[s]
  BY Zenon, <1>3, <1>4 DEF IInv, TypeOK
<1>7. SameHolder
  BY Zenon, <1>1, HolderKept DEF Holding
<1>8. ContentFact /\ ContentFact'
  BY Zenon, MapFacts, MapFactsPrime
<1>9. ASSUME NEW s \in Sectors PROVE Content(s)' = Content(s)
  <2>1. CASE \E c \in Bufs : sector[c] = s /\ Valid(c)
    <3>1. PICK c \in Bufs : sector[c] = s /\ Valid(c)
      BY Zenon, <2>1
    <3> QED BY <3>1, <1>1, <1>8 DEF ContentFact, Valid
  <2>2. CASE ~(\E c \in Bufs : sector[c] = s /\ Valid(c))
    <3>1. Content(s) = disk[s]
      BY Zenon, <2>2, <1>8 DEF ContentFact
    <3>2. Content(s)' = disk'[s]
      BY Zenon, <2>2, <1>1, <1>8 DEF ContentFact, Valid
    <3> QED BY Zenon, <3>1, <3>2, <2>2, <1>3, <1>5, <1>6
  <2> QED BY Zenon, <2>1, <2>2
<1> QED
  BY Zenon, <1>7, <1>9 DEF SameContent

\* What ideintr reads is the content, as no buffer had it.
LEMMA MapIdeintr ==
  ASSUME IInv, IInv', ideintr
  PROVE  SameContent /\ SameHolder
<1> DEFINE b == idequeue[1]
<1>1. /\ idequeue # <<>> /\ b = Head(idequeue) /\ b \in Bufs
      /\ 1 \in 1..Len(idequeue)
  BY DEF ideintr, IInv, TypeOK
<1>2. PICK p \in Refs : pc[p] = "iowait" /\ buf[p] = b
  BY Zenon, <1>1 DEF IInv, QueueInv
<1>3. sector[b] \in Sectors /\ (~Valid(b) \/ Dirty(b))
  BY Zenon, <1>2 DEF IInv, HoldInv, Holding, PcInv
<1>4. UNCHANGED <<sector, disk, want>> /\ drive.status = "done"
  BY Zenon DEF ideintr
<1>5. data' = IF Dirty(b) THEN data ELSE [data EXCEPT ![b] = disk[sector[b]]]
  BY Zenon, <1>1 DEF ideintr, IInv, DriveInv, Dirty
<1>6. /\ flags' = [flags EXCEPT ![b] = (@ \cup {"VALID"}) \ {"DIRTY"}]
      /\ pc' = Woken(b)
  BY Zenon, <1>1 DEF ideintr
<1> HIDE DEF b
<1>7. \A c \in Bufs : /\ Valid(c)' <=> Valid(c) \/ c = b
                      /\ data'[c] = IF c = b /\ ~Dirty(b) THEN disk[sector[b]] ELSE data[c]
  BY <1>1, <1>5, <1>6 DEF IInv, TypeOK, Valid
<1>8. SameHolder
  <2>1. \A q \in Refs : Holding(q)' <=> Holding(q)
    BY Zenon, <1>6 DEF Woken, Holding
  <2> QED BY Zenon, <2>1, <1>4, HolderKept
<1>9. ContentFact /\ ContentFact'
  BY Zenon, MapFacts, MapFactsPrime
<1>10. Dirty(b) => Valid(b)
  BY Zenon, <1>1 DEF IInv, CacheInv
<1>11. ASSUME NEW s \in Sectors PROVE Content(s)' = Content(s)
  <2>1. CASE s = sector[b]
    <3>1. Content(s)' = data'[b]
      BY Zenon, <2>1, <1>1, <1>4, <1>7, <1>9 DEF ContentFact
    <3>2. CASE Dirty(b)
      BY Zenon, <3>1, <3>2, <2>1, <1>1, <1>7, <1>9, <1>10 DEF ContentFact
    <3>3. CASE ~Dirty(b)
      <4>1. \A c \in Bufs : ~(sector[c] = s /\ Valid(c))
        BY Zenon, <3>3, <2>1, <1>1, <1>3, BcacheAssumption DEF IInv, CacheInv
      <4>2. Content(s) = disk[s]
        BY Zenon, <4>1, <1>9 DEF ContentFact
      <4> QED BY Zenon, <4>2, <3>1, <3>3, <2>1, <1>1, <1>7
    <3> QED BY Zenon, <3>2, <3>3
  <2>2. CASE s # sector[b]
    <3>1. CASE \E c \in Bufs : sector[c] = s /\ Valid(c)
      <4>1. PICK c \in Bufs : sector[c] = s /\ Valid(c)
        BY Zenon, <3>1
      <4> QED BY <4>1, <2>2, <1>4, <1>7, <1>9 DEF ContentFact
    <3>2. CASE ~(\E c \in Bufs : sector[c] = s /\ Valid(c))
      <4>1. Content(s) = disk[s]
        BY Zenon, <3>2, <1>9 DEF ContentFact
      <4>2. Content(s)' = disk'[s]
        BY Zenon, <3>2, <2>2, <1>4, <1>7, <1>9 DEF ContentFact
      <4> QED BY Zenon, <4>1, <4>2, <1>4
    <3> QED BY Zenon, <3>1, <3>2
  <2> QED BY Zenon, <2>1, <2>2
<1> QED
  BY Zenon, <1>8, <1>11 DEF SameContent

\* Entering bget or iderw, sleeping and waking are not seen.
LEMMA MapQuiet ==
  ASSUME IInv, IInv', NEW p \in Refs,
         \/ \E s \in Sectors : bread(p, s)
         \/ BgetSleep(p) \/ iderw(p) \/ IderwWoken(p)
  PROVE  SameContent /\ SameHolder
<1>1. UNCHANGED <<sector, flags, data, disk>>
  BY Zenon DEF bread, BgetSleep, iderw, IderwWoken, bufs, ide
<1>2. SameContent
  BY Zenon, <1>1, ContentKept DEF Valid
<1>3. \A q \in Refs : (Holding(q)' <=> Holding(q)) /\ (Holding(q) => want'[q] = want[q])
  <2>1. CASE \E s \in Sectors : bread(p, s)
    BY <2>1 DEF bread, Holding, IInv, TypeOK
  <2>2. CASE BgetSleep(p)
    BY Zenon, <2>2 DEF BgetSleep, Holding, IInv, TypeOK
  <2>3. CASE iderw(p)
    BY Zenon, <2>3 DEF iderw, Holding, IInv, TypeOK
  <2>4. CASE IderwWoken(p)
    BY Zenon, <2>4 DEF IderwWoken, Holding, IInv, TypeOK
  <2> QED BY Zenon, <2>1, <2>2, <2>3, <2>4
<1> QED
  BY Zenon, <1>2, <1>3, HolderKept

\* The cache begins with the contents of the disk, and nobody holding.
LEMMA MapInit == Init => Store!Init
<1> SUFFICES ASSUME Init PROVE Store!Init
  BY Zenon
<1>1. ContentFact /\ HolderFact
  BY Zenon, InitInv, MapFacts
<1>2. \A s \in Sectors : Content(s) = disk[s]
  BY Zenon, <1>1 DEF ContentFact, Init, Valid
<1>3. \A s \in Sectors : Holder(s) = None
  BY Zenon, <1>1 DEF HolderFact, Init, Holding
<1> QED
  BY Zenon, <1>2, <1>3 DEF Init, Store!Init

\* Every step is a step of the store or is not seen.
LEMMA MapStep ==
  ASSUME IInv, IInv', [Next]_vars
  PROVE  [Store!Next]_(Store!vars)
<1>1. CASE UNCHANGED vars
  <2>1. UNCHANGED <<sector, flags, data, disk, pc, want>>
    BY Zenon, <1>1 DEF vars, bufs, ide
  <2>2. SameContent /\ SameHolder
    BY Zenon, <2>1, ContentKept, HolderKept DEF Valid, Holding
  <2> QED BY Zenon, <2>2, Stutters
<1>2. ASSUME NEW p \in Refs, BgetHit(p) \/ brelse(p)
      PROVE  Store!Next
  BY Zenon, <1>2, MapBgetHit, MapBrelse
<1>3. ASSUME NEW p \in Refs, bwrite(p) PROVE Store!Next
  <2>1. PICK v \in Vals[sector[buf[p]]] : data' = [data EXCEPT ![buf[p]] = v]
    BY Zenon, <1>3 DEF bwrite
  <2> QED BY Zenon, <1>3, <2>1, MapWrite DEF bwrite, ide
<1>4. ASSUME NEW p \in Refs, log_write(p) PROVE Store!Next
  <2>1. PICK v \in Vals[sector[buf[p]]] : data' = [data EXCEPT ![buf[p]] = v]
    BY Zenon, <1>4 DEF log_write
  <2>2. pc' = [pc EXCEPT ![p] = "held"]
    BY Zenon, <1>4 DEF log_write, IInv, TypeOK
  <2> QED BY Zenon, <1>4, <2>1, <2>2, MapWrite DEF log_write, ide
<1>5. ASSUME \/ DriveDone \/ ideintr
             \/ \E p \in Refs : \/ \E s \in Sectors : bread(p, s)
                                \/ BgetSleep(p) \/ iderw(p) \/ IderwWoken(p)
      PROVE  UNCHANGED Store!vars
  BY Zenon, <1>5, MapDriveDone, MapIdeintr, MapQuiet, Stutters
<1> QED
  BY Zenon, <1>1, <1>2, <1>3, <1>4, <1>5, MapBgetRecycle DEF Next, Bget

\* Whatever is recycled, pinned by the log or queued for the drive, bread
\* returns the sector's last content to one holder at a time: the cache on the
\* drive implements SectorStore.
THEOREM CacheImplementsStore == Spec => StoreSpec
<1>1. IInv /\ IInv' /\ [Next]_vars => [Store!Next]_(Store!vars)
  BY Zenon, MapStep
<1> QED
  BY <1>1, MapInit, Inductive, PTL DEF Spec, StoreSpec, Store!Spec
==============================================================================
