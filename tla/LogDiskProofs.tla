---------------------------- MODULE LogDiskProofs ----------------------------
(***************************************************************************)
(* What is on the disk: between operations every block is home, and the    *)
(* log implements AtomicDisk.  Both hold for any processes, blocks and     *)
(* values; the second says nothing of a step while a transaction has more  *)
(* blocks than the log has sectors, which LogSpace excludes for operations *)
(* that write fewer than MAXOPBLOCKS blocks.                               *)
(***************************************************************************)
EXTENDS LogProofs

USE LogAssumption

------------------------------------------------------------------------------
(* The ranges that the invariant mentions, element by element. *)

\* The blocks of a header are its entries.
LEMMA InSeq ==
  ASSUME NEW s \in Seq(Blocks), NEW b
  PROVE  b \in Range(s) <=> \E i \in 1..Len(s) : s[i] = b
BY DEF Range

\* The blocks of the buffers in use are those of the processes.
LEMMA InBuf ==
  ASSUME TypeOK
  PROVE  \A b : b \in Range(buf) <=> \E q \in Procs : buf[q] = b
BY Zenon DEF Range, TypeOK

\* A block appended to the header that was not in it keeps the header's
\* entries different.
LEMMA DistinctAppend ==
  ASSUME NEW s \in Seq(Blocks), NEW b \in Blocks, b \notin Range(s), Distinct(s)
  PROVE  Distinct(Append(s, b))
<1>1. /\ DOMAIN s = 1..Len(s) /\ Len(s) \in Nat
      /\ DOMAIN Append(s, b) = 1..(Len(s) + 1)
      /\ \A i \in 1..Len(s) : Append(s, b)[i] = s[i]
      /\ Append(s, b)[Len(s) + 1] = b
  OBVIOUS
<1>2. \A i \in 1..Len(s) : s[i] # b  BY Zenon, InSeq
<1>. QED  BY <1>1, <1>2 DEF Distinct

\* The empty header has no block twice.
LEMMA DistinctEmpty == Distinct(<<>>)
BY DEF Distinct

------------------------------------------------------------------------------
(* The invariant of the disk is inductive. *)

\* While an operation runs, nobody commits or recovers.
LEMMA OpPhase ==
  ASSUME BaseInv, NEW p \in Procs, pc[p] \in {"op", "log_write"}
  PROVE  /\ up /\ ~Installing
         /\ \A q \in Procs : pc[q] \notin {"write_log", "install_trans", "done", "read_head"}
<1>1. p \in InOp /\ Committer = {}  BY Zenon DEF BaseInv, PhaseInv, InOp
<1>2. up  BY Zenon DEF BaseInv, PhaseInv
<1>3. \A q \in Procs : pc[q] \notin {"write_log", "install_trans", "done"}
  BY Zenon, <1>1 DEF Committer
<1>. QED  BY Zenon, <1>2, <1>3 DEF BaseInv, PhaseInv, Installing

\* While a process commits or recovers, the others do not, and no buffer is
\* locked.
LEMMA CommitPhase ==
  ASSUME BaseInv, NEW p \in Procs, pc[p] \in {"write_log", "install_trans", "done", "read_head"}
  PROVE  /\ \A q \in Procs :
              pc[q] \in {"write_log", "install_trans", "done", "read_head"} => q = p
         /\ \A b \in Blocks : b \notin Range(buf)
         /\ pc[p] \in {"write_log", "done"} => up
         /\ pc[p] = "read_head" => ~up
<1>1. pc[p] = "read_head" => ~up  BY Zenon DEF BaseInv, PhaseInv
<1>2. pc[p] \in {"write_log", "done"} => up  BY Zenon DEF BaseInv, PhaseInv
<1>3. ASSUME NEW q \in Procs, pc[q] \in {"write_log", "install_trans", "done", "read_head"}
      PROVE  q = p
  <2>1. CASE pc[p] = "read_head" \/ pc[q] = "read_head"
    BY <1>3, <2>1 DEF BaseInv, PhaseInv
  <2>2. CASE pc[p] # "read_head" /\ pc[q] # "read_head"
    BY <1>3, <2>2 DEF BaseInv, PhaseInv, Committer
  <2>. QED  BY Zenon, <2>1, <2>2
<1>4. InOp = {}
  <2>1. CASE pc[p] = "read_head"  BY Zenon, <1>1, <2>1 DEF BaseInv, PhaseInv, InOp
  <2>2. CASE pc[p] # "read_head"  BY Zenon, <2>2 DEF BaseInv, PhaseInv, Committer
  <2>. QED  BY Zenon, <2>1, <2>2
<1>5. \A q \in Procs : buf[q] = NoBlock  BY Zenon, <1>4 DEF BaseInv, CountInv, InOp
<1>6. \A b \in Blocks : b \notin Range(buf)  BY Zenon, <1>5, InBuf DEF BaseInv
<1>. QED  BY Zenon, <1>1, <1>2, <1>3, <1>6

\* The invariant of the disk holds before the first boot.
LEMMA DiskInit == ASSUME Init PROVE DiskInv
<1>. USE DEF Init
<1>1. ~Installing  BY Zenon DEF Installing
<1>2. \A b \in Blocks : b \notin Range(buf)  BY Zenon DEF Range
<1>3. HeadInv  BY Zenon, <1>1, DistinctEmpty DEF HeadInv
<1>4. PinInv  BY Zenon, <1>1 DEF PinInv
<1>5. CacheInv  BY Zenon, <1>2 DEF CacheInv
<1>6. CopyInv  BY Zenon DEF CopyInv
<1>. QED  BY Zenon, <1>3, <1>4, <1>5, <1>6 DEF DiskInv

\* Steps that change neither the disk nor the buffers, and let no process
\* begin a commit.
LEMMA DiskFrame ==
  ASSUME DiskInv, UNCHANGED <<home, slot, head, cache, dirty, lh, up, buf, tail>>,
         \A q \in Procs : /\ pc'[q] = "write_log" <=> pc[q] = "write_log"
                          /\ pc'[q] = "install_trans" <=> pc[q] = "install_trans"
                          /\ pc'[q] = "read_head" <=> pc[q] = "read_head"
  PROVE  DiskInv'
<1>1. Installing' <=> Installing  BY Zenon DEF Installing
<1>2. HeadInv'  BY Zenon, <1>1 DEF DiskInv, HeadInv, Distinct
<1>3. PinInv'  BY Zenon, <1>1 DEF DiskInv, PinInv
<1>4. CacheInv'  BY Zenon DEF DiskInv, CacheInv
<1>5. CopyInv'  BY DEF DiskInv, CopyInv
<1>. QED  BY Zenon, <1>2, <1>3, <1>4, <1>5 DEF DiskInv

\* log_write takes the buffer of a block, from the disk or from the cache.
LEMMA DiskLogWriteCheck ==
  ASSUME BaseInv, BaseInv', DiskInv, NEW p \in Procs, LogWriteCheck(p) PROVE DiskInv'
<1>0. /\ pc[p] = "op" /\ pc' = [pc EXCEPT ![p] = "log_write"]
      /\ UNCHANGED <<home, slot, head, dirty, lh, up, tail>>
  BY Zenon DEF LogWriteCheck, disk
<1>1. PICK b \in Blocks, v \in Vals :
        cache' = [cache EXCEPT ![b] = v] /\ buf' = [buf EXCEPT ![p] = b]
  BY ZenonT(40) DEF LogWriteCheck
<1>2. /\ up' /\ ~Installing'
      /\ \A q \in Procs : pc'[q] \notin {"write_log", "install_trans", "done", "read_head"}
  <2>1. pc'[p] \in {"op", "log_write"}  BY Zenon, <1>0 DEF BaseInv, TypeOK
  <2>. QED  BY Zenon, <1>0, <2>1, OpPhase DEF BaseInv, TypeOK, Installing
<1>3. up /\ ~Installing  BY Zenon, <1>0, OpPhase
<1>4. HeadInv'  BY Zenon, <1>0, <1>2, <1>3 DEF DiskInv, HeadInv, Distinct
<1>5. PinInv'  BY Zenon, <1>0, <1>2, <1>3 DEF DiskInv, PinInv
<1>6. CacheInv'
  <2>1. \A c \in Blocks : cache'[c] = IF c = b THEN v ELSE cache[c]
    BY Zenon, <1>1 DEF BaseInv, TypeOK
  <2>2. buf[p] = NoBlock  BY Zenon, <1>0 DEF BaseInv, CountInv
  <2>3. \A q \in Procs : buf'[q] = IF q = p THEN b ELSE buf[q]
    BY Zenon, <1>1 DEF BaseInv, TypeOK
  <2>4. \A c \in Blocks : c \in Range(buf)' <=> c = b \/ c \in Range(buf)
    <3>1. \A c : c \in Range(buf)' <=> \E q \in Procs : buf'[q] = c
      BY Zenon, <1>1 DEF Range, BaseInv, TypeOK
    <3>. QED  BY Zenon, <2>2, <2>3, <3>1, InBuf DEF BaseInv
  <2>5. v # NotCached  BY Zenon
  <2>. QED  BY Zenon, <1>0, <2>1, <2>4, <2>5 DEF DiskInv, CacheInv
<1>7. CopyInv'  BY Zenon, <1>2 DEF CopyInv
<1>. QED  BY Zenon, <1>4, <1>5, <1>6, <1>7 DEF DiskInv

\* log_write pins the buffer and adds its block to the header in memory.
LEMMA DiskLogWrite ==
  ASSUME BaseInv, BaseInv', DiskInv, NEW p \in Procs, LogWrite(p) PROVE DiskInv'
<1>0. /\ pc[p] = "log_write" /\ pc' = [pc EXCEPT ![p] = "op"]
      /\ lh' = IF buf[p] \in Range(lh) THEN lh ELSE Append(lh, buf[p])
      /\ buf' = [buf EXCEPT ![p] = NoBlock]
      /\ dirty' = dirty \cup {buf[p]}
      /\ UNCHANGED <<home, slot, head, cache, up, tail>>
  BY Zenon DEF LogWrite, disk
<1>1. buf[p] \in Blocks /\ lh \in Seq(Blocks)  BY Zenon, <1>0 DEF BaseInv, TypeOK, CountInv
<1>2. up /\ ~Installing /\ up' /\ ~Installing'
  <2>1. pc'[p] \in {"op", "log_write"}  BY Zenon, <1>0 DEF BaseInv, TypeOK
  <2>. QED  BY Zenon, <1>0, <2>1, OpPhase DEF BaseInv, TypeOK, Installing
<1>3. \A q \in Procs : pc'[q] \notin {"write_log", "install_trans", "done", "read_head"}
  BY Zenon, <1>0, OpPhase DEF BaseInv, TypeOK
<1>4. Distinct(lh') /\ Range(lh') = Range(lh) \cup {buf[p]}
  <2>1. Distinct(lh)  BY Zenon DEF DiskInv, HeadInv
  <2>2. CASE buf[p] \in Range(lh)  BY Zenon, <1>0, <2>1, <2>2
  <2>3. CASE buf[p] \notin Range(lh)
    <3>1. lh' = Append(lh, buf[p])  BY Zenon, <1>0, <2>3
    <3>. QED  BY <1>1, <2>1, <2>3, <3>1, DistinctAppend, RangeAppend
  <2>. QED  BY Zenon, <2>2, <2>3
<1>5. HeadInv'
  <2>1. Distinct(head')  BY Zenon, <1>0 DEF DiskInv, HeadInv
  <2>2. head' = <<>>  BY Zenon, <1>0, <1>2 DEF DiskInv, HeadInv
  <2>3. Distinct(lh)'  BY Zenon, <1>4 DEF Distinct
  <2>4. Distinct(head)'  BY Zenon, <2>1 DEF Distinct
  <2>. QED  BY Zenon, <1>2, <1>3, <2>2, <2>3, <2>4 DEF HeadInv
<1>6. PinInv'
  <2>1. dirty' = Range(lh)'  BY Zenon, <1>0, <1>2, <1>4 DEF DiskInv, PinInv, Range
  <2>. QED  BY Zenon, <1>2, <1>3, <2>1 DEF PinInv
<1>7. CacheInv'
  <2>1. \A q \in Procs : buf'[q] = IF q = p THEN NoBlock ELSE buf[q]
    BY Zenon, <1>0 DEF BaseInv, TypeOK
  <2>2. \A c \in Blocks : c \in Range(buf)' \cup {buf[p]} <=> c \in Range(buf)
    <3>1. \A c : c \in Range(buf)' <=> \E q \in Procs : buf'[q] = c
      BY Zenon, <1>0 DEF Range, BaseInv, TypeOK
    <3>. QED  BY <2>1, <3>1, InBuf DEF BaseInv
  <2>3. \A c \in Blocks : c \in dirty' \cup Range(buf)' <=> c \in dirty \cup Range(buf)
    BY Zenon, <1>0, <2>2
  <2>. QED  BY Zenon, <1>0, <2>3 DEF DiskInv, CacheInv
<1>8. CopyInv'  BY Zenon, <1>3 DEF CopyInv
<1>. QED  BY Zenon, <1>5, <1>6, <1>7, <1>8 DEF DiskInv

\* The last end_op begins a commit; the others do not touch the disk.
LEMMA DiskEndOp ==
  ASSUME BaseInv, BaseInv', DiskInv, NEW p \in Procs, EndOp(p) PROVE DiskInv'
<1>0. /\ pc[p] = "op" /\ tail' = [tail EXCEPT ![p] = 0]
      /\ UNCHANGED <<home, slot, head, cache, dirty, lh, up, buf>>
      /\ pc' = IF outstanding' # 0 THEN [Woken EXCEPT ![p] = "user"]
               ELSE [pc EXCEPT ![p] = IF lh = <<>> THEN "done" ELSE "write_log"]
  BY Zenon DEF EndOp, disk
<1>1. up /\ ~Installing  BY Zenon, <1>0, OpPhase
<1>2. /\ tail'[p] = 0
      /\ \A q \in Procs : pc'[q] \notin {"install_trans", "read_head"}
      /\ \A q \in Procs \ {p} : pc'[q] # "write_log"
  <2>1. \A q \in Procs : pc[q] \notin {"write_log", "install_trans", "done", "read_head"}
    BY Zenon, <1>0, OpPhase
  <2>2. DOMAIN Woken = Procs /\ \A q \in Procs : Woken[q] \in {pc[q], "begin_op"}
    BY Zenon DEF Woken
  <2>3. tail'[p] = 0  BY Zenon, <1>0 DEF BaseInv, TypeOK
  <2>. QED  BY <1>0, <2>1, <2>2, <2>3 DEF BaseInv, TypeOK
<1>3. ~Installing'  BY Zenon, <1>2 DEF Installing
<1>4. HeadInv'
  <2>1. Len(lh') \in Nat  BY DEF BaseInv, TypeOK
  <2>. QED  BY <1>0, <1>1, <1>2, <1>3, <2>1 DEF DiskInv, HeadInv, Distinct
<1>5. PinInv'  BY Zenon, <1>0, <1>1, <1>2, <1>3 DEF DiskInv, PinInv
<1>6. CacheInv'  BY Zenon, <1>0 DEF DiskInv, CacheInv
<1>7. CopyInv'  BY <1>2 DEF CopyInv
<1>. QED  BY Zenon, <1>4, <1>5, <1>6, <1>7 DEF DiskInv

\* write_log copies one buffer to its sector of the log.
LEMMA DiskWriteLog ==
  ASSUME BaseInv, DiskInv, NEW p \in Procs, WriteLog(p) PROVE DiskInv'
<1>0. /\ pc[p] = "write_log" /\ tail[p] < Len(lh) /\ tail' = [tail EXCEPT ![p] = @ + 1]
      /\ UNCHANGED <<home, head, cache, dirty, lh, up, pc, buf>>
  BY Zenon DEF WriteLog, mem
<1>1. slot' = [i \in 1..NLOG - 1 |-> IF i = tail[p] + 1 THEN Content(lh[i]) ELSE slot[i]]
  BY Zenon DEF WriteLog
<1>2. /\ tail[p] \in Nat /\ Len(lh) \in Nat /\ tail[p] + 1 \in 1..Len(lh)
      /\ lh \in Seq(Blocks) /\ lh[tail[p] + 1] \in Blocks
  BY <1>0 DEF BaseInv, TypeOK
<1>3. up /\ ~Installing /\ \A q \in Procs : pc[q] = "write_log" => q = p
  BY Zenon, <1>0, CommitPhase DEF Installing
<1>4. tail'[p] = tail[p] + 1 /\ \A q \in Procs \ {p} : tail'[q] = tail[q]
  BY Zenon, <1>0 DEF BaseInv, TypeOK
<1>5. Content(lh[tail[p] + 1]) = cache[lh[tail[p] + 1]]
  <2>1. lh[tail[p] + 1] \in dirty
    BY Zenon, <1>2, <1>3, InSeq DEF DiskInv, PinInv
  <2>2. cache[lh[tail[p] + 1]] # NotCached  BY Zenon, <1>2, <2>1 DEF DiskInv, CacheInv
  <2>. QED  BY Zenon, <2>2 DEF Content
<1>6. ~Installing'  BY Zenon, <1>0, <1>3 DEF Installing
<1>7. HeadInv'  BY <1>0, <1>2, <1>3, <1>4, <1>6 DEF DiskInv, HeadInv, Distinct
<1>8. PinInv'  BY Zenon, <1>0, <1>3, <1>6 DEF DiskInv, PinInv, Installing
<1>9. CacheInv'  BY Zenon, <1>0 DEF DiskInv, CacheInv
<1>10. CopyInv'
  <2>1. \A i \in 1..tail[p] : i < NLOG => slot[i] = cache[lh[i]]
    BY Zenon, <1>0 DEF DiskInv, CopyInv
  <2>3. \A i \in 1..(tail[p] + 1) : i < NLOG => slot'[i] = cache[lh[i]]
    <3>1. \A i \in 1..(tail[p] + 1) : /\ i < NLOG => i \in 1..NLOG - 1
                                      /\ i = tail[p] + 1 \/ i \in 1..tail[p]
      BY <1>2
    <3>. QED  BY Zenon, <1>1, <1>5, <2>1, <3>1
  <2>4. \A q \in Procs : pc'[q] # "install_trans"  BY Zenon, <1>0, <1>3 DEF Installing
  <2>. QED  BY Zenon, <1>0, <1>3, <1>4, <2>3, <2>4 DEF CopyInv
<1>. QED  BY Zenon, <1>7, <1>8, <1>9, <1>10 DEF DiskInv

\* write_head puts the header on disk: the commit.
LEMMA DiskWriteHead ==
  ASSUME BaseInv, DiskInv, NEW p \in Procs, WriteHead(p) PROVE DiskInv'
<1>0. /\ pc[p] = "write_log" /\ tail[p] = Len(lh) /\ head' = lh
      /\ pc' = [pc EXCEPT ![p] = "install_trans"]
      /\ tail' = [tail EXCEPT ![p] = 0]
      /\ UNCHANGED <<home, slot, cache, dirty, lh, up, buf>>
  BY Zenon DEF WriteHead, mem
<1>1. /\ up /\ ~Installing
      /\ \A q \in Procs \ {p} : pc[q] \notin {"write_log", "install_trans", "done", "read_head"}
  BY Zenon, <1>0, CommitPhase DEF Installing
<1>2. /\ pc'[p] = "install_trans" /\ tail'[p] = 0
      /\ \A q \in Procs \ {p} : pc'[q] \notin {"write_log", "install_trans", "done", "read_head"}
  BY Zenon, <1>0, <1>1 DEF BaseInv, TypeOK
<1>3. Installing'  BY Zenon, <1>2 DEF Installing
<1>4. lh \in Seq(Blocks) /\ Len(lh) \in Nat  BY DEF BaseInv, TypeOK
<1>5. HeadInv'  BY <1>0, <1>2, <1>3, <1>4 DEF DiskInv, HeadInv, Distinct
<1>6. PinInv'
  <2>1. \A b : b \in dirty <=> \E i \in 1..Len(lh) : lh[i] = b
    BY <1>1, <1>4, InSeq DEF DiskInv, PinInv
  <2>2. dirty = {lh[i] : i \in 1..Len(lh)}  BY Zenon, <2>1
  <2>3. dirty' = {lh'[i] : i \in (tail'[p] + 1)..Len(lh')}  BY <1>0, <1>2, <2>2
  <2>. QED  BY Zenon, <1>0, <1>1, <1>2, <1>3, <2>3 DEF PinInv
<1>7. CacheInv'  BY Zenon, <1>0 DEF DiskInv, CacheInv
<1>8. CopyInv'
  <2>1. \A i \in 1..Len(lh) : i < NLOG => slot[i] = cache[lh[i]]  BY <1>0 DEF DiskInv, CopyInv
  <2>. QED  BY <1>0, <1>2, <2>1 DEF CopyInv
<1>. QED  BY Zenon, <1>5, <1>6, <1>7, <1>8 DEF DiskInv

\* install_trans copies one block home and unpins its buffer.
LEMMA DiskInstallTrans ==
  ASSUME BaseInv, DiskInv, NEW p \in Procs, InstallTrans(p) PROVE DiskInv'
<1>. DEFINE k == tail[p] + 1
<1>. PICK v \in Vals : /\ k < NLOG => v = slot[k]
                       /\ home' = [home EXCEPT ![lh[k]] = v]
                       /\ cache' = [cache EXCEPT ![lh[k]] = v]
                       /\ dirty' = dirty \ {lh[k]}
  BY Zenon DEF InstallTrans
<1>0. /\ pc[p] = "install_trans" /\ tail[p] < Len(lh)
      /\ tail' = [tail EXCEPT ![p] = k]
      /\ UNCHANGED <<slot, head, lh, up, pc, buf>>
  BY Zenon DEF InstallTrans
<1>1. /\ tail[p] \in Nat /\ Len(lh) \in Nat /\ k \in 1..Len(lh) /\ k \in Nat
      /\ lh \in Seq(Blocks) /\ lh[k] \in Blocks
  BY <1>0 DEF BaseInv, TypeOK
<1>3. /\ \A q \in Procs \ {p} : pc[q] \notin {"write_log", "install_trans", "done", "read_head"}
      /\ \A b \in Blocks : b \notin Range(buf)
      /\ Installing /\ Installing'
  BY Zenon, <1>0, CommitPhase DEF Installing
<1>. PICK b \in Blocks : b = lh[k]  BY Zenon, <1>1
<1>4. /\ tail'[p] = k
      /\ \A c \in Blocks : home'[c] = IF c = b THEN v ELSE home[c]
      /\ \A c \in Blocks : cache'[c] = IF c = b THEN v ELSE cache[c]
  BY Zenon, <1>0 DEF BaseInv, TypeOK
<1>5. \A i \in 1..Len(lh) : lh[i] \in Blocks /\ (lh[i] = b => i = k)
  BY <1>1 DEF DiskInv, HeadInv, Distinct
<1>6. HeadInv'  BY <1>0, <1>1, <1>3, <1>4 DEF DiskInv, HeadInv, Distinct
<1>7. PinInv'
  <2>1. ASSUME up PROVE dirty' = {lh'[i] : i \in (tail'[p] + 1)..Len(lh')}
    <3>1. dirty = {lh[i] : i \in k..Len(lh)}  BY Zenon, <1>0, <2>1 DEF DiskInv, PinInv
    <3>2. \A c : c \in dirty' <=> \E i \in (k + 1)..Len(lh) : c = lh[i]
      <4>1. \A i \in 1..Len(lh) : i \in k..Len(lh) /\ i # k <=> i \in (k + 1)..Len(lh)
        BY <1>1
      <4>2. \A i : i \in k..Len(lh) \/ i \in (k + 1)..Len(lh) => i \in 1..Len(lh)
        BY <1>1
      <4>. dirty' = dirty \ {b}
        BY <1>0
      <4>3. \A c : c \in dirty' <=> \E i \in k..Len(lh) : c = lh[i] /\ c # b
        BY Zenon, <3>1
      <4>4. \A i \in 1..Len(lh) : lh[i] # b <=> i # k
        BY Zenon, <1>5
      <4>. QED  BY Zenon, <4>1, <4>2, <4>3, <4>4
    <3>3. dirty' = {lh[i] : i \in (k + 1)..Len(lh)}  BY Zenon, <3>2
    <3>. QED  BY <1>0, <1>4, <3>3
  <2>2. ~up => dirty' = {}  BY Zenon, <1>0 DEF DiskInv, PinInv
  <2>. QED  BY Zenon, <1>0, <1>3, <2>1, <2>2 DEF PinInv
<1>8. CacheInv'
  <2>1. \A c \in Blocks : c \in (dirty \cup Range(buf))' <=> c \in dirty /\ c # b
    BY Zenon, <1>0, <1>3
  <2>. QED  BY <1>0, <1>3, <1>4, <2>1 DEF DiskInv, CacheInv
<1>9. CopyInv'
  <2>1. \A i \in 1..tail[p] : i < NLOG => home[lh[i]] = slot[i]
    BY Zenon, <1>0 DEF DiskInv, CopyInv
  <2>2. \A i \in 1..k : i < NLOG => home'[lh[i]] = slot[i]  BY SMTT(30), <1>1, <1>4, <1>5, <2>1
  <2>3. up => \A i \in (k + 1)..Len(lh) : i < NLOG => cache'[lh[i]] = slot[i]
    <3>1. up => \A i \in k..Len(lh) : i < NLOG => cache[lh[i]] = slot[i]
      BY Zenon, <1>0 DEF DiskInv, CopyInv
    <3>. QED  BY <1>1, <1>4, <1>5, <3>1
  <2>. QED  BY <1>0, <1>3, <1>4, <2>2, <2>3 DEF CopyInv
<1>. QED  BY Zenon, <1>6, <1>7, <1>8, <1>9 DEF DiskInv

\* commit or recovery erases the header on disk.
LEMMA DiskClearLog ==
  ASSUME BaseInv, DiskInv, NEW p \in Procs, ClearLog(p) PROVE DiskInv'
<1>0. /\ pc[p] = "install_trans" /\ tail[p] = Len(lh) /\ lh' = <<>> /\ head' = <<>> /\ up'
      /\ pc' = [pc EXCEPT ![p] = IF up THEN "done" ELSE "user"]
      /\ UNCHANGED <<home, slot, cache, dirty, buf>>
  BY Zenon DEF ClearLog
<1>1. \A q \in Procs : pc'[q] \notin {"write_log", "install_trans", "read_head"}
  BY <1>0, CommitPhase DEF BaseInv, TypeOK
<1>2. ~Installing'  BY Zenon, <1>1 DEF Installing
<1>3. dirty = {}
  <2>1. Len(lh) \in Nat  BY DEF BaseInv, TypeOK
  <2>2. up => dirty = {lh[i] : i \in (Len(lh) + 1)..Len(lh)}  BY Zenon, <1>0 DEF DiskInv, PinInv
  <2>3. up => dirty = {}  BY <2>1, <2>2
  <2>. QED  BY Zenon, <2>3 DEF DiskInv, PinInv
<1>4. HeadInv'  BY <1>0, <1>1, <1>2 DEF HeadInv, Distinct
<1>5. PinInv'  BY Zenon, <1>0, <1>1, <1>2, <1>3, RangeEmpty DEF PinInv
<1>6. CacheInv'  BY Zenon, <1>0 DEF DiskInv, CacheInv
<1>7. CopyInv'  BY Zenon, <1>1 DEF CopyInv
<1>. QED  BY Zenon, <1>4, <1>5, <1>6, <1>7 DEF DiskInv

\* Recovery reads the header.
LEMMA DiskReadHead ==
  ASSUME BaseInv, DiskInv, NEW p \in Procs, ReadHead(p) PROVE DiskInv'
<1>0. /\ pc[p] = "read_head" /\ lh' = head /\ pc' = [pc EXCEPT ![p] = "install_trans"]
      /\ UNCHANGED <<home, slot, head, cache, dirty, up, tail, buf>>
  BY Zenon DEF ReadHead, disk
<1>1. ~up /\ tail[p] = 0  BY Zenon, <1>0, CommitPhase DEF DiskInv, HeadInv
<1>2. /\ pc'[p] = "install_trans"
      /\ \A q \in Procs \ {p} : pc'[q] \notin {"write_log", "install_trans", "read_head"}
  BY <1>0, CommitPhase DEF BaseInv, TypeOK
<1>3. Installing'  BY Zenon, <1>2 DEF Installing
<1>4. Len(head) \in Nat  BY DEF BaseInv, TypeOK
<1>5. HeadInv'  BY <1>0, <1>1, <1>2, <1>3, <1>4 DEF DiskInv, HeadInv, Distinct
<1>6. PinInv'  BY Zenon, <1>0, <1>1, <1>3 DEF DiskInv, PinInv
<1>7. CacheInv'  BY Zenon, <1>0 DEF DiskInv, CacheInv
<1>8. CopyInv'  BY <1>0, <1>1, <1>2 DEF CopyInv
<1>. QED  BY Zenon, <1>5, <1>6, <1>7, <1>8 DEF DiskInv

\* bget drops a buffer that is neither pinned nor in use.
LEMMA DiskRecycle ==
  ASSUME BaseInv, DiskInv, NEW b \in Blocks, Recycle(b) PROVE DiskInv'
<1>0. /\ b \notin dirty /\ b \notin Range(buf)
      /\ cache' = [cache EXCEPT ![b] = NotCached]
      /\ UNCHANGED <<home, slot, head, dirty, lh, up, pc, tail, buf>>
  BY Zenon DEF Recycle, disk, proc
<1>1. \A c \in Blocks : cache'[c] = IF c = b THEN NotCached ELSE cache[c]
  BY Zenon, <1>0 DEF BaseInv, TypeOK
<1>2. Installing' <=> Installing  BY Zenon, <1>0 DEF Installing
<1>3. HeadInv'  BY Zenon, <1>0, <1>2 DEF DiskInv, HeadInv, Distinct
<1>4. PinInv'  BY Zenon, <1>0, <1>2 DEF DiskInv, PinInv
<1>5. CacheInv'  BY Zenon, <1>0, <1>1 DEF DiskInv, CacheInv
<1>6. CopyInv'
  <2>1. \A i \in 1..Len(lh) : lh[i] \in Blocks  BY DEF BaseInv, TypeOK
  <2>2. ASSUME NEW q \in Procs, pc[q] = "write_log", NEW i \in 1..tail[q], i < NLOG
        PROVE  slot[i] = cache'[lh[i]]
    <3>1. i \in 1..Len(lh)  BY <2>2 DEF DiskInv, HeadInv, BaseInv, TypeOK
    <3>2. lh[i] \in dirty
      <4>1. up /\ ~Installing  BY Zenon, <2>2, CommitPhase DEF Installing
      <4>2. lh \in Seq(Blocks) BY Zenon DEF BaseInv, TypeOK
      <4>. QED  BY <3>1, <4>1, <4>2, InSeq DEF DiskInv, PinInv
    <3>. QED  BY Zenon, <1>0, <1>1, <2>1, <2>2, <3>1, <3>2 DEF DiskInv, CopyInv
  <2>3. ASSUME NEW q \in Procs, up, pc[q] = "install_trans",
               NEW i \in (tail[q] + 1)..Len(lh), i < NLOG
        PROVE  cache'[lh[i]] = slot[i]
    <3>1. i \in 1..Len(lh)  BY <2>3 DEF BaseInv, TypeOK
    <3>2. dirty = {lh[j] : j \in (tail[q] + 1)..Len(lh)}  BY Zenon, <2>3 DEF DiskInv, PinInv
    <3>3. lh[i] \in dirty  BY Zenon, <3>2
    <3>. QED  BY Zenon, <1>0, <1>1, <2>1, <2>3, <3>1, <3>3 DEF DiskInv, CopyInv
  <2>. QED  BY <1>0, <2>2, <2>3 DEF DiskInv, CopyInv
<1>. QED  BY Zenon, <1>3, <1>4, <1>5, <1>6 DEF DiskInv

\* A crash loses the memory and keeps the disk.
LEMMA DiskCrash ==
  ASSUME BaseInv, DiskInv, Crash PROVE DiskInv'
<1>0. /\ cache' = [b \in Blocks |-> NotCached] /\ dirty' = {} /\ lh' = <<>> /\ ~up'
      /\ pc' = [p \in Procs |-> IF p = Boot THEN "read_head" ELSE "user"]
      /\ tail' = [p \in Procs |-> 0]
      /\ buf' = [p \in Procs |-> NoBlock]
      /\ UNCHANGED <<home, slot, head>>
  BY Zenon DEF Crash, disk
<1>1. \A q \in Procs : pc'[q] \notin {"write_log", "install_trans"} /\ tail'[q] = 0
  BY Zenon, <1>0
<1>2. ~Installing'  BY Zenon, <1>1 DEF Installing
<1>3. \A b \in Blocks : b \notin Range(buf)'  BY Zenon, <1>0 DEF Range
<1>4. HeadInv'  BY <1>0, <1>1, <1>2 DEF DiskInv, HeadInv, Distinct
<1>5. PinInv'  BY Zenon, <1>0, <1>1 DEF PinInv
<1>6. CacheInv'  BY Zenon, <1>0, <1>3 DEF CacheInv
<1>7. CopyInv'  BY Zenon, <1>1 DEF CopyInv
<1>. QED  BY Zenon, <1>4, <1>5, <1>6, <1>7 DEF DiskInv

\* Every step keeps the invariant of the disk.
LEMMA DiskNext ==
  ASSUME BaseInv, BaseInv', DiskInv, [Next]_vars PROVE DiskInv'
<1>1. ASSUME NEW p \in Procs, EndOpDone(p) PROVE DiskInv'
  <2>1. /\ pc[p] = "done" /\ pc' = [Woken EXCEPT ![p] = "user"]
        /\ UNCHANGED <<home, slot, head, cache, dirty, lh, up, buf, tail>>
    BY Zenon, <1>1 DEF EndOpDone, disk
  <2>2. /\ DOMAIN Woken = Procs
        /\ \A q \in Procs : Woken[q] = IF pc[q] = "asleep" THEN "begin_op" ELSE pc[q]
    BY Zenon DEF Woken
  <2>. QED  BY Zenon, <2>1, <2>2, DiskFrame
<1>2. ASSUME NEW p \in Procs, BeginOpSleep(p) \/ BeginOp(p) PROVE DiskInv'
  <2>1. /\ pc[p] \in {"user", "begin_op"}
        /\ pc' = [pc EXCEPT ![p] = "asleep"] \/ pc' = [pc EXCEPT ![p] = "op"]
        /\ UNCHANGED <<home, slot, head, cache, dirty, lh, up, buf, tail>>
    BY Zenon, <1>2 DEF BeginOpSleep, BeginOp, disk, mem
  <2>2. \A q \in Procs : \/ pc'[q] = pc[q]
                         \/ pc[q] \in {"user", "begin_op"} /\ pc'[q] \in {"asleep", "op"}
    BY Zenon, <2>1 DEF BaseInv, TypeOK
  <2>. QED  BY Zenon, <2>1, <2>2, DiskFrame
<1>3. ASSUME UNCHANGED vars PROVE DiskInv'
  BY Zenon, <1>3, DiskFrame DEF vars, disk, mem, proc
<1>5. ASSUME NEW p \in Procs, Step(p) PROVE DiskInv'
  BY Zenon, <1>1, <1>5, DiskLogWrite, DiskEndOp, DiskReadHead, DiskWriteLog, DiskWriteHead,
     DiskInstallTrans, DiskClearLog DEF Step
<1>. QED  BY Zenon, <1>2, <1>3, <1>5, DiskLogWriteCheck, DiskRecycle, DiskCrash DEF Next

\* The invariant of the disk holds in every reachable state.
LEMMA DiskInvariant == Spec => []DiskInv
<1>1. Init => DiskInv  BY Zenon, DiskInit
<1>2. BaseInv /\ BaseInv' /\ DiskInv /\ [Next]_vars => DiskInv'  BY Zenon, DiskNext
<1>. QED  BY <1>1, <1>2, BaseInvariant, PTL DEF Spec

\* When the last operation has left end_op, nothing is pending: the header on
\* disk is empty, every block is home and no buffer is pinned.
THEOREM QuietDurable == Spec => []QuietIsDurable
<1>1. ASSUME BaseInv, QuietInv, DiskInv PROVE QuietIsDurable
  <2>. SUFFICES ASSUME up, outstanding = 0, ~committing
                PROVE  /\ head = <<>> /\ lh = <<>> /\ dirty = {}
                       /\ \A b \in Blocks : Content(b) = home[b]
    BY Zenon DEF QuietIsDurable
  <2>1. InOp = {}
    <3>1. InOp \in SUBSET Procs /\ outstanding = Cardinality(InOp)
      BY Zenon, <1>1 DEF InOp, BaseInv, CountInv
    <3>. QED  BY <3>1, ProcsCounted
  <2>2. ~Installing  BY Zenon, <1>1 DEF BaseInv, PhaseInv, Committer, Installing
  <2>3. lh = <<>> /\ head = <<>> /\ dirty = {}
    BY Zenon, <1>1, <2>1, <2>2, RangeEmpty DEF QuietInv, DiskInv, HeadInv, PinInv
  <2>4. \A b \in Blocks : b \notin Range(buf)
    <3>1. \A q \in Procs : buf[q] = NoBlock  BY Zenon, <1>1, <2>1 DEF BaseInv, CountInv, InOp
    <3>. QED  BY Zenon, <1>1, <3>1, InBuf DEF BaseInv
  <2>5. \A b \in Blocks : Content(b) = home[b]
    BY Zenon, <1>1, <2>3, <2>4 DEF DiskInv, CacheInv, Content
  <2>. QED  BY Zenon, <2>3, <2>5
<1>. QED  BY <1>1, DiskInvariant, BaseInvariant, QuietInvariant, PTL

------------------------------------------------------------------------------
(* The log implements AtomicDisk.  The durable image is what recovery would *)
(* leave, so that it changes at the commit point alone.                     *)

Volatile == IF up THEN [b \in Blocks |-> Content(b)] ELSE Recovered

\* Recovery takes a block from the sector of its entry in the header, if the log
\* has it, and from home when it has no entry.
ReadBack ==
  /\ \A i \in 1..Len(head) : head[i] \in Blocks /\ (i < NLOG => Recovered[head[i]] = slot[i])
  /\ \A b \in Blocks : (\A i \in 1..Len(head) : head[i] # b) => Recovered[b] = home[b]

\* What recovery makes of a header without repetitions.
LEMMA RecoveredAt == TypeOK /\ Distinct(head) => ReadBack
<1>. SUFFICES ASSUME TypeOK, Distinct(head) PROVE ReadBack  BY Zenon
<1>1. head \in Seq(Blocks) /\ DOMAIN head = 1..Len(head)  BY DEF TypeOK
<1>2. ASSUME NEW i \in 1..Len(head)
      PROVE  head[i] \in Blocks /\ (i < NLOG => Recovered[head[i]] = slot[i])
  <2>1. head[i] \in Blocks  BY <1>1
  <2>2. (CHOOSE j \in DOMAIN head : head[j] = head[i]) = i  BY Zenon, <1>1 DEF Distinct
  <2>. QED  BY Zenon, <1>1, <2>1, <2>2 DEF Recovered
<1>3. ASSUME NEW b \in Blocks, \A i \in 1..Len(head) : head[i] # b
      PROVE  Recovered[b] = home[b]
  BY Zenon, <1>1, <1>3 DEF Recovered
<1>. QED  BY Zenon, <1>2, <1>3 DEF ReadBack

\* With an empty header, recovery finds the home blocks.
LEMMA RecoveredEmpty == ASSUME TypeOK, head = <<>> PROVE Recovered = home
<1>1. DOMAIN head = {}  OBVIOUS
<1>. QED  BY Zenon, <1>1 DEF Recovered, TypeOK

\* Steps that leave the disk alone leave what recovery makes of it alone.
LEMMA RecoveredSame == ASSUME UNCHANGED disk PROVE Recovered' = Recovered
BY DEF disk, Recovered

\* The steps of the log as steps of the atomic disk.
LEMMA AtomicStutter ==
  ASSUME Recovered' = Recovered, Volatile' = Volatile, InOp' = InOp
  PROVE  UNCHANGED Atomic!vars
BY Zenon DEF Atomic!vars, Volatile

\* ... and what the processes see, if they leave the cache alone too.
LEMMA VolatileSame ==
  ASSUME Recovered' = Recovered, UNCHANGED <<up, home, cache>> PROVE Volatile' = Volatile
BY Zenon DEF Volatile, Content

\* The log starts as the atomic disk does.
LEMMA AtomicInit == ASSUME Init PROVE Atomic!Init
<1>1. TypeOK  BY Zenon, BaseInit DEF BaseInv
<1>2. Recovered = home /\ home \in [Blocks -> Vals] /\ ~up
  BY Zenon, <1>1, RecoveredEmpty DEF Init
<1>3. InOp = {}  BY Zenon DEF Init, InOp
<1>. QED  BY Zenon, <1>2, <1>3 DEF Atomic!Init

\* begin_op begins an operation of the atomic disk.
LEMMA AtomicBeginOp ==
  ASSUME BaseInv, NEW p \in Procs, BeginOp(p) PROVE Atomic!Begin(p)
<1>0. /\ pc[p] \in {"user", "begin_op"} /\ pc' = [pc EXCEPT ![p] = "op"]
      /\ UNCHANGED <<disk, up, home, cache>>
  BY Zenon DEF BeginOp, disk
<1>1. Recovered' = Recovered /\ Volatile' = Volatile
  BY Zenon, <1>0, RecoveredSame, VolatileSame
<1>2. p \notin InOp /\ InOp' = InOp \cup {p}  BY <1>0 DEF InOp, BaseInv, TypeOK
<1>. QED  BY Zenon, <1>1, <1>2 DEF Atomic!Begin, Volatile

\* end_op ends one.
LEMMA AtomicEndOp ==
  ASSUME BaseInv, NEW p \in Procs, EndOp(p) PROVE Atomic!End(p)
<1>0. /\ pc[p] = "op"
      /\ UNCHANGED <<disk, up, home, cache>>
      /\ pc' = IF outstanding' # 0 THEN [Woken EXCEPT ![p] = "user"]
               ELSE [pc EXCEPT ![p] = IF lh = <<>> THEN "done" ELSE "write_log"]
  BY Zenon DEF EndOp, disk
<1>1. Recovered' = Recovered /\ Volatile' = Volatile
  BY Zenon, <1>0, RecoveredSame, VolatileSame
<1>2. p \in InOp /\ InOp' = InOp \ {p}
  <2>1. /\ DOMAIN Woken = Procs
        /\ \A q \in Procs : Woken[q] = IF pc[q] = "asleep" THEN "begin_op" ELSE pc[q]
    BY Zenon DEF Woken
  <2>2. \A q \in Procs : IF q = p THEN pc'[q] \notin {"op", "log_write"}
                         ELSE pc'[q] \in {"op", "log_write"} <=> pc[q] \in {"op", "log_write"}
    BY Zenon, <1>0, <2>1 DEF BaseInv, TypeOK
  <2>. QED  BY Zenon, <1>0, <2>2 DEF InOp
<1>. QED  BY Zenon, <1>1, <1>2 DEF Atomic!End, Volatile

\* The head of log_write changes nothing that the atomic disk shows.
LEMMA AtomicLogWriteCheck ==
  ASSUME BaseInv, NEW p \in Procs, LogWriteCheck(p) PROVE Atomic!Write(p)
<1>0. /\ pc[p] = "op" /\ pc' = [pc EXCEPT ![p] = "log_write"] /\ UNCHANGED <<disk, up>>
  BY Zenon DEF LogWriteCheck
<1>1. PICK b \in Blocks, v \in Vals : cache' = [cache EXCEPT ![b] = v]
  BY ZenonT(40) DEF LogWriteCheck
<1>2. Recovered' = Recovered  BY Zenon, <1>0, RecoveredSame
<1>3. up  BY Zenon, <1>0, OpPhase
<1>4. Volatile' = [Volatile EXCEPT ![b] = v]
  <2>1. \A c \in Blocks : cache'[c] = IF c = b THEN v ELSE cache[c]
    BY Zenon, <1>1 DEF BaseInv, TypeOK
  <2>2. v # NotCached /\ home' = home  BY Zenon, <1>0 DEF disk
  <2>. QED  BY Zenon, <1>0, <1>3, <2>1, <2>2 DEF Volatile, Content
<1>5. p \in InOp /\ InOp' = InOp  BY Zenon, <1>0 DEF InOp, BaseInv, TypeOK
<1>. QED  BY Zenon, <1>2, <1>4, <1>5 DEF Atomic!Write, Volatile

\* write_head makes what the buffers hold durable, all at once.
LEMMA AtomicWriteHead ==
  ASSUME BaseInv, BaseInv', DiskInv, DiskInv', Len(lh) < NLOG, NEW p \in Procs, WriteHead(p)
  PROVE  Atomic!Commit
<1>0. /\ pc[p] = "write_log" /\ tail[p] = Len(lh) /\ head' = lh
      /\ UNCHANGED <<home, slot, cache, dirty, lh, up, buf>>
      /\ pc' = [pc EXCEPT ![p] = "install_trans"]
  BY Zenon DEF WriteHead, mem
<1>1. up /\ ~Installing /\ \A b \in Blocks : b \notin Range(buf)
  BY Zenon, <1>0, CommitPhase DEF Installing
<1>2. InOp = {} /\ InOp' = {}
  BY Zenon, <1>0 DEF BaseInv, PhaseInv, InOp, Committer, TypeOK
<1>3. lh \in Seq(Blocks)  BY Zenon DEF BaseInv, TypeOK
<1>4. \A b \in Blocks : Recovered'[b] = Content(b)
  <2>1. /\ \A i \in 1..Len(lh) : lh[i] \in Blocks /\ Recovered'[lh[i]] = slot[i]
        /\ \A b \in Blocks : (\A i \in 1..Len(lh) : lh[i] # b) => Recovered'[b] = home[b]
    <3>1. /\ \A i \in 1..Len(head') :
               head'[i] \in Blocks /\ (i < NLOG => Recovered'[head'[i]] = slot'[i])
          /\ \A b \in Blocks : (\A i \in 1..Len(head') : head'[i] # b) => Recovered'[b] = home'[b]
      <4>1. TypeOK' /\ Distinct(head)'  BY Zenon DEF BaseInv, DiskInv, HeadInv
      <4>2. TypeOK' /\ Distinct(head)' => ReadBack'  BY RecoveredAt, PTL
      <4>. QED  BY Zenon, <4>1, <4>2 DEF ReadBack
    <3>2. \A i \in 1..Len(lh) : i < NLOG  BY <1>3
    <3>. QED  BY Zenon, <1>0, <3>1, <3>2
  <2>2. ASSUME NEW b \in Blocks, NEW i \in 1..Len(lh), lh[i] = b PROVE Recovered'[b] = Content(b)
    <3>1. slot[i] = cache[b]
      <4>1. i < NLOG  BY <1>3
      <4>. QED  BY <1>0, <2>2, <4>1 DEF DiskInv, CopyInv
    <3>2. b \in dirty  BY Zenon, <1>1, <1>3, <2>2, InSeq DEF DiskInv, PinInv
    <3>3. cache[b] # NotCached  BY Zenon, <3>2 DEF DiskInv, CacheInv
    <3>. QED  BY Zenon, <2>1, <2>2, <3>1, <3>3 DEF Content
  <2>3. ASSUME NEW b \in Blocks, \A i \in 1..Len(lh) : lh[i] # b PROVE Recovered'[b] = Content(b)
    <3>1. b \notin dirty  BY <1>1, <1>3, <2>3, InSeq DEF DiskInv, PinInv
    <3>2. cache[b] \in {NotCached, home[b]}  BY Zenon, <1>1, <3>1 DEF DiskInv, CacheInv
    <3>. QED  BY Zenon, <2>1, <2>3, <3>2 DEF Content
  <2>. QED  BY Zenon, <2>2, <2>3
<1>5. Recovered' = Volatile
  <2>1. Recovered' = [b \in Blocks |-> Recovered'[b]]  BY DEF Recovered
  <2>. QED  BY Zenon, <1>1, <1>4, <2>1 DEF Volatile
<1>6. Volatile' = Volatile  BY Zenon, <1>0, <1>1 DEF Volatile, Content
<1>. QED  BY Zenon, <1>2, <1>5, <1>6 DEF Atomic!Commit, Volatile

\* Copying a logged block home changes nothing that recovery or a reader sees.
LEMMA AtomicInstallTrans ==
  ASSUME BaseInv, BaseInv', DiskInv, DiskInv', Len(lh) < NLOG, NEW p \in Procs, InstallTrans(p)
  PROVE  UNCHANGED Atomic!vars
<1>. DEFINE k == tail[p] + 1
<1>0. /\ pc[p] = "install_trans" /\ tail[p] < Len(lh)
      /\ UNCHANGED <<slot, head, lh, up, pc>>
  BY Zenon DEF InstallTrans
<1>1. k \in 1..Len(lh) /\ k \in (tail[p] + 1)..Len(lh) /\ k < NLOG /\ k \in 1..NLOG - 1
  BY <1>0 DEF BaseInv, TypeOK
<1>11. /\ home' = [home EXCEPT ![lh[k]] = slot[k]]
       /\ cache' = [cache EXCEPT ![lh[k]] = slot[k]]
  BY Zenon, <1>1 DEF InstallTrans
<1>2. head = lh  BY Zenon, <1>0 DEF DiskInv, HeadInv, Installing
<1>3. PICK b \in Blocks : b = lh[k]  BY <1>1 DEF BaseInv, TypeOK
<1>. HIDE DEF k
<1>4. /\ \A c \in Blocks : home'[c] = IF c = b THEN slot[k] ELSE home[c]
      /\ \A c \in Blocks : cache'[c] = IF c = b THEN slot[k] ELSE cache[c]
  BY Zenon, <1>0, <1>11, <1>3 DEF BaseInv, TypeOK
<1>5. Recovered' = Recovered
  <2>1. k \in DOMAIN head /\ head[k] = b /\ k < NLOG
    BY <1>1, <1>2, <1>3 DEF BaseInv, TypeOK
  <2>2. \A c \in Blocks : Recovered'[c] = Recovered[c]
    BY <1>0, <1>4, <2>1 DEF Recovered
  <2>3. /\ Recovered' = [c \in Blocks |-> Recovered'[c]]
        /\ Recovered = [c \in Blocks |-> Recovered[c]]
    BY DEF Recovered
  <2>. QED  BY Zenon, <2>2, <2>3
<1>6. Volatile' = Volatile
  <2>1. CASE up
    <3>1. cache[b] = slot[k]  BY Zenon, <1>0, <1>1, <1>3, <2>1 DEF DiskInv, CopyInv
    <3>2. slot[k] # NotCached
      BY <1>1 DEF BaseInv, TypeOK
    <3>3. \A c \in Blocks : Content(c)' = Content(c)  BY Zenon, <1>4, <3>1, <3>2 DEF Content
    <3>. QED  BY Zenon, <1>0, <2>1, <3>3 DEF Volatile
  <2>2. CASE ~up  BY Zenon, <1>0, <1>5, <2>2 DEF Volatile
  <2>. QED  BY Zenon, <2>1, <2>2
<1>7. InOp' = InOp  BY Zenon, <1>0 DEF InOp
<1>. QED  BY Zenon, <1>5, <1>6, <1>7, AtomicStutter

\* Nor does erasing a header whose blocks are all home; when recovery ends here,
\* the running system reads what recovery left.
LEMMA AtomicClearLog ==
  ASSUME BaseInv, BaseInv', DiskInv, DiskInv', Len(lh) < NLOG, NEW p \in Procs, ClearLog(p)
  PROVE  UNCHANGED Atomic!vars
<1>0. /\ pc[p] = "install_trans" /\ tail[p] = Len(lh) /\ head' = <<>> /\ up'
      /\ pc' = [pc EXCEPT ![p] = IF up THEN "done" ELSE "user"]
      /\ UNCHANGED <<home, slot, cache>>
  BY Zenon DEF ClearLog
<1>1. Recovered = home
  <2>1. head = lh /\ Distinct(head)  BY Zenon, <1>0 DEF DiskInv, HeadInv, Installing
  <2>2. ReadBack  BY Zenon, <2>1, RecoveredAt DEF BaseInv
  <2>3. \A i \in 1..Len(head) : i < NLOG /\ home[head[i]] = slot[i]
    <3>1. \A i \in 1..Len(head) : i < NLOG  BY <2>1 DEF BaseInv, TypeOK
    <3>. QED  BY <1>0, <2>1, <3>1 DEF DiskInv, CopyInv
  <2>4. \A b \in Blocks : Recovered[b] = home[b]  BY <2>2, <2>3 DEF ReadBack
  <2>5. /\ Recovered = [c \in Blocks |-> Recovered[c]] /\ home = [c \in Blocks |-> home[c]]
    BY DEF Recovered, BaseInv, TypeOK
  <2>. QED  BY Zenon, <2>4, <2>5
<1>2. Recovered' = home
  <2>1. TypeOK' /\ head' = <<>>  BY Zenon, <1>0 DEF BaseInv
  <2>2. DOMAIN head' = {}  BY <1>0
  <2>. QED  BY Zenon, <1>0, <2>1, <2>2 DEF Recovered, TypeOK
<1>3. Volatile' = Volatile
  <2>1. CASE up  BY Zenon, <1>0, <2>1 DEF Volatile, Content
  <2>2. CASE ~up
    <3>1. dirty = {} /\ \A b \in Blocks : b \notin Range(buf)
      BY Zenon, <1>0, <2>2, CommitPhase DEF DiskInv, PinInv
    <3>2. \A b \in Blocks : Content(b)' = home[b]
      BY Zenon, <1>0, <3>1 DEF DiskInv, CacheInv, Content
    <3>3. home = [b \in Blocks |-> home[b]]  BY Zenon DEF BaseInv, TypeOK
    <3>. QED  BY Zenon, <1>0, <1>1, <2>2, <3>2, <3>3 DEF Volatile
  <2>. QED  BY Zenon, <2>1, <2>2
<1>4. InOp' = InOp  BY Zenon, <1>0 DEF InOp, BaseInv, TypeOK
<1>. QED  BY Zenon, <1>1, <1>2, <1>3, <1>4, AtomicStutter

\* write_log writes sectors that recovery does not read yet.
LEMMA AtomicWriteLog ==
  ASSUME BaseInv, DiskInv, NEW p \in Procs, WriteLog(p) PROVE UNCHANGED Atomic!vars
<1>0. pc[p] = "write_log" /\ UNCHANGED <<home, head, cache, up, pc>>
  BY Zenon DEF WriteLog, mem
<1>1. head = <<>>
  <2>1. up /\ ~Installing  BY Zenon, <1>0, CommitPhase DEF Installing
  <2>. QED  BY Zenon, <2>1 DEF DiskInv, HeadInv
<1>2. DOMAIN head = {} /\ DOMAIN head' = {}  BY <1>0, <1>1
<1>3. Recovered' = Recovered  BY Zenon, <1>0, <1>2 DEF Recovered
<1>4. Volatile' = Volatile  BY Zenon, <1>0, <1>3, VolatileSame
<1>5. InOp' = InOp  BY Zenon, <1>0 DEF InOp
<1>. QED  BY Zenon, <1>3, <1>4, <1>5, AtomicStutter

\* A buffer that bget recycles held what is on the disk.
LEMMA AtomicRecycle ==
  ASSUME BaseInv, DiskInv, NEW b \in Blocks, Recycle(b) PROVE UNCHANGED Atomic!vars
<1>0. /\ b \notin dirty /\ b \notin Range(buf)
      /\ cache' = [cache EXCEPT ![b] = NotCached]
      /\ UNCHANGED <<disk, home, up, pc>>
  BY Zenon DEF Recycle, disk, proc
<1>1. \A c \in Blocks : cache'[c] = IF c = b THEN NotCached ELSE cache[c]
  BY Zenon, <1>0 DEF BaseInv, TypeOK
<1>2. cache[b] \in {NotCached, home[b]}  BY Zenon, <1>0 DEF DiskInv, CacheInv
<1>3. \A c \in Blocks : Content(c)' = Content(c)  BY Zenon, <1>0, <1>1, <1>2 DEF Content
<1>4. Recovered' = Recovered  BY Zenon, <1>0, RecoveredSame
<1>5. Volatile' = Volatile  BY Zenon, <1>0, <1>3, <1>4 DEF Volatile
<1>6. InOp' = InOp  BY Zenon, <1>0 DEF InOp
<1>. QED  BY Zenon, <1>4, <1>5, <1>6, AtomicStutter

\* A crash is a crash of the atomic disk.
LEMMA AtomicCrash == ASSUME Crash PROVE Atomic!Crash
<1>0. /\ ~up' /\ UNCHANGED disk
      /\ pc' = [p \in Procs |-> IF p = Boot THEN "read_head" ELSE "user"]
  BY Zenon DEF Crash
<1>1. Recovered' = Recovered  BY Zenon, <1>0, RecoveredSame
<1>2. InOp' = {}  BY Zenon, <1>0 DEF InOp
<1>. QED  BY Zenon, <1>0, <1>1, <1>2 DEF Atomic!Crash

\* The other steps change neither the disk, nor a content, nor who is in an
\* operation.
LEMMA AtomicFrame ==
  ASSUME UNCHANGED <<home, slot, head, cache, up>>,
         \A q \in Procs : pc'[q] \in {"op", "log_write"} <=> pc[q] \in {"op", "log_write"}
  PROVE  UNCHANGED Atomic!vars
<1>1. Recovered' = Recovered  BY Zenon, RecoveredSame DEF disk
<1>2. Volatile' = Volatile  BY Zenon, <1>1, VolatileSame
<1>3. InOp' = InOp  BY Zenon DEF InOp
<1>. QED  BY Zenon, <1>1, <1>2, <1>3, AtomicStutter

\* Every step of the log is a step of the atomic disk or leaves it alone.
LEMMA AtomicNext ==
  ASSUME BaseInv, BaseInv', DiskInv, DiskInv', ~Overfull, [Next]_vars
  PROVE  [Atomic!Next]_(Atomic!vars)
<1>0. Len(lh) < NLOG  BY DEF Overfull, BaseInv, TypeOK
<1>1. ASSUME NEW p \in Procs, EndOpDone(p) PROVE UNCHANGED Atomic!vars
  <2>1. /\ pc[p] = "done" /\ pc' = [Woken EXCEPT ![p] = "user"]
        /\ UNCHANGED <<home, slot, head, cache, up>>
    BY Zenon, <1>1 DEF EndOpDone, disk
  <2>2. /\ DOMAIN Woken = Procs
        /\ \A q \in Procs : Woken[q] = IF pc[q] = "asleep" THEN "begin_op" ELSE pc[q]
    BY Zenon DEF Woken
  <2>. QED  BY Zenon, <2>1, <2>2, AtomicFrame
<1>2. ASSUME NEW p \in Procs, LogWrite(p) \/ ReadHead(p) \/ BeginOpSleep(p)
      PROVE  UNCHANGED Atomic!vars
  <2>1. /\ UNCHANGED <<home, slot, head, cache, up>>
        /\ \/ pc[p] = "log_write" /\ pc' = [pc EXCEPT ![p] = "op"]
           \/ pc[p] = "read_head" /\ pc' = [pc EXCEPT ![p] = "install_trans"]
           \/ pc[p] \in {"user", "begin_op"} /\ pc' = [pc EXCEPT ![p] = "asleep"]
    BY Zenon, <1>2 DEF LogWrite, ReadHead, BeginOpSleep, disk, mem
  <2>2. \A q \in Procs : pc'[q] \in {"op", "log_write"} <=> pc[q] \in {"op", "log_write"}
    BY <2>1 DEF BaseInv, TypeOK
  <2>. QED  BY Zenon, <2>1, <2>2, AtomicFrame
<1>3. ASSUME UNCHANGED vars PROVE UNCHANGED Atomic!vars
  BY Zenon, <1>3, AtomicFrame DEF vars, disk, mem, proc
<1>4. ASSUME NEW p \in Procs, Step(p) PROVE [Atomic!Next]_(Atomic!vars)
  BY Zenon, <1>0, <1>1, <1>2, <1>4, AtomicEndOp, AtomicWriteLog, AtomicWriteHead, AtomicInstallTrans,
     AtomicClearLog DEF Step, Atomic!Next
<1>5. ASSUME NEW p \in Procs, BeginOpSleep(p) \/ BeginOp(p) \/ LogWriteCheck(p)
      PROVE  [Atomic!Next]_(Atomic!vars)
  BY Zenon, <1>2, <1>5, AtomicBeginOp, AtomicLogWriteCheck DEF Atomic!Next
<1>. QED  BY Zenon, <1>3, <1>4, <1>5, AtomicRecycle, AtomicCrash DEF Next, Atomic!Next

\* The log implements an atomic disk: whatever the interleaving of operations,
\* commits and buffer recycling, a crash at any point, of recovery too, leaves
\* the effect of whole groups of finished operations, except while a transaction
\* has more blocks than the log has sectors.
THEOREM LogImplementsAtomicDisk == Spec => AtomicSpec
<1>1. Init => Atomic!Init  BY Zenon, AtomicInit
<1>2. BaseInv /\ BaseInv' /\ DiskInv /\ DiskInv' /\ [Next]_vars
      => [Atomic!Next \/ Overfull]_(Atomic!vars)
  BY Zenon, AtomicNext
<1>. QED  BY <1>1, <1>2, DiskInvariant, BaseInvariant, PTL DEF Spec, AtomicSpec
==============================================================================
