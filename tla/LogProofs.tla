------------------------------ MODULE LogProofs ------------------------------
(***************************************************************************)
(* Theorems about Log, for any number of processes, blocks and values and  *)
(* any sizes of the log.                                                   *)
(***************************************************************************)
EXTENDS Log, FiniteSetTheorems, TLAPS

USE LogAssumption

\* The part of the invariant that does not depend on the space in the log.
BaseInv == TypeOK /\ CountInv /\ PhaseInv

------------------------------------------------------------------------------
(* Facts about sequences and about the sets the invariant counts. *)

\* log_write adds one block to the header.
LEMMA RangeAppend ==
  ASSUME NEW S, NEW s \in Seq(S), NEW x \in S
  PROVE  Range(Append(s, x)) = Range(s) \cup {x}
<1>1. /\ DOMAIN s = 1..Len(s) /\ Len(s) \in Nat
      /\ DOMAIN Append(s, x) = 1..(Len(s) + 1)
      /\ \A i \in 1..Len(s) : Append(s, x)[i] = s[i]
      /\ Append(s, x)[Len(s) + 1] = x
  OBVIOUS
<1>2. 1..(Len(s) + 1) = (1..Len(s)) \cup {Len(s) + 1}  BY <1>1
<1>3. ASSUME NEW y \in Range(Append(s, x)) PROVE y \in Range(s) \cup {x}
  BY Zenon, <1>1, <1>2, <1>3 DEF Range
<1>4. ASSUME NEW y \in Range(s) PROVE y \in Range(Append(s, x))
  <2>1. PICK i \in 1..Len(s) : y = s[i]  BY Zenon, <1>1 DEF Range
  <2>2. i \in DOMAIN Append(s, x) /\ Append(s, x)[i] = y  BY Zenon, <1>1, <1>2, <2>1
  <2>. QED  BY Zenon, <2>2 DEF Range
<1>5. x \in Range(Append(s, x))
  <2>1. Len(s) + 1 \in DOMAIN Append(s, x) /\ Append(s, x)[Len(s) + 1] = x  BY <1>1, <1>2
  <2>. QED  BY <2>1, Zenon DEF Range
<1>. QED  BY Zenon, <1>3, <1>4, <1>5

\* An empty header has no blocks.
LEMMA RangeEmpty == Range(<<>>) = {}
BY DEF Range

\* The processes are finitely many, so any set of them has a cardinality.
LEMMA ProcsFinite ==
  ASSUME NEW S \in SUBSET Procs
  PROVE  IsFiniteSet(S) /\ Cardinality(S) \in Nat
BY Zenon, FS_Subset, FS_CardinalityType

\* A set of processes is counted as zero only if it is empty.
LEMMA ProcsCounted ==
  ASSUME NEW S \in SUBSET Procs
  PROVE  Cardinality(S) > 0 <=> S # {}
BY ProcsFinite, FS_EmptySet

\* What the operations in S have reserved and not used is finite.
LEMMA UnusedFinite ==
  ASSUME NEW S \in SUBSET Procs, NEW w
  PROVE  /\ IsFiniteSet(UnusedOf(S, w)) /\ Cardinality(UnusedOf(S, w)) \in Nat
         /\ Cardinality(UnusedOf(S, w)) <= Cardinality(S) * MAXOPBLOCKS
<1>1. IsFiniteSet(1..MAXOPBLOCKS) /\ Cardinality(1..MAXOPBLOCKS) = MAXOPBLOCKS
  BY FS_Interval
<1>2. /\ IsFiniteSet(S \X (1..MAXOPBLOCKS))
      /\ Cardinality(S \X (1..MAXOPBLOCKS)) = Cardinality(S) * MAXOPBLOCKS
  BY ZenonT(40), <1>1, ProcsFinite, FS_Product
<1>3. UnusedOf(S, w) \in SUBSET (S \X (1..MAXOPBLOCKS))  BY Zenon DEF UnusedOf
<1>. QED  BY <1>2, <1>3, FS_Subset, FS_CardinalityType

\* An operation that writes a block for the first time uses up one
\* reservation.
LEMMA UnusedWrite ==
  ASSUME NEW S \in SUBSET Procs, NEW w, NEW v, NEW p \in S,
         \A q \in S : q # p => v[q] = w[q],
         Cardinality(w[p]) \in Nat, Cardinality(v[p]) = Cardinality(w[p]) + 1,
         Cardinality(v[p]) <= MAXOPBLOCKS
  PROVE  Cardinality(UnusedOf(S, v)) = Cardinality(UnusedOf(S, w)) - 1
<1>. DEFINE t == <<p, Cardinality(v[p])>>
<1>1. t \in UnusedOf(S, w)  BY DEF UnusedOf
<1>2. ASSUME NEW u \in UnusedOf(S, v) PROVE u \in UnusedOf(S, w) \ {t}
  <2>1. u \in S \X (1..MAXOPBLOCKS) /\ u[2] > Cardinality(v[u[1]])  BY Zenon DEF UnusedOf
  <2>2. CASE u[1] = p  BY <2>1, <2>2 DEF UnusedOf
  <2>3. CASE u[1] # p  BY <2>1, <2>3 DEF UnusedOf
  <2>. QED  BY Zenon, <2>2, <2>3
<1>3. ASSUME NEW u \in UnusedOf(S, w) \ {t} PROVE u \in UnusedOf(S, v)
  <2>1. u \in S \X (1..MAXOPBLOCKS) /\ u[2] > Cardinality(w[u[1]]) /\ u # t
    BY Zenon DEF UnusedOf
  <2>2. CASE u[1] = p
    <3>1. u = <<p, u[2]>> /\ u[2] \in 1..MAXOPBLOCKS  BY <2>1, <2>2
    <3>2. u[2] # Cardinality(v[p])  BY Zenon, <2>1, <3>1
    <3>. QED  BY <2>1, <2>2, <3>1, <3>2 DEF UnusedOf
  <2>3. CASE u[1] # p  BY Zenon, <2>1, <2>3 DEF UnusedOf
  <2>. QED  BY Zenon, <2>2, <2>3
<1>4. UnusedOf(S, v) = UnusedOf(S, w) \ {t}  BY Zenon, <1>2, <1>3
<1>. HIDE DEF t
<1>5. /\ IsFiniteSet(UnusedOf(S, w))
      /\ Cardinality(UnusedOf(S, w) \ {t}) = Cardinality(UnusedOf(S, w)) - 1
  BY ZenonT(40), <1>1, UnusedFinite, FS_RemoveElement
<1>. QED  BY Zenon, <1>4, <1>5

\* An operation that has written fewer than MAXOPBLOCKS blocks has one unused.
LEMMA UnusedSlack ==
  ASSUME NEW S \in SUBSET Procs, NEW w, NEW p \in S,
         Cardinality(w[p]) \in Nat, Cardinality(w[p]) < MAXOPBLOCKS
  PROVE  <<p, MAXOPBLOCKS>> \in UnusedOf(S, w)
BY DEF UnusedOf

\* Two such operations have two.
LEMMA UnusedSlackTwo ==
  ASSUME NEW S \in SUBSET Procs, NEW w, NEW p \in S, NEW q \in S, p # q,
         \A r \in S : Cardinality(w[r]) \in Nat /\ Cardinality(w[r]) < MAXOPBLOCKS
  PROVE  Cardinality(UnusedOf(S, w)) >= 2
<1>. DEFINE U == UnusedOf(S, w)
            t == <<p, MAXOPBLOCKS>>
            u == <<q, MAXOPBLOCKS>>
<1>1. t \in U /\ u \in U /\ t # u  BY UnusedSlack
<1>2. IsFiniteSet(U) /\ Cardinality(U) \in Nat  BY Zenon, UnusedFinite
<1>. HIDE DEF U, t, u
<1>3. IsFiniteSet(U \ {t}) /\ Cardinality(U \ {t}) = Cardinality(U) - 1
  BY Zenon, <1>1, <1>2, FS_RemoveElement
<1>4. u \in U \ {t}  BY Zenon, <1>1
<1>5. Cardinality(U \ {t}) \in Nat /\ Cardinality(U \ {t}) # 0
  BY Zenon, <1>3, <1>4, FS_EmptySet, FS_CardinalityType
<1>6. Cardinality(U) >= 2  BY <1>2, <1>3, <1>5
<1>. QED  BY <1>6 DEF U

------------------------------------------------------------------------------
(* The base invariant is inductive. *)

\* The invariant holds before the first boot.
LEMMA BaseInit == ASSUME Init PROVE BaseInv
<1>1. InOp = {}  BY Zenon DEF Init, InOp
<1>2. TypeOK
  <2>1. (CHOOSE v \in Vals : TRUE) \in Vals  BY Zenon
  <2>2. slot \in [1..NLOG - 1 -> Vals]  BY Zenon, <2>1 DEF Init
  <2>3. home \in [Blocks -> Vals] /\ head \in Seq(Blocks) /\ lh \in Seq(Blocks)
    BY DEF Init
  <2>4. /\ cache \in [Blocks -> Vals \cup {NotCached}] /\ dirty \subseteq Blocks
        /\ outstanding \in Nat /\ committing \in BOOLEAN /\ up \in BOOLEAN /\ halted \in BOOLEAN
    BY ZenonT(40) DEF Init
  <2>5. /\ pc \in [Procs -> {"user", "read_head"}] /\ tail \in [Procs -> Nat]
        /\ buf \in [Procs -> Blocks \cup {NoBlock}] /\ wrote \in [Procs -> SUBSET Blocks]
        /\ modest \in BOOLEAN
    BY Zenon DEF Init
  <2>. QED  BY Zenon, <2>2, <2>3, <2>4, <2>5 DEF TypeOK
<1>3. CountInv  BY <1>1, FS_EmptySet, RangeEmpty DEF Init, CountInv
<1>4. PhaseInv  BY Zenon, <1>1 DEF Init, PhaseInv, Committer
<1>. QED  BY Zenon, <1>2, <1>3, <1>4 DEF BaseInv

\* begin_op that has to wait.
LEMMA BaseBeginOpSleep ==
  ASSUME BaseInv, NEW p \in Procs, BeginOpSleep(p) PROVE BaseInv'
<1>. USE DEF BaseInv, BeginOpSleep, disk, mem
<1>1. TypeOK'  BY Zenon DEF TypeOK
<1>2. InOp' = InOp /\ Committer' = Committer  BY Zenon DEF TypeOK, InOp, Committer
<1>3. CountInv'  BY Zenon, <1>2 DEF TypeOK, CountInv
<1>4. PhaseInv'  BY Zenon, <1>2 DEF TypeOK, PhaseInv
<1>. QED  BY Zenon, <1>1, <1>3, <1>4

\* begin_op that reserves its blocks.
LEMMA BaseBeginOp ==
  ASSUME BaseInv, NEW p \in Procs, BeginOp(p) PROVE BaseInv'
<1>. USE DEF BaseInv, BeginOp, disk
<1>1. TypeOK'  BY DEF TypeOK
<1>2. InOp' = InOp \cup {p} /\ p \notin InOp /\ Committer' = Committer
  BY DEF TypeOK, InOp, Committer
<1>3. InOp \in SUBSET Procs /\ InOp' \in SUBSET Procs  BY Zenon DEF InOp
<1>4. outstanding' = Cardinality(InOp')
  BY Zenon, <1>2, <1>3, ProcsFinite, FS_AddElement DEF CountInv
<1>5. CountInv'  BY Zenon, <1>2, <1>4 DEF TypeOK, CountInv
<1>6. PhaseInv'  BY Zenon, <1>2 DEF TypeOK, PhaseInv
<1>. QED  BY Zenon, <1>1, <1>5, <1>6

\* The head of log_write.
LEMMA BaseLogWriteCheck ==
  ASSUME BaseInv, NEW p \in Procs, LogWriteCheck(p) PROVE BaseInv'
<1>. USE DEF BaseInv
<1>1. PICK b \in Blocks, v \in Vals :
        /\ b \notin Range(buf)
        /\ cache' = [cache EXCEPT ![b] = v]
        /\ buf' = [buf EXCEPT ![p] = b]
        /\ modest' = (modest /\ Cardinality(wrote[p] \cup {b}) < MAXOPBLOCKS)
  BY ZenonT(40) DEF LogWriteCheck
<1>. USE DEF LogWriteCheck, disk
<1>2. TypeOK'  BY Zenon, <1>1 DEF TypeOK
<1>3. InOp' = InOp /\ Committer' = Committer  BY Zenon DEF TypeOK, InOp, Committer
<1>4. CountInv'
  <2>1. \A q \in Procs : buf[q] # b  BY <1>1 DEF Range, TypeOK
  <2>. QED  BY ZenonT(40), <1>1, <1>3, <2>1 DEF TypeOK, CountInv
<1>5. PhaseInv'  BY <1>3 DEF TypeOK, PhaseInv
<1>. QED  BY Zenon, <1>2, <1>4, <1>5

\* The rest of log_write: one block more in the header, one less unused.
LEMMA BaseLogWrite ==
  ASSUME BaseInv, NEW p \in Procs, LogWrite(p) PROVE BaseInv'
<1>. USE DEF BaseInv, LogWrite, disk
<1>0. buf[p] \in Blocks /\ p \in InOp  BY Zenon DEF TypeOK, CountInv, InOp
<1>1. lh' \in Seq(Blocks) /\ Len(lh') \in Nat  BY <1>0 DEF TypeOK
<1>11. halted' \in BOOLEAN  OBVIOUS
<1>2. TypeOK'  BY Zenon, <1>0, <1>1, <1>11 DEF TypeOK
<1>3. InOp' = InOp /\ Committer' = Committer  BY Zenon DEF TypeOK, InOp, Committer
<1>4. Range(lh') = Range(lh) \cup {buf[p]}  BY <1>0, RangeAppend DEF TypeOK
<1>5. wrote'[p] = wrote[p] \cup {buf[p]} /\ IsFiniteSet(wrote'[p])
  BY ZenonT(40), FS_AddElement DEF TypeOK, CountInv
<1>6. modest' => Cardinality(wrote'[p]) < MAXOPBLOCKS  BY ZenonT(40), <1>5 DEF CountInv
<1>7. CountInv'
  <2>1. \A q \in Procs : q # p => wrote'[q] = wrote[q] /\ buf'[q] = buf[q] /\ pc'[q] = pc[q]
    BY Zenon DEF TypeOK
  <2>2. pc'[p] = "op" /\ buf'[p] = NoBlock  BY Zenon DEF TypeOK
  <2>3. outstanding' = Cardinality(InOp')  BY Zenon, <1>3 DEF CountInv
  <2>4. ASSUME NEW q \in Procs
        PROVE  /\ pc'[q] = "log_write" <=> buf'[q] # NoBlock
               /\ IsFiniteSet(wrote'[q]) /\ (q \notin InOp' => wrote'[q] = {})
               /\ wrote'[q] \subseteq Range(lh')
               /\ modest' => /\ Cardinality(wrote'[q]) < MAXOPBLOCKS
                             /\ pc'[q] = "log_write" =>
                                  Cardinality(wrote'[q] \cup {buf'[q]}) < MAXOPBLOCKS
    <3>1. CASE q = p
      BY Zenon, <1>0, <1>3, <1>4, <1>5, <1>6, <2>2, <3>1 DEF CountInv
    <3>2. CASE q # p
      BY ZenonT(40), <1>3, <1>4, <2>1, <3>2 DEF CountInv
    <3>. QED  BY Zenon, <3>1, <3>2
  <2>5. \A q, r \in Procs : q # r /\ buf'[q] = buf'[r] => buf'[q] = NoBlock
    BY <2>1, <2>2 DEF CountInv
  <2>. QED  BY ZenonT(40), <2>3, <2>4, <2>5 DEF CountInv
<1>8. PhaseInv'
  <2>1. up  BY Zenon DEF PhaseInv
  <2>2. \A q \in Procs : pc'[q] = "read_head" => pc[q] = "read_head"  BY Zenon DEF TypeOK
  <2>. QED  BY Zenon, <1>3, <2>1, <2>2 DEF PhaseInv
<1>. QED  BY Zenon, <1>2, <1>7, <1>8

\* end_op, which commits if the operation is the last.
LEMMA BaseEndOp ==
  ASSUME BaseInv, NEW p \in Procs, EndOp(p) PROVE BaseInv'
<1>. USE DEF BaseInv, EndOp, disk
<1>0. p \in InOp /\ InOp \in SUBSET Procs  BY Zenon DEF InOp
<1>1. outstanding \in Nat \ {0}
  BY ZenonT(40), <1>0, ProcsFinite, FS_EmptySet DEF CountInv, TypeOK
<1>2. Woken \in [Procs -> {"user", "begin_op", "op", "log_write", "write_log",
                          "install_trans", "done", "read_head"}]
  BY Zenon DEF Woken, TypeOK
<1>3. /\ pc' \in [Procs -> {"user", "begin_op", "asleep", "op", "log_write", "write_log",
                            "install_trans", "done", "read_head"}]
      /\ outstanding' # 0 => pc'[p] = "user"
      /\ outstanding' = 0 => pc'[p] \in {"done", "write_log"}
      /\ \A q \in Procs : q # p =>
           pc'[q] = pc[q] \/ (pc[q] = "asleep" /\ pc'[q] = "begin_op")
  <2>1. CASE outstanding' # 0
    <3>1. pc' = [Woken EXCEPT ![p] = "user"]  BY Zenon, <2>1
    <3>2. \A q \in Procs : Woken[q] = IF pc[q] = "asleep" THEN "begin_op" ELSE pc[q]
      BY Zenon DEF Woken
    <3>3. pc'[p] = "user" /\ \A q \in Procs \ {p} : pc'[q] = Woken[q]  BY Zenon, <1>2, <3>1
    <3>4. pc' \in [Procs -> {"user", "begin_op", "op", "log_write", "write_log",
                            "install_trans", "done", "read_head"}]
      BY Zenon, <1>2, <3>1
    <3>. QED  BY Zenon, <2>1, <3>2, <3>3, <3>4
  <2>2. CASE outstanding' = 0
    <3>1. pc' = [pc EXCEPT ![p] = IF lh = <<>> THEN "done" ELSE "write_log"]  BY ZenonT(40), <2>2
    <3>2. pc'[p] \in {"done", "write_log"} /\ \A q \in Procs \ {p} : pc'[q] = pc[q]
      BY Zenon, <3>1 DEF TypeOK
    <3>3. pc' \in [Procs -> {"user", "begin_op", "asleep", "op", "log_write", "write_log",
                            "install_trans", "done", "read_head"}]
      BY Zenon, <3>1 DEF TypeOK
    <3>. QED  BY Zenon, <2>2, <3>2, <3>3
  <2>. QED  BY Zenon, <2>1, <2>2
<1>4. TypeOK'  BY <1>1, <1>3 DEF TypeOK
<1>41. /\ wrote'[p] = {}
       /\ \A q \in Procs : q # p => wrote'[q] = wrote[q]
  BY Zenon DEF TypeOK
<1>5. InOp' = InOp \ {p}  BY Zenon, <1>3 DEF InOp
<1>6. outstanding' = Cardinality(InOp')
  BY Zenon, <1>0, <1>5, ProcsFinite, FS_RemoveElement DEF CountInv
<1>7. CountInv'
  <2>1. ASSUME NEW q \in Procs
        PROVE  /\ pc'[q] = "log_write" <=> buf'[q] # NoBlock
               /\ IsFiniteSet(wrote'[q]) /\ (q \notin InOp' => wrote'[q] = {})
               /\ wrote'[q] \subseteq Range(lh')
               /\ modest' => /\ Cardinality(wrote'[q]) < MAXOPBLOCKS
                             /\ pc'[q] = "log_write" =>
                                  Cardinality(wrote'[q] \cup {buf'[q]}) < MAXOPBLOCKS
    <3>1. CASE q = p  BY <1>3, <1>41, <3>1, FS_EmptySet DEF CountInv
    <3>2. CASE q # p  BY <1>3, <1>41, <1>5, <3>2 DEF CountInv
    <3>. QED  BY SMTT(30), <3>1, <3>2
  <2>. QED  BY ZenonT(40), <1>6, <2>1 DEF CountInv
<1>8. PhaseInv'
  <2>1. up /\ Committer = {} /\ ~committing  BY Zenon, <1>0 DEF PhaseInv, Committer
  <2>2. InOp' = {} <=> outstanding' = 0
    <3>1. InOp' \in SUBSET Procs  BY <1>0, <1>5
    <3>. QED  BY ZenonT(40), <1>6, <3>1, ProcsFinite, FS_EmptySet
  <2>3. CASE outstanding' = 0
    <3>1. Committer' = {p}  BY <1>3, <2>1, <2>3 DEF Committer, TypeOK
    <3>. QED  BY ZenonT(40), <1>3, <2>1, <2>2, <2>3, <3>1 DEF PhaseInv
  <2>4. CASE outstanding' # 0
    <3>1. Committer' = {}  BY Zenon, <1>3, <2>1, <2>4 DEF Committer, TypeOK
    <3>2. ~committing' /\ up'  BY ZenonT(40), <2>1, <2>4
    <3>3. \A q \in Procs : pc'[q] # "read_head"  BY SMTT(30), <1>3, <2>1, <2>4 DEF PhaseInv
    <3>. QED  BY Zenon, <3>1, <3>2, <3>3 DEF PhaseInv
  <2>. QED  BY Zenon, <2>3, <2>4
<1>. QED  BY Zenon, <1>4, <1>7, <1>8

\* The steps of a commit and of recovery leave the operations alone.
LEMMA BaseFrame ==
  ASSUME TypeOK, CountInv, UNCHANGED <<outstanding, wrote, buf, InOp>>,
         Range(lh) \subseteq Range(lh') \/ InOp = {},
         (modest' => modest) \/ InOp = {},
         \A q \in Procs : pc'[q] = "log_write" <=> pc[q] = "log_write"
  PROVE  CountInv'
<1>1. CASE modest' => modest  BY Zenon, <1>1 DEF CountInv
<1>2. CASE InOp = {}
  <2>1. \A q \in Procs : wrote'[q] = {} /\ pc'[q] # "log_write"
    BY Zenon, <1>2 DEF CountInv, InOp
  <2>2. Cardinality({}) < MAXOPBLOCKS  BY FS_EmptySet
  <2>. QED  BY Zenon, <1>2, <2>1, <2>2 DEF CountInv
<1>. QED  BY Zenon, <1>1, <1>2

\* write_log, one block.
LEMMA BaseWriteLog ==
  ASSUME BaseInv, NEW p \in Procs, WriteLog(p) PROVE BaseInv'
<1>. USE DEF BaseInv, WriteLog, mem
<1>0. tail[p] + 1 \in DOMAIN lh  BY DEF TypeOK
<1>01. slot' \in [1..NLOG - 1 -> Vals]
  <2>1. lh[tail[p] + 1] \in Blocks  BY <1>0 DEF TypeOK
  <2>2. Content(lh[tail[p] + 1]) \in Vals  BY Zenon, <2>1 DEF TypeOK, Content
  <2>. QED  BY ZenonT(40), <2>2 DEF TypeOK
<1>02. tail' \in [Procs -> Nat]  BY DEF TypeOK
<1>1. TypeOK'  BY Zenon, <1>01, <1>02 DEF TypeOK
<1>2. InOp' = InOp /\ Committer' = Committer  BY Zenon DEF InOp, Committer
<1>3. CountInv'  BY Zenon, <1>2, BaseFrame
<1>4. PhaseInv'  BY Zenon, <1>2 DEF PhaseInv
<1>. QED  BY ZenonT(40), <1>1, <1>3, <1>4

\* write_head, the commit.
LEMMA BaseWriteHead ==
  ASSUME BaseInv, NEW p \in Procs, WriteHead(p) PROVE BaseInv'
<1>. USE DEF BaseInv, WriteHead, mem
<1>1. TypeOK'  BY Zenon DEF TypeOK
<1>2. InOp' = InOp /\ Committer' = Committer  BY Zenon DEF TypeOK, InOp, Committer
<1>3. CountInv'  BY Zenon, <1>2, BaseFrame DEF TypeOK
<1>4. PhaseInv'  BY SMTT(30), <1>2 DEF TypeOK, PhaseInv
<1>. QED  BY Zenon, <1>1, <1>3, <1>4

\* install_trans, one block.
LEMMA BaseInstallTrans ==
  ASSUME BaseInv, NEW p \in Procs, InstallTrans(p) PROVE BaseInv'
<1>. USE DEF BaseInv, InstallTrans
<1>1. tail[p] + 1 \in DOMAIN lh  BY DEF TypeOK
<1>2. lh[tail[p] + 1] \in Blocks  BY SMTT(30), <1>1 DEF TypeOK
<1>21. PICK v \in Vals : /\ home' = [home EXCEPT ![lh[tail[p] + 1]] = v]
                         /\ cache' = [cache EXCEPT ![lh[tail[p] + 1]] = v]
                         /\ dirty' = dirty \ {lh[tail[p] + 1]}
  BY ZenonT(40)
<1>3. TypeOK'  BY <1>2, <1>21 DEF TypeOK
<1>4. InOp' = InOp /\ Committer' = Committer  BY Zenon DEF InOp, Committer
<1>5. CountInv'  BY Zenon, <1>4, BaseFrame
<1>6. PhaseInv'  BY Zenon, <1>4 DEF PhaseInv
<1>. QED  BY Zenon, <1>3, <1>5, <1>6

\* The header is erased.
LEMMA BaseClearLog ==
  ASSUME BaseInv, NEW p \in Procs, ClearLog(p) PROVE BaseInv'
<1>. USE DEF BaseInv, ClearLog
<1>1. TypeOK'  BY DEF TypeOK
<1>2. p \in Committer /\ InOp = {}  BY Zenon DEF Committer, PhaseInv
<1>3. InOp' = InOp  BY Zenon DEF TypeOK, InOp
<1>4. CountInv'  BY Zenon, <1>2, <1>3, BaseFrame DEF TypeOK
<1>5. PhaseInv'
  <2>1. Committer = {p}  BY Zenon, <1>2 DEF PhaseInv
  <2>2. CASE up
    <3>1. Committer' = {p}  BY Zenon, <2>1, <2>2 DEF Committer, TypeOK
    <3>. QED  BY Zenon, <1>2, <1>3, <2>1, <2>2, <3>1 DEF PhaseInv, TypeOK
  <2>3. CASE ~up
    <3>1. Committer' = {}  BY Zenon, <2>1, <2>3 DEF Committer, TypeOK
    <3>. QED  BY SMTT(30), <1>2, <1>3, <2>1, <2>3, <3>1 DEF PhaseInv, TypeOK, Committer
  <2>. QED  BY Zenon, <2>2, <2>3
<1>. QED  BY Zenon, <1>1, <1>4, <1>5

\* The end of end_op after a commit.
LEMMA BaseEndOpDone ==
  ASSUME BaseInv, NEW p \in Procs, EndOpDone(p) PROVE BaseInv'
<1>. USE DEF BaseInv, EndOpDone, disk
<1>1. Woken \in [Procs -> {"user", "begin_op", "op", "log_write", "write_log",
                          "install_trans", "done", "read_head"}]
  BY Zenon DEF Woken, TypeOK
<1>2. TypeOK'  BY ZenonT(40), <1>1 DEF TypeOK
<1>3. /\ pc'[p] = "user"
      /\ \A q \in Procs : q # p =>
           pc'[q] = pc[q] \/ (pc[q] = "asleep" /\ pc'[q] = "begin_op")
  BY Zenon, <1>1 DEF Woken
<1>4. p \in Committer /\ InOp = {} /\ Committer = {p} /\ up
  BY Zenon DEF Committer, PhaseInv
<1>5. InOp' = InOp /\ Committer' = {}  BY <1>3, <1>4 DEF InOp, Committer
<1>6. CountInv'  BY Zenon, <1>3, <1>5, BaseFrame
<1>7. PhaseInv'  BY Zenon, <1>3, <1>4, <1>5 DEF PhaseInv
<1>. QED  BY Zenon, <1>2, <1>6, <1>7

\* recover_from_log reads the header.
LEMMA BaseReadHead ==
  ASSUME BaseInv, NEW p \in Procs, ReadHead(p) PROVE BaseInv'
<1>. USE DEF BaseInv, ReadHead, disk
<1>1. TypeOK'  BY Zenon DEF TypeOK
<1>2. ~up /\ p = Boot /\ Committer = {} /\ InOp = {}  BY Zenon DEF PhaseInv, Committer, InOp
<1>3. InOp' = {} /\ Committer' = {p}  BY SMTT(30), <1>2 DEF InOp, Committer, TypeOK
<1>4. CountInv'  BY Zenon, <1>2, <1>3, BaseFrame DEF TypeOK
<1>5. PhaseInv'  BY Zenon, <1>2, <1>3 DEF PhaseInv, TypeOK
<1>. QED  BY Zenon, <1>1, <1>4, <1>5

\* bget drops a buffer.
LEMMA BaseRecycle ==
  ASSUME BaseInv, NEW b \in Blocks, Recycle(b) PROVE BaseInv'
<1>. USE DEF BaseInv, Recycle, disk, proc
<1>1. TypeOK'  BY Zenon DEF TypeOK
<1>2. InOp' = InOp /\ Committer' = Committer  BY Zenon DEF InOp, Committer
<1>3. CountInv'  BY Zenon, <1>2, BaseFrame
<1>4. PhaseInv'  BY Zenon, <1>2 DEF PhaseInv
<1>. QED  BY Zenon, <1>1, <1>3, <1>4

\* A crash.
LEMMA BaseCrash ==
  ASSUME BaseInv, Crash PROVE BaseInv'
<1>. USE DEF BaseInv, Crash, disk
<1>1. InOp' = {} /\ Committer' = {}  BY Zenon DEF InOp, Committer
<1>2. TypeOK'
  <2>1. /\ pc' \in [Procs -> {"user", "read_head"}] /\ tail' \in [Procs -> Nat]
        /\ buf' \in [Procs -> Blocks \cup {NoBlock}] /\ wrote' \in [Procs -> SUBSET Blocks]
    BY Zenon
  <2>2. /\ cache' \in [Blocks -> Vals \cup {NotCached}] /\ lh' \in Seq(Blocks)
        /\ UNCHANGED <<home, slot, head>>
    OBVIOUS
  <2>. QED  BY ZenonT(40), <2>1, <2>2 DEF TypeOK
<1>3. CountInv'  BY SMTT(30), <1>1, FS_EmptySet, RangeEmpty DEF CountInv
<1>4. PhaseInv'  BY Zenon, <1>1 DEF PhaseInv
<1>. QED  BY Zenon, <1>2, <1>3, <1>4

\* A step that changes nothing.
LEMMA BaseStutter == ASSUME BaseInv, UNCHANGED vars PROVE BaseInv'
<1>. USE DEF BaseInv, vars, disk, mem, proc
<1>1. InOp' = InOp /\ Committer' = Committer  BY Zenon DEF InOp, Committer
<1>2. TypeOK'  BY Zenon DEF TypeOK
<1>3. CountInv'  BY Zenon, <1>1, BaseFrame
<1>4. PhaseInv'  BY Zenon, <1>1 DEF PhaseInv
<1>. QED  BY Zenon, <1>2, <1>3, <1>4

\* Every step keeps the invariant.
LEMMA BaseNext == BaseInv /\ [Next]_vars => BaseInv'
<1>. SUFFICES ASSUME BaseInv, [Next]_vars PROVE BaseInv'  BY Zenon
<1>1. ASSUME NEW p \in Procs, Step(p) PROVE BaseInv'
  BY Zenon, <1>1, BaseLogWrite, BaseEndOp, BaseEndOpDone, BaseReadHead, BaseWriteLog,
     BaseWriteHead, BaseInstallTrans, BaseClearLog DEF Step
<1>2. ASSUME NEW p \in Procs, BeginOpSleep(p) \/ BeginOp(p) \/ LogWriteCheck(p) PROVE BaseInv'
  BY Zenon, <1>2, BaseBeginOpSleep, BaseBeginOp, BaseLogWriteCheck
<1>. QED  BY Zenon, <1>1, <1>2, BaseRecycle, BaseCrash, BaseStutter DEF Next

\* The invariant holds in every reachable state.
LEMMA BaseInvariant == Spec => []BaseInv
BY BaseInit, BaseNext, PTL DEF Spec

\* Every variable of the log keeps its type: in particular outstanding never
\* goes below zero and install_trans never reads a sector the log has not.
THEOREM TypeCorrect == Spec => []TypeOK
<1>1. BaseInv => TypeOK  BY Zenon DEF BaseInv
<1>. QED  BY <1>1, BaseInvariant, PTL

\* commit(), which runs without log.lock, runs alone: no other process commits
\* and no operation is between begin_op and end_op.
THEOREM CommitRunsAlone == Spec => []CommitAlone
<1>1. BaseInv => CommitAlone  BY Zenon DEF BaseInv, PhaseInv, CommitAlone
<1>. QED  BY <1>1, BaseInvariant, PTL

------------------------------------------------------------------------------
(* An idle log is empty, so an operation that is alone never sleeps. *)

\* Nobody sleeps before the first boot.
LEMMA QuietInit == ASSUME Init PROVE QuietInv
BY Zenon DEF Init, QuietInv, SleeperHasWaker

\* A step of a process keeps QuietInv: both exits of end_op wake the sleepers.
LEMMA QuietStep ==
  ASSUME BaseInv, BaseInv', QuietInv, NEW p \in Procs, Step(p) PROVE QuietInv'
<1>. USE DEF BaseInv, disk, mem, proc
<1>1. CASE LogWrite(p)
  <2>1. p \in InOp /\ p \in InOp'  BY Zenon, <1>1 DEF LogWrite, InOp, TypeOK
  <2>2. Committer = {}  BY ZenonT(40), <2>1 DEF PhaseInv
  <2>3. \A q \in Procs : pc'[q] # "done"  BY Zenon, <1>1, <2>2 DEF LogWrite, Committer, TypeOK
  <2>4. outstanding' > 0
    <3>1. InOp' \in SUBSET Procs  BY Zenon DEF InOp
    <3>. QED  BY Zenon, <2>1, <3>1, ProcsCounted DEF CountInv
  <2>. QED  BY Zenon, <2>1, <2>3, <2>4 DEF QuietInv, SleeperHasWaker
<1>2. CASE EndOp(p)
  <2>1. CASE outstanding' = 0
    <3>1. committing'  BY ZenonT(40), <1>2, <2>1 DEF EndOp
    <3>2. pc' = [pc EXCEPT ![p] = IF lh = <<>> THEN "done" ELSE "write_log"] /\ lh' = lh
      BY ZenonT(40), <1>2, <2>1 DEF EndOp
    <3>3. \A q \in Procs : pc'[q] = "done" => lh' = <<>>
      BY Zenon, <3>2 DEF TypeOK, QuietInv
    <3>. QED  BY Zenon, <3>1, <3>3 DEF QuietInv, SleeperHasWaker
  <2>2. CASE outstanding' # 0
    <3>1. outstanding' > 0 /\ InOp' # {}
      <4>1. InOp' \in SUBSET Procs  BY Zenon DEF InOp
      <4>2. outstanding' \in Nat  BY Zenon DEF TypeOK
      <4>3. outstanding' = Cardinality(InOp')  BY ZenonT(40) DEF CountInv
      <4>. QED  BY SMTT(30), <2>2, <4>1, <4>2, <4>3, ProcsCounted
    <3>2. pc' = [Woken EXCEPT ![p] = "user"] /\ lh' = lh  BY Zenon, <1>2, <2>2 DEF EndOp
    <3>3. \A q \in Procs : pc'[q] = "done" => lh' = <<>>
      BY Zenon, <3>2 DEF Woken, TypeOK, QuietInv
    <3>. QED  BY Zenon, <3>1, <3>3 DEF QuietInv, SleeperHasWaker
  <2>. QED  BY Zenon, <2>1, <2>2
<1>3. CASE EndOpDone(p)
  <2>1. lh' = <<>>  BY Zenon, <1>3 DEF EndOpDone, QuietInv
  <2>2. \A q \in Procs : pc'[q] # "asleep"  BY Zenon, <1>3 DEF EndOpDone, Woken, TypeOK
  <2>. QED  BY ZenonT(40), <2>1, <2>2 DEF QuietInv, SleeperHasWaker
<1>4. CASE ReadHead(p)
  <2>1. ~up' /\ \A q \in Procs : pc'[q] \in {"user", "install_trans"}
    BY SMTT(30), <1>4 DEF ReadHead, PhaseInv, TypeOK
  <2>. QED  BY Zenon, <2>1 DEF QuietInv, SleeperHasWaker
<1>5. CASE WriteLog(p)
  <2>1. InOp' = InOp  BY Zenon, <1>5 DEF WriteLog, InOp
  <2>. QED  BY Zenon, <1>5, <2>1 DEF WriteLog, QuietInv, SleeperHasWaker
<1>6. CASE WriteHead(p)
  <2>1. InOp' = InOp  BY Zenon, <1>6 DEF WriteHead, InOp, TypeOK
  <2>. QED  BY Zenon, <1>6, <2>1 DEF WriteHead, QuietInv, SleeperHasWaker, TypeOK
<1>7. CASE InstallTrans(p)
  <2>1. InOp' = InOp  BY Zenon, <1>7 DEF InstallTrans, InOp
  <2>. QED  BY Zenon, <1>7, <2>1 DEF InstallTrans, QuietInv, SleeperHasWaker
<1>8. CASE ClearLog(p)
  <2>1. lh' = <<>> /\ UNCHANGED <<outstanding, committing>>
    BY Zenon, <1>8 DEF ClearLog
  <2>2. \A q \in Procs : pc'[q] = "asleep" => pc[q] = "asleep"
    BY Zenon, <1>8 DEF ClearLog, TypeOK
  <2>. QED  BY Zenon, <2>1, <2>2 DEF QuietInv, SleeperHasWaker
<1>. QED  BY Zenon, <1>1, <1>2, <1>3, <1>4, <1>5, <1>6, <1>7, <1>8 DEF Step

\* Every step keeps QuietInv.
LEMMA QuietNext == BaseInv /\ BaseInv' /\ QuietInv /\ [Next]_vars => QuietInv'
<1>. SUFFICES ASSUME BaseInv, BaseInv', QuietInv, [Next]_vars PROVE QuietInv'  BY Zenon
<1>. USE DEF BaseInv, disk, mem, proc
<1>1. ASSUME NEW p \in Procs, BeginOpSleep(p) PROVE QuietInv'
  <2>1. InOp' = InOp  BY Zenon, <1>1 DEF BeginOpSleep, InOp, TypeOK
  <2>2. outstanding > 0 \/ committing
    <3>1. CASE InOp = {} /\ ~committing
      <4>1. lh = <<>> /\ outstanding = 0
        BY Zenon, <1>1, <3>1, FS_EmptySet DEF BeginOpSleep, QuietInv, CountInv
      <4>. QED  BY SMTT(30), <1>1, <3>1, <4>1 DEF BeginOpSleep, NoRoom
    <3>2. CASE InOp # {}
      <4>1. InOp \in SUBSET Procs  BY Zenon DEF InOp
      <4>. QED  BY ZenonT(40), <3>2, <4>1, ProcsCounted DEF CountInv
    <3>. QED  BY Zenon, <3>1, <3>2
  <2>. QED  BY Zenon, <1>1, <2>1, <2>2 DEF BeginOpSleep, QuietInv, SleeperHasWaker, TypeOK
<1>2. ASSUME NEW p \in Procs, BeginOp(p) PROVE QuietInv'
  <2>1. p \in InOp' /\ outstanding' > 0  BY SMTT(30), <1>2 DEF BeginOp, InOp, TypeOK
  <2>. QED  BY Zenon, <1>2, <2>1 DEF BeginOp, QuietInv, SleeperHasWaker, TypeOK
<1>3. ASSUME NEW p \in Procs, LogWriteCheck(p) PROVE QuietInv'
  <2>1. InOp' = InOp  BY Zenon, <1>3 DEF LogWriteCheck, InOp, TypeOK
  <2>. QED  BY Zenon, <1>3, <2>1 DEF LogWriteCheck, QuietInv, SleeperHasWaker, TypeOK
<1>4. ASSUME NEW b \in Blocks, Recycle(b) PROVE QuietInv'
  <2>1. InOp' = InOp  BY Zenon, <1>4 DEF Recycle, InOp
  <2>. QED  BY Zenon, <1>4, <2>1 DEF Recycle, QuietInv, SleeperHasWaker
<1>5. ASSUME Crash PROVE QuietInv'
  BY Zenon, <1>5 DEF Crash, QuietInv, SleeperHasWaker
<1>6. ASSUME UNCHANGED vars PROVE QuietInv'
  <2>1. InOp' = InOp  BY Zenon, <1>6 DEF vars, InOp
  <2>. QED  BY Zenon, <1>6, <2>1 DEF vars, QuietInv, SleeperHasWaker
<1>. QED  BY Zenon, <1>1, <1>2, <1>3, <1>4, <1>5, <1>6, QuietStep DEF Next

\* QuietInv holds in every reachable state.
LEMMA QuietInvariant == Spec => []QuietInv
BY QuietInit, QuietNext, BaseInvariant, PTL DEF Spec

\* A process asleep in begin_op is never forgotten: an operation or a commit,
\* whose end calls wakeup(&log), is under way.
THEOREM NoLostWakeup == Spec => []SleeperHasWaker
<1>1. QuietInv => SleeperHasWaker  BY Zenon DEF QuietInv
<1>. QED  BY <1>1, QuietInvariant, PTL

------------------------------------------------------------------------------
(* Space: while every operation leaves one block of its reservation unused, *)
(* no log_write panics and no commit writes past the log, which is one      *)
(* sector shorter than what begin_op gives out.                             *)

\* The blocks that an operation has written are counted.
LEMMA WroteCounted ==
  ASSUME BaseInv, NEW p \in Procs
  PROVE  /\ Cardinality(wrote[p]) \in Nat
         /\ modest => Cardinality(wrote[p]) < MAXOPBLOCKS
BY Zenon, FS_CardinalityType DEF BaseInv, CountInv

\* With no operation under way the log holds what is written and two more.
LEMMA SpaceIdle ==
  ASSUME InOp = {}, Len(lh) \in Nat
  PROVE  SpaceInv <=> (modest => Len(lh) + 2 <= LOGSIZE /\ Len(head) + 2 <= LOGSIZE)
<1>1. Unused = {} /\ Spare = 2  BY Zenon DEF Unused, UnusedOf, Spare
<1>2. Len(lh) + Cardinality(Unused) + Spare = Len(lh) + 2  BY <1>1, FS_EmptySet
<1>. QED  BY Zenon, <1>2 DEF SpaceInv

\* The same after a step.
LEMMA SpaceIdleNext ==
  ASSUME InOp' = {}, Len(lh') \in Nat
  PROVE  SpaceInv' <=> (modest' => Len(lh') + 2 <= LOGSIZE /\ Len(head') + 2 <= LOGSIZE)
<1>1. Unused' = {} /\ Spare' = 2  BY Zenon DEF Unused, UnusedOf, Spare
<1>2. Len(lh') + Cardinality(Unused') + Spare' = Len(lh') + 2  BY <1>1, FS_EmptySet
<1>. QED  BY Zenon, <1>2 DEF SpaceInv

\* A step that neither writes nor reserves a block.
LEMMA SpaceFrame ==
  ASSUME SpaceInv, UNCHANGED <<lh, head, InOp, wrote>>, modest' => modest
  PROVE  SpaceInv'
BY Zenon DEF SpaceInv, Unused, UnusedOf, Spare

\* begin_op reserves its blocks; it is alone only if the log is empty.
LEMMA SpaceBeginOp ==
  ASSUME BaseInv, BaseInv', QuietInv, SpaceInv, NEW p \in Procs, BeginOp(p)
  PROVE  SpaceInv'
<1>. USE DEF BeginOp, disk
<1>1. InOp' = InOp \cup {p} /\ p \notin InOp /\ InOp' \in SUBSET Procs
  BY DEF BaseInv, TypeOK, InOp
<1>2. /\ Cardinality(Unused') \in Nat
      /\ Cardinality(Unused') <= (outstanding + 1) * MAXOPBLOCKS
  <2>1. outstanding + 1 = Cardinality(InOp')  BY Zenon DEF BaseInv, CountInv
  <2>. QED  BY Zenon, <1>1, <2>1, UnusedFinite DEF Unused
<1>3. Len(lh) \in Nat /\ Len(lh) + (outstanding + 1) * MAXOPBLOCKS <= LOGSIZE
  BY DEF NoRoom, BaseInv, TypeOK
<1>4. CASE InOp = {}
  <2>1. Spare' = 1  BY Zenon, <1>1, <1>4 DEF Spare
  <2>2. lh = <<>> /\ outstanding = 0
    BY Zenon, <1>4, FS_EmptySet DEF QuietInv, BaseInv, CountInv
  <2>3. Len(lh') + Cardinality(Unused') + Spare' <= LOGSIZE  BY <1>2, <2>1, <2>2
  <2>. QED  BY Zenon, <2>3 DEF SpaceInv
<1>5. CASE InOp # {}
  <2>1. InOp' # {} /\ \A q \in Procs : InOp' # {q}  BY Zenon, <1>1, <1>5
  <2>2. Spare' = 0  BY Zenon, <2>1 DEF Spare
  <2>3. (outstanding + 1) * MAXOPBLOCKS \in Nat  BY DEF BaseInv, TypeOK
  <2>4. Len(lh') + Cardinality(Unused') + Spare' <= LOGSIZE  BY <1>2, <1>3, <2>2, <2>3
  <2>. QED  BY Zenon, <2>4 DEF SpaceInv
<1>. QED  BY Zenon, <1>4, <1>5

\* log_write: one block more in the header, one less unused.
LEMMA SpaceLogWrite ==
  ASSUME BaseInv, BaseInv', SpaceInv, NEW p \in Procs, LogWrite(p) PROVE SpaceInv'
<1>. USE DEF LogWrite, disk
<1>0. InOp' = InOp /\ p \in InOp /\ InOp \in SUBSET Procs  BY Zenon DEF BaseInv, TypeOK, InOp
<1>1. CASE buf[p] \in wrote[p]
  <2>1. wrote' = wrote /\ lh' = lh  BY <1>1 DEF BaseInv, TypeOK, CountInv
  <2>. QED  BY ZenonT(40), <1>0, <2>1, SpaceFrame
<1>2. CASE buf[p] \notin wrote[p]
  <2>. SUFFICES ASSUME modest
                PROVE  Len(lh') + Cardinality(Unused') + Spare' <= LOGSIZE
    BY Zenon DEF SpaceInv
  <2>1. wrote'[p] = wrote[p] \cup {buf[p]} /\ \A q \in InOp : q # p => wrote'[q] = wrote[q]
    BY Zenon, <1>0 DEF BaseInv, TypeOK
  <2>2. Cardinality(wrote'[p]) = Cardinality(wrote[p]) + 1 /\ Cardinality(wrote[p]) \in Nat
    <3>1. IsFiniteSet(wrote[p])  BY Zenon DEF BaseInv, CountInv
    <3>. QED  BY Zenon, <1>2, <2>1, <3>1, FS_AddElement, FS_CardinalityType
  <2>3. Cardinality(wrote'[p]) < MAXOPBLOCKS  BY Zenon DEF BaseInv, CountInv
  <2>4. Cardinality(wrote'[p]) <= MAXOPBLOCKS  BY <2>2, <2>3
  <2>5. Cardinality(Unused') = Cardinality(Unused) - 1
    BY ZenonT(40), <1>0, <2>1, <2>2, <2>4, UnusedWrite DEF Unused
  <2>6. Cardinality(Unused) \in Nat  BY ZenonT(40), <1>0, UnusedFinite DEF Unused
  <2>7. Len(lh) \in Nat /\ Len(lh') \in Nat /\ Len(lh') <= Len(lh) + 1
    <3>1. buf[p] \in Blocks  BY Zenon DEF BaseInv, TypeOK, CountInv
    <3>. QED  BY <3>1 DEF BaseInv, TypeOK
  <2>8. Spare' = Spare /\ Spare \in Nat  BY <1>0 DEF Spare
  <2>9. Len(lh) + Cardinality(Unused) + Spare <= LOGSIZE  BY Zenon DEF SpaceInv
  <2>. QED  BY <2>5, <2>6, <2>7, <2>8, <2>9
<1>. QED  BY Zenon, <1>1, <1>2

\* end_op gives back the reservation, of which one block at least is unused.
LEMMA SpaceEndOp ==
  ASSUME BaseInv, BaseInv', SpaceInv, NEW p \in Procs, EndOp(p) PROVE SpaceInv'
<1>. USE DEF EndOp, disk
<1>0. p \in InOp /\ InOp \in SUBSET Procs /\ InOp' \in SUBSET Procs  BY Zenon DEF InOp
<1>1. InOp' = InOp \ {p} /\ \A q \in Procs : q # p => wrote'[q] = wrote[q]
  <2>1. \A q \in Procs : q # p => wrote'[q] = wrote[q]  BY Zenon DEF BaseInv, TypeOK
  <2>2. CASE outstanding' # 0
    <3>1. pc' = [Woken EXCEPT ![p] = "user"]  BY Zenon, <2>2
    <3>. QED  BY <2>1, <3>1 DEF Woken, InOp
  <2>3. CASE outstanding' = 0
    <3>1. pc' = [pc EXCEPT ![p] = IF lh = <<>> THEN "done" ELSE "write_log"]
      BY ZenonT(40), <2>3
    <3>2. pc \in [Procs -> {"user", "begin_op", "asleep", "op", "log_write", "write_log",
                            "install_trans", "done", "read_head"}]
      BY Zenon DEF BaseInv, TypeOK
    <3>. QED  BY <2>1, <3>1, <3>2 DEF InOp
  <2>. QED  BY Zenon, <2>2, <2>3
<1>. SUFFICES ASSUME modest
              PROVE  Len(lh') + Cardinality(Unused') + Spare' <= LOGSIZE
  BY Zenon DEF SpaceInv
<1>. DEFINE t == <<p, MAXOPBLOCKS>>
<1>2. t \in Unused  BY Zenon, <1>0, WroteCounted, UnusedSlack DEF Unused
<1>3. ASSUME NEW u \in Unused' PROVE u \in Unused \ {t}
  <2>1. u \in InOp' \X (1..MAXOPBLOCKS) /\ u[2] > Cardinality(wrote'[u[1]])
    BY Zenon DEF Unused, UnusedOf
  <2>2. u[1] \in InOp /\ u[1] # p /\ wrote'[u[1]] = wrote[u[1]]
    <3>1. u[1] \in InOp'  BY <2>1
    <3>. QED  BY Zenon, <1>0, <1>1, <3>1
  <2>3. u \in InOp \X (1..MAXOPBLOCKS) /\ u # t  BY <2>1, <2>2
  <2>. QED  BY Zenon, <2>1, <2>2, <2>3 DEF Unused, UnusedOf
<1>31. Unused' \in SUBSET (Unused \ {t})  BY Zenon, <1>3
<1>. HIDE DEF t
<1>4. IsFiniteSet(Unused) /\ Cardinality(Unused) \in Nat
  BY ZenonT(40), <1>0, UnusedFinite DEF Unused
<1>5. IsFiniteSet(Unused \ {t}) /\ Cardinality(Unused \ {t}) = Cardinality(Unused) - 1
  BY Zenon, <1>2, <1>4, FS_RemoveElement
<1>6. Cardinality(Unused') \in Nat /\ Cardinality(Unused') <= Cardinality(Unused \ {t})
  BY Zenon, <1>31, <1>5, FS_Subset, FS_CardinalityType
<1>7. Spare \in Nat /\ Spare' \in Nat /\ Spare' <= Spare + 1
  <2>1. CASE InOp = {p}
    <3>1. Spare = 1  BY Zenon, <1>0, <2>1 DEF Spare
    <3>2. Spare' = 2  BY Zenon, <1>1, <2>1 DEF Spare
    <3>. QED  BY <3>1, <3>2
  <2>2. CASE InOp # {p}
    <3>1. InOp' # {} /\ InOp # {}  BY Zenon, <1>0, <1>1, <2>2
    <3>2. Spare \in {0, 1} /\ Spare' \in {0, 1}  BY Zenon, <3>1 DEF Spare
    <3>. QED  BY <3>2
  <2>. QED  BY Zenon, <2>1, <2>2
<1>8. Len(lh) \in Nat /\ lh' = lh  BY DEF BaseInv, TypeOK
<1>9. Len(lh) + Cardinality(Unused) + Spare <= LOGSIZE  BY Zenon DEF SpaceInv
<1>. QED  BY <1>4, <1>5, <1>6, <1>7, <1>8, <1>9

\* The steps of commits and of recovery.
LEMMA SpaceStep ==
  ASSUME BaseInv, BaseInv', SpaceInv, NEW p \in Procs, Step(p) PROVE SpaceInv'
<1>. USE DEF disk, mem, proc
<1>0. /\ Len(lh) \in Nat /\ Len(lh') \in Nat /\ Len(head) \in Nat
      /\ \A q \in Committer : InOp = {}
  BY DEF BaseInv, TypeOK, PhaseInv
<1>1. CASE WriteLog(p) \/ InstallTrans(p) \/ EndOpDone(p)
  <2>1. InOp' = InOp  BY Zenon, <1>1 DEF WriteLog, InstallTrans, EndOpDone, Woken, InOp, BaseInv, TypeOK
  <2>2. UNCHANGED <<lh, head, wrote, modest>>
    BY Zenon, <1>1 DEF WriteLog, InstallTrans, EndOpDone
  <2>. QED  BY Zenon, <2>1, <2>2, SpaceFrame
<1>2. CASE WriteHead(p)
  <2>1. InOp = {} /\ InOp' = {}
    BY Zenon, <1>0, <1>2 DEF WriteHead, Committer, InOp, BaseInv, TypeOK
  <2>2. head' = lh /\ lh' = lh /\ modest' = modest  BY Zenon, <1>2 DEF WriteHead
  <2>3. modest => Len(lh) + 2 <= LOGSIZE  BY Zenon, <1>0, <2>1, SpaceIdle
  <2>4. InOp' = {} /\ Len(lh') \in Nat  BY Zenon, <1>0, <2>1
  <2>5. SpaceInv' <=> (modest' => Len(lh') + 2 <= LOGSIZE /\ Len(head') + 2 <= LOGSIZE)
    BY Zenon, <2>4, SpaceIdleNext
  <2>. QED  BY Zenon, <2>2, <2>3, <2>5
<1>3. CASE ClearLog(p)
  <2>1. InOp' = {}
    BY Zenon, <1>0, <1>3 DEF ClearLog, Committer, InOp, BaseInv, TypeOK
  <2>2. Len(lh') = 0 /\ Len(head') = 0  BY Zenon, <1>3 DEF ClearLog
  <2>3. 0 + 2 <= LOGSIZE  OBVIOUS
  <2>5. SpaceInv' <=> (modest' => Len(lh') + 2 <= LOGSIZE /\ Len(head') + 2 <= LOGSIZE)
    BY Zenon, <1>0, <2>1, SpaceIdleNext
  <2>. QED  BY Zenon, <2>2, <2>3, <2>5
<1>4. CASE ReadHead(p)
  <2>1. InOp' = {}
    BY Zenon, <1>4 DEF ReadHead, InOp, BaseInv, PhaseInv, TypeOK
  <2>2. head' = head /\ lh' = head /\ modest' = modest  BY Zenon, <1>4 DEF ReadHead
  <2>5. SpaceInv' <=> (modest' => Len(lh') + 2 <= LOGSIZE /\ Len(head') + 2 <= LOGSIZE)
    BY Zenon, <1>0, <2>1, SpaceIdleNext
  <2>. QED  BY Zenon, <2>2, <2>5 DEF SpaceInv
<1>. QED  BY Zenon, <1>1, <1>2, <1>3, <1>4, SpaceLogWrite, SpaceEndOp DEF Step

\* Every step keeps the account of the space.
LEMMA SpaceNext ==
  BaseInv /\ BaseInv' /\ QuietInv /\ SpaceInv /\ [Next]_vars => SpaceInv'
<1>. SUFFICES ASSUME BaseInv, BaseInv', QuietInv, SpaceInv, [Next]_vars PROVE SpaceInv'
  BY Zenon
<1>. USE DEF disk, mem, proc
<1>1. ASSUME NEW p \in Procs, BeginOpSleep(p) \/ LogWriteCheck(p) PROVE SpaceInv'
  <2>1. InOp' = InOp  BY Zenon, <1>1 DEF BeginOpSleep, LogWriteCheck, InOp, BaseInv, TypeOK
  <2>2. UNCHANGED <<lh, head, wrote>> /\ (modest' => modest)
    <3>1. CASE BeginOpSleep(p)  BY Zenon, <3>1 DEF BeginOpSleep
    <3>2. CASE LogWriteCheck(p)  BY Zenon, <3>2 DEF LogWriteCheck
    <3>. QED  BY Zenon, <1>1, <3>1, <3>2
  <2>. QED  BY Zenon, <2>1, <2>2, SpaceFrame
<1>2. ASSUME \/ \E b \in Blocks : Recycle(b)
             \/ UNCHANGED vars
      PROVE  SpaceInv'
  <2>1. UNCHANGED <<pc, lh, head, wrote, modest>>  BY Zenon, <1>2 DEF Recycle, vars
  <2>2. InOp' = InOp  BY Zenon, <2>1 DEF InOp
  <2>. QED  BY Zenon, <2>1, <2>2, SpaceFrame
<1>3. ASSUME Crash PROVE SpaceInv'
  <2>1. InOp' = {} /\ lh' = <<>> /\ head' = head /\ modest' = (head = <<>> \/ modest)
    BY Zenon, <1>3 DEF Crash, InOp
  <2>2. Len(lh') = 0 /\ Len(lh') \in Nat  BY <2>1
  <2>3. SpaceInv' <=> (modest' => Len(lh') + 2 <= LOGSIZE /\ Len(head') + 2 <= LOGSIZE)
    BY Zenon, <2>1, <2>2, SpaceIdleNext
  <2>4. modest => Len(head) + 2 <= LOGSIZE  BY Zenon DEF SpaceInv
  <2>5. head = <<>> => Len(head) + 2 <= LOGSIZE  OBVIOUS
  <2>6. 0 + 2 <= LOGSIZE  OBVIOUS
  <2>. QED  BY Zenon, <2>1, <2>2, <2>3, <2>4, <2>5, <2>6
<1>. QED  BY Zenon, <1>1, <1>2, <1>3, SpaceBeginOp, SpaceStep DEF Next

\* The log always has one block left, and two for an operation that may write.
LEMMA SpaceLeft ==
  ASSUME BaseInv, SpaceInv, modest
  PROVE  Len(lh) < LOGSIZE /\ (InOp # {} => Len(lh) + 2 <= LOGSIZE)
<1>1. Len(lh) \in Nat /\ InOp \in SUBSET Procs  BY DEF BaseInv, TypeOK, InOp
<1>2. Cardinality(Unused) \in Nat /\ IsFiniteSet(Unused)
  BY ZenonT(40), <1>1, UnusedFinite DEF Unused
<1>3. Len(lh) + Cardinality(Unused) + Spare <= LOGSIZE  BY Zenon DEF SpaceInv
<1>4. CASE InOp = {}
  <2>1. Spare = 2  BY Zenon, <1>4 DEF Spare
  <2>. QED  BY <1>1, <1>2, <1>3, <1>4, <2>1
<1>5. ASSUME NEW p \in InOp PROVE Len(lh) + 2 <= LOGSIZE
  <2>1. CASE InOp = {p}
    <3>1. Spare = 1  BY Zenon, <1>1, <2>1 DEF Spare
    <3>2. <<p, MAXOPBLOCKS>> \in Unused  BY Zenon, <1>1, WroteCounted, UnusedSlack DEF Unused
    <3>3. Cardinality(Unused) # 0  BY Zenon, <1>2, <3>2, FS_EmptySet
    <3>. QED  BY <1>1, <1>2, <1>3, <3>1, <3>3
  <2>2. CASE InOp # {p}
    <3>1. PICK q \in InOp : q # p  BY Zenon, <2>2
    <3>2. \A r \in InOp : Cardinality(wrote[r]) \in Nat /\ Cardinality(wrote[r]) < MAXOPBLOCKS
      BY Zenon, <1>1, WroteCounted
    <3>3. Cardinality(Unused) >= 2  BY Zenon, <1>1, <3>1, <3>2, UnusedSlackTwo DEF Unused
    <3>4. Spare \in Nat  BY DEF Spare
    <3>. QED  BY <1>1, <1>2, <1>3, <3>3, <3>4
  <2>. QED  BY Zenon, <2>1, <2>2
<1>6. Len(lh) + 2 <= LOGSIZE => Len(lh) < LOGSIZE  BY <1>1
<1>. QED  BY Zenon, <1>4, <1>5, <1>6

\* The space is accounted for in every reachable state.
LEMMA SpaceInvariant == Spec => []SpaceInv
<1>1. Init => SpaceInv
  <2>. SUFFICES ASSUME Init PROVE SpaceInv  BY Zenon
  <2>1. InOp = {} /\ Len(lh) = 0 /\ Len(head) = 0  BY DEF Init, InOp
  <2>2. 0 + 2 <= LOGSIZE /\ 0 \in Nat  OBVIOUS
  <2>. QED  BY Zenon, <2>1, <2>2, SpaceIdle
<1>. QED  BY <1>1, SpaceNext, BaseInvariant, QuietInvariant, PTL DEF Spec

\* No step of modest operations panics or writes past the log.
LEMMA ReservationNext ==
  ASSUME BaseInv, BaseInv', SpaceInv, modest' => Len(lh') < LOGSIZE,
         ReservationSuffices, [Next]_vars
  PROVE  ReservationSuffices'
<1>. USE DEF disk, mem, proc
<1>. SUFFICES ASSUME modest' PROVE ~halted' /\ Len(lh') < NLOG  BY Zenon DEF ReservationSuffices
<1>1. Len(lh') < NLOG /\ ~(Len(lh') > LOGSIZE)
  <2>1. Len(lh') < LOGSIZE  BY Zenon
  <2>. QED  BY <2>1 DEF BaseInv, TypeOK
<1>2. ASSUME NEW p \in Procs, LogWriteCheck(p) PROVE ~halted'
  <2>1. InOp \in SUBSET Procs /\ p \in InOp /\ modest  BY ZenonT(40), <1>2 DEF LogWriteCheck, InOp
  <2>2. outstanding > 0  BY Zenon, <2>1, ProcsCounted DEF BaseInv, CountInv
  <2>3. Len(lh) + 2 <= LOGSIZE  BY Zenon, <2>1, SpaceLeft
  <2>4. ~TooBig /\ ~(outstanding < 1)  BY <2>2, <2>3 DEF TooBig, BaseInv, TypeOK
  <2>. QED  BY Zenon, <1>2, <2>4 DEF LogWriteCheck
<1>3. ASSUME NEW p \in Procs, EndOp(p) PROVE ~halted'
  <2>1. p \in InOp  BY Zenon, <1>3 DEF EndOp, InOp
  <2>. QED  BY Zenon, <1>3, <2>1 DEF EndOp, BaseInv, PhaseInv
<1>4. ASSUME NEW p \in Procs, Step(p), ~EndOp(p) PROVE ~halted'
  BY ZenonT(40), <1>1, <1>4
     DEF Step, LogWrite, EndOpDone, ReadHead, WriteLog, WriteHead, InstallTrans, ClearLog
<1>5. ASSUME NEW p \in Procs, BeginOpSleep(p) \/ BeginOp(p) PROVE ~halted'
  BY Zenon, <1>5 DEF BeginOpSleep, BeginOp, ReservationSuffices
<1>6. ASSUME NEW b \in Blocks, Recycle(b) PROVE ~halted'
  BY Zenon, <1>6 DEF Recycle, ReservationSuffices
<1>7. ASSUME Crash PROVE ~halted'  BY Zenon, <1>7 DEF Crash
<1>8. ASSUME UNCHANGED vars PROVE ~halted'  BY Zenon, <1>8 DEF vars, ReservationSuffices
<1>. QED  BY Zenon, <1>1, <1>2, <1>3, <1>4, <1>5, <1>6, <1>7, <1>8 DEF Next

\* With the log that mkfs makes, one sector shorter than begin_op assumes, log_write
\* does not panic and write_log does not leave the log while every operation
\* writes fewer than MAXOPBLOCKS different blocks, across crashes and recoveries.
THEOREM LogSpace == Spec => []ReservationSuffices
<1>1. Init => ReservationSuffices  BY DEF Init, ReservationSuffices
<1>. DEFINE Left == modest => Len(lh) < LOGSIZE
<1>2. BaseInv /\ SpaceInv => Left  BY Zenon, SpaceLeft
<1>3. BaseInv /\ BaseInv' /\ SpaceInv /\ Left' /\ ReservationSuffices /\ [Next]_vars
      => ReservationSuffices'
  BY Zenon, ReservationNext
<1>. HIDE DEF Left
<1>. QED  BY <1>1, <1>2, <1>3, BaseInvariant, SpaceInvariant, PTL DEF Spec
==============================================================================
