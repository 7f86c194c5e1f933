------------------------------ MODULE PipeProofs ------------------------------
(***************************************************************************)
(* Theorems about Pipe, for any writers and readers, any size of the pipe  *)
(* and any point at which its counters wrap around: the page is freed when *)
(* nobody can use it, and the pipe implements ByteStream.                  *)
(***************************************************************************)
EXTENDS Pipe, Integers, SequenceTheorems, TLAPS

------------------------------------------------------------------------------
(* Arithmetic of counters that wrap around. *)

\* A number is its remainder and a multiple of the divisor.
LEMMA DivMod ==
  ASSUME NEW a \in Nat, NEW b \in Nat \ {0}
  PROVE  \E q \in Nat : a = b * q + (a % b) /\ a % b \in 0..(b - 1)
<1>1. a % b \in 0..(b - 1)  OBVIOUS
<1>2. a \div b \in Int  OBVIOUS
<1>3. a = b * (a \div b) + (a % b)  OBVIOUS
<1>4. a \div b \in Nat  BY <1>1, <1>2, <1>3
<1>5. PICK q \in Nat : q = a \div b  BY Zenon, <1>4
<1>6. PICK r \in 0..(b - 1) : r = a % b  BY Zenon, <1>1
<1>7. a = b * q + r  BY Zenon, <1>3, <1>5, <1>6
<1>. QED  BY Zenon, <1>6, <1>7

\* The remainder is the only such number.
LEMMA ModUnique ==
  ASSUME NEW b \in Nat \ {0}, NEW q \in Nat, NEW r \in 0..(b - 1)
  PROVE  (b * q + r) % b = r
OBVIOUS

Divides(b, W) == W % b = 0

\* Adding a multiple of the divisor does not change the remainder.
LEMMA ModPlus ==
  ASSUME NEW b \in Nat \ {0}, NEW x \in Nat, NEW W \in Nat, Divides(b, W)
  PROVE  (x + W) % b = x % b
<1>1. PICK q \in Nat : x = b * q + (x % b) /\ x % b \in 0..(b - 1)  BY Zenon, DivMod
<1>2. PICK m \in Nat : W = b * m
  <2>1. PICK m \in Nat : W = b * m + (W % b)  BY Zenon, DivMod
  <2>2. W = b * m  BY <2>1 DEF Divides
  <2>. QED  BY Zenon, <2>2
<1>3. x + W = b * (q + m) + (x % b)  BY <1>1, <1>2
<1>4. q + m \in Nat  OBVIOUS
<1>5. PICK n \in Nat, r \in 0..(b - 1) : n = q + m /\ r = x % b  BY Zenon, <1>1, <1>4
<1>6. (b * n + r) % b = r  BY Zenon, ModUnique
<1>. QED  BY Zenon, <1>3, <1>5, <1>6

\* Positions of a ring that are less than its size apart are different.
LEMMA ModInj ==
  ASSUME NEW b \in Nat \ {0}, NEW x \in Nat, NEW i \in 0..(b - 1), NEW j \in 0..(b - 1),
         (x + i) % b = (x + j) % b
  PROVE  i = j
<1>0. x + i \in Nat /\ x + j \in Nat  OBVIOUS
<1>1. PICK q \in Nat : x + i = b * q + ((x + i) % b)  BY Zenon, <1>0, DivMod
<1>2. PICK m \in Nat : x + j = b * m + ((x + j) % b)  BY Zenon, <1>0, DivMod
<1>3. i - j = b * (q - m)  BY <1>1, <1>2
<1>4. q = m  BY <1>3
<1>. QED  BY <1>3, <1>4

\* A sum below twice the divisor is reduced by one subtraction.
LEMMA ModOnce ==
  ASSUME NEW W \in Nat \ {0}, NEW a \in Nat, a < 2 * W
  PROVE  a % W \in 0..W - 1 /\ a % W = IF a < W THEN a ELSE a - W
OBVIOUS

\* The distance from one counter to the other, when they wrap around at W.
Dist(W, a, b) == (b + W - a) % W

\* nwrite - nread, computed modulo W.
LEMMA DistIs ==
  ASSUME NEW W \in Nat \ {0}, NEW a \in 0..W - 1, NEW b \in 0..W - 1
  PROVE  Dist(W, a, b) \in 0..W - 1 /\ Dist(W, a, b) = IF a <= b THEN b - a ELSE b + W - a
<1>1. PICK x \in Nat : x = b + W - a /\ x < 2 * W  OBVIOUS
<1>2. x % W = IF x < W THEN x ELSE x - W  BY Zenon, <1>1, ModOnce
<1>. QED  BY <1>1, <1>2 DEF Dist

\* The writer's counter goes on by k.
LEMMA DistPut ==
  ASSUME NEW W \in Nat \ {0}, NEW a \in 0..W - 1, NEW b \in 0..W - 1, NEW k \in Nat,
         Dist(W, a, b) + k < W
  PROVE  (b + k) % W \in 0..W - 1 /\ Dist(W, a, (b + k) % W) = Dist(W, a, b) + k
<1>1. PICK x \in Nat : x = b + k /\ x < 2 * W  BY DistIs
<1>2. PICK c \in 0..W - 1 : c = x % W /\ c = IF x < W THEN x ELSE x - W  BY Zenon, <1>1, ModOnce
<1>3. /\ Dist(W, a, b) = IF a <= b THEN b - a ELSE b + W - a
      /\ Dist(W, a, c) = IF a <= c THEN c - a ELSE c + W - a
  BY Zenon, DistIs
<1>4. Dist(W, a, c) = Dist(W, a, b) + k  BY <1>1, <1>2, <1>3
<1>. QED  BY Zenon, <1>1, <1>2, <1>4

\* The reader's counter goes on by k.
LEMMA DistGet ==
  ASSUME NEW W \in Nat \ {0}, NEW a \in 0..W - 1, NEW b \in 0..W - 1, NEW k \in Nat,
         k <= Dist(W, a, b)
  PROVE  (a + k) % W \in 0..W - 1 /\ Dist(W, (a + k) % W, b) = Dist(W, a, b) - k
<1>1. PICK x \in Nat : x = a + k /\ x < 2 * W  BY DistIs
<1>2. PICK c \in 0..W - 1 : c = x % W /\ c = IF x < W THEN x ELSE x - W  BY Zenon, <1>1, ModOnce
<1>3. /\ Dist(W, a, b) = IF a <= b THEN b - a ELSE b + W - a
      /\ Dist(W, c, b) = IF c <= b THEN b - c ELSE b + W - c
  BY Zenon, DistIs
<1>4. Dist(W, c, b) = Dist(W, a, b) - k  BY <1>1, <1>2, <1>3
<1>. QED  BY Zenon, <1>1, <1>2, <1>4

\* A ring of size N does not notice that a counter wraps around at a multiple
\* of N.
LEMMA RingPos ==
  ASSUME NEW N \in Nat \ {0}, NEW W \in Nat, Divides(N, W),
         NEW c \in Nat, NEW x \in Nat, x = c \/ x = c + W, NEW i \in Nat
  PROVE  (c + i) % N = (x + i) % N
<1>1. CASE c = x  BY Zenon, <1>1
<1>2. CASE x = c + W
  <2>1. PICK y \in Nat : y = c + i  OBVIOUS
  <2>2. (y + W) % N = y % N  BY Zenon, ModPlus
  <2>3. y + W = x + i  BY <1>2, <2>1
  <2>. QED  BY Zenon, <2>1, <2>2, <2>3
<1>. QED  BY Zenon, <1>1, <1>2

\* The place of the writer's counter in the ring, from the reader's.
LEMMA WritePos ==
  ASSUME NEW N \in Nat \ {0}, NEW W \in Nat \ {0}, Divides(N, W),
         NEW a \in 0..W - 1, NEW b \in 0..W - 1
  PROVE  \A i \in Nat : (b + i) % N = (a + Dist(W, a, b) + i) % N
<1>1. PICK d \in 0..W - 1 : d = Dist(W, a, b) /\ d = IF a <= b THEN b - a ELSE b + W - a
  BY Zenon, DistIs
<1>2. PICK x \in Nat : x = a + d  OBVIOUS
<1>3. x = b \/ x = b + W  BY <1>1, <1>2
<1>4. b \in Nat /\ W \in Nat  OBVIOUS
<1>5. \A i \in Nat : (b + i) % N = (x + i) % N  BY <1>3, <1>4, RingPos
<1>. QED  BY Zenon, <1>1, <1>2, <1>5

\* The place of the reader's counter after it has gone on by k.
LEMMA ReadPos ==
  ASSUME NEW N \in Nat \ {0}, NEW W \in Nat \ {0}, Divides(N, W),
         NEW a \in 0..W - 1, NEW k \in 0..W - 1
  PROVE  \A i \in Nat : (((a + k) % W) + i) % N = (a + k + i) % N
<1>1. PICK x \in Nat : x = a + k /\ x < 2 * W  OBVIOUS
<1>2. PICK c \in 0..W - 1 : c = x % W /\ c = IF x < W THEN x ELSE x - W  BY Zenon, <1>1, ModOnce
<1>3. x = c \/ x = c + W  BY <1>2
<1>4. c \in Nat /\ W \in Nat  OBVIOUS
<1>5. \A i \in Nat : (c + i) % N = (x + i) % N  BY <1>3, <1>4, RingPos
<1>. QED  BY Zenon, <1>1, <1>2, <1>5

------------------------------------------------------------------------------
(* The ring as a sequence: u bytes of d from place a on. *)

Ring(N, a, u, d) == [i \in 1..u |-> d[(a + i - 1) % N]]

\* The bytes between the counters, read out of the ring.
LEMMA RingSeq ==
  ASSUME NEW N \in Nat \ {0}, NEW a \in Nat, NEW u \in Nat, NEW d \in [0..N - 1 -> Bytes]
  PROVE  /\ Ring(N, a, u, d) \in Seq(Bytes) /\ Len(Ring(N, a, u, d)) = u
         /\ \A i \in 1..u : Ring(N, a, u, d)[i] = d[(a + i - 1) % N]
<1>1. \A i \in 1..u : (a + i - 1) % N \in 0..N - 1  OBVIOUS
<1>2. Ring(N, a, u, d) \in [1..u -> Bytes]  BY Zenon, <1>1 DEF Ring
<1>. QED  BY <1>2 DEF Ring

\* The ring d after the first k bytes of s were written to it from place b on.
Filled(N, b, k, s, d) ==
  [i \in 0..N - 1 |->
     IF \E j \in 1..k : i = (b + j - 1) % N
     THEN s[CHOOSE j \in 1..k : i = (b + j - 1) % N] ELSE d[i]]

\* What pipewrite leaves in the ring: the bytes that were there, and behind them
\* the first k of s.
LEMMA RingPut ==
  ASSUME NEW N \in Nat \ {0}, NEW W \in Nat \ {0}, Divides(N, W), N < W,
         NEW a \in 0..W - 1, NEW b \in 0..W - 1,
         NEW d \in [0..N - 1 -> Bytes], NEW s \in Seq(Bytes),
         NEW k \in 0..Len(s), Dist(W, a, b) + k <= N
  PROVE  /\ Filled(N, b, k, s, d) \in [0..N - 1 -> Bytes]
         /\ Ring(N, a, Dist(W, a, b) + k, Filled(N, b, k, s, d))
              = Ring(N, a, Dist(W, a, b), d) \o SubSeq(s, 1, k)
<1>0. PICK e : e = Filled(N, b, k, s, d)  BY Zenon
<1>. DEFINE At(j) == (b + j - 1) % N
            Chosen(i) == CHOOSE j \in 1..k : i = At(j)
            t == SubSeq(s, 1, k)
<1>1. Dist(W, a, b) \in 0..W - 1  BY Zenon, DistIs
<1>2. PICK u \in Nat : u = Dist(W, a, b) /\ u + k <= N  BY <1>1
<1>3. \A i \in Nat : (b + i) % N = (a + u + i) % N
  <2>1. \A i \in Nat : (b + i) % N = (a + Dist(W, a, b) + i) % N  BY Zenon, WritePos
  <2>. QED  BY Zenon, <1>2, <2>1
<1>4. \A j \in 1..k : At(j) = (a + (u + j) - 1) % N /\ At(j) \in 0..N - 1
  <2>. SUFFICES ASSUME NEW j \in 1..k
                PROVE  At(j) = (a + (u + j) - 1) % N /\ At(j) \in 0..N - 1
    BY Zenon
  <2>1. PICK i \in Nat : i = j - 1  OBVIOUS
  <2>2. (b + i) % N = (a + u + i) % N  BY Zenon, <1>3
  <2>3. b + i = b + j - 1 /\ a + u + i = a + (u + j) - 1  BY <2>1
  <2>4. PICK y \in Nat : y = b + i  OBVIOUS
  <2>5. y % N \in 0..N - 1  OBVIOUS
  <2>6. At(j) = (b + i) % N  BY Zenon, <2>3
  <2>7. (a + u + i) % N = (a + (u + j) - 1) % N  BY Zenon, <2>3
  <2>. HIDE DEF At
  <2>. QED  BY Zenon, <2>2, <2>4, <2>5, <2>6, <2>7
<1>5. \A i, j \in 1..u + k : (a + i - 1) % N = (a + j - 1) % N => i = j
  <2>. SUFFICES ASSUME NEW i \in 1..u + k, NEW j \in 1..u + k, (a + i - 1) % N = (a + j - 1) % N
                PROVE  i = j
    BY Zenon
  <2>1. PICK x \in 0..N - 1, y \in 0..N - 1 : x = i - 1 /\ y = j - 1  BY <1>2
  <2>2. (a + x) % N = (a + y) % N
    <3>1. a + x = a + i - 1 /\ a + y = a + j - 1  BY Zenon, <2>1
    <3>. QED  BY Zenon, <3>1
  <2>3. a \in Nat  OBVIOUS
  <2>4. x = y  BY Zenon, <2>2, <2>3, ModInj
  <2>. QED  BY <2>1, <2>4
<1>6. \A i : (\E j \in 1..k : i = At(j)) => Chosen(i) \in 1..k /\ i = At(Chosen(i))
  <2>. HIDE DEF At
  <2>. QED  BY Zenon
<1>7. e = [i \in 0..N - 1 |-> IF \E j \in 1..k : i = At(j) THEN s[Chosen(i)] ELSE d[i]]
  BY Zenon, <1>0 DEF Filled
<1>8. \A j \in 1..k : Chosen(At(j)) = j
  <2>. SUFFICES ASSUME NEW j \in 1..k  PROVE Chosen(At(j)) = j
    BY Zenon
  <2>. HIDE DEF At, Chosen
  <2>1. PICK c \in 1..k : c = Chosen(At(j)) /\ At(j) = At(c)  BY Zenon, <1>6
  <2>2. u + j \in 1..u + k /\ u + c \in 1..u + k  OBVIOUS
  <2>3. (a + (u + j) - 1) % N = (a + (u + c) - 1) % N  BY Zenon, <1>4, <2>1
  <2>4. u + j = u + c  BY Zenon, <1>5, <2>2, <2>3
  <2>. QED  BY <2>1, <2>4
<1>. HIDE DEF At, Chosen
<1>9. e \in [0..N - 1 -> Bytes]  BY <1>6, <1>7
<1>10. \A j \in 1..k : e[(a + (u + j) - 1) % N] = s[j]  BY Zenon, <1>4, <1>7, <1>8
<1>11. \A i \in 1..u : e[(a + i - 1) % N] = d[(a + i - 1) % N]
  <2>. SUFFICES ASSUME NEW i \in 1..u  PROVE e[(a + i - 1) % N] = d[(a + i - 1) % N]
    BY Zenon
  <2>0. PICK y \in Nat : y = a + i - 1  OBVIOUS
  <2>1. PICK x \in 0..N - 1 : x = (a + i - 1) % N
    <3>1. y % N \in 0..N - 1  OBVIOUS
    <3>. QED  BY Zenon, <2>0, <3>1
  <2>2. ASSUME NEW j \in 1..k, x = At(j)  PROVE FALSE
    <3>1. i \in 1..u + k /\ u + j \in 1..u + k  OBVIOUS
    <3>2. (a + i - 1) % N = (a + (u + j) - 1) % N  BY Zenon, <1>4, <2>1, <2>2
    <3>3. i = u + j  BY Zenon, <1>5, <3>1, <3>2
    <3>. QED  BY <3>3
  <2>. QED  BY Zenon, <1>7, <2>1, <2>2
<1>12. a \in Nat /\ u + k \in Nat  OBVIOUS
<1>13. /\ Ring(N, a, u, d) \in Seq(Bytes) /\ Len(Ring(N, a, u, d)) = u
       /\ \A i \in 1..u : Ring(N, a, u, d)[i] = d[(a + i - 1) % N]
  BY Zenon, <1>12, RingSeq
<1>14. t \in Seq(Bytes) /\ Len(t) = k /\ \A j \in 1..k : t[j] = s[j]  OBVIOUS
<1>15. PICK r \in Seq(Bytes), v \in Seq(Bytes) : r = Ring(N, a, u, d) /\ v = t
  BY Zenon, <1>13, <1>14
<1>16. Ring(N, a, u + k, e) = r \o v
  <2>1. \A i \in 1..u + k : (r \o v)[i] = IF i <= u THEN r[i] ELSE v[i - u]
    BY SMTT(30), <1>13, <1>14, <1>15
  <2>2. \A i \in 1..u + k : e[(a + i - 1) % N] = IF i <= u THEN r[i] ELSE v[i - u]
    <3>. SUFFICES ASSUME NEW i \in 1..u + k
                  PROVE  e[(a + i - 1) % N] = IF i <= u THEN r[i] ELSE v[i - u]
      BY Zenon
    <3>1. CASE i <= u
      <4>1. i \in 1..u  BY <3>1
      <4>. QED  BY Zenon, <1>11, <1>13, <1>15, <3>1, <4>1
    <3>2. CASE ~(i <= u)
      <4>1. PICK j \in 1..k : i = u + j /\ j = i - u  BY <3>2
      <4>2. e[(a + (u + j) - 1) % N] = s[j] /\ v[j] = s[j]  BY Zenon, <1>10, <1>14, <1>15
      <4>. QED  BY Zenon, <3>2, <4>1, <4>2
    <3>. QED  BY Zenon, <3>1, <3>2
  <2>3. Ring(N, a, u + k, e) = [i \in 1..u + k |-> (r \o v)[i]]  BY Zenon, <2>1, <2>2 DEF Ring
  <2>4. r \o v \in Seq(Bytes) /\ Len(r \o v) = u + k
    BY Zenon, <1>13, <1>14, <1>15, ConcatProperties
  <2>5. PICK z \in Seq(Bytes) : z = r \o v /\ Len(z) = u + k  BY Zenon, <2>4
  <2>6. z = [i \in 1..Len(z) |-> z[i]]  OBVIOUS
  <2>. QED  BY Zenon, <2>3, <2>5, <2>6
<1>. QED  BY Zenon, <1>0, <1>2, <1>9, <1>15, <1>16

\* What piperead leaves in the ring: the bytes behind the first k.
LEMMA RingGet ==
  ASSUME NEW N \in Nat \ {0}, NEW W \in Nat \ {0}, Divides(N, W), N < W,
         NEW a \in 0..W - 1, NEW u \in 0..N, NEW k \in 0..u,
         NEW d \in [0..N - 1 -> Bytes]
  PROVE  Ring(N, (a + k) % W, u - k, d) = SubSeq(Ring(N, a, u, d), k + 1, u)
<1>1. k \in 0..W - 1 /\ a \in Nat /\ u - k \in Nat /\ u \in Nat  OBVIOUS
<1>2. \A i \in Nat : (((a + k) % W) + i) % N = (a + k + i) % N  BY Zenon, <1>1, ReadPos
<1>3. PICK c \in Nat : c = (a + k) % W  OBVIOUS
<1>4. \A i \in 1..u - k : (c + i - 1) % N = (a + (k + i) - 1) % N
  <2>. SUFFICES ASSUME NEW i \in 1..u - k
                PROVE  (c + i - 1) % N = (a + (k + i) - 1) % N
    BY Zenon
  <2>1. PICK j \in Nat : j = i - 1  OBVIOUS
  <2>2. (c + j) % N = (a + k + j) % N  BY Zenon, <1>2, <1>3
  <2>3. c + j = c + i - 1 /\ a + k + j = a + (k + i) - 1  BY <2>1
  <2>. QED  BY Zenon, <2>2, <2>3
<1>5. /\ Ring(N, a, u, d) \in Seq(Bytes) /\ Len(Ring(N, a, u, d)) = u
      /\ \A i \in 1..u : Ring(N, a, u, d)[i] = d[(a + i - 1) % N]
  BY ZenonT(30), <1>1, RingSeq
<1>6. PICK r \in Seq(Bytes) : r = Ring(N, a, u, d)  BY Zenon, <1>5
<1>7. SubSeq(r, k + 1, u) = [i \in 1..u - k |-> r[k + i]]  BY <1>5, <1>6
<1>8. \A i \in 1..u - k : r[k + i] = d[(c + i - 1) % N]
  <2>. SUFFICES ASSUME NEW i \in 1..u - k  PROVE r[k + i] = d[(c + i - 1) % N]
    BY Zenon
  <2>1. PICK j \in 1..u : j = k + i  OBVIOUS
  <2>. QED  BY Zenon, <1>4, <1>5, <1>6, <2>1
<1>9. Ring(N, c, u - k, d) = [i \in 1..u - k |-> r[k + i]]  BY Zenon, <1>8 DEF Ring
<1>. QED  BY Zenon, <1>3, <1>6, <1>7, <1>9

------------------------------------------------------------------------------
(* The pipe. *)

\* What the proofs use of the sizes.
LEMMA Sizes ==
  /\ PIPESIZE \in Nat \ {0} /\ Wrap \in Nat \ {0}
  /\ Divides(PIPESIZE, Wrap) /\ PIPESIZE < Wrap
BY PipeAssumption DEF Divides

\* What the proofs use of the sets of processes.
LEMMA Sets ==
  /\ Writers \cap Readers = {} /\ None \notin Users /\ Killable \subseteq Users
  /\ MaxCount \in Nat
BY Zenon, PipeAssumption

\* The states of a process.
States == {"idle", "call", "copy", "full", "doze", "asleep", "woken"}

\* The pipe as a ring.
LEMMA AsRing ==
  /\ Used = Dist(Wrap, nread, nwrite)
  /\ Content = Ring(PIPESIZE, nread, Used, data)
BY Zenon DEF Used, Dist, Content, Ring

\* The room of the pipe and what a writer copies.
Room == PIPESIZE - Used
Fits(n, m) == IF n <= m THEN n ELSE m

\* pipewrite's loop, on the counters and on the ring.
LEMMA Copied ==
  ASSUME IInv, NEW w \in Writers, WriteCopy(w),
         NEW k, k = Fits(Len(todo[w]), Room)
  PROVE  /\ k \in 0..Len(todo[w]) /\ Used + k <= PIPESIZE
         /\ nwrite' \in 0..Wrap - 1 /\ Used' = Used + k
         /\ data' \in [0..PIPESIZE - 1 -> Bytes]
         /\ Content' = Content \o SubSeq(todo[w], 1, k)
<1>0. /\ data \in [0..PIPESIZE - 1 -> Bytes] /\ nread \in 0..Wrap - 1
      /\ nwrite \in 0..Wrap - 1 /\ Used \in 0..PIPESIZE /\ todo[w] \in Seq(Bytes)
  BY Zenon DEF IInv, TypeOK
<1>1. /\ data' = [i \in DOMAIN data |->
                   IF \E j \in 1..k : i = (nwrite + j - 1) % PIPESIZE
                   THEN todo[w][CHOOSE j \in 1..k : i = (nwrite + j - 1) % PIPESIZE]
                   ELSE data[i]]
      /\ nwrite' = (nwrite + k) % Wrap /\ nread' = nread
  BY DEF WriteCopy, Fits, Room
<1>2. k \in 0..Len(todo[w]) /\ Used + k <= PIPESIZE  BY <1>0, Sizes DEF Fits, Room
<1>3. PICK u \in Nat : u = Used /\ u = Dist(Wrap, nread, nwrite) /\ u + k <= PIPESIZE
  BY <1>0, <1>2, AsRing
<1>4. k \in Nat /\ Dist(Wrap, nread, nwrite) + k < Wrap  BY <1>0, <1>2, <1>3, Sizes
<1>5. (nwrite + k) % Wrap \in 0..Wrap - 1
      /\ Dist(Wrap, nread, (nwrite + k) % Wrap) = Dist(Wrap, nread, nwrite) + k
  BY ZenonT(30), <1>0, <1>4, Sizes, DistPut
<1>7. Used' = u + k  BY Zenon, <1>1, <1>3, <1>5 DEF Used, Dist
<1>8. /\ data' \in [0..PIPESIZE - 1 -> Bytes]
      /\ Ring(PIPESIZE, nread, Dist(Wrap, nread, nwrite) + k, data')
           = Ring(PIPESIZE, nread, Dist(Wrap, nread, nwrite), data) \o SubSeq(todo[w], 1, k)
  <2>1. Dist(Wrap, nread, nwrite) + k <= PIPESIZE  BY Zenon, <1>3
  <2>2. data' = Filled(PIPESIZE, nwrite, k, todo[w], data)  BY Zenon, <1>0, <1>1 DEF Filled
  <2>3. \A N \in Nat \ {0}, W \in Nat \ {0} : Divides(N, W) /\ N < W =>
          \A a, b \in 0..W - 1, d \in [0..N - 1 -> Bytes], s \in Seq(Bytes) : \A j \in 0..Len(s) :
             Dist(W, a, b) + j <= N =>
               /\ Filled(N, b, j, s, d) \in [0..N - 1 -> Bytes]
               /\ Ring(N, a, Dist(W, a, b) + j, Filled(N, b, j, s, d))
                    = Ring(N, a, Dist(W, a, b), d) \o SubSeq(s, 1, j)
    BY Zenon, RingPut
  <2>4. \A a, b \in 0..Wrap - 1, d \in [0..PIPESIZE - 1 -> Bytes], s \in Seq(Bytes) : \A j \in 0..Len(s) :
           Dist(Wrap, a, b) + j <= PIPESIZE =>
             /\ Filled(PIPESIZE, b, j, s, d) \in [0..PIPESIZE - 1 -> Bytes]
             /\ Ring(PIPESIZE, a, Dist(Wrap, a, b) + j, Filled(PIPESIZE, b, j, s, d))
                  = Ring(PIPESIZE, a, Dist(Wrap, a, b), d) \o SubSeq(s, 1, j)
    BY Zenon, <2>3, Sizes
  <2>. QED  BY ZenonT(30), <1>0, <1>2, <2>1, <2>2, <2>4
<1>9. Content' = Ring(PIPESIZE, nread, u + k, data')  BY <1>1, <1>7 DEF Content, Ring
<1>10. Content = Ring(PIPESIZE, nread, u, data)  BY Zenon, <1>3, AsRing
<1>. QED  BY Zenon, <1>1, <1>2, <1>3, <1>5, <1>7, <1>8, <1>9, <1>10

\* piperead's loop, on the counters and on the ring.
LEMMA Fetched ==
  ASSUME IInv, NEW r \in Readers, ReadCopy(r),
         NEW k, k = Fits(Used, want[r])
  PROVE  /\ k \in 0..Used /\ Used \in 0..PIPESIZE
         /\ nread' \in 0..Wrap - 1 /\ Used' = Used - k
         /\ Content \in Seq(Bytes) /\ Len(Content) = Used
         /\ Content' = SubSeq(Content, k + 1, Used)
<1>0. /\ data \in [0..PIPESIZE - 1 -> Bytes] /\ nread \in 0..Wrap - 1
      /\ nwrite \in 0..Wrap - 1 /\ Used \in 0..PIPESIZE /\ want[r] \in 0..MaxCount
  BY Zenon DEF IInv, TypeOK
<1>1. nread' = (nread + k) % Wrap /\ nwrite' = nwrite /\ data' = data
  BY Zenon DEF ReadCopy, Fits
<1>2. k \in 0..Used  BY <1>0, Sets DEF Fits
<1>3. PICK u \in 0..PIPESIZE : u = Used /\ u = Dist(Wrap, nread, nwrite)
  BY Zenon, <1>0, AsRing
<1>4. k \in Nat /\ k <= Dist(Wrap, nread, nwrite) /\ k \in 0..u  BY <1>0, <1>2, <1>3, Sizes
<1>5. (nread + k) % Wrap \in 0..Wrap - 1
      /\ Dist(Wrap, (nread + k) % Wrap, nwrite) = Dist(Wrap, nread, nwrite) - k
  BY ZenonT(30), <1>0, <1>4, Sizes, DistGet
<1>7. Used' = u - k  BY Zenon, <1>1, <1>3, <1>5 DEF Used, Dist
<1>8. Ring(PIPESIZE, (nread + k) % Wrap, u - k, data) = SubSeq(Ring(PIPESIZE, nread, u, data), k + 1, u)
  <2>1. nread \in 0..Wrap - 1 /\ k \in 0..u /\ data \in [0..PIPESIZE - 1 -> Bytes]  BY Zenon, <1>0, <1>4
  <2>2. \A N \in Nat \ {0}, W \in Nat \ {0} : Divides(N, W) /\ N < W =>
          \A a \in 0..W - 1, v \in 0..N : \A j \in 0..v, d \in [0..N - 1 -> Bytes] :
             Ring(N, (a + j) % W, v - j, d) = SubSeq(Ring(N, a, v, d), j + 1, v)
    BY Zenon, RingGet
  <2>3. \A a \in 0..Wrap - 1, v \in 0..PIPESIZE : \A j \in 0..v, d \in [0..PIPESIZE - 1 -> Bytes] :
             Ring(PIPESIZE, (a + j) % Wrap, v - j, d) = SubSeq(Ring(PIPESIZE, a, v, d), j + 1, v)
    BY Zenon, <2>2, Sizes
  <2>. QED  BY Zenon, <2>1, <2>3
<1>9. Content' = Ring(PIPESIZE, (nread + k) % Wrap, u - k, data)  BY Zenon, <1>1, <1>7 DEF Content, Ring
<1>10. Content = Ring(PIPESIZE, nread, u, data)  BY Zenon, <1>3, AsRing
<1>11. Content \in Seq(Bytes) /\ Len(Content) = u
  <2>1. nread \in Nat /\ u \in Nat  BY <1>0, Sizes
  <2>. QED  BY <1>0, <1>10, <2>1, Sizes, RingSeq
<1>. QED  BY Zenon, <1>0, <1>1, <1>2, <1>3, <1>5, <1>7, <1>8, <1>9, <1>10, <1>11

------------------------------------------------------------------------------
(* The invariant. *)

\* p goes to where, and of the others none begins or ends a call.
Moves(p, where) ==
  /\ pc' \in [Users -> States] /\ pc'[p] = where
  /\ \A q \in Users \ {p} : pc'[q] = "idle" <=> pc[q] = "idle"

\* Goto and Wake move one process and make others runnable.
LEMMA MovesTo ==
  ASSUME pc \in [Users -> States], NEW p \in Users, NEW where \in States,
         Goto(p, where) \/ \E S \in SUBSET Users : Wake(S, p, where)
  PROVE  Moves(p, where)
<1>1. CASE Goto(p, where)  BY Zenon, <1>1 DEF Goto, Moves, States
<1>2. ASSUME NEW S \in SUBSET Users, Wake(S, p, where)  PROVE Moves(p, where)
  BY Zenon, <1>2 DEF Wake, Moves, States
<1>. QED  BY Zenon, <1>1, <1>2

\* What is left of a sequence.
LEMMA RestSeq ==
  ASSUME NEW s \in Seq(Bytes), NEW k \in 0..Len(s)
  PROVE  /\ SubSeq(s, k + 1, Len(s)) \in Seq(Bytes)
         /\ Len(SubSeq(s, k + 1, Len(s))) = Len(s) - k
<1>1. SubSeq(s, k + 1, Len(s)) = [i \in 1..Len(s) - k |-> s[k + i]]  OBVIOUS
<1>2. \A i \in 1..Len(s) - k : s[k + i] \in Bytes  OBVIOUS
<1>3. PICK m \in Nat : m = Len(s) - k  OBVIOUS
<1>4. [i \in 1..m |-> s[k + i]] \in Seq(Bytes) /\ Len([i \in 1..m |-> s[k + i]]) = m
  BY <1>2, <1>3
<1>. QED  BY Zenon, <1>1, <1>3, <1>4

\* The invariant holds for a new pipe.
LEMMA PipeInit == Init => IInv
<1>. SUFFICES ASSUME Init  PROVE IInv
  BY Zenon
<1>1. Used \in 0..PIPESIZE
  <2>1. nread = 0 /\ nwrite = 0 /\ 0 \in 0..Wrap - 1  BY Sizes DEF Init
  <2>2. Dist(Wrap, 0, 0) = 0  BY <2>1, Sizes, DistIs
  <2>. QED  BY <2>1, <2>2, AsRing, Sizes
<1>2. TypeOK  BY <1>1, Sizes, Sets DEF Init, TypeOK
<1>. QED  BY <1>2, Sets DEF Init, IInv, EndInv, CallInv, Users

\* A step that leaves the ring alone.
LEMMA RingFrame ==
  ASSUME IInv, UNCHANGED <<data, nread, nwrite>>
  PROVE  /\ data' \in [0..PIPESIZE - 1 -> Bytes]
         /\ nread' \in 0..Wrap - 1 /\ nwrite' \in 0..Wrap - 1 /\ Used' \in 0..PIPESIZE
         /\ Content' = Content
<1>1. Used' = Used  BY Zenon DEF Used
<1>. QED  BY Zenon, <1>1 DEF IInv, TypeOK, Content

\* A process takes the lock of the pipe.
LEMMA PipeAcquire == ASSUME IInv, NEW p \in Users, Acquire(p)  PROVE IInv'
<1>1. Moves(p, "copy")  BY Zenon, MovesTo DEF Acquire, IInv, TypeOK, States
<1>2. TypeOK'  BY Zenon, <1>1, RingFrame DEF Acquire, IInv, TypeOK, pipe, Moves, States
<1>3. EndInv'  BY Zenon DEF Acquire, IInv, EndInv, pipe
<1>4. CallInv'  BY Zenon, <1>1 DEF Acquire, IInv, CallInv, Moves, Users
<1>. QED  BY Zenon, <1>2, <1>3, <1>4 DEF Acquire, IInv, pipe

\* A process that dozes falls asleep, and gives up the lock.
LEMMA PipeSleep == ASSUME IInv, NEW p \in Users, Sleep(p)  PROVE IInv'
<1>1. Moves(p, "asleep")  BY Zenon, MovesTo DEF Sleep, IInv, TypeOK, States
<1>2. TypeOK'  BY Zenon, <1>1, RingFrame DEF Sleep, IInv, TypeOK, pipe, Moves, States
<1>3. EndInv'  BY Zenon DEF Sleep, IInv, EndInv, pipe
<1>4. CallInv'  BY Zenon, <1>1 DEF Sleep, IInv, CallInv, Moves, Users
<1>. QED  BY Zenon, <1>2, <1>3, <1>4 DEF Sleep, IInv, pipe

\* write calls pipewrite.
LEMMA PipeWriteCall == ASSUME IInv, NEW w \in Writers, WriteCall(w)  PROVE IInv'
<1>0. w \in Users  BY Zenon DEF Users
<1>1. Moves(w, "call")  BY Zenon, <1>0, MovesTo DEF WriteCall, IInv, TypeOK, States
<1>n. PICK n \in 1..MaxCount : \E s \in [1..n -> Bytes] : todo' = [todo EXCEPT ![w] = s]
  BY Zenon DEF WriteCall
<1>2. PICK s \in [1..n -> Bytes] : todo' = [todo EXCEPT ![w] = s]  BY Zenon, <1>n
<1>3. n \in Nat /\ n <= MaxCount  BY <1>2, Sets
<1>4. s \in Seq(Bytes) /\ Len(s) <= MaxCount  BY <1>2, <1>3
<1>5. /\ todo' \in [Writers -> Seq(Bytes)] /\ \A v \in Writers : Len(todo'[v]) <= MaxCount
      /\ \A v \in Writers \ {w} : todo'[v] = todo[v]
  BY Zenon, <1>2, <1>4 DEF IInv, TypeOK
<1>6. TypeOK'  BY Zenon, <1>1, <1>5, RingFrame DEF WriteCall, IInv, TypeOK, pipe, Moves, States
<1>7. EndInv'  BY Zenon DEF WriteCall, IInv, EndInv, pipe
<1>8. CallInv'  BY Zenon, <1>0, <1>1, <1>5, Sets DEF WriteCall, IInv, CallInv, Moves, Users
<1>. QED  BY Zenon, <1>5, <1>6, <1>7, <1>8 DEF WriteCall, IInv, pipe

\* pipewrite copies what there is room for.
LEMMA PipeWriteCopy == ASSUME IInv, NEW w \in Writers, WriteCopy(w)  PROVE IInv'
<1>0. w \in Users /\ pc \in [Users -> States] /\ Readers \in SUBSET Users
  BY Zenon DEF Users, IInv, TypeOK, States
<1>1. PICK k : k = Fits(Len(todo[w]), Room)  BY Zenon
<1>2. /\ k \in 0..Len(todo[w]) /\ Used + k <= PIPESIZE
      /\ nwrite' \in 0..Wrap - 1 /\ Used' = Used + k
      /\ data' \in [0..PIPESIZE - 1 -> Bytes]
  BY Zenon, <1>1, Copied
<1>3. /\ todo' = [todo EXCEPT ![w] = SubSeq(todo[w], k + 1, Len(todo[w]))]
      /\ IF k = Len(todo[w]) THEN Wake(Readers, w, "idle") /\ lock' = None
         ELSE Goto(w, "full") /\ UNCHANGED lock
      /\ pc[w] = "copy"
      /\ UNCHANGED <<nread, readopen, writeopen, freed, open, want, got, killed>>
  BY Zenon, <1>1 DEF WriteCopy, Fits, Room, Return
<1>4. todo \in [Writers -> Seq(Bytes)] /\ todo[w] \in Seq(Bytes) /\ Len(todo[w]) <= MaxCount
  BY Zenon DEF IInv, TypeOK
<1>5. PICK s \in Seq(Bytes) : /\ s = SubSeq(todo[w], k + 1, Len(todo[w]))
                              /\ Len(s) = Len(todo[w]) - k
  BY Zenon, <1>2, <1>4, RestSeq
<1>6. Len(s) <= MaxCount /\ (k = Len(todo[w]) => s = <<>>)  BY <1>2, <1>4, <1>5, Sets
<1>7. /\ todo' \in [Writers -> Seq(Bytes)] /\ \A v \in Writers : Len(todo'[v]) <= MaxCount
      /\ \A v \in Writers \ {w} : todo'[v] = todo[v]
      /\ todo'[w] = s
  BY Zenon, <1>3, <1>5, <1>6 DEF IInv, TypeOK
<1>8. Used' \in 0..PIPESIZE  BY <1>2, <1>4, Sizes DEF IInv, TypeOK
<1>9. \/ Moves(w, "idle") /\ k = Len(todo[w]) /\ lock' = None
      \/ Moves(w, "full") /\ lock' = lock
  BY Zenon, <1>0, <1>3, MovesTo DEF States
<1>10. pc' \in [Users -> States] /\ lock' \in Users \cup {None}
  BY Zenon, <1>9 DEF Moves, IInv, TypeOK
<1>11. TypeOK'  BY Zenon, <1>2, <1>3, <1>7, <1>8, <1>10 DEF IInv, TypeOK, States
<1>12. EndInv'  BY Zenon, <1>3 DEF IInv, EndInv
<1>13. CallInv'  BY Zenon, <1>0, <1>3, <1>6, <1>7, <1>9, Sets DEF IInv, CallInv, Moves, Users
<1>. QED  BY Zenon, <1>3, <1>7, <1>11, <1>12, <1>13 DEF IInv

\* pipewrite finds the pipe full.
LEMMA PipeWriteFull == ASSUME IInv, NEW w \in Writers, WriteFull(w)  PROVE IInv'
<1>0. w \in Users /\ pc \in [Users -> States] /\ Readers \in SUBSET Users
  BY Zenon DEF Users, IInv, TypeOK, States
<1>1. \/ Moves(w, "idle") /\ lock' = None /\ todo' = [todo EXCEPT ![w] = <<>>]
      \/ Moves(w, "doze") /\ lock' = lock /\ todo' = todo
  BY Zenon, <1>0, MovesTo DEF WriteFull, Return, States
<1>2. /\ todo' \in [Writers -> Seq(Bytes)] /\ \A v \in Writers : Len(todo'[v]) <= MaxCount
      /\ \A v \in Writers \ {w} : todo'[v] = todo[v]
      /\ pc'[w] = "idle" => todo'[w] = <<>>
  <2>1. <<>> \in Seq(Bytes) /\ Len(<<>>) = 0 /\ 0 <= MaxCount  BY Sets
  <2>2. todo \in [Writers -> Seq(Bytes)] /\ \A v \in Writers : Len(todo[v]) <= MaxCount
    BY Zenon DEF IInv, TypeOK
  <2>3. CASE todo' = [todo EXCEPT ![w] = <<>>]  BY Zenon, <2>1, <2>2, <2>3
  <2>4. CASE todo' = todo /\ Moves(w, "doze")  BY Zenon, <2>2, <2>4 DEF Moves
  <2>. QED  BY Zenon, <1>1, <2>3, <2>4
<1>3. TypeOK'  BY Zenon, <1>1, <1>2, RingFrame DEF WriteFull, IInv, TypeOK, pipe, Moves, States
<1>4. EndInv'  BY Zenon DEF WriteFull, IInv, EndInv, pipe
<1>5. CallInv'  BY Zenon, <1>0, <1>1, <1>2, Sets DEF WriteFull, IInv, CallInv, Moves, Users
<1>. QED  BY Zenon, <1>2, <1>3, <1>4, <1>5 DEF WriteFull, IInv, pipe

\* read calls piperead.
LEMMA PipeReadCall == ASSUME IInv, NEW r \in Readers, ReadCall(r)  PROVE IInv'
<1>0. r \in Users  BY Zenon DEF Users
<1>1. Moves(r, "call")  BY Zenon, <1>0, MovesTo DEF ReadCall, IInv, TypeOK, States
<1>2. PICK n \in 1..MaxCount : want' = [want EXCEPT ![r] = n]  BY Zenon DEF ReadCall
<1>3. want' \in [Readers -> 0..MaxCount] /\ want'[r] # 0 /\ \A q \in Readers \ {r} : want'[q] = want[q]
  BY <1>2, Sets DEF IInv, TypeOK
<1>4. TypeOK'  BY Zenon, <1>1, <1>3, RingFrame DEF ReadCall, IInv, TypeOK, pipe, Moves, States
<1>5. EndInv'  BY Zenon DEF ReadCall, IInv, EndInv, pipe
<1>6. CallInv'  BY Zenon, <1>0, <1>1, <1>3, Sets DEF ReadCall, IInv, CallInv, Moves, Users
<1>. QED  BY Zenon, <1>4, <1>5, <1>6 DEF ReadCall, IInv, pipe

\* piperead finds the pipe empty.
LEMMA PipeReadEmpty == ASSUME IInv, NEW r \in Readers, ReadEmpty(r)  PROVE IInv'
<1>0. r \in Users /\ pc \in [Users -> States]  BY Zenon DEF Users, IInv, TypeOK, States
<1>1. \/ Moves(r, "idle") /\ lock' = None /\ want' = [want EXCEPT ![r] = 0]
      \/ Moves(r, "doze") /\ lock' = lock /\ want' = want
  BY Zenon, <1>0, MovesTo DEF ReadEmpty, Return, States
<1>2. want' \in [Readers -> 0..MaxCount] /\ \A q \in Readers \ {r} : want'[q] = want[q]
  BY <1>1, Sets DEF IInv, TypeOK
<1>3. TypeOK'  BY Zenon, <1>1, <1>2, RingFrame DEF ReadEmpty, IInv, TypeOK, pipe, Moves, States
<1>4. EndInv'  BY Zenon DEF ReadEmpty, IInv, EndInv, pipe
<1>5. CallInv'  BY Zenon, <1>0, <1>1, <1>2, Sets DEF ReadEmpty, IInv, CallInv, Moves, Users
<1>. QED  BY Zenon, <1>3, <1>4, <1>5 DEF ReadEmpty, IInv, pipe

\* piperead copies what there is.
LEMMA PipeReadCopy == ASSUME IInv, NEW r \in Readers, ReadCopy(r)  PROVE IInv'
<1>0. r \in Users /\ pc \in [Users -> States] /\ Writers \in SUBSET Users
  BY Zenon DEF Users, IInv, TypeOK, States
<1>1. PICK k : k = Fits(Used, want[r])  BY Zenon
<1>2. /\ k \in 0..Used /\ Used \in 0..PIPESIZE /\ nread' \in 0..Wrap - 1 /\ Used' = Used - k
  BY Zenon, <1>1, Fetched
<1>3. Moves(r, "idle") /\ lock' = None  BY Zenon, <1>0, MovesTo DEF ReadCopy, Return, States
<1>4. want' \in [Readers -> 0..MaxCount] /\ \A q \in Readers \ {r} : want'[q] = want[q]
  BY Sets DEF ReadCopy, IInv, TypeOK
<1>5. Used' \in 0..PIPESIZE  BY <1>2, Sizes
<1>6. TypeOK'  BY Zenon, <1>2, <1>3, <1>4, <1>5 DEF ReadCopy, IInv, TypeOK, Moves, States
<1>7. EndInv'  BY Zenon DEF ReadCopy, IInv, EndInv
<1>8. CallInv'  BY Zenon, <1>0, <1>3, <1>4, Sets DEF ReadCopy, IInv, CallInv, Moves, Users
<1>. QED  BY Zenon, <1>6, <1>7, <1>8 DEF ReadCopy, IInv

\* pipeclose, which frees the page with the last descriptor.
LEMMA PipeClose == ASSUME IInv, NEW p \in Users, Close(p)  PROVE IInv'
<1>1. /\ pc[p] = "idle" /\ open' = open \ {p}
      /\ UNCHANGED <<data, nread, nwrite, lock, todo, want, got, killed>>
  BY Zenon DEF Close
<1>2. pc' \in [Users -> States] /\ \A q \in Users : pc'[q] = "idle" <=> pc[q] = "idle"
  <2>1. pc \in [Users -> States]  BY Zenon DEF IInv, TypeOK, States
  <2>2. CASE UNCHANGED pc  BY Zenon, <2>1, <2>2
  <2>3. ASSUME NEW S \in SUBSET Users, Wake(S, p, "idle")  PROVE Moves(p, "idle")
    BY Zenon, <2>1, <2>3, MovesTo DEF States
  <2>4. UNCHANGED pc \/ \E S \in SUBSET Users : Wake(S, p, "idle")
    <3>1. \A S : Users \ S \in SUBSET Users  BY Zenon
    <3>. QED  BY Zenon, <3>1 DEF Close
  <2>. QED  BY Zenon, <1>1, <2>2, <2>3, <2>4 DEF Moves
<1>3. TypeOK'  BY Zenon, <1>1, <1>2, RingFrame DEF IInv, TypeOK, States
<1>4. /\ readopen' \in BOOLEAN /\ writeopen' \in BOOLEAN
      /\ freed' => ~readopen' /\ ~writeopen'
  BY Zenon DEF Close, IInv
<1>5. open' \cap Writers # {} => writeopen'  BY Zenon, <1>1 DEF Close, IInv, EndInv, Users
<1>6. open' \cap Readers # {} => readopen'  BY Zenon, <1>1 DEF Close, IInv, EndInv, Users
<1>7. CallInv'  BY Zenon, <1>1, <1>2 DEF IInv, CallInv, Users
<1>. QED  BY Zenon, <1>1, <1>3, <1>4, <1>5, <1>6, <1>7 DEF IInv, EndInv

\* kill wakes a sleeper.
LEMMA PipeKill == ASSUME IInv, NEW p \in Killable, Kill(p)  PROVE IInv'
<1>1. pc' \in [Users -> States] /\ \A q \in Users : pc'[q] = "idle" <=> pc[q] = "idle"
  BY Zenon, Sets DEF Kill, Wake, IInv, TypeOK, States
<1>2. TypeOK'  BY Zenon, <1>1, Sets, RingFrame DEF Kill, IInv, TypeOK, States, pipe
<1>3. EndInv'  BY Zenon DEF Kill, IInv, EndInv, pipe
<1>4. CallInv'  BY Zenon, <1>1 DEF Kill, IInv, CallInv, Users
<1>. QED  BY Zenon, <1>2, <1>3, <1>4 DEF Kill, IInv, pipe

\* Every step keeps the invariant.
LEMMA PipeNext == IInv /\ [Next]_vars => IInv'
<1>1. ASSUME IInv, UNCHANGED vars  PROVE IInv'
  BY Zenon, <1>1 DEF vars, pipe, IInv, TypeOK, Used, EndInv, CallInv
<1>2. ASSUME IInv, Next  PROVE IInv'
  <2>. USE IInv
  <2>1. CASE \E w \in Writers : WriteCall(w) \/ Write(w)
    BY Zenon, <1>2, <2>1, PipeWriteCall, PipeWriteCopy, PipeWriteFull DEF Write
  <2>2. CASE \E r \in Readers : ReadCall(r) \/ Read(r)
    BY Zenon, <1>2, <2>2, PipeReadCall, PipeReadEmpty, PipeReadCopy DEF Read
  <2>3. CASE \E p \in Users : Run(p) \/ Close(p)
    BY Zenon, <1>2, <2>3, PipeAcquire, PipeSleep, PipeClose DEF Run
  <2>4. CASE \E p \in Killable : Kill(p)  BY Zenon, <1>2, <2>4, PipeKill
  <2>5. CASE Gone  BY Zenon, <1>1, <1>2, <2>5 DEF Gone
  <2>. QED  BY Zenon, <1>2, <2>1, <2>2, <2>3, <2>4, <2>5 DEF Next
<1>. QED  BY Zenon, <1>1, <1>2

\* The invariant holds in every reachable state.
LEMMA PipeInvariant == Spec => []IInv
BY PipeInit, PipeNext, PTL DEF Spec

\* pipeclose frees the page when both ends are closed: no process has a
\* descriptor of the pipe any more, and none is inside pipewrite or piperead,
\* asleep there or about to touch the page.
THEOREM PipeFreedUnused == Spec => []FreedUnused
<1>1. IInv => FreedUnused
  <2>. SUFFICES ASSUME IInv, freed  PROVE open = {} /\ \A p \in Users : pc[p] = "idle"
    BY Zenon DEF FreedUnused, IInv
  <2>1. open \cap Writers = {} /\ open \cap Readers = {}  BY Zenon DEF IInv, EndInv
  <2>2. open = {}  BY Zenon, <2>1 DEF IInv, TypeOK, Users
  <2>. QED  BY Zenon, <2>2 DEF IInv, CallInv
<1>. QED  BY <1>1, PipeInvariant, PTL

------------------------------------------------------------------------------
(* The pipe implements ByteStream. *)

\* A step that leaves alone what the stream is made of.
LEMMA StreamStutter ==
  ASSUME IInv, UNCHANGED <<data, nread, nwrite, todo, got, writeopen>>
  PROVE  UNCHANGED Stream!vars
BY Zenon, RingFrame DEF Stream!vars

\* The call of a write offers bytes.
LEMMA StreamWriteCall ==
  ASSUME IInv, NEW w \in Writers, WriteCall(w)
  PROVE  Stream!Next
<1>1. Content' = Content  BY Zenon, RingFrame DEF WriteCall, pipe
<1>2. todo[w] = <<>>  BY Zenon DEF WriteCall, IInv, CallInv
<1>3. \A v \in Writers \ {w} : todo'[v] = todo[v]  BY Zenon DEF WriteCall, IInv
<1>4. UNCHANGED <<got, writeopen>>  BY Zenon DEF WriteCall, pipe
<1>5. Stream!Offer(w)  BY Zenon, <1>1, <1>2, <1>3, <1>4 DEF Stream!Offer
<1>. QED  BY Zenon, <1>5 DEF Stream!Next

\* The loop of pipewrite puts what fits at the end of the stream.
LEMMA StreamWriteCopy ==
  ASSUME IInv, NEW w \in Writers, WriteCopy(w)
  PROVE  [Stream!Next]_(Stream!vars)
<1>1. PICK k : k = Fits(Len(todo[w]), Room)  BY Zenon
<1>2. /\ k \in 0..Len(todo[w]) /\ Used + k <= PIPESIZE
      /\ Content' = Content \o SubSeq(todo[w], 1, k)
  BY Zenon, <1>1, Copied
<1>3. /\ todo' = [todo EXCEPT ![w] = SubSeq(todo[w], k + 1, Len(todo[w]))]
      /\ UNCHANGED <<got, writeopen>>
  BY Zenon, <1>1 DEF WriteCopy, Fits, Room
<1>4. todo \in [Writers -> Seq(Bytes)] /\ todo[w] \in Seq(Bytes)  BY Zenon DEF IInv
<1>5. Content \in Seq(Bytes) /\ Len(Content) = Used
  <2>1. /\ data \in [0..PIPESIZE - 1 -> Bytes] /\ nread \in Nat /\ Used \in Nat
    BY Sizes DEF IInv, TypeOK
  <2>. QED  BY <2>1, Sizes, AsRing, RingSeq
<1>6. CASE k = 0
  <2>1. SubSeq(todo[w], 1, k) = <<>> /\ SubSeq(todo[w], k + 1, Len(todo[w])) = todo[w]
    BY <1>4, <1>6
  <2>2. Content' = Content  BY <1>2, <1>5, <2>1
  <2>3. todo' = todo  BY Zenon, <1>3, <1>4, <2>1
  <2>. QED  BY Zenon, <1>3, <2>2, <2>3 DEF Stream!vars
<1>7. CASE k # 0
  <2>1. k \in 1..Len(todo[w])  BY <1>2, <1>4, <1>7
  <2>2. Stream!Put(w)
    BY Zenon, <1>2, <1>3, <1>5, <2>1 DEF Stream!Put, Stream!Front, Stream!Rest
  <2>. QED  BY Zenon, <2>2 DEF Stream!Next
<1>. QED  BY Zenon, <1>6, <1>7

\* A write is given up, or its process goes to sleep.
LEMMA StreamWriteFull ==
  ASSUME IInv, NEW w \in Writers, WriteFull(w)
  PROVE  [Stream!Next]_(Stream!vars)
<1>1. Content' = Content /\ UNCHANGED <<got, writeopen>>
  BY Zenon, RingFrame DEF WriteFull, pipe
<1>2. CASE todo' = [todo EXCEPT ![w] = <<>>]
  BY Zenon, <1>1, <1>2 DEF Stream!GiveUp, Stream!Next
<1>3. CASE todo' = todo  BY Zenon, <1>1, <1>3 DEF Stream!vars
<1>. QED  BY Zenon, <1>2, <1>3 DEF WriteFull

\* The call of a read forgets what the last one returned.
LEMMA StreamReadCall ==
  ASSUME IInv, NEW r \in Readers, ReadCall(r)
  PROVE  Stream!Next
<1>1. Content' = Content /\ UNCHANGED <<todo, writeopen>>
  BY Zenon, RingFrame DEF ReadCall, pipe
<1>2. Stream!Forget(r)  BY Zenon, <1>1 DEF ReadCall, Stream!Forget
<1>. QED  BY Zenon, <1>2 DEF Stream!Next

\* The loop of piperead takes the front of the stream, or finds its end.
LEMMA StreamReadCopy ==
  ASSUME IInv, NEW r \in Readers, ReadCopy(r)
  PROVE  Stream!Next
<1>1. PICK k : k = Fits(Used, want[r])  BY Zenon
<1>2. /\ k \in 0..Used /\ Used \in 0..PIPESIZE
      /\ Content \in Seq(Bytes) /\ Len(Content) = Used
      /\ Content' = SubSeq(Content, k + 1, Used)
  BY Zenon, <1>1, Fetched
<1>3. /\ got' = [got EXCEPT ![r] = IF k = 0 THEN Eof ELSE SubSeq(Content, 1, k)]
      /\ nread # nwrite \/ ~writeopen
      /\ UNCHANGED <<todo, writeopen>>
  BY Zenon, <1>1 DEF ReadCopy, Fits
<1>4. CASE k = 0
  <2>1. want[r] # 0 /\ want[r] \in 0..MaxCount
    <3>1. r \in Users /\ pc[r] # "idle"  BY Zenon DEF ReadCopy, Users
    <3>. QED  BY Zenon, <3>1 DEF IInv, TypeOK, CallInv
  <2>2. Used = 0  BY Zenon, <1>1, <1>2, <1>4, <2>1 DEF Fits
  <2>3. Content = <<>> /\ Content' = <<>>  BY <1>2, <1>4, <2>2
  <2>4. nread = nwrite
    <3>1. nread \in 0..Wrap - 1 /\ nwrite \in 0..Wrap - 1  BY Zenon DEF IInv, TypeOK
    <3>2. Dist(Wrap, nread, nwrite) = IF nread <= nwrite THEN nwrite - nread ELSE nwrite + Wrap - nread
      BY Zenon, <3>1, Sizes, DistIs
    <3>. QED  BY <2>2, <3>1, <3>2, AsRing, Sizes
  <2>5. Stream!AtEof(r)  BY Zenon, <1>3, <1>4, <2>3, <2>4 DEF Stream!AtEof
  <2>. QED  BY Zenon, <2>5 DEF Stream!Next
<1>5. CASE k # 0
  <2>1. k \in 1..Len(Content)  BY <1>2, <1>5, Sizes
  <2>2. Stream!Get(r)  BY Zenon, <1>2, <1>3, <1>5, <2>1 DEF Stream!Get, Stream!Front, Stream!Rest
  <2>. QED  BY Zenon, <2>2 DEF Stream!Next
<1>. QED  BY Zenon, <1>4, <1>5

\* The last writer's close ends the stream.
LEMMA StreamClose ==
  ASSUME IInv, NEW p \in Users, Close(p)
  PROVE  [Stream!Next]_(Stream!vars)
<1>1. Content' = Content /\ UNCHANGED <<todo, got>>  BY Zenon, RingFrame DEF Close
<1>2. writeopen' = writeopen \/ (writeopen /\ writeopen' = FALSE)
  BY Zenon DEF Close, IInv
<1>. QED  BY Zenon, <1>1, <1>2 DEF Stream!Close, Stream!Next, Stream!vars

\* Every step of the pipe is a step of the stream or leaves it alone.
LEMMA StreamNext == IInv /\ [Next]_vars => [Stream!Next]_(Stream!vars)
<1>. SUFFICES ASSUME IInv, [Next]_vars  PROVE [Stream!Next]_(Stream!vars)
  BY Zenon
<1>1. CASE \E w \in Writers : WriteCall(w) \/ Write(w)
  BY Zenon, <1>1, StreamWriteCall, StreamWriteCopy, StreamWriteFull DEF Write
<1>2. CASE \E r \in Readers : ReadCall(r) \/ Read(r)
  <2>. SUFFICES ASSUME NEW r \in Readers, ReadCall(r) \/ Read(r)
                PROVE  [Stream!Next]_(Stream!vars)
    BY Zenon, <1>2
  <2>1. CASE ReadEmpty(r)  BY Zenon, <2>1, StreamStutter DEF ReadEmpty, pipe
  <2>. QED  BY Zenon, <2>1, StreamReadCall, StreamReadCopy DEF Read
<1>3. CASE \E p \in Users : Run(p) \/ Close(p)
  <2>. SUFFICES ASSUME NEW p \in Users, Run(p) \/ Close(p)
                PROVE  [Stream!Next]_(Stream!vars)
    BY Zenon, <1>3
  <2>1. CASE Run(p)  BY Zenon, <2>1, StreamStutter DEF Run, Acquire, Sleep, pipe
  <2>. QED  BY Zenon, <2>1, StreamClose
<1>4. CASE \E p \in Killable : Kill(p)  BY Zenon, <1>4, StreamStutter DEF Kill, pipe
<1>5. CASE Gone \/ UNCHANGED vars  BY Zenon, <1>5, StreamStutter DEF Gone, vars, pipe
<1>. QED  BY Zenon, <1>1, <1>2, <1>3, <1>4, <1>5 DEF Next

\* A new pipe is an empty stream.
LEMMA StreamInit == Init => Stream!Init
<1>. SUFFICES ASSUME Init  PROVE Stream!Init
  BY Zenon
<1>1. Used = 0
  <2>1. nread = 0 /\ nwrite = 0 /\ 0 \in 0..Wrap - 1  BY Sizes DEF Init
  <2>2. Dist(Wrap, 0, 0) = 0  BY <2>1, Sizes, DistIs
  <2>. QED  BY Zenon, <2>1, <2>2, AsRing
<1>2. Content = <<>>  BY <1>1 DEF Content
<1>. QED  BY Zenon, <1>2 DEF Init, Stream!Init

\* pipewrite, piperead and pipeclose implement one bounded stream of bytes, for
\* any size of the pipe and any number of readers and writers, and although the
\* counters nread and nwrite wrap around.
THEOREM PipeIsStream == Spec => StreamSpec
BY StreamInit, StreamNext, PipeInvariant, PTL DEF Spec, StreamSpec, Stream!Spec
==============================================================================
