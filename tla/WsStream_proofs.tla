---------------------------- MODULE WsStream_proofs ----------------------------
(***************************************************************************)
(* Theorems about WsStream and the frames of Frame, for every size of a    *)
(* byte, a length, a key and a buffer, every key and payloads of any       *)
(* length: numbers in bytes and frames on the wire are read back as they   *)
(* were, nothing is taken from outside a buffer, what a read that ends     *)
(* with a frame gets was sent, in order, and what is written is what the   *)
(* peer reads.                                                             *)
(***************************************************************************)
EXTENDS WsStream, TLAPS, WellFoundedInduction

-----------------------------------------------------------------------------
(* Naturals. *)

\* Every set of naturals that is not empty has a least element.
LEMMA LeastNat ==
  ASSUME NEW T, T \subseteq Nat, T # {}
  PROVE  \E n \in T : \A m \in T : n <= m
  <1> DEFINE R == OpToRel(<, Nat)
  <1>1. IsWellFoundedOn(R, Nat)
    BY NatLessThanWellFounded
  <1>2. \A m, n \in Nat : m < n => <<m, n>> \in R
    BY DEF OpToRel
  <1> HIDE DEF R
  <1>3. PICK n \in T : \A m \in T : ~(<<m, n>> \in R)
    BY <1>1, WFMin
  <1>4. ASSUME NEW m \in T PROVE n <= m
    <2>1. m \in Nat /\ n \in Nat /\ ~(m < n)
      BY <1>2, <1>3, <1>4
    <2> QED
      BY <2>1
  <1> QED
    BY <1>4

\* Induction, as a property of sets.
LEMMA NatSet ==
  ASSUME NEW S, 0 \in S, \A n \in Nat : n \in S => n + 1 \in S
  PROVE  Nat \subseteq S
  <1> SUFFICES ASSUME NEW x \in Nat, x \notin S PROVE FALSE
    OBVIOUS
  <1> DEFINE T == {n \in Nat : n \notin S}
  <1>1. PICK n \in T : \A m \in T : n <= m
    BY LeastNat
  <1>2. n \in Nat /\ n # 0 /\ n \notin S
    BY <1>1
  <1>3. n - 1 \in Nat /\ n - 1 \notin T
    BY <1>1, <1>2
  <1>4. n - 1 \in S
    BY <1>3
  <1>5. (n - 1) + 1 \in S
    BY <1>3, <1>4
  <1> QED
    BY <1>2, <1>5

\* What the constants are.
LEMMA Sizes ==
  /\ Opcodes \in Nat \ {0} /\ ByteValues = 4 * Opcodes
  /\ ByteValues \in Nat \ {0, 1}
  /\ ShortBytes \in Nat \ {0} /\ LongBytes \in Nat \ {0}
  /\ MaskBytes \in Nat \ {0} /\ MaxInt \in Nat \ {0}
  /\ FinBit = 2 * Opcodes /\ MaskBit = 2 * Opcodes /\ LenCodes = 2 * Opcodes
  /\ RsvBit = Opcodes /\ ShortCode = 2 * Opcodes - 2
  /\ LongCode = 2 * Opcodes - 1
  BY FrameAssumption DEF FinBit, MaskBit, LenCodes, RsvBit, ShortCode, LongCode

\* The quotient and the remainder are what they should be.
LEMMA Division ==
  ASSUME NEW n \in Nat, NEW d \in Nat \ {0}
  PROVE  /\ n \div d \in Nat /\ n % d \in 0..(d - 1)
         /\ n = d * (n \div d) + (n % d)
  OBVIOUS

\* And only they are.
LEMMA Quotient ==
  ASSUME NEW n \in Nat, NEW d \in Nat \ {0}, NEW q \in Nat, NEW r \in 0..(d - 1),
         n = d * q + r
  PROVE  n \div d = q /\ n % d = r
  OBVIOUS

-----------------------------------------------------------------------------
(* Power and Uint are recursive functions; that they satisfy their          *)
(* recursions is shown by induction on how far they are defined.            *)

\* p holds the first powers of ByteValues.
Powers(p, n) ==
  p = [k \in 0..n |-> IF k = 0 THEN 1 ELSE ByteValues * p[k - 1]]

\* There are as many as one wants, and they are positive.
LEMMA PowersExist ==
  ASSUME NEW n \in Nat
  PROVE  \E p \in [0..n -> Nat \ {0}] : Powers(p, n)
  <1> DEFINE S == {m \in Nat : \E p \in [0..m -> Nat \ {0}] : Powers(p, m)}
  <1>1. 0 \in S
    <2> DEFINE p == [k \in 0..0 |-> 1]
    <2>1. p \in [0..0 -> Nat \ {0}] /\ Powers(p, 0)
      BY DEF Powers
    <2> QED
      BY <2>1
  <1>2. ASSUME NEW m \in Nat, m \in S PROVE m + 1 \in S
    <2>1. PICK p \in [0..m -> Nat \ {0}] : Powers(p, m)
      BY <1>2
    <2> DEFINE q == [k \in 0..m+1 |-> IF k = m + 1 THEN ByteValues * p[m]
                                      ELSE p[k]]
    <2>2. ByteValues * p[m] \in Nat \ {0}
      BY Sizes
    <2>3. q \in [0..m+1 -> Nat \ {0}]
      BY <2>2
    <2>4. ASSUME NEW k \in 0..m+1
          PROVE  q[k] = IF k = 0 THEN 1 ELSE ByteValues * q[k - 1]
      <3>1. \A j \in 0..m : p[j] = IF j = 0 THEN 1 ELSE ByteValues * p[j - 1]
        BY <2>1 DEF Powers
      <3>2. CASE k = m + 1
        BY <3>2
      <3>3. CASE k # m + 1
        <4>1. k \in 0..m /\ q[k] = p[k]
          BY <3>3
        <4>2. k # 0 => q[k - 1] = p[k - 1]
          BY <3>3
        <4> HIDE DEF q
        <4> QED
          BY <3>1, <4>1, <4>2
      <3> QED
        BY <3>2, <3>3
    <2>5. Powers(q, m + 1)
      BY <2>3, <2>4 DEF Powers
    <2> QED
      BY <2>3, <2>5
  <1> HIDE DEF S
  <1>3. Nat \subseteq S
    BY <1>1, <1>2, NatSet
  <1> QED
    BY <1>3 DEF S

\* Two that hold powers hold the same.
LEMMA PowersAgree ==
  ASSUME NEW n \in Nat, NEW m \in Nat, NEW p, NEW q,
         Powers(p, n), Powers(q, m)
  PROVE  \A k \in Nat : k <= n /\ k <= m => p[k] = q[k]
  <1> DEFINE S == {k \in Nat : k <= n /\ k <= m => p[k] = q[k]}
  <1>1. \A k \in 0..n : p[k] = IF k = 0 THEN 1 ELSE ByteValues * p[k - 1]
    BY DEF Powers
  <1>2. \A k \in 0..m : q[k] = IF k = 0 THEN 1 ELSE ByteValues * q[k - 1]
    BY DEF Powers
  <1>3. 0 \in S
    BY <1>1, <1>2
  <1>4. ASSUME NEW k \in Nat, k \in S PROVE k + 1 \in S
    <2> SUFFICES ASSUME k + 1 <= n, k + 1 <= m PROVE p[k + 1] = q[k + 1]
      OBVIOUS
    <2>1. p[k] = q[k]
      BY <1>4
    <2>2. k + 1 \in 0..n /\ k + 1 \in 0..m /\ k + 1 # 0 /\ (k + 1) - 1 = k
      OBVIOUS
    <2> HIDE DEF S
    <2>3. p[k + 1] = ByteValues * p[(k + 1) - 1]
      BY <1>1, <2>2
    <2>4. q[k + 1] = ByteValues * q[(k + 1) - 1]
      BY <1>2, <2>2
    <2> QED
      BY <2>1, <2>2, <2>3, <2>4
  <1> HIDE DEF S
  <1>5. Nat \subseteq S
    BY <1>3, <1>4, NatSet
  <1> QED
    BY <1>5 DEF S

\* Power is as it says.
LEMMA PowerStep ==
  /\ \A k \in Nat : Power[k] \in Nat \ {0}
  /\ Power[0] = 1 /\ \A k \in Nat : Power[k + 1] = ByteValues * Power[k]
  <1> DEFINE Is(f) == f = [k \in Nat |-> IF k = 0 THEN 1
                                         ELSE ByteValues * f[k - 1]]
             All == [n \in Nat |-> CHOOSE p \in [0..n -> Nat \ {0}] : Powers(p, n)]
             f0 == [k \in Nat |-> All[k][k]]
  <1>1. \A n \in Nat : All[n] \in [0..n -> Nat \ {0}] /\ Powers(All[n], n)
    BY PowersExist
  <1> HIDE DEF All
  <1>2. \A n, k \in Nat : k <= n => All[n][k] = All[k][k]
    BY <1>1, PowersAgree
  <1>3. ASSUME NEW k \in Nat
        PROVE  f0[k] = IF k = 0 THEN 1 ELSE ByteValues * f0[k - 1]
    <2>0. \A j \in 0..k :
            All[k][j] = IF j = 0 THEN 1 ELSE ByteValues * All[k][j - 1]
      <3> DEFINE p == All[k]
      <3>1. Powers(p, k)
        BY <1>1
      <3> HIDE DEF p
      <3>2. \A j \in 0..k : p[j] = IF j = 0 THEN 1 ELSE ByteValues * p[j - 1]
        BY <3>1 DEF Powers
      <3> QED
        BY <3>2 DEF p
    <2>1. All[k][k] = IF k = 0 THEN 1 ELSE ByteValues * All[k][k - 1]
      BY <2>0
    <2>2. k # 0 => k - 1 \in Nat /\ k - 1 <= k
      OBVIOUS
    <2>3. k # 0 => All[k][k - 1] = All[k - 1][k - 1]
      BY <1>2, <2>2
    <2> QED
      BY <2>1, <2>2, <2>3
  <1>4. Is(f0)
    BY <1>3
  <1>5. Power = CHOOSE f : Is(f)
    BY DEF Power
  <1>6. Is(Power)
    BY <1>4, <1>5
  <1> HIDE DEF Is
  <1>7. \A k \in Nat : Power[k] = IF k = 0 THEN 1 ELSE ByteValues * Power[k - 1]
    BY <1>6 DEF Is
  <1> DEFINE S == {k \in Nat : Power[k] \in Nat \ {0}}
  <1>8. Power[0] = 1
    BY <1>7
  <1>9. \A k \in Nat : Power[k + 1] = ByteValues * Power[k]
    <2> TAKE k \in Nat
    <2>1. k + 1 \in Nat /\ k + 1 # 0 /\ (k + 1) - 1 = k
      OBVIOUS
    <2>2. Power[k + 1] = ByteValues * Power[(k + 1) - 1]
      BY <1>7, <2>1
    <2> QED
      BY <2>1, <2>2
  <1>10. \A k \in Nat : k \in S => k + 1 \in S
    BY <1>9, Sizes
  <1>11. 0 \in S
    BY <1>8
  <1> HIDE DEF S
  <1>12. Nat \subseteq S
    BY <1>10, <1>11, NatSet
  <1> QED
    BY <1>8, <1>9, <1>12 DEF S

\* v holds the numbers that the beginnings of b, up to m bytes, stand for.
Counts(v, b, m) ==
  v = [i \in 0..m |-> IF i = 0 THEN 0 ELSE v[i - 1] * ByteValues + b[i]]

\* Uint is what they come to.
LEMMA UintCounts ==
  ASSUME NEW b, Len(b) \in Nat, NEW v, Counts(v, b, Len(b))
  PROVE  Uint(b) = v[Len(b)]
  <1> DEFINE u == CHOOSE g : Counts(g, b, Len(b))
             S == {i \in Nat : i <= Len(b) => u[i] = v[i]}
  <1>1. Counts(u, b, Len(b))
    OBVIOUS
  <1>2. Uint(b) = u[Len(b)]
    BY DEF Uint, Counts
  <1> HIDE DEF u
  <1>3. \A i \in 0..Len(b) :
          u[i] = IF i = 0 THEN 0 ELSE u[i - 1] * ByteValues + b[i]
    BY <1>1 DEF Counts
  <1>4. \A i \in 0..Len(b) :
          v[i] = IF i = 0 THEN 0 ELSE v[i - 1] * ByteValues + b[i]
    BY DEF Counts
  <1>5. 0 \in S
    BY <1>3, <1>4
  <1>6. ASSUME NEW i \in Nat, i \in S PROVE i + 1 \in S
    <2> SUFFICES ASSUME i + 1 <= Len(b) PROVE u[i + 1] = v[i + 1]
      OBVIOUS
    <2>1. u[i] = v[i]
      BY <1>6
    <2>2. i + 1 \in 0..Len(b) /\ i + 1 # 0 /\ (i + 1) - 1 = i
      OBVIOUS
    <2> HIDE DEF S
    <2>3. u[i + 1] = u[(i + 1) - 1] * ByteValues + b[i + 1]
      BY <1>3, <2>2
    <2>4. v[i + 1] = v[(i + 1) - 1] * ByteValues + b[i + 1]
      BY <1>4, <2>2
    <2> QED
      BY <2>1, <2>2, <2>3, <2>4
  <1> HIDE DEF S
  <1>7. Nat \subseteq S
    BY <1>5, <1>6, NatSet
  <1> QED
    BY <1>2, <1>7 DEF S

\* Whatever bytes there are, they come to a natural.
LEMMA UintNat ==
  ASSUME NEW b \in Seq(Bytes)
  PROVE  Uint(b) \in Nat
  <1> DEFINE S == {m \in Nat : m <= Len(b) =>
                     \E v \in [0..m -> Nat] : Counts(v, b, m)}
  <1>1. ByteValues \in Nat /\ Len(b) \in Nat
        /\ \A i \in 1..Len(b) : b[i] \in Nat
    BY Sizes DEF Bytes
  <1>2. 0 \in S
    <2> DEFINE v == [i \in 0..0 |-> 0]
    <2>1. v \in [0..0 -> Nat] /\ Counts(v, b, 0)
      BY DEF Counts
    <2> QED
      BY <2>1
  <1>3. ASSUME NEW m \in Nat, m \in S PROVE m + 1 \in S
    <2> SUFFICES ASSUME m + 1 <= Len(b)
                 PROVE  \E v \in [0..m+1 -> Nat] : Counts(v, b, m + 1)
      OBVIOUS
    <2>1. PICK v \in [0..m -> Nat] : Counts(v, b, m)
      BY <1>1, <1>3
    <2> DEFINE u == [i \in 0..m+1 |-> IF i = m + 1
                                      THEN v[m] * ByteValues + b[m + 1]
                                      ELSE v[i]]
    <2>2. v[m] \in Nat /\ b[m + 1] \in Nat
      BY <1>1
    <2>3. v[m] * ByteValues + b[m + 1] \in Nat
      BY <1>1, <2>2
    <2>4. u \in [0..m+1 -> Nat]
      BY <2>3
    <2>5. ASSUME NEW k \in 0..m+1
          PROVE  u[k] = IF k = 0 THEN 0 ELSE u[k - 1] * ByteValues + b[k]
      <3>1. \A j \in 0..m : v[j] = IF j = 0 THEN 0 ELSE v[j - 1] * ByteValues + b[j]
        BY <2>1 DEF Counts
      <3>2. CASE k = m + 1
        BY <3>2
      <3>3. CASE k # m + 1
        <4>1. k \in 0..m /\ u[k] = v[k]
          BY <3>3
        <4>2. k # 0 => u[k - 1] = v[k - 1]
          BY <3>3
        <4> HIDE DEF u
        <4> QED
          BY <3>1, <4>1, <4>2
      <3> QED
        BY <3>2, <3>3
    <2>6. Counts(u, b, m + 1)
      BY <2>4, <2>5 DEF Counts
    <2> QED
      BY <2>4, <2>6
  <1> HIDE DEF S
  <1>4. Len(b) \in S
    BY <1>1, <1>2, <1>3, NatSet
  <1>5. PICK v \in [0..Len(b) -> Nat] : Counts(v, b, Len(b))
    BY <1>1, <1>4 DEF S
  <1>6. v[Len(b)] \in Nat
    BY <1>1
  <1> QED
    BY <1>1, <1>5, <1>6, UintCounts

\* Cutting a number off a digit at a time is cutting it off at once.
LEMMA DivideTwice ==
  ASSUME NEW n \in Nat, NEW a \in Nat \ {0}, NEW b \in Nat \ {0}
  PROVE  (n \div a) \div b = n \div (b * a)
  <1> DEFINE x == n \div a
             r == n % a
             y == x \div b
             t == x % b
  <1>1. x \in Nat /\ r \in 0..(a - 1) /\ n = a * x + r
    BY Division
  <1>2. y \in Nat /\ t \in 0..(b - 1) /\ x = b * y + t
    BY <1>1, Division
  <1> HIDE DEF x, r, y, t
  <1>3. n = (b * a) * y + (a * t + r)
    <2>1. a * x = a * (b * y) + a * t
      BY <1>1, <1>2
    <2>2. a * (b * y) = (b * a) * y
      BY <1>1, <1>2
    <2> QED
      BY <1>1, <1>2, <2>1, <2>2
  <1>4. a * t + r \in 0..(b * a - 1)
    <2>1. t + 1 \in Nat /\ t + 1 <= b
      BY <1>2
    <2>2. a * (t + 1) <= b * a
      BY <2>1
    <2>3. a * (t + 1) = a * t + a
      BY <1>2
    <2> QED
      BY <1>1, <1>2, <2>2, <2>3
  <1>5. b * a \in Nat \ {0}
    OBVIOUS
  <1>6. n \div (b * a) = y
    BY <1>2, <1>3, <1>4, <1>5, Quotient
  <1> QED
    BY <1>6 DEF x, y

\* A number below Power[size] in that many bytes is the number again.
LEMMA UintPutUint ==
  ASSUME NEW size \in Nat, NEW n \in 0..(Power[size] - 1)
  PROVE  /\ PutUint(size, n) \in Seq(Bytes) /\ Len(PutUint(size, n)) = size
         /\ Uint(PutUint(size, n)) = n
  <1> DEFINE v == [i \in 0..size |-> n \div Power[size - i]]
             b == PutUint(size, n)
  <1>0. n \in Nat /\ Power[size] \in Nat
    BY PowerStep
  <1>1. \A i \in 0..size : v[i] \in Nat
    <2> TAKE i \in 0..size
    <2>1. size - i \in Nat
      OBVIOUS
    <2>2. Power[size - i] \in Nat \ {0}
      BY <2>1, PowerStep
    <2>3. n \div Power[size - i] \in Nat
      BY <1>0, <2>2, Division
    <2> QED
      BY <2>3
  <1>2. \A i \in 1..size : b[i] = v[i] % ByteValues
    BY DEF PutUint
  <1>3. b \in Seq(Bytes) /\ Len(b) = size
    <2>1. b \in [1..size -> Bytes]
      <3>1. ASSUME NEW i \in 1..size
            PROVE  (n \div Power[size - i]) % ByteValues \in Bytes
        <4>1. v[i] \in Nat /\ v[i] = n \div Power[size - i]
          BY <1>1
        <4>2. ByteValues \in Nat \ {0}
          BY Sizes
        <4> HIDE DEF v
        <4>3. v[i] % ByteValues \in 0..(ByteValues - 1)
          BY <4>1, <4>2, Division
        <4> QED
          BY <4>1, <4>3 DEF Bytes
      <3> QED
        BY <3>1 DEF PutUint
    <2> QED
      BY <2>1
  <1>4. v[0] = 0
    <2>1. n = Power[size] * 0 + n /\ n \in 0..(Power[size] - 1)
      BY <1>0
    <2>2. n \div Power[size] = 0
      BY <1>0, <2>1, PowerStep, Quotient
    <2> QED
      BY <2>2
  <1>5. v[size] = n
    <2>1. n = Power[0] * n + 0 /\ 0 \in 0..(Power[0] - 1)
      BY <1>0, PowerStep
    <2> QED
      BY <1>0, <2>1, PowerStep, Quotient
  <1>6. ASSUME NEW i \in 1..size
        PROVE  v[i] = v[i - 1] * ByteValues + b[i]
    <2> DEFINE a == Power[size - i]
    <2>1. /\ a \in Nat \ {0} /\ Power[size - (i - 1)] = ByteValues * a
      <3>1. size - i \in Nat /\ size - (i - 1) = (size - i) + 1
        OBVIOUS
      <3> QED
        BY <3>1, PowerStep
    <2>2. v[i] = n \div a /\ v[i - 1] = n \div (ByteValues * a)
      BY <2>1
    <2>3. v[i - 1] = v[i] \div ByteValues
      <3>1. (n \div a) \div ByteValues = n \div (ByteValues * a)
        <4> HIDE DEF a
        <4>1. ByteValues \in Nat \ {0}
          BY Sizes
        <4> QED
          BY <1>0, <2>1, <4>1, DivideTwice
      <3> HIDE DEF v, a
      <3> QED
        BY <2>2, <3>1
    <2>4. v[i] = ByteValues * (v[i] \div ByteValues) + (v[i] % ByteValues)
      <3>1. v[i] \in Nat /\ ByteValues \in Nat \ {0}
        BY <1>1, Sizes
      <3> HIDE DEF v
      <3> QED
        BY <3>1, Division
    <2>5. v[i - 1] \in Nat /\ ByteValues \in Nat
      BY <1>1, Sizes
    <2> HIDE DEF v, b, a
    <2> QED
      BY <1>2, <2>3, <2>4, <2>5
  <1>7. Counts(v, b, size)
    <2> HIDE DEF b
    <2>1. \A i \in 0..size :
            v[i] = IF i = 0 THEN 0 ELSE v[i - 1] * ByteValues + b[i]
      <3> HIDE DEF v
      <3> QED
        BY <1>4, <1>6
    <2>2. v = [i \in 0..size |-> v[i]]
      OBVIOUS
    <2> HIDE DEF v
    <2> QED
      BY <2>1, <2>2 DEF Counts
  <1>8. Uint(b) = v[size]
    <2> HIDE DEF v, b
    <2> QED
      BY <1>3, <1>7, UintCounts
  <1> QED
    BY <1>3, <1>5, <1>8

-----------------------------------------------------------------------------
(* Streams made of frames, and where they are cut. *)

\* s is the frames fs[k + 1], fs[k + 2], ... one after the other; at[j] is where
\* the j-th ends.
Cut(s, fs, k, at) ==
  /\ at \in [k..Len(fs) -> Nat] /\ at[k] = 0 /\ at[Len(fs)] = Len(s)
  /\ \A i, j \in k..Len(fs) : i <= j => at[i] <= at[j]
  /\ \A j \in (k + 1)..Len(fs) :
       /\ at[j] = at[j - 1] + Len(fs[j])
       /\ \A i \in 1..Len(fs[j]) : s[at[j - 1] + i] = fs[j][i]

Framed(s, fs, k) == k \in 0..Len(fs) /\ \E at : Cut(s, fs, k, at)

\* The parts of a concatenation and of a subsequence.
LEMMA Joined ==
  ASSUME NEW S, NEW s \in Seq(S), NEW t \in Seq(S)
  PROVE  /\ s \o t \in Seq(S) /\ Len(s \o t) = Len(s) + Len(t)
         /\ \A i \in 1..Len(s) : (s \o t)[i] = s[i]
         /\ \A i \in 1..Len(t) : (s \o t)[Len(s) + i] = t[i]
  OBVIOUS

\* What is left of a sequence after its first n.
LEMMA Rest ==
  ASSUME NEW S, NEW s \in Seq(S), NEW n \in 0..Len(s)
  PROVE  /\ SubSeq(s, n + 1, Len(s)) \in Seq(S)
         /\ Len(SubSeq(s, n + 1, Len(s))) = Len(s) - n
         /\ \A i \in 1..(Len(s) - n) : SubSeq(s, n + 1, Len(s))[i] = s[n + i]
  OBVIOUS

\* The l-th byte after the first a is one of the first d.
LEMMA Inside ==
  ASSUME NEW a \in Nat, NEW c \in Nat, NEW d \in Int, a + c <= d, NEW l \in 1..c
  PROVE  a + l \in 1..d
  OBVIOUS

\* Nothing is no frames.
LEMMA FramedNone ==
  ASSUME NEW fs, Len(fs) \in Nat
  PROVE  Framed(<<>>, fs, Len(fs))
  <1> DEFINE k == Len(fs)
             at == [j \in k..k |-> 0]
  <1>1. Cut(<<>>, fs, k, at)
    BY DEF Cut
  <1> QED
    BY <1>1 DEF Framed

\* A frame more at the end.
LEMMA FramedAppend ==
  ASSUME NEW S, NEW s \in Seq(S), NEW fs \in Seq(Seq(S)), NEW f \in Seq(S),
         NEW k, Framed(s, fs, k)
  PROVE  Framed(s \o f, Append(fs, f), k)
  <1> DEFINE m == Len(fs)
             gs == Append(fs, f)
             t == s \o f
  <1>1. PICK at : Cut(s, fs, k, at)
    BY DEF Framed
  <1>2. k \in Nat /\ m \in Nat /\ k <= m /\ Len(f) \in Nat /\ Len(s) \in Nat
    BY DEF Framed
  <1>3. /\ Len(gs) = m + 1 /\ gs[m + 1] = f
        /\ \A j \in 1..m : gs[j] = fs[j]
    OBVIOUS
  <1>4. /\ Len(t) = Len(s) + Len(f)
        /\ \A i \in 1..Len(s) : t[i] = s[i]
        /\ \A i \in 1..Len(f) : t[Len(s) + i] = f[i]
    BY Joined
  <1> DEFINE bt == [j \in k..(m + 1) |-> IF j = m + 1 THEN Len(t) ELSE at[j]]
  <1>5. /\ at \in [k..m -> Nat] /\ at[k] = 0 /\ at[m] = Len(s)
        /\ \A i, j \in k..m : i <= j => at[i] <= at[j]
        /\ \A j \in (k + 1)..m :
             /\ at[j] = at[j - 1] + Len(fs[j])
             /\ \A i \in 1..Len(fs[j]) : s[at[j - 1] + i] = fs[j][i]
    BY <1>1 DEF Cut
  <1> HIDE DEF m, gs, t
  <1>6. \A j \in k..m : bt[j] = at[j] /\ bt[j] <= Len(s)
    BY <1>2, <1>5
  <1>7. bt[m + 1] = Len(s) + Len(f) /\ bt[m] = Len(s)
    BY <1>2, <1>4, <1>5
  <1>8. bt \in [k..(m + 1) -> Nat] /\ bt[k] = 0
    BY <1>2, <1>4, <1>5
  <1> HIDE DEF bt
  <1>9. ASSUME NEW i \in k..(m + 1), NEW j \in k..(m + 1), i <= j
        PROVE  bt[i] <= bt[j]
    <2>1. CASE j = m + 1 /\ i = m + 1
      BY <2>1, <1>2, <1>7
    <2>2. CASE j = m + 1 /\ i # m + 1
      <3>1. i \in k..m
        BY <2>2, <1>2
      <3>2. bt[i] <= Len(s) /\ bt[i] \in Nat
        BY <3>1, <1>6, <1>8
      <3> QED
        BY <2>2, <3>2, <1>2, <1>7
    <2>3. CASE j # m + 1
      <3>1. i \in k..m /\ j \in k..m
        BY <2>3, <1>2, <1>9
      <3> QED
        BY <3>1, <1>5, <1>6, <1>9
    <2> QED
      BY <2>1, <2>2, <2>3
  <1>10. ASSUME NEW j \in (k + 1)..(m + 1)
         PROVE  /\ bt[j] = bt[j - 1] + Len(gs[j])
                /\ \A i \in 1..Len(gs[j]) : t[bt[j - 1] + i] = gs[j][i]
    <2>1. CASE j = m + 1
      <3>1. j - 1 = m /\ bt[j - 1] = Len(s) /\ gs[j] = f
        BY <2>1, <1>2, <1>3, <1>7
      <3> QED
        BY <2>1, <3>1, <1>4, <1>7
    <2>2. CASE j # m + 1
      <3>1. j \in (k + 1)..m /\ j - 1 \in k..m /\ j \in k..m /\ j \in 1..m
        BY <2>2, <1>2
      <3>2. bt[j] = at[j] /\ bt[j - 1] = at[j - 1] /\ gs[j] = fs[j]
        BY <3>1, <1>3, <1>6
      <3>3. at[j] = at[j - 1] + Len(fs[j]) /\ at[j] <= Len(s)
        BY <3>1, <3>2, <1>5, <1>6
      <3>4. at[j - 1] \in Nat /\ at[j] \in Nat /\ Len(fs[j]) \in Nat
        BY <3>1, <1>2, <1>5 DEF m
      <3>5. ASSUME NEW i \in 1..Len(fs[j])
            PROVE  t[at[j - 1] + i] = fs[j][i]
        <4>1. at[j - 1] + i \in 1..Len(s)
          <5> DEFINE a == at[j - 1]
                     c == Len(fs[j])
                     d == Len(s)
          <5>1. a \in Nat /\ c \in Nat /\ d \in Int /\ a + c <= d
            BY <3>3, <3>4, <1>2
          <5>2. i \in 1..c
            OBVIOUS
          <5> HIDE DEF a, c, d
          <5>3. a + i \in 1..d
            BY <5>1, <5>2, Inside
          <5> QED
            BY <5>3 DEF a, d
        <4>2. s[at[j - 1] + i] = fs[j][i]
          BY <3>1, <1>5
        <4> QED
          BY <4>1, <4>2, <1>4
      <3> QED
        BY <3>2, <3>3, <3>5
    <2> QED
      BY <2>1, <2>2
  <1>11. Cut(t, gs, k, bt)
    BY <1>2, <1>3, <1>4, <1>7, <1>8, <1>9, <1>10 DEF Cut
  <1> QED
    BY <1>2, <1>3, <1>11 DEF Framed, gs, t

\* What is left after a frame is the frames that follow.
LEMMA FramedRest ==
  ASSUME NEW S, NEW s \in Seq(S), NEW fs \in Seq(Seq(S)), NEW k \in 0..Len(fs),
         NEW at, Cut(s, fs, k, at), NEW j \in k..Len(fs)
  PROVE  /\ at[j] \in 0..Len(s)
         /\ Framed(SubSeq(s, at[j] + 1, Len(s)), fs, j)
  <1> DEFINE m == Len(fs)
             n == at[j]
             t == SubSeq(s, n + 1, Len(s))
             bt == [i \in j..m |-> at[i] - n]
  <1>1. k \in Nat /\ m \in Nat /\ j \in Nat /\ k <= j /\ j <= m /\ Len(s) \in Nat
    OBVIOUS
  <1>2. /\ at \in [k..m -> Nat] /\ at[m] = Len(s)
        /\ \A i, l \in k..m : i <= l => at[i] <= at[l]
        /\ \A i \in (k + 1)..m :
             /\ at[i] = at[i - 1] + Len(fs[i])
             /\ \A l \in 1..Len(fs[i]) : s[at[i - 1] + l] = fs[i][l]
    BY DEF Cut
  <1>3. n \in 0..Len(s)
    BY <1>1, <1>2
  <1>4. /\ Len(t) = Len(s) - n
        /\ \A i \in 1..(Len(s) - n) : t[i] = s[n + i]
    BY <1>3, Rest
  <1>5. \A i \in j..m : bt[i] = at[i] - n /\ at[i] \in Nat /\ n <= at[i]
    <2> HIDE DEF m
    <2>1. j \in k..m /\ \A i \in j..m : i \in k..m /\ j <= i
      BY <1>1
    <2>2. \A i \in j..m : at[i] \in Nat /\ at[j] <= at[i]
      BY <1>2, <2>1
    <2>3. \A i \in j..m : bt[i] = at[i] - n
      OBVIOUS
    <2> QED
      BY <2>2, <2>3
  <1> HIDE DEF m, n, t
  <1>6. /\ bt \in [j..m -> Nat] /\ bt[j] = 0 /\ bt[m] = Len(t)
    <2>1. n \in Nat /\ Len(s) \in Nat
      BY <1>1, <1>3
    <2>2. \A i \in j..m : at[i] - n \in Nat
      BY <1>5, <2>1
    <2>3. bt \in [j..m -> Nat]
      BY <2>2
    <2>4. j \in j..m /\ m \in j..m
      BY <1>1
    <2>5. bt[j] = at[j] - n /\ bt[m] = at[m] - n
      BY <1>5, <2>4
    <2>6. at[j] - n = 0
      BY <2>1 DEF n
    <2> HIDE DEF bt
    <2> QED
      BY <1>2, <1>4, <2>3, <2>5, <2>6
  <1> HIDE DEF bt
  <1>7. \A i, l \in j..m : i <= l => bt[i] <= bt[l]
    <2> SUFFICES ASSUME NEW i \in j..m, NEW l \in j..m, i <= l
                 PROVE  bt[i] <= bt[l]
      OBVIOUS
    <2>1. i \in k..m /\ l \in k..m
      BY <1>1
    <2>2. at[i] <= at[l]
      BY <2>1, <1>2
    <2> QED
      BY <2>2, <1>3, <1>5
  <1>8. ASSUME NEW i \in (j + 1)..m
        PROVE  /\ bt[i] = bt[i - 1] + Len(fs[i])
               /\ \A l \in 1..Len(fs[i]) : t[bt[i - 1] + l] = fs[i][l]
    <2>1. i \in (k + 1)..m /\ i - 1 \in j..m /\ i \in j..m /\ i \in 1..m
      BY <1>1
    <2>2. at[i] = at[i - 1] + Len(fs[i]) /\ at[i] <= Len(s)
      <3>1. i \in k..m /\ m \in k..m /\ i <= m
        BY <1>1, <2>1
      <3> QED
        BY <2>1, <3>1, <1>2
    <2>3. /\ bt[i] = at[i] - n /\ bt[i - 1] = at[i - 1] - n
          /\ at[i] \in Nat /\ at[i - 1] \in Nat /\ n <= at[i - 1]
      BY <2>1, <1>5
    <2>4. Len(fs[i]) \in Nat
      BY <2>1 DEF m
    <2>5. ASSUME NEW l \in 1..Len(fs[i]) PROVE t[bt[i - 1] + l] = fs[i][l]
      <3>1. bt[i - 1] + l \in 1..(Len(s) - n)
        <4> DEFINE a == at[i - 1]
                   b == bt[i - 1]
                   c == Len(fs[i])
                   e == at[i]
                   z == Len(s)
        <4>1. b \in Nat
          BY <1>6, <2>1
        <4>2. /\ a \in Nat /\ c \in Nat /\ b = a - n /\ e = a + c /\ e <= z
          BY <2>2, <2>3, <2>4
        <4>3. n \in Nat /\ z \in Nat
          BY <1>1, <1>3
        <4>4. l \in 1..c
          OBVIOUS
        <4> HIDE DEF a, b, c, e, z
        <4>5. b + c <= z - n /\ z - n \in Int
          BY <4>2, <4>3
        <4>6. b + l \in 1..(z - n)
          BY <4>1, <4>2, <4>4, <4>5, Inside
        <4> QED
          BY <4>6 DEF b, z
      <3>2. n + (bt[i - 1] + l) = at[i - 1] + l
        BY <1>3, <2>3, <2>4
      <3>3. s[at[i - 1] + l] = fs[i][l]
        BY <2>1, <1>2
      <3> QED
        BY <3>1, <3>2, <3>3, <1>4
    <2>6. bt[i] = bt[i - 1] + Len(fs[i])
      <3> DEFINE a == at[i - 1]
                 c == Len(fs[i])
                 e == at[i]
      <3>1. /\ bt[i] = e - n /\ bt[i - 1] = a - n /\ e = a + c
            /\ a \in Nat /\ c \in Nat /\ n \in Nat
        BY <1>1, <1>3, <2>2, <2>3, <2>4
      <3> HIDE DEF a, c, e
      <3>2. bt[i] = bt[i - 1] + c
        BY <3>1
      <3> QED
        BY <3>2 DEF c
    <2> QED
      BY <2>5, <2>6
  <1>9. Cut(t, fs, j, bt)
    BY <1>6, <1>7, <1>8 DEF Cut, m
  <1> QED
    BY <1>1, <1>3, <1>9 DEF Framed, t, n, m

\* The first frame, and what follows it.
LEMMA FramedFirst ==
  ASSUME NEW S, NEW s \in Seq(S), NEW fs \in Seq(Seq(S)), NEW k,
         Framed(s, fs, k), k < Len(fs)
  PROVE  LET n == Len(fs[k + 1]) IN
         /\ k + 1 \in 1..Len(fs) /\ n \in 0..Len(s)
         /\ \A i \in 1..n : s[i] = fs[k + 1][i]
         /\ Framed(SubSeq(s, n + 1, Len(s)), fs, k + 1)
  <1>1. PICK at : Cut(s, fs, k, at)
    BY DEF Framed
  <1>2. k \in 0..Len(fs) /\ k + 1 \in k..Len(fs) /\ k + 1 \in (k + 1)..Len(fs)
    BY DEF Framed
  <1>3. Len(fs[k + 1]) \in Nat
    BY <1>2
  <1>4. at[k] = 0 /\ at[k + 1] = at[(k + 1) - 1] + Len(fs[k + 1])
    BY <1>1, <1>2 DEF Cut
  <1>5. (k + 1) - 1 = k
    BY <1>2
  <1>6. at[k + 1] = Len(fs[k + 1])
    BY <1>3, <1>4, <1>5
  <1>7. \A i \in 1..Len(fs[k + 1]) : s[at[(k + 1) - 1] + i] = fs[k + 1][i]
    BY <1>1, <1>2 DEF Cut
  <1>8. \A i \in 1..Len(fs[k + 1]) : s[i] = fs[k + 1][i]
    BY <1>3, <1>4, <1>5, <1>7
  <1>9. /\ at[k + 1] \in 0..Len(s)
        /\ Framed(SubSeq(s, at[k + 1] + 1, Len(s)), fs, k + 1)
    BY <1>1, <1>2, FramedRest
  <1>10. k + 1 \in 1..Len(fs)
    BY <1>2
  <1> QED
    BY <1>6, <1>8, <1>9, <1>10

\* A cut at the end of a frame leaves whole frames, and took the first one.
LEMMA FramedCut ==
  ASSUME NEW S, NEW s \in Seq(S), NEW fs \in Seq(Seq(S)), NEW k,
         Framed(s, fs, k), NEW n \in 1..Len(s),
         \A j \in 1..Len(fs) : \A i \in 1..Len(fs[j]) :
           s[n] = fs[j][i] => i = Len(fs[j])
  PROVE  \E j \in (k + 1)..Len(fs) :
           /\ Framed(SubSeq(s, n + 1, Len(s)), fs, j)
           /\ k < Len(fs) /\ Len(fs[k + 1]) <= n
  <1>1. PICK at : Cut(s, fs, k, at)
    BY DEF Framed
  <1> DEFINE m == Len(fs)
             T == {j \in k..m : n <= at[j]}
  <1>2. k \in Nat /\ m \in Nat /\ k <= m /\ k \in 0..m /\ n \in Nat \ {0}
    BY DEF Framed
  <1>3. /\ at \in [k..m -> Nat] /\ at[k] = 0 /\ at[m] = Len(s)
        /\ \A i, j \in k..m : i <= j => at[i] <= at[j]
        /\ \A j \in (k + 1)..m :
             /\ at[j] = at[j - 1] + Len(fs[j])
             /\ \A i \in 1..Len(fs[j]) : s[at[j - 1] + i] = fs[j][i]
    BY <1>1 DEF Cut
  <1>4. PICK j \in T : \A i \in T : j <= i
    <2>1. m \in T /\ T \subseteq Nat
      BY <1>2, <1>3
    <2> HIDE DEF T
    <2> QED
      BY <2>1, LeastNat
  <1>5. j \in (k + 1)..m /\ j - 1 \in k..m /\ j - 1 \notin T /\ j \in 1..m
    <2>1. j \in k..m /\ j # k
      BY <1>2, <1>3, <1>4
    <2>2. j \in (k + 1)..m /\ j - 1 \in k..m /\ ~(j <= j - 1) /\ j \in 1..m
      BY <1>2, <2>1
    <2> QED
      BY <1>4, <2>2
  <1>6. n <= at[j] /\ at[j - 1] < n /\ at[j] \in Nat /\ at[j - 1] \in Nat
    <2>1. j \in k..m /\ n <= at[j]
      BY <1>4
    <2>2. at[j] \in Nat /\ at[j - 1] \in Nat
      BY <1>3, <1>5, <2>1
    <2>3. ~(n <= at[j - 1])
      BY <1>5
    <2> QED
      BY <1>2, <2>1, <2>2, <2>3
  <1> HIDE DEF T
  <1>7. n = at[j]
    <2> DEFINE i == n - at[j - 1]
    <2>1. at[j] = at[j - 1] + Len(fs[j]) /\ Len(fs[j]) \in Nat
      BY <1>3, <1>5
    <2>2. i \in 1..Len(fs[j]) /\ at[j - 1] + i = n
      <3>1. n \in Nat
        BY <1>2
      <3> QED
        BY <1>6, <2>1, <3>1
    <2>3. s[at[j - 1] + i] = fs[j][i]
      BY <1>3, <1>5, <2>2
    <2>4. i = Len(fs[j])
      BY <1>5, <2>2, <2>3
    <2> QED
      BY <1>2, <1>6, <2>1, <2>4
  <1>8. Framed(SubSeq(s, n + 1, Len(s)), fs, j)
    <2>1. j \in k..m
      BY <1>2, <1>5
    <2> QED
      BY <1>1, <1>2, <1>7, <2>1, FramedRest
  <1>9. k < m /\ k + 1 \in (k + 1)..m /\ k + 1 \in k..m /\ k + 1 <= j
    BY <1>2, <1>5
  <1>10. at[k + 1] = Len(fs[k + 1]) /\ at[k + 1] <= at[j]
    <2>1. at[k + 1] = at[(k + 1) - 1] + Len(fs[k + 1]) /\ (k + 1) - 1 = k
      BY <1>2, <1>3, <1>9
    <2>2. Len(fs[k + 1]) \in Nat
      <3>1. k + 1 \in 1..m
        BY <1>2, <1>9
      <3> QED
        BY <3>1
    <2>3. j \in k..m
      BY <1>2, <1>5
    <2> QED
      BY <1>3, <1>9, <2>1, <2>2, <2>3
  <1> QED
    BY <1>5, <1>7, <1>8, <1>9, <1>10

-----------------------------------------------------------------------------
(* The form of a frame: the peer's and the server's. *)

\* The bytes that hold the length n after the second byte, and its code there.
Size(n) == IF n < ShortCode THEN 0
           ELSE IF n <= MaxShort THEN ShortBytes ELSE LongBytes
Code(n) == IF n < ShortCode THEN n
           ELSE IF n <= MaxShort THEN ShortCode ELSE LongCode

\* The second byte, with MASK as b, and those that hold the length.
LengthForm(b, n) ==
  IF n < ShortCode THEN <<b + n>>
  ELSE <<b + Code(n)>> \o PutUint(Size(n), n)

\* The lengths that can be encoded.
CanFrame == 0..MaxShort \cup 0..(Power[LongBytes] - 1)

\* A length and its code fit, and the length is read back.
LEMMA LengthCode ==
  ASSUME NEW n \in CanFrame
  PROVE  /\ Size(n) \in Nat /\ Code(n) \in 0..(LenCodes - 1)
         /\ Size(n) = CASE Code(n) = ShortCode -> ShortBytes
                        [] Code(n) = LongCode  -> LongBytes
                        [] OTHER               -> 0
         /\ Size(n) = 0 => Code(n) = n /\ n < ShortCode
         /\ Size(n) # 0 => /\ ~(n < ShortCode)
                           /\ PutUint(Size(n), n) \in Seq(Bytes)
                           /\ Len(PutUint(Size(n), n)) = Size(n)
                           /\ Uint(PutUint(Size(n), n)) = n
  <1>1. /\ n \in Nat /\ ShortCode \in Nat /\ LongCode = ShortCode + 1
        /\ LenCodes = ShortCode + 2
        /\ ShortBytes \in Nat \ {0} /\ LongBytes \in Nat \ {0}
    BY Sizes, PowerStep DEF CanFrame
  <1>2. /\ MaxShort \in Nat /\ MaxShort = Power[ShortBytes] - 1
    BY <1>1, PowerStep DEF MaxShort
  <1>3. CASE n < ShortCode
    <2>1. Size(n) = 0 /\ Code(n) = n
      BY <1>3 DEF Size, Code
    <2> QED
      BY <1>1, <1>3, <2>1
  <1>4. CASE ~(n < ShortCode) /\ n <= MaxShort
    <2>1. Size(n) = ShortBytes /\ Code(n) = ShortCode
      BY <1>4 DEF Size, Code
    <2>2. n \in 0..(Power[ShortBytes] - 1)
      BY <1>1, <1>2, <1>4
    <2>3. /\ PutUint(ShortBytes, n) \in Seq(Bytes)
          /\ Len(PutUint(ShortBytes, n)) = ShortBytes
          /\ Uint(PutUint(ShortBytes, n)) = n
      BY <1>1, <2>2, UintPutUint
    <2> QED
      BY <1>1, <1>4, <2>1, <2>3
  <1>5. CASE ~(n < ShortCode) /\ ~(n <= MaxShort)
    <2>1. Size(n) = LongBytes /\ Code(n) = LongCode
      BY <1>5 DEF Size, Code
    <2>3. /\ PutUint(LongBytes, n) \in Seq(Bytes)
          /\ Len(PutUint(LongBytes, n)) = LongBytes
          /\ Uint(PutUint(LongBytes, n)) = n
      <3>1. n \in 0..(Power[LongBytes] - 1)
        BY <1>1, <1>2, <1>5 DEF CanFrame
      <3> QED
        BY <1>1, <3>1, UintPutUint
    <2> QED
      BY <1>1, <1>5, <2>1, <2>3
  <1> QED
    BY <1>3, <1>4, <1>5

\* The bytes of LengthForm.
LEMMA LengthBytes ==
  ASSUME NEW n \in CanFrame, NEW b \in {0, MaskBit}
  PROVE  /\ LengthForm(b, n) \in Seq(Bytes)
         /\ Len(LengthForm(b, n)) = 1 + Size(n)
         /\ LengthForm(b, n)[1] = b + Code(n)
         /\ \A i \in 1..Size(n) :
              LengthForm(b, n)[1 + i] = PutUint(Size(n), n)[i]
  <1>1. /\ Size(n) \in Nat /\ Code(n) \in 0..(LenCodes - 1)
        /\ Size(n) = 0 => Code(n) = n /\ n < ShortCode
        /\ Size(n) # 0 => /\ ~(n < ShortCode)
                          /\ PutUint(Size(n), n) \in Seq(Bytes)
                          /\ Len(PutUint(Size(n), n)) = Size(n)
    BY LengthCode
  <1>2. b + Code(n) \in Bytes
    BY <1>1, Sizes DEF Bytes
  <1> DEFINE h == <<b + Code(n)>>
             u == PutUint(Size(n), n)
  <1>3. h \in Seq(Bytes) /\ Len(h) = 1 /\ h[1] = b + Code(n)
    BY <1>2
  <1>4. CASE Size(n) = 0
    <2>1. LengthForm(b, n) = h
      BY <1>1, <1>4 DEF LengthForm
    <2> HIDE DEF h
    <2> QED
      BY <1>1, <1>3, <1>4, <2>1
  <1>5. CASE Size(n) # 0
    <2>1. LengthForm(b, n) = h \o u
      BY <1>1, <1>5 DEF LengthForm
    <2> HIDE DEF h, u
    <2>2. u \in Seq(Bytes) /\ Len(u) = Size(n)
      BY <1>1, <1>5 DEF u
    <2>3. /\ h \o u \in Seq(Bytes) /\ Len(h \o u) = 1 + Size(n)
          /\ (h \o u)[1] = h[1]
          /\ \A i \in 1..Size(n) : (h \o u)[1 + i] = u[i]
      <3>1. /\ h \o u \in Seq(Bytes) /\ Len(h \o u) = Len(h) + Len(u)
            /\ \A i \in 1..Len(h) : (h \o u)[i] = h[i]
            /\ \A i \in 1..Len(u) : (h \o u)[Len(h) + i] = u[i]
        <4>1. h \in Seq(Bytes) /\ u \in Seq(Bytes)
          BY <1>3, <2>2
        <4> QED
          BY <4>1, Joined
      <3>2. Len(h) = 1 /\ Len(u) = Size(n) /\ 1 \in 1..Len(h)
        BY <1>3, <2>2
      <3> QED
        BY <3>1, <3>2
    <2> QED
      BY <1>3, <2>1, <2>3 DEF u
  <1> QED
    BY <1>4, <1>5

\* Four parts joined.
HasParts(w, S, a, b, c, d) ==
  /\ w \in Seq(S) /\ Len(w) = Len(a) + Len(b) + Len(c) + Len(d)
  /\ \A i \in 1..Len(a) : w[i] = a[i]
  /\ \A i \in 1..Len(b) : w[Len(a) + i] = b[i]
  /\ \A i \in 1..Len(c) : w[Len(a) + Len(b) + i] = c[i]
  /\ \A i \in 1..Len(d) : w[Len(a) + Len(b) + Len(c) + i] = d[i]

\* They are there, each in its place.
LEMMA JoinedFour ==
  ASSUME NEW S, NEW a \in Seq(S), NEW b \in Seq(S), NEW c \in Seq(S),
         NEW d \in Seq(S), NEW w, w = a \o b \o c \o d
  PROVE  HasParts(w, S, a, b, c, d)
  <1> DEFINE ab == a \o b
             abc == ab \o c
             n == Len(a)
             p == n + Len(b)
             q == p + Len(c)
  <1>0. Len(a) \in Nat /\ Len(b) \in Nat /\ Len(c) \in Nat /\ Len(d) \in Nat
    OBVIOUS
  <1>1. /\ ab \in Seq(S) /\ Len(ab) = Len(a) + Len(b)
        /\ \A i \in 1..Len(a) : ab[i] = a[i]
        /\ \A i \in 1..Len(b) : ab[Len(a) + i] = b[i]
    BY Joined
  <1> HIDE DEF ab
  <1>2. ab \in Seq(S)
    BY <1>1
  <1>3. /\ abc \in Seq(S) /\ Len(abc) = Len(ab) + Len(c)
        /\ \A i \in 1..Len(ab) : abc[i] = ab[i]
        /\ \A i \in 1..Len(c) : abc[Len(ab) + i] = c[i]
    BY <1>2, Joined
  <1> HIDE DEF abc
  <1>4. abc \in Seq(S)
    BY <1>3
  <1>5. /\ w \in Seq(S) /\ Len(w) = Len(abc) + Len(d)
        /\ \A i \in 1..Len(abc) : w[i] = abc[i]
        /\ \A i \in 1..Len(d) : w[Len(abc) + i] = d[i]
    <2>1. w = abc \o d
      BY DEF abc, ab
    <2> DEFINE v == abc \o d
    <2>2. /\ v \in Seq(S) /\ Len(v) = Len(abc) + Len(d)
          /\ \A i \in 1..Len(abc) : v[i] = abc[i]
          /\ \A i \in 1..Len(d) : v[Len(abc) + i] = d[i]
      BY <1>4, Joined
    <2> HIDE DEF v
    <2> QED
      BY <2>1, <2>2 DEF v
  <1>6. n \in Nat /\ p \in Nat /\ q \in Nat /\ Len(ab) = p /\ Len(abc) = q
    BY <1>0, <1>1, <1>3
  <1>7. ASSUME NEW i \in 1..n PROVE w[i] = a[i]
    <2>1. i \in 1..Len(ab) /\ i \in 1..Len(abc)
      BY <1>0, <1>6
    <2> QED
      BY <1>1, <1>3, <1>5, <2>1
  <1>8. ASSUME NEW i \in 1..Len(b) PROVE w[n + i] = b[i]
    <2>1. n + i \in 1..Len(ab) /\ n + i \in 1..Len(abc)
      BY <1>0, <1>6
    <2> QED
      BY <1>1, <1>3, <1>5, <2>1
  <1>9. ASSUME NEW i \in 1..Len(c) PROVE w[p + i] = c[i]
    <2>1. p + i \in 1..Len(abc)
      BY <1>0, <1>6
    <2> QED
      BY <1>3, <1>5, <1>6, <2>1
  <1>10. \A i \in 1..Len(d) : w[q + i] = d[i]
    BY <1>5, <1>6
  <1>11. Len(w) = q + Len(d)
    BY <1>5, <1>6
  <1> HIDE DEF n, p, q
  <1> QED
    BY <1>5, <1>7, <1>8, <1>9, <1>10, <1>11 DEF HasParts, n, p, q

\* A part of a sequence that agrees with another one.
LEMMA Part ==
  ASSUME NEW S, NEW s \in Seq(S), NEW t \in Seq(S), NEW p \in Nat,
         p + Len(t) <= Len(s), \A i \in 1..Len(t) : s[p + i] = t[i]
  PROVE  SubSeq(s, p + 1, p + Len(t)) = t
  <1> DEFINE u == SubSeq(s, p + 1, p + Len(t))
  <1>1. u \in Seq(S) /\ Len(u) = Len(t)
    OBVIOUS
  <1>2. \A i \in 1..Len(t) : u[i] = s[p + i]
    OBVIOUS
  <1> HIDE DEF u
  <1>3. u = t
    BY <1>1, <1>2
  <1> QED
    BY <1>3 DEF u

\* A frame with opcode op, a length n after MASK as b, a key and data.
Form(op, b, n, key, data) ==
  <<FinBit + op>> \o LengthForm(b, n) \o key \o data

\* Its bytes, at the beginning of s.
Begins(s, op, b, n, key, data) ==
  /\ 2 + Size(n) + Len(key) + Len(data) <= Len(s)
  /\ s[1] = FinBit + op /\ s[2] = b + Code(n)
  /\ \A i \in 1..Size(n) : s[2 + i] = PutUint(Size(n), n)[i]
  /\ \A i \in 1..Len(key) : s[2 + Size(n) + i] = key[i]
  /\ \A i \in 1..Len(data) : s[2 + Size(n) + Len(key) + i] = data[i]

HasForm(w, op, b, n, key, data) ==
  /\ w \in Seq(Bytes) /\ Len(w) = 2 + Size(n) + Len(key) + Len(data)
  /\ Begins(w, op, b, n, key, data)

\* The bytes of a frame of this form.
LEMMA FormBytes ==
  ASSUME NEW op \in 0..(Opcodes - 1), NEW b \in {0, MaskBit}, NEW n \in CanFrame,
         NEW key \in Seq(Bytes), NEW data \in Seq(Bytes),
         NEW w, w = Form(op, b, n, key, data)
  PROVE  HasForm(w, op, b, n, key, data)
  <1> DEFINE h == <<FinBit + op>>
             l == LengthForm(b, n)
             p == 2 + Size(n)
             q == p + Len(key)
  <1>1. h \in Seq(Bytes) /\ Len(h) = 1 /\ h[1] = FinBit + op
    <2>1. FinBit + op \in Bytes
      BY Sizes DEF Bytes
    <2> QED
      BY <2>1
  <1>2. /\ l \in Seq(Bytes) /\ Len(l) = 1 + Size(n) /\ l[1] = b + Code(n)
        /\ \A i \in 1..Size(n) : l[1 + i] = PutUint(Size(n), n)[i]
    BY LengthBytes
  <1>3. Size(n) \in Nat /\ Len(key) \in Nat /\ Len(data) \in Nat
    BY LengthCode
  <1>4. w = h \o l \o key \o data
    BY DEF Form
  <1> HIDE DEF h, l
  <1>5. h \in Seq(Bytes) /\ l \in Seq(Bytes)
    BY <1>1, <1>2
  <1>6. /\ w \in Seq(Bytes) /\ Len(w) = Len(h) + Len(l) + Len(key) + Len(data)
        /\ \A i \in 1..Len(h) : w[i] = h[i]
        /\ \A i \in 1..Len(l) : w[Len(h) + i] = l[i]
        /\ \A i \in 1..Len(key) : w[Len(h) + Len(l) + i] = key[i]
        /\ \A i \in 1..Len(data) : w[Len(h) + Len(l) + Len(key) + i] = data[i]
    <2>1. HasParts(w, Bytes, h, l, key, data)
      BY <1>4, <1>5, JoinedFour
    <2> QED
      BY <2>1 DEF HasParts
  <1>7. p \in Nat /\ q \in Nat /\ Len(h) + Len(l) = p
        /\ Len(h) + Len(l) + Len(key) = q
    BY <1>1, <1>2, <1>3
  <1>8. w[1] = FinBit + op
    BY <1>1, <1>6
  <1>9. w[2] = b + Code(n)
    <2>1. 1 \in 1..Len(l) /\ Len(h) + 1 = 2
      BY <1>1, <1>2, <1>3
    <2> QED
      BY <1>2, <1>6, <2>1
  <1>10. ASSUME NEW i \in 1..Size(n) PROVE w[2 + i] = PutUint(Size(n), n)[i]
    <2>1. 1 + i \in 1..Len(l) /\ Len(h) + (1 + i) = 2 + i
      BY <1>1, <1>2, <1>3
    <2> QED
      BY <1>2, <1>6, <2>1
  <1>11. /\ \A i \in 1..Len(key) : w[p + i] = key[i]
         /\ \A i \in 1..Len(data) : w[q + i] = data[i]
         /\ Len(w) = q + Len(data)
    BY <1>6, <1>7
  <1> QED
    <2>1. /\ Len(w) = 2 + Size(n) + Len(key) + Len(data)
          /\ 2 + Size(n) + Len(key) + Len(data) <= Len(w)
      BY <1>3, <1>11
    <2>2. Begins(w, op, b, n, key, data)
      BY <1>8, <1>9, <1>10, <1>11, <2>1 DEF Begins
    <2> QED
      BY <1>6, <2>1, <2>2 DEF HasForm

\* What begins with such a frame begins with its bytes.
LEMMA Beginning ==
  ASSUME NEW op, NEW b, NEW n \in CanFrame, NEW key \in Seq(Bytes),
         NEW data \in Seq(Bytes), NEW w, HasForm(w, op, b, n, key, data),
         NEW s \in Seq(Bytes), Len(w) <= Len(s), \A i \in 1..Len(w) : s[i] = w[i]
  PROVE  Begins(s, op, b, n, key, data)
  <1> DEFINE x == Size(n)
             k == Len(key)
             l == Len(data)
  <1>1. x \in Nat /\ k \in Nat /\ l \in Nat
    BY LengthCode
  <1>2. /\ Len(w) = 2 + x + k + l
        /\ w[1] = FinBit + op /\ w[2] = b + Code(n)
        /\ \A i \in 1..x : w[2 + i] = PutUint(x, n)[i]
        /\ \A i \in 1..k : w[2 + x + i] = key[i]
        /\ \A i \in 1..l : w[2 + x + k + i] = data[i]
    BY DEF HasForm, Begins
  <1> HIDE DEF x, k, l
  <1>3. \A i \in 1..(2 + x + k + l) : s[i] = w[i]
    BY <1>2
  <1>4. ASSUME NEW i \in 1..x PROVE s[2 + i] = PutUint(x, n)[i]
    <2>1. 2 + i \in 1..(2 + x + k + l)
      BY <1>1
    <2> QED
      BY <1>2, <1>3, <2>1
  <1>5. ASSUME NEW i \in 1..k PROVE s[2 + x + i] = key[i]
    <2>1. 2 + x + i \in 1..(2 + x + k + l)
      BY <1>1
    <2> QED
      BY <1>2, <1>3, <2>1
  <1>6. ASSUME NEW i \in 1..l PROVE s[2 + x + k + i] = data[i]
    <2>1. 2 + x + k + i \in 1..(2 + x + k + l)
      BY <1>1
    <2> QED
      BY <1>2, <1>3, <2>1
  <1>7. 1 \in 1..(2 + x + k + l) /\ 2 \in 1..(2 + x + k + l)
    BY <1>1
  <1>8. 2 + x + k + l <= Len(s)
    BY <1>2
  <1> QED
    BY <1>2, <1>3, <1>4, <1>5, <1>6, <1>7, <1>8 DEF Begins, x, k, l

\* The length is read from where it is.
LEMMA LengthRead ==
  ASSUME NEW op, NEW b, NEW n \in CanFrame, NEW key \in Seq(Bytes),
         NEW data \in Seq(Bytes), NEW s \in Seq(Bytes),
         Begins(s, op, b, n, key, data)
  PROVE  n = IF Size(n) = 0 THEN Code(n) ELSE Uint(SubSeq(s, 3, 2 + Size(n)))
  <1>1. CASE Size(n) = 0
    BY <1>1, LengthCode
  <1>2. CASE Size(n) # 0
    <2> DEFINE u == PutUint(Size(n), n)
    <2>1. u \in Seq(Bytes) /\ Len(u) = Size(n) /\ Uint(u) = n /\ Size(n) \in Nat
      BY <1>2, LengthCode
    <2> HIDE DEF u
    <2>2. \A i \in 1..Len(u) : s[2 + i] = u[i]
      BY <2>1 DEF Begins, u
    <2>3. 2 + Len(u) <= Len(s)
      <3>1. Len(key) \in Nat /\ Len(data) \in Nat /\ Len(s) \in Nat
        OBVIOUS
      <3>2. 2 + Size(n) + Len(key) + Len(data) <= Len(s)
        BY DEF Begins
      <3> QED
        BY <2>1, <3>1, <3>2
    <2>4. SubSeq(s, 2 + 1, 2 + Len(u)) = u
      BY <2>1, <2>2, <2>3, Part
    <2>5. 2 + 1 = 3
      OBVIOUS
    <2> QED
      BY <1>2, <2>1, <2>4, <2>5
  <1> QED
    BY <1>1, <1>2

\* EncodeFrame and Wire make such frames.
LEMMA EncodeForm ==
  ASSUME NEW p \in Seq(Bytes), NEW op \in 0..(Opcodes - 1), Len(p) \in CanFrame
  PROVE  EncodeFrame(p, op) = Form(op, 0, Len(p), <<>>, p)
  <1> DEFINE n == Len(p)
             h == <<FinBit + op>>
             l == LengthForm(0, n)
  <1>1. n \in Nat /\ ShortCode \in Int /\ LongCode \in Int /\ MaxShort \in Int
    <2>1. ShortBytes \in Nat /\ Opcodes \in Nat /\ n \in Nat
      BY Sizes
    <2>2. Power[ShortBytes] \in Nat
      BY <2>1, PowerStep
    <2> QED
      BY <2>1, <2>2, Sizes DEF MaxShort
  <1>2. EncodeFrame(p, op) = h \o l \o p
    <2>1. CASE n < ShortCode
      <3>1. 0 + n = n /\ ~(n >= ShortCode)
        BY <1>1, <2>1
      <3>2. l = <<n>>
        BY <2>1, <3>1 DEF LengthForm
      <3>3. EncodeFrame(p, op) = h \o <<n>> \o p
        BY <2>1, <3>1 DEF EncodeFrame
      <3> QED
        BY <3>2, <3>3
    <2>2. CASE ~(n < ShortCode) /\ n <= MaxShort
      <3>1. n >= ShortCode /\ n <= MaxShort /\ 0 + ShortCode = ShortCode
        BY <1>1, <2>2
      <3>2. Size(n) = ShortBytes /\ Code(n) = ShortCode
        BY <2>2 DEF Size, Code
      <3> QED
        BY <2>2, <3>1, <3>2 DEF EncodeFrame, LengthForm
    <2>3. CASE ~(n < ShortCode) /\ ~(n <= MaxShort)
      <3>1. 0 + LongCode = LongCode
        BY <1>1
      <3>2. Size(n) = LongBytes /\ Code(n) = LongCode
        BY <2>3 DEF Size, Code
      <3> QED
        BY <2>3, <3>1, <3>2 DEF EncodeFrame, LengthForm
    <2> QED
      BY <2>1, <2>2, <2>3
  <1>3. h \o l \in Seq(Bytes)
    <2>1. FinBit + op \in Bytes
      BY Sizes DEF Bytes
    <2>2. h \in Seq(Bytes) /\ l \in Seq(Bytes)
      BY <2>1, LengthBytes
    <2> HIDE DEF h, l
    <2> QED
      BY <2>2
  <1>4. (h \o l) \o <<>> = h \o l
    <2> HIDE DEF h, l
    <2> QED
      BY <1>3
  <1> HIDE DEF h, l
  <1> QED
    BY <1>2, <1>4 DEF Form, h, l

\* A frame of the peer has this form, with its payload masked.
LEMMA WireForm ==
  ASSUME NEW m, IsMessage(m), Len(m.payload) \in CanFrame
  PROVE  Wire(m) = Form(m.opcode, MaskBit, Len(m.payload), Key,
                        Unmasked(m.payload, Key))
  <1> DEFINE n == Len(m.payload)
  <1>1. CASE n < ShortCode
    BY <1>1 DEF Wire, Form, LengthForm, Unmasked
  <1>2. CASE ~(n < ShortCode) /\ n <= MaxShort
    <2>1. Size(n) = ShortBytes /\ Code(n) = ShortCode
      BY <1>2 DEF Size, Code
    <2> QED
      BY <1>2, <2>1 DEF Wire, Form, LengthForm, Unmasked
  <1>3. CASE ~(n < ShortCode) /\ ~(n <= MaxShort)
    <2>1. Size(n) = LongBytes /\ Code(n) = LongCode
      BY <1>3 DEF Size, Code
    <2> QED
      BY <1>3, <2>1 DEF Wire, Form, LengthForm, Unmasked
  <1> QED
    BY <1>1, <1>2, <1>3

-----------------------------------------------------------------------------
(* Frames are read back: by DecodeFrame, and by the peer. *)

\* What a Go int holds.
LEMMA Int64Small ==
  ASSUME NEW x \in 0..MaxInt
  PROVE  Int64(x) = x
  <1>1. MaxInt \in Nat /\ x \in Nat /\ x <= MaxInt
    BY Sizes
  <1> DEFINE d == 2 * (MaxInt + 1)
             y == x + MaxInt + 1
  <1>2. d \in Nat \ {0} /\ y \in 0..(d - 1) /\ y = d * 0 + y
    BY <1>1
  <1>3. y % d = y
    <2> HIDE DEF d, y
    <2> QED
      BY <1>2, Quotient
  <1>4. Int64(x) = (y % d) - (MaxInt + 1)
    BY DEF Int64
  <1>5. y - (MaxInt + 1) = x
    BY <1>1
  <1> HIDE DEF d, y
  <1> QED
    BY <1>3, <1>4, <1>5

\* DecodeFrame finds the frame that data begins with.
LEMMA DecodeForm ==
  ASSUME NEW op \in 0..(Opcodes - 1), NEW b, NEW key \in Seq(Bytes),
         NEW d \in Seq(Bytes), Len(d) \in CanFrame,
         \/ b = 0 /\ key = <<>>
         \/ b = MaskBit /\ Len(key) = MaskBytes,
         NEW data \in Seq(Bytes), Len(data) <= MaxInt,
         NEW w, w = Form(op, b, Len(d), key, d), Len(w) <= Len(data),
         \A i \in 1..Len(w) : data[i] = w[i]
  PROVE  /\ b = 0 => DecodeFrame(data) = Outcome("frame", op, d)
         /\ b = MaskBit =>
              DecodeFrame(data) = Outcome("frame", op, Unmasked(d, key))
  <1> DEFINE n == Len(d)
             x == Size(n)
             rsv == (data[1] \div RsvBit) % 2 = 1
             opcode == data[1] % Opcodes
             isMasked == data[2] >= MaskBit
             code == data[2] % LenCodes
             extended == CASE code = ShortCode -> ShortBytes
                           [] code = LongCode  -> LongBytes
                           [] OTHER            -> 0
             length == IF extended = 0 THEN code
                       ELSE Uint(SubSeq(data, 3, 2 + extended))
             start == 2 + extended + (IF isMasked THEN MaskBytes ELSE 0)
             end == Int64(start + Int64(length))
             mask == SubSeq(data, start - MaskBytes + 1, start)
             payload == SubSeq(data, start + 1, end)
             k == Len(key)
  <1>1. /\ n \in Nat /\ x \in Nat /\ k \in Nat /\ Len(data) \in Nat
        /\ MaxInt \in Nat /\ MaskBytes \in Nat
    <2>1. n \in CanFrame /\ n \in Nat /\ k \in Nat /\ Len(data) \in Nat
      OBVIOUS
    <2>2. x \in Nat
      BY <2>1, LengthCode
    <2> HIDE DEF n, x, k
    <2> QED
      BY <2>1, <2>2, Sizes
  <1>2. HasForm(w, op, b, n, key, d)
    <2>1. b \in {0, MaskBit}
      OBVIOUS
    <2> QED
      BY <2>1, FormBytes
  <1>3. /\ Begins(data, op, b, n, key, d)
        /\ data[1] = FinBit + op /\ data[2] = b + Code(n)
        /\ \A i \in 1..k : data[2 + x + i] = key[i]
        /\ \A i \in 1..n : data[2 + x + k + i] = d[i]
        /\ 2 + x + k + n <= Len(data)
    <2>1. Begins(data, op, b, n, key, d)
      BY <1>2, Beginning
    <2> QED
      BY <2>1 DEF Begins
  <1>0. Len(w) = 2 + x + k + n
    BY <1>2 DEF HasForm
  <1> HIDE DEF n, x, k
  <1>4. ~rsv /\ opcode = op
    <2> DEFINE y == data[1]
    <2>1. y = Opcodes * 2 + op /\ y \in Nat /\ Opcodes \in Nat \ {0} /\ RsvBit = Opcodes
      BY <1>3, Sizes
    <2> HIDE DEF y
    <2>2. y \div Opcodes = 2 /\ y % Opcodes = op
      BY <2>1, Quotient
    <2>3. ~((y \div RsvBit) % 2 = 1)
      BY <2>1, <2>2
    <2> QED
      BY <2>2, <2>3 DEF y
  <1>5. /\ code = Code(n)
        /\ b = 0 => ~isMasked
        /\ b # 0 => isMasked
    <2> DEFINE y == data[2]
               c == Code(n)
    <2>1. /\ c \in 0..(LenCodes - 1) /\ LenCodes \in Nat \ {0}
          /\ MaskBit = LenCodes /\ y = b + c
      <3>1. Code(n) \in 0..(LenCodes - 1)
        BY LengthCode DEF n
      <3> QED
        BY <1>3, <3>1, Sizes
    <2> HIDE DEF y, c
    <2>a. ASSUME NEW q \in Nat, y \in Nat, y = LenCodes * q + c
          PROVE  y % LenCodes = c
      BY <2>1, <2>a, Quotient
    <2>2. CASE b = 0
      <3>1. y \in Nat /\ y = LenCodes * 0 + c /\ ~(y >= MaskBit)
        BY <2>1, <2>2
      <3>2. y % LenCodes = c
        BY <2>a, <3>1
      <3> QED
        BY <2>2, <3>1, <3>2 DEF y, c
    <2>3. CASE b = MaskBit
      <3>1. y \in Nat /\ y = LenCodes * 1 + c /\ y >= MaskBit /\ b # 0
        BY <2>1, <2>3
      <3>2. y % LenCodes = c
        BY <2>a, <3>1
      <3> QED
        BY <3>1, <3>2 DEF y, c
    <2> QED
      BY <2>2, <2>3
  <1> HIDE DEF rsv, opcode, isMasked, code
  <1>6. extended = x
    BY <1>5, LengthCode DEF x, n
  <1> HIDE DEF extended
  <1>7. length = n
    <2>1. n = IF x = 0 THEN Code(n) ELSE Uint(SubSeq(data, 3, 2 + x))
      BY <1>3, LengthRead DEF x, n
    <2> QED
      BY <1>5, <1>6, <2>1
  <1> HIDE DEF length
  <1>8. start = 2 + x + k /\ start \in Nat /\ (b # 0 => k = MaskBytes)
    <2>1. CASE b = 0 /\ key = <<>>
      <3>1. k = 0 /\ ~isMasked
        BY <1>5, <2>1 DEF k
      <3> QED
        BY <1>1, <1>6, <2>1, <3>1
    <2>2. CASE b = MaskBit /\ Len(key) = MaskBytes
      <3>1. k = MaskBytes /\ isMasked
        BY <1>5, <2>2, Sizes DEF k
      <3> QED
        BY <1>1, <1>6, <3>1
    <2> QED
      BY <2>1, <2>2
  <1> HIDE DEF start
  <1>9. end = start + n /\ end = Len(w) /\ end \in Nat
    <2>1. n \in 0..MaxInt /\ start + n \in 0..MaxInt
      BY <1>0, <1>1, <1>3, <1>8
    <2>2. Int64(n) = n /\ Int64(start + n) = start + n
      BY <2>1, Int64Small
    <2> QED
      BY <1>0, <1>1, <1>3, <1>7, <1>8, <2>2
  <1> HIDE DEF end
  <1>10. payload = d
    <2>1. \A i \in 1..Len(d) : data[start + i] = d[i]
      BY <1>3, <1>8 DEF n
    <2>2. start + Len(d) <= Len(data) /\ start + Len(d) = end
      BY <1>3, <1>8, <1>9 DEF n
    <2> QED
      BY <1>8, <2>1, <2>2, Part
  <1>11. b # 0 => mask = key
    <2> SUFFICES ASSUME b # 0 PROVE mask = key
      OBVIOUS
    <2>1. start - MaskBytes = 2 + x /\ 2 + x \in Nat /\ start = 2 + x + Len(key)
      <3>1. start - MaskBytes = 2 + x /\ 2 + x \in Nat /\ start = 2 + x + k
        BY <1>1, <1>8
      <3> QED
        BY <3>1 DEF k
    <2>2. \A i \in 1..Len(key) : data[2 + x + i] = key[i]
      BY <1>3 DEF k
    <2>3. 2 + x + Len(key) <= Len(data)
      <3>1. 2 + x + k <= Len(data)
        BY <1>1, <1>3
      <3> QED
        BY <3>1 DEF k
    <2>4. SubSeq(data, 2 + x + 1, 2 + x + Len(key)) = key
      BY <2>1, <2>2, <2>3, Part
    <2> QED
      BY <2>1, <2>4
  <1> HIDE DEF payload, mask
  <1>12. ~(Len(data) < 2 \/ rsv \/ Len(data) < start \/ Len(data) < end)
         /\ ~(end < start)
    BY <1>0, <1>1, <1>3, <1>4, <1>8, <1>9
  <1>13. DecodeFrame(data) =
           IF Len(data) < 2 \/ rsv \/ Len(data) < start \/ Len(data) < end
           THEN Outcome("error", 0, <<>>)
           ELSE IF end < start THEN Outcome("panic", 0, <<>>)
           ELSE IF isMasked THEN Outcome("frame", opcode, Unmasked(payload, mask))
           ELSE Outcome("frame", opcode, payload)
    BY DEF DecodeFrame, rsv, opcode, isMasked, code, extended, length, start,
       end, mask, payload
  <1>14. MaskBit # 0
    BY Sizes
  <1> QED
    BY <1>4, <1>5, <1>10, <1>11, <1>12, <1>13, <1>14

\* The peer finds the frame that EncodeFrame made of m at the beginning of out.
LEMMA HearForm ==
  ASSUME Hears, out \in Seq(Bytes),
         NEW m, IsMessage(m), m = Message(m.opcode, m.payload),
         Len(m.payload) \in CanFrame,
         NEW w, w = EncodeFrame(m.payload, m.opcode), Len(w) <= Len(out),
         \A i \in 1..Len(w) : out[i] = w[i]
  PROVE  heard' = Append(heard, m) /\ out' = SubSeq(out, Len(w) + 1, Len(out))
  <1> DEFINE d == m.payload
             op == m.opcode
             n == Len(d)
             x == Size(n)
             code == out[2]
             extended == CASE code = ShortCode -> ShortBytes
                           [] code = LongCode  -> LongBytes
                           [] OTHER            -> 0
             length == IF extended = 0 THEN code
                       ELSE Uint(SubSeq(out, 3, 2 + extended))
             end == 2 + extended + length
             payload == SubSeq(out, end - length + 1, end)
             opcode == out[1] % Opcodes
  <1>1. /\ op \in 0..(Opcodes - 1) /\ d \in Seq(Bytes) /\ n \in CanFrame
        /\ n \in Nat /\ x \in Nat /\ Opcodes \in Nat \ {0}
        /\ Len(out) \in Nat /\ m = Message(op, d)
    <2>1. d \in Seq(Bytes) /\ op \in 0..(Opcodes - 1)
      BY DEF IsMessage, Bytes
    <2>2. n \in CanFrame /\ m = Message(op, d)
      OBVIOUS
    <2>3. x \in Nat
      BY <2>2, LengthCode
    <2>4. n \in Nat /\ Len(out) \in Nat
      BY <2>1
    <2> HIDE DEF n, x, op, d
    <2> QED
      BY <2>1, <2>2, <2>3, <2>4, Sizes
  <1>2. w = Form(op, 0, n, <<>>, d)
    BY <1>1, EncodeForm
  <1> HIDE DEF n, x, d, op
  <1>3. HasForm(w, op, 0, n, <<>>, d)
    <2>1. <<>> \in Seq(Bytes) /\ 0 \in {0, MaskBit}
      OBVIOUS
    <2> QED
      BY <1>1, <1>2, <2>1, FormBytes
  <1>4. /\ Begins(out, op, 0, n, <<>>, d)
        /\ out[1] = FinBit + op /\ out[2] = 0 + Code(n)
        /\ \A i \in 1..n : out[2 + x + i] = d[i]
        /\ Len(w) = 2 + x + n
    <2>1. <<>> \in Seq(Bytes) /\ Len(<<>>) = 0
      OBVIOUS
    <2>2. Begins(out, op, 0, n, <<>>, d)
      BY <1>1, <1>3, <2>1, Beginning
    <2>3. 2 + x + 0 = 2 + x
      BY <1>1
    <2>4. \A i \in 1..Len(d) : out[2 + Size(n) + Len(<<>>) + i] = d[i]
      BY <2>2 DEF Begins
    <2> QED
      BY <1>1, <1>3, <2>1, <2>2, <2>3, <2>4 DEF HasForm, Begins, x, n
  <1>5. opcode = op
    <2> DEFINE y == out[1]
    <2>1. y = Opcodes * 2 + op /\ y \in Nat /\ Opcodes \in Nat \ {0}
      BY <1>1, <1>4, Sizes
    <2> HIDE DEF y
    <2>2. y % Opcodes = op
      BY <1>1, <2>1, Quotient
    <2> QED
      BY <2>2 DEF y
  <1>6. code = Code(n) /\ Code(n) \in Int
    <2>1. Code(n) \in 0..(LenCodes - 1)
      BY <1>1, LengthCode
    <2> QED
      BY <1>4, <2>1, Sizes
  <1> HIDE DEF code, opcode
  <1>7. extended = x
    BY <1>1, <1>6, LengthCode DEF x
  <1> HIDE DEF extended
  <1>8. length = n
    <2>1. n = IF x = 0 THEN Code(n) ELSE Uint(SubSeq(out, 3, 2 + x))
      <3>1. <<>> \in Seq(Bytes)
        OBVIOUS
      <3> QED
        BY <1>1, <1>4, <3>1, LengthRead DEF x
    <2> QED
      BY <1>6, <1>7, <2>1
  <1> HIDE DEF length
  <1>9. end = Len(w) /\ end - length = 2 + x /\ end = 2 + x + Len(d)
    BY <1>1, <1>4, <1>7, <1>8 DEF n
  <1> HIDE DEF end
  <1>10. payload = d
    <2>1. 2 + x \in Nat /\ 2 + x + Len(d) <= Len(out)
      BY <1>1, <1>9
    <2>2. \A i \in 1..Len(d) : out[2 + x + i] = d[i]
      BY <1>4 DEF n
    <2>3. SubSeq(out, 2 + x + 1, 2 + x + Len(d)) = d
      BY <1>1, <2>1, <2>2, Part
    <2> QED
      BY <1>9, <2>3
  <1> HIDE DEF payload
  <1>11. /\ heard' = Append(heard, Message(opcode, payload))
         /\ out' = SubSeq(out, end + 1, Len(out))
    BY DEF Hears, code, extended, length, end, payload, opcode
  <1> QED
    BY <1>1, <1>5, <1>9, <1>10, <1>11

\* What is masked with a key of bytes is as many bytes, and masked twice it is as
\* it was.
LEMMA UnmaskedBytes ==
  ASSUME NEW d \in Seq(Bytes), NEW key \in Seq(Bytes), Len(key) = MaskBytes
  PROVE  /\ Unmasked(d, key) \in Seq(Bytes) /\ Len(Unmasked(d, key)) = Len(d)
         /\ Unmasked(Unmasked(d, key), key) = d
  <1> DEFINE n == Len(d)
             e == Unmasked(d, key)
  <1>1. /\ n \in Nat /\ \A i \in 1..n : d[i] \in Bytes
        /\ MaskBytes \in Nat \ {0}
    BY Sizes
  <1>2. \A i \in 1..n : key[((i - 1) % MaskBytes) + 1] \in Bytes
    <2> TAKE i \in 1..n
    <2>1. i - 1 \in Nat
      OBVIOUS
    <2>2. (i - 1) % MaskBytes \in 0..(MaskBytes - 1)
      BY <1>1, <2>1, Division
    <2>3. ((i - 1) % MaskBytes) + 1 \in 1..Len(key)
      BY <1>1, <2>2
    <2> QED
      BY <2>3
  <1>3. e \in Seq(Bytes) /\ Len(e) = n
    <2>1. e \in [1..n -> Bytes]
      BY <1>1, <1>2, XorAssumption DEF Unmasked
    <2> QED
      BY <1>1, <2>1
  <1>4. Unmasked(e, key) = d
    <2>1. \A i \in 1..n :
            XorByte(e[i], key[((i - 1) % MaskBytes) + 1]) = d[i]
      BY <1>1, <1>2, XorAssumption DEF Unmasked
    <2> HIDE DEF e
    <2>2. Unmasked(e, key) = [i \in 1..n |-> d[i]]
      BY <1>3, <2>1 DEF Unmasked
    <2>3. d = [i \in 1..n |-> d[i]]
      OBVIOUS
    <2> QED
      BY <2>2, <2>3
  <1> QED
    BY <1>3, <1>4

\* So it is with the key of the peer.
LEMMA Masking ==
  ASSUME NEW d \in Seq(Bytes)
  PROVE  /\ Key \in Seq(Bytes) /\ Len(Key) = MaskBytes
         /\ Unmasked(d, Key) \in Seq(Bytes) /\ Len(Unmasked(d, Key)) = Len(d)
         /\ Unmasked(Unmasked(d, Key), Key) = d
  <1>1. Key \in [1..MaskBytes -> Bytes] /\ MaskBytes \in Nat
    BY WsStreamAssumption, Sizes
  <1>2. Key \in Seq(Bytes) /\ Len(Key) = MaskBytes
    BY <1>1
  <1> QED
    BY <1>2, UnmaskedBytes

\* The server's DecodeFrame finds the peer's frame at the beginning of data.
LEMMA DecodeWire ==
  ASSUME NEW m, IsMessage(m), Len(m.payload) \in CanFrame,
         NEW data \in Seq(Bytes), Len(data) <= MaxInt,
         Len(Wire(m)) <= Len(data),
         \A i \in 1..Len(Wire(m)) : data[i] = Wire(m)[i]
  PROVE  DecodeFrame(data) = Outcome("frame", m.opcode, m.payload)
  <1> DEFINE d == m.payload
             op == m.opcode
             n == Len(d)
             w == Wire(m)
             e == Unmasked(d, Key)
  <1>1. /\ op \in 0..(Opcodes - 1) /\ d \in Seq(Bytes) /\ n \in CanFrame
        /\ n \in Nat
    BY DEF IsMessage, Bytes, CanFrame
  <1>2. /\ Key \in Seq(Bytes) /\ Len(Key) = MaskBytes
        /\ e \in Seq(Bytes) /\ Len(e) = n /\ Unmasked(e, Key) = d
    BY <1>1, Masking
  <1>6. w = Form(op, MaskBit, n, Key, e)
    BY WireForm
  <1> HIDE DEF d, op, n, w, e
  <1>8. Len(e) \in CanFrame /\ w = Form(op, MaskBit, Len(e), Key, e)
    BY <1>1, <1>2, <1>6
  <1>9. Len(w) <= Len(data) /\ \A i \in 1..Len(w) : data[i] = w[i]
    BY DEF w
  <1>10. DecodeFrame(data) = Outcome("frame", op, Unmasked(e, Key))
    BY <1>1, <1>2, <1>8, <1>9, DecodeForm
  <1> QED
    BY <1>2, <1>10 DEF d, op

\* DecodeFrame gives back what EncodeFrame was given, of every length and
\* opcode, whatever follows the frame (websocket/frame.go:22, 93).
THEOREM DecodesEncoded ==
  ASSUME NEW p \in Seq(Bytes), NEW op \in 0..(Opcodes - 1), Len(p) \in CanFrame,
         NEW rest \in Seq(Bytes), Len(EncodeFrame(p, op) \o rest) <= MaxInt
  PROVE  DecodeFrame(EncodeFrame(p, op) \o rest) = Outcome("frame", op, p)
  <1> DEFINE w == EncodeFrame(p, op)
             data == w \o rest
  <1>1. w = Form(op, 0, Len(p), <<>>, p) /\ <<>> \in Seq(Bytes)
    BY EncodeForm
  <1>2. HasForm(w, op, 0, Len(p), <<>>, p)
    <2>1. 0 \in {0, MaskBit}
      OBVIOUS
    <2> HIDE DEF w
    <2> QED
      BY <1>1, <2>1, FormBytes
  <1>3. w \in Seq(Bytes)
    BY <1>2 DEF HasForm
  <1> HIDE DEF w
  <1>4. /\ data \in Seq(Bytes) /\ Len(data) = Len(w) + Len(rest)
        /\ \A i \in 1..Len(w) : data[i] = w[i]
    BY <1>3, Joined
  <1>5. Len(w) <= Len(data) /\ Len(data) <= MaxInt
    <2>1. Len(w) \in Nat /\ Len(rest) \in Nat
      BY <1>3
    <2>2. Len(data) <= MaxInt
      BY DEF w
    <2> HIDE DEF data
    <2> QED
      BY <1>4, <2>1, <2>2
  <1> HIDE DEF data
  <1>6. data \in Seq(Bytes) /\ \A i \in 1..Len(w) : data[i] = w[i]
    BY <1>4
  <1>7. ASSUME NEW b, NEW key \in Seq(Bytes), b = 0, key = <<>>
        PROVE  DecodeFrame(data) = Outcome("frame", op, p)
    <2>1. w = Form(op, b, Len(p), key, p)
      BY <1>1, <1>7
    <2>2. (b = 0 /\ key = <<>>) \/ (b = MaskBit /\ Len(key) = MaskBytes)
      BY <1>7
    <2>3. b = 0 => DecodeFrame(data) = Outcome("frame", op, p)
      <3>1. Len(w) <= Len(data)
        BY <1>5
      <3>2. Len(data) <= MaxInt
        BY <1>5
      <3>3. Len(p) \in CanFrame
        OBVIOUS
      <3>4. op \in 0..(Opcodes - 1) /\ p \in Seq(Bytes) /\ key \in Seq(Bytes)
        OBVIOUS
      <3> HIDE DEF CanFrame
      <3> QED
        BY ONLY <3>1, <3>2, <3>3, <3>4, <1>6, <2>1, <2>2, DecodeForm
    <2> QED
      BY <1>7, <2>3
  <1>8. DecodeFrame(data) = Outcome("frame", op, p)
    BY <1>1, <1>7
  <1> QED
    BY <1>8 DEF data, w

\* What may come of data: if a frame, then one of bytes that data has.
InBounds(f, data) ==
  /\ f.outcome \in {"frame", "error", "panic"}
  /\ f.outcome = "frame" =>
       /\ f.opcode \in 0..(Opcodes - 1) /\ f.payload \in Seq(Bytes)
       /\ Len(f.payload) + 2 <= Len(data)

\* DecodeFrame takes nothing from outside data, whatever data is: it is an error
\* or a panic, or the opcode is one and the payload is bytes of data, fewer by two
\* or more (websocket/frame.go:22).
THEOREM DecodesWithin ==
  ASSUME NEW data \in Seq(Bytes)
  PROVE  InBounds(DecodeFrame(data), data)
  <1> DEFINE rsv == (data[1] \div RsvBit) % 2 = 1
             opcode == data[1] % Opcodes
             isMasked == data[2] >= MaskBit
             code == data[2] % LenCodes
             extended == CASE code = ShortCode -> ShortBytes
                           [] code = LongCode  -> LongBytes
                           [] OTHER            -> 0
             length == IF extended = 0 THEN code
                       ELSE Uint(SubSeq(data, 3, 2 + extended))
             start == 2 + extended + (IF isMasked THEN MaskBytes ELSE 0)
             end == Int64(start + Int64(length))
             key == SubSeq(data, start - MaskBytes + 1, start)
             payload == SubSeq(data, start + 1, end)
             f == DecodeFrame(data)
             bad == Len(data) < 2 \/ rsv \/ Len(data) < start \/ Len(data) < end
  <1>1. f = IF bad THEN Outcome("error", 0, <<>>)
            ELSE IF end < start THEN Outcome("panic", 0, <<>>)
            ELSE IF isMasked THEN Outcome("frame", opcode, Unmasked(payload, key))
            ELSE Outcome("frame", opcode, payload)
    BY DEF DecodeFrame
  <1>2. CASE bad
    <2>1. f = Outcome("error", 0, <<>>)
      BY <1>1, <1>2
    <2> HIDE DEF f
    <2>2. InBounds(f, data)
      BY <2>1 DEF Outcome, InBounds
    <2> QED
      BY <2>2 DEF f
  <1>3. CASE ~bad /\ end < start
    <2>1. f = Outcome("panic", 0, <<>>)
      BY <1>1, <1>3
    <2> HIDE DEF f
    <2>2. InBounds(f, data)
      BY <2>1 DEF Outcome, InBounds
    <2> QED
      BY <2>2 DEF f
  <1>4. CASE ~bad /\ ~(end < start)
    <2>1. /\ Len(data) \in Nat /\ data[1] \in Nat /\ data[2] \in Nat
          /\ Opcodes \in Nat \ {0} /\ LenCodes \in Nat \ {0}
          /\ ShortBytes \in Nat /\ LongBytes \in Nat /\ MaskBytes \in Nat \ {0}
          /\ MaxInt \in Nat \ {0}
      <3>1. Len(data) \in Nat /\ Len(data) >= 2
        BY <1>4
      <3>2. data[1] \in Bytes /\ data[2] \in Bytes
        BY <3>1
      <3> QED
        BY <3>1, <3>2, Sizes DEF Bytes
    <2>2. opcode \in 0..(Opcodes - 1) /\ code \in Nat
      <3> DEFINE x == data[1]
                 y == data[2]
      <3>1. x \in Nat /\ y \in Nat
        BY <2>1
      <3> HIDE DEF x, y
      <3>2. x % Opcodes \in 0..(Opcodes - 1)
        BY <2>1, <3>1, Division
      <3>3. y % LenCodes \in 0..(LenCodes - 1)
        BY <2>1, <3>1, Division
      <3> QED
        BY <2>1, <3>2, <3>3 DEF x, y
    <2>3. extended \in Nat
      BY <2>1
    <2> HIDE DEF opcode, code, extended
    <2>4. /\ start \in Nat /\ 2 + extended <= start
          /\ isMasked => start - MaskBytes = 2 + extended
      BY <2>1, <2>3
    <2> HIDE DEF isMasked, start
    <2>5. start <= Len(data)
      BY <1>4, <2>1, <2>4
    <2>6. length \in Nat
      <3>1. SubSeq(data, 3, 2 + extended) \in Seq(Bytes)
        BY <2>1, <2>3, <2>4, <2>5
      <3> QED
        BY <2>2, <3>1, UintNat
    <2> HIDE DEF length
    <2>7. end \in Int
      <3>1. ASSUME NEW x \in Int PROVE Int64(x) \in Int
        BY <2>1 DEF Int64
      <3>2. Int64(length) \in Int
        BY <2>6, <3>1
      <3>3. start + Int64(length) \in Int
        BY <2>4, <3>2
      <3> QED
        BY <3>1, <3>3
    <2> HIDE DEF end
    <2>8. start <= end /\ end <= Len(data)
      BY <1>4, <2>1, <2>4, <2>7
    <2>9. payload \in Seq(Bytes) /\ Len(payload) = end - start
      BY <2>1, <2>4, <2>7, <2>8
    <2>10. isMasked => key \in Seq(Bytes) /\ Len(key) = MaskBytes
      BY <2>1, <2>3, <2>4, <2>5
    <2> HIDE DEF payload, key
    <2>11. ASSUME isMasked
           PROVE  /\ Unmasked(payload, key) \in Seq(Bytes)
                  /\ Len(Unmasked(payload, key)) = Len(payload)
      BY <2>1, <2>9, <2>10, <2>11, UnmaskedBytes
    <2>12. Len(payload) + 2 <= Len(data)
      BY <2>1, <2>3, <2>4, <2>7, <2>8, <2>9
    <2>13. \/ isMasked /\ f = Outcome("frame", opcode, Unmasked(payload, key))
           \/ f = Outcome("frame", opcode, payload)
      BY <1>1, <1>4
    <2>14. ASSUME NEW p \in Seq(Bytes), f = Outcome("frame", opcode, p),
                  Len(p) + 2 <= Len(data)
           PROVE  InBounds(f, data)
      <3> HIDE DEF f
      <3> QED
        BY <2>2, <2>14 DEF Outcome, InBounds
    <2> HIDE DEF f
    <2>15. InBounds(f, data)
      BY <2>9, <2>11, <2>12, <2>13, <2>14
    <2> QED
      BY <2>15 DEF f
  <1> QED
    BY <1>2, <1>3, <1>4

-----------------------------------------------------------------------------
(* The invariant of WsStream. *)

Messages == [opcode : 0..(Opcodes - 1), payload : Seq(Bytes)]
Items    == [byte : Bytes, last : BOOLEAN]

\* TypeOK, with sequences in place of their elements, and the lengths of what
\* each side has sent.
Shape ==
  /\ sent \in Seq(Messages) /\ heard \in Seq(Messages)
  /\ got \in Seq(Messages) /\ written \in Seq(Messages)
  /\ gone \in BOOLEAN /\ whole \in BOOLEAN
  /\ pc \in {"read", "post", "leave", "close", "shut", "done"}
  /\ room \in {"run", "held", "left", "close", "shut", "done", "over"}
  /\ conn \in {"open", "closed"}
  /\ stream \in Seq(Items) /\ out \in Seq(Bytes)

Sized ==
  /\ \A i \in 1..Len(sent) : Len(sent[i].payload) \in CanFrame
  /\ \A i \in 1..Len(written) : Len(written[i].payload) \in CanFrame

\* What one side has sent, as it is on the wire.
Tagged(w) == [i \in DOMAIN w |-> [byte |-> w[i], last |-> i = Len(w)]]
Wires(ms) == [j \in 1..Len(ms) |-> Tagged(Wire(ms[j]))]
Encoded(ms) ==
  [j \in 1..Len(ms) |-> EncodeFrame(ms[j].payload, ms[j].opcode)]

\* g is some of the first k of ms, in order.
SomeOf(g, ms, k) ==
  \E at \in [1..Len(g) -> 1..k] :
    /\ \A i, j \in 1..Len(g) : i < j => at[i] < at[j]
    /\ \A i \in 1..Len(g) : g[i] = ms[at[i]]

\* The handler no longer reads, or the room is done with it.
Ending == pc \notin {"read", "post"} \/ room \in {"done", "over"}

\* While every read has ended at the end of a frame, what is left of the stream
\* is the frames after the first k, and got is some of those; and there is a
\* reason to end.
Incoming ==
  whole => /\ \E k \in 0..Len(sent) :
                Framed(stream, Wires(sent), k) /\ SomeOf(got, sent, k)
           /\ Ending => gone \/ conn = "closed"

\* The peer has read some of what was written, and the rest is on its way.
Outgoing ==
  /\ Len(heard) <= Len(written)
  /\ \A i \in 1..Len(heard) : heard[i] = written[i]
  /\ ~gone => Framed(out, Encoded(written), Len(heard))

StreamInv == Shape /\ Sized /\ Incoming /\ Outgoing

\* A record of the right type is the message of its fields.
LEMMA MessageIs ==
  ASSUME NEW m \in Messages
  PROVE  /\ IsMessage(m) /\ m = Message(m.opcode, m.payload)
         /\ m.payload \in Seq(Bytes) /\ m.opcode \in 0..(Opcodes - 1)
  BY DEF Messages, Message, IsMessage, Bytes

\* It implies the properties.
LEMMA InvTypes == StreamInv => TypeOK
  <1> SUFFICES ASSUME StreamInv PROVE TypeOK
    OBVIOUS
  <1>1. ASSUME NEW s \in Seq(Messages), NEW i \in DOMAIN s
        PROVE  IsMessage(s[i])
    <2>1. s[i] \in Messages
      OBVIOUS
    <2> QED
      BY <2>1, MessageIs
  <1> QED
    BY <1>1 DEF StreamInv, Shape, TypeOK, Items, Bytes

\* The handler has been given some of what was sent.
LEMMA InvReads == StreamInv => ReadsInOrder
  <1> SUFFICES ASSUME StreamInv, whole PROVE Within(got, sent)
    BY DEF ReadsInOrder, StreamInv, Incoming, Ending
  <1>1. PICK k \in 0..Len(sent) : SomeOf(got, sent, k)
    BY DEF StreamInv, Incoming
  <1>2. PICK at \in [1..Len(got) -> 1..k] :
          /\ \A i, j \in 1..Len(got) : i < j => at[i] < at[j]
          /\ \A i \in 1..Len(got) : got[i] = sent[at[i]]
    BY <1>1 DEF SomeOf
  <1>3. DOMAIN got = 1..Len(got) /\ DOMAIN sent = 1..Len(sent) /\ Len(sent) \in Nat
    BY DEF StreamInv, Shape
  <1>4. at \in [DOMAIN got -> DOMAIN sent]
    BY <1>2, <1>3
  <1> QED
    BY <1>2, <1>3, <1>4 DEF Within

\* A frame is never empty.
LEMMA EncodedLength ==
  ASSUME NEW m \in Messages, Len(m.payload) \in CanFrame
  PROVE  /\ EncodeFrame(m.payload, m.opcode) \in Seq(Bytes)
         /\ Len(EncodeFrame(m.payload, m.opcode)) >= 2
  <1> DEFINE p == m.payload
             op == m.opcode
             w == EncodeFrame(p, op)
  <1>1. /\ p \in Seq(Bytes) /\ op \in 0..(Opcodes - 1) /\ <<>> \in Seq(Bytes)
        /\ 0 \in {0, MaskBit} /\ Len(p) \in CanFrame
    BY MessageIs
  <1> HIDE DEF p, op
  <1>2. w = Form(op, 0, Len(p), <<>>, p)
    BY <1>1, EncodeForm
  <1> HIDE DEF w
  <1>3. HasForm(w, op, 0, Len(p), <<>>, p)
    BY <1>1, <1>2, FormBytes
  <1>4. Size(Len(p)) \in Nat /\ Len(p) \in Nat
    BY <1>1, LengthCode
  <1>5. w \in Seq(Bytes) /\ Len(w) >= 2
    BY <1>3, <1>4 DEF HasForm
  <1> QED
    BY <1>5 DEF w, p, op

\* The peer has read what was written, but for what is on its way.
LEMMA InvWrites == StreamInv => WritesArrive
  <1> SUFFICES ASSUME StreamInv PROVE WritesArrive
    OBVIOUS
  <1>1. /\ heard \in Seq(Messages) /\ written \in Seq(Messages)
        /\ Len(heard) <= Len(written)
        /\ \A i \in 1..Len(heard) : heard[i] = written[i]
    BY DEF StreamInv, Shape, Outgoing
  <1>2. IsPrefix(heard, written)
    BY <1>1 DEF IsPrefix
  <1>3. ASSUME out = <<>>, ~gone, Len(heard) < Len(written) PROVE FALSE
    <2> DEFINE k == Len(heard)
               es == Encoded(written)
    <2>1. k + 1 \in 1..Len(written) /\ Len(es) = Len(written)
      BY <1>1, <1>3 DEF Encoded
    <2>2. Framed(out, es, k)
      BY <1>3 DEF StreamInv, Outgoing
    <2>3. \A j \in 1..Len(written) : es[j] \in Seq(Bytes) /\ Len(es[j]) >= 2
      BY <1>1, EncodedLength DEF StreamInv, Sized, Encoded
    <2>4. es \in Seq(Seq(Bytes))
      BY <1>1, <2>3 DEF Encoded
    <2> HIDE DEF es, k
    <2>5. Len(es[k + 1]) \in 0..Len(out)
      BY <1>3, <2>1, <2>2, <2>4, FramedFirst DEF StreamInv, Shape, k
    <2> QED
      BY <1>3, <2>1, <2>3, <2>5
  <1>4. Len(heard) = Len(written) => heard = written
    BY <1>1
  <1> QED
    BY <1>1, <1>2, <1>3, <1>4 DEF WritesArrive

-----------------------------------------------------------------------------
(* What is sent. *)

\* Two bytes are a short payload: that of a close frame.
LEMMA TwoBytesFit == 2 \in 0..MaxShort /\ Power[2] = ByteValues * ByteValues
  <1>1. ShortBytes - 1 \in Nat /\ ShortBytes = (ShortBytes - 1) + 1
    BY Sizes
  <1> DEFINE a == Power[ShortBytes - 1]
  <1>2. Power[ShortBytes] = ByteValues * a /\ a \in Nat \ {0}
    BY <1>1, PowerStep
  <1> HIDE DEF a
  <1>3. ByteValues \in Nat /\ ByteValues >= 4
    BY Sizes
  <1>4. ByteValues * a >= 4
    <2>1. ByteValues * a = ByteValues * (a - 1) + ByteValues
      BY <1>2, <1>3
    <2>2. ByteValues * (a - 1) >= 0
      BY <1>2, <1>3
    <2>3. ByteValues * (a - 1) \in Int
      BY <1>2, <1>3
    <2> QED
      BY <1>3, <2>1, <2>2, <2>3
  <1>5. ByteValues * a \in Int
    BY <1>2, <1>3
  <1>6. 2 \in 0..MaxShort
    BY <1>2, <1>4, <1>5 DEF MaxShort
  <1>7. Power[0 + 1] = ByteValues * Power[0] /\ Power[1 + 1] = ByteValues * Power[1]
    BY PowerStep
  <1>8. Power[2] = ByteValues * ByteValues
    BY <1>3, <1>7, PowerStep
  <1> QED
    BY <1>6, <1>8

\* The messages that are sent.
LEMMA PayloadMessage ==
  ASSUME NEW op \in 0..(Opcodes - 1), NEW tag \in Bytes, NEW n \in Nat
  PROVE  /\ Message(op, Payload(tag, n)) \in Messages
         /\ Len(Message(op, Payload(tag, n)).payload) = n
  <1>1. Payload(tag, n) \in Seq(Bytes) /\ Len(Payload(tag, n)) = n
    BY DEF Payload
  <1> QED
    BY <1>1 DEF Message, Messages

\* That of Close among them.
LEMMA ClosingMessage ==
  Closing \in Messages /\ Len(Closing.payload) \in CanFrame
  <1>1. Status \in Nat /\ Status < ByteValues * ByteValues
    BY WsStreamAssumption, TwoBytesFit, PowerStep, Sizes
  <1>2. ByteValues \in Nat \ {0}
    BY Sizes
  <1> DEFINE q == Status \div ByteValues
             r == Status % ByteValues
  <1>3. q \in Nat /\ r \in 0..(ByteValues - 1) /\ Status = ByteValues * q + r
    BY <1>1, <1>2, Division
  <1> HIDE DEF q, r
  <1>4. q < ByteValues
    <2> SUFFICES ASSUME q >= ByteValues PROVE FALSE
      BY <1>2, <1>3
    <2>1. ByteValues * q >= ByteValues * ByteValues
      BY <1>2, <1>3
    <2>2. ByteValues * q \in Int /\ ByteValues * ByteValues \in Int
      BY <1>2, <1>3
    <2> QED
      BY <1>1, <1>2, <1>3, <2>1, <2>2
  <1>5. q \in Bytes /\ r \in Bytes
    BY <1>2, <1>3, <1>4 DEF Bytes
  <1>6. <<q, r>> \in Seq(Bytes) /\ Len(<<q, r>>) = 2
    BY <1>5
  <1>7. Bye \in 0..(Opcodes - 1) /\ 2 \in CanFrame
    BY WsStreamAssumption, TwoBytesFit DEF CanFrame
  <1>8. Closing = Message(Bye, <<q, r>>)
    BY DEF Closing, q, r
  <1> QED
    BY <1>6, <1>7, <1>8 DEF Message, Messages

\* A frame of the peer on the wire, with its end marked.
LEMMA TaggedWire ==
  ASSUME NEW m \in Messages, Len(m.payload) \in CanFrame
  PROVE  /\ Wire(m) \in Seq(Bytes) /\ Len(Wire(m)) >= 2
         /\ Tagged(Wire(m)) \in Seq(Items)
         /\ Len(Tagged(Wire(m))) = Len(Wire(m))
         /\ \A i \in 1..Len(Wire(m)) :
              Tagged(Wire(m))[i] = [byte |-> Wire(m)[i], last |-> i = Len(Wire(m))]
  <1> DEFINE d == m.payload
             op == m.opcode
             n == Len(d)
             w == Wire(m)
             e == Unmasked(d, Key)
  <1>1. /\ op \in 0..(Opcodes - 1) /\ d \in Seq(Bytes) /\ n \in CanFrame
        /\ n \in Nat /\ IsMessage(m)
    BY MessageIs DEF CanFrame
  <1>2. Key \in Seq(Bytes) /\ Len(Key) = MaskBytes
    BY <1>1, Masking
  <1>3. e \in Seq(Bytes) /\ Len(e) = n
    BY <1>1, Masking
  <1>4. w = Form(op, MaskBit, n, Key, e)
    BY <1>1, WireForm
  <1> HIDE DEF d, op, n, w, e
  <1>5. HasForm(w, op, MaskBit, n, Key, e)
    <2>1. MaskBit \in {0, MaskBit} /\ Key \in Seq(Bytes) /\ e \in Seq(Bytes)
      BY <1>2, <1>3
    <2> QED
      BY <1>1, <1>4, <2>1, FormBytes
  <1>6. w \in Seq(Bytes) /\ Len(w) >= 2
    BY <1>1, <1>2, <1>3, <1>5, LengthCode DEF HasForm
  <1>7. DOMAIN w = 1..Len(w) /\ Len(w) \in Nat /\ \A i \in 1..Len(w) : w[i] \in Bytes
    BY <1>6
  <1>8. Tagged(w) \in [1..Len(w) -> Items]
    BY <1>7 DEF Tagged, Items
  <1>9. \A i \in 1..Len(w) : Tagged(w)[i] = [byte |-> w[i], last |-> i = Len(w)]
    BY <1>7 DEF Tagged
  <1>10. Tagged(w) \in Seq(Items) /\ Len(Tagged(w)) = Len(w)
    BY <1>7, <1>8
  <1> QED
    BY <1>6, <1>9, <1>10 DEF w

-----------------------------------------------------------------------------
(* The steps. *)

\* The frames of the messages of each side, and of one message more.
LEMMA WiresOf ==
  ASSUME NEW ms \in Seq(Messages),
         \A j \in 1..Len(ms) : Len(ms[j].payload) \in CanFrame
  PROVE  /\ Wires(ms) \in Seq(Seq(Items)) /\ Len(Wires(ms)) = Len(ms)
         /\ \A j \in 1..Len(ms) : Wires(ms)[j] = Tagged(Wire(ms[j]))
  <1>1. \A j \in 1..Len(ms) : Tagged(Wire(ms[j])) \in Seq(Items)
    BY TaggedWire
  <1> QED
    BY <1>1 DEF Wires

\* The same of what the server writes.
LEMMA EncodedOf ==
  ASSUME NEW ms \in Seq(Messages),
         \A j \in 1..Len(ms) : Len(ms[j].payload) \in CanFrame
  PROVE  /\ Encoded(ms) \in Seq(Seq(Bytes)) /\ Len(Encoded(ms)) = Len(ms)
         /\ \A j \in 1..Len(ms) :
              Encoded(ms)[j] = EncodeFrame(ms[j].payload, ms[j].opcode)
  <1>1. \A j \in 1..Len(ms) :
          EncodeFrame(ms[j].payload, ms[j].opcode) \in Seq(Bytes)
    BY EncodedLength
  <1> QED
    BY <1>1 DEF Encoded

\* A sequence that is as long, and holds the same but for a last element more.
LEMMA OneMore ==
  ASSUME NEW S, NEW s \in Seq(S), NEW e, NEW t,
         DOMAIN t = 1..(Len(s) + 1), t = [j \in DOMAIN t |-> t[j]],
         \A j \in 1..Len(s) : t[j] = s[j], t[Len(s) + 1] = e
  PROVE  t = Append(s, e)
  <1> DEFINE a == Append(s, e)
  <1>1. s \in Seq(S \cup {e}) /\ e \in S \cup {e} /\ Len(s) \in Nat
    OBVIOUS
  <1>2. a \in Seq(S \cup {e}) /\ Len(a) = Len(s) + 1
    BY <1>1
  <1>3. DOMAIN a = 1..(Len(s) + 1) /\ a = [j \in 1..(Len(s) + 1) |-> a[j]]
    <2> HIDE DEF a
    <2>1. a \in [1..Len(a) -> S \cup {e}]
      BY <1>2
    <2> QED
      BY <1>2, <2>1
  <1>4. \A j \in 1..(Len(s) + 1) : a[j] = t[j]
    BY <1>1
  <1> HIDE DEF a
  <1>5. a = t
    BY <1>3, <1>4
  <1> QED
    BY <1>5 DEF a

\* The frames that the peer has sent, with one more.
LEMMA WiresAppend ==
  ASSUME NEW ms \in Seq(Messages), NEW m \in Messages,
         \A j \in 1..Len(ms) : Len(ms[j].payload) \in CanFrame
  PROVE  Wires(Append(ms, m)) = Append(Wires(ms), Tagged(Wire(m)))
  <1> DEFINE t == Wires(Append(ms, m))
             s == Wires(ms)
  <1>1. /\ s \in Seq(Seq(Items)) /\ Len(s) = Len(ms) /\ Len(ms) \in Nat
        /\ \A j \in 1..Len(ms) : s[j] = Tagged(Wire(ms[j]))
    BY WiresOf
  <1>2. /\ Len(Append(ms, m)) = Len(ms) + 1
        /\ \A j \in 1..Len(ms) : Append(ms, m)[j] = ms[j]
        /\ Append(ms, m)[Len(ms) + 1] = m
    OBVIOUS
  <1>3. t = [j \in 1..(Len(ms) + 1) |-> Tagged(Wire(Append(ms, m)[j]))]
    BY <1>2 DEF Wires
  <1> HIDE DEF s, t
  <1>4. /\ DOMAIN t = 1..(Len(s) + 1) /\ t = [j \in DOMAIN t |-> t[j]]
        /\ t[Len(s) + 1] = Tagged(Wire(m))
    BY <1>1, <1>2, <1>3
  <1>5. \A j \in 1..Len(s) : t[j] = s[j]
    BY <1>1, <1>2, <1>3
  <1>6. t = Append(s, Tagged(Wire(m)))
    BY <1>1, <1>4, <1>5, OneMore
  <1> QED
    BY <1>6 DEF s, t

\* The frames that the server has written, with one more.
LEMMA EncodedAppend ==
  ASSUME NEW ms \in Seq(Messages), NEW m \in Messages,
         \A j \in 1..Len(ms) : Len(ms[j].payload) \in CanFrame
  PROVE  Encoded(Append(ms, m))
           = Append(Encoded(ms), EncodeFrame(m.payload, m.opcode))
  <1> DEFINE t == Encoded(Append(ms, m))
             s == Encoded(ms)
             e == EncodeFrame(m.payload, m.opcode)
  <1>1. /\ s \in Seq(Seq(Bytes)) /\ Len(s) = Len(ms) /\ Len(ms) \in Nat
        /\ \A j \in 1..Len(ms) : s[j] = EncodeFrame(ms[j].payload, ms[j].opcode)
    BY EncodedOf
  <1>2. /\ Len(Append(ms, m)) = Len(ms) + 1
        /\ \A j \in 1..Len(ms) : Append(ms, m)[j] = ms[j]
        /\ Append(ms, m)[Len(ms) + 1] = m
    OBVIOUS
  <1>3. t = [j \in 1..(Len(ms) + 1) |->
               EncodeFrame(Append(ms, m)[j].payload, Append(ms, m)[j].opcode)]
    BY <1>2 DEF Encoded
  <1> HIDE DEF s, t
  <1>4. /\ DOMAIN t = 1..(Len(s) + 1) /\ t = [j \in DOMAIN t |-> t[j]]
        /\ t[Len(s) + 1] = e
    BY <1>1, <1>2, <1>3
  <1>5. \A j \in 1..Len(s) : t[j] = s[j]
    BY <1>1, <1>2, <1>3
  <1>6. t = Append(s, e)
    <2> HIDE DEF e
    <2> QED
      BY <1>1, <1>4, <1>5, OneMore
  <1> QED
    BY <1>6 DEF s, t

\* At first nothing has been sent, and no frame is on its way.
LEMMA StreamInit == Init => StreamInv
  <1> SUFFICES ASSUME Init PROVE StreamInv
    OBVIOUS
  <1>1. Shape
    <2>1. \A S : <<>> \in Seq(S)
      OBVIOUS
    <2> QED
      BY <2>1 DEF Init, Shape
  <1>2. Sized
    BY DEF Init, Sized
  <1>3. Len(sent) = 0 /\ Len(Wires(sent)) = 0 /\ stream = <<>>
        /\ Len(heard) = 0 /\ Len(Encoded(written)) = 0 /\ out = <<>>
        /\ Len(written) = 0 /\ Len(got) = 0
    BY DEF Init, Wires, Encoded
  <1>4. SomeOf(got, sent, 0)
    <2> DEFINE at == [i \in 1..Len(got) |-> 1]
    <2>1. at \in [1..Len(got) -> 1..0] /\ ~\E i \in 1..Len(got) : TRUE
      BY <1>3
    <2> HIDE DEF at
    <2> QED
      BY <2>1 DEF SomeOf
  <1>5. Incoming
    <2>1. Framed(stream, Wires(sent), 0)
      BY <1>3, FramedNone
    <2> QED
      BY <1>3, <1>4, <2>1 DEF Incoming, Ending, Init
  <1>6. Outgoing
    <2>1. Framed(out, Encoded(written), 0)
      BY <1>3, FramedNone
    <2> QED
      BY <1>3, <2>1 DEF Outgoing
  <1> QED
    BY <1>1, <1>2, <1>5, <1>6 DEF StreamInv

\* A step that only moves the handler, the room or the connection.
LEMMA ControlStep ==
  ASSUME StreamInv,
         UNCHANGED <<sent, heard, gone, stream, got, written, out, whole>>,
         pc' \in {"read", "post", "leave", "close", "shut", "done"},
         room' \in {"run", "held", "left", "close", "shut", "done", "over"},
         conn' \in {"open", "closed"},
         whole /\ Ending' => gone \/ conn' = "closed"
  PROVE  StreamInv'
  <1>1. Shape'
    BY DEF StreamInv, Shape
  <1>2. Sized'
    BY DEF StreamInv, Sized
  <1>3. Incoming'
    <2>1. Wires(sent)' = Wires(sent)
      BY DEF Wires, Tagged, Wire
    <2>2. \A k : SomeOf(got', sent', k) <=> SomeOf(got, sent, k)
      OBVIOUS
    <2>3. \A k : Framed(stream', Wires(sent'), k) <=> Framed(stream, Wires(sent), k)
      OBVIOUS
    <2> QED
      BY <2>2, <2>3 DEF StreamInv, Incoming
  <1>4. Outgoing'
    <2>1. Framed(out', Encoded(written'), Len(heard'))
            <=> Framed(out, Encoded(written), Len(heard))
      OBVIOUS
    <2> QED
      BY <2>1 DEF StreamInv, Outgoing
  <1> QED
    BY <1>1, <1>2, <1>3, <1>4 DEF StreamInv

\* The frame that the peer sends is the last of the stream.
LEMMA SendStep ==
  ASSUME StreamInv, NEW m \in Messages, Len(m.payload) \in CanFrame,
         SendFrame(m),
         UNCHANGED <<heard, gone, pc, room, conn, got, written, out, whole>>
  PROVE  StreamInv'
  <1> DEFINE w == Wire(m)
             f == Tagged(w)
  <1>1. sent' = Append(sent, m) /\ stream' = stream \o f
    BY DEF SendFrame, Tagged
  <1>2. f \in Seq(Items)
    BY TaggedWire
  <1>3. /\ sent \in Seq(Messages) /\ stream \in Seq(Items)
        /\ \A i \in 1..Len(sent) : Len(sent[i].payload) \in CanFrame
    BY DEF StreamInv, Shape, Sized
  <1> HIDE DEF w, f
  <1>4. /\ Len(sent') = Len(sent) + 1 /\ Len(sent) \in Nat
        /\ \A i \in 1..Len(sent) : sent'[i] = sent[i]
        /\ sent'[Len(sent) + 1] = m /\ sent' \in Seq(Messages)
    BY <1>1, <1>3
  <1>5. Shape'
    <2>1. stream' \in Seq(Items)
      BY <1>1, <1>2, <1>3
    <2> QED
      BY <1>4, <2>1 DEF StreamInv, Shape
  <1>6. Sized'
    <2>1. ASSUME NEW i \in 1..Len(sent')
          PROVE  Len(sent'[i].payload) \in CanFrame
      <3>1. i \in 1..Len(sent) \/ i = Len(sent) + 1
        BY <1>4
      <3>2. CASE i \in 1..Len(sent)
        BY <1>3, <1>4, <3>2
      <3>3. CASE i = Len(sent) + 1
        BY <1>4, <3>3
      <3> QED
        BY <3>1, <3>2, <3>3
    <2> QED
      BY <2>1 DEF StreamInv, Sized
  <1>7. ASSUME NEW k \in 0..Len(sent), Framed(stream, Wires(sent), k)
        PROVE  Framed(stream', Wires(sent'), k)
    <2>1. Wires(sent') = Append(Wires(sent), f)
      BY <1>1, <1>3, WiresAppend DEF w, f
    <2>2. Wires(sent) \in Seq(Seq(Items))
      BY <1>3, WiresOf
    <2> QED
      BY <1>1, <1>2, <1>3, <1>7, <2>1, <2>2, FramedAppend
  <1>8. ASSUME NEW k \in 0..Len(sent), SomeOf(got, sent, k)
        PROVE  SomeOf(got, sent', k)
    <2>1. PICK at \in [1..Len(got) -> 1..k] :
            /\ \A i, j \in 1..Len(got) : i < j => at[i] < at[j]
            /\ \A i \in 1..Len(got) : got[i] = sent[at[i]]
      BY <1>8 DEF SomeOf
    <2>2. \A i \in 1..Len(got) : at[i] \in 1..Len(sent)
      BY <1>4
    <2>3. \A i \in 1..Len(got) : got[i] = sent'[at[i]]
      BY <1>4, <2>1, <2>2
    <2> QED
      BY <2>1, <2>3 DEF SomeOf
  <1>9. Incoming'
    <2>1. \A k \in 0..Len(sent) : k \in 0..Len(sent')
      BY <1>4
    <2> QED
      BY <1>7, <1>8, <2>1 DEF StreamInv, Incoming, Ending
  <1>10. Outgoing'
    BY DEF StreamInv, Outgoing
  <1> QED
    BY <1>5, <1>6, <1>9, <1>10 DEF StreamInv

\* The peer's messages are some that it can send.
LEMMA SendsStep == StreamInv /\ Sends => StreamInv'
  <1> SUFFICES ASSUME StreamInv, Sends PROVE StreamInv'
    OBVIOUS
  <1>1. UNCHANGED <<heard, gone, pc, room, conn, got, written, out, whole>>
    BY DEF Sends
  <1>2. /\ Text \in 0..(Opcodes - 1) /\ Bye \in 0..(Opcodes - 1)
        /\ MaxFrames \in Bytes /\ Lengths \subseteq 0..(Power[LongBytes] - 1)
    BY WsStreamAssumption
  <1>3. CASE Len(sent) < MaxFrames
             /\ \E n \in Lengths : SendFrame(Message(Text, Payload(Len(sent) + 1, n)))
    <2>1. PICK n \in Lengths : SendFrame(Message(Text, Payload(Len(sent) + 1, n)))
      BY <1>3
    <2>2. Len(sent) + 1 \in Bytes
      <3>1. Len(sent) \in Nat /\ ByteValues \in Nat
        BY Sizes DEF StreamInv, Shape
      <3>2. MaxFrames \in Int /\ MaxFrames <= ByteValues - 1
        BY <1>2, <3>1 DEF Bytes
      <3> QED
        BY <1>3, <3>1, <3>2 DEF Bytes
    <2>3. n \in CanFrame /\ n \in Nat
      BY <1>2 DEF CanFrame
    <2> QED
      BY <1>1, <1>2, <2>1, <2>2, <2>3, PayloadMessage, SendStep
  <1>4. CASE SendFrame(Message(Bye, Payload(0, 2)))
    <2>1. 0 \in Bytes /\ 2 \in Nat /\ 2 \in CanFrame
      BY TwoBytesFit, Sizes DEF Bytes, CanFrame
    <2> QED
      BY <1>1, <1>2, <1>4, <2>1, PayloadMessage, SendStep
  <1> QED
    BY <1>3, <1>4 DEF Sends

\* The frame that the server writes is the last of those on their way.
LEMMA WriteStep ==
  ASSUME StreamInv, NEW m \in Messages, Len(m.payload) \in CanFrame,
         WriteFrame(m),
         pc' \in {"read", "post", "leave", "close", "shut", "done"},
         room' \in {"run", "held", "left", "close", "shut", "done", "over"},
         UNCHANGED conn, Ending' => Ending
  PROVE  StreamInv'
  <1> DEFINE e == EncodeFrame(m.payload, m.opcode)
  <1>1. CASE gone
    <2>1. UNCHANGED <<sent, heard, gone, stream, got, written, out, whole>>
      BY <1>1 DEF WriteFrame
    <2>2. conn' \in {"open", "closed"}
      BY DEF StreamInv, Shape
    <2> QED
      BY <1>1, <2>1, <2>2, ControlStep
  <1>2. CASE ~gone
    <2>1. /\ written' = Append(written, m) /\ out' = out \o e
          /\ UNCHANGED <<sent, heard, gone, stream, got, whole>>
      BY <1>2 DEF WriteFrame
    <2>2. /\ written \in Seq(Messages) /\ heard \in Seq(Messages)
          /\ out \in Seq(Bytes)
          /\ \A i \in 1..Len(written) : Len(written[i].payload) \in CanFrame
      BY DEF StreamInv, Shape, Sized
    <2>3. e \in Seq(Bytes)
      BY EncodedLength
    <2> HIDE DEF e
    <2>4. /\ Len(written') = Len(written) + 1 /\ Len(written) \in Nat
          /\ \A i \in 1..Len(written) : written'[i] = written[i]
          /\ written'[Len(written) + 1] = m /\ written' \in Seq(Messages)
      BY <2>1, <2>2
    <2>5. Shape'
      <3>1. out' \in Seq(Bytes)
        BY <2>1, <2>2, <2>3
      <3> QED
        BY <2>1, <2>4, <3>1 DEF StreamInv, Shape
    <2>6. Sized'
      <3>1. ASSUME NEW i \in 1..Len(written')
            PROVE  Len(written'[i].payload) \in CanFrame
        <4>1. i \in 1..Len(written) \/ i = Len(written) + 1
          BY <2>4
        <4>2. CASE i \in 1..Len(written)
          BY <2>2, <2>4, <4>2
        <4>3. CASE i = Len(written) + 1
          BY <2>4, <4>3
        <4> QED
          BY <4>1, <4>2, <4>3
      <3> QED
        BY <2>1, <3>1 DEF StreamInv, Sized
    <2>7. Framed(out', Encoded(written'), Len(heard))
      <3>1. Encoded(written') = Append(Encoded(written), e)
        BY <2>1, <2>2, EncodedAppend DEF e
      <3>2. Encoded(written) \in Seq(Seq(Bytes))
        BY <2>2, EncodedOf
      <3>3. Framed(out, Encoded(written), Len(heard))
        BY <1>2 DEF StreamInv, Outgoing
      <3> QED
        BY <2>1, <2>2, <2>3, <3>1, <3>2, <3>3, FramedAppend
    <2>8. Outgoing'
      <3>1. Len(heard) \in Nat /\ Len(heard) <= Len(written)
            /\ \A i \in 1..Len(heard) : heard[i] = written[i]
        BY <2>2 DEF StreamInv, Outgoing
      <3>2. \A i \in 1..Len(heard) : heard[i] = written'[i]
        BY <2>4, <3>1
      <3>3. Len(heard) <= Len(written')
        BY <2>4, <3>1
      <3> QED
        BY <2>1, <2>7, <3>2, <3>3 DEF Outgoing
    <2>9. Incoming'
      <3>1. \A k : SomeOf(got', sent', k) <=> SomeOf(got, sent, k)
        BY <2>1
      <3>2. \A k : Framed(stream', Wires(sent'), k) <=> Framed(stream, Wires(sent), k)
        BY <2>1
      <3> QED
        BY <2>1, <3>1, <3>2 DEF StreamInv, Incoming
    <2> QED
      BY <2>5, <2>6, <2>8, <2>9 DEF StreamInv
  <1> QED
    BY <1>1, <1>2

\* A broadcast is a message whose length can be encoded.
LEMMA WritesStep == StreamInv /\ Write => StreamInv'
  <1> SUFFICES ASSUME StreamInv, Write PROVE StreamInv'
    OBVIOUS
  <1>1. PICK n \in Writes :
          WriteFrame(Message(Text, Payload(Len(written) + 1, n)))
    BY DEF Write
  <1>2. UNCHANGED <<pc, room, conn>> /\ Len(written) < MaxWrites
    BY DEF Write
  <1>3. /\ Text \in 0..(Opcodes - 1) /\ MaxWrites \in Bytes
        /\ n \in 0..(Power[LongBytes] - 1)
    BY WsStreamAssumption
  <1>4. n \in Nat /\ n \in CanFrame
    BY <1>3 DEF CanFrame
  <1>5. Len(written) + 1 \in Bytes
    <2>1. Len(written) \in Nat /\ ByteValues \in Nat
      BY Sizes DEF StreamInv, Shape
    <2>2. MaxWrites \in Int /\ MaxWrites <= ByteValues - 1
      BY <1>3, <2>1 DEF Bytes
    <2> QED
      BY <1>2, <2>1, <2>2 DEF Bytes
  <1>6. /\ pc' \in {"read", "post", "leave", "close", "shut", "done"}
        /\ room' \in {"run", "held", "left", "close", "shut", "done", "over"}
        /\ Ending' => Ending
    BY <1>2 DEF StreamInv, Shape, Ending
  <1> DEFINE m == Message(Text, Payload(Len(written) + 1, n))
  <1>7. m \in Messages /\ Len(m.payload) \in CanFrame
    BY <1>3, <1>4, <1>5, PayloadMessage
  <1> HIDE DEF m
  <1> QED
    BY <1>1, <1>2, <1>6, <1>7, WriteStep DEF m

\* And so is a close frame.
LEMMA CloseFrameStep == StreamInv /\ CloseFrame => StreamInv'
  <1> SUFFICES ASSUME StreamInv, CloseFrame PROVE StreamInv'
    OBVIOUS
  <1>1. /\ pc' \in {"read", "post", "leave", "close", "shut", "done"}
        /\ room' \in {"run", "held", "left", "close", "shut", "done", "over"}
        /\ Ending' => Ending
        /\ WriteFrame(Closing) /\ UNCHANGED conn
    BY DEF StreamInv, Shape, CloseFrame, Ending
  <1> QED
    BY <1>1, ClosingMessage, WriteStep

\* The peer that leaves reads no more, and nothing is owed to it.
LEMMA LeavesStep == StreamInv /\ Leaves => StreamInv'
  <1> SUFFICES ASSUME StreamInv, Leaves PROVE StreamInv'
    OBVIOUS
  <1>1. /\ gone' = TRUE /\ out' = <<>>
        /\ UNCHANGED <<sent, heard, pc, room, conn, stream, got, written, whole>>
    BY DEF Leaves
  <1>2. Shape'
    <2>1. out' \in Seq(Bytes)
      BY <1>1
    <2> QED
      BY <1>1, <2>1 DEF StreamInv, Shape
  <1>3. Sized' /\ Outgoing'
    BY <1>1 DEF StreamInv, Sized, Outgoing
  <1>4. Incoming'
    <2>1. \A k : SomeOf(got', sent', k) <=> SomeOf(got, sent, k)
      BY <1>1
    <2>2. \A k : Framed(stream', Wires(sent'), k) <=> Framed(stream, Wires(sent), k)
      BY <1>1
    <2> QED
      BY <1>1, <2>1, <2>2 DEF StreamInv, Incoming
  <1> QED
    BY <1>2, <1>3, <1>4 DEF StreamInv

\* What the peer hears is the first frame that it has not heard.
LEMMA HearsStep == StreamInv /\ Hears => StreamInv'
  <1> SUFFICES ASSUME StreamInv, Hears PROVE StreamInv'
    OBVIOUS
  <1> DEFINE k == Len(heard)
             es == Encoded(written)
             m == written[k + 1]
             w == es[k + 1]
  <1>1. /\ UNCHANGED <<sent, gone, pc, room, conn, stream, got, written, whole>>
        /\ ~gone /\ Len(out) >= 2
    BY DEF Hears
  <1>2. /\ heard \in Seq(Messages) /\ written \in Seq(Messages)
        /\ out \in Seq(Bytes) /\ k \in Nat /\ k <= Len(written)
        /\ Len(written) \in Nat
        /\ \A i \in 1..k : heard[i] = written[i]
        /\ \A i \in 1..Len(written) : Len(written[i].payload) \in CanFrame
        /\ Framed(out, es, k)
    BY <1>1 DEF StreamInv, Shape, Sized, Outgoing
  <1>3. /\ es \in Seq(Seq(Bytes)) /\ Len(es) = Len(written)
        /\ \A j \in 1..Len(written) :
             es[j] = EncodeFrame(written[j].payload, written[j].opcode)
    BY <1>2, EncodedOf
  <1> HIDE DEF es
  <1>4. k < Len(written)
    <2> SUFFICES ASSUME k = Len(es) PROVE FALSE
      BY <1>2, <1>3
    <2>1. PICK at : Cut(out, es, k, at)
      BY <1>2 DEF Framed
    <2>2. at[k] = 0 /\ at[Len(es)] = Len(out)
      BY <2>1 DEF Cut
    <2> QED
      BY <1>1, <2>2
  <1>5. k + 1 \in 1..Len(written) /\ k < Len(es)
    BY <1>2, <1>3, <1>4
  <1>6. /\ Len(w) \in 0..Len(out)
        /\ \A i \in 1..Len(w) : out[i] = w[i]
        /\ Framed(SubSeq(out, Len(w) + 1, Len(out)), es, k + 1)
    <2> HIDE DEF k
    <2> QED
      BY <1>2, <1>3, <1>5, FramedFirst
  <1>7. m \in Messages /\ Len(m.payload) \in CanFrame
    BY <1>2, <1>5
  <1>8. w = EncodeFrame(m.payload, m.opcode)
    BY <1>3, <1>5
  <1> HIDE DEF m, w, k
  <1>9. heard' = Append(heard, m) /\ out' = SubSeq(out, Len(w) + 1, Len(out))
    <2>1. IsMessage(m) /\ m = Message(m.opcode, m.payload)
      BY <1>7, MessageIs
    <2>2. Len(w) <= Len(out)
      BY <1>2, <1>6
    <2> QED
      BY <1>2, <1>6, <1>7, <1>8, <2>1, <2>2, HearForm
  <1>10. /\ heard' \in Seq(Messages) /\ Len(heard') = k + 1
         /\ \A i \in 1..k : heard'[i] = heard[i]
         /\ heard'[k + 1] = m
    BY <1>2, <1>7, <1>9 DEF k
  <1>11. out' \in Seq(Bytes)
    BY <1>2, <1>6, <1>9, Rest
  <1>12. Shape'
    BY <1>1, <1>10, <1>11 DEF StreamInv, Shape
  <1>13. Sized'
    BY <1>1 DEF StreamInv, Sized
  <1>14. Incoming'
    <2>1. \A j : SomeOf(got', sent', j) <=> SomeOf(got, sent, j)
      BY <1>1
    <2>2. \A j : Framed(stream', Wires(sent'), j) <=> Framed(stream, Wires(sent), j)
      BY <1>1
    <2> QED
      BY <1>1, <2>1, <2>2 DEF StreamInv, Incoming, Ending
  <1>15. Outgoing'
    <2>1. Framed(out', Encoded(written'), k + 1)
      BY <1>1, <1>6, <1>9 DEF es
    <2>2. \A i \in 1..(k + 1) : heard'[i] = written[i]
      BY <1>2, <1>10 DEF m
    <2>3. k + 1 <= Len(written)
      BY <1>2, <1>5
    <2> QED
      BY <1>1, <1>10, <2>1, <2>2, <2>3 DEF Outgoing
  <1> QED
    BY <1>12, <1>13, <1>14, <1>15 DEF StreamInv

\* The buffer that Read decodes.
Buffer(n) == [i \in 1..BufSize |-> IF i <= n THEN stream[i].byte ELSE 0]

\* It begins with what was read, and its length is an int.
LEMMA BufferBytes ==
  ASSUME stream \in Seq(Items), NEW n \in 1..BufSize, n <= Len(stream)
  PROVE  /\ Buffer(n) \in Seq(Bytes) /\ Len(Buffer(n)) = BufSize
         /\ Len(Buffer(n)) <= MaxInt
         /\ \A i \in 1..n : Buffer(n)[i] = stream[i].byte
  <1>1. BufSize \in Nat /\ BufSize <= MaxInt
    BY WsStreamAssumption, Sizes
  <1>2. 0 \in Bytes
    BY Sizes DEF Bytes
  <1>3. \A i \in 1..Len(stream) : stream[i].byte \in Bytes
    <2>1. \A x \in Items : x.byte \in Bytes
      BY DEF Items
    <2> QED
      BY <2>1
  <1>4. ASSUME NEW i \in 1..BufSize
        PROVE  (IF i <= n THEN stream[i].byte ELSE 0) \in Bytes
    BY <1>1, <1>2, <1>3
  <1>5. Buffer(n) \in [1..BufSize -> Bytes]
    BY <1>4 DEF Buffer
  <1>6. \A i \in 1..n : Buffer(n)[i] = stream[i].byte
    BY <1>1 DEF Buffer
  <1>7. Buffer(n) \in Seq(Bytes) /\ Len(Buffer(n)) = BufSize
    BY <1>1, <1>5
  <1> QED
    BY <1>1, <1>6, <1>7

\* A read that ends at the end of a frame, like those before, gives the handler
\* the first message that it has neither been given nor missed.
LEMMA WholeRead ==
  ASSUME StreamInv, NEW n \in 1..BufSize, n <= Len(stream),
         whole, stream[n].last
  PROVE  \E k \in 0..Len(sent), j \in 1..Len(sent) :
           /\ k < j /\ k + 1 \in 1..Len(sent) /\ SomeOf(got, sent, k)
           /\ Framed(SubSeq(stream, n + 1, Len(stream)), Wires(sent), j)
           /\ DecodeFrame(Buffer(n))
                = Outcome("frame", sent[k + 1].opcode, sent[k + 1].payload)
  <1> DEFINE fs == Wires(sent)
  <1>1. /\ sent \in Seq(Messages) /\ stream \in Seq(Items) /\ Len(sent) \in Nat
        /\ \A i \in 1..Len(sent) : Len(sent[i].payload) \in CanFrame
    BY DEF StreamInv, Shape, Sized
  <1>2. PICK k \in 0..Len(sent) : Framed(stream, fs, k) /\ SomeOf(got, sent, k)
    BY DEF StreamInv, Incoming
  <1>3. /\ fs \in Seq(Seq(Items)) /\ Len(fs) = Len(sent)
        /\ \A j \in 1..Len(sent) : fs[j] = Tagged(Wire(sent[j]))
    BY <1>1, WiresOf
  <1> HIDE DEF fs
  <1>4. ASSUME NEW j \in 1..Len(sent)
        PROVE  /\ Wire(sent[j]) \in Seq(Bytes)
               /\ Len(fs[j]) = Len(Wire(sent[j]))
               /\ \A i \in 1..Len(fs[j]) :
                    fs[j][i] = [byte |-> Wire(sent[j])[i], last |-> i = Len(fs[j])]
    <2>1. sent[j] \in Messages /\ Len(sent[j].payload) \in CanFrame
      BY <1>1
    <2> QED
      BY <1>3, <2>1, TaggedWire
  <1>5. \A j \in 1..Len(fs) : \A i \in 1..Len(fs[j]) :
          stream[n] = fs[j][i] => i = Len(fs[j])
    <2> SUFFICES ASSUME NEW j \in 1..Len(fs), NEW i \in 1..Len(fs[j]),
                        stream[n] = fs[j][i]
                 PROVE  i = Len(fs[j])
      OBVIOUS
    <2>1. j \in 1..Len(sent)
      BY <1>3
    <2> DEFINE x == fs[j][i]
               b == Wire(sent[j])[i]
               l == i = Len(fs[j])
    <2>2. x = [byte |-> b, last |-> l]
      BY <1>4, <2>1
    <2>3. x = stream[n]
      OBVIOUS
    <2> HIDE DEF x, b, l
    <2>4. l
      BY <2>2, <2>3
    <2> QED
      BY <2>4 DEF l
  <1>6. n \in 1..Len(stream)
    BY <1>1, WsStreamAssumption, Sizes
  <1>7. PICK j \in (k + 1)..Len(fs) :
          /\ Framed(SubSeq(stream, n + 1, Len(stream)), fs, j)
          /\ k < Len(fs) /\ Len(fs[k + 1]) <= n
    <2>1. stream \in Seq(Items) /\ fs \in Seq(Seq(Items)) /\ Framed(stream, fs, k)
      BY <1>1, <1>2, <1>3
    <2> QED
      BY <1>5, <1>6, <2>1, FramedCut
  <1>8. k \in Nat /\ k + 1 \in 1..Len(sent) /\ j \in 1..Len(sent) /\ k < j
    BY <1>1, <1>2, <1>3, <1>7
  <1>9. \A i \in 1..Len(fs[k + 1]) : stream[i] = fs[k + 1][i]
    <2>1. stream \in Seq(Items) /\ fs \in Seq(Seq(Items)) /\ Framed(stream, fs, k)
      BY <1>1, <1>2, <1>3
    <2> QED
      BY <1>7, <2>1, FramedFirst
  <1> DEFINE m == sent[k + 1]
             w == Wire(m)
             data == Buffer(n)
  <1>10. /\ data \in Seq(Bytes) /\ Len(data) = BufSize /\ Len(data) <= MaxInt
         /\ \A i \in 1..n : data[i] = stream[i].byte
    BY <1>1, BufferBytes
  <1>11. m \in Messages /\ IsMessage(m) /\ Len(m.payload) \in CanFrame
    BY <1>1, <1>8, MessageIs
  <1>12. /\ w \in Seq(Bytes) /\ Len(w) = Len(fs[k + 1])
         /\ \A i \in 1..Len(w) : fs[k + 1][i].byte = w[i]
    <2> DEFINE g == fs[k + 1]
    <2>1. w \in Seq(Bytes) /\ Len(g) = Len(w)
      BY <1>4, <1>8
    <2>2. \A i \in 1..Len(g) : g[i] = [byte |-> w[i], last |-> i = Len(g)]
      BY <1>4, <1>8
    <2> HIDE DEF g, w
    <2>3. \A i \in 1..Len(g) : g[i].byte = w[i]
      <3> TAKE i \in 1..Len(g)
      <3> DEFINE l == i = Len(g)
      <3>1. g[i] = [byte |-> w[i], last |-> l]
        BY <2>2
      <3> HIDE DEF l
      <3> QED
        BY <3>1
    <2> QED
      BY <2>1, <2>3 DEF g
  <1> HIDE DEF m, w, data
  <1>13. Len(w) <= n /\ Len(w) \in Nat /\ n \in Nat /\ n <= BufSize
    <2>1. Len(w) \in Nat /\ n \in Nat /\ n <= BufSize
      BY <1>6, <1>12, WsStreamAssumption, Sizes
    <2> QED
      BY <1>7, <1>12, <2>1
  <1>14. \A i \in 1..Len(w) : data[i] = w[i]
    <2> TAKE i \in 1..Len(w)
    <2>1. i \in 1..n /\ i \in 1..Len(fs[k + 1])
      BY <1>12, <1>13
    <2>2. stream[i].byte = fs[k + 1][i].byte
      BY <1>9, <2>1
    <2> QED
      BY <1>10, <1>12, <2>1, <2>2
  <1>15. data \in Seq(Bytes) /\ Len(data) <= MaxInt /\ Len(w) <= Len(data)
    BY <1>10, <1>13
  <1>16. DecodeFrame(data) = Outcome("frame", m.opcode, m.payload)
    BY <1>11, <1>14, <1>15, DecodeWire DEF w
  <1> QED
    BY <1>2, <1>7, <1>8, <1>16 DEF fs, m, data

\* A read hands on the message, and drops what came with its end; after a read that
\* ends inside a frame nothing more is claimed.
LEMMA ReadStep ==
  ASSUME StreamInv, NEW n \in 1..BufSize, n <= Len(stream), Read(n)
  PROVE  StreamInv'
  <1> DEFINE f == DecodeFrame(Buffer(n))
             r == Known(Message(f.opcode, f.payload))
             rest == SubSeq(stream, n + 1, Len(stream))
             last == stream[n].last
  <1>1. /\ stream' = rest /\ whole' = (whole /\ last) /\ pc = "read"
        /\ got' = IF whole /\ f.outcome = "frame" THEN Append(got, r) ELSE got
        /\ \/ f.outcome = "frame" /\ pc' \in {"read", "post"}
           \/ f.outcome = "error" /\ pc' = "leave"
           \/ f.outcome = "panic" /\ pc' = "close"
        /\ UNCHANGED <<sent, heard, gone, room, conn, written, out>>
    BY DEF Read, Buffer
  <1>2. /\ sent \in Seq(Messages) /\ stream \in Seq(Items) /\ Len(sent) \in Nat
        /\ got \in Seq(Messages) /\ whole \in BOOLEAN
    BY DEF StreamInv, Shape
  <1>3. n \in 1..Len(stream)
    BY <1>2, WsStreamAssumption, Sizes
  <1>4. rest \in Seq(Items)
    BY <1>2, <1>3, Rest
  <1>5. last \in BOOLEAN
    <2>1. stream[n] \in Items
      BY <1>2, <1>3
    <2>2. \A x \in Items : x.last \in BOOLEAN
      BY DEF Items
    <2> QED
      BY <2>1, <2>2
  <1>6. r \in Messages
    <2>1. Junk \in Messages
      <3>1. 0 \in 0..(Opcodes - 1) /\ <<>> \in Seq(Bytes)
        BY Sizes
      <3> QED
        BY <3>1 DEF Junk, Message, Messages
    <2>2. \A i \in DOMAIN sent : sent[i] \in Messages
      BY <1>2
    <2> QED
      BY <2>1, <2>2 DEF Known
  <1> HIDE DEF f, r, rest, last
  <1>7. Shape'
    <2>1. got' \in Seq(Messages)
      BY <1>1, <1>2, <1>6
    <2>2. whole' \in BOOLEAN
      BY <1>1
    <2>3. stream' \in Seq(Items)
      BY <1>1, <1>4
    <2> QED
      BY <1>1, <2>1, <2>2, <2>3 DEF StreamInv, Shape
  <1>8. Sized'
    BY <1>1 DEF StreamInv, Sized
  <1>9. Outgoing'
    <2>1. Framed(out', Encoded(written'), Len(heard'))
            <=> Framed(out, Encoded(written), Len(heard))
      BY <1>1
    <2> QED
      BY <1>1, <2>1 DEF StreamInv, Outgoing
  <1>10. ASSUME whole, last PROVE Incoming'
    <2>1. PICK k \in 0..Len(sent), j \in 1..Len(sent) :
            /\ k < j /\ k + 1 \in 1..Len(sent) /\ SomeOf(got, sent, k)
            /\ Framed(rest, Wires(sent), j)
            /\ f = Outcome("frame", sent[k + 1].opcode, sent[k + 1].payload)
      BY <1>10, WholeRead DEF f, rest, last
    <2> DEFINE m == sent[k + 1]
    <2>2. m \in Messages /\ m = Message(m.opcode, m.payload)
      BY <1>2, <2>1, MessageIs
    <2>3. f.outcome = "frame" /\ f.opcode = m.opcode /\ f.payload = m.payload
      BY <2>1 DEF Outcome
    <2>4. r = m
      <3>1. k + 1 \in DOMAIN sent /\ sent[k + 1] = m
        BY <1>2, <2>1
      <3> HIDE DEF m
      <3>2. r = Known(m)
        BY <2>2, <2>3 DEF r
      <3> QED
        BY <3>1, <3>2 DEF Known
    <2>5. got' = Append(got, m) /\ pc' \in {"read", "post"}
      BY <1>1, <1>10, <2>3, <2>4
    <2>6. PICK at \in [1..Len(got) -> 1..k] :
            /\ \A a, b \in 1..Len(got) : a < b => at[a] < at[b]
            /\ \A a \in 1..Len(got) : got[a] = sent[at[a]]
      BY <2>1 DEF SomeOf
    <2> DEFINE g == Len(got)
               to == [a \in 1..(g + 1) |-> IF a <= g THEN at[a] ELSE k + 1]
    <2>7. /\ Len(got') = g + 1 /\ g \in Nat /\ got'[g + 1] = m
          /\ \A a \in 1..g : got'[a] = got[a]
      BY <1>2, <2>2, <2>5
    <2>8. k \in Nat /\ j \in Nat /\ k + 1 <= j
      BY <1>2, <2>1
    <2>9. \A a \in 1..g : at[a] \in 1..k
      BY <2>6
    <2> HIDE DEF m, g
    <2>10. to \in [1..(g + 1) -> 1..j]
      BY <2>7, <2>8, <2>9
    <2>11. /\ \A a \in 1..g : to[a] = at[a]
           /\ to[g + 1] = k + 1
      BY <2>7
    <2> HIDE DEF to
    <2>12. \A a, b \in 1..(g + 1) : a < b => to[a] < to[b]
      <3> SUFFICES ASSUME NEW a \in 1..(g + 1), NEW b \in 1..(g + 1), a < b
                   PROVE  to[a] < to[b]
        OBVIOUS
      <3>1. a \in 1..g /\ to[a] = at[a] /\ at[a] \in 1..k
        BY <2>7, <2>9, <2>11
      <3>2. CASE b = g + 1
        BY <2>8, <2>11, <3>1, <3>2
      <3>3. CASE b # g + 1
        <4>1. b \in 1..g
          BY <2>7, <3>3
        <4> QED
          BY <2>6, <2>11, <3>1, <4>1 DEF g
      <3> QED
        BY <3>2, <3>3
    <2>13. \A a \in 1..(g + 1) : got'[a] = sent[to[a]]
      <3> SUFFICES ASSUME NEW a \in 1..(g + 1) PROVE got'[a] = sent[to[a]]
        OBVIOUS
      <3>1. CASE a \in 1..g
        BY <2>6, <2>7, <2>11, <3>1 DEF g
      <3>2. CASE a = g + 1
        BY <2>7, <2>11, <3>2 DEF m
      <3> QED
        BY <2>7, <3>1, <3>2
    <2>14. SomeOf(got', sent, j)
      BY <2>7, <2>10, <2>12, <2>13 DEF SomeOf
    <2>15. Framed(stream', Wires(sent'), j) /\ SomeOf(got', sent', j)
      BY <1>1, <2>1, <2>14
    <2>16. j \in 0..Len(sent')
      BY <1>1, <1>2
    <2>17. Ending' => gone' \/ conn' = "closed"
      <3>1. Ending' => Ending
        BY <1>1, <2>5 DEF Ending
      <3> QED
        BY <1>1, <1>10, <3>1 DEF StreamInv, Incoming
    <2> QED
      BY <2>15, <2>16, <2>17 DEF Incoming
  <1>11. CASE ~(whole /\ last)
    <2>1. Incoming'
      BY <1>1, <1>11 DEF Incoming
    <2> QED
      BY <1>7, <1>8, <1>9, <2>1 DEF StreamInv
  <1> QED
    BY <1>7, <1>8, <1>9, <1>10, <1>11 DEF StreamInv

\* Each step of the handler's or the room's keeps the invariant.
LEMMA MovesStep ==
  StreamInv /\ (Moves \/ Waits \/ StopRoom \/ CloseChannels) => StreamInv'
  <1> SUFFICES ASSUME StreamInv, Moves \/ Waits \/ StopRoom \/ CloseChannels
               PROVE  StreamInv'
    OBVIOUS
  <1>1. /\ pc \in {"read", "post", "leave", "close", "shut", "done"}
        /\ room \in {"run", "held", "left", "close", "shut", "done", "over"}
        /\ conn \in {"open", "closed"}
        /\ whole /\ Ending => gone \/ conn = "closed"
    BY DEF StreamInv, Shape, Incoming
  <1>2. CASE ReadFails
    <2>1. whole /\ Ending' => gone \/ conn' = "closed"
      BY <1>2 DEF ReadFails
    <2> QED
      BY <1>1, <1>2, <2>1, ControlStep DEF ReadFails
  <1>3. CASE Reads
    BY <1>3, ReadStep DEF Reads
  \* What takes the handler on, or the room, without a new reason to end.
  <1>4. CASE \/ Post \/ LeaveRoom \/ SendPanics \/ Waits \/ StopRoom
             \/ CloseChannels \/ FrameworkCloses
    <2>1. /\ UNCHANGED <<sent, heard, gone, stream, got, written, out, whole>>
          /\ pc' \in {"read", "post", "leave", "close", "shut", "done"}
          /\ room' \in {"run", "held", "left", "close", "shut", "done", "over"}
          /\ conn' \in {"open", "closed"}
          /\ conn' = conn \/ conn' = "closed"
      BY <1>1, <1>4 DEF Post, LeaveRoom, SendPanics, Waits, StopRoom,
         CloseChannels, FrameworkCloses
    <2>2. Ending' => Ending
      BY <1>4 DEF Post, LeaveRoom, SendPanics, Waits, StopRoom, CloseChannels,
         FrameworkCloses, Ending
    <2> QED
      BY <1>1, <2>1, <2>2, ControlStep
  <1>5. CASE CloseFails
    BY <1>1, <1>5, ControlStep DEF CloseFails
  <1>6. CASE CloseConn
    BY <1>1, <1>6, ControlStep DEF CloseConn
  <1> QED
    BY <1>2, <1>3, <1>4, <1>5, <1>6 DEF Moves

\* So does each step of the system.
LEMMA StreamStep == StreamInv /\ [Next]_vars => StreamInv'
  <1> SUFFICES ASSUME StreamInv, [Next]_vars PROVE StreamInv'
    OBVIOUS
  <1>1. CASE UNCHANGED vars
    <2>1. /\ pc \in {"read", "post", "leave", "close", "shut", "done"}
          /\ room \in {"run", "held", "left", "close", "shut", "done", "over"}
          /\ conn \in {"open", "closed"}
          /\ whole /\ Ending => gone \/ conn = "closed"
      BY DEF StreamInv, Shape, Incoming
    <2> QED
      BY <1>1, <2>1, ControlStep DEF vars, Ending
  <1> QED
    BY <1>1, SendsStep, HearsStep, LeavesStep, WritesStep, CloseFrameStep,
       MovesStep
    DEF Next

\* The invariant holds of every behavior.
LEMMA Invariance == Spec => []StreamInv
  BY StreamInit, StreamStep, PTL DEF Spec

-----------------------------------------------------------------------------
(* Theorems. *)

\* Every variable has its type, and every message is one of bytes.
THEOREM TypeCorrect == Spec => []TypeOK
  BY Invariance, InvTypes, PTL

\* As long as every read has ended at the end of a frame, the handler gets only
\* messages that were sent, unmasked, in order, each once, and reads on, whatever
\* the sizes of frames and buffer (websocket/websocket.go:52, frame.go:22).
THEOREM ReadsOrdered == Spec => []ReadsInOrder
  BY Invariance, InvReads, PTL

\* What broadcasts and Close write is what the peer reads, whole and in order, of
\* every length (websocket/frame.go:93).
THEOREM WritesWhole == Spec => []WritesArrive
  BY Invariance, InvWrites, PTL
===============================================================================
