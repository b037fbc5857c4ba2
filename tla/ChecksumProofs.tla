---------------------------- MODULE ChecksumProofs ----------------------------
(***************************************************************************)
(* What in_cksum makes of packets, for packets of every length up to the   *)
(* longest one sent: a packet as sendPdu sends it passes, and no packet    *)
(* with one byte inverted does.                                            *)
(***************************************************************************)
EXTENDS Checksum, NaturalInduction

-----------------------------------------------------------------------------
(* Sums of words.                                                          *)

LEMMA WeightType ==
    ASSUME NEW i \in Nat
    PROVE  Weight(i) = 1 \/ Weight(i) = 256
BY DEF Weight

\* What one byte adds to the sum.
Term(bytes, i) == Weight(i) * bytes[i]

LEMMA TermIs ==
    ASSUME NEW bytes, NEW i \in Nat, bytes[i] \in Nat
    PROVE  \/ i % 2 = 1 /\ Term(bytes, i) = bytes[i]
           \/ i % 2 = 0 /\ Term(bytes, i) = 256 * bytes[i]
<1>1. CASE i % 2 = 1
  BY <1>1 DEF Term, Weight
<1>2. CASE i % 2 = 0
  BY <1>2 DEF Term, Weight
<1> QED  BY <1>1, <1>2

LEMMA ByteBounds ==
    ASSUME NEW b \in Byte
    PROVE  b \in Nat /\ b <= 255
BY DEF Byte

LEMMA TermType ==
    ASSUME NEW bytes \in Seq(Byte), NEW i \in 1..Len(bytes)
    PROVE  Term(bytes, i) \in Nat /\ Term(bytes, i) <= 65280
<1>1. bytes[i] \in Byte /\ i \in Nat
  OBVIOUS
<1>2. bytes[i] \in Nat /\ bytes[i] <= 255
  BY <1>1, ByteBounds
<1> QED  BY <1>1, <1>2, TermIs

\* g has the sums of the first words of bytes, up to the n-th byte.
Sums(g, bytes, n) ==
    /\ g \in [0..n -> Nat]
    /\ g[0] = 0
    /\ \A i \in 1..n : g[i] = g[i - 1] + Term(bytes, i)

\* The recursive definition of WordSum has a solution, ...
LEMMA SumsExist ==
    ASSUME NEW bytes \in Seq(Byte)
    PROVE  \E g : Sums(g, bytes, Len(bytes))
<1> DEFINE T == {n \in Nat : n <= Len(bytes) => \E g : Sums(g, bytes, n)}
<1>1. 0 \in T
  <2> DEFINE g == [i \in 0..0 |-> 0]
  <2>1. Sums(g, bytes, 0)
    BY DEF Sums
  <2> QED  BY <2>1
<1>2. ASSUME NEW n \in T
      PROVE  n + 1 \in T
  <2> SUFFICES ASSUME n + 1 <= Len(bytes)
               PROVE  \E g : Sums(g, bytes, n + 1)
    OBVIOUS
  <2>1. PICK f : Sums(f, bytes, n)
    BY <1>2
  <2>2. Term(bytes, n + 1) \in Nat
    <3>1. n + 1 \in 1..Len(bytes) /\ n + 1 \in Nat
      BY <1>2
    <3> QED  BY <3>1, TermType
  <2> DEFINE g == [i \in 0..(n + 1) |->
                     IF i <= n THEN f[i] ELSE f[n] + Term(bytes, n + 1)]
  <2>3. f \in [0..n -> Nat] /\ f[0] = 0 /\ f[n] \in Nat
    BY <2>1 DEF Sums
  <2>4. g \in [0..(n + 1) -> Nat] /\ g[0] = 0 /\ \A i \in 0..n : g[i] = f[i]
    BY <2>2, <2>3
  <2>5. g[n + 1] = f[n] + Term(bytes, n + 1) /\ g[n] = f[n]
    BY <2>2, <2>3
  <2> HIDE DEF g
  <2>6. ASSUME NEW i \in 1..(n + 1)
        PROVE  g[i] = g[i - 1] + Term(bytes, i)
    <3>1. CASE i = n + 1
      BY <2>5, <3>1
    <3>2. CASE i # n + 1
      <4>1. i \in 1..n /\ i - 1 \in 0..n /\ i \in 0..n
        BY <3>2
      <4> QED  BY <2>1, <2>4, <4>1 DEF Sums
    <3> QED  BY <3>1, <3>2
  <2> QED  BY <2>4, <2>6 DEF Sums
<1> HIDE DEF T
<1>3. T = Nat
  <2>1. T \in SUBSET Nat
    BY DEF T
  <2> QED  BY <1>1, <1>2, <2>1, Induction
<1>4. Len(bytes) \in T
  BY <1>3
<1> QED  BY <1>4 DEF T

\* ... and it is what WordSum chooses.
LEMMA WordSumIs ==
    ASSUME NEW bytes \in Seq(Byte)
    PROVE  \E g : Sums(g, bytes, Len(bytes)) /\ WordSum(bytes) = g[Len(bytes)]
<1> DEFINE n == Len(bytes)
           Def(g) == g = [i \in 0..n |-> IF i = 0 THEN 0
                                         ELSE g[i - 1] + Term(bytes, i)]
<1>1. n \in Nat
  OBVIOUS
<1>2. PICK f : Sums(f, bytes, n)
  BY SumsExist
<1>3. Def(f)
  BY <1>1, <1>2 DEF Sums
<1>4. PICK g : Def(g) /\ WordSum(bytes) = g[n]
  BY <1>3 DEF WordSum, Term
<1>5. g[0] = 0 /\ \A i \in 1..n : g[i] = g[i - 1] + Term(bytes, i)
  BY <1>1, <1>4
<1> DEFINE T == {k \in Nat : k <= n => g[k] \in Nat}
<1>6. 0 \in T
  BY <1>5
<1>7. ASSUME NEW k \in T
      PROVE  k + 1 \in T
  <2> SUFFICES ASSUME k + 1 <= n
               PROVE  g[k + 1] \in Nat
    OBVIOUS
  <2>1. g[k + 1] = g[(k + 1) - 1] + Term(bytes, k + 1)
    BY <1>1, <1>5
  <2>2. (k + 1) - 1 = k /\ g[k] \in Nat
    BY <1>1, <1>7
  <2>3. Term(bytes, k + 1) \in Nat
    <3>1. k + 1 \in 1..Len(bytes)
      BY <1>1, <1>7
    <3> QED  BY <3>1, TermType
  <2> QED  BY <2>1, <2>2, <2>3
<1> HIDE DEF T
<1>8. T = Nat
  <2>1. T \in SUBSET Nat
    BY DEF T
  <2> QED  BY <1>6, <1>7, <2>1, Induction
<1>9. g \in [0..n -> Nat]
  <2>1. \A k \in 0..n : g[k] \in Nat
    BY <1>1, <1>8 DEF T
  <2>2. DOMAIN g = 0..n /\ g = [k \in 0..n |-> g[k]]
    BY <1>4
  <2> QED  BY <2>1, <2>2
<1> QED  BY <1>4, <1>5, <1>9 DEF Sums

\* The sum of a packet that can be sent is far below 2^31, where the
\* accumulator would overflow.
LEMMA WordSumType ==
    ASSUME NEW bytes \in Seq(Byte)
    PROVE  WordSum(bytes) \in Nat /\ WordSum(bytes) <= 65280 * Len(bytes)
<1> DEFINE n == Len(bytes)
<1>1. n \in Nat
  OBVIOUS
<1>2. PICK g : Sums(g, bytes, n) /\ WordSum(bytes) = g[n]
  BY WordSumIs
<1>3. g \in [0..n -> Nat]
  BY <1>2 DEF Sums
<1> DEFINE T == {k \in Nat : k <= n => g[k] <= 65280 * k}
<1>4. 0 \in T
  BY <1>2 DEF Sums
<1>5. ASSUME NEW k \in T
      PROVE  k + 1 \in T
  <2> SUFFICES ASSUME k + 1 <= n
               PROVE  g[k + 1] <= 65280 * (k + 1)
    OBVIOUS
  <2>1. k \in 0..n /\ k + 1 \in 1..n /\ (k + 1) - 1 = k /\ k + 1 \in 0..n
    BY <1>1, <1>5
  <2>2. g[k + 1] = g[k] + Term(bytes, k + 1)
    BY <1>2, <2>1 DEF Sums
  <2>3. Term(bytes, k + 1) \in Nat /\ Term(bytes, k + 1) <= 65280
    BY <2>1, TermType
  <2>4. g[k] \in Nat /\ g[k] <= 65280 * k
    BY <1>1, <1>3, <1>5, <2>1
  <2> QED  BY <1>5, <2>2, <2>3, <2>4
<1> HIDE DEF T
<1>6. T = Nat
  <2>1. T \in SUBSET Nat
    BY DEF T
  <2> QED  BY <1>4, <1>5, <2>1, Induction
<1>7. g[n] <= 65280 * n
  BY <1>1, <1>6 DEF T
<1> QED  BY <1>1, <1>2, <1>3, <1>7

\* Another byte at one place changes the sum by what it adds there.
LEMMA WordSumOfChange ==
    ASSUME NEW bytes \in Seq(Byte), NEW new \in Seq(Byte), NEW i \in 1..Len(bytes),
           Len(new) = Len(bytes),
           \A j \in 1..Len(bytes) : j # i => new[j] = bytes[j]
    PROVE  WordSum(new) = (WordSum(bytes) - Term(bytes, i)) + Term(new, i)
<1> DEFINE n == Len(bytes)
<1>1. n \in Nat
  OBVIOUS
<1>2. Len(new) = n /\ \A j \in 1..n : j # i => new[j] = bytes[j]
  OBVIOUS
<1>3. PICK g : Sums(g, bytes, n) /\ WordSum(bytes) = g[n]
  BY WordSumIs
<1>4. PICK h : Sums(h, new, n) /\ WordSum(new) = h[n]
  BY <1>2, WordSumIs
<1>5. g \in [0..n -> Nat] /\ h \in [0..n -> Nat]
  BY <1>3, <1>4 DEF Sums
<1>6. ASSUME NEW j \in 1..n
      PROVE  Term(bytes, j) \in Nat /\ Term(new, j) \in Nat
  <2>1. Term(bytes, j) \in Nat
    BY TermType
  <2>2. j \in 1..Len(new)
    BY <1>2
  <2>3. Term(new, j) \in Nat
    BY <2>2, TermType
  <2> QED  BY <2>1, <2>3
<1> DEFINE T == {k \in Nat : k <= n =>
                   h[k] = IF k < i THEN g[k] ELSE (g[k] - Term(bytes, i)) + Term(new, i)}
<1>7. 0 \in T
  BY <1>3, <1>4 DEF Sums
<1>8. ASSUME NEW k \in T
      PROVE  k + 1 \in T
  <2> SUFFICES ASSUME k + 1 <= n
               PROVE  h[k + 1] = IF k + 1 < i THEN g[k + 1]
                                 ELSE (g[k + 1] - Term(bytes, i)) + Term(new, i)
    OBVIOUS
  <2>1. k \in 0..n /\ k + 1 \in 1..n /\ (k + 1) - 1 = k
    BY <1>1, <1>8
  <2>2. g[k + 1] = g[k] + Term(bytes, k + 1) /\ h[k + 1] = h[k] + Term(new, k + 1)
    BY <1>3, <1>4, <2>1 DEF Sums
  <2>3. /\ Term(bytes, k + 1) \in Nat /\ Term(new, k + 1) \in Nat
        /\ g[k] \in Nat /\ h[k] \in Nat
    BY <1>5, <1>6, <2>1
  <2>4. h[k] = IF k < i THEN g[k] ELSE (g[k] - Term(bytes, i)) + Term(new, i)
    BY <1>1, <1>8, <2>1
  <2>5. CASE k + 1 = i
    <3>1. k < i /\ ~(k + 1 < i) /\ h[k] = g[k]
      BY <1>1, <2>1, <2>4, <2>5
    <3>2. h[k + 1] = (g[k + 1] - Term(bytes, k + 1)) + Term(new, k + 1)
      BY <2>2, <2>3, <3>1
    <3> QED  BY <2>5, <3>1, <3>2
  <2>6. CASE k + 1 # i
    <3>1. Term(new, k + 1) = Term(bytes, k + 1)
      BY <1>2, <2>1, <2>6 DEF Term
    <3>2. Term(bytes, i) \in Nat /\ Term(new, i) \in Nat
      BY <1>6
    <3>3. k < i <=> k + 1 < i
      BY <2>1, <2>6
    <3> QED  BY <2>2, <2>3, <2>4, <3>1, <3>2, <3>3
  <2> QED  BY <2>5, <2>6
<1> HIDE DEF T
<1>9. T = Nat
  <2>1. T \in SUBSET Nat
    BY DEF T
  <2> QED  BY <1>7, <1>8, <2>1, Induction
<1>10. h[n] = (g[n] - Term(bytes, i)) + Term(new, i)
  <2>1. n \in T /\ ~(n < i)
    BY <1>1, <1>9
  <2> QED  BY <2>1 DEF T
<1> QED  BY <1>2, <1>3, <1>4, <1>10

-----------------------------------------------------------------------------
(* Carries.                                                                *)

\* Adding the carries back keeps a sum the same modulo 65535, and positive.
CarriedFrom(sum, folded) ==
    /\ folded \in Nat /\ folded <= 65535
    /\ sum > 0 => folded > 0
    /\ \E k \in Nat : folded = sum - 65535 * k

LEMMA FoldedIs ==
    ASSUME NEW sum \in Nat, sum <= 65280 * MaxPdu
    PROVE  CarriedFrom(sum, Folded(sum))
<1> DEFINE high == sum \div 65536
           low == sum % 65536
           once == high + low
<1>1. /\ high \in Nat /\ high < 65535 /\ low \in Nat /\ low < 65536
      /\ sum = 65536 * high + low
  BY DEF MaxPdu
<1>2. Folded(sum) = (once + (once \div 65536)) % 65536
  BY DEF Folded
<1> HIDE DEF high, low
<1>3. CASE once < 65536
  <2>1. once \in Nat /\ once \div 65536 = 0
    BY <1>1, <1>3
  <2>2. Folded(sum) = once
    <3>1. once + (once \div 65536) = once
      BY <2>1
    <3>2. once % 65536 = once
      BY <1>3, <2>1
    <3> QED  BY <1>2, <3>1, <3>2
  <2>3. once = sum - 65535 * high
    BY <1>1
  <2>4. Folded(sum) \in Nat /\ Folded(sum) <= 65535 /\ (sum > 0 => Folded(sum) > 0)
    BY <1>1, <1>3, <2>1, <2>2
  <2> QED  BY <1>1, <2>2, <2>3, <2>4 DEF CarriedFrom
<1>4. CASE once >= 65536
  <2>1. once \in Nat /\ once \div 65536 = 1 /\ once < 131071
    BY <1>1, <1>4
  <2>2. Folded(sum) = once - 65535
    <3>1. once + (once \div 65536) = once + 1
      BY <2>1
    <3>2. (once + 1) % 65536 = once - 65535
      BY <1>4, <2>1
    <3> QED  BY <1>2, <3>1, <3>2
  <2>3. once - 65535 = sum - 65535 * (high + 1)
    BY <1>1
  <2>4. Folded(sum) \in Nat /\ Folded(sum) <= 65535 /\ Folded(sum) > 0
    BY <1>4, <2>1, <2>2
  <2>5. high + 1 \in Nat /\ Folded(sum) = sum - 65535 * (high + 1)
    BY <1>1, <2>2, <2>3
  <2> QED  BY <2>4, <2>5 DEF CarriedFrom
<1>5. once < 65536 \/ once >= 65536
  BY <1>1
<1> HIDE DEF once
<1> QED  BY <1>3, <1>4, <1>5

\* A positive sum that is a multiple of 65535 folds to 65535, and no other.
LEMMA FoldsToOnes ==
    ASSUME NEW sum \in Nat, sum > 0, sum <= 65280 * MaxPdu
    PROVE  Folded(sum) = 65535 <=> \E k \in Int : sum = 65535 * k
<1> DEFINE f == Folded(sum)
<1>1. CarriedFrom(sum, f)
  BY FoldedIs
<1>2. PICK m \in Nat : f = sum - 65535 * m
  BY <1>1 DEF CarriedFrom
<1>3. f \in Nat /\ 0 < f /\ f <= 65535
  BY <1>1 DEF CarriedFrom
<1> HIDE DEF f
<1>4. ASSUME f = 65535
      PROVE  \E k \in Int : sum = 65535 * k
  <2>1. m + 1 \in Int /\ sum = 65535 * (m + 1)
    BY <1>2, <1>4
  <2> QED  BY <2>1
<1>5. ASSUME NEW k \in Int, sum = 65535 * k
      PROVE  f = 65535
  <2>1. f = 65535 * (k - m) /\ k - m \in Int
    BY <1>2, <1>5
  <2>2. k - m = 1
    BY <1>3, <2>1
  <2> QED  BY <2>1, <2>2
<1>6. f = 65535 <=> \E k \in Int : sum = 65535 * k
  BY <1>4, <1>5
<1> QED  BY <1>6 DEF f

-----------------------------------------------------------------------------
(* Packets.                                                                *)

\* The packets that are sent, before and after their checksum is filled in.
Sendable(bytes) == bytes \in Seq(Byte) /\ FlagAt <= Len(bytes) /\ Len(bytes) <= MaxPdu

LEMMA IsByte ==
    ASSUME NEW b \in Nat, b <= 255
    PROVE  b \in Byte
BY DEF Byte

\* in_cksum of a packet is 0 exactly if its words add up to ones.
LEMMA ChecksumIs ==
    ASSUME NEW bytes, Sendable(bytes)
    PROVE  /\ in_cksum(bytes) \in Nat /\ in_cksum(bytes) <= 65535
           /\ CarriedFrom(WordSum(bytes), 65535 - in_cksum(bytes))
           /\ WordSum(bytes) \in Nat /\ WordSum(bytes) <= 65280 * MaxPdu
           /\ in_cksum(bytes) = 0 <=> Folded(WordSum(bytes)) = 65535
<1>1. bytes \in Seq(Byte) /\ Len(bytes) \in Nat /\ Len(bytes) <= MaxPdu
  BY DEF Sendable
<1>2. WordSum(bytes) \in Nat /\ WordSum(bytes) <= 65280 * Len(bytes)
  BY <1>1, WordSumType
<1>3. WordSum(bytes) <= 65280 * MaxPdu
  BY <1>1, <1>2 DEF MaxPdu
<1>4. CarriedFrom(WordSum(bytes), Folded(WordSum(bytes)))
  BY <1>2, <1>3, FoldedIs
<1>5. Folded(WordSum(bytes)) \in Nat /\ Folded(WordSum(bytes)) <= 65535
  BY <1>4 DEF CarriedFrom
<1>6. in_cksum(bytes) = 65535 - Folded(WordSum(bytes))
  BY DEF in_cksum, WordMax
<1>7. 65535 - in_cksum(bytes) = Folded(WordSum(bytes))
  BY <1>5, <1>6
<1>8. in_cksum(bytes) \in Nat /\ in_cksum(bytes) <= 65535
  BY <1>5, <1>6
<1>9. in_cksum(bytes) = 0 <=> Folded(WordSum(bytes)) = 65535
  BY <1>5, <1>6
<1> QED  BY <1>2, <1>3, <1>4, <1>7, <1>8, <1>9

\* A packet as sendPdu sends it has the bytes it was given but for the
\* checksum's, and passes its receiver's check.
THEOREM Accepted ==
    ASSUME NEW body, Sendable(body)
    PROVE  /\ Sendable(WithChecksum(body))
           /\ Len(WithChecksum(body)) = Len(body)
           /\ in_cksum(WithChecksum(body)) = 0
<1> DEFINE zero == [body EXCEPT ![ChecksumAt] = 0, ![ChecksumAt + 1] = 0]
           sum == in_cksum(zero)
           half == [zero EXCEPT ![ChecksumAt] = sum % 256]
           packet == WithChecksum(body)
           n == Len(body)
<1>1. body \in Seq(Byte) /\ n \in Nat /\ 7 <= n /\ n <= MaxPdu
  BY DEF Sendable, FlagAt
<1>2. /\ zero \in Seq(Byte) /\ Len(zero) = n
      /\ zero[5] = 0 /\ zero[6] = 0
      /\ \A j \in 1..n : j # 5 /\ j # 6 => zero[j] = body[j]
  <2>1. 0 \in Byte
    BY IsByte
  <2> QED  BY <1>1, <2>1 DEF ChecksumAt
<1>3. Sendable(zero)
  BY <1>1, <1>2 DEF Sendable, FlagAt
<1>4. packet = [body EXCEPT ![5] = sum % 256, ![6] = sum \div 256]
  BY DEF WithChecksum, ChecksumAt
<1> HIDE DEF zero, packet
<1>5. /\ sum \in Nat /\ sum <= 65535 /\ CarriedFrom(WordSum(zero), 65535 - sum)
      /\ WordSum(zero) \in Nat
  BY <1>3, ChecksumIs
<1> HIDE DEF sum
<1>6. /\ sum % 256 \in Nat /\ sum % 256 <= 255
      /\ sum \div 256 \in Nat /\ sum \div 256 <= 255
      /\ sum = (sum % 256) + 256 * (sum \div 256)
  BY <1>5
<1>7. sum % 256 \in Byte /\ sum \div 256 \in Byte
  BY <1>6, IsByte
<1>8. /\ half \in Seq(Byte) /\ Len(half) = n
      /\ half[5] = sum % 256 /\ half[6] = 0
      /\ \A j \in 1..Len(zero) : j # 5 => half[j] = zero[j]
  BY <1>1, <1>2, <1>7 DEF ChecksumAt
<1>9. /\ packet \in Seq(Byte) /\ Len(packet) = n
      /\ packet[6] = sum \div 256
      /\ \A j \in 1..Len(half) : j # 6 => packet[j] = half[j]
  <2>1. packet \in Seq(Byte) /\ Len(packet) = n
    BY <1>1, <1>4, <1>7
  <2>2. packet[6] = sum \div 256 /\ packet[5] = sum % 256
    BY <1>1, <1>4
  <2>3. ASSUME NEW j \in 1..n, j # 5, j # 6
        PROVE  packet[j] = half[j]
    <3>1. packet[j] = body[j]
      BY <1>1, <1>4, <2>3
    <3>2. half[j] = zero[j] /\ zero[j] = body[j]
      BY <1>2, <1>8, <2>3
    <3> QED  BY <3>1, <3>2
  <2> QED  BY <1>8, <2>1, <2>2, <2>3
<1> HIDE DEF half
<1>10. WordSum(half) = WordSum(zero) + (sum % 256)
  <2>1. WordSum(half) = (WordSum(zero) - Term(zero, 5)) + Term(half, 5)
    <3>1. 5 \in 1..Len(zero)
      BY <1>1, <1>2
    <3> QED  BY <1>2, <1>8, <3>1, WordSumOfChange
  <2>2. Term(zero, 5) = 0 /\ Term(half, 5) = sum % 256
    BY <1>2, <1>6, <1>8 DEF Term, Weight
  <2> QED  BY <1>5, <1>6, <2>1, <2>2
<1>11. WordSum(packet) = WordSum(half) + 256 * (sum \div 256)
  <2>1. WordSum(packet) = (WordSum(half) - Term(half, 6)) + Term(packet, 6)
    <3>1. 6 \in 1..Len(half)
      BY <1>1, <1>8
    <3> QED  BY <1>8, <1>9, <3>1, WordSumOfChange
  <2>2. Term(half, 6) = 0 /\ Term(packet, 6) = 256 * (sum \div 256)
    BY <1>6, <1>8, <1>9 DEF Term, Weight
  <2> QED  BY <1>5, <1>6, <1>10, <2>1, <2>2
<1>12. WordSum(packet) = WordSum(zero) + sum
  BY <1>5, <1>6, <1>10, <1>11
<1>13. Sendable(packet)
  BY <1>1, <1>9 DEF Sendable, FlagAt
<1>14. PICK k \in Nat : 65535 - sum = WordSum(zero) - 65535 * k
  BY <1>5 DEF CarriedFrom
<1>15. WordSum(packet) = 65535 * (k + 1) /\ k + 1 \in Int /\ WordSum(packet) > 0
  BY <1>5, <1>12, <1>14
<1>16. /\ WordSum(packet) \in Nat /\ WordSum(packet) <= 65280 * MaxPdu
       /\ in_cksum(packet) = 0 <=> Folded(WordSum(packet)) = 65535
  BY <1>13, ChecksumIs
<1>17. in_cksum(packet) = 0
  BY <1>15, <1>16, FoldsToOnes
<1> QED  BY <1>9, <1>13, <1>17 DEF packet

\* A packet that passes the check does not pass it with one byte inverted,
\* whichever: the sum changes by less than 65535, but it does change.
THEOREM Refused ==
    ASSUME NEW packet, Sendable(packet), in_cksum(packet) = 0, NEW i \in 1..Len(packet)
    PROVE  /\ FlipByte(packet, i) # packet
           /\ Len(FlipByte(packet, i)) = Len(packet)
           /\ in_cksum(FlipByte(packet, i)) # 0
<1> DEFINE flipped == FlipByte(packet, i)
           b == packet[i]
           S == WordSum(packet)
           F == WordSum(flipped)
<1>1. packet \in Seq(Byte) /\ Len(packet) \in Nat /\ i \in Nat /\ b \in Byte
  BY DEF Sendable
<1>2. b \in Nat /\ b <= 255
  BY <1>1, ByteBounds
<1>3. 255 - b \in Byte
  BY <1>2, IsByte
<1>4. /\ flipped \in Seq(Byte) /\ Len(flipped) = Len(packet) /\ flipped[i] = 255 - b
      /\ \A j \in 1..Len(packet) : j # i => flipped[j] = packet[j]
  BY <1>1, <1>3 DEF FlipByte
<1>5. flipped # packet
  BY <1>2, <1>4
<1>6. Sendable(flipped)
  BY <1>1, <1>4 DEF Sendable
<1> HIDE DEF flipped
<1>7. F = (S - Term(packet, i)) + Term(flipped, i)
  BY <1>1, <1>4, WordSumOfChange
<1>8. /\ S \in Nat /\ S <= 65280 * MaxPdu /\ F \in Nat /\ F <= 65280 * MaxPdu
      /\ Folded(S) = 65535
      /\ in_cksum(flipped) = 0 <=> Folded(F) = 65535
  BY <1>6, ChecksumIs
<1> HIDE DEF S, F
<1>9. S > 0
  <2>1. CarriedFrom(S, 65535)
    BY <1>8, FoldedIs
  <2>2. PICK m \in Nat : 65535 = S - 65535 * m
    BY <2>1 DEF CarriedFrom
  <2> QED  BY <1>8, <2>2
<1>10. PICK k \in Int : S = 65535 * k
  BY <1>8, <1>9, FoldsToOnes
<1>11. \E w \in {1, 256} : F = S + w * (255 - 2 * b)
  <2>1. CASE i % 2 = 1
    <3>1. Term(packet, i) = b /\ Term(flipped, i) = 255 - b
      BY <1>1, <1>2, <1>4, <2>1 DEF Term, Weight
    <3> QED  BY <1>2, <1>7, <1>8, <3>1
  <2>2. CASE i % 2 = 0
    <3>1. Term(packet, i) = 256 * b /\ Term(flipped, i) = 256 * (255 - b)
      BY <1>1, <1>2, <1>4, <2>2 DEF Term, Weight
    <3> QED  BY <1>2, <1>7, <1>8, <3>1
  <2> QED  BY <1>1, <2>1, <2>2
<1>12. ~\E m \in Int : F = 65535 * m
  <2> SUFFICES ASSUME NEW m \in Int, F = 65535 * m
               PROVE  FALSE
    OBVIOUS
  <2>1. PICK w \in {1, 256} : F = S + w * (255 - 2 * b)
    BY <1>11
  <2> DEFINE d == m - k
  <2>2. d \in Int /\ 65535 * d = w * (255 - 2 * b)
    BY <1>2, <1>10, <2>1
  <2> HIDE DEF d
  <2>3. w * (255 - 2 * b) < 65535 /\ w * (255 - 2 * b) > -65535
    BY <1>2, <2>1
  <2>4. d = 0
    BY <2>2, <2>3
  <2>5. 255 - 2 * b = 0
    BY <1>2, <2>1, <2>2, <2>4
  <2> QED  BY <1>2, <2>5
<1>13. F > 0
  BY <1>8, <1>12
<1>14. in_cksum(flipped) # 0
  BY <1>8, <1>12, <1>13, FoldsToOnes
<1> QED  BY <1>4, <1>5, <1>14 DEF flipped
=============================================================================
