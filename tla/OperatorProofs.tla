--------------------------- MODULE OperatorProofs ---------------------------
(***************************************************************************)
(* What the operators compute that the components share: the sequence      *)
(* numbers of wrapping_integers.cc, the checksum of util.cc and the        *)
(* methods of StreamReassembler, for every argument that the types allow;  *)
(* and, from these, the invariants of StreamReassemblerSpec.               *)
(***************************************************************************)
EXTENDS StreamReassemblerSpec, WrappingIntegers, InternetChecksum,
        FiniteSetTheorems, TLAPS

-----------------------------------------------------------------------------
(* Sequence numbers, for every modulus N.                                  *)

\* Division with remainder by N.
LEMMA DivMod ==
  ASSUME NEW x \in Nat
  PROVE  /\ x % N \in 0 .. N - 1
         /\ x \div N \in Nat
         /\ x = (x \div N) * N + (x % N)
<1>1. x % N \in 0 .. N - 1 /\ x \div N \in Nat
  BY NAssumption
<1>2. x = (x \div N) * N + (x % N)
  BY NAssumption
<1> QED
  BY <1>1, <1>2, Zenon

\* N is twice its half, and the half is positive.
LEMMA Half == N \div 2 \in Nat /\ N = 2 * (N \div 2) /\ N \div 2 >= 1
  BY NAssumption

\* A higher turn starts at a higher number.
LEMMA Turns ==
  ASSUME NEW a \in Int, NEW b \in Int, a <= b
  PROVE  a * N <= b * N
  BY NAssumption

\* The quotient and the remainder are determined by the number.
LEMMA ModUnique ==
  ASSUME NEW q \in Nat, NEW r \in 0 .. N - 1
  PROVE  (q * N + r) % N = r /\ (q * N + r) \div N = q
  BY NAssumption

\* Subtracting the initial sequence number in 32 bits recovers the position
\* within the turn.
LEMMA DifferenceOfWrap ==
  ASSUME NEW s \in Nat, NEW i \in Raw
  PROVE  RawDifference(wrap(s, i), i) = s % N
<1> DEFINE q == s \div N
           r == s % N
<1>1. q \in Nat /\ r \in 0 .. N - 1 /\ s = q * N + r
  BY DivMod, Zenon
<1>2. i \in 0 .. N - 1
  BY Zenon DEF Raw
<1> HIDE DEF q, r
<1>3. CASE r + i < N
  <2>1. s + i = q * N + (r + i) /\ r + i \in 0 .. N - 1
    BY <1>1, <1>2, <1>3, NAssumption
  <2>2. wrap(s, i) = r + i
    BY <2>1, <1>1, ModUnique, Zenon DEF wrap
  <2> QED
    BY <2>2, <1>1, <1>2, NAssumption DEF RawDifference, r
<1>4. CASE r + i >= N
  <2>1. s + i = (q + 1) * N + (r + i - N) /\ r + i - N \in 0 .. N - 1
    BY <1>1, <1>2, <1>4, NAssumption
  <2>2. wrap(s, i) = r + i - N
    BY <2>1, <1>1, ModUnique DEF wrap
  <2> QED
    BY <2>2, <1>1, <1>2, NAssumption DEF RawDifference, r
<1> QED
  BY <1>1, <1>2, <1>3, <1>4, NAssumption

\* unwrap() inverts wrap() within half a turn of the checkpoint.
THEOREM UnwrapInverts ==
  ASSUME NEW s \in Nat, NEW i \in Raw, NEW c \in Nat,
         s - c < N \div 2, c - s < N \div 2
  PROVE  unwrap(wrap(s, i), i, c) = s
<1> DEFINE q == s \div N
           r == s % N
           b == c \div N
           o == c % N
           h == N \div 2
<1>1. q \in Nat /\ r \in 0 .. N - 1 /\ s = q * N + r
  BY DivMod, Zenon
<1>2. b \in Nat /\ o \in 0 .. N - 1 /\ c = b * N + o
  BY DivMod, Zenon
<1>3. h \in Nat /\ N = 2 * h /\ h >= 1
  BY Half, Zenon
<1>4. /\ s - c < h /\ c - s < h
      /\ unwrap(wrap(s, i), i, c)
           = (IF r >= o /\ r - o >= h /\ c >= N THEN b - 1
              ELSE IF r < o /\ o - r >= h THEN b + 1 ELSE b) * N + r
  BY DifferenceOfWrap, Zenon DEF unwrap
<1> HIDE DEF q, r, b, o, h
<1>n. N \in Nat
  BY NAssumption, Zenon
<1>5. q \in {b - 1, b, b + 1}
  <2>1. ASSUME q >= b + 2 PROVE FALSE
    <3>1. (b + 2) * N <= q * N
      BY <2>1, <1>1, <1>2, Turns
    <3>2. (b + 2) * N = b * N + N + N
      BY <1>2, <1>n
    <3> QED
      BY <3>1, <3>2, <1>1, <1>2, <1>3, <1>4, <1>n
  <2>2. ASSUME q + 2 <= b PROVE FALSE
    <3>1. (q + 2) * N <= b * N
      BY <2>2, <1>1, <1>2, Turns
    <3>2. (q + 2) * N = q * N + N + N
      BY <1>1, <1>n
    <3> QED
      BY <3>1, <3>2, <1>1, <1>2, <1>3, <1>4, <1>n
  <2> QED
    BY <2>1, <2>2, <1>1, <1>2
<1>6. CASE q = b - 1
  <2>1. b * N = q * N + N
    BY <1>6, <1>1, <1>2, <1>n
  <2>2. 0 * N <= q * N
    BY <1>1, Turns
  <2>3. r >= o /\ r - o >= h /\ c >= N
    BY <2>1, <2>2, <1>1, <1>2, <1>3, <1>4, <1>n
  <2> QED
    BY <2>3, <1>6, <1>4, <1>1, Zenon
<1>7. CASE q = b
  <2>1. q * N = b * N
    BY <1>7, Zenon
  <2>2. ~(r >= o /\ r - o >= h) /\ ~(r < o /\ o - r >= h)
    BY <2>1, <1>1, <1>2, <1>3, <1>4, <1>n
  <2> QED
    BY <2>2, <1>7, <1>4, <1>1, Zenon
<1>8. CASE q = b + 1
  <2>1. q * N = b * N + N
    BY <1>8, <1>1, <1>2, <1>n
  <2>2. r < o /\ o - r >= h
    BY <2>1, <1>1, <1>2, <1>3, <1>4, <1>n
  <2>3. ~(r >= o)
    BY <2>2, <1>1, <1>2
  <2> QED
    BY <2>2, <2>3, <1>8, <1>4, <1>1, Zenon
<1> QED
  BY <1>5, <1>6, <1>7, <1>8, Zenon

\* What unwrap() returns for any n wraps to n, and the numbers one turn above
\* and one turn below it are no closer to the checkpoint.
THEOREM UnwrapClosest ==
  ASSUME NEW n \in Raw, NEW i \in Raw, NEW c \in Nat, NEW u,
         u = unwrap(n, i, c)
  PROVE  /\ u \in Nat
         /\ wrap(u, i) = n
         /\ dist(u, c) <= dist(u + N, c)
         /\ u >= N => dist(u, c) <= dist(u - N, c)
<1> DEFINE d == RawDifference(n, i)
           b == c \div N
           o == c % N
           h == N \div 2
           t == IF d >= o /\ d - o >= h /\ c >= N THEN b - 1
                ELSE IF d < o /\ o - d >= h THEN b + 1 ELSE b
<1>n. N \in Nat /\ N >= 2
  BY NAssumption, Zenon
<1>0. n \in 0 .. N - 1 /\ i \in 0 .. N - 1
  BY Zenon DEF Raw
<1>1. d \in 0 .. N - 1 /\ (d + i = n \/ d + i = n + N)
  BY <1>0, <1>n DEF RawDifference
<1>2. b \in Nat /\ o \in 0 .. N - 1 /\ c = b * N + o
  BY DivMod, Zenon
<1>3. h \in Nat /\ N = 2 * h /\ h >= 1
  BY Half, Zenon
<1>4. u = t * N + d
  BY Zenon DEF unwrap
<1>5. c >= N => b >= 1
  <2>1. ASSUME b = 0 PROVE c = o
    BY <2>1, <1>2, <1>n
  <2> QED
    BY <2>1, <1>2, <1>n
<1> HIDE DEF d, b, o, h
<1>6. t \in Nat
  BY <1>1, <1>2, <1>3, <1>5
<1>7. \/ t = b - 1 /\ d >= o /\ d - o >= h /\ t * N = b * N - N
      \/ t = b + 1 /\ d < o /\ o - d >= h /\ t * N = b * N + N
      \/ /\ t = b /\ t * N = b * N
         /\ d >= o /\ d - o >= h => c < N
         /\ d < o => o - d < h
  <2>1. (b - 1) * N = b * N - N /\ (b + 1) * N = b * N + N
    BY <1>2, <1>n
  <2> QED
    BY <2>1, <1>1, <1>2, <1>3
<1> HIDE DEF t
<1>8. t * N \in Nat /\ b * N \in Nat
  BY <1>6, <1>2, <1>n
<1>9. u \in Nat
  BY <1>4, <1>8, <1>1
<1>10. wrap(u, i) = n
  <2>1. CASE d + i = n
    <3>1. u + i = t * N + n
      BY <2>1, <1>4, <1>8, <1>1, <1>0
    <3> QED
      BY <3>1, <1>6, <1>0, ModUnique, Zenon DEF wrap
  <2>2. CASE d + i = n + N
    <3>1. t * N + N = (t + 1) * N
      BY <1>6, <1>n
    <3>2. u + i = (t + 1) * N + n
      BY <3>1, <2>2, <1>4, <1>8, <1>1, <1>0, <1>n
    <3>3. t + 1 \in Nat
      BY <1>6
    <3> QED
      BY <3>2, <3>3, <1>0, ModUnique DEF wrap
  <2> QED
    BY <2>1, <2>2, <1>1, Zenon
<1>11. dist(u, c) <= dist(u + N, c) /\ (u >= N => dist(u, c) <= dist(u - N, c))
  <2> DEFINE B == b * N
             T == t * N
  <2>1. /\ B \in Nat /\ T \in Nat /\ u = T + d /\ c = B + o
        /\ \/ T = B - N /\ d >= o /\ d - o >= h
           \/ T = B + N /\ d < o /\ o - d >= h
           \/ T = B /\ (d >= o /\ d - o >= h => c < N) /\ (d < o => o - d < h)
    BY <1>8, <1>4, <1>2, <1>7, Zenon
  <2> HIDE DEF B, T
  <2>2. c < N => B = 0
    <3>1. ASSUME b >= 1 PROVE N <= B
      BY <3>1, <1>2, <1>n DEF B
    <3> QED
      BY <3>1, <2>1, <1>2, <1>n DEF B
  <2> QED
    BY <2>1, <2>2, <1>1, <1>2, <1>3, <1>n DEF dist
<1> QED
  BY <1>9, <1>10, <1>11, Zenon

-----------------------------------------------------------------------------
(* The checksum.  A receiver's test "the checksum is zero" accepts what    *)
(* serialize() wrote: the two rounds of carries in InternetChecksum::value *)
(* leave a number of 16 bits that is congruent to the sum modulo 65535,    *)
(* and zero only for a sum of zero.  With the sender's checksum added to   *)
(* the sum the receiver folds a positive multiple of 65535, which leaves   *)
(* 65535.                                                                  *)

\* The sums that a uint32_t holds, and the numbers of a uint16_t.
Sums == {n \in Nat : n <= 4294967295}

Words == {n \in Nat : n <= 65535}

\* One round of the loop takes a multiple of 65535 off the sum, and not all of it.
LEMMA FoldCarryShrinks ==
  ASSUME NEW sum \in Nat
  PROVE  /\ FoldCarry(sum) \in Nat
         /\ FoldCarry(sum) = sum - 65535 * (sum \div 65536)
         /\ sum > 0 => FoldCarry(sum) > 0
<1>1. /\ sum = 65536 * (sum \div 65536) + (sum % 65536)
      /\ sum \div 65536 \in Nat
      /\ sum % 65536 \in Nat
  BY SMT
<1> QED
  BY <1>1, SMT DEF FoldCarry

\* Two rounds leave 16 bits of any 32-bit sum, congruent to it modulo 65535.
LEMMA TwoRoundsFold ==
  ASSUME NEW sum \in Sums
  PROVE  /\ FoldCarry(FoldCarry(sum)) \in Words
         /\ sum > 0 => FoldCarry(FoldCarry(sum)) > 0
         /\ \E k \in Nat : sum = FoldCarry(FoldCarry(sum)) + 65535 * k
<1> DEFINE once == FoldCarry(sum)
           twice == FoldCarry(once)
<1>1. sum \in Nat /\ once \in Nat /\ twice \in Nat
  BY FoldCarryShrinks, SMT DEF Sums
<1>2. once <= 131070
  <2>1. sum \in Nat /\ sum <= 4294967295
    BY SMT DEF Sums
  <2>2. sum \div 65536 <= 65535 /\ sum % 65536 <= 65535
    BY <2>1, SMT
  <2> QED
    BY <2>1, <2>2, SMT DEF FoldCarry
<1>3. twice <= 65535
  <2> HIDE DEF once
  <2>1. CASE once <= 65535
    <3>1. once \div 65536 = 0 /\ once % 65536 = once
      BY <1>1, <2>1, SMT
    <3> QED
      BY <1>1, <2>1, <3>1, SMT DEF FoldCarry
  <2>2. CASE once > 65535
    <3>1. once \div 65536 = 1 /\ once % 65536 = once - 65536
      BY <1>1, <1>2, <2>2, SMT
    <3> QED
      BY <1>1, <1>2, <3>1, SMT DEF FoldCarry
  <2> QED
    BY <1>1, <2>1, <2>2, SMT
<1>4. sum > 0 => twice > 0
  BY <1>1, FoldCarryShrinks, SMT
<1>5. \E k \in Nat : sum = twice + 65535 * k
  <2>1. once = sum - 65535 * (sum \div 65536)
    BY <1>1, FoldCarryShrinks, SMT
  <2>2. twice = once - 65535 * (once \div 65536)
    BY <1>1, FoldCarryShrinks, SMT
  <2>3. sum \div 65536 \in Nat /\ once \div 65536 \in Nat
    BY <1>1, SMT
  <2> HIDE DEF once, twice
  <2>4. sum = twice + 65535 * ((sum \div 65536) + (once \div 65536))
    BY <1>1, <2>1, <2>2, <2>3, SMT
  <2> QED
    BY <2>3, <2>4, SMT
<1> QED
  BY <1>1, <1>3, <1>4, <1>5, SMT DEF Words

\* TCPSegment::serialize and IPv4Datagram::serialize store value() of the sum over
\* a packet whose checksum field is zero.  The sum over the packet with the field
\* filled in, which the parsers take, then has the value zero, whatever the bytes
\* and the pseudo-header are, as long as the sum fits its uint32_t.
THEOREM ChecksumAccepts ==
  ASSUME NEW sum \in Sums, sum + Complement(sum) \in Sums
  PROVE  /\ Complement(sum) \in Words
         /\ Complement(sum + Complement(sum)) = 0
<1> DEFINE folded == FoldCarry(FoldCarry(sum))
           total  == sum + Complement(sum)
           rest   == FoldCarry(FoldCarry(total))
<1>1. PICK k \in Nat : sum = folded + 65535 * k
  BY TwoRoundsFold, SMT
<1>2. sum \in Nat /\ folded \in Nat /\ folded <= 65535
  BY TwoRoundsFold, SMT DEF Sums, Words
<1>3. Complement(sum) \in Words /\ total = 65535 * (k + 1)
  BY <1>1, <1>2, SMT DEF Complement, Words
<1>4. PICK j \in Nat : total = rest + 65535 * j
  BY TwoRoundsFold, SMT
<1>5. rest \in Nat /\ rest <= 65535 /\ rest > 0
  <2>1. total > 0
    BY <1>3, SMT
  <2> QED
    BY <2>1, TwoRoundsFold, SMT DEF Words
<1>6. rest = 65535
  <2> HIDE DEF rest, total
  <2>1. rest = 65535 * (k + 1 - j)
    BY <1>3, <1>4, <1>5, SMT
  <2> QED
    BY <2>1, <1>5, SMT
<1> QED
  BY <1>3, <1>6, SMT DEF Complement

-----------------------------------------------------------------------------
(* Least and greatest members.                                             *)

\* A set of counts that is not empty has a least member.
LEMMA LeastOfSet ==
  ASSUME NEW S \in SUBSET Nat, S # {}
  PROVE  \E i \in S : \A j \in S : i <= j
<1> DEFINE R == {p \in Nat \X Nat : p[1] < p[2]}
<1>1. IsWellFoundedOn(R, Nat)
  BY NatLessThanWellFounded, Zenon DEF OpToRel
<1>2. PICK i \in S : \A j \in S : ~(<<j, i>> \in R)
  BY <1>1, WFMin, Zenon
<1>3. \A j \in Nat, k \in Nat : j < k => <<j, k>> \in R
  BY Zenon
<1> HIDE DEF R
<1>4. \A j \in S : ~(j < i)
  BY <1>2, <1>3, Zenon
<1>5. \A j \in S : i <= j
  BY <1>4
<1> QED
  BY <1>5, Zenon

\* Keys are bounded, so a set of them that is not empty has the member that the
\* iterators of the map would reach last.
LEMMA GreatestOfSet ==
  ASSUME NEW n \in Nat, NEW S \in SUBSET (0 .. n), S # {}
  PROVE  Greatest(S) \in S /\ \A j \in S : j <= Greatest(S)
<1> DEFINE T == {i \in Nat : n - i \in S}
<1>1. T # {}
  <2>1. PICK j \in S : TRUE
    BY Zenon
  <2>2. n - j \in Nat /\ n - (n - j) = j
    OBVIOUS
  <2> QED
    BY <2>1, <2>2, Zenon
<1>2. PICK i \in T : \A j \in T : i <= j
  BY <1>1, LeastOfSet, Zenon
<1>3. ASSUME NEW j \in S PROVE j <= n - i
  <2>1. n - j \in Nat /\ n - (n - j) = j
    OBVIOUS
  <2>2. n - j \in T
    BY <2>1, Zenon
  <2> QED
    BY <2>2, <1>2
<1>4. n - i \in S
  BY <1>2, Zenon
<1> QED
  BY <1>3, <1>4, Zenon DEF Greatest

\* And the member that begin() stands on.
LEMMA LeastKey ==
  ASSUME NEW S \in SUBSET Nat, S # {}
  PROVE  Least(S) \in S /\ \A j \in S : Least(S) <= j
<1>1. \E i \in S : \A j \in S : i <= j
  BY LeastOfSet, Zenon
<1> QED
  BY <1>1, Zenon DEF Least

-----------------------------------------------------------------------------
(* The strings a reassembler stores.  Byte i of the stream is the number   *)
(* i, so that a string shows where it comes from; L is its length.         *)

SpeltAt(s, k, L) ==
  /\ s \in Seq(1 .. L)
  /\ k + Len(s) <= L
  /\ \A p \in 1 .. Len(s) : s[p] = k + p

\* Every stored string is what the stream has at its index.
Spelt(m, L) ==
  /\ DOMAIN m \subseteq 0 .. L
  /\ \A k \in DOMAIN m : SpeltAt(m[k], k, L)

\* No stored string reaches beyond the next key.
Apart(m) == \A j, k \in DOMAIN m : j < k => EndOf(m, j) <= k

\* The indices of the stored bytes.
CoveredBy(m) ==
  {x \in Nat : \E k \in DOMAIN m : k <= x /\ x < EndOf(m, k)}

\* The numbers after k in order are the string at k.
LEMMA CountingSpelt ==
  ASSUME NEW L \in Nat, NEW k \in Nat, NEW n \in Nat, k + n <= L
  PROVE  /\ SpeltAt([p \in 1 .. n |-> k + p], k, L)
         /\ Len([p \in 1 .. n |-> k + p]) = n
<1> DEFINE s == [p \in 1 .. n |-> k + p]
<1>1. \A p \in 1 .. n : k + p \in 1 .. L
  OBVIOUS
<1>2. s \in [1 .. n -> 1 .. L]
  BY <1>1, Zenon
<1>3. s \in Seq(1 .. L) /\ Len(s) = n
  BY <1>2
<1> QED
  BY <1>3, Zenon DEF SpeltAt

\* A string is determined by its place and its length.
LEMMA SpeltUnique ==
  ASSUME NEW L \in Nat, NEW k \in Nat, NEW s, SpeltAt(s, k, L)
  PROVE  /\ Len(s) \in Nat
         /\ s = [p \in 1 .. Len(s) |-> k + p]
<1>1. s \in Seq(1 .. L)
  BY Zenon DEF SpeltAt
<1>2. Len(s) \in Nat /\ s \in [1 .. Len(s) -> 1 .. L]
  BY <1>1
<1> QED
  BY <1>2, Zenon DEF SpeltAt

\* The types that a stored string and its end have.
LEMMA SpeltTypes ==
  ASSUME NEW L \in Nat, NEW m, Spelt(m, L), NEW k \in DOMAIN m
  PROVE  /\ k \in Nat /\ k <= L
         /\ Len(m[k]) \in Nat
         /\ EndOf(m, k) = k + Len(m[k])
         /\ EndOf(m, k) \in Nat /\ EndOf(m, k) <= L
         /\ \A x \in Nat : k <= x /\ x < EndOf(m, k) =>
              x - k + 1 \in 1 .. Len(m[k]) /\ m[k][x - k + 1] = x + 1
<1>1. k \in 0 .. L /\ SpeltAt(m[k], k, L)
  BY Zenon DEF Spelt
<1>2. Len(m[k]) \in Nat
  BY <1>1, SpeltUnique
<1>3. /\ k + Len(m[k]) <= L /\ EndOf(m, k) = k + Len(m[k])
      /\ \A p \in 1 .. Len(m[k]) : m[k][p] = k + p
  BY <1>1, Zenon DEF SpeltAt, EndOf
<1>4. ASSUME NEW x \in Nat, k <= x, x < k + Len(m[k])
      PROVE  x - k + 1 \in 1 .. Len(m[k]) /\ k + (x - k + 1) = x + 1
  <2> DEFINE n == Len(m[k])
  <2>1. k \in Nat /\ n \in Nat /\ x < k + n
    BY <1>1, <1>2, <1>4
  <2> HIDE DEF n
  <2>2. x - k + 1 \in 1 .. n /\ k + (x - k + 1) = x + 1
    BY <1>4, <2>1
  <2> QED
    BY <2>2, Zenon DEF n
<1>5. \A x \in Nat : k <= x /\ x < EndOf(m, k) =>
        x - k + 1 \in 1 .. Len(m[k]) /\ m[k][x - k + 1] = x + 1
  BY <1>3, <1>4, Zenon
<1>6. k \in Nat /\ k <= L /\ k + Len(m[k]) \in Nat
  BY <1>1, <1>2
<1> QED
  BY <1>2, <1>3, <1>5, <1>6, Zenon

-----------------------------------------------------------------------------
(* pushUnassem.                                                            *)

\* Copying strings over each other leaves no filler between them, where they
\* cover the whole range.
LEMMA MergedIs ==
  ASSUME NEW L \in Nat, NEW m, Spelt(m, L), NEW K \in SUBSET DOMAIN m,
         NEW left \in Nat, NEW right \in Nat, left <= right, right <= L,
         \A x \in left .. right - 1 : \E k \in K : k <= x /\ x < EndOf(m, k)
  PROVE  /\ SpeltAt(MergedString(m, K, left, right), left, L)
         /\ Len(MergedString(m, K, left, right)) = right - left
<1> DEFINE C(x) == {k \in K : k <= x /\ x < EndOf(m, k)}
<1>1. ASSUME NEW p \in 1 .. right - left, NEW x, x = left + p - 1
      PROVE  C(x) # {} /\ m[Greatest(C(x))][x - Greatest(C(x)) + 1] = left + p
  <2>1. x \in left .. right - 1 /\ x \in Nat /\ x + 1 = left + p
    BY <1>1
  <2>2. C(x) # {}
    BY <2>1, Zenon
  <2>3. C(x) \in SUBSET (0 .. L) /\ C(x) \subseteq DOMAIN m
    BY Zenon DEF Spelt
  <2>4. Greatest(C(x)) \in C(x)
    BY <2>2, <2>3, GreatestOfSet, Zenon
  <2>5. PICK g \in DOMAIN m : g = Greatest(C(x)) /\ g <= x /\ x < EndOf(m, g)
    BY <2>3, <2>4, Zenon
  <2>6. m[g][x - g + 1] = x + 1
    <3>1. \A z \in Nat : g <= z /\ z < EndOf(m, g) => m[g][z - g + 1] = z + 1
      BY SpeltTypes
    <3> QED
      BY <3>1, <2>1, <2>5, Zenon
  <2> QED
    BY <2>1, <2>2, <2>5, <2>6, Zenon
<1>2. MergedString(m, K, left, right)
        = [p \in 1 .. right - left |->
             IF C(left + p - 1) = {} THEN Dash
             ELSE m[Greatest(C(left + p - 1))]
                   [(left + p - 1) - Greatest(C(left + p - 1)) + 1]]
  BY Zenon DEF MergedString
<1> HIDE DEF C
<1>3. MergedString(m, K, left, right) = [p \in 1 .. right - left |-> left + p]
  BY <1>1, <1>2, Zenon
<1>4. right - left \in Nat /\ left + (right - left) <= L
  OBVIOUS
<1> QED
  BY <1>3, <1>4, CountingSpelt

\* A map with one string more, or with a longer one in place of a shorter.
Storing(m, idx, data) ==
  [k \in DOMAIN m \cup {idx} |-> IF k = idx THEN data ELSE m[k]]

\* It spells the stream as well.
LEMMA StoringSpelt ==
  ASSUME NEW L \in Nat, NEW m, Spelt(m, L),
         NEW idx \in Nat, NEW data, SpeltAt(data, idx, L)
  PROVE  /\ Spelt(Storing(m, idx, data), L)
         /\ \A k : k \in DOMAIN Storing(m, idx, data)
                    <=> k \in DOMAIN m \/ k = idx
         /\ Storing(m, idx, data)[idx] = data
         /\ EndOf(Storing(m, idx, data), idx) = idx + Len(data)
         /\ \A k \in DOMAIN m : k # idx =>
              /\ Storing(m, idx, data)[k] = m[k]
              /\ EndOf(Storing(m, idx, data), k) = EndOf(m, k)
<1> DEFINE s == Storing(m, idx, data)
<1>1. /\ DOMAIN s = DOMAIN m \cup {idx}
      /\ s[idx] = data
      /\ \A k \in DOMAIN m : k # idx => s[k] = m[k]
  BY Zenon DEF Storing
<1>2. idx \in 0 .. L
  BY SpeltUnique DEF SpeltAt
<1>3. Spelt(s, L)
  <2> HIDE DEF s
  <2>1. DOMAIN s \subseteq 0 .. L
    BY <1>1, <1>2, Zenon DEF Spelt
  <2>2. ASSUME NEW k \in DOMAIN s PROVE SpeltAt(s[k], k, L)
    BY <1>1, Zenon DEF Spelt
  <2> QED
    BY <2>1, <2>2, Zenon DEF Spelt
<1> QED
  BY <1>1, <1>3, Zenon DEF EndOf

\* What Merge leaves: one string from left to right, which covers the new one and
\* every stored one that starts inside it, and the other strings as they were.
MergesTo(m, idx, data, L, left, right) ==
  LET s == Storing(m, idx, data)
      inside == {k \in DOMAIN s : idx <= k /\ k < idx + Len(data)}
      M == Merge(m, idx, data)
  IN  /\ left \in Nat /\ left <= idx /\ left <= right
      /\ idx + Len(data) <= right /\ EndOf(s, left) <= right
      /\ \A k \in inside : EndOf(s, k) <= right
      /\ \/ right = idx + Len(data)
         \/ right = EndOf(s, left)
         \/ \E k \in inside : right = EndOf(s, k)
      /\ left # idx => /\ idx < EndOf(s, left)
                       /\ \A k \in DOMAIN m : k < idx => k <= left
      /\ left = idx => \A b \in DOMAIN m :
           (b < idx /\ \A k \in DOMAIN m : k < idx => k <= b)
             => EndOf(s, b) <= idx
      /\ \A x \in left .. right - 1 :
           \E k \in DOMAIN s : k <= x /\ x < EndOf(s, k)
      /\ \A k : k \in DOMAIN M
                 <=> k \in DOMAIN s /\ (k \in inside => k = left)
      /\ SpeltAt(M[left], left, L) /\ EndOf(M, left) = right
      /\ \A k \in DOMAIN M : k # left => M[k] = s[k] /\ EndOf(M, k) = EndOf(s, k)

\* There are such bounds.
LEMMA MergeIs ==
  ASSUME NEW L \in Nat, NEW m, Spelt(m, L),
         NEW idx \in Nat, NEW data, SpeltAt(data, idx, L)
  PROVE  \E left \in DOMAIN m \cup {idx}, right \in 0 .. L :
           MergesTo(m, idx, data, L, left, right)
<1> DEFINE s      == Storing(m, idx, data)
           e      == idx + Len(data)
           before == {k \in DOMAIN s : k < idx}
           joined == before # {} /\ EndOf(s, Greatest(before)) > idx
           left   == IF joined THEN Greatest(before) ELSE idx
           inside == {k \in DOMAIN s : idx <= k /\ k < e}
           copied == inside \cup (IF joined THEN {left} ELSE {})
           ends   == {e, EndOf(s, left)} \cup {EndOf(s, k) : k \in inside}
           right  == Greatest(ends)
           merged == MergedString(s, copied, left, right)
           kept   == DOMAIN s \ (inside \ {left})
           M      == Merge(m, idx, data)
<1>1. M = [k \in kept |-> IF k = left THEN merged ELSE s[k]]
  BY Zenon DEF Merge, Storing
<1> HIDE DEF before, joined, left, inside, copied, ends, right, merged, kept, M
<1>2. /\ Spelt(s, L) /\ \A k : k \in DOMAIN s <=> k \in DOMAIN m \/ k = idx
      /\ s[idx] = data /\ EndOf(s, idx) = e
  BY StoringSpelt
<1>3. \A k \in DOMAIN s : /\ k \in Nat /\ k <= L /\ Len(s[k]) \in Nat
                          /\ EndOf(s, k) = k + Len(s[k])
                          /\ EndOf(s, k) \in Nat /\ EndOf(s, k) <= L
  BY <1>2, SpeltTypes, Zenon
<1>4. Len(data) \in Nat /\ e \in Nat /\ e <= L /\ idx <= e
  BY <1>2, <1>3
<1> HIDE DEF s, e
<1>5. before # {} => /\ Greatest(before) \in before
                     /\ \A k \in before : k <= Greatest(before)
  <2>1. before \in SUBSET (0 .. L)
    BY <1>2, Zenon DEF Spelt, before
  <2> QED
    BY <2>1, GreatestOfSet, Zenon
<1>6. /\ left \in DOMAIN s /\ left \in Nat /\ left <= idx
      /\ left # idx <=> joined
  <2>1. CASE joined
    <3>1. left = Greatest(before) /\ left \in before
      BY <2>1, <1>5, Zenon DEF left, joined
    <3>2. left \in DOMAIN s /\ left < idx
      BY <3>1, Zenon DEF before
    <3> QED
      BY <2>1, <3>2, <1>3
  <2>2. CASE ~joined
    BY <2>2, <1>2 DEF left
  <2> QED
    BY <2>1, <2>2, Zenon
<1>7. left # idx => /\ idx < EndOf(s, left)
                    /\ \A k \in DOMAIN s : k < idx => k <= left
  BY <1>3, <1>5, <1>6, Zenon DEF left, joined, before
<1>8. ASSUME left = idx, NEW b \in DOMAIN m, b < idx,
             \A k \in DOMAIN m : k < idx => k <= b
      PROVE  EndOf(s, b) <= idx
  <2>1. b \in before /\ ~joined
    BY <1>2, <1>6, <1>8, Zenon DEF before
  <2>2. Greatest(before) \in DOMAIN m /\ Greatest(before) < idx
    BY <2>1, <1>2, <1>5 DEF before
  <2>3. Greatest(before) = b
    <3>1. b <= Greatest(before)
      BY <2>1, <1>5, Zenon
    <3>2. Greatest(before) <= b
      BY <2>2, <1>8, Zenon
    <3>3. b \in Nat /\ Greatest(before) \in Nat
      BY <2>2, <1>2, <1>3, Zenon
    <3> QED
      BY <3>1, <3>2, <3>3
  <2>4. ~(EndOf(s, b) > idx)
    BY <2>1, <2>3, Zenon DEF joined
  <2> QED
    BY <2>1, <2>4, <1>2, <1>3
<1>9. ends \in SUBSET (0 .. L) /\ ends # {} /\ e \in ends /\ EndOf(s, left) \in ends
  BY <1>3, <1>4, <1>6 DEF ends, inside
<1>10. right \in ends /\ \A y \in ends : y <= right
  BY <1>9, GreatestOfSet, Zenon DEF right
<1>11. /\ right \in 0 .. L /\ e <= right /\ EndOf(s, left) <= right
       /\ \A k \in inside : EndOf(s, k) <= right
       /\ right = e \/ right = EndOf(s, left) \/ \E k \in inside : right = EndOf(s, k)
  BY <1>9, <1>10, Zenon DEF ends
<1>12. left <= right
  BY <1>4, <1>6, <1>11
<1>13. ASSUME NEW x \in left .. right - 1
       PROVE  \E k \in copied : k <= x /\ x < EndOf(s, k)
  <2>0. x \in Nat /\ left <= x /\ x < right
    BY <1>6, <1>11
  <2>1. CASE idx <= x /\ x < e
    <3>1. idx \in inside
      BY <2>0, <2>1, <1>2, <1>4 DEF inside
    <3> QED
      BY <3>1, <2>1, <1>2, Zenon DEF copied
  <2>2. CASE x < idx
    <3>1. left # idx
      BY <2>0, <2>2
    <3>2. left \in copied /\ x < EndOf(s, left)
      BY <3>1, <2>0, <2>2, <1>3, <1>6, <1>7 DEF copied
    <3> QED
      BY <3>2, <2>0, Zenon
  <2>3. CASE e <= x
    <3>1. CASE right = EndOf(s, left)
      <4>1. left # idx
        BY <3>1, <2>0, <2>3, <1>2, <1>4, <1>11
      <4>2. left \in copied
        BY <4>1, <1>6, Zenon DEF copied
      <4> QED
        BY <4>2, <3>1, <2>0, Zenon
    <3>2. ASSUME NEW k \in inside, right = EndOf(s, k)
          PROVE  k \in copied /\ k <= x /\ x < EndOf(s, k)
      BY <3>2, <2>0, <2>3, <1>3, <1>4 DEF copied, inside
    <3>3. right # e
      BY <2>0, <2>3, <1>4, <1>11
    <3> QED
      BY <3>1, <3>2, <3>3, <1>11, Zenon
  <2> QED
    BY <2>0, <2>1, <2>2, <2>3, <1>4
<1>14. copied \in SUBSET DOMAIN s
  BY <1>6, Zenon DEF copied, inside
<1>15. right \in Nat /\ right <= L
  BY <1>11
<1>16. SpeltAt(merged, left, L) /\ Len(merged) = right - left
  BY <1>2, <1>6, <1>12, <1>13, <1>14, <1>15, MergedIs DEF merged
<1>17. left \in kept
  BY <1>6, Zenon DEF kept
<1>18. DOMAIN M = kept /\ M[left] = merged
  BY <1>1, <1>17, Zenon
<1>19. \A k \in DOMAIN M : k # left => M[k] = s[k]
  BY <1>1, Zenon
<1>20. EndOf(M, left) = right
  BY <1>6, <1>15, <1>16, <1>18 DEF EndOf
<1>21. \A k \in DOMAIN M : k # left => EndOf(M, k) = EndOf(s, k)
  BY <1>19, Zenon DEF EndOf
<1>22. \A x \in left .. right - 1 : \E k \in DOMAIN s : k <= x /\ x < EndOf(s, k)
  BY <1>13, <1>14, Zenon
<1>23. left \in DOMAIN m \cup {idx} /\ \A k \in DOMAIN m : k \in DOMAIN s
  BY <1>2, <1>6, Zenon
<1>24. \A k : k \in DOMAIN M <=> k \in DOMAIN s /\ (k \in inside => k = left)
  BY <1>18, Zenon DEF kept
<1> left \in DOMAIN m \cup {idx} /\ right \in 0 .. L
  BY <1>11, <1>23, Zenon
<1> WITNESS left \in DOMAIN m \cup {idx}, right \in 0 .. L
<1> QED
  BY <1>6, <1>7, <1>8, <1>11, <1>12, <1>16, <1>18, <1>19, <1>20, <1>21, <1>22,
     <1>23, <1>24, Zenon DEF s, e, inside, M, MergesTo

\* Merging a string keeps the map spelling the stream, covers what was covered and
\* the new string and nothing else, and keeps the strings apart unless an empty
\* one is put inside another.
LEMMA MergeSpelt ==
  ASSUME NEW L \in Nat, NEW m, Spelt(m, L),
         NEW idx \in Nat, NEW data, SpeltAt(data, idx, L),
         idx \in DOMAIN m => Len(m[idx]) <= Len(data)
  PROVE  /\ Spelt(Merge(m, idx, data), L)
         /\ \A k \in DOMAIN Merge(m, idx, data) : k \in DOMAIN m \/ k = idx
         /\ \A x : x \in CoveredBy(Merge(m, idx, data))
                     <=> x \in CoveredBy(m) \/ x \in idx .. idx + Len(data) - 1
         /\ /\ Apart(m)
            /\ Len(data) = 0 =>
                 \A k \in DOMAIN m : ~(k < idx /\ idx < EndOf(m, k))
            => Apart(Merge(m, idx, data))
<1> DEFINE s == Storing(m, idx, data)
           e == idx + Len(data)
           inside == {k \in DOMAIN s : idx <= k /\ k < e}
           M == Merge(m, idx, data)
<1>0. PICK left \in DOMAIN m \cup {idx}, right \in 0 .. L :
        MergesTo(m, idx, data, L, left, right)
  BY MergeIs, Zenon
<1>1. /\ left \in Nat /\ left <= idx /\ left <= right
      /\ e <= right /\ EndOf(s, left) <= right
      /\ \A k \in inside : EndOf(s, k) <= right
      /\ \/ right = e
         \/ right = EndOf(s, left)
         \/ \E k \in inside : right = EndOf(s, k)
      /\ left # idx => /\ idx < EndOf(s, left)
                       /\ \A k \in DOMAIN m : k < idx => k <= left
      /\ left = idx => \A b \in DOMAIN m :
           (b < idx /\ \A k \in DOMAIN m : k < idx => k <= b)
             => EndOf(s, b) <= idx
      /\ \A x \in left .. right - 1 :
           \E k \in DOMAIN s : k <= x /\ x < EndOf(s, k)
      /\ \A k : k \in DOMAIN M
                 <=> k \in DOMAIN s /\ (k \in inside => k = left)
      /\ SpeltAt(M[left], left, L) /\ EndOf(M, left) = right
      /\ \A k \in DOMAIN M : k # left => M[k] = s[k] /\ EndOf(M, k) = EndOf(s, k)
  BY <1>0, Zenon DEF MergesTo
<1>2. /\ Spelt(s, L) /\ \A k : k \in DOMAIN s <=> k \in DOMAIN m \/ k = idx
      /\ s[idx] = data /\ EndOf(s, idx) = e
      /\ \A k \in DOMAIN m : k # idx => s[k] = m[k] /\ EndOf(s, k) = EndOf(m, k)
  BY StoringSpelt
<1>3. \A k \in DOMAIN s : /\ k \in Nat /\ k <= L
                          /\ EndOf(s, k) = k + Len(s[k])
                          /\ EndOf(s, k) \in Nat /\ EndOf(s, k) <= L
                          /\ k <= EndOf(s, k)
  <2>1. ASSUME NEW k \in DOMAIN s
        PROVE  /\ k \in Nat /\ k <= L /\ Len(s[k]) \in Nat
               /\ EndOf(s, k) = k + Len(s[k])
               /\ EndOf(s, k) \in Nat /\ EndOf(s, k) <= L
    BY <1>2, SpeltTypes
  <2> QED
    BY <2>1
<1>4. Len(data) \in Nat /\ e \in Nat /\ e <= L /\ idx <= e
  <2>1. Len(data) \in Nat
    BY SpeltUnique, Zenon
  <2> QED
    BY <2>1 DEF SpeltAt
<1>i. \A k : k \in inside <=> k \in DOMAIN s /\ idx <= k /\ k < e
  BY Zenon
<1>m. \A k \in DOMAIN m : k \in Nat
  BY <1>2, <1>3, Zenon
<1> HIDE DEF s, M, inside
<1>5. left \in DOMAIN s /\ left \in DOMAIN M
  BY <1>1, <1>2, Zenon
<1>6. Spelt(M, L)
  <2>1. DOMAIN M \subseteq 0 .. L
    BY <1>1, <1>3
  <2>2. ASSUME NEW k \in DOMAIN M PROVE SpeltAt(M[k], k, L)
    <3>1. CASE k = left
      BY <3>1, <1>1, Zenon
    <3>2. CASE k # left
      <4>1. M[k] = s[k] /\ k \in DOMAIN s
        BY <3>2, <1>1, Zenon
      <4> QED
        BY <4>1, <1>2, Zenon DEF Spelt
    <3> QED
      BY <3>1, <3>2, Zenon
  <2> QED
    BY <2>1, <2>2, Zenon DEF Spelt
<1>7. \A k \in DOMAIN M : k \in DOMAIN m \/ k = idx
  BY <1>1, <1>2, Zenon
<1>8. ASSUME NEW x, x \in CoveredBy(M)
      PROVE  x \in CoveredBy(m) \/ x \in idx .. e - 1
  <2>1. PICK k \in DOMAIN M : x \in Nat /\ k <= x /\ x < EndOf(M, k)
    BY <1>8, Zenon DEF CoveredBy
  <2>2. PICK j \in DOMAIN s : j <= x /\ x < EndOf(s, j)
    <3>1. CASE k = left
      <4>1. x \in left .. right - 1
        BY <3>1, <2>1, <1>1
      <4> QED
        BY <4>1, <1>1, Zenon
    <3>2. CASE k # left
      BY <3>2, <2>1, <1>1, Zenon
    <3> QED
      BY <3>1, <3>2, Zenon
  <2>3. CASE j = idx
    BY <2>1, <2>2, <2>3, <1>2, <1>4
  <2>4. CASE j # idx
    BY <2>1, <2>2, <2>4, <1>2, Zenon DEF CoveredBy
  <2> QED
    BY <2>3, <2>4, Zenon
<1>9. ASSUME NEW x \in Nat, left <= x, x < right PROVE x \in CoveredBy(M)
  BY <1>1, <1>5, <1>9, Zenon DEF CoveredBy
<1>10. ASSUME NEW x, x \in CoveredBy(m) \/ x \in idx .. e - 1
       PROVE  x \in CoveredBy(M)
  <2>1. CASE x \in idx .. e - 1
    <3>1. x \in Nat /\ left <= x /\ x < right
      BY <2>1, <1>1, <1>4
    <3> QED
      BY <3>1, <1>9, Zenon
  <2>2. CASE x \in CoveredBy(m)
    <3>1. PICK k \in DOMAIN m : x \in Nat /\ k <= x /\ x < EndOf(m, k)
      BY <2>2, Zenon DEF CoveredBy
    <3>2. CASE k = idx
      <4>1. Len(m[idx]) <= Len(data) /\ EndOf(m, idx) = idx + Len(m[idx])
            /\ Len(m[idx]) \in Nat
        BY <3>2, SpeltTypes, Zenon
      <4>2. x \in idx .. e - 1
        BY <4>1, <3>1, <3>2, <1>4
      <4> QED
        BY <4>2, <2>1, Zenon
    <3>3. CASE k # idx
      <4>1. k \in DOMAIN s /\ EndOf(s, k) = EndOf(m, k) /\ k \in Nat
        BY <3>3, <1>2, <1>3, Zenon
      <4>2. CASE k \in inside \/ k = left
        <5>1. left <= x
          BY <4>1, <4>2, <3>1, <1>1, <1>i
        <5>2. EndOf(s, k) <= right
          BY <4>2, <1>1, Zenon
        <5>3. x < right
          BY <5>2, <4>1, <3>1, <1>3
        <5> QED
          BY <5>1, <5>3, <3>1, <1>9, Zenon
      <4>3. CASE k \notin inside /\ k # left
        <5>1. k \in DOMAIN M /\ EndOf(M, k) = EndOf(s, k)
          BY <4>1, <4>3, <1>1, Zenon
        <5> QED
          BY <5>1, <4>1, <3>1, Zenon DEF CoveredBy
      <4> QED
        BY <4>2, <4>3, Zenon
    <3> QED
      BY <3>2, <3>3, Zenon
  <2> QED
    BY <1>10, <2>1, <2>2, Zenon
<1>11. ASSUME Apart(m),
              Len(data) = 0 => \A k \in DOMAIN m : ~(k < idx /\ idx < EndOf(m, k))
       PROVE  Apart(M)
  <2>1. idx \in DOMAIN M => left = idx
    <3>1. SUFFICES ASSUME idx \in DOMAIN M, left # idx PROVE FALSE
      BY Zenon
    <3>2. idx \notin inside
      BY <3>1, <1>1, Zenon
    <3>3. Len(data) = 0
      BY <3>2, <1>i, <1>2, <1>4
    <3>4. left \in DOMAIN m /\ left < idx /\ idx < EndOf(m, left)
      BY <3>1, <1>1, <1>2
    <3> QED
      BY <3>3, <3>4, <1>11, Zenon
  <2>2. ASSUME NEW j \in DOMAIN M, NEW k \in DOMAIN M, j < k
        PROVE  EndOf(M, j) <= k
    <3>0. j \in DOMAIN s /\ k \in DOMAIN s /\ j \in Nat /\ k \in Nat
      BY <1>1, <1>3, Zenon
    <3>1. CASE j = left
      <4>1. k \in DOMAIN m /\ k # idx /\ k \notin inside
        BY <3>0, <3>1, <2>1, <2>2, <1>1, <1>2
      <4>2. idx < k
        <5>1. ~(k < idx)
          BY <4>1, <3>0, <3>1, <2>2, <1>1
        <5> QED
          BY <5>1, <4>1, <3>0
      <4>3. e <= k
        BY <4>1, <4>2, <3>0, <1>i, <1>4
      <4>4. EndOf(s, left) <= k
        <5>1. CASE left = idx
          BY <5>1, <4>3, <1>2, Zenon
        <5>2. CASE left # idx
          BY <5>2, <4>1, <3>1, <2>2, <1>1, <1>2, <1>11, Zenon DEF Apart
        <5> QED
          BY <5>1, <5>2, Zenon
      <4>5. ASSUME NEW i \in inside PROVE EndOf(s, i) <= k
        <5>1. i \in DOMAIN s /\ i < k
          BY <4>3, <3>0, <1>i, <1>3, <1>4
        <5>2. CASE i = idx
          BY <5>2, <4>3, <1>2, Zenon
        <5>3. CASE i # idx
          BY <5>1, <5>3, <4>1, <1>2, <1>11, Zenon DEF Apart
        <5> QED
          BY <5>2, <5>3, Zenon
      <4> QED
        BY <4>3, <4>4, <4>5, <3>1, <1>1, Zenon
    <3>2. CASE j # left
      <4>1. j \in DOMAIN m /\ j # idx /\ EndOf(M, j) = EndOf(m, j)
        BY <3>0, <3>2, <2>1, <1>1, <1>2, Zenon
      <4>2. CASE k # idx
        BY <4>1, <4>2, <3>0, <2>2, <1>2, <1>11, Zenon DEF Apart
      <4>3. CASE k = idx
        <5> DEFINE B == {b \in DOMAIN m : b < idx}
        <5>1. left = idx /\ B # {} /\ B \in SUBSET (0 .. L)
          BY <4>1, <4>3, <2>1, <2>2, Zenon DEF Spelt
        <5>2. Greatest(B) \in B /\ \A b \in B : b <= Greatest(B)
          BY <5>1, GreatestOfSet, Zenon
        <5>3. PICK b \in DOMAIN m : b < idx /\ \A i \in DOMAIN m : i < idx => i <= b
          BY <5>2, Zenon
        <5>4. EndOf(s, b) <= idx /\ EndOf(m, b) = EndOf(s, b)
          BY <5>1, <5>3, <1>1, <1>2, <1>m
        <5>5. CASE j = b
          BY <5>4, <5>5, <4>1, <4>3, Zenon
        <5>6. CASE j # b
          <6>1. j < b
            BY <5>3, <5>6, <4>1, <4>3, <2>2, <1>m
          <6>2. EndOf(m, j) <= b
            BY <6>1, <4>1, <1>11, Zenon DEF Apart
          <6>3. EndOf(m, j) \in Nat
            BY <4>1, <1>2, <1>3, Zenon
          <6> QED
            BY <6>2, <6>3, <5>3, <4>1, <4>3, <1>m
        <5> QED
          BY <5>5, <5>6, Zenon
      <4> QED
        BY <4>2, <4>3, Zenon
    <3> QED
      BY <3>1, <3>2, Zenon
  <2> QED
    BY <2>2, Zenon DEF Apart
<1> QED
  BY <1>6, <1>7, <1>8, <1>10, <1>11 DEF M

-----------------------------------------------------------------------------
(* fixCap.                                                                 *)

\* The stored bytes, one by one: the key and the place in the string.
Cells(m, K) == UNION {{k} \X (1 .. Len(m[k])) : k \in K}

\* They are finitely many.
LEMMA CellsFinite ==
  ASSUME NEW L \in Nat, NEW m, Spelt(m, L), NEW K \in SUBSET DOMAIN m
  PROVE  /\ IsFiniteSet(Cells(m, K))
         /\ StoredBytes(m, K) = Cardinality(Cells(m, K))
         /\ StoredBytes(m, K) \in Nat
<1>1. \A k \in K : k \in 1 .. L \/ k = 0
  BY DEF Spelt
<1>2. Cells(m, K) \in SUBSET ((0 .. L) \X (1 .. L))
  <2>1. ASSUME NEW k \in K PROVE {k} \X (1 .. Len(m[k])) \subseteq (0 .. L) \X (1 .. L)
    <3>1. k \in DOMAIN m
      BY Zenon
    <3>2. /\ k \in Nat /\ k <= L /\ Len(m[k]) \in Nat
          /\ EndOf(m, k) = k + Len(m[k]) /\ EndOf(m, k) <= L
      BY <3>1, SpeltTypes, Zenon
    <3>3. k \in 0 .. L /\ Len(m[k]) <= L
      BY <3>2
    <3>4. \A p \in 1 .. Len(m[k]) : p \in 1 .. L
      BY <3>2, <3>3
    <3> QED
      BY <3>3, <3>4, Zenon
  <2> QED
    BY <2>1, Zenon DEF Cells
<1>3. IsFiniteSet((0 .. L) \X (1 .. L))
  <2>1. IsFiniteSet(0 .. L) /\ IsFiniteSet(1 .. L)
    BY FS_Interval
  <2> QED
    BY <2>1, FS_Product, Zenon
<1>4. IsFiniteSet(Cells(m, K))
  BY <1>2, <1>3, FS_Subset, Zenon
<1>5. Cardinality(Cells(m, K)) \in Nat
  BY <1>4, FS_CardinalityType, Zenon
<1>6. StoredBytes(m, K) = Cardinality(Cells(m, K))
  BY Zenon DEF StoredBytes, Cells
<1> QED
  BY <1>4, <1>5, <1>6, Zenon

\* What is in two parts of the map is the sum of what is in each.
LEMMA StoredSplit ==
  ASSUME NEW L \in Nat, NEW m, Spelt(m, L),
         NEW J \in SUBSET DOMAIN m, NEW K \in SUBSET DOMAIN m, J \cap K = {}
  PROVE  StoredBytes(m, J \cup K) = StoredBytes(m, J) + StoredBytes(m, K)
<1>1. Cells(m, J \cup K) = Cells(m, J) \cup Cells(m, K)
  BY Zenon DEF Cells
<1>2. Cells(m, J) \cap Cells(m, K) = {}
  BY DEF Cells
<1>3. J \cup K \in SUBSET DOMAIN m
  BY Zenon
<1>4. /\ IsFiniteSet(Cells(m, J)) /\ StoredBytes(m, J) = Cardinality(Cells(m, J))
      /\ IsFiniteSet(Cells(m, K)) /\ StoredBytes(m, K) = Cardinality(Cells(m, K))
      /\ StoredBytes(m, J \cup K) = Cardinality(Cells(m, J \cup K))
      /\ StoredBytes(m, J) \in Nat /\ StoredBytes(m, K) \in Nat
  BY <1>3, CellsFinite, Zenon
<1>5. Cardinality(Cells(m, J) \cup Cells(m, K))
        = Cardinality(Cells(m, J)) + Cardinality(Cells(m, K))
            - Cardinality(Cells(m, J) \cap Cells(m, K))
  BY <1>4, FS_Union, Zenon
<1>6. Cardinality(Cells(m, J) \cap Cells(m, K)) = 0
  BY <1>2, FS_EmptySet, Zenon
<1>7. StoredBytes(m, J \cup K) = Cardinality(Cells(m, J) \cup Cells(m, K))
  BY <1>1, <1>4, Zenon
<1> QED
  BY <1>4, <1>5, <1>6, <1>7

\* The size of an interval.
LEMMA IntervalCount ==
  ASSUME NEW n \in Nat
  PROVE  IsFiniteSet(1 .. n) /\ Cardinality(1 .. n) = n
<1>1. 1 \in Int /\ n \in Int
  OBVIOUS
<1>2. /\ IsFiniteSet(1 .. n)
      /\ Cardinality(1 .. n) = IF 1 > n THEN 0 ELSE n - 1 + 1
  BY <1>1, FS_Interval, Zenon
<1> QED
  BY <1>2

\* One entry holds its string, and no entry holds nothing.
LEMMA StoredOne ==
  ASSUME NEW L \in Nat, NEW m, Spelt(m, L), NEW k \in DOMAIN m
  PROVE  StoredBytes(m, {k}) = Len(m[k]) /\ StoredBytes(m, {}) = 0
<1>1. Len(m[k]) \in Nat
  BY SpeltTypes, Zenon
<1>2. Cells(m, {k}) = {k} \X (1 .. Len(m[k])) /\ Cells(m, {}) = {}
  BY Zenon DEF Cells
<1>3. /\ IsFiniteSet({k}) /\ Cardinality({k}) = 1
      /\ IsFiniteSet(1 .. Len(m[k])) /\ Cardinality(1 .. Len(m[k])) = Len(m[k])
  <2>1. IsFiniteSet({k}) /\ Cardinality({k}) = 1
    BY FS_Singleton, Zenon
  <2>2. IsFiniteSet(1 .. Len(m[k])) /\ Cardinality(1 .. Len(m[k])) = Len(m[k])
    BY <1>1, IntervalCount, Zenon
  <2> QED
    BY <1>1, <2>1, <2>2, Zenon
<1>4. Cardinality({k} \X (1 .. Len(m[k]))) = 1 * Len(m[k])
  BY <1>3, FS_Product
<1>5. {k} \in SUBSET DOMAIN m /\ {} \in SUBSET DOMAIN m
  BY Zenon
<1>6. /\ StoredBytes(m, {k}) = Cardinality(Cells(m, {k}))
      /\ StoredBytes(m, {}) = Cardinality(Cells(m, {}))
  BY <1>5, CellsFinite, Zenon
<1>7. StoredBytes(m, {k}) = 1 * Len(m[k])
  BY <1>2, <1>4, <1>6, Zenon
<1>8. StoredBytes(m, {}) = 0
  BY <1>2, <1>6, FS_EmptySet, Zenon
<1> QED
  BY <1>1, <1>7, <1>8

\* The bytes above a key, from those above the next.
LEMMA BytesAboveNext ==
  ASSUME NEW L \in Nat, NEW m, Spelt(m, L), NEW g \in DOMAIN m,
         NEW h \in DOMAIN m, g < h, \A j \in DOMAIN m : g < j => h <= j
  PROVE  BytesAbove(m, g) = BytesAbove(m, h) + Len(m[h])
<1> DEFINE J == {j \in DOMAIN m : h < j}
<1>0. \A j \in DOMAIN m : j \in Nat
  BY DEF Spelt
<1>1. {j \in DOMAIN m : g < j} = J \cup {h}
  BY <1>0
<1>2. J \cap {h} = {} /\ J \in SUBSET DOMAIN m /\ {h} \in SUBSET DOMAIN m
  BY <1>0
<1>3. StoredBytes(m, J \cup {h}) = StoredBytes(m, J) + StoredBytes(m, {h})
  BY <1>2, StoredSplit, Zenon
<1>4. StoredBytes(m, {h}) = Len(m[h])
  BY StoredOne, Zenon
<1> QED
  BY <1>1, <1>3, <1>4, Zenon DEF BytesAbove

\* A prefix of a string of the stream is one.
LEMMA PrefixSpelt ==
  ASSUME NEW L \in Nat, NEW k \in Nat, NEW s, SpeltAt(s, k, L),
         NEW n \in Nat, n <= Len(s)
  PROVE  SpeltAt(Prefix(s, n), k, L) /\ Len(Prefix(s, n)) = n
<1>1. s \in Seq(1 .. L) /\ Len(s) \in Nat
  BY DEF SpeltAt
<1>2. /\ Prefix(s, n) \in Seq(1 .. L) /\ Len(Prefix(s, n)) = n
      /\ \A p \in 1 .. n : Prefix(s, n)[p] = s[p]
  <2>1. \A j \in 1 .. n : s[j] \in 1 .. L
    BY <1>1
  <2> QED
    BY <1>1, <2>1 DEF Prefix
<1>3. k + Len(s) <= L /\ \A p \in 1 .. Len(s) : s[p] = k + p
  BY Zenon DEF SpeltAt
<1>4. k + n <= L
  BY <1>1, <1>3
<1>5. ASSUME NEW p \in 1 .. n PROVE Prefix(s, n)[p] = k + p
  <2>1. p \in 1 .. Len(s)
    BY <1>1
  <2> QED
    BY <2>1, <1>2, <1>3, Zenon
<1> QED
  BY <1>2, <1>4, <1>5, Zenon DEF SpeltAt

\* The whole of it is itself.
LEMMA PrefixWhole ==
  ASSUME NEW L \in Nat, NEW k \in Nat, NEW s, SpeltAt(s, k, L)
  PROVE  Prefix(s, Len(s)) = s
<1>1. Len(s) \in Nat /\ Len(s) <= Len(s)
  BY SpeltUnique
<1>2. SpeltAt(Prefix(s, Len(s)), k, L) /\ Len(Prefix(s, Len(s))) = Len(s)
  BY <1>1, PrefixSpelt
<1>3. s = [p \in 1 .. Len(s) |-> k + p]
  BY SpeltUnique
<1>4. Prefix(s, Len(s)) = [p \in 1 .. Len(Prefix(s, Len(s))) |-> k + p]
  BY <1>2, SpeltUnique
<1> QED
  BY <1>2, <1>3, <1>4, Zenon

\* What fixCap keeps of the entry at k when the map is over by that many bytes.
Kept(m, over) == {k \in DOMAIN m : BytesAbove(m, k) + Len(m[k]) > over}

CutOf(m, over, k) == IF BytesAbove(m, k) < over THEN over - BytesAbove(m, k) ELSE 0

Trimmed(m, over) ==
  [k \in Kept(m, over) |-> Prefix(m[k], Len(m[k]) - CutOf(m, over, k))]

\* Every kept string is a prefix of what it was.
LEMMA TrimmedSpelt ==
  ASSUME NEW L \in Nat, NEW m, Spelt(m, L), NEW over \in Nat
  PROVE  /\ Spelt(Trimmed(m, over), L)
         /\ \A k \in DOMAIN Trimmed(m, over) :
              /\ k \in DOMAIN m /\ k \in Kept(m, over)
              /\ CutOf(m, over, k) \in Nat
              /\ CutOf(m, over, k) < Len(m[k]) \/ CutOf(m, over, k) = 0
              /\ Len(Trimmed(m, over)[k]) = Len(m[k]) - CutOf(m, over, k)
              /\ EndOf(Trimmed(m, over), k) <= EndOf(m, k)
         /\ \A k \in Kept(m, over) : k \in DOMAIN Trimmed(m, over)
<1> DEFINE M == Trimmed(m, over)
<1>1. /\ \A k : k \in DOMAIN M <=> k \in Kept(m, over)
      /\ \A k \in DOMAIN M : M[k] = Prefix(m[k], Len(m[k]) - CutOf(m, over, k))
  BY Zenon DEF Trimmed
<1> HIDE DEF M
<1>2. ASSUME NEW k \in DOMAIN M
      PROVE  /\ k \in DOMAIN m /\ k \in Nat /\ k <= L /\ SpeltAt(M[k], k, L)
             /\ CutOf(m, over, k) \in Nat
             /\ CutOf(m, over, k) < Len(m[k]) \/ CutOf(m, over, k) = 0
             /\ Len(M[k]) = Len(m[k]) - CutOf(m, over, k)
             /\ EndOf(M, k) <= EndOf(m, k)
  <2> DEFINE c == CutOf(m, over, k)
  <2>1. k \in DOMAIN m /\ BytesAbove(m, k) + Len(m[k]) > over
    BY <1>1, Zenon DEF Kept
  <2>2. k \in Nat /\ k <= L /\ Len(m[k]) \in Nat /\ EndOf(m, k) = k + Len(m[k])
    BY <2>1, SpeltTypes, Zenon
  <2>3. BytesAbove(m, k) \in Nat
    <3>1. {j \in DOMAIN m : k < j} \in SUBSET DOMAIN m
      BY Zenon
    <3> QED
      BY <3>1, CellsFinite, Zenon DEF BytesAbove
  <2>4. c \in Nat /\ (c < Len(m[k]) \/ c = 0) /\ Len(m[k]) - c \in Nat
        /\ Len(m[k]) - c <= Len(m[k])
    BY <2>1, <2>2, <2>3 DEF CutOf
  <2> HIDE DEF c
  <2>5. SpeltAt(m[k], k, L)
    BY <2>1, Zenon DEF Spelt
  <2>6. SpeltAt(M[k], k, L) /\ Len(M[k]) = Len(m[k]) - c
    BY <2>2, <2>4, <2>5, <1>1, PrefixSpelt DEF c
  <2>7. EndOf(M, k) = k + Len(M[k])
    BY Zenon DEF EndOf
  <2>8. EndOf(M, k) <= EndOf(m, k)
    BY <2>2, <2>4, <2>6, <2>7
  <2> QED
    BY <2>1, <2>2, <2>4, <2>6, <2>8, Zenon DEF c
<1>3. Spelt(M, L)
  BY <1>2, Zenon DEF Spelt
<1> QED
  BY <1>1, <1>2, <1>3, Zenon DEF M

\* When nothing is over, no byte is lost.
LEMMA TrimmedCovers ==
  ASSUME NEW L \in Nat, NEW m, Spelt(m, L), NEW over \in Nat
  PROVE  /\ \A x \in CoveredBy(Trimmed(m, over)) : x \in CoveredBy(m)
         /\ over = 0 => \A x \in CoveredBy(m) : x \in CoveredBy(Trimmed(m, over))
         /\ Apart(m) => Apart(Trimmed(m, over))
<1> DEFINE M == Trimmed(m, over)
<1>1. /\ Spelt(M, L)
      /\ \A k \in DOMAIN M : k \in DOMAIN m /\ EndOf(M, k) <= EndOf(m, k)
      /\ \A k \in Kept(m, over) : k \in DOMAIN M
  BY TrimmedSpelt, Zenon
<1>2. /\ \A k \in DOMAIN m : EndOf(m, k) \in Nat /\ k \in Nat
      /\ \A k \in DOMAIN M : EndOf(M, k) \in Nat
  BY <1>1, SpeltTypes, Zenon
<1>3. ASSUME NEW x \in CoveredBy(M) PROVE x \in CoveredBy(m)
  <2>1. PICK k \in DOMAIN M : x \in Nat /\ k <= x /\ x < EndOf(M, k)
    BY <1>3, Zenon DEF CoveredBy
  <2>2. k \in DOMAIN m /\ x < EndOf(m, k)
    BY <2>1, <1>1, <1>2
  <2> QED
    BY <2>1, <2>2, Zenon DEF CoveredBy
<1>4. ASSUME over = 0, NEW x \in CoveredBy(m) PROVE x \in CoveredBy(M)
  <2>1. PICK k \in DOMAIN m : x \in Nat /\ k <= x /\ x < EndOf(m, k)
    BY <1>4, Zenon DEF CoveredBy
  <2>2. /\ k \in Nat /\ Len(m[k]) \in Nat /\ EndOf(m, k) = k + Len(m[k])
        /\ SpeltAt(m[k], k, L)
    BY SpeltTypes, Zenon DEF Spelt
  <2>3. BytesAbove(m, k) \in Nat
    <3>1. {j \in DOMAIN m : k < j} \in SUBSET DOMAIN m
      BY Zenon
    <3> QED
      BY <3>1, CellsFinite, Zenon DEF BytesAbove
  <2>4. k \in Kept(m, over) /\ CutOf(m, over, k) = 0
    BY <2>1, <2>2, <2>3, <1>4 DEF Kept, CutOf
  <2>5. k \in DOMAIN M /\ Len(M[k]) = Len(m[k]) - CutOf(m, over, k)
    BY <2>4, TrimmedSpelt, Zenon
  <2>6. EndOf(M, k) = EndOf(m, k)
    BY <2>2, <2>4, <2>5 DEF EndOf
  <2> QED
    BY <2>1, <2>5, <2>6, Zenon DEF CoveredBy
<1>5. ASSUME Apart(m) PROVE Apart(M)
  <2>1. ASSUME NEW j \in DOMAIN M, NEW k \in DOMAIN M, j < k
        PROVE  EndOf(M, j) <= k
    <3>1. EndOf(m, j) <= k
      BY <2>1, <1>1, <1>5, Zenon DEF Apart
    <3> QED
      BY <3>1, <1>1, <1>2
  <2> QED
    BY <2>1, Zenon DEF Apart
<1> QED
  BY <1>3, <1>4, <1>5, Zenon

\* The loop stops as soon as what it erased makes up for the excess, and what is
\* left of the last entry makes up for the rest.
LEMMA TrimmedFits ==
  ASSUME NEW L \in Nat, NEW m, Spelt(m, L), NEW over \in Nat
  PROVE  /\ StoredBytes(Trimmed(m, over), DOMAIN Trimmed(m, over)) \in Nat
         /\ \/ StoredBytes(Trimmed(m, over), DOMAIN Trimmed(m, over)) = 0
            \/ StoredBytes(Trimmed(m, over), DOMAIN Trimmed(m, over))
                 <= StoredBytes(m, DOMAIN m) - over
<1> DEFINE M == Trimmed(m, over)
           D == DOMAIN M
<1>1. /\ Spelt(M, L)
      /\ \A k \in D : /\ k \in DOMAIN m /\ k \in Kept(m, over)
                      /\ Len(M[k]) = Len(m[k]) - CutOf(m, over, k)
      /\ \A k \in Kept(m, over) : k \in D
  BY TrimmedSpelt, Zenon
<1>2. D \in SUBSET D
  BY Zenon
<1>3. /\ IsFiniteSet(Cells(M, D)) /\ StoredBytes(M, D) \in Nat
      /\ StoredBytes(M, D) = Cardinality(Cells(M, D))
  BY <1>1, <1>2, CellsFinite, Zenon
<1>4. CASE D = {}
  <2>1. Cells(M, D) = {}
    BY <1>4, Zenon DEF Cells
  <2>2. StoredBytes(M, D) = 0
    BY <2>1, <1>3, FS_EmptySet, Zenon
  <2> QED
    BY <2>2, <1>3, Zenon
<1>5. CASE D # {}
  <2> DEFINE g == Greatest(D)
             above == {j \in DOMAIN m : g < j}
             below == {j \in DOMAIN m : j < g}
             c == CutOf(m, over, g)
  <2>1. D \in SUBSET (0 .. L)
    BY <1>1, Zenon DEF Spelt
  <2>2. g \in D /\ \A k \in D : k <= g
    BY <2>1, <1>5, GreatestOfSet, Zenon
  <2>3. \A k \in DOMAIN m : k \in Nat /\ Len(m[k]) \in Nat
    BY SpeltTypes, Zenon
  <2> HIDE DEF g, D, M
  <2>4. g \in DOMAIN m /\ g \in Kept(m, over) /\ Len(M[g]) = Len(m[g]) - c
    BY <2>2, <1>1, Zenon
  <2>5. /\ above \in SUBSET DOMAIN m /\ below \in SUBSET DOMAIN m
        /\ {g} \in SUBSET DOMAIN m /\ above \cup {g} \in SUBSET DOMAIN m
        /\ above \cap {g} = {} /\ below \cap (above \cup {g}) = {}
        /\ below \cup (above \cup {g}) = DOMAIN m
    <3>1. \A k \in DOMAIN m : k < g \/ k = g \/ g < k
      BY <2>3, <2>4
    <3>2. \A k \in DOMAIN m : ~(k < g /\ g < k) /\ ~(k < g /\ k = g) /\ ~(g < k /\ k = g)
      BY <2>3, <2>4
    <3> QED
      BY <3>1, <3>2, <2>4, Zenon
  <2> DEFINE A == StoredBytes(m, above)
             B == StoredBytes(m, below)
             T == StoredBytes(m, DOMAIN m)
  <2>6. StoredBytes(m, {g}) = Len(m[g])
    BY <2>4, StoredOne, Zenon
  <2>7. StoredBytes(m, above \cup {g}) = A + Len(m[g])
    BY <2>5, <2>6, StoredSplit
  <2>8. T = B + (A + Len(m[g]))
    <3>1. StoredBytes(m, below \cup (above \cup {g}))
            = B + StoredBytes(m, above \cup {g})
      BY <2>5, StoredSplit, Zenon
    <3> QED
      BY <3>1, <2>5, <2>7, Zenon
  <2>9. A \in Nat /\ B \in Nat /\ IsFiniteSet(Cells(m, below))
        /\ B = Cardinality(Cells(m, below))
    BY <2>5, CellsFinite, Zenon
  <2>10. A = BytesAbove(m, g)
    BY Zenon DEF BytesAbove
  <2> HIDE DEF A, B, T
  <2>11. A <= over
    <3>1. CASE above = {}
      <4>1. A = 0
        BY <3>1, <2>4, StoredOne, Zenon DEF A
      <4> QED
        BY <4>1
    <3>2. CASE above # {}
      <4>1. above \in SUBSET Nat
        BY <2>3, Zenon
      <4>2. PICK h \in above : \A j \in above : h <= j
        BY <4>1, <3>2, LeastOfSet, Zenon
      <4>3. h \in DOMAIN m /\ g < h /\ \A j \in DOMAIN m : g < j => h <= j
        BY <4>2, Zenon
      <4>4. BytesAbove(m, g) = BytesAbove(m, h) + Len(m[h])
        BY <4>3, <2>4, BytesAboveNext, Zenon
      <4>5. h \notin Kept(m, over)
        <5>1. h \notin D
          BY <4>3, <2>2, <2>3, <2>4
        <5> QED
          BY <5>1, <1>1, Zenon DEF D, M
      <4>6. ~(BytesAbove(m, h) + Len(m[h]) > over)
        BY <4>3, <4>5, Zenon DEF Kept
      <4>7. BytesAbove(m, h) + Len(m[h]) \in Nat
        BY <4>4, <2>9, <2>10, Zenon
      <4> QED
        BY <4>4, <4>6, <4>7, <2>10
    <3> QED
      BY <3>1, <3>2, Zenon
  <2>12. c = over - A /\ c \in Nat /\ Len(m[g]) - c \in Nat
    <3>1. c = over - A
      BY <2>9, <2>10, <2>11 DEF CutOf
    <3>2. A + Len(m[g]) > over
      BY <2>4, <2>10, Zenon DEF Kept
    <3> QED
      BY <3>1, <3>2, <2>3, <2>4, <2>9, <2>11
  <2> HIDE DEF c
  <2> DEFINE last == {g} \X (1 .. Len(m[g]) - c)
  <2>13. IsFiniteSet(last) /\ Cardinality(last) = Len(m[g]) - c
    <3>1. /\ IsFiniteSet(1 .. Len(m[g]) - c)
          /\ Cardinality(1 .. Len(m[g]) - c) = Len(m[g]) - c
      BY <2>12, IntervalCount, Zenon
    <3>2. IsFiniteSet({g}) /\ Cardinality({g}) = 1
      BY FS_Singleton, Zenon
    <3>3. IsFiniteSet(last) /\ Cardinality(last) = 1 * Cardinality(1 .. Len(m[g]) - c)
      BY <3>1, <3>2, FS_Product, Zenon
    <3> QED
      BY <3>1, <3>3, <2>12
  <2>14. Cells(M, D) \in SUBSET (Cells(m, below) \cup last)
    <3>1. ASSUME NEW k \in D
          PROVE  {k} \X (1 .. Len(M[k])) \subseteq Cells(m, below) \cup last
      <4>1. CASE k = g
        BY <4>1, <2>4, Zenon
      <4>2. CASE k # g
        <5>1. k \in below
          BY <4>2, <2>2, <2>3, <2>4, <1>1 DEF D, M
        <5>2. Len(M[k]) \in Nat /\ Len(M[k]) <= Len(m[k]) /\ Len(m[k]) \in Nat
          <6>1. k \in DOMAIN m /\ k \in DOMAIN M
            BY <1>1, Zenon DEF D, M
          <6>2. EndOf(M, k) <= EndOf(m, k)
            BY <6>1, TrimmedSpelt, Zenon DEF M
          <6>3. /\ k \in Nat /\ Len(M[k]) \in Nat /\ EndOf(M, k) = k + Len(M[k])
                /\ Len(m[k]) \in Nat /\ EndOf(m, k) = k + Len(m[k])
            BY <6>1, <1>1, SpeltTypes DEF M
          <6> QED
            BY <6>2, <6>3
        <5>3. \A p \in 1 .. Len(M[k]) : p \in 1 .. Len(m[k])
          BY <5>2
        <5>4. {k} \X (1 .. Len(M[k])) \subseteq {k} \X (1 .. Len(m[k]))
          BY <5>3, Zenon
        <5> QED
          BY <5>1, <5>4, Zenon DEF Cells
      <4> QED
        BY <4>1, <4>2, Zenon
    <3> QED
      BY <3>1, Zenon DEF Cells
  <2>15. /\ IsFiniteSet(Cells(m, below) \cup last)
         /\ Cardinality(Cells(m, below) \cup last)
              = B + Cardinality(last) - Cardinality(Cells(m, below) \cap last)
    BY <2>9, <2>13, FS_Union, Zenon
  <2>16. Cardinality(Cells(m, below) \cap last) \in Nat
    <3>1. IsFiniteSet(Cells(m, below) \cap last)
      BY <2>9, FS_Intersection, Zenon
    <3> QED
      BY <3>1, FS_CardinalityType, Zenon
  <2>17. Cardinality(Cells(M, D)) <= Cardinality(Cells(m, below) \cup last)
    BY <2>14, <2>15, FS_Subset, Zenon
  <2> HIDE DEF last, below, above
  <2> DEFINE u == Cardinality(Cells(m, below) \cup last)
             i == Cardinality(Cells(m, below) \cap last)
             l == Len(m[g])
             n == Cardinality(Cells(M, D))
  <2>a. u = B + (l - c) - i
    BY <2>13, <2>15, Zenon
  <2>b. n <= u /\ i \in Nat /\ l \in Nat /\ n \in Nat
    BY <2>3, <2>4, <2>16, <2>17, <1>3, Zenon DEF D, M
  <2> HIDE DEF u, i, l, n
  <2>c. T = B + (A + l)
    BY <2>8, Zenon DEF l
  <2>18. n <= T - over
    BY <2>a, <2>b, <2>c, <2>9, <2>12
  <2> QED
    BY <2>18, <1>3, Zenon DEF T, M, D, n
<1> QED
  BY <1>4, <1>5, Zenon

\* Two strings of the stream, one after the other.
LEMMA ConcatSpelt ==
  ASSUME NEW L \in Nat, NEW k \in Nat, NEW s, NEW t,
         SpeltAt(s, k, L), SpeltAt(t, k + Len(s), L)
  PROVE  SpeltAt(s \o t, k, L) /\ Len(s \o t) = Len(s) + Len(t)
<1>1. s \in Seq(1 .. L) /\ t \in Seq(1 .. L) /\ Len(s) \in Nat /\ Len(t) \in Nat
  BY DEF SpeltAt
<1>2. /\ s \o t \in Seq(1 .. L) /\ Len(s \o t) = Len(s) + Len(t)
      /\ \A p \in 1 .. Len(s) + Len(t) :
           (s \o t)[p] = IF p <= Len(s) THEN s[p] ELSE t[p - Len(s)]
  BY <1>1
<1>3. /\ \A p \in 1 .. Len(s) : s[p] = k + p
      /\ \A p \in 1 .. Len(t) : t[p] = k + Len(s) + p
      /\ k + Len(s) + Len(t) <= L
  BY Zenon DEF SpeltAt
<1>4. k + Len(s \o t) <= L
  BY <1>1, <1>2, <1>3
<1>5. ASSUME NEW p \in 1 .. Len(s) + Len(t) PROVE (s \o t)[p] = k + p
  <2>1. CASE p <= Len(s)
    <3>1. p \in 1 .. Len(s)
      BY <2>1, <1>1
    <3> QED
      BY <3>1, <2>1, <1>2, <1>3, Zenon
  <2>2. CASE ~(p <= Len(s))
    <3>1. p - Len(s) \in 1 .. Len(t) /\ k + Len(s) + (p - Len(s)) = k + p
      BY <2>2, <1>1
    <3>2. t[p - Len(s)] = k + Len(s) + (p - Len(s))
      BY <3>1, <1>3, Zenon
    <3> QED
      BY <3>1, <3>2, <2>2, <1>2, Zenon
  <2> QED
    BY <2>1, <2>2, Zenon
<1> QED
  BY <1>2, <1>4, <1>5, Zenon DEF SpeltAt

\* The rest of a string of the stream.
LEMMA SuffixSpelt ==
  ASSUME NEW L \in Nat, NEW k \in Nat, NEW s, SpeltAt(s, k, L),
         NEW n \in Nat, n <= Len(s)
  PROVE  SpeltAt(Suffix(s, n), k + n, L) /\ Len(Suffix(s, n)) = Len(s) - n
<1>1. s \in Seq(1 .. L) /\ Len(s) \in Nat
  BY DEF SpeltAt
<1>2. k + Len(s) <= L /\ \A p \in 1 .. Len(s) : s[p] = k + p
  BY Zenon DEF SpeltAt
<1>3. /\ Suffix(s, n) \in Seq(1 .. L) /\ Len(Suffix(s, n)) = Len(s) - n
      /\ \A p \in 1 .. Len(s) - n : Suffix(s, n)[p] = s[n + p]
  <2>1. \A j \in n + 1 .. Len(s) : s[j] \in 1 .. L
    BY <1>1
  <2> QED
    BY <1>1, <2>1 DEF Suffix
<1>4. (k + n) + Len(Suffix(s, n)) <= L
  BY <1>1, <1>2, <1>3
<1>5. ASSUME NEW p \in 1 .. Len(s) - n PROVE Suffix(s, n)[p] = k + n + p
  <2>1. n + p \in 1 .. Len(s) /\ k + (n + p) = k + n + p
    BY <1>1
  <2>2. s[n + p] = k + (n + p)
    BY <2>1, <1>2, Zenon
  <2> QED
    BY <2>1, <2>2, <1>3, Zenon
<1> QED
  BY <1>3, <1>4, <1>5, Zenon DEF SpeltAt

-----------------------------------------------------------------------------
(* The record of a reassembler.                                            *)

ReassemblerFields ==
  {"output", "capacity", "unassemBuf", "assemBuf", "expectIdx", "unassemSize",
   "eofIndex"}

\* fixCap changes the map only, keeps it well formed, and makes it fit.
LEMMA FixCapIs ==
  ASSUME NEW L \in Nat, NEW r, DOMAIN r = ReassemblerFields,
         Spelt(r.unassemBuf, L), Len(r.assemBuf) \in Nat, r.capacity \in Nat,
         Len(r.assemBuf) <= r.capacity
  PROVE  /\ DOMAIN fixCap(r) = ReassemblerFields
         /\ fixCap(r).output = r.output /\ fixCap(r).capacity = r.capacity
         /\ fixCap(r).assemBuf = r.assemBuf /\ fixCap(r).expectIdx = r.expectIdx
         /\ fixCap(r).eofIndex = r.eofIndex
         /\ Spelt(fixCap(r).unassemBuf, L)
         /\ \A k \in DOMAIN fixCap(r).unassemBuf : k \in DOMAIN r.unassemBuf
         /\ \A x \in CoveredBy(fixCap(r).unassemBuf) : x \in CoveredBy(r.unassemBuf)
         /\ Overflow(r) <= 0 =>
              \A x \in CoveredBy(r.unassemBuf) : x \in CoveredBy(fixCap(r).unassemBuf)
         /\ Apart(r.unassemBuf) => Apart(fixCap(r).unassemBuf)
         /\ StoredBytes(fixCap(r).unassemBuf, DOMAIN fixCap(r).unassemBuf) \in Nat
         /\ Len(r.assemBuf)
              + StoredBytes(fixCap(r).unassemBuf, DOMAIN fixCap(r).unassemBuf)
              <= r.capacity
<1> DEFINE m    == r.unassemBuf
           over == Overflow(r)
           T    == StoredBytes(m, DOMAIN m)
<1>1. DOMAIN m \in SUBSET DOMAIN m
  BY Zenon
<1>2. T \in Nat /\ over = Len(r.assemBuf) + T - r.capacity /\ over \in Int
  <2>1. T \in Nat
    BY <1>1, CellsFinite, Zenon
  <2> QED
    BY <2>1 DEF Overflow
<1>3. CASE over < 0
  <2>1. fixCap(r) = r
    BY <1>3, Zenon DEF fixCap
  <2>2. Len(r.assemBuf) + T <= r.capacity
    BY <1>2, <1>3
  <2> QED
    BY <2>1, <2>2, <1>2, Zenon
<1>4. CASE over >= 0
  <2> DEFINE M == Trimmed(m, over)
  <2>0. over \in Nat /\ (over <= 0 => over = 0)
    BY <1>2, <1>4
  <2>1. fixCap(r) = [r EXCEPT !.unassemBuf = M]
    BY <1>2, <1>4 DEF fixCap, Trimmed, Kept, CutOf
  <2> HIDE DEF M, over
  <2>2. /\ DOMAIN fixCap(r) = ReassemblerFields
        /\ fixCap(r).output = r.output /\ fixCap(r).capacity = r.capacity
        /\ fixCap(r).assemBuf = r.assemBuf /\ fixCap(r).expectIdx = r.expectIdx
        /\ fixCap(r).eofIndex = r.eofIndex /\ fixCap(r).unassemBuf = M
    BY <2>1, Zenon DEF ReassemblerFields
  <2>3. Spelt(M, L) /\ \A k \in DOMAIN M : k \in DOMAIN m
    BY <2>0, TrimmedSpelt, Zenon DEF M
  <2>4. /\ \A x \in CoveredBy(M) : x \in CoveredBy(m)
        /\ over = 0 => \A x \in CoveredBy(m) : x \in CoveredBy(M)
        /\ Apart(m) => Apart(M)
    BY <2>0, TrimmedCovers, Zenon DEF M
  <2>5. /\ StoredBytes(M, DOMAIN M) \in Nat
        /\ StoredBytes(M, DOMAIN M) = 0 \/ StoredBytes(M, DOMAIN M) <= T - over
    BY <2>0, TrimmedFits, Zenon DEF M
  <2>6. Len(r.assemBuf) + StoredBytes(M, DOMAIN M) <= r.capacity
    BY <2>5, <1>2
  <2> QED
    BY <2>0, <2>2, <2>3, <2>4, <2>5, <2>6, Zenon DEF over
<1> QED
  BY <1>2, <1>3, <1>4

-----------------------------------------------------------------------------
(* assem: the entries that it takes lie end to end from expectIdx on.      *)

Preceding(m, j) == {i \in DOMAIN m : i < j}

\* Key j is where the entry before it ends, the first one at e.
Continues(m, e, j) ==
  j = IF Preceding(m, j) = {} THEN e ELSE EndOf(m, Greatest(Preceding(m, j)))

\* What assem leaves in expectIdx.
NextIdx(m, e) ==
  IF Contiguous(m, e) = {} THEN e ELSE EndOf(m, Greatest(Contiguous(m, e)))

\* With a key, assem takes every key below it.
LEMMA ContiguousIs ==
  ASSUME NEW L \in Nat, NEW m, Spelt(m, L), NEW e
  PROVE  /\ \A k : k \in Contiguous(m, e) <=>
              k \in DOMAIN m /\ \A j \in DOMAIN m : j <= k => Continues(m, e, j)
         /\ \A k \in Contiguous(m, e), j \in DOMAIN m :
              j <= k => j \in Contiguous(m, e)
<1>1. \A k : k \in Contiguous(m, e) <=>
        k \in DOMAIN m /\ \A j \in DOMAIN m : j <= k => Continues(m, e, j)
  BY Zenon DEF Contiguous, Continues, Preceding
<1>2. \A k \in DOMAIN m : k \in Nat
  BY DEF Spelt
<1>3. ASSUME NEW k \in Contiguous(m, e), NEW j \in DOMAIN m, j <= k
      PROVE  j \in Contiguous(m, e)
  <2>1. k \in DOMAIN m /\ \A i \in DOMAIN m : i <= k => Continues(m, e, i)
    BY <1>1, Zenon
  <2>2. \A i \in DOMAIN m : i <= j => i <= k
    BY <1>2, <1>3, <2>1
  <2>3. \A i \in DOMAIN m : i <= j => Continues(m, e, i)
    BY <2>1, <2>2, Zenon
  <2> QED
    BY <2>3, <1>1, Zenon
<1> QED
  BY <1>1, <1>3, Zenon

\* The first key taken is e.
LEMMA ContiguousFrom ==
  ASSUME NEW L \in Nat, NEW m, Spelt(m, L), NEW e \in Nat,
         NEW k \in Contiguous(m, e)
  PROVE  e \in Contiguous(m, e) /\ e <= k
<1> DEFINE l == Least(DOMAIN m)
<1>1. DOMAIN m \in SUBSET Nat /\ k \in DOMAIN m
  BY ContiguousIs DEF Spelt
<1>2. l \in DOMAIN m /\ \A j \in DOMAIN m : l <= j
  BY <1>1, LeastKey, Zenon
<1> HIDE DEF l
<1>3. l <= k /\ l \in Contiguous(m, e)
  BY <1>1, <1>2, ContiguousIs, Zenon
<1>4. Preceding(m, l) = {}
  BY <1>1, <1>2 DEF Preceding
<1>5. l <= l
  BY <1>1, <1>2, Zenon
<1>6. Continues(m, e, l)
  BY <1>2, <1>3, <1>5, ContiguousIs, Zenon
<1>7. l = e
  BY <1>4, <1>6, Zenon DEF Continues
<1> QED
  BY <1>3, <1>7, Zenon

\* Where one taken entry ends the next one starts.
LEMMA ContiguousNext ==
  ASSUME NEW L \in Nat, NEW m, Spelt(m, L), NEW e \in Nat,
         NEW j \in Contiguous(m, e), NEW k \in Contiguous(m, e), j < k
  PROVE  /\ EndOf(m, j) \in Contiguous(m, e)
         /\ j < EndOf(m, j) /\ EndOf(m, j) <= k
<1> DEFINE T == Contiguous(m, e)
           S == {i \in T : j < i}
           h == Least(S)
<1>1. /\ DOMAIN m \in SUBSET Nat /\ DOMAIN m \in SUBSET (0 .. L)
      /\ \A i \in T : i \in DOMAIN m
      /\ \A i \in T, n \in DOMAIN m : n <= i => n \in T
  BY ContiguousIs DEF Spelt
<1>2. \A i \in T, n \in DOMAIN m : n <= i => Continues(m, e, n)
  BY ContiguousIs, Zenon
<1> HIDE DEF T
<1>3. S \in SUBSET Nat /\ k \in S
  BY <1>1, Zenon DEF T
<1>4. h \in S /\ \A i \in S : h <= i
  BY <1>3, LeastKey, Zenon
<1> HIDE DEF h
<1>5. /\ h \in T /\ j < h /\ h <= k /\ h \in DOMAIN m /\ h \in Nat
      /\ j \in T /\ j \in DOMAIN m /\ j \in Nat
  BY <1>1, <1>3, <1>4, Zenon DEF T
<1>6. j \in Preceding(m, h) /\ Preceding(m, h) \in SUBSET (0 .. L)
  BY <1>1, <1>5, Zenon DEF Preceding
<1> DEFINE g == Greatest(Preceding(m, h))
<1>7. g \in Preceding(m, h) /\ \A i \in Preceding(m, h) : i <= g
  BY <1>6, GreatestOfSet, Zenon
<1> HIDE DEF g
<1>8. g \in DOMAIN m /\ g < h /\ j <= g /\ g \in Nat
  BY <1>1, <1>6, <1>7, Zenon DEF Preceding
<1>9. g \in T
  BY <1>1, <1>5, <1>8
<1>10. g = j
  <2>1. j < g => h <= g
    BY <1>4, <1>9, Zenon
  <2> QED
    BY <2>1, <1>5, <1>8
<1>11. Continues(m, e, h)
  <2>1. h <= h
    BY <1>5
  <2> QED
    BY <2>1, <1>2, <1>5, Zenon
<1>12. h = EndOf(m, j)
  BY <1>6, <1>10, <1>11, Zenon DEF Continues, g
<1> QED
  BY <1>5, <1>12, Zenon DEF T

\* The taken entries cover exactly the indices from e to the new expectIdx.
LEMMA ContiguousCovers ==
  ASSUME NEW L \in Nat, NEW m, Spelt(m, L), NEW e \in 0 .. L
  PROVE  /\ NextIdx(m, e) \in Nat /\ e <= NextIdx(m, e) /\ NextIdx(m, e) <= L
         /\ \A k \in Contiguous(m, e) :
              k \in DOMAIN m /\ e <= k /\ EndOf(m, k) <= NextIdx(m, e)
         /\ \A x \in Nat : e <= x /\ x < NextIdx(m, e) =>
              \E k \in Contiguous(m, e) : k <= x /\ x < EndOf(m, k)
<1> DEFINE T == Contiguous(m, e)
           n == NextIdx(m, e)
<1>1. CASE T = {}
  <2>1. n = e
    BY <1>1, Zenon DEF NextIdx
  <2> QED
    BY <2>1, <1>1
<1>2. CASE T # {}
  <2> DEFINE g == Greatest(T)
  <2>1. \A k \in T : k \in DOMAIN m /\ k \in 0 .. L /\ e <= k /\ e \in T
    BY ContiguousIs, ContiguousFrom DEF Spelt
  <2>2. g \in T /\ \A k \in T : k <= g
    BY <2>1, <1>2, GreatestOfSet, Zenon
  <2>3. n = EndOf(m, g)
    BY <1>2, Zenon DEF NextIdx
  <2> HIDE DEF T, n, g
  <2>4. \A k \in T : /\ EndOf(m, k) \in Nat /\ EndOf(m, k) <= L /\ k <= EndOf(m, k)
    BY <2>1, SpeltTypes
  <2>5. ASSUME NEW j \in T, NEW k \in T, j < k
        PROVE  EndOf(m, j) \in T /\ EndOf(m, j) <= k
    BY <2>5, ContiguousNext DEF T
  <2>6. n \in Nat /\ e <= n /\ n <= L
    BY <2>1, <2>2, <2>3, <2>4
  <2>7. ASSUME NEW k \in T PROVE EndOf(m, k) <= n
    <3>1. k = g \/ k < g
      BY <2>1, <2>2
    <3>2. k < g => EndOf(m, k) <= g
      BY <2>2, <2>5, Zenon
    <3> QED
      BY <3>1, <3>2, <2>1, <2>2, <2>3, <2>4
  <2>8. ASSUME NEW x \in Nat, e <= x, x < n
        PROVE  \E k \in T : k <= x /\ x < EndOf(m, k)
    <3> DEFINE B == {k \in T : k <= x}
               b == Greatest(B)
    <3>1. B \in SUBSET (0 .. L) /\ e \in B
      BY <2>1, <2>2, <2>8, Zenon
    <3>2. b \in B /\ \A k \in B : k <= b
      BY <3>1, GreatestOfSet, Zenon
    <3> HIDE DEF b
    <3>3. b \in T /\ b <= x
      BY <3>2, Zenon
    <3>4. CASE b = g
      BY <3>3, <3>4, <2>3, <2>8, Zenon
    <3>5. CASE b # g
      <4>1. b < g
        BY <3>3, <3>5, <2>1, <2>2
      <4>2. EndOf(m, b) \in T
        BY <4>1, <3>3, <2>2, <2>5, Zenon
      <4>3. b < EndOf(m, b)
        BY <4>1, <3>3, <2>2, ContiguousNext DEF T
      <4>4. ~(EndOf(m, b) <= x)
        <5>1. EndOf(m, b) <= x => EndOf(m, b) <= b
          BY <4>2, <3>2, Zenon
        <5> QED
          BY <5>1, <4>3, <3>3, <2>1, <2>4
      <4> QED
        BY <4>4, <3>3, <2>4
    <3> QED
      BY <3>4, <3>5, Zenon
  <2> QED
    BY <2>1, <2>6, <2>7, <2>8, Zenon DEF T, n
<1> QED
  BY <1>1, <1>2, Zenon

\* When the stored strings do not overlap and none starts before e, whatever
\* assem leaves starts strictly after the new expectIdx.
LEMMA ContiguousRest ==
  ASSUME NEW L \in Nat, NEW m, Spelt(m, L), NEW e \in 0 .. L, Apart(m),
         \A k \in DOMAIN m : e <= k,
         NEW k \in DOMAIN m, k \notin Contiguous(m, e)
  PROVE  NextIdx(m, e) < k
<1> DEFINE T == Contiguous(m, e)
           R == {i \in DOMAIN m : i \notin T}
           l == Least(R)
<1>1. DOMAIN m \in SUBSET Nat /\ DOMAIN m \in SUBSET (0 .. L) /\ R \in SUBSET Nat /\ k \in R
  BY DEF Spelt
<1>2. l \in R /\ \A i \in R : l <= i
  BY <1>1, LeastKey, Zenon
<1> HIDE DEF l
<1>3. /\ \A i : i \in T <=>
           i \in DOMAIN m /\ \A j \in DOMAIN m : j <= i => Continues(m, e, j)
      /\ \A i \in T, j \in DOMAIN m : j <= i => j \in T
  BY ContiguousIs, Zenon
<1> HIDE DEF T
<1>4. l \in DOMAIN m /\ l \in Nat /\ l \notin T /\ l <= k /\ k \in Nat
  BY <1>1, <1>2, Zenon
<1>5. \A i \in DOMAIN m : i < l => i \in T
  BY <1>1, <1>2, <1>4
<1>6. \A i \in T : i < l
  BY <1>1, <1>3, <1>4
<1>7. Preceding(m, l) = T
  BY <1>3, <1>5, <1>6, Zenon DEF Preceding
<1>8. ~Continues(m, e, l)
  <2>1. SUFFICES ASSUME Continues(m, e, l) PROVE l \in T
    BY <1>4, Zenon
  <2>2. ASSUME NEW j \in DOMAIN m, j <= l PROVE Continues(m, e, j)
    <3>1. CASE j = l
      BY <2>1, <3>1, Zenon
    <3>2. CASE j # l
      <4>1. j < l
        BY <2>2, <3>2, <1>1, <1>4
      <4>2. j \in T /\ j <= j
        BY <4>1, <1>1, <1>5
      <4> QED
        BY <4>2, <1>3, Zenon
    <3> QED
      BY <3>1, <3>2, Zenon
  <2> QED
    BY <2>2, <1>3, <1>4, Zenon
<1>9. NextIdx(m, e) # l
  BY <1>7, <1>8, Zenon DEF Continues, NextIdx, T
<1>10. NextIdx(m, e) <= l
  <2>1. CASE T = {}
    BY <2>1, <1>4, Zenon DEF NextIdx, T
  <2>2. CASE T # {}
    <3>1. T \in SUBSET (0 .. L)
      BY <1>1, <1>3, Zenon
    <3>2. Greatest(T) \in T
      BY <2>2, <3>1, GreatestOfSet, Zenon
    <3> QED
      BY <2>2, <3>2, <1>3, <1>4, <1>6, Zenon DEF NextIdx, T, Apart
  <2> QED
    BY <2>1, <2>2, Zenon
<1>11. NextIdx(m, e) \in Nat
  BY ContiguousCovers, Zenon
<1> QED
  BY <1>4, <1>9, <1>10, <1>11

\* Strings that do not overlap hold as many bytes as they cover indices.
LEMMA CountCovered ==
  ASSUME NEW L \in Nat, NEW m, Spelt(m, L), NEW K \in SUBSET DOMAIN m,
         \A j, k \in K : j < k => EndOf(m, j) <= k,
         NEW X, \A x : x \in X <=> x \in Nat /\ \E k \in K : k <= x /\ x < EndOf(m, k)
  PROVE  Cardinality(X) = StoredBytes(m, K)
<1> DEFINE C == Cells(m, K)
           f == [c \in C |-> c[1] + c[2] - 1]
<1>1. /\ IsFiniteSet(C) /\ StoredBytes(m, K) = Cardinality(C)
  BY CellsFinite, Zenon
<1>2. \A k \in K : /\ k \in Nat /\ Len(m[k]) \in Nat /\ EndOf(m, k) = k + Len(m[k])
  BY SpeltTypes, Zenon
<1>3. /\ \A c \in C : \E k \in K : \E p \in 1 .. Len(m[k]) : c = <<k, p>>
      /\ \A k \in K : \A p \in 1 .. Len(m[k]) : <<k, p>> \in C
  BY DEF Cells
<1> HIDE DEF C
<1>4. ASSUME NEW c \in C PROVE f[c] \in X
  <2>0. PICK k \in K : \E p \in 1 .. Len(m[k]) : c = <<k, p>>
    BY <1>3, Zenon
  <2>1. PICK p \in 1 .. Len(m[k]) : c = <<k, p>>
    BY <2>0, Zenon
  <2>2. f[c] = k + p - 1
    BY <2>1, Zenon
  <2>3. k + p - 1 \in Nat /\ k <= k + p - 1 /\ k + p - 1 < EndOf(m, k)
    BY <1>2
  <2>4. k + p - 1 \in X
    BY <2>3, Zenon
  <2> QED
    BY <2>2, <2>4, Zenon
<1>5. f \in [C -> X]
  BY <1>4, Zenon
<1>6. ASSUME NEW a \in C, NEW b \in C, f[a] = f[b] PROVE a = b
  <2>0. PICK j \in K, k \in K : /\ \E p \in 1 .. Len(m[j]) : a = <<j, p>>
                                /\ \E q \in 1 .. Len(m[k]) : b = <<k, q>>
    BY <1>3, Zenon
  <2>1. PICK p \in 1 .. Len(m[j]) : a = <<j, p>>
    BY <2>0, Zenon
  <2>2. PICK q \in 1 .. Len(m[k]) : b = <<k, q>>
    BY <2>0, Zenon
  <2>3. f[a] = j + p - 1 /\ f[b] = k + q - 1
    BY <2>1, <2>2, Zenon
  <2>4. j + p - 1 = k + q - 1
    BY <2>3, <1>6, Zenon
  <2>5. j \in Nat /\ k \in Nat /\ Len(m[j]) \in Nat /\ Len(m[k]) \in Nat
    BY <1>2, Zenon
  <2>6. ~(j < k)
    <3>1. j < k => j + Len(m[j]) <= k
      BY <1>2, Zenon
    <3> QED
      BY <3>1, <2>4, <2>5
  <2>7. ~(k < j)
    <3>1. k < j => k + Len(m[k]) <= j
      BY <1>2, Zenon
    <3> QED
      BY <3>1, <2>4, <2>5
  <2>8. j = k /\ p = q
    BY <2>4, <2>5, <2>6, <2>7
  <2> QED
    BY <2>1, <2>2, <2>8, Zenon
<1>7. ASSUME NEW x \in X PROVE \E c \in C : f[c] = x
  <2>1. x \in Nat
    BY Zenon
  <2>2. PICK k \in K : k <= x /\ x < EndOf(m, k)
    BY Zenon
  <2>3. x - k + 1 \in 1 .. Len(m[k]) /\ k + (x - k + 1) - 1 = x
    BY <2>1, <2>2, <1>2
  <2>4. <<k, x - k + 1>> \in C
    BY <2>3, <1>3, Zenon
  <2>5. f[<<k, x - k + 1>>] = x
    BY <2>3, <2>4, Zenon
  <2> QED
    BY <2>4, <2>5, Zenon
<1> HIDE DEF f
<1>8. f \in Bijection(C, X)
  BY <1>5, <1>6, <1>7, Zenon DEF Bijection, Injection, Surjection, IsInjective
<1>9. ExistsBijection(C, X)
  BY <1>8, Zenon DEF ExistsBijection
<1> QED
  BY <1>1, <1>9, FS_Bijection, Zenon

\* What a part of the map holds does not depend on the rest of it.
LEMMA EntriesSpelt ==
  ASSUME NEW L \in Nat, NEW m, Spelt(m, L), NEW K \in SUBSET DOMAIN m
  PROVE  /\ DOMAIN Entries(m, K) = K
         /\ \A k \in K : Entries(m, K)[k] = m[k]
         /\ Spelt(Entries(m, K), L)
         /\ \A k \in K : EndOf(Entries(m, K), k) = EndOf(m, k)
         /\ StoredBytes(Entries(m, K), K) = StoredBytes(m, K)
<1>1. DOMAIN Entries(m, K) = K /\ \A k \in K : Entries(m, K)[k] = m[k]
  BY Zenon DEF Entries
<1>2. Spelt(Entries(m, K), L)
  BY <1>1, Zenon DEF Spelt
<1>3. \A k \in K : EndOf(Entries(m, K), k) = EndOf(m, k)
  BY <1>1, Zenon DEF EndOf
<1>4. {{k} \X (1 .. Len(Entries(m, K)[k])) : k \in K} = {{k} \X (1 .. Len(m[k])) : k \in K}
  BY <1>1, Zenon
<1>5. StoredBytes(Entries(m, K), K) = StoredBytes(m, K)
  BY <1>4, ZenonT(30) DEF StoredBytes
<1> QED
  BY <1>1, <1>2, <1>3, <1>5, Zenon

\* assem moves the bytes from expectIdx to its new value to the assembled ones,
\* in the order of the stream, and forgets no other.
LEMMA AssemIs ==
  ASSUME NEW L \in Nat, NEW r, DOMAIN r = ReassemblerFields,
         Spelt(r.unassemBuf, L), r.expectIdx \in 0 .. L,
         NEW d \in Nat, SpeltAt(r.assemBuf, d, L), r.expectIdx = d + Len(r.assemBuf)
  PROVE  LET a == assem(r) IN
         /\ DOMAIN a = ReassemblerFields
         /\ a.output = r.output /\ a.capacity = r.capacity /\ a.eofIndex = r.eofIndex
         /\ Spelt(a.unassemBuf, L)
         /\ a.expectIdx \in 0 .. L /\ r.expectIdx <= a.expectIdx
         /\ SpeltAt(a.assemBuf, d, L) /\ a.expectIdx = d + Len(a.assemBuf)
         /\ a.unassemSize = StoredBytes(a.unassemBuf, DOMAIN a.unassemBuf)
         /\ Len(a.assemBuf) + a.unassemSize
              = Len(r.assemBuf) + StoredBytes(r.unassemBuf, DOMAIN r.unassemBuf)
         /\ \A x : x \in CoveredBy(r.unassemBuf) =>
                     x \in CoveredBy(a.unassemBuf) \/ (x \in Nat /\ x < a.expectIdx)
         /\ \A x : x \in CoveredBy(a.unassemBuf) => x \in CoveredBy(r.unassemBuf)
         /\ \A x \in Nat : r.expectIdx <= x /\ x < a.expectIdx =>
                     x \in CoveredBy(r.unassemBuf)
         /\ (Apart(r.unassemBuf) /\ \A k \in DOMAIN r.unassemBuf : r.expectIdx <= k)
              => /\ Apart(a.unassemBuf)
                 /\ \A k \in DOMAIN a.unassemBuf : a.expectIdx < k
<1> DEFINE m == r.unassemBuf
           e == r.expectIdx
           T == Contiguous(m, e)
           K == DOMAIN m \ T
           n == NextIdx(m, e)
           s == MergedString(m, T, e, n)
           a == assem(r)
<1>1. /\ n \in Nat /\ e <= n /\ n <= L
      /\ \A k \in T : k \in DOMAIN m /\ e <= k /\ EndOf(m, k) <= n
      /\ \A x \in Nat : e <= x /\ x < n =>
              \E k \in T : k <= x /\ x < EndOf(m, k)
  BY ContiguousCovers, Zenon
<1>2. a = [r EXCEPT !.unassemBuf = Entries(m, K), !.assemBuf = r.assemBuf \o s,
                    !.expectIdx = n, !.unassemSize = StoredBytes(m, K)]
  BY Zenon DEF assem, NextIdx
<1> HIDE DEF a, s, n, T
<1>3. /\ DOMAIN a = ReassemblerFields
      /\ a.output = r.output /\ a.capacity = r.capacity /\ a.eofIndex = r.eofIndex
      /\ a.unassemBuf = Entries(m, K) /\ a.assemBuf = r.assemBuf \o s
      /\ a.expectIdx = n /\ a.unassemSize = StoredBytes(m, K)
  BY <1>2, Zenon DEF ReassemblerFields
<1>4. T \in SUBSET DOMAIN m /\ K \in SUBSET DOMAIN m /\ T \cap K = {} /\ T \cup K = DOMAIN m
  BY <1>1, Zenon
<1>5. /\ DOMAIN Entries(m, K) = K
      /\ Spelt(Entries(m, K), L)
      /\ \A k \in K : EndOf(Entries(m, K), k) = EndOf(m, k)
      /\ StoredBytes(Entries(m, K), K) = StoredBytes(m, K)
  BY <1>4, EntriesSpelt
<1>6. SpeltAt(s, e, L) /\ Len(s) = n - e
  <2>1. Spelt(m, L) /\ e \in Nat
    OBVIOUS
  <2>2. \A x \in e .. n - 1 : \E k \in T : k <= x /\ x < EndOf(m, k)
    BY <1>1
  <2> HIDE DEF m, e
  <2> QED
    BY <2>1, <2>2, <1>1, <1>4, MergedIs DEF s
<1>7. /\ SpeltAt(r.assemBuf \o s, d, L)
      /\ Len(r.assemBuf \o s) = Len(r.assemBuf) + Len(s)
  <2> DEFINE b == r.assemBuf
  <2>1. SpeltAt(b, d, L) /\ SpeltAt(s, d + Len(b), L)
    BY <1>6, Zenon
  <2> HIDE DEF b
  <2>2. SpeltAt(b \o s, d, L) /\ Len(b \o s) = Len(b) + Len(s)
    BY <2>1, ConcatSpelt
  <2> QED
    BY <2>2, Zenon DEF b
<1>8. Len(r.assemBuf) \in Nat
  BY SpeltUnique, Zenon
<1>9. n = d + Len(r.assemBuf \o s)
  BY <1>1, <1>6, <1>7, <1>8
<1>10. StoredBytes(m, T) = n - e
  <2> DEFINE X == {x \in Nat : e <= x /\ x < n}
  <2>1. \A j, k \in T : j < k => EndOf(m, j) <= k
    BY ContiguousNext DEF T
  <2>2. \A k \in T : EndOf(m, k) \in Nat /\ k \in Nat
    BY <1>4, SpeltTypes, Zenon
  <2>3. \A x : x \in X <=> x \in Nat /\ \E k \in T : k <= x /\ x < EndOf(m, k)
    BY <1>1, <2>2
  <2>4. Cardinality(X) = StoredBytes(m, T)
    <3> HIDE DEF X
    <3> QED
      BY <1>4, <2>1, <2>3, CountCovered, Zenon
  <2>5. X = e .. n - 1
    BY <1>1
  <2>6. e \in Int /\ n - 1 \in Int
    BY <1>1
  <2>7. Cardinality(e .. n - 1) = IF e > n - 1 THEN 0 ELSE n - 1 - e + 1
    BY <2>6, FS_Interval, Zenon
  <2>8. Cardinality(X) = IF e > n - 1 THEN 0 ELSE n - 1 - e + 1
    <3> HIDE DEF X
    <3> QED
      BY <2>5, <2>7, Zenon
  <2> HIDE DEF X, m, e
  <2> QED
    BY <2>6, <2>4, <2>8, <1>1
<1>11. StoredBytes(m, DOMAIN m) = StoredBytes(m, T) + StoredBytes(m, K)
  <2>1. StoredBytes(m, T \cup K) = StoredBytes(m, T) + StoredBytes(m, K)
    BY <1>4, StoredSplit, Zenon
  <2> QED
    BY <2>1, <1>4, Zenon
<1>12. StoredBytes(m, K) \in Nat
  BY <1>4, CellsFinite, Zenon
<1>13. Len(r.assemBuf \o s) + StoredBytes(m, K)
         = Len(r.assemBuf) + StoredBytes(m, DOMAIN m)
  <2>1. e \in Nat /\ n \in Nat
    BY <1>1
  <2> HIDE DEF m, e, K
  <2> QED
    BY <2>1, <1>6, <1>7, <1>8, <1>10, <1>11, <1>12
<1>14. ASSUME NEW x, x \in CoveredBy(m)
       PROVE  x \in CoveredBy(Entries(m, K)) \/ (x \in Nat /\ x < n)
  <2>1. PICK k \in DOMAIN m : k <= x /\ x < EndOf(m, k) /\ x \in Nat
    BY <1>14, Zenon DEF CoveredBy
  <2>2. CASE k \in T
    <3>1. EndOf(m, k) <= n /\ EndOf(m, k) \in Nat
      BY <2>2, <1>1, SpeltTypes, Zenon
    <3> QED
      BY <3>1, <2>1, <1>1
  <2>3. CASE k \in K
    BY <2>1, <2>3, <1>5, Zenon DEF CoveredBy
  <2> QED
    BY <2>2, <2>3, Zenon
<1>15. ASSUME NEW x, x \in CoveredBy(Entries(m, K)) PROVE x \in CoveredBy(m)
  <2>1. PICK k \in K : k <= x /\ x < EndOf(Entries(m, K), k) /\ x \in Nat
    BY <1>15, <1>5, Zenon DEF CoveredBy
  <2> QED
    BY <2>1, <1>5, Zenon DEF CoveredBy
<1>16. ASSUME NEW x \in Nat, e <= x, x < n PROVE x \in CoveredBy(m)
  BY <1>16, <1>1, Zenon DEF CoveredBy
<1>17. ASSUME Apart(m), \A k \in DOMAIN m : e <= k
       PROVE  Apart(Entries(m, K)) /\ \A k \in K : n < k
  <2>1. Apart(Entries(m, K))
    BY <1>17, <1>5, Zenon DEF Apart
  <2>2. \A k \in K : n < k
    BY <1>17, ContiguousRest, Zenon DEF n, T
  <2> QED
    BY <2>1, <2>2, Zenon
<1>18. /\ n \in 0 .. L
       /\ StoredBytes(m, K) = StoredBytes(Entries(m, K), DOMAIN Entries(m, K))
  BY <1>1, <1>5
<1> HIDE DEF K
<1> QED
  BY <1>3, <1>1, <1>5, <1>7, <1>9, <1>13, <1>14, <1>15, <1>16, <1>17, <1>18, ZenonT(30) DEF a

-----------------------------------------------------------------------------
(* push_substring: the four phases together.                               *)

\* A string that lies in the stream, or is empty, is not put strictly inside a
\* stored one.
NotInside(m, data, index) ==
  Len(data) = 0 => \A k \in DOMAIN m : ~(k < index /\ index < EndOf(m, k))

\* pushUnassem changes the map only, and adds to it what the string covers from
\* expectIdx on.
LEMMA PushUnassemIs ==
  ASSUME NEW L \in Nat, NEW r, DOMAIN r = ReassemblerFields,
         Spelt(r.unassemBuf, L), r.expectIdx \in Nat,
         NEW index \in Nat, NEW data, SpeltAt(data, index, L)
  PROVE  LET p == pushUnassem(r, data, index) IN
         /\ DOMAIN p = ReassemblerFields
         /\ p.output = r.output /\ p.capacity = r.capacity
         /\ p.assemBuf = r.assemBuf /\ p.expectIdx = r.expectIdx
         /\ p.eofIndex = r.eofIndex
         /\ Spelt(p.unassemBuf, L)
         /\ \A x \in CoveredBy(p.unassemBuf) :
              x \in CoveredBy(r.unassemBuf)
                \/ (index <= x /\ x < index + Len(data) /\ r.expectIdx <= x)
         /\ \A x \in CoveredBy(r.unassemBuf) : x \in CoveredBy(p.unassemBuf)
         /\ \A x \in Nat : index <= x /\ x < index + Len(data) /\ r.expectIdx <= x
              => x \in CoveredBy(p.unassemBuf)
         /\ (/\ Apart(r.unassemBuf) /\ NotInside(r.unassemBuf, data, index)
             /\ \A k \in DOMAIN r.unassemBuf : r.expectIdx <= k)
            => /\ Apart(p.unassemBuf)
               /\ \A k \in DOMAIN p.unassemBuf : r.expectIdx <= k
<1> DEFINE m    == r.unassemBuf
           e    == r.expectIdx
           skip == IF index < e THEN e - index ELSE 0
           v    == index + skip
           str  == Suffix(data, skip)
           p    == pushUnassem(r, data, index)
<1>1. Len(data) \in Nat /\ index + Len(data) <= L
  BY SpeltUnique, Zenon DEF SpeltAt
<1>2. skip \in Nat /\ v \in Nat /\ e <= v /\ index <= v /\ (v = index \/ v = e)
  OBVIOUS
<1>3. CASE index + Len(data) <= e
  <2>1. p = r
    BY <1>3, Zenon DEF pushUnassem
  <2>2. \A x \in Nat : ~(x < index + Len(data) /\ e <= x)
    BY <1>1, <1>3
  <2> QED
    BY <2>1, <2>2, Zenon
<1>4. CASE ~(index + Len(data) <= e)
  <2>1. skip <= Len(data) /\ v + (Len(data) - skip) = index + Len(data)
    BY <1>1, <1>4
  <2>2. SpeltAt(str, v, L) /\ Len(str) = Len(data) - skip
    <3>1. skip \in Nat
      BY <1>2, Zenon
    <3> HIDE DEF skip
    <3> QED
      BY <3>1, <2>1, SuffixSpelt
  <2>3. v + Len(str) = index + Len(data) /\ Len(str) \in Nat
    BY <1>1, <1>2, <2>1, <2>2
  <2>4. Len(str) = 0 => Len(data) = 0 /\ v = index
    BY <1>1, <1>4, <2>3
  <2>5. p = IF v \in DOMAIN m /\ Len(m[v]) >= Len(str) THEN r
            ELSE [r EXCEPT !.unassemBuf = Merge(m, v, str)]
    BY <1>4, Zenon DEF pushUnassem
  <2>6. ASSUME NEW x \in Nat
        PROVE  x \in v .. v + Len(str) - 1
                 <=> index <= x /\ x < index + Len(data) /\ e <= x
    <3>1. v = IF index < e THEN e ELSE index
      BY DEF v
    <3>2. e \in Nat
      BY Zenon
    <3> HIDE DEF e, v
    <3> QED
      BY <3>1, <3>2, <1>1, <2>3
  <2> HIDE DEF skip, v, str, p
  <2>7. CASE v \in DOMAIN m /\ Len(m[v]) >= Len(str)
    <3>1. p = r
      BY <2>5, <2>7, Zenon
    <3>2. Len(m[v]) \in Nat /\ EndOf(m, v) = v + Len(m[v])
      BY <2>7, SpeltTypes
    <3>3. ASSUME NEW x \in Nat, index <= x, x < index + Len(data), e <= x
          PROVE  x \in CoveredBy(m)
      <4>1. x \in v .. v + Len(str) - 1
        BY <2>6, <3>3, Zenon
      <4>2. v <= x /\ x < EndOf(m, v)
        BY <4>1, <3>2, <2>3, <2>7, <1>2
      <4> QED
        BY <4>2, <2>7, Zenon DEF CoveredBy
    <3> QED
      BY <3>1, <3>3, Zenon DEF p
  <2>8. CASE ~(v \in DOMAIN m /\ Len(m[v]) >= Len(str))
    <3> DEFINE M == Merge(m, v, str)
    <3>1. p = [r EXCEPT !.unassemBuf = M]
      BY <2>5, <2>8, Zenon
    <3>2. v \in DOMAIN m => Len(m[v]) <= Len(str)
      BY <2>3, <2>8, SpeltTypes
    <3>3. /\ Spelt(M, L)
          /\ \A k \in DOMAIN M : k \in DOMAIN m \/ k = v
          /\ \A x : x \in CoveredBy(M)
                      <=> x \in CoveredBy(m) \/ x \in v .. v + Len(str) - 1
          /\ (Apart(m) /\ (Len(str) = 0 =>
                 \A k \in DOMAIN m : ~(k < v /\ v < EndOf(m, k))))
               => Apart(M)
      BY <1>2, <2>2, <3>2, MergeSpelt, Zenon
    <3> HIDE DEF M
    <3>4. /\ DOMAIN p = ReassemblerFields
          /\ p.output = r.output /\ p.capacity = r.capacity
          /\ p.assemBuf = r.assemBuf /\ p.expectIdx = r.expectIdx
          /\ p.eofIndex = r.eofIndex /\ p.unassemBuf = M
      BY <3>1, Zenon DEF ReassemblerFields
    <3>5. \A x \in CoveredBy(M) : x \in Nat
      BY Zenon DEF CoveredBy
    <3>6. NotInside(m, data, index) =>
            (Len(str) = 0 => \A k \in DOMAIN m : ~(k < v /\ v < EndOf(m, k)))
      BY <2>4, Zenon DEF NotInside
    <3> QED
      BY <1>2, <2>6, <3>3, <3>4, <3>5, <3>6, Zenon DEF p
  <2> QED
    BY <2>7, <2>8, Zenon
<1> QED
  BY <1>3, <1>4, Zenon

\* What writeStr makes of r.
Flushed(w, r, L, C, d) ==
  /\ DOMAIN w = ReassemblerFields
  /\ w.capacity = r.capacity /\ w.unassemBuf = r.unassemBuf
  /\ w.expectIdx = r.expectIdx /\ w.unassemSize = r.unassemSize
  /\ w.eofIndex = r.eofIndex
  /\ w.output \in ByteStreams(1 .. L, C) /\ Len(w.output.buf) <= C
  /\ SpeltAt(w.output.buf, d, L)
  /\ SpeltAt(w.assemBuf, d + Len(w.output.buf), L)
  /\ Len(w.output.buf) + Len(w.assemBuf) = Len(r.output.buf) + Len(r.assemBuf)
  /\ Len(w.assemBuf) <= Len(r.assemBuf)
  /\ w.output.total_bytes_written + Len(r.output.buf)
       = r.output.total_bytes_written + Len(w.output.buf)
  /\ w.output.total_bytes_read = r.output.total_bytes_read
  /\ w.output.is_end = r.output.is_end
  /\ r.output.is_end => w.output = r.output
  /\ ~r.output.is_end /\ Len(w.assemBuf) > 0 => Len(w.output.buf) = C

\* writeStr moves assembled bytes to the output until it is full, and keeps the
\* others: no byte is lost or reordered.
LEMMA WriteStrIs ==
  ASSUME NEW L \in Nat, NEW C \in Nat, NEW d \in Nat,
         NEW r, DOMAIN r = ReassemblerFields,
         r.output \in ByteStreams(1 .. L, C), Len(r.output.buf) <= C,
         SpeltAt(r.output.buf, d, L), SpeltAt(r.assemBuf, d + Len(r.output.buf), L)
  PROVE  Flushed(writeStr(r), r, L, C, d)
<1> DEFINE o == r.output
           b == r.assemBuf
           n == write_count(o, b)
           q == write(o, b)
           w == writeStr(r)
<1>1. /\ o.cap = C /\ o.buf \in Seq(1 .. L) /\ o.total_bytes_written \in Nat
      /\ o.total_bytes_read \in Nat /\ o.is_end \in BOOLEAN /\ o.error \in BOOLEAN
  BY Zenon DEF ByteStreams
<1>2. Len(o.buf) \in Nat /\ Len(b) \in Nat
  BY <1>1 DEF SpeltAt
<1>3. /\ n \in Nat /\ n <= Len(b) /\ Len(o.buf) + n <= C
      /\ o.is_end => n = 0
      /\ ~o.is_end /\ n < Len(b) => Len(o.buf) + n = C
  <2>1. n = IF o.is_end THEN 0 ELSE IF Len(b) <= C - Len(o.buf) THEN Len(b)
                                    ELSE C - Len(o.buf)
    BY <1>1, Zenon DEF write_count, remaining_capacity, Lesser
  <2> DEFINE lb == Len(b)
             lo == Len(o.buf)
             en == o.is_end
  <2>2. lb \in Nat /\ lo \in Nat /\ lo <= C
    BY <1>2, Zenon
  <2>3. n = IF en THEN 0 ELSE IF lb <= C - lo THEN lb ELSE C - lo
    BY <2>1, Zenon
  <2> HIDE DEF n, lb, lo, en
  <2>4. /\ n \in Nat /\ n <= lb /\ lo + n <= C
        /\ en => n = 0
        /\ ~en /\ n < lb => lo + n = C
    <3>1. CASE en
      BY <3>1, <2>2, <2>3
    <3>2. CASE ~en
      BY <3>2, <2>2, <2>3
    <3> QED
      BY <3>1, <3>2, Zenon
  <2> QED
    BY <2>4, Zenon DEF lb, lo, en
<1>4. /\ w = [r EXCEPT !.output = q, !.assemBuf = Suffix(b, n)]
      /\ q = [o EXCEPT !.buf = o.buf \o Prefix(b, n),
                       !.total_bytes_written = o.total_bytes_written + n]
  BY Zenon DEF writeStr, write
<1> HIDE DEF n, q, w
<1>5. /\ DOMAIN w = ReassemblerFields
      /\ w.capacity = r.capacity /\ w.unassemBuf = r.unassemBuf
      /\ w.expectIdx = r.expectIdx /\ w.unassemSize = r.unassemSize
      /\ w.eofIndex = r.eofIndex /\ w.output = q /\ w.assemBuf = Suffix(b, n)
  BY <1>4, Zenon DEF ReassemblerFields
<1>6. /\ q.buf = o.buf \o Prefix(b, n)
      /\ q.total_bytes_written = o.total_bytes_written + n
      /\ q.total_bytes_read = o.total_bytes_read /\ q.is_end = o.is_end
      /\ q.cap = o.cap /\ q.error = o.error
  BY <1>4, Zenon DEF ByteStreams
<1> DEFINE u == o.buf
           k == d + Len(u)
           t == o.buf \o Prefix(b, n)
<1>7. SpeltAt(u, d, L) /\ SpeltAt(b, k, L) /\ k \in Nat
  BY <1>2
<1>8. SpeltAt(Prefix(b, n), k, L) /\ Len(Prefix(b, n)) = n
  <2> HIDE DEF b, k
  <2> QED
    BY <1>3, <1>7, PrefixSpelt
<1>9. SpeltAt(Suffix(b, n), k + n, L) /\ Len(Suffix(b, n)) = Len(b) - n
  <2> HIDE DEF b, k
  <2> QED
    BY <1>3, <1>7, SuffixSpelt
<1>10. SpeltAt(t, d, L) /\ Len(t) = Len(u) + n
  <2> DEFINE z == Prefix(b, n)
  <2>1. SpeltAt(z, d + Len(u), L) /\ Len(z) = n
    BY <1>8, Zenon
  <2> HIDE DEF z, u
  <2>2. SpeltAt(u \o z, d, L) /\ Len(u \o z) = Len(u) + Len(z)
    BY <1>7, <2>1, ConcatSpelt
  <2> QED
    BY <2>1, <2>2, Zenon DEF z, u
<1> HIDE DEF t
<1>11. q \in ByteStreams(1 .. L, C)
  <2>1. t \in Seq(1 .. L)
    BY <1>10, Zenon DEF SpeltAt
  <2>2. o.total_bytes_written + n \in Nat
    BY <1>1, <1>3
  <2> QED
    BY <1>4, <1>1, <2>1, <2>2, Zenon DEF ByteStreams, t
<1>12. q.buf = t
  BY <1>6, Zenon DEF t
<1>13. ASSUME o.is_end PROVE q = o
  <2>1. n = 0
    BY <1>3, <1>13, Zenon
  <2>2. Prefix(b, 0) = << >>
    BY DEF Prefix
  <2>3. o.buf \o Prefix(b, 0) = o.buf
    <3> DEFINE v == o.buf
    <3>1. v \in Seq(1 .. L)
      BY <1>1, Zenon
    <3> HIDE DEF v
    <3>2. v \o << >> = v
      BY <3>1
    <3> QED
      BY <2>2, <3>2, Zenon DEF v
  <2>4. o.total_bytes_written + 0 = o.total_bytes_written
    BY <1>1
  <2> QED
    BY <1>4, <2>1, <2>3, <2>4, Zenon DEF ByteStreams
<1>14. k + n = d + Len(t) /\ Len(t) <= C
  BY <1>2, <1>3, <1>10
<1>15. SpeltAt(w.assemBuf, d + Len(w.output.buf), L) /\ Len(w.assemBuf) = Len(b) - n
  BY <1>5, <1>9, <1>12, <1>14, Zenon
<1>16. /\ Len(t) + (Len(b) - n) = Len(o.buf) + Len(b) /\ Len(b) - n <= Len(b)
       /\ (o.total_bytes_written + n) + Len(o.buf) = o.total_bytes_written + Len(t)
       /\ ~o.is_end /\ Len(b) - n > 0 => Len(t) = C
  <2>1. Len(b) - n > 0 => n < Len(b)
    BY <1>2, <1>3
  <2>2. ~o.is_end /\ Len(b) - n > 0 => Len(o.buf) + n = C
    BY <1>3, <2>1, Zenon
  <2>3. Len(t) = Len(o.buf) + n
    BY <1>10, Zenon
  <2> DEFINE lb == Len(b)
             lo == Len(o.buf)
             tw == o.total_bytes_written
             lt == Len(t)
  <2>4. lb \in Nat /\ lo \in Nat /\ tw \in Nat /\ lt = lo + n
    BY <1>1, <1>2, <2>3, Zenon
  <2> HIDE DEF lb, lo, tw, lt
  <2>5. lt + (lb - n) = lo + lb /\ lb - n <= lb /\ (tw + n) + lo = tw + lt
    BY <2>4, <1>3
  <2> QED
    BY <2>2, <2>3, <2>5, Zenon DEF lb, lo, tw, lt
<1> HIDE DEF o, b, u, k
<1>17. /\ w.output \in ByteStreams(1 .. L, C) /\ Len(w.output.buf) <= C
       /\ SpeltAt(w.output.buf, d, L)
  BY <1>5, <1>10, <1>11, <1>12, <1>14, Zenon
<1> QED
  BY <1>5, <1>6, <1>12, <1>13, <1>15, <1>16, <1>17, Zenon DEF w, o, b, Flushed

\* What is true of a reassembler of capacity C that is fed with strings of a
\* stream of L bytes, after d bytes have been read from its output: the output,
\* the assembled and the stored strings are what the stream has at their places.
Sound(r, L, C, d) ==
  /\ DOMAIN r = ReassemblerFields
  /\ r.output \in ByteStreams(1 .. L, C)
  /\ Len(r.output.buf) <= C
  /\ r.output.total_bytes_read = d
  /\ r.output.total_bytes_written = d + Len(r.output.buf)
  /\ r.capacity = C
  /\ Spelt(r.unassemBuf, L)
  /\ SpeltAt(r.output.buf, d, L)
  /\ SpeltAt(r.assemBuf, d + Len(r.output.buf), L)
  /\ r.expectIdx = d + Len(r.output.buf) + Len(r.assemBuf)
  /\ r.unassemSize = StoredBytes(r.unassemBuf, DOMAIN r.unassemBuf)
  /\ Len(r.assemBuf) + r.unassemSize <= C
  /\ r.eofIndex \in {NoEof, L}
  /\ r.output.is_end => d + Len(r.output.buf) = L

\* The stored strings do not overlap, and all of them lie beyond a gap.
Tidy(r) ==
  /\ Apart(r.unassemBuf)
  /\ \A k \in DOMAIN r.unassemBuf : r.expectIdx < k

\* The types that follow.
LEMMA SoundTypes ==
  ASSUME NEW L \in Nat, NEW C \in Nat, NEW d \in Nat, NEW r, Sound(r, L, C, d)
  PROVE  /\ Len(r.output.buf) \in Nat /\ Len(r.assemBuf) \in Nat
         /\ r.expectIdx \in 0 .. L /\ r.unassemSize \in Nat
         /\ r.output.is_end \in BOOLEAN
         /\ d + Len(r.output.buf) <= L
<1>1. Len(r.output.buf) \in Nat
  BY SpeltUnique, Zenon DEF Sound
<1>2. d + Len(r.output.buf) \in Nat
  BY <1>1
<1>3. Len(r.assemBuf) \in Nat
  BY <1>2, SpeltUnique, Zenon DEF Sound
<1>4. (d + Len(r.output.buf)) + Len(r.assemBuf) <= L
  BY Zenon DEF Sound, SpeltAt
<1>5. r.expectIdx \in 0 .. L /\ d + Len(r.output.buf) <= L
  <2>1. r.expectIdx = d + Len(r.output.buf) + Len(r.assemBuf)
    BY Zenon DEF Sound
  <2> DEFINE lb == Len(r.output.buf)
             la == Len(r.assemBuf)
             e  == r.expectIdx
  <2>2. lb \in Nat /\ la \in Nat /\ (d + lb) + la <= L /\ e = d + lb + la
    BY <2>1, <1>1, <1>3, <1>4, Zenon
  <2> HIDE DEF lb, la, e
  <2>3. e \in 0 .. L /\ d + lb <= L
    BY <2>2
  <2> QED
    BY <2>3, Zenon DEF lb, e
<1>6. r.unassemSize \in Nat
  <2>1. DOMAIN r.unassemBuf \in SUBSET DOMAIN r.unassemBuf
    BY Zenon
  <2> QED
    BY <2>1, CellsFinite DEF Sound
<1>7. r.output.is_end \in BOOLEAN
  BY Zenon DEF Sound, ByteStreams
<1> QED
  BY <1>1, <1>3, <1>5, <1>6, <1>7, Zenon

\* What push_substring makes of r before it calls fixCap.
Prepared(p, r, L, data, index, last) ==
  /\ DOMAIN p = ReassemblerFields
  /\ p.output = r.output /\ p.capacity = r.capacity
  /\ p.assemBuf = r.assemBuf /\ p.expectIdx = r.expectIdx
  /\ p.eofIndex = IF last THEN L ELSE r.eofIndex
  /\ Spelt(p.unassemBuf, L)
  /\ \A x \in CoveredBy(p.unassemBuf) :
       x \in CoveredBy(r.unassemBuf)
         \/ (index <= x /\ x < index + Len(data) /\ r.expectIdx <= x)
  /\ \A x \in CoveredBy(r.unassemBuf) : x \in CoveredBy(p.unassemBuf)
  /\ \A x \in Nat : index <= x /\ x < index + Len(data) /\ r.expectIdx <= x
       => x \in CoveredBy(p.unassemBuf)
  /\ Tidy(r) /\ NotInside(r.unassemBuf, data, index)
     => /\ Apart(p.unassemBuf)
        /\ \A k \in DOMAIN p.unassemBuf : r.expectIdx <= k

\* push_substring up to the call of fixCap.
LEMMA BeforeFixCapIs ==
  ASSUME NEW L \in Nat, NEW C \in Nat, NEW d \in Nat, NEW r, Sound(r, L, C, d),
         NEW index \in Nat, NEW data, SpeltAt(data, index, L),
         NEW last \in BOOLEAN, last => index + Len(data) = L
  PROVE  Prepared(BeforeFixCap(r, data, index, last), r, L, data, index, last)
<1> DEFINE b == [r EXCEPT !.eofIndex = IF last THEN index + Len(data) ELSE @]
           p == pushUnassem(b, data, index)
<1>1. DOMAIN r = ReassemblerFields
  BY Zenon DEF Sound
<1>2. /\ DOMAIN b = ReassemblerFields
      /\ b.output = r.output /\ b.capacity = r.capacity
      /\ b.assemBuf = r.assemBuf /\ b.expectIdx = r.expectIdx
      /\ b.unassemBuf = r.unassemBuf
      /\ b.eofIndex = IF last THEN index + Len(data) ELSE r.eofIndex
  BY <1>1, Zenon DEF ReassemblerFields
<1>3. BeforeFixCap(r, data, index, last) = p
  BY Zenon DEF BeforeFixCap
<1> HIDE DEF b
<1>4. Spelt(b.unassemBuf, L) /\ b.expectIdx \in Nat
  <2>1. Spelt(r.unassemBuf, L)
    BY Zenon DEF Sound
  <2>2. r.expectIdx \in 0 .. L
    BY SoundTypes, Zenon
  <2> QED
    BY <1>2, <2>1, <2>2
<1>5. /\ DOMAIN p = ReassemblerFields
      /\ p.output = b.output /\ p.capacity = b.capacity
      /\ p.assemBuf = b.assemBuf /\ p.expectIdx = b.expectIdx
      /\ p.eofIndex = b.eofIndex
      /\ Spelt(p.unassemBuf, L)
      /\ \A x \in CoveredBy(p.unassemBuf) :
           x \in CoveredBy(b.unassemBuf)
             \/ (index <= x /\ x < index + Len(data) /\ b.expectIdx <= x)
      /\ \A x \in CoveredBy(b.unassemBuf) : x \in CoveredBy(p.unassemBuf)
      /\ \A x \in Nat : index <= x /\ x < index + Len(data) /\ b.expectIdx <= x
           => x \in CoveredBy(p.unassemBuf)
      /\ (/\ Apart(b.unassemBuf) /\ NotInside(b.unassemBuf, data, index)
          /\ \A k \in DOMAIN b.unassemBuf : b.expectIdx <= k)
         => /\ Apart(p.unassemBuf)
            /\ \A k \in DOMAIN p.unassemBuf : b.expectIdx <= k
  BY <1>2, <1>4, PushUnassemIs, Zenon
<1>6. Tidy(r) => \A k \in DOMAIN r.unassemBuf : r.expectIdx <= k
  <2>1. r.expectIdx \in Nat /\ \A k \in DOMAIN r.unassemBuf : k \in Nat
    BY <1>2, <1>4 DEF Spelt
  <2> QED
    BY <2>1 DEF Tidy
<1> HIDE DEF p
<1>7. p.eofIndex = IF last THEN L ELSE r.eofIndex
  BY <1>2, <1>5, Zenon
<1> QED
  BY <1>2, <1>3, <1>5, <1>6, <1>7, Zenon DEF Tidy, Prepared

\* What push_substring makes of r.
Pushed(w, r, L, C, d, data, index, last) ==
  /\ Sound(w, L, C, d)
  /\ Len(r.output.buf) <= Len(w.output.buf) /\ r.expectIdx <= w.expectIdx
  /\ w.eofIndex = IF last THEN L ELSE r.eofIndex
  /\ w.output.is_end <=>
       r.output.is_end \/ (Len(w.assemBuf) = 0 /\ w.expectIdx = w.eofIndex)
  /\ Len(w.assemBuf) > 0 => Len(w.output.buf) = C
  /\ \A x \in CoveredBy(w.unassemBuf) :
       x \in CoveredBy(r.unassemBuf)
         \/ (index <= x /\ x < index + Len(data) /\ r.expectIdx <= x)
  /\ \A x \in Nat : r.expectIdx <= x /\ x < w.expectIdx =>
       x \in CoveredBy(r.unassemBuf)
         \/ (index <= x /\ x < index + Len(data))
  /\ Overflow(BeforeFixCap(r, data, index, last)) <= 0 =>
       \A x \in Nat :
         (x \in CoveredBy(r.unassemBuf)
            \/ (index <= x /\ x < index + Len(data) /\ r.expectIdx <= x))
         => x \in CoveredBy(w.unassemBuf) \/ x < w.expectIdx
  /\ Tidy(r) /\ NotInside(r.unassemBuf, data, index) => Tidy(w)

\* However a string of the stream comes, push_substring leaves a sound
\* reassembler.  It ends the output exactly when the end is known and every
\* byte is written; it keeps assembled bytes back only when the output is full;
\* what becomes stored or assembled was stored or is new, and nothing that was
\* stored or is new is lost unless fixCap finds more than the capacity.
LEMMA PushSound ==
  ASSUME NEW L \in Nat, NEW C \in Nat, NEW d \in Nat, NEW r, Sound(r, L, C, d),
         NEW index \in Nat, NEW data, SpeltAt(data, index, L),
         NEW last \in BOOLEAN, last => index + Len(data) = L
  PROVE  Pushed(push_substring(r, data, index, last), r, L, C, d, data, index, last)
<1> DEFINE p == BeforeFixCap(r, data, index, last)
           f == fixCap(p)
           a == assem(f)
           z == writeStr(a)
           w == push_substring(r, data, index, last)
           In(x) == index <= x /\ x < index + Len(data)
           lo == Len(r.output.buf)
<1>1. /\ lo \in Nat /\ Len(r.assemBuf) \in Nat
      /\ r.expectIdx \in 0 .. L /\ r.unassemSize \in Nat
      /\ r.output.is_end \in BOOLEAN
      /\ d + lo <= L
  BY SoundTypes, Zenon
<1>2. /\ DOMAIN p = ReassemblerFields
      /\ p.output = r.output /\ p.capacity = r.capacity
      /\ p.assemBuf = r.assemBuf /\ p.expectIdx = r.expectIdx
      /\ p.eofIndex = IF last THEN L ELSE r.eofIndex
      /\ Spelt(p.unassemBuf, L)
      /\ \A x \in CoveredBy(p.unassemBuf) :
           x \in CoveredBy(r.unassemBuf) \/ (In(x) /\ r.expectIdx <= x)
      /\ \A x \in CoveredBy(r.unassemBuf) : x \in CoveredBy(p.unassemBuf)
      /\ \A x \in Nat : In(x) /\ r.expectIdx <= x => x \in CoveredBy(p.unassemBuf)
      /\ Tidy(r) /\ NotInside(r.unassemBuf, data, index)
         => /\ Apart(p.unassemBuf)
            /\ \A k \in DOMAIN p.unassemBuf : r.expectIdx <= k
  <2>1. Prepared(p, r, L, data, index, last)
    BY BeforeFixCapIs, Zenon
  <2> HIDE DEF p
  <2> QED
    BY <2>1, Zenon DEF Prepared
<1>w. w = IF z.assemBuf = << >> /\ z.expectIdx = z.eofIndex
          THEN [z EXCEPT !.output = end_input(z.output)] ELSE z
  BY Zenon DEF push_substring
<1> HIDE DEF p, w
<1>3. /\ r.capacity = C /\ r.output \in ByteStreams(1 .. L, C) /\ lo <= C
      /\ SpeltAt(r.output.buf, d, L) /\ SpeltAt(r.assemBuf, d + lo, L)
      /\ r.expectIdx = d + lo + Len(r.assemBuf)
      /\ Len(r.assemBuf) + r.unassemSize <= C
      /\ r.eofIndex \in {NoEof, L}
      /\ r.output.is_end => d + lo = L
      /\ r.output.total_bytes_read = d /\ r.output.total_bytes_written = d + lo
  BY Zenon DEF Sound
<1>4. Len(p.assemBuf) \in Nat /\ p.capacity = C /\ Len(p.assemBuf) <= C
  BY <1>1, <1>2, <1>3
<1>5. /\ DOMAIN f = ReassemblerFields
      /\ f.output = p.output /\ f.capacity = p.capacity
      /\ f.assemBuf = p.assemBuf /\ f.expectIdx = p.expectIdx
      /\ f.eofIndex = p.eofIndex
      /\ Spelt(f.unassemBuf, L)
      /\ \A k \in DOMAIN f.unassemBuf : k \in DOMAIN p.unassemBuf
      /\ \A x \in CoveredBy(f.unassemBuf) : x \in CoveredBy(p.unassemBuf)
      /\ Overflow(p) <= 0 =>
           \A x \in CoveredBy(p.unassemBuf) : x \in CoveredBy(f.unassemBuf)
      /\ Apart(p.unassemBuf) => Apart(f.unassemBuf)
      /\ Len(p.assemBuf) + StoredBytes(f.unassemBuf, DOMAIN f.unassemBuf) <= p.capacity
  BY <1>2, <1>4, FixCapIs, Zenon
<1> HIDE DEF f
<1>6. /\ f.expectIdx \in 0 .. L /\ d + lo \in Nat
      /\ SpeltAt(f.assemBuf, d + lo, L) /\ f.expectIdx = (d + lo) + Len(f.assemBuf)
  <2>1. f.assemBuf = r.assemBuf /\ f.expectIdx = r.expectIdx
    BY <1>2, <1>5, Zenon
  <2>2. (d + lo) + Len(r.assemBuf) = d + lo + Len(r.assemBuf) /\ d + lo \in Nat
    BY <1>1
  <2> HIDE DEF lo
  <2> QED
    BY <2>1, <2>2, <1>1, <1>3, ZenonT(30)
<1>7. /\ DOMAIN a = ReassemblerFields
      /\ a.output = f.output /\ a.capacity = f.capacity /\ a.eofIndex = f.eofIndex
      /\ Spelt(a.unassemBuf, L)
      /\ a.expectIdx \in 0 .. L /\ f.expectIdx <= a.expectIdx
      /\ SpeltAt(a.assemBuf, d + lo, L) /\ a.expectIdx = (d + lo) + Len(a.assemBuf)
      /\ a.unassemSize = StoredBytes(a.unassemBuf, DOMAIN a.unassemBuf)
      /\ Len(a.assemBuf) + a.unassemSize
           = Len(f.assemBuf) + StoredBytes(f.unassemBuf, DOMAIN f.unassemBuf)
      /\ \A x : x \in CoveredBy(f.unassemBuf) =>
                  x \in CoveredBy(a.unassemBuf) \/ (x \in Nat /\ x < a.expectIdx)
      /\ \A x : x \in CoveredBy(a.unassemBuf) => x \in CoveredBy(f.unassemBuf)
      /\ \A x \in Nat : f.expectIdx <= x /\ x < a.expectIdx =>
                  x \in CoveredBy(f.unassemBuf)
      /\ (Apart(f.unassemBuf) /\ \A k \in DOMAIN f.unassemBuf : f.expectIdx <= k)
           => /\ Apart(a.unassemBuf)
              /\ \A k \in DOMAIN a.unassemBuf : a.expectIdx < k
  <2> DEFINE e == d + lo
  <2>1. e \in Nat /\ SpeltAt(f.assemBuf, e, L) /\ f.expectIdx = e + Len(f.assemBuf)
    BY <1>6, Zenon
  <2> HIDE DEF e
  <2> QED
    BY <2>1, <1>5, <1>6, AssemIs, Zenon DEF e
<1> HIDE DEF a
<1>8. /\ a.output \in ByteStreams(1 .. L, C) /\ Len(a.output.buf) <= C
      /\ SpeltAt(a.output.buf, d, L) /\ SpeltAt(a.assemBuf, d + Len(a.output.buf), L)
      /\ a.output = r.output
  BY <1>2, <1>3, <1>5, <1>7, Zenon
<1>9. /\ DOMAIN z = ReassemblerFields
      /\ z.capacity = a.capacity /\ z.unassemBuf = a.unassemBuf
      /\ z.expectIdx = a.expectIdx /\ z.unassemSize = a.unassemSize
      /\ z.eofIndex = a.eofIndex
      /\ z.output \in ByteStreams(1 .. L, C) /\ Len(z.output.buf) <= C
      /\ SpeltAt(z.output.buf, d, L)
      /\ SpeltAt(z.assemBuf, d + Len(z.output.buf), L)
      /\ Len(z.output.buf) + Len(z.assemBuf) = Len(a.output.buf) + Len(a.assemBuf)
      /\ Len(z.assemBuf) <= Len(a.assemBuf)
      /\ z.output.total_bytes_written + Len(a.output.buf)
           = a.output.total_bytes_written + Len(z.output.buf)
      /\ z.output.total_bytes_read = a.output.total_bytes_read
      /\ z.output.is_end = a.output.is_end
      /\ a.output.is_end => z.output = a.output
      /\ ~a.output.is_end /\ Len(z.assemBuf) > 0 => Len(z.output.buf) = C
  <2>1. Flushed(z, a, L, C, d)
    BY <1>7, <1>8, WriteStrIs, Zenon
  <2> HIDE DEF z
  <2> QED
    BY <2>1, Zenon DEF Flushed
<1> HIDE DEF z, In
<1> DEFINE Ends == z.assemBuf = << >> /\ z.expectIdx = z.eofIndex
           zo   == Len(z.output.buf)
           za   == Len(z.assemBuf)
<1>10. /\ zo \in Nat /\ za \in Nat /\ (Ends <=> za = 0 /\ z.expectIdx = z.eofIndex)
       /\ z.output.is_end \in BOOLEAN /\ z.output.total_bytes_written \in Nat
  <2>1. zo \in Nat
    BY <1>9, SpeltUnique, Zenon
  <2>2. d + zo \in Nat /\ z.assemBuf \in Seq(1 .. L)
    <3>1. z.assemBuf \in Seq(1 .. L)
      BY <1>9, Zenon DEF SpeltAt
    <3> HIDE DEF zo
    <3>2. d + zo \in Nat
      BY <2>1
    <3> QED
      BY <3>1, <3>2, Zenon
  <2>3. za \in Nat /\ (z.assemBuf = << >> <=> za = 0)
    BY <2>2
  <2>4. z.output.is_end \in BOOLEAN /\ z.output.total_bytes_written \in Nat
    BY <1>9, Zenon DEF ByteStreams
  <2> QED
    BY <2>1, <2>3, <2>4, Zenon
<1>11. /\ DOMAIN w = ReassemblerFields
       /\ w.capacity = z.capacity /\ w.unassemBuf = z.unassemBuf
       /\ w.assemBuf = z.assemBuf /\ w.expectIdx = z.expectIdx
       /\ w.unassemSize = z.unassemSize /\ w.eofIndex = z.eofIndex
       /\ w.output = IF Ends THEN end_input(z.output) ELSE z.output
  <2>1. CASE Ends
    <3>1. w = [z EXCEPT !.output = end_input(z.output)]
      BY <1>w, <2>1, Zenon
    <3> QED
      BY <3>1, <2>1, <1>9, Zenon DEF ReassemblerFields
  <2>2. CASE ~Ends
    BY <1>w, <2>2, <1>9, Zenon
  <2> QED
    BY <2>1, <2>2, Zenon
<1>12. /\ w.output \in ByteStreams(1 .. L, C) /\ w.output.buf = z.output.buf
       /\ w.output.total_bytes_read = z.output.total_bytes_read
       /\ w.output.total_bytes_written = z.output.total_bytes_written
       /\ w.output.is_end <=> z.output.is_end \/ Ends
  <2>1. CASE Ends
    <3>1. w.output = [z.output EXCEPT !.is_end = TRUE]
      BY <2>1, <1>11, Zenon DEF end_input
    <3> QED
      BY <3>1, <2>1, <1>9, Zenon DEF ByteStreams
  <2>2. CASE ~Ends
    BY <2>2, <1>9, <1>11, Zenon
  <2> QED
    BY <2>1, <2>2, Zenon
<1> HIDE DEF Ends
<1>13. Len(a.assemBuf) \in Nat /\ d + lo + Len(a.assemBuf) <= L
  BY <1>6, <1>7, SpeltUnique, Zenon DEF SpeltAt
<1>14. /\ z.output.is_end = r.output.is_end
       /\ zo + za = lo + Len(a.assemBuf) /\ za <= Len(a.assemBuf)
       /\ z.output.is_end => zo = lo
       /\ z.output.total_bytes_written + lo = d + lo + zo
       /\ z.output.total_bytes_read = d
       /\ z.expectIdx = (d + lo) + Len(a.assemBuf) /\ z.expectIdx \in 0 .. L
       /\ z.eofIndex = IF last THEN L ELSE r.eofIndex
       /\ za + z.unassemSize <= C /\ z.capacity = C /\ z.unassemSize \in Nat
  <2>1. z.output.is_end => zo = lo
    BY <1>8, <1>9, Zenon
  <2>2. /\ z.output.total_bytes_written + lo = d + lo + zo
        /\ z.output.total_bytes_read = d /\ z.output.is_end = r.output.is_end
        /\ zo + za = lo + Len(a.assemBuf) /\ za <= Len(a.assemBuf)
    BY <1>3, <1>8, <1>9, Zenon
  <2>3. /\ z.expectIdx = (d + lo) + Len(a.assemBuf) /\ z.expectIdx \in 0 .. L
        /\ z.eofIndex = IF last THEN L ELSE r.eofIndex
        /\ z.capacity = C
    BY <1>2, <1>3, <1>5, <1>7, <1>9, Zenon
  <2>4. z.unassemSize = StoredBytes(a.unassemBuf, DOMAIN a.unassemBuf)
    BY <1>7, <1>9, Zenon
  <2>5. z.unassemSize \in Nat
    <3>1. DOMAIN a.unassemBuf \in SUBSET DOMAIN a.unassemBuf
      BY Zenon
    <3>2. Spelt(a.unassemBuf, L)
      BY <1>7, Zenon
    <3>3. StoredBytes(a.unassemBuf, DOMAIN a.unassemBuf) \in Nat
      BY <3>1, <3>2, CellsFinite, Zenon
    <3> QED
      BY <2>4, <3>3, Zenon
  <2>6. Len(a.assemBuf) + z.unassemSize <= C
    BY <1>2, <1>3, <1>5, <1>7, <1>9, Zenon
  <2>7. za + z.unassemSize <= C
    <3> DEFINE k == Len(a.assemBuf)
               u == z.unassemSize
    <3>1. za \in Nat /\ k \in Nat /\ u \in Nat /\ za <= k /\ k + u <= C
      BY <2>2, <2>5, <2>6, <1>10, <1>13, Zenon
    <3> HIDE DEF za, k, u
    <3>2. za + u <= C
      BY <3>1
    <3> QED
      BY <3>2, Zenon DEF u
  <2> QED
    BY <2>1, <2>2, <2>3, <2>5, <2>7, ZenonT(30)
<1> HIDE DEF zo, za, lo
<1>15. /\ z.expectIdx = d + zo + za /\ lo <= zo
       /\ z.output.total_bytes_written = d + zo
       /\ z.eofIndex \in {NoEof, L}
       /\ (z.output.is_end \/ Ends) => d + zo = L
  <2> DEFINE la == Len(a.assemBuf)
             ze == z.expectIdx
             tw == z.output.total_bytes_written
  <2>a. /\ la \in Nat /\ ze = (d + lo) + la /\ tw \in Nat /\ tw + lo = d + lo + zo
        /\ zo + za = lo + la /\ za <= la /\ zo \in Nat /\ za \in Nat /\ lo \in Nat
    BY <1>1, <1>10, <1>13, <1>14, Zenon
  <2>b. ze = d + zo + za /\ lo <= zo /\ tw = d + zo
    <3> HIDE DEF la, ze, tw
    <3> QED
      BY <2>a
  <2>1. z.expectIdx = d + zo + za /\ lo <= zo
    BY <2>b, Zenon
  <2>2. z.output.total_bytes_written = d + zo
    BY <2>b, Zenon
  <2>3. z.eofIndex \in {NoEof, L}
    BY <1>3, <1>14, Zenon
  <2>4. z.output.is_end => d + zo = L
    BY <1>3, <1>14, Zenon
  <2>5. Ends => d + zo = L
    <3>1. Ends => za = 0 /\ z.expectIdx = z.eofIndex
      BY <1>10, Zenon
    <3>2. z.eofIndex # z.expectIdx \/ z.eofIndex = L
      BY <2>3, <1>14 DEF NoEof
    <3> QED
      BY <3>1, <3>2, <2>1, <1>10
  <2> QED
    BY <2>1, <2>2, <2>3, <2>4, <2>5, Zenon
<1>16. Sound(w, L, C, d)
  <2>1. /\ w.output \in ByteStreams(1 .. L, C) /\ Len(w.output.buf) <= C
        /\ SpeltAt(w.output.buf, d, L)
        /\ SpeltAt(w.assemBuf, d + Len(w.output.buf), L)
        /\ Len(w.output.buf) = zo /\ Len(w.assemBuf) = za
    BY <1>9, <1>11, <1>12, Zenon DEF zo, za
  <2>2. /\ Spelt(w.unassemBuf, L)
        /\ w.unassemSize = StoredBytes(w.unassemBuf, DOMAIN w.unassemBuf)
    BY <1>7, <1>9, <1>11, Zenon
  <2>3. /\ w.output.total_bytes_read = d /\ w.output.total_bytes_written = d + zo
        /\ w.capacity = C /\ w.expectIdx = d + zo + za
        /\ za + w.unassemSize <= C /\ w.eofIndex \in {NoEof, L}
        /\ w.output.is_end => d + zo = L
    BY <1>11, <1>12, <1>14, <1>15, Zenon
  <2> QED
    BY <1>11, <2>1, <2>2, <2>3, ZenonT(30) DEF Sound
<1>17. /\ Len(r.output.buf) <= Len(w.output.buf) /\ r.expectIdx <= w.expectIdx
       /\ w.eofIndex = IF last THEN L ELSE r.eofIndex
  <2>1. lo <= zo /\ r.expectIdx <= z.expectIdx
    BY <1>2, <1>5, <1>7, <1>9, <1>15, Zenon
  <2> QED
    BY <2>1, <1>11, <1>12, <1>14, Zenon DEF lo, zo
<1>18. w.output.is_end <=>
         r.output.is_end \/ (Len(w.assemBuf) = 0 /\ w.expectIdx = w.eofIndex)
  <2>1. Len(w.assemBuf) = za /\ w.expectIdx = z.expectIdx /\ w.eofIndex = z.eofIndex
    BY <1>11, Zenon DEF za
  <2>2. w.output.is_end <=> r.output.is_end \/ Ends
    BY <1>12, <1>14, Zenon
  <2> QED
    BY <2>1, <2>2, <1>10, Zenon
<1>19. Len(w.assemBuf) > 0 => Len(w.output.buf) = C
  <2>1. Len(w.assemBuf) = za /\ Len(w.output.buf) = zo
    BY <1>11, <1>12, Zenon DEF za, zo
  <2>2. CASE r.output.is_end
    <3> DEFINE la == Len(a.assemBuf)
    <3>a. la \in Nat /\ d + lo + la <= L /\ za <= la /\ za \in Nat /\ lo \in Nat
      BY <1>1, <1>10, <1>13, <1>14, ZenonT(30)
    <3>b. d + lo = L
      BY <2>2, <1>3, Zenon DEF lo
    <3>1. za = 0
      <4> HIDE DEF la
      <4> QED
        BY <3>a, <3>b
    <3> QED
      BY <3>1, <2>1
  <2>3. CASE ~r.output.is_end
    BY <2>1, <2>3, <1>8, <1>9, Zenon DEF za, zo
  <2> QED
    BY <2>2, <2>3, Zenon
<1>20. w.unassemBuf = a.unassemBuf /\ w.expectIdx = a.expectIdx /\ f.expectIdx = r.expectIdx
  BY <1>2, <1>5, <1>9, <1>11, Zenon
<1>21. \A x \in CoveredBy(w.unassemBuf) :
         x \in CoveredBy(r.unassemBuf) \/ (In(x) /\ r.expectIdx <= x)
  BY <1>2, <1>5, <1>7, <1>20, Zenon
<1>22. \A x \in Nat : r.expectIdx <= x /\ x < w.expectIdx =>
         x \in CoveredBy(r.unassemBuf) \/ In(x)
  BY <1>2, <1>5, <1>7, <1>20, ZenonT(30)
<1>23. Overflow(p) <= 0 =>
         \A x \in Nat :
           (x \in CoveredBy(r.unassemBuf) \/ (In(x) /\ r.expectIdx <= x))
           => x \in CoveredBy(w.unassemBuf) \/ x < w.expectIdx
  BY <1>2, <1>5, <1>7, <1>20, ZenonT(30)
<1>24. Tidy(r) /\ NotInside(r.unassemBuf, data, index) => Tidy(w)
  <2> SUFFICES ASSUME Tidy(r), NotInside(r.unassemBuf, data, index) PROVE Tidy(w)
    BY Zenon
  <2>1. Apart(p.unassemBuf) /\ \A k \in DOMAIN p.unassemBuf : r.expectIdx <= k
    BY <1>2, Zenon
  <2>2. Apart(f.unassemBuf) /\ \A k \in DOMAIN f.unassemBuf : f.expectIdx <= k
    BY <2>1, <1>5, <1>20, ZenonT(30)
  <2>3. Apart(a.unassemBuf) /\ \A k \in DOMAIN a.unassemBuf : a.expectIdx < k
    BY <2>2, <1>7, Zenon
  <2> QED
    BY <2>3, <1>20, Zenon DEF Tidy
<1> QED
  BY <1>16, <1>17, <1>18, <1>19, <1>21, <1>22, <1>23, <1>24, Zenon DEF Pushed, w, p, In

\* Strings that do not overlap hold no more bytes than there are indices between
\* the first key and the highest index stored.
LEMMA StoredBelow ==
  ASSUME NEW L \in Nat, NEW m, Spelt(m, L), Apart(m),
         NEW e \in Nat, NEW lim \in Nat, e <= lim,
         \A k \in DOMAIN m : e <= k, \A x \in CoveredBy(m) : x < lim
  PROVE  StoredBytes(m, DOMAIN m) \in Nat /\ StoredBytes(m, DOMAIN m) <= lim - e
<1> DEFINE X == CoveredBy(m)
           T == StoredBytes(m, DOMAIN m)
<1>1. Cardinality(X) = T
  <2>1. DOMAIN m \in SUBSET DOMAIN m
    BY Zenon
  <2>2. \A x : x \in X <=> x \in Nat /\ \E k \in DOMAIN m : k <= x /\ x < EndOf(m, k)
    BY Zenon DEF CoveredBy
  <2>3. \A j, k \in DOMAIN m : j < k => EndOf(m, j) <= k
    BY Zenon DEF Apart
  <2> HIDE DEF X
  <2> QED
    BY <2>1, <2>2, <2>3, CountCovered, Zenon
<1>2. X \subseteq e .. lim - 1
  <2>1. ASSUME NEW x \in X PROVE x \in e .. lim - 1
    <3>1. PICK k \in DOMAIN m : k <= x /\ x \in Nat
      BY Zenon DEF CoveredBy
    <3>2. e <= k /\ k \in Nat
      BY DEF Spelt
    <3>3. x < lim
      BY Zenon
    <3> QED
      BY <3>1, <3>2, <3>3
  <2> QED
    BY <2>1, Zenon
<1>3. e \in Int /\ lim - 1 \in Int
  OBVIOUS
<1>4. /\ IsFiniteSet(e .. lim - 1)
      /\ Cardinality(e .. lim - 1) = IF e > lim - 1 THEN 0 ELSE lim - 1 - e + 1
  BY <1>3, FS_Interval, Zenon
<1>5. Cardinality(X) <= Cardinality(e .. lim - 1)
  <2> HIDE DEF X
  <2> QED
    BY <1>2, <1>4, FS_Subset, Zenon
<1>6. T \in Nat
  <2>1. DOMAIN m \in SUBSET DOMAIN m
    BY Zenon
  <2> QED
    BY <2>1, CellsFinite, Zenon
<1> DEFINE cx == Cardinality(X)
           ci == Cardinality(e .. lim - 1)
<1>7. /\ cx = T /\ cx <= ci
      /\ ci = IF e > lim - 1 THEN 0 ELSE lim - 1 - e + 1
  BY <1>1, <1>4, <1>5, Zenon
<1> HIDE DEF cx, ci, T
<1>8. T <= lim - e
  BY <1>6, <1>7
<1> QED
  BY <1>6, <1>8, Zenon DEF T

\* So fixCap finds no more than the room between expectIdx and that index.
LEMMA OverflowBound ==
  ASSUME NEW L \in Nat, NEW C \in Nat, NEW d \in Nat, NEW r, Sound(r, L, C, d),
         NEW index \in Nat, NEW data, SpeltAt(data, index, L),
         NEW last \in BOOLEAN, last => index + Len(data) = L,
         Tidy(r), NotInside(r.unassemBuf, data, index),
         NEW lim \in Nat, r.expectIdx <= lim,
         \A x \in CoveredBy(r.unassemBuf) : x < lim,
         \A x \in Nat : index <= x /\ x < index + Len(data) => x < lim
  PROVE  Overflow(BeforeFixCap(r, data, index, last))
           <= Len(r.assemBuf) + (lim - r.expectIdx) - C
<1> DEFINE p == BeforeFixCap(r, data, index, last)
           m == p.unassemBuf
           e == r.expectIdx
           T == StoredBytes(m, DOMAIN m)
           la == Len(r.assemBuf)
<1>1. Prepared(p, r, L, data, index, last)
  BY BeforeFixCapIs
<1> HIDE DEF p
<1>2. /\ Spelt(m, L) /\ p.assemBuf = r.assemBuf /\ p.capacity = r.capacity
      /\ \A x \in CoveredBy(m) :
           x \in CoveredBy(r.unassemBuf)
             \/ (index <= x /\ x < index + Len(data) /\ r.expectIdx <= x)
      /\ Apart(m) /\ \A k \in DOMAIN m : e <= k
  BY <1>1, Zenon DEF Prepared
<1>3. e \in Nat /\ e <= lim /\ la \in Nat /\ r.capacity = C
  <2>1. r.capacity = C
    BY Zenon DEF Sound
  <2> QED
    BY <2>1, SoundTypes
<1>4. \A x \in CoveredBy(m) : x \in Nat
  BY Zenon DEF CoveredBy
<1>5. \A x \in CoveredBy(m) : x < lim
  BY <1>2, <1>4, Zenon
<1>6. Overflow(p) = la + T - C
  BY <1>2, <1>3, Zenon DEF Overflow
<1> HIDE DEF m, e
<1>7. T \in Nat /\ T <= lim - e
  BY <1>2, <1>3, <1>5, StoredBelow, Zenon
<1> HIDE DEF T, la
<1>8. la + T - C <= la + (lim - e) - C
  BY <1>3, <1>7
<1> QED
  BY <1>6, <1>8, Zenon DEF p, e, la

\* What a reader takes from the output: the next bytes of the stream.
LEMMA PopSound ==
  ASSUME NEW L \in Nat, NEW C \in Nat, NEW d \in Nat, NEW r, Sound(r, L, C, d),
         NEW n \in Nat, n <= Len(r.output.buf)
  PROVE  LET s == [r EXCEPT !.output = pop_output(r.output, n)] IN
         /\ Sound(s, L, C, d + n)
         /\ SpeltAt(peek_output(r.output, n), d, L)
         /\ Len(peek_output(r.output, n)) = n
         /\ s.unassemBuf = r.unassemBuf /\ s.assemBuf = r.assemBuf
         /\ s.expectIdx = r.expectIdx /\ s.eofIndex = r.eofIndex
         /\ s.unassemSize = r.unassemSize
         /\ s.output.is_end = r.output.is_end
         /\ Len(s.output.buf) = Len(r.output.buf) - n
<1> DEFINE o == r.output
           q == pop_output(o, n)
           s == [r EXCEPT !.output = q]
           b == Suffix(o.buf, n)
<1>1. /\ Len(o.buf) \in Nat /\ Len(r.assemBuf) \in Nat
      /\ r.expectIdx \in 0 .. L /\ r.unassemSize \in Nat
      /\ o.is_end \in BOOLEAN /\ d + Len(o.buf) <= L
  BY SoundTypes, Zenon
<1>2. /\ o \in ByteStreams(1 .. L, C) /\ Len(o.buf) <= C
      /\ o.total_bytes_read = d /\ o.total_bytes_written = d + Len(o.buf)
      /\ SpeltAt(o.buf, d, L) /\ SpeltAt(r.assemBuf, d + Len(o.buf), L)
      /\ r.expectIdx = d + Len(o.buf) + Len(r.assemBuf)
      /\ DOMAIN r = ReassemblerFields
      /\ o.is_end => d + Len(o.buf) = L
  BY Zenon DEF Sound
<1>3. Lesser(n, Len(o.buf)) = n
  BY Zenon DEF Lesser
<1>4. SpeltAt(b, d + n, L) /\ Len(b) = Len(o.buf) - n
  <2> DEFINE u == o.buf
  <2>1. SpeltAt(u, d, L) /\ n <= Len(u)
    BY <1>2, Zenon
  <2> HIDE DEF u
  <2>2. SpeltAt(Suffix(u, n), d + n, L) /\ Len(Suffix(u, n)) = Len(u) - n
    BY <2>1, SuffixSpelt
  <2> QED
    BY <2>2, Zenon DEF u
<1>5. /\ SpeltAt(peek_output(o, n), d, L) /\ Len(peek_output(o, n)) = n
  <2> DEFINE u == o.buf
  <2>1. SpeltAt(u, d, L) /\ n <= Len(u)
    BY <1>2, Zenon
  <2> HIDE DEF u
  <2>2. SpeltAt(Prefix(u, n), d, L) /\ Len(Prefix(u, n)) = n
    BY <2>1, PrefixSpelt
  <2> QED
    BY <2>2, <1>3, Zenon DEF u, peek_output
<1>6. q = [o EXCEPT !.buf = b, !.total_bytes_read = d + n]
  BY <1>2, <1>3, Zenon DEF pop_output
<1> HIDE DEF q, b
<1>7. /\ DOMAIN s = ReassemblerFields /\ s.output = q /\ s.capacity = r.capacity
      /\ s.unassemBuf = r.unassemBuf /\ s.assemBuf = r.assemBuf
      /\ s.expectIdx = r.expectIdx /\ s.eofIndex = r.eofIndex
      /\ s.unassemSize = r.unassemSize
  BY <1>2, Zenon DEF ReassemblerFields
<1>8. /\ q \in ByteStreams(1 .. L, C) /\ q.buf = b /\ q.total_bytes_read = d + n
      /\ q.total_bytes_written = o.total_bytes_written /\ q.is_end = o.is_end
  <2>1. b \in Seq(1 .. L) /\ d + n \in Nat
    BY <1>4 DEF SpeltAt
  <2> QED
    BY <1>2, <1>6, <2>1, Zenon DEF ByteStreams
<1> HIDE DEF s
<1>9. d + n + Len(b) = d + Len(o.buf) /\ Len(b) <= C
  <2> DEFINE lb == Len(b)
             lo == Len(o.buf)
  <2>1. lb = lo - n /\ lo \in Nat /\ n <= lo /\ lo <= C
    BY <1>1, <1>2, <1>4, Zenon
  <2> HIDE DEF lb, lo
  <2>2. d + n + lb = d + lo /\ lb <= C
    BY <2>1
  <2> QED
    BY <2>2, Zenon DEF lb, lo
<1>10. Sound(s, L, C, d + n)
  <2>1. /\ Spelt(r.unassemBuf, L) /\ r.capacity = C
        /\ r.unassemSize = StoredBytes(r.unassemBuf, DOMAIN r.unassemBuf)
        /\ Len(r.assemBuf) + r.unassemSize <= C /\ r.eofIndex \in {NoEof, L}
    BY Zenon DEF Sound
  <2>2. /\ s.output.total_bytes_written = d + n + Len(b)
        /\ SpeltAt(s.assemBuf, d + n + Len(b), L)
        /\ s.expectIdx = d + n + Len(b) + Len(s.assemBuf)
        /\ s.output.is_end => d + n + Len(b) = L
    BY <1>2, <1>7, <1>8, <1>9, Zenon
  <2> QED
    BY <1>4, <1>7, <1>8, <1>9, <2>1, <2>2, Zenon DEF Sound
<1> QED
  BY <1>4, <1>5, <1>7, <1>8, <1>10, Zenon DEF s, q

\* A new reassembler is sound.
LEMMA NewSound ==
  ASSUME NEW L \in Nat, NEW C \in Nat
  PROVE  Sound(NewStreamReassembler(C), L, C, 0) /\ Tidy(NewStreamReassembler(C))
<1> DEFINE r == NewStreamReassembler(C)
<1>1. /\ DOMAIN r = ReassemblerFields /\ r.output = NewByteStream(C)
      /\ r.capacity = C /\ r.assemBuf = << >> /\ r.expectIdx = 0
      /\ r.unassemSize = 0 /\ r.eofIndex = NoEof
      /\ DOMAIN r.unassemBuf = {}
  BY Zenon DEF NewStreamReassembler, ReassemblerFields
<1>2. /\ << >> \in Seq(1 .. L) /\ Len(<< >>) = 0
  OBVIOUS
<1>3. /\ NewByteStream(C) \in ByteStreams(1 .. L, C) /\ NewByteStream(C).buf = << >>
      /\ NewByteStream(C).total_bytes_read = 0
      /\ NewByteStream(C).total_bytes_written = 0 /\ NewByteStream(C).is_end = FALSE
  BY DEF NewByteStream, ByteStreams
<1>4. SpeltAt(<< >>, 0, L)
  BY <1>2 DEF SpeltAt
<1> HIDE DEF r
<1>5. Spelt(r.unassemBuf, L)
  BY <1>1, Zenon DEF Spelt
<1>6. StoredBytes(r.unassemBuf, DOMAIN r.unassemBuf) = 0
  <2>1. UNION {{k} \X (1 .. Len(r.unassemBuf[k])) : k \in DOMAIN r.unassemBuf} = {}
    BY <1>1, Zenon
  <2>2. StoredBytes(r.unassemBuf, DOMAIN r.unassemBuf) = Cardinality({})
    BY <2>1, Zenon DEF StoredBytes
  <2> QED
    BY <2>2, FS_EmptySet, Zenon
<1>7. Sound(r, L, C, 0)
  BY <1>1, <1>2, <1>3, <1>4, <1>5, <1>6 DEF Sound
<1>8. Tidy(r)
  BY <1>1, Zenon DEF Tidy, Apart
<1> QED
  BY <1>7, <1>8, Zenon DEF r

-----------------------------------------------------------------------------
(* The stream whose bytes are named by their places.                       *)

\* Two strings at one place that have one length are one.
LEMMA SpeltEqual ==
  ASSUME NEW L \in Nat, NEW k \in Nat, NEW s, NEW t,
         SpeltAt(s, k, L), SpeltAt(t, k, L), Len(s) = Len(t)
  PROVE  s = t
<1>1. s = [p \in 1 .. Len(s) |-> k + p] /\ t = [p \in 1 .. Len(t) |-> k + p]
  BY SpeltUnique
<1> QED
  BY <1>1, Zenon

\* The whole stream is a string of itself.
LEMMA StreamSpelt ==
  ASSUME NEW L \in Nat
  PROVE  /\ SpeltAt([i \in 1 .. L |-> i], 0, L)
         /\ Len([i \in 1 .. L |-> i]) = L
<1> DEFINE s == [i \in 1 .. L |-> i]
<1>1. s \in Seq(1 .. L) /\ Len(s) = L
  <2>1. s \in [1 .. L -> 1 .. L]
    BY Zenon
  <2> QED
    BY <2>1
<1> QED
  BY <1>1 DEF SpeltAt

\* A piece of the stream.
LEMMA SliceSpelt ==
  ASSUME NEW L \in Nat, NEW k \in Nat, NEW n \in Nat, k + n <= L
  PROVE  /\ SpeltAt(SubSeq([i \in 1 .. L |-> i], k + 1, k + n), k, L)
         /\ Len(SubSeq([i \in 1 .. L |-> i], k + 1, k + n)) = n
<1> DEFINE s == [i \in 1 .. L |-> i]
           t == SubSeq(s, k + 1, k + n)
<1>1. s \in Seq(1 .. L) /\ Len(s) = L
  BY StreamSpelt, Zenon DEF SpeltAt
<1>2. \A i \in 1 .. L : s[i] = i
  BY Zenon
<1>3. \A i \in k + 1 .. k + n : i \in 1 .. L
  OBVIOUS
<1> HIDE DEF s
<1>4. /\ t \in Seq(1 .. L) /\ Len(t) = n
      /\ \A p \in 1 .. n : t[p] = s[k + p]
  <2>1. \A i \in k + 1 .. k + n : s[i] \in 1 .. L
    BY <1>2, <1>3, Zenon
  <2>2. /\ k + 1 \in Int /\ k + n \in Int
        /\ (k + n) - (k + 1) + 1 = n
        /\ \A p \in 1 .. n : (k + 1) + p - 1 = k + p
    OBVIOUS
  <2> QED
    BY <1>1, <2>1, <2>2
<1>5. \A p \in 1 .. n : t[p] = k + p
  <2>1. \A p \in 1 .. n : k + p \in 1 .. L
    OBVIOUS
  <2> QED
    BY <2>1, <1>2, <1>4, Zenon
<1> QED
  BY <1>4, <1>5, Zenon DEF SpeltAt, s

-----------------------------------------------------------------------------
(* The StreamReassembler that is fed with substrings of one stream, for    *)
(* every length and every capacity: what each method does, carried along   *)
(* a behaviour.                                                            *)

\* The inductive invariant: the object is sound for the number of bytes read, the
\* bytes read are the first of the stream, and, unless an empty substring may
\* fall inside a stored one, the stored strings do not overlap and lie beyond a
\* gap.
Assembling ==
  /\ bytes_read \in Seq(Bytes)
  /\ SpeltAt(bytes_read, 0, StreamLength)
  /\ Sound(reassembler, StreamLength, Capacity, Len(bytes_read))
  /\ died \in BOOLEAN
  /\ EmptyInside \/ Tidy(reassembler)

\* The stream and a piece of it, as OperatorProofs writes them.
LEMMA SubstringPieces ==
  /\ Len(LogicalStream) = StreamLength /\ SpeltAt(LogicalStream, 0, StreamLength)
  /\ \A index, len \in Nat : index + len <= StreamLength =>
       /\ SpeltAt(SubSeq(LogicalStream, index + 1, index + len),
                  index, StreamLength)
       /\ Len(SubSeq(LogicalStream, index + 1, index + len)) = len
<1>1. LogicalStream = [i \in 1 .. StreamLength |-> i]
  BY Zenon DEF LogicalStream, Bytes
<1>2. Len(LogicalStream) = StreamLength /\ SpeltAt(LogicalStream, 0, StreamLength)
  BY <1>1, StreamSpelt, StreamLengthAssumption, Zenon
<1>3. ASSUME NEW index \in Nat, NEW len \in Nat, index + len <= StreamLength
      PROVE  /\ SpeltAt(SubSeq(LogicalStream, index + 1, index + len),
                        index, StreamLength)
             /\ Len(SubSeq(LogicalStream, index + 1, index + len)) = len
  BY <1>1, <1>3, SliceSpelt, StreamLengthAssumption, Zenon
<1> QED
  BY <1>2, <1>3, Zenon

\* It holds of a new object.
LEMMA InitAssembling == ReassemblerInit => Assembling
<1> SUFFICES ASSUME ReassemblerInit PROVE Assembling
  BY Zenon
<1>1. /\ reassembler = NewStreamReassembler(Capacity)
      /\ bytes_read = << >> /\ died = FALSE
  BY Zenon DEF ReassemblerInit
<1>2. << >> \in Seq(Bytes) /\ Len(<< >>) = 0 /\ << >> \in Seq(1 .. StreamLength)
  OBVIOUS
<1>3. SpeltAt(<< >>, 0, StreamLength)
  BY <1>2, StreamLengthAssumption DEF SpeltAt
<1>4. Sound(reassembler, StreamLength, Capacity, 0) /\ Tidy(reassembler)
  BY <1>1, NewSound, StreamLengthAssumption, CapacityAssumption, Zenon
<1> QED
  BY <1>1, <1>2, <1>3, <1>4, Zenon DEF Assembling

\* A substring keeps it.
LEMMA PushAssembling ==
  ASSUME Assembling, NEW index \in 0 .. Len(LogicalStream),
         NEW len \in 0 .. Len(LogicalStream), NEW last \in BOOLEAN,
         Push(index, len, last)
  PROVE  Assembling'
<1> DEFINE data == SubSeq(LogicalStream, index + 1, index + len)
           w    == push_substring(reassembler, data, index, last)
           d    == Len(bytes_read)
<1>1. /\ index + len <= Len(LogicalStream)
      /\ (last => index + len = Len(LogicalStream))
      /\ (len = 0 /\ FallsInside(index) => EmptyInside)
      /\ reassembler' = w
      /\ died' \in {FALSE, FixCapRunsOff(BeforeFixCap(reassembler, data, index, last))}
      /\ bytes_read' = bytes_read
  BY Zenon DEF Push
<1>2. Len(LogicalStream) = StreamLength /\ index \in Nat /\ len \in Nat
  BY SubstringPieces, StreamLengthAssumption
<1>3. SpeltAt(data, index, StreamLength) /\ Len(data) = len
  BY <1>1, <1>2, SubstringPieces, Zenon
<1>4. /\ Sound(reassembler, StreamLength, Capacity, d)
      /\ d \in Nat /\ StreamLength \in Nat /\ Capacity \in Nat
  BY StreamLengthAssumption, CapacityAssumption DEF Assembling
<1>5. last => index + Len(data) = StreamLength
  BY <1>1, <1>2, <1>3, Zenon
<1> HIDE DEF data, d
<1>6. Pushed(w, reassembler, StreamLength, Capacity, d, data, index, last)
  BY <1>2, <1>3, <1>4, <1>5, PushSound
<1> HIDE DEF w
<1>7. /\ Sound(w, StreamLength, Capacity, d)
      /\ Tidy(reassembler) /\ NotInside(reassembler.unassemBuf, data, index) => Tidy(w)
  BY <1>6, Zenon DEF Pushed
<1>8. EmptyInside \/ Tidy(w)
  <2>1. ~EmptyInside => NotInside(reassembler.unassemBuf, data, index)
    BY <1>1, <1>3, Zenon DEF NotInside, FallsInside
  <2> QED
    BY <2>1, <1>7, Zenon DEF Assembling
<1>9. died' \in BOOLEAN
  BY <1>1, Zenon DEF FixCapRunsOff
<1> QED
  BY <1>1, <1>7, <1>8, <1>9, Zenon DEF Assembling, d

\* The reader keeps it.
LEMMA PopAssembling ==
  ASSUME Assembling, NEW len \in 1 .. Capacity, PopOutput(len)
  PROVE  Assembling'
<1> DEFINE d == Len(bytes_read)
           s == [reassembler EXCEPT !.output = pop_output(reassembler.output, len)]
           t == peek_output(reassembler.output, len)
<1>1. /\ len <= Len(reassembler.output.buf) /\ reassembler' = s
      /\ bytes_read' = bytes_read \o t /\ died' = died
  BY Zenon DEF PopOutput, buffer_size
<1>2. /\ Sound(reassembler, StreamLength, Capacity, d)
      /\ d \in Nat /\ StreamLength \in Nat /\ Capacity \in Nat
      /\ len \in Nat
  BY StreamLengthAssumption, CapacityAssumption DEF Assembling
<1> HIDE DEF d
<1>3. /\ Sound(s, StreamLength, Capacity, d + len)
      /\ SpeltAt(t, d, StreamLength) /\ Len(t) = len
      /\ s.unassemBuf = reassembler.unassemBuf /\ s.expectIdx = reassembler.expectIdx
  <2>1. len <= Len(reassembler.output.buf)
    BY <1>1, Zenon
  <2> QED
    BY <1>2, <2>1, PopSound
<1> HIDE DEF s, t
<1>4. SpeltAt(bytes_read \o t, 0, StreamLength) /\ Len(bytes_read \o t) = d + len
  <2>1. SpeltAt(bytes_read, 0, StreamLength) /\ SpeltAt(t, 0 + d, StreamLength)
    BY <1>2, <1>3 DEF Assembling
  <2> QED
    BY <2>1, <1>2, <1>3, ConcatSpelt DEF d
<1>5. bytes_read \o t \in Seq(Bytes)
  BY <1>4, Zenon DEF SpeltAt, Bytes
<1>6. EmptyInside \/ Tidy(s)
  BY <1>3, Zenon DEF Assembling, Tidy
<1>7. died' \in BOOLEAN
  BY <1>1, Zenon DEF Assembling
<1> QED
  BY <1>1, <1>3, <1>4, <1>5, <1>6, <1>7, Zenon DEF Assembling

\* So every step does.
LEMMA StepAssembling == Assembling /\ [ReassemblerNext]_reassemblerVars => Assembling'
<1> SUFFICES ASSUME Assembling, [ReassemblerNext]_reassemblerVars PROVE Assembling'
  BY Zenon
<1>1. ASSUME NEW index \in 0 .. Len(LogicalStream),
             NEW len \in 0 .. Len(LogicalStream), NEW last \in BOOLEAN,
             Push(index, len, last)
      PROVE  Assembling'
  BY <1>1, PushAssembling, Zenon
<1>2. ASSUME NEW len \in 1 .. Capacity, PopOutput(len) PROVE Assembling'
  BY <1>2, PopAssembling, Zenon
<1>3. CASE UNCHANGED reassemblerVars
  BY <1>3, Zenon DEF Assembling, reassemblerVars
<1> QED
  BY <1>1, <1>2, <1>3, Zenon DEF ReassemblerNext

\* The invariant holds throughout.
LEMMA AlwaysAssembling == ReassemblerSpec => []Assembling
  BY InitAssembling, StepAssembling, PTL DEF ReassemblerSpec

-----------------------------------------------------------------------------
\* The bytes that left, wait in the output and wait for room are the first
\* expectIdx bytes of the stream, and the output ends only after the last one:
\* whatever was pushed, an empty substring inside a stored one included.
THEOREM IntegrityCorrect == ReassemblerSpec => []Integrity
<1>1. Assembling => Integrity
  <2> SUFFICES ASSUME Assembling PROVE Integrity
    BY Zenon
  <2> DEFINE d == Len(bytes_read)
             b == reassembler.output.buf
             a == reassembler.assemBuf
             e == reassembler.expectIdx
  <2>1. /\ Sound(reassembler, StreamLength, Capacity, d)
        /\ d \in Nat /\ StreamLength \in Nat /\ Capacity \in Nat
        /\ SpeltAt(bytes_read, 0, StreamLength)
    BY StreamLengthAssumption, CapacityAssumption DEF Assembling
  <2>2. /\ SpeltAt(b, 0 + d, StreamLength)
        /\ SpeltAt(a, 0 + (d + Len(b)), StreamLength)
        /\ e = d + Len(b) + Len(a)
        /\ reassembler.output.is_end => d + Len(b) = StreamLength
    BY <2>1 DEF Sound
  <2>3. Len(b) \in Nat /\ Len(a) \in Nat /\ e \in 0 .. StreamLength
    BY <2>1, SoundTypes, Zenon
  <2> HIDE DEF b, a, e
  <2>4. SpeltAt(bytes_read \o b, 0, StreamLength) /\ Len(bytes_read \o b) = d + Len(b)
    BY <2>1, <2>2, ConcatSpelt
  <2>5. WrittenBytes = bytes_read \o b
    BY Zenon DEF WrittenBytes, b
  <2>6. SpeltAt(WrittenBytes, 0, StreamLength) /\ Len(WrittenBytes) = d + Len(b)
    BY <2>4, <2>5, Zenon
  <2> HIDE DEF d
  <2>7. /\ SpeltAt(WrittenBytes \o a, 0, StreamLength)
        /\ Len(WrittenBytes \o a) = d + Len(b) + Len(a)
    <3> DEFINE w == WrittenBytes
    <3>1. SpeltAt(w, 0, StreamLength) /\ SpeltAt(a, 0 + Len(w), StreamLength)
      BY <2>2, <2>6, Zenon
    <3>2. Len(w) = d + Len(b)
      BY <2>6, Zenon
    <3> HIDE DEF w
    <3>3. StreamLength \in Nat /\ 0 \in Nat
      BY <2>1, Zenon
    <3>4. SpeltAt(w \o a, 0, StreamLength) /\ Len(w \o a) = Len(w) + Len(a)
      BY <3>1, <3>3, ConcatSpelt
    <3> QED
      BY <3>2, <3>4, Zenon DEF w
  <2>8. Len(LogicalStream) = StreamLength /\ SpeltAt(LogicalStream, 0, StreamLength)
    BY SubstringPieces, Zenon
  <2>9. /\ SpeltAt(Prefix(LogicalStream, e), 0, StreamLength)
        /\ Len(Prefix(LogicalStream, e)) = e
    BY <2>1, <2>3, <2>8, PrefixSpelt
  <2>10. WrittenBytes \o a = Prefix(LogicalStream, e)
    BY <2>1, <2>2, <2>7, <2>9, SpeltEqual, Zenon
  <2>11. reassembler.output.is_end => WrittenBytes = LogicalStream
    BY <2>1, <2>2, <2>6, <2>8, SpeltEqual, Zenon
  <2> QED
    BY <2>10, <2>11, Zenon DEF Integrity, a, e
<1> QED
  BY <1>1, AlwaysAssembling, PTL

\* What StoredIndices and CoveredBy have in common.
LEMMA StoredIndicesAre ==
  ASSUME Assembling
  PROVE  \A x : x \in StoredIndices <=> x \in CoveredBy(reassembler.unassemBuf)
<1> DEFINE m == reassembler.unassemBuf
<1>1. Spelt(m, StreamLength) /\ StreamLength \in Nat /\ Len(LogicalStream) = StreamLength
  BY StreamLengthAssumption, SubstringPieces, Zenon DEF Assembling, Sound
<1>2. \A k \in DOMAIN m : EndOf(m, k) \in Nat /\ EndOf(m, k) <= StreamLength
  BY <1>1, SpeltTypes, Zenon
<1> QED
  BY <1>1, <1>2 DEF StoredIndices, CoveredBy

\* "should only be counted once": as long as no empty substring falls inside a
\* stored one, unassembled_bytes() is the number of indices stored, and they fit
\* the capacity beside the assembled bytes.
THEOREM CountedOnceCorrect ==
  ASSUME ~EmptyInside
  PROVE  ReassemblerSpec => []CountedOnce
<1>1. Assembling => CountedOnce
  <2> SUFFICES ASSUME Assembling PROVE CountedOnce
    BY Zenon
  <2> DEFINE m == reassembler.unassemBuf
  <2>1. /\ Spelt(m, StreamLength) /\ StreamLength \in Nat
        /\ reassembler.unassemSize = StoredBytes(m, DOMAIN m)
        /\ Len(reassembler.assemBuf) + reassembler.unassemSize <= Capacity
    BY StreamLengthAssumption, Zenon DEF Assembling, Sound
  <2>2. Apart(m)
    BY Zenon DEF Assembling, Tidy
  <2>3. \A x : x \in StoredIndices <=>
          x \in Nat /\ \E k \in DOMAIN m : k <= x /\ x < EndOf(m, k)
    BY StoredIndicesAre, Zenon DEF CoveredBy
  <2>4. /\ DOMAIN m \in SUBSET DOMAIN m
        /\ \A j, k \in DOMAIN m : j < k => EndOf(m, j) <= k
    BY <2>2, Zenon DEF Apart
  <2> HIDE DEF m
  <2>5. Cardinality(StoredIndices) = StoredBytes(m, DOMAIN m)
    BY <2>1, <2>3, <2>4, CountCovered, Zenon
  <2> QED
    BY <2>1, <2>5, Zenon DEF CountedOnce, unassembled_bytes
<1> QED
  BY <1>1, AlwaysAssembling, PTL

\* "write any newly contiguous bytes into the stream": under the same condition,
\* the byte at expectIdx is never left stored.
THEOREM WritesContiguousCorrect ==
  ASSUME ~EmptyInside
  PROVE  ReassemblerSpec => []WritesContiguous
<1>1. Assembling => WritesContiguous
  <2> SUFFICES ASSUME Assembling, reassembler.expectIdx \in StoredIndices PROVE FALSE
    BY Zenon DEF WritesContiguous
  <2>1. PICK k \in DOMAIN reassembler.unassemBuf : k <= reassembler.expectIdx
    BY Zenon DEF StoredIndices
  <2>2. reassembler.expectIdx < k
    BY Zenon DEF Assembling, Tidy
  <2>3. k \in Nat /\ reassembler.expectIdx \in Int
    BY StreamLengthAssumption DEF Assembling, Sound, Spelt, StoredIndices
  <2> QED
    BY <2>1, <2>2, <2>3
<1> QED
  BY <1>1, AlwaysAssembling, PTL
=============================================================================
