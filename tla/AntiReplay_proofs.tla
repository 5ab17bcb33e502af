------------------------- MODULE AntiReplay_proofs -------------------------
(***************************************************************************)
(* Proofs about AntiReplay, for every word size, window size and number of *)
(* packets.                                                                *)
(***************************************************************************)
EXTENDS AntiReplay, TLAPS, FiniteSetTheorems

-----------------------------------------------------------------------------
(* Arithmetic of words.                                                    *)

\* What the proofs use of the sizes.
LEMMA Sizes ==
  /\ UwordBits \in Nat \ {0, 1} /\ HugeSize \in Nat /\ SeqMod \in Nat
  /\ UwordBits < HugeSize /\ 2 * HugeSize <= SeqMod
  /\ HugeSize % UwordBits = 0 /\ SeqMod % HugeSize = 0
  /\ WrapDistance \in 1 .. SeqMod - 1
  BY WordAssumption

\* Division with remainder.
LEMMA DivMod ==
  ASSUME NEW d \in Nat \ {0}, NEW a \in Int
  PROVE  a \div d \in Int /\ a % d \in 0 .. d - 1 /\ a = d * (a \div d) + (a % d)
  OBVIOUS

\* A number with remainder 0 is a multiple.
LEMMA Divides ==
  ASSUME NEW d \in Nat \ {0}, NEW a \in Int, a % d = 0
  PROVE  \E k \in Int : a = d * k
<1>1. PICK q \in Int : a = d * q + (a % d)
  BY DivMod
<1>2. a = d * q
  BY <1>1
<1> QED
  BY <1>2

\* Multiples of d are at least d apart.
LEMMA Multiples ==
  ASSUME NEW d \in Nat \ {0}, NEW p \in Int, NEW q \in Int, p < q
  PROVE  d * p + d <= d * q
<1>1. d * (q - p) >= d
  OBVIOUS
<1> QED
  BY <1>1

\* Quotient and remainder are unique.
LEMMA DivModUnique ==
  ASSUME NEW d \in Nat \ {0}, NEW a \in Int, NEW q \in Int, NEW r \in 0 .. d - 1,
         a = d * q + r
  PROVE  a \div d = q /\ a % d = r
<1>1. PICK p \in Int, s \in 0 .. d - 1 : p = a \div d /\ s = a % d /\ a = d * p + s
  BY DivMod
<1>2. d * p + s = d * q + r
  BY <1>1
<1>3. ~(p < q)
  <2>1. p < q => d * p + d <= d * q
    BY Multiples
  <2> QED
    BY <1>2, <2>1
<1>4. ~(q < p)
  <2>1. q < p => d * q + d <= d * p
    BY Multiples
  <2> QED
    BY <1>2, <2>1
<1>5. p = q
  BY <1>3, <1>4
<1> QED
  BY <1>1, <1>2, <1>5

\* Adding multiples does not change a remainder.
LEMMA ModAdd ==
  ASSUME NEW d \in Nat \ {0}, NEW a \in Int, NEW k \in Int
  PROVE  (a + d * k) % d = a % d
<1>1. PICK p \in Int, s \in 0 .. d - 1 : s = a % d /\ a = d * p + s
  BY DivMod
<1>2. a + d * k = d * (p + k) + s
  BY <1>1
<1>3. p + k \in Int /\ a + d * k \in Int
  OBVIOUS
<1> QED
  BY <1>1, <1>2, <1>3, DivModUnique

\* Numbers of one turn, and of the turns before and after it.
LEMMA ModNear ==
  ASSUME NEW d \in Nat \ {0}, NEW a \in Int
  PROVE  /\ a \in 0 .. d - 1 => a % d = a
         /\ a \in d .. 2 * d - 1 => a % d = a - d
         /\ a \in -d .. -1 => a % d = a + d
<1>1. ASSUME a \in 0 .. d - 1 PROVE a % d = a
  <2>1. a = d * 0 + a
    OBVIOUS
  <2> QED
    BY <1>1, <2>1, DivModUnique
<1>2. ASSUME a \in d .. 2 * d - 1 PROVE a % d = a - d
  <2>1. a = d * 1 + (a - d) /\ a - d \in 0 .. d - 1
    BY <1>2
  <2> QED
    BY <2>1, DivModUnique
<1>3. ASSUME a \in -d .. -1 PROVE a % d = a + d
  <2>1. a = d * (-1) + (a + d) /\ a + d \in 0 .. d - 1
    BY <1>3
  <2> QED
    BY <2>1, DivModUnique
<1> QED
  BY <1>1, <1>2, <1>3

\* Numbers less than a turn apart have different remainders.
LEMMA ModApart ==
  ASSUME NEW d \in Nat \ {0}, NEW a \in Int, NEW b \in Int, a < b, b < a + d
  PROVE  a % d # b % d
<1> SUFFICES ASSUME a % d = b % d
             PROVE  FALSE
  OBVIOUS
<1>1. PICK p \in Int, s \in 0 .. d - 1 : s = a % d /\ a = d * p + s
  BY DivMod
<1>2. PICK q \in Int : b = d * q + s
  BY <1>1, DivMod
<1>3. p < q => d * p + d <= d * q
  BY Multiples
<1>4. q < p => d * q + d <= d * p
  BY Multiples
<1> QED
  BY <1>1, <1>2, <1>3, <1>4

\* The remainder by a divisor of d can be taken from the remainder by d.
LEMMA ModMod ==
  ASSUME NEW d \in Nat \ {0}, NEW e \in Nat \ {0}, d % e = 0, NEW a \in Int
  PROVE  (a % d) % e = a % e
<1>1. PICK k \in Int : d = e * k
  BY DivMod
<1>2. PICK p \in Int, s \in 0 .. d - 1 : s = a % d /\ a = d * p + s
  BY DivMod
<1>3. a = s + e * (k * p)
  <2>1. (e * k) * p = e * (k * p)
    OBVIOUS
  <2> QED
    BY <1>1, <1>2, <2>1
<1>4. PICK m \in Int : m = k * p
  OBVIOUS
<1>5. (s + e * m) % e = s % e
  <2>1. s \in Int
    OBVIOUS
  <2> QED
    BY <2>1, ModAdd
<1> QED
  BY <1>2, <1>3, <1>4, <1>5

\* The words of a huge window.
LEMMA Words ==
  /\ HugeSize \div UwordBits \in Nat \ {0}
  /\ HugeSize = UwordBits * (HugeSize \div UwordBits)
<1>1. PICK n \in Int : n = HugeSize \div UwordBits /\ HugeSize = UwordBits * n
  BY Sizes, DivMod
<1>2. n > 0
  <2>1. n < 1 => UwordBits * n + UwordBits <= UwordBits * 1
    BY Sizes, Multiples
  <2> QED
    BY Sizes, <1>1, <2>1
<1> QED
  BY <1>1, <1>2

\* Bit i of word b, counted on over the end of the ring, is the position
\* b * UwordBits + i taken modulo the size of the ring.
LEMMA WordBit ==
  ASSUME NEW b \in Int, NEW i \in 0 .. UwordBits - 1
  PROVE  (b % (HugeSize \div UwordBits)) * UwordBits + i = (UwordBits * b + i) % HugeSize
<1>1. PICK n \in Nat \ {0} : n = HugeSize \div UwordBits /\ HugeSize = UwordBits * n
  BY Words
<1>2. PICK q \in Int, r \in 0 .. n - 1 : r = b % n /\ b = n * q + r
  BY DivMod
<1>3. PICK U \in Nat \ {0, 1} : U = UwordBits
  BY Sizes
<1>4. U * b + i = HugeSize * q + (r * U + i)
  <2>1. U * (n * q + r) = (U * n) * q + r * U
    OBVIOUS
  <2>2. U * b = U * (n * q + r)
    BY <1>2
  <2>3. U * n = HugeSize
    BY <1>1, <1>3
  <2>4. U * b = HugeSize * q + r * U
    BY <2>1, <2>2, <2>3
  <2>5. PICK x \in Int, y \in Int, z \in Int : x = U * b /\ y = HugeSize * q /\ z = r * U
    BY Sizes
  <2>6. i \in Int
    BY Sizes
  <2> QED
    BY <2>4, <2>5, <2>6
<1>5. r * U + i \in 0 .. HugeSize - 1
  <2>1. U * r + U <= U * n
    BY Multiples
  <2>2. U * r >= 0
    OBVIOUS
  <2>3. U * r = r * U
    OBVIOUS
  <2>4. PICK x \in Int : x = r * U
    OBVIOUS
  <2> QED
    BY <1>1, <1>3, <2>1, <2>2, <2>3, <2>4
<1>6. HugeSize \in Nat \ {0} /\ U * b + i \in Int
  BY Sizes, <1>3
<1>7. (U * b + i) % HugeSize = r * U + i
  BY <1>4, <1>5, <1>6, DivModUnique
<1> QED
  BY <1>1, <1>2, <1>3, <1>7

\* The positions of the next inc numbers in the ring.
Turn(inc) == {(seq + j) % HugeSize : j \in 1 .. inc}


\* Where bit i of word block + k is, counted from the lower end of the window.
LEMMA WordPlace ==
  ASSUME TypeOK, NEW k \in Int, NEW i \in 0 .. UwordBits - 1,
         NEW block, block = ((seq + 1) % HugeSize) \div UwordBits,
         NEW start, start = ((seq + 1) % HugeSize) % UwordBits
  PROVE  ((block + k) % (HugeSize \div UwordBits)) * UwordBits + i
            = (seq + 1 + (UwordBits * k + i - start)) % HugeSize
<1>1. PICK U \in Nat \ {0, 1}, H \in Nat \ {0}, s \in Nat :
         U = UwordBits /\ H = HugeSize /\ s = seq
  BY Sizes DEF TypeOK
<1>2. PICK q \in Int, l \in 0 .. H - 1 : l = (s + 1) % H /\ s + 1 = H * q + l
  <2>1. s + 1 \in Int
    OBVIOUS
  <2> QED
    BY <2>1, DivMod
<1>3. block \in Int /\ start \in 0 .. U - 1 /\ l = U * block + start
  BY <1>1, <1>2, DivMod
<1>4. ((block + k) % (HugeSize \div UwordBits)) * UwordBits + i = (U * (block + k) + i) % H
  <2>1. PICK b \in Int : b = block + k
    BY <1>3
  <2>2. (b % (HugeSize \div UwordBits)) * UwordBits + i = (UwordBits * b + i) % HugeSize
    BY WordBit
  <2> QED
    BY <1>1, <2>1, <2>2
<1>5. s + 1 + (U * k + i - start) = (U * (block + k) + i) + H * q
  <2>1. U * (block + k) = U * block + U * k
    BY <1>3
  <2>2. PICK x \in Int, y \in Int, z \in Int : x = U * block /\ y = U * k /\ z = H * q
    BY <1>3
  <2>3. i \in Int
    BY <1>1
  <2> QED
    BY <1>2, <1>3, <2>1, <2>2, <2>3
<1>6. U * (block + k) + i \in Int
  BY <1>1, <1>3
<1>7. ((U * (block + k) + i) + H * q) % H = (U * (block + k) + i) % H
  BY <1>6, ModAdd
<1> QED
  BY <1>1, <1>4, <1>5, <1>7

\* The bits cleared word by word are the positions of the next inc numbers;
\* a build without the instruction behind pow2_mask may leave some of them.
LEMMA ClearedTurn ==
  ASSUME TypeOK, NEW inc \in 0 .. HugeSize - 1
  PROVE  Cleared(inc) \subseteq Turn(inc) /\ (Bmi2 => Turn(inc) \subseteq Cleared(inc))
<1> DEFINE words == HugeSize \div UwordBits
           lower == (seq + 1) % HugeSize
           start == lower % UwordBits
           block == lower \div UwordBits
           end   == ((lower + inc) % HugeSize) % UwordBits
           full  == (inc + start - UwordBits - end) \div UwordBits
           first == Word(block, {start + j : j \in Pow2Mask(inc)})
           head  == Word(block, start .. UwordBits - 1)
           body  == UNION {Word(block + k, 0 .. UwordBits - 1) : k \in 1 .. full}
           last  == Word(block + full + 1, Pow2Mask(end))
<1>1. Cleared(inc) = IF start + inc <= UwordBits THEN first ELSE head \cup body \cup last
  BY Zenon DEF Cleared
<1>2. PICK U \in Nat \ {0, 1}, H \in Nat, s \in Nat :
         U = UwordBits /\ H = HugeSize /\ s = seq /\ U < H /\ H % U = 0
  BY Sizes DEF TypeOK
<1>3. lower \in 0 .. H - 1 /\ block \in Int /\ start \in 0 .. U - 1 /\ lower = U * block + start
  <2>1. s + 1 \in Int /\ H \in Nat \ {0}
    BY <1>2
  <2>2. lower \in 0 .. H - 1
    BY <1>2, <2>1, DivMod
  <2> HIDE DEF lower
  <2> QED
    BY <1>2, <2>2, DivMod
<1>4. \A k \in Int, i \in 0 .. U - 1 :
         ((block + k) % words) * UwordBits + i = (s + (U * k + i - start + 1)) % H
  <2> TAKE k \in Int, i \in 0 .. U - 1
  <2>1. ((block + k) % words) * UwordBits + i = (s + 1 + (U * k + i - start)) % H
    <3>1. /\ block = ((seq + 1) % HugeSize) \div UwordBits
          /\ start = ((seq + 1) % HugeSize) % UwordBits
      OBVIOUS
    <3>2. i \in 0 .. UwordBits - 1
      BY <1>2
    <3> HIDE DEF block, start
    <3>3. ((block + k) % words) * UwordBits + i
             = (seq + 1 + (UwordBits * k + i - start)) % HugeSize
      BY <3>1, <3>2, WordPlace
    <3> QED
      BY <1>2, <3>3
  <2>2. s + 1 + (U * k + i - start) = s + (U * k + i - start + 1)
    <3>1. PICK x \in Int : x = U * k
      OBVIOUS
    <3> QED
      BY <1>2, <1>3, <3>1
  <2> QED
    BY <2>1, <2>2
<1>5. \A n \in 0 .. UwordBits : /\ Pow2Mask(n) \subseteq 0 .. n - 1
                                /\ Bmi2 => Pow2Mask(n) = 0 .. n - 1
  BY DEF Pow2Mask
<1>6. inc \in 0 .. H - 1
  BY <1>2
<1>7. \A k, js : Word(k, js) = {(k % words) * UwordBits + i : i \in js}
  BY DEF Word
<1>8. Turn(inc) = {(s + t) % H : t \in 1 .. inc}
  BY <1>2 DEF Turn
<1> HIDE DEF words, lower, start, block
<1>9. CASE start + inc <= U
  <2>1. inc \in 0 .. UwordBits /\ Cleared(inc) = first
    BY <1>1, <1>2, <1>3, <1>6, <1>9
  <2>2. \A j \in 0 .. inc - 1 : (block % words) * UwordBits + (start + j) = (s + (j + 1)) % H
    <3> TAKE j \in 0 .. inc - 1
    <3>1. start + j \in 0 .. U - 1
      BY <1>2, <1>3, <1>6, <1>9
    <3>2. PICK i \in 0 .. U - 1 : i = start + j
      BY <3>1
    <3>3. ((block + 0) % words) * UwordBits + i = (s + (U * 0 + i - start + 1)) % H
      BY <1>4
    <3>4. block + 0 = block /\ U * 0 + i - start + 1 = j + 1
      BY <1>3, <1>6, <3>2
    <3> QED
      BY <3>2, <3>3, <3>4
  <2>3. \A x \in first : x \in Turn(inc)
    <3> TAKE x \in first
    <3>1. PICK j \in Pow2Mask(inc) : x = (block % words) * UwordBits + (start + j)
      BY <1>7
    <3>2. j \in 0 .. inc - 1
      BY <1>5, <2>1
    <3>3. x = (s + (j + 1)) % H /\ j + 1 \in 1 .. inc
      BY <1>6, <2>2, <3>1, <3>2
    <3> QED
      BY <1>8, <3>3
  <2>4. ASSUME Bmi2, NEW x \in Turn(inc)
        PROVE  x \in first
    <3>1. PICK t \in 1 .. inc : x = (s + t) % H
      BY <1>8
    <3>2. PICK j \in 0 .. inc - 1 : t = j + 1
      BY <1>6
    <3>3. x = (block % words) * UwordBits + (start + j) /\ j \in Pow2Mask(inc)
      BY <1>5, <2>1, <2>2, <2>4, <3>1, <3>2
    <3> QED
      BY <1>7, <3>3
  <2> HIDE DEF first
  <2> QED
    BY <2>1, <2>3, <2>4
<1>10. CASE start + inc > U
  <2>1. PICK q \in Int, e \in 0 .. U - 1 : start + inc = U * q + e /\ e = (start + inc) % U
    <3>1. start + inc \in Int
      BY <1>3, <1>6
    <3> QED
      BY <3>1, DivMod
  <2>2. end = e
    <3>1. lower + inc \in Int /\ H \in Nat \ {0} /\ U \in Nat \ {0}
      BY <1>2, <1>3, <1>6
    <3>2. end = (lower + inc) % U
      BY <1>2, <3>1, ModMod
    <3>3. lower + inc = (start + inc) + U * block
      <4>1. PICK x \in Int : x = U * block
        BY <1>3
      <4> QED
        BY <1>3, <1>6, <4>1
    <3>4. start + inc \in Int /\ block \in Int
      BY <1>3, <1>6
    <3>5. ((start + inc) + U * block) % U = (start + inc) % U
      BY <3>4, ModAdd
    <3> QED
      BY <2>1, <3>2, <3>3, <3>5
  <2>3. full = q - 1
    <3>1. inc + start - UwordBits - end = U * (q - 1) + 0
      <4>1. U * (q - 1) = U * q - U
        OBVIOUS
      <4>2. PICK x \in Int : x = U * q
        OBVIOUS
      <4> QED
        BY <1>2, <1>3, <1>6, <2>1, <2>2, <4>1, <4>2
    <3>2. inc + start - UwordBits - end \in Int /\ q - 1 \in Int /\ 0 \in 0 .. U - 1
      BY <1>2, <1>3, <1>6, <2>2
    <3> HIDE DEF end
    <3>3. (inc + start - UwordBits - end) \div U = q - 1
      BY <3>1, <3>2, DivModUnique
    <3> QED
      BY <1>2, <3>3
  <2>4. q >= 1
    <3>1. q < 1 => U * q + U <= U * 1
      BY Multiples
    <3> QED
      BY <1>10, <2>1, <3>1
  <2>5. Cleared(inc) = head \cup body \cup last
    <3>1. ~(start + inc <= UwordBits)
      BY <1>2, <1>3, <1>6, <1>10
    <3> QED
      BY <1>1, <3>1, Zenon
  <2> HIDE DEF end, full
  <2>6. \A k \in 0 .. q, i \in 0 .. U - 1 :
           /\ k = 0 => i >= start
           /\ k = q => i < e
           => ((block + k) % words) * UwordBits + i \in Turn(inc)
    <3> TAKE k \in 0 .. q, i \in 0 .. U - 1
    <3>1. HAVE (k = 0 => i >= start) /\ (k = q => i < e)
    <3>2. PICK x \in Int, y \in Int : x = U * k /\ y = U * q
      OBVIOUS
    <3>3. k < q => x + U <= y
      BY <3>2, Multiples
    <3>4. k > 0 => U <= x
      <4>1. 0 < k => U * 0 + U <= U * k
        BY Multiples
      <4> QED
        BY <3>2, <4>1
    <3>5. k = 0 => x = 0
      BY <3>2
    <3>6. k = q => x = y
      BY <3>2
    <3>7. x + i - start + 1 \in 1 .. inc
      BY <1>3, <1>6, <2>1, <2>4, <3>1, <3>2, <3>3, <3>4, <3>5, <3>6
    <3>8. ((block + k) % words) * UwordBits + i = (s + (x + i - start + 1)) % H
      BY <1>4, <3>2
    <3> QED
      BY <1>8, <3>7, <3>8
  <2>7. head \subseteq Turn(inc)
    <3> SUFFICES ASSUME NEW x \in head
                 PROVE  x \in Turn(inc)
      OBVIOUS
    <3>1. PICK i \in start .. UwordBits - 1 : x = (block % words) * UwordBits + i
      BY <1>7
    <3>2. i \in 0 .. U - 1 /\ i >= start /\ 0 \in 0 .. q /\ 0 # q
      BY <1>2, <1>3, <2>4
    <3>3. ((block + 0) % words) * UwordBits + i \in Turn(inc)
      BY <2>6, <3>2
    <3>4. block + 0 = block
      BY <1>3
    <3> QED
      BY <3>1, <3>3, <3>4
  <2>8. body \subseteq Turn(inc)
    <3> SUFFICES ASSUME NEW x \in body
                 PROVE  x \in Turn(inc)
      OBVIOUS
    <3>1. PICK k \in 1 .. full : x \in Word(block + k, 0 .. UwordBits - 1)
      OBVIOUS
    <3>2. PICK i \in 0 .. U - 1 : x = ((block + k) % words) * UwordBits + i
      BY <1>2, <1>7, <3>1
    <3>3. k \in 0 .. q /\ k # 0 /\ k # q
      BY <2>3
    <3> QED
      BY <2>6, <3>2, <3>3
  <2>9. last \subseteq Turn(inc)
    <3> SUFFICES ASSUME NEW x \in last
                 PROVE  x \in Turn(inc)
      OBVIOUS
    <3>1. PICK i \in Pow2Mask(end) : x = ((block + full + 1) % words) * UwordBits + i
      BY <1>7
    <3>2. i \in 0 .. U - 1 /\ i < e
      <4>1. end \in 0 .. UwordBits
        BY <1>2, <2>2
      <4>2. i \in 0 .. end - 1
        BY <1>5, <4>1
      <4> QED
        BY <2>2, <4>2
    <3>3. block + full + 1 = block + q /\ q \in 0 .. q /\ q # 0
      BY <1>3, <2>3, <2>4
    <3>4. x = ((block + q) % words) * UwordBits + i
      BY <3>1, <3>3
    <3> QED
      BY <2>6, <3>2, <3>3, <3>4
  <2>10. ASSUME Bmi2, NEW x \in Turn(inc)
         PROVE  x \in head \cup body \cup last
    <3>1. PICK t \in 1 .. inc : x = (s + t) % H
      BY <1>8
    <3>2. PICK k \in Int, i \in 0 .. U - 1 : start + t - 1 = U * k + i
      <4>1. start + t - 1 \in Int
        BY <1>3, <1>6
      <4> QED
        BY <4>1, DivMod
    <3>3. PICK y \in Int, z \in Int : y = U * k /\ z = U * q
      OBVIOUS
    <3>4. x = ((block + k) % words) * UwordBits + i
      <4>1. U * k + i - start + 1 = t
        BY <1>3, <1>6, <3>2, <3>3
      <4>2. ((block + k) % words) * UwordBits + i = (s + (U * k + i - start + 1)) % H
        BY <1>4
      <4> QED
        BY <3>1, <4>1, <4>2
    <3>5. k \in 0 .. q
      <4>1. k < 0 => U * k + U <= U * 0
        BY Multiples
      <4>2. q < k => U * q + U <= U * k
        BY Multiples
      <4> QED
        BY <1>3, <1>6, <2>1, <3>2, <3>3, <4>1, <4>2
    <3>6. CASE k = 0
      <4>1. i \in start .. UwordBits - 1 /\ block + k = block
        BY <1>2, <1>3, <1>6, <3>2, <3>3, <3>6
      <4> QED
        BY <1>7, <3>4, <4>1
    <3>7. CASE k \in 1 .. q - 1
      <4>1. x \in Word(block + k, 0 .. UwordBits - 1)
        BY <1>2, <1>7, <3>4
      <4>2. k \in 1 .. full
        BY <2>3, <3>7
      <4> QED
        BY <4>1, <4>2
    <3>8. CASE k = q
      <4>1. y = z
        BY <3>3, <3>8
      <4>2. i \in 0 .. e - 1
        BY <1>3, <1>6, <2>1, <3>2, <3>3, <4>1
      <4>3. i \in Pow2Mask(end)
        BY <1>2, <1>5, <2>2, <2>10, <4>2
      <4>4. block + full + 1 = block + k
        BY <1>3, <2>3, <3>8
      <4>5. x \in last
        BY <1>7, <3>4, <4>3, <4>4
      <4> QED
        BY <4>5
    <3> QED
      BY <3>5, <3>6, <3>7, <3>8
  <2> HIDE DEF head, body, last
  <2> QED
    BY <2>5, <2>7, <2>8, <2>9, <2>10
<1> QED
  BY <1>2, <1>3, <1>6, <1>9, <1>10

-----------------------------------------------------------------------------
(* Type correctness.                                                       *)

\* A window of either kind divides the low words.
LEMMA WindowSizes ==
  /\ WindowSize \in Nat \ {0, 1} /\ 2 * WindowSize <= SeqMod /\ SeqMod % WindowSize = 0
  /\ WindowSize = IF flags.huge THEN HugeSize ELSE UwordBits
<1>1. SeqMod % UwordBits = 0
  <2>0. HugeSize \in Nat \ {0} /\ UwordBits \in Nat \ {0} /\ SeqMod \in Int
    BY Sizes
  <2>1. PICK m \in Int : SeqMod = HugeSize * m
    <3>1. SeqMod \div HugeSize \in Int
          /\ SeqMod = HugeSize * (SeqMod \div HugeSize) + (SeqMod % HugeSize)
      BY <2>0, DivMod
    <3> QED
      BY <2>0, <3>1, Sizes
  <2>2. PICK n \in Int : HugeSize = UwordBits * n
    BY Words
  <2>3. PICK U \in Nat \ {0, 1} : U = UwordBits
    BY Sizes
  <2>4. (U * n) * m = 0 + U * (n * m)
    OBVIOUS
  <2>5. n * m \in Int /\ 0 \in Int
    OBVIOUS
  <2>6. (0 + U * (n * m)) % U = 0 % U
    BY <2>5, ModAdd
  <2>7. 0 % U = 0
    BY ModNear
  <2> QED
    BY <2>1, <2>2, <2>3, <2>4, <2>6, <2>7
<1> QED
  BY Sizes, <1>1 DEF WindowSize

\* The bit of a number is a bit of the window.
LEMMA BitType ==
  ASSUME TypeOK, NEW s \in 0 .. SeqMod - 1
  PROVE  Bit(s) \in 0 .. WindowSize - 1
<1>1. PICK W \in Nat \ {0, 1}, M \in Nat, t \in Int :
         W = WindowSize /\ M = SeqMod /\ t = seq /\ 2 * W <= M
  BY WindowSizes, Sizes DEF TypeOK
<1>2. CASE flags.huge
  <2>1. s % W \in 0 .. W - 1
    BY <1>1, DivMod
  <2> QED
    BY <1>1, <1>2, <2>1 DEF Bit
<1>3. CASE ~flags.huge
  <2>1. PICK x \in Int : x = (W + s - t - 1) % M
    <3>1. PICK y \in Int : y = W + s - t - 1
      BY <1>1
    <3>2. M \in Nat \ {0}
      BY <1>1
    <3>3. y % M \in 0 .. M - 1
      BY <3>2, DivMod
    <3> QED
      BY <3>1, <3>3
  <2>2. x % W \in 0 .. W - 1
    BY DivMod
  <2> QED
    BY <1>1, <1>3, <2>1, <2>2, WindowSizes DEF Bit, ShiftCount
<1> QED
  BY <1>2, <1>3

\* At most inc bits leave a window that moves by inc.
LEMMA LeavingBound ==
  ASSUME TypeOK, NEW inc \in 0 .. WindowSize - 1
  PROVE  IsFiniteSet(Leaving(inc)) /\ Cardinality(Leaving(inc)) \in 0 .. inc
<1>1. inc \in Nat
  BY WindowSizes
<1>2. CASE flags.huge
  <2>1. inc \in 0 .. HugeSize - 1
    BY <1>2, WindowSizes
  <2>2. Leaving(inc) \subseteq Turn(inc)
    BY <1>2, <2>1, ClearedTurn DEF Leaving
  <2>3. IsFiniteSet(1 .. inc) /\ Cardinality(1 .. inc) = inc
    BY <1>1, FS_Interval
  <2>4. [j \in 1 .. inc |-> (seq + j) % HugeSize] \in Surjection(1 .. inc, Turn(inc))
    BY DEF Surjection, Turn
  <2>5. IsFiniteSet(Turn(inc)) /\ Cardinality(Turn(inc)) <= inc
    BY <2>3, <2>4, FS_Surjection
  <2> QED
    BY <1>1, <2>2, <2>5, FS_Subset, FS_CardinalityType
<1>3. CASE ~flags.huge
  <2>1. Leaving(inc) \subseteq 0 .. inc - 1
    BY <1>3, WindowSizes DEF Leaving, Pow2Mask
  <2>2. IsFiniteSet(0 .. inc - 1) /\ Cardinality(0 .. inc - 1) = inc
    <3>1. PICK b \in Int : b = inc - 1
      BY <1>1
    <3>2. IsFiniteSet(0 .. b) /\ Cardinality(0 .. b) = IF 0 > b THEN 0 ELSE b - 0 + 1
      BY FS_Interval
    <3> QED
      BY <1>1, <3>1, <3>2
  <2> QED
    BY <1>1, <2>1, <2>2, FS_Subset, FS_CardinalityType
<1> QED
  BY <1>2, <1>3

\* The window has no more bits than its size.
LEMMA WindowBound ==
  ASSUME TypeOK
  PROVE  IsFiniteSet(window) /\ Cardinality(window) \in 0 .. WindowSize
<1>1. IsFiniteSet(0 .. WindowSize - 1) /\ Cardinality(0 .. WindowSize - 1) = WindowSize
  <2>1. PICK W \in Nat \ {0, 1}, b \in Nat : W = WindowSize /\ b = W - 1
    BY WindowSizes
  <2>2. IsFiniteSet(0 .. b) /\ Cardinality(0 .. b) = IF 0 > b THEN 0 ELSE b - 0 + 1
    BY FS_Interval
  <2> QED
    BY <2>1, <2>2
<1>2. window \subseteq 0 .. WindowSize - 1
  BY DEF TypeOK
<1>3. IsFiniteSet(window) /\ Cardinality(window) <= Cardinality(0 .. WindowSize - 1)
  BY <1>1, <1>2, FS_Subset
<1>4. Cardinality(window) \in Nat
  BY <1>3, FS_CardinalityType
<1> QED
  BY <1>1, <1>3, <1>4, WindowSizes

\* A window that moves by inc stays a window, and loses no fewer than 0.
LEMMA ShiftType ==
  ASSUME TypeOK, NEW inc \in 0 .. SeqMod - 1
  PROVE  WindowShift(inc) \subseteq 0 .. WindowSize - 1 /\ NLost(inc) \in Nat
<1>1. PICK W \in Nat \ {0, 1}, M \in Nat, t \in Int :
         W = WindowSize /\ M = SeqMod /\ t = seq /\ 2 * W <= M
  BY WindowSizes, Sizes DEF TypeOK
<1>2. NLost(inc) \in Nat
  <2>1. CASE inc < W
    <3>1. inc \in 0 .. WindowSize - 1
      BY <1>1, <2>1
    <3>2. Cardinality(Leaving(inc)) \in 0 .. inc
      BY <3>1, LeavingBound
    <3> QED
      BY <1>1, <2>1, <3>2 DEF NLost
  <2>2. CASE ~(inc < W)
    <3>1. Cardinality(window) \in 0 .. W
      BY <1>1, WindowBound
    <3> QED
      BY <1>1, <2>2, <3>1 DEF NLost
  <2> QED
    BY <2>1, <2>2
<1> DEFINE kept == IF inc < WindowSize THEN window \ Leaving(inc) ELSE {}
<1>3. kept \subseteq 0 .. W - 1
  BY <1>1 DEF TypeOK
<1>4. CASE flags.huge
  <2>1. (t + inc) % W \in 0 .. W - 1
    <3>1. t + inc \in Int
      BY <1>1
    <3> QED
      BY <3>1, DivMod
  <2>2. WindowShift(inc) = kept \cup {(t + inc) % W}
    BY <1>1, <1>4 DEF WindowShift
  <2> QED
    BY <1>1, <1>2, <1>3, <2>1, <2>2
<1>5. CASE ~flags.huge
  <2>1. WindowShift(inc) = {i - inc : i \in kept} \cup {W - 1}
    BY <1>1, <1>5 DEF WindowShift
  <2>2. \A i \in kept : i - inc \in 0 .. W - 1
    <3> TAKE i \in kept
    <3>1. inc < W /\ i \in window /\ i \notin Leaving(inc) /\ i \in 0 .. W - 1
      BY <1>1, <1>3
    <3>2. i \notin 0 .. inc - 1
      BY <1>1, <1>5, <3>1, WindowSizes DEF Leaving, Pow2Mask
    <3> QED
      BY <1>1, <3>1, <3>2
  <2> QED
    BY <1>1, <1>2, <2>1, <2>2
<1> QED
  BY <1>4, <1>5

\* The halves of the numbers packets may have.
LEMMA ArrivingType ==
  ASSUME TypeOK, NEW n \in Arriving
  PROVE  n \in Nat /\ Lo(n) \in 0 .. SeqMod - 1 /\ Hi(n) \in 0 .. SeqMod - 1
<1>1. SeqMod \in Nat \ {0}
  BY Sizes
<1>2. n \in Nat /\ Hi(n) < SeqMod
  <2>1. PICK x \in Int : x = Top
    BY <1>1 DEF Top, TypeOK
  <2>2. Behind \in Int /\ Ahead \in Int
    BY <1>1, ArrivalAssumption
  <2> QED
    BY <2>1, <2>2 DEF Arriving
<1>3. PICK q \in Int, r \in 0 .. SeqMod - 1 : q = Hi(n) /\ r = Lo(n) /\ n = SeqMod * q + r
  <2>1. n \div SeqMod \in Int /\ n % SeqMod \in 0 .. SeqMod - 1
        /\ n = SeqMod * (n \div SeqMod) + (n % SeqMod)
    BY <1>1, <1>2, DivMod
  <2> QED
    BY <2>1 DEF Hi, Lo
<1>4. q >= 0
  <2>1. q < 0 => SeqMod * q + SeqMod <= SeqMod * 0
    BY <1>1, Multiples
  <2> QED
    BY <1>1, <1>2, <1>3, <2>1
<1> QED
  BY <1>1, <1>2, <1>3, <1>4

\* The guess of the high half is a word.
LEMMA GuessType ==
  ASSUME TypeOK, NEW s
  PROVE  HiSeqReq(s) \in 0 .. SeqMod - 1
<1>1. SeqMod \in Nat \ {0} /\ seq_hi \in 0 .. SeqMod - 1
  BY Sizes DEF TypeOK
<1>2. seq_hi + 1 \in Int /\ seq_hi - 1 \in Int
  BY <1>1
<1>3. (seq_hi + 1) % SeqMod \in 0 .. SeqMod - 1 /\ (seq_hi - 1) % SeqMod \in 0 .. SeqMod - 1
  BY <1>1, <1>2, DivMod
<1>4. 0 \in 0 .. SeqMod - 1
  BY <1>1
<1>5. \/ HiSeqReq(s) = 0 \/ HiSeqReq(s) = seq_hi
      \/ HiSeqReq(s) = (seq_hi + 1) % SeqMod \/ HiSeqReq(s) = (seq_hi - 1) % SeqMod
  BY DEF HiSeqReq, TypeOK
<1> QED
  BY <1>1, <1>3, <1>4, <1>5

\* A packet appended to a queue leaves it a queue of packets.
LEMMA AppendType ==
  ASSUME NEW S, NEW q \in Seq(S), NEW e \in S
  PROVE  Append(q, e) \in Seq(S)
  OBVIOUS

\* The first packet of a queue and those after it.
LEMMA HeadTailType ==
  ASSUME NEW S, NEW q \in Seq(S), q # << >>
  PROVE  /\ Head(q) \in S /\ Tail(q) \in Seq(S) /\ Head(q) = q[1]
         /\ Len(q) \in Nat \ {0} /\ Len(Tail(q)) = Len(q) - 1
         /\ \A i \in 1 .. Len(Tail(q)) : Tail(q)[i] = q[i + 1]
  OBVIOUS

\* Every step keeps the types.
LEMMA TypeNext == TypeOK /\ [Next]_vars => TypeOK'
<1> SUFFICES ASSUME TypeOK, [Next]_vars
             PROVE  TypeOK'
  OBVIOUS
<1>0. SeqMod \in Nat \ {0} /\ MaxArrivals \in Nat
  BY Sizes, ArrivalAssumption
<1>1. ASSUME NEW n \in Arriving, Receive(n)
      PROVE  TypeOK'
  <2>1. [num |-> n, hi |-> HiSeqReq(Lo(n))] \in [num : Nat, hi : 0 .. SeqMod - 1]
    BY ArrivingType, GuessType
  <2>2. flight' \in Seq([num : Nat, hi : 0 .. SeqMod - 1])
    <3>1. flight \in Seq([num : Nat, hi : 0 .. SeqMod - 1])
      BY DEF TypeOK
    <3>2. \/ flight' = flight
          \/ flight' = Append(flight, [num |-> n, hi |-> HiSeqReq(Lo(n))])
      BY <1>1 DEF Receive
    <3> QED
      BY <2>1, <3>1, <3>2, AppendType
  <2>3. arrived' \in 0 .. MaxArrivals
    BY <1>0, <1>1 DEF Receive, TypeOK
  <2> QED
    BY <1>1, <2>2, <2>3 DEF Receive, TypeOK, saVars, WindowSize
<1>2. ASSUME PostDrop
      PROVE  TypeOK'
  BY <1>2 DEF PostDrop, TypeOK, saVars, WindowSize
<1>3. ASSUME PostAccept
      PROVE  TypeOK'
  <2> DEFINE p == Head(flight)
             s == Lo(p.num)
  <2>1. /\ p \in [num : Nat, hi : 0 .. SeqMod - 1]
        /\ flight' \in Seq([num : Nat, hi : 0 .. SeqMod - 1])
    <3>1. flight \in Seq([num : Nat, hi : 0 .. SeqMod - 1]) /\ flight # << >>
      BY <1>3 DEF PostAccept, TypeOK
    <3>2. flight' = Tail(flight)
      BY <1>3 DEF PostAccept
    <3> QED
      BY <3>1, <3>2, HeadTailType
  <2>2. p.num \in Nat /\ p.hi \in 0 .. SeqMod - 1
    BY <2>1
  <2> HIDE DEF p
  <2>3. s \in 0 .. SeqMod - 1
    BY <1>0, <2>2, DivMod DEF Lo
  <2>4. /\ Advance(s, p.hi) /\ accepted' = accepted \cup {p.num}
        /\ UNCHANGED << flags, arrived >>
    BY <1>3 DEF PostAccept, p
  <2> HIDE DEF s
  <2>5. /\ window' \subseteq 0 .. WindowSize - 1 /\ lost' \in Nat
        /\ seq' \in 0 .. SeqMod - 1 /\ seq_hi' \in 0 .. SeqMod - 1
    <3>1. CASE Moves(s, p.hi)
      <4>1. PICK pos \in 0 .. SeqMod - 1 : pos = (s - seq) % SeqMod
        <5>1. s - seq \in Int
          BY <1>0, <2>3 DEF TypeOK
        <5> QED
          BY <1>0, <5>1, DivMod
      <4>2. /\ window' = WindowShift(pos) /\ lost' = lost + NLost(pos)
            /\ seq' = s /\ seq_hi' = IF flags.esn THEN p.hi ELSE seq_hi
        BY <2>4, <3>1, <4>1 DEF Advance
      <4>3. WindowShift(pos) \subseteq 0 .. WindowSize - 1 /\ NLost(pos) \in Nat
        BY ShiftType
      <4>4. lost \in Nat /\ seq_hi \in 0 .. SeqMod - 1
        BY DEF TypeOK
      <4> QED
        BY <2>2, <2>3, <4>2, <4>3, <4>4
    <3>2. CASE ~Moves(s, p.hi)
      <4>1. window' = window \cup {Bit(s)} /\ UNCHANGED << seq, seq_hi, lost >>
        BY <2>4, <3>2 DEF Advance
      <4> QED
        BY <2>3, <4>1, BitType DEF TypeOK
    <3> QED
      BY <3>1, <3>2
  <2> QED
    BY <1>3, <2>1, <2>2, <2>4, <2>5 DEF PostAccept, TypeOK, WindowSize
<1>4. CASE UNCHANGED vars
  BY <1>4 DEF vars, saVars, TypeOK, WindowSize
<1> QED
  BY <1>1, <1>2, <1>3, <1>4 DEF Next

-----------------------------------------------------------------------------
(* The inductive invariant.                                                *)

\* Without ESN the high half stays 0.
EpochOK == ~flags.esn => seq_hi = 0

\* No packet is newer than the newest.
AcceptedOK == flags.ar => accepted \subseteq 1 .. Top

\* A packet has a number of the SA.
Fit(p) ==
    /\ p.num >= 1 /\ Hi(p.num) < SeqMod
    /\ flags.esn \/ p.num < SeqMod

\* A packet that decrypts, if it has a high half and there is a window.
Guessed(p) == flags.esn /\ flags.ar /\ p.hi = Hi(p.num)

\* It is less than a turn behind the newest number, and less than a turn
\* ahead of the lower bound of the window.
Near(p) == Guessed(p) => p.num > Top - SeqMod /\ p.num <= Top - WindowSize + SeqMod

\* Packets that wait for decryption are near, and none will move the window
\* a turn past one that waits behind it.
FlightOK ==
    /\ \A i \in 1 .. Len(flight) : Fit(flight[i]) /\ Near(flight[i])
    /\ \A i, j \in 1 .. Len(flight) :
          i < j /\ Guessed(flight[i]) /\ Guessed(flight[j])
             => flight[i].num < flight[j].num + SeqMod

\* The bits of the window show which of the last numbers were accepted.
WindowOK ==
    flags.ar =>
        \A i \in 0 .. WindowSize - 1 :
            /\ Marked(Top - i) => BitBehind(i) \in window
            /\ ~stray /\ BitBehind(i) \in window => Marked(Top - i)

IInv == TypeOK /\ EpochOK /\ AcceptedOK /\ FlightOK /\ WindowOK

-----------------------------------------------------------------------------
(* The verdicts.                                                           *)

\* The lower bound of the window as a number, in its epoch or the one before.
LEMMA Lower ==
  ASSUME TypeOK
  PROVE  /\ CaseA  => LowerBound = seq - WindowSize + 1
         /\ ~CaseA => LowerBound = seq - WindowSize + 1 + SeqMod
<1>1. PICK W \in Nat \ {0, 1}, M \in Nat \ {0}, t \in Int :
         W = WindowSize /\ M = SeqMod /\ t = seq /\ t \in 0 .. M - 1 /\ 2 * W <= M
  BY WindowSizes, Sizes DEF TypeOK
<1>2. PICK x \in Int : x = t - W + 1
  BY <1>1
<1>3. (x \in 0 .. M - 1 => x % M = x) /\ (x \in -M .. -1 => x % M = x + M)
  BY ModNear
<1>4. LowerBound = x % M /\ (CaseA <=> x >= 0)
  BY <1>1, <1>2 DEF LowerBound, CaseA
<1> QED
  BY <1>1, <1>2, <1>3, <1>4

\* A position in the ring depends on the low half only.
LEMMA TopMod ==
  ASSUME TypeOK, NEW a \in Int
  PROVE  (Top + a) % WindowSize = (seq + a) % WindowSize
<1>1. PICK W \in Nat \ {0}, M \in Nat, t \in Int, h \in Int :
         W = WindowSize /\ M = SeqMod /\ t = seq /\ h = seq_hi /\ M % W = 0
  BY WindowSizes, Sizes DEF TypeOK
<1>2. PICK k \in Int : M = W * k
  BY <1>1, Divides
<1>3. Top + a = (t + a) + W * (k * h)
  <2>1. h * (W * k) = W * (k * h)
    OBVIOUS
  <2>2. Top = h * M + t
    BY <1>1 DEF Top
  <2>3. PICK x \in Int : x = h * M
    BY <1>1
  <2> QED
    BY <1>1, <1>2, <2>1, <2>2, <2>3
<1>4. PICK x \in Int, m \in Int : x = t + a /\ m = k * h
  BY <1>1
<1>5. (x + W * m) % W = x % W
  BY ModAdd
<1> QED
  BY <1>1, <1>3, <1>4, <1>5

\* ipsec_sa_anti_replay_check looks at the bit of the right number.
LEMMA BitPlace ==
  ASSUME TypeOK, NEW i \in 0 .. WindowSize - 1, NEW s \in 0 .. SeqMod - 1,
         s = seq - i \/ s = seq - i + SeqMod
  PROVE  Bit(s) = BitBehind(i)
<1>1. PICK W \in Nat \ {0, 1}, M \in Nat \ {0}, t \in Int :
         W = WindowSize /\ M = SeqMod /\ t = seq /\ t \in 0 .. M - 1 /\ 2 * W <= M /\ M % W = 0
  BY WindowSizes, Sizes DEF TypeOK
<1>2. CASE flags.huge
  <2>1. PICK a \in Int, b \in Int : a = -i /\ b = t - i
    BY <1>1
  <2>2. (Top + a) % WindowSize = (seq + a) % WindowSize
    BY TopMod
  <2>3. Top \in Int
    BY Sizes DEF Top, TypeOK
  <2>4. Top - i = Top + a /\ seq + a = b
    BY <1>1, <2>1, <2>3
  <2>5. s % W = b % W
    <3>1. CASE s = b
      BY <3>1
    <3>2. CASE s = b + M
      <4>1. PICK k \in Int : M = W * k
        BY <1>1, Divides
      <4>2. (b + W * k) % W = b % W
        BY ModAdd
      <4> QED
        BY <3>2, <4>1, <4>2
    <3> QED
      BY <1>1, <2>1, <3>1, <3>2
  <2> QED
    BY <1>1, <1>2, <2>2, <2>4, <2>5 DEF Bit, BitBehind
<1>3. CASE ~flags.huge
  <2>1. PICK x \in Int, r \in 0 .. W - 1 : x = W + s - t - 1 /\ r = W - 1 - i
    BY <1>1
  <2>2. x = r \/ x = r + M
    BY <1>1, <2>1
  <2>3. x % M = r
    <3>1. (x \in 0 .. M - 1 => x % M = x) /\ (x \in M .. 2 * M - 1 => x % M = x - M)
      BY ModNear
    <3> QED
      BY <1>1, <2>1, <2>2, <3>1
  <2>4. r % W = r
    BY ModNear
  <2> QED
    BY <1>1, <1>3, <2>1, <2>3, <2>4, WindowSizes DEF Bit, BitBehind, ShiftCount
<1> QED
  BY <1>2, <1>3

\* Numbers and their halves.
LEMMA Halves ==
  ASSUME NEW n \in Nat
  PROVE  /\ Lo(n) \in 0 .. SeqMod - 1 /\ Hi(n) \in Nat
         /\ n = SeqMod * Hi(n) + Lo(n)
<1>1. SeqMod \in Nat \ {0}
  BY Sizes
<1>2. PICK q \in Int, r \in 0 .. SeqMod - 1 : q = Hi(n) /\ r = Lo(n) /\ n = SeqMod * q + r
  BY <1>1, DivMod DEF Hi, Lo
<1>3. q >= 0
  <2>1. q < 0 => SeqMod * q + SeqMod <= SeqMod * 0
    BY <1>1, Multiples
  <2> QED
    BY <1>1, <1>2, <2>1
<1> QED
  BY <1>2, <1>3

\* The distance of a number from the newest one, in its own, in the next
\* and in the previous epoch.
LEMMA Distance ==
  ASSUME TypeOK, NEW n \in Nat
  PROVE  /\ Hi(n) = seq_hi => n = Top + (Lo(n) - seq)
         /\ Hi(n) = seq_hi + 1 => n = Top + (Lo(n) - seq + SeqMod)
         /\ Hi(n) = seq_hi - 1 => n = Top + (Lo(n) - seq - SeqMod)
<1>1. PICK M \in Nat, g \in Int, t \in Int, h \in Int, s \in Int :
         /\ M = SeqMod /\ g = seq_hi /\ t = seq /\ h = Hi(n) /\ s = Lo(n)
         /\ n = M * h + s
  <2>1. SeqMod \in Nat /\ seq_hi \in Int /\ seq \in Int
    BY Sizes DEF TypeOK
  <2>2. Hi(n) \in Int /\ Lo(n) \in Int /\ n = SeqMod * Hi(n) + Lo(n)
    BY <2>1, Halves
  <2> QED
    BY <2>1, <2>2
<1>2. Top = M * g + t
  <2>1. g * M = M * g
    OBVIOUS
  <2> QED
    BY <1>1, <2>1 DEF Top
<1>3. PICK x \in Int, y \in Int : x = M * g /\ y = M * h
  OBVIOUS
<1>4. M * (g + 1) = x + M /\ M * (g - 1) = x - M
  BY <1>3
<1>5. (h = g => y = x) /\ (h = g + 1 => y = x + M) /\ (h = g - 1 => y = x - M)
  BY <1>3, <1>4
<1> QED
  BY <1>1, <1>2, <1>3, <1>5

\* hi_seq - sa->seq_hi as an int.
LEMMA WrapsIs ==
  ASSUME TypeOK
  PROVE  /\ ~Wraps(seq_hi)
         /\ seq_hi + 1 < SeqMod => Wraps(seq_hi + 1)
         /\ ~Wraps(seq_hi - 1)
<1>1. PICK M \in Nat \ {0}, g \in Int : M = SeqMod /\ g = seq_hi /\ M >= 6
  BY Sizes DEF TypeOK
<1>2. 0 % M = 0 /\ 1 % M = 1 /\ (-1) % M = M - 1
  BY <1>1, ModNear
<1>3. g - g = 0 /\ g + 1 - g = 1 /\ g - 1 - g = -1
  OBVIOUS
<1>4. M \div 2 \in Int /\ M \div 2 >= 3 /\ M \div 2 < M
  BY <1>1
<1> QED
  BY <1>1, <1>2, <1>3, <1>4 DEF Wraps

\* A packet that moves the window to its number, one that only marks it, and
\* one of the epoch before that the window has left behind.
Newer(p) ==
    /\ p.num > Top /\ p.num < Top + SeqMod
    /\ Moves(Lo(p.num), p.hi)
    /\ (Lo(p.num) - seq) % SeqMod = p.num - Top
Late(p) ==
    /\ Top - p.num \in 0 .. WindowSize - 1
    /\ ~Moves(Lo(p.num), p.hi)
    /\ Bit(Lo(p.num)) = BitBehind(Top - p.num)
    /\ BitBehind(Top - p.num) \notin window
Overtaken(p) ==
    /\ flags.esn /\ p.num <= Top - WindowSize /\ p.hi = seq_hi - 1
    /\ ~Moves(Lo(p.num), p.hi)

\* A number ahead by less than a turn.
LEMMA AheadIs ==
  ASSUME TypeOK, NEW n \in Nat, NEW d \in 1 .. SeqMod - 1,
         n = Top + d, d = Lo(n) - seq \/ d = Lo(n) - seq + SeqMod
  PROVE  n > Top /\ n < Top + SeqMod /\ (Lo(n) - seq) % SeqMod = n - Top
<1>1. PICK M \in Nat \ {0}, x \in Int, T \in Int :
         M = SeqMod /\ x = Lo(n) - seq /\ T = Top
  <2>1. Top \in Int
    BY Sizes DEF Top, TypeOK
  <2>2. SeqMod \in Nat \ {0} /\ seq \in Int
    BY Sizes DEF TypeOK
  <2>3. Lo(n) \in Int
    BY <2>2, Halves
  <2> QED
    BY <2>1, <2>2, <2>3
<1>2. (x \in 0 .. M - 1 => x % M = x) /\ (x \in -M .. -1 => x % M = x + M)
  BY ModNear
<1>3. x % M = d
  BY <1>1, <1>2
<1> QED
  BY <1>1, <1>3

\* A number behind by less than a window whose bit is not set.
LEMMA BehindIs ==
  ASSUME TypeOK, NEW n \in Nat, NEW i \in 0 .. WindowSize - 1,
         n = Top - i, Lo(n) = seq - i \/ Lo(n) = seq - i + SeqMod,
         ~ipsec_sa_anti_replay_check(Lo(n))
  PROVE  /\ Top - n \in 0 .. WindowSize - 1
         /\ Bit(Lo(n)) = BitBehind(Top - n)
         /\ BitBehind(Top - n) \notin window
<1>1. Top \in Int /\ WindowSize \in Nat
  BY Sizes, WindowSizes DEF Top, TypeOK
<1>2. Top - n = i
  BY <1>1
<1>3. Lo(n) \in 0 .. SeqMod - 1
  BY Halves
<1>4. Bit(Lo(n)) = BitBehind(i)
  BY <1>3, BitPlace
<1> QED
  BY <1>2, <1>4 DEF ipsec_sa_anti_replay_check

\* The check after decryption lets through only packets ahead of the newest,
\* packets in the window whose bit is not set, and overtaken ones.
LEMMA Verdict ==
  ASSUME IInv, flags.ar, flight # << >>, Accepts(Head(flight))
  PROVE  Newer(Head(flight)) \/ Late(Head(flight)) \/ Overtaken(Head(flight))
<1>1. PICK n \in Nat, hi \in 0 .. SeqMod - 1 : Head(flight).num = n /\ Head(flight).hi = hi
  <2>1. flight \in Seq([num : Nat, hi : 0 .. SeqMod - 1])
    BY DEF IInv, TypeOK
  <2>2. Head(flight) \in [num : Nat, hi : 0 .. SeqMod - 1]
    BY <2>1, HeadTailType
  <2> QED
    BY <2>2
<1>2. /\ n >= 1 /\ Hi(n) < SeqMod
      /\ flags.esn \/ n < SeqMod
      /\ Near(Head(flight))
  <2>1. flight \in Seq([num : Nat, hi : 0 .. SeqMod - 1])
    BY DEF IInv, TypeOK
  <2>2. Head(flight) = flight[1] /\ 1 \in 1 .. Len(flight)
    BY <2>1, HeadTailType
  <2> QED
    BY <1>1, <2>2 DEF IInv, FlightOK, Fit
<1>3. PICK M \in Nat \ {0}, W \in Nat \ {0, 1}, t \in Int, g \in Int, T \in Int :
         /\ M = SeqMod /\ W = WindowSize /\ t = seq /\ g = seq_hi /\ T = Top
         /\ t \in 0 .. M - 1 /\ g \in 0 .. M - 1 /\ 2 * W <= M
  <2>1. Top \in Int
    BY Sizes DEF Top, IInv, TypeOK
  <2> QED
    BY <2>1, Sizes, WindowSizes DEF IInv, TypeOK
<1>4. PICK s \in Int, h \in Nat :
         s = Lo(n) /\ h = Hi(n) /\ s \in 0 .. M - 1 /\ h < M /\ n = M * h + s
  <2>1. Lo(n) \in 0 .. SeqMod - 1 /\ Hi(n) \in Nat /\ n = SeqMod * Hi(n) + Lo(n)
    BY Halves
  <2> QED
    BY <1>2, <1>3, <2>1
<1>l. s \in 0 .. M - 1 /\ h < M
  BY <1>4
<1>5. TypeOK /\ flags.esn \in BOOLEAN
  BY DEF IInv, TypeOK
<1>6. /\ flags.esn => hi = h
      /\ ~Replayed(s, hi, TRUE)
  BY <1>1, <1>4 DEF Accepts, Decrypts
<1>7. ASSUME NEW d \in 1 .. M - 1, n = T + d, d = s - t \/ d = s - t + M, Moves(s, hi)
      PROVE  Newer(Head(flight))
  <2>1. n > Top /\ n < Top + SeqMod /\ (Lo(n) - seq) % SeqMod = n - Top
    BY <1>3, <1>4, <1>5, <1>7, AheadIs
  <2> QED
    BY <1>1, <1>4, <1>7, <2>1 DEF Newer
<1>8. ASSUME NEW i \in 0 .. W - 1, n = T - i, s = t - i \/ s = t - i + M, ~Moves(s, hi),
             ~ipsec_sa_anti_replay_check(s)
      PROVE  Late(Head(flight))
  <2>1. /\ Top - n \in 0 .. WindowSize - 1
        /\ Bit(Lo(n)) = BitBehind(Top - n)
        /\ BitBehind(Top - n) \notin window
    BY <1>3, <1>4, <1>5, <1>8, BehindIs
  <2> QED
    BY <1>1, <1>4, <1>8, <2>1 DEF Late
<1>9. h = g => n = T + (s - t)
  BY <1>3, <1>4, <1>5, Distance
<1>10. CASE ~flags.esn
  <2>1. h = 0 /\ g = 0
    <3>1. 0 < h => M * 0 + M <= M * h
      BY Multiples
    <3>2. M * 0 = 0
      OBVIOUS
    <3>3. PICK x \in Int : x = M * h
      OBVIOUS
    <3>4. n < M
      BY <1>2, <1>3, <1>10
    <3>5. ~(0 < h)
      BY <1>4, <3>1, <3>2, <3>3, <3>4
    <3> QED
      BY <1>3, <1>4, <1>10, <3>5 DEF IInv, EpochOK
  <2>2. n = T + (s - t)
    BY <1>9, <2>1
  <2>3. ~(s <= t /\ (OutOfWindow(s) \/ ipsec_sa_anti_replay_check(s)))
    BY <1>3, <1>6, <1>10 DEF Replayed
  <2>4. Moves(s, hi) <=> s > t
    BY <1>3, <1>10 DEF Moves
  <2>5. CASE s > t
    <3>1. s - t \in 1 .. M - 1
      BY <1>3, <1>4, <2>5
    <3> QED
      BY <1>7, <2>2, <2>4, <2>5, <3>1
  <2>6. CASE ~(s > t)
    <3>1. s <= t /\ ~OutOfWindow(s) /\ ~ipsec_sa_anti_replay_check(s)
      BY <1>3, <1>4, <2>3, <2>6
    <3>2. PICK x \in Int : x = s + W
      BY <1>3
    <3>3. (x \in 0 .. M - 1 => x % M = x) /\ (x \in M .. 2 * M - 1 => x % M = x - M)
      BY ModNear
    <3>4. t < x % M
      <4>1. OutOfWindow(s) <=> t >= x % M
        BY <1>3, <3>2 DEF OutOfWindow
      <4>2. x % M \in Int
        BY DivMod
      <4> QED
        BY <3>1, <4>1, <4>2
    <3>5. PICK i \in 0 .. W - 1 : i = t - s
      <4>0. s <= t /\ s \in 0 .. M - 1 /\ 2 * W <= M /\ x \in 0 .. 2 * M - 1
        <5>1. s <= t
          BY <3>1
        <5>2. s \in 0 .. M - 1 /\ 2 * W <= M
          BY <1>3, <1>4
        <5>3. x \in 0 .. 2 * M - 1
          BY <3>2, <5>2
        <5> QED
          BY <5>1, <5>2, <5>3
      <4>1. t - s \in 0 .. W - 1
        <5>1. CASE x \in 0 .. M - 1
          BY <3>2, <3>3, <3>4, <4>0, <5>1
        <5>2. CASE x \in M .. 2 * M - 1
          BY <3>2, <3>3, <3>4, <4>0, <5>2
        <5> QED
          BY <4>0, <5>1, <5>2
      <4> QED
        BY <4>1
    <3>6. n = T - i /\ s = t - i
      BY <2>2, <3>5
    <3> QED
      BY <1>8, <2>4, <2>6, <3>1, <3>6
  <2> QED
    BY <2>5, <2>6
<1>11. PICK lb \in Int : /\ lb = LowerBound
                         /\ CaseA <=> t >= W - 1
                         /\ t >= W - 1 => lb = t - W + 1
                         /\ t < W - 1 => lb = t - W + 1 + M
  BY <1>3, <1>5, Lower DEF CaseA
<1>12. CASE flags.esn /\ h = g
  <2>1. n = T + (s - t)
    BY <1>9, <1>12
  <2>2. Moves(s, hi) <=> s > t
    <3>1. hi = seq_hi /\ ~Wraps(hi)
      BY <1>3, <1>5, <1>6, <1>12, WrapsIs
    <3> QED
      BY <1>3, <1>12, <3>1 DEF Moves
  <2>3. CASE s > t
    <3>1. s - t \in 1 .. M - 1
      BY <1>3, <1>4, <2>3
    <3> QED
      BY <1>7, <2>1, <2>2, <2>3, <3>1
  <2>4. CASE ~(s > t)
    <3>1. /\ s < lb => (IF CaseA THEN hi # g ELSE ~(s <= t /\ ipsec_sa_anti_replay_check(s)))
          /\ s >= lb => ~((CaseA => s <= t) /\ ipsec_sa_anti_replay_check(s))
      BY <1>3, <1>l, <1>6, <1>11, <1>12 DEF Replayed
    <3>2. s <= t /\ hi = g
      BY <1>3, <1>4, <1>6, <1>12, <2>4
    <3>3. ~ipsec_sa_anti_replay_check(s) /\ t - s <= W - 1
      BY <1>3, <1>l, <1>11, <3>1, <3>2
    <3>4. PICK i \in 0 .. W - 1 : i = t - s
      BY <1>3, <1>l, <3>2, <3>3
    <3>5. n = T - i /\ s = t - i
      BY <2>1, <3>4
    <3> QED
      BY <1>8, <2>2, <2>4, <3>3, <3>5
  <2> QED
    BY <2>3, <2>4
<1>13. ASSUME flags.esn
       PROVE  h \in g - 1 .. g + 1
  <2>1. n > T - M /\ n <= T - W + M
    BY <1>1, <1>2, <1>3, <1>4, <1>6, <1>13 DEF Near, Guessed
  <2>2. T = M * g + t
    BY <1>3 DEF Top
  <2>3. PICK x \in Int, y \in Int : x = M * g /\ y = M * h
    OBVIOUS
  <2>4. M * (g - 1) = x - M /\ M * (g + 1) = x + M
    BY <2>3
  <2>5. h < g - 1 => y + M <= x - M
    BY <2>3, <2>4, Multiples
  <2>6. g + 1 < h => x + M + M <= y
    BY <2>3, <2>4, Multiples
  <2>7. n = y + s /\ T = x + t
    BY <1>4, <2>2, <2>3
  <2> QED
    BY <1>3, <1>l, <2>1, <2>5, <2>6, <2>7
<1>14. CASE flags.esn /\ h = g + 1
  <2>1. n = T + (s - t + M)
    BY <1>3, <1>4, <1>5, <1>14, Distance
  <2>2. n <= T - W + M
    BY <1>1, <1>2, <1>3, <1>4, <1>6, <1>14 DEF Near, Guessed
  <2>3. s - t + M \in 1 .. M - 1
    BY <1>3, <1>l, <2>1, <2>2
  <2>4. Moves(s, hi)
    <3>1. Wraps(seq_hi + 1)
      BY <1>3, <1>4, <1>5, <1>14, WrapsIs
    <3> QED
      BY <1>3, <1>6, <1>14, <3>1 DEF Moves
  <2> QED
    BY <1>7, <2>1, <2>3, <2>4
<1>15. CASE flags.esn /\ h = g - 1
  <2>1. n = T + (s - t - M)
    BY <1>3, <1>4, <1>5, <1>15, Distance
  <2>2. hi = seq_hi - 1 /\ ~Moves(s, hi)
    <3>1. hi = seq_hi - 1 /\ hi # seq_hi /\ ~Wraps(hi)
      BY <1>3, <1>5, <1>6, <1>15, WrapsIs
    <3> QED
      BY <1>15, <3>1 DEF Moves
  <2>3. CASE n <= T - W
    BY <1>1, <1>3, <1>4, <1>15, <2>2, <2>3 DEF Overtaken
  <2>4. CASE n > T - W
    <3>1. PICK i \in 0 .. W - 1 : i = t - s + M
      <4>1. t - s + M \in 0 .. W - 1
        BY <1>3, <1>l, <2>1, <2>4
      <4> QED
        BY <4>1
    <3>2. s = t - i + M /\ n = T - i
      BY <2>1, <3>1
    <3>3. t < W - 1 /\ ~(s < lb)
      BY <1>3, <1>l, <1>11, <3>1
    <3>4. ~ipsec_sa_anti_replay_check(s)
      BY <1>3, <1>6, <1>11, <1>15, <3>3 DEF Replayed
    <3> QED
      BY <1>8, <2>2, <3>2, <3>4
  <2> QED
    BY <1>3, <2>3, <2>4
<1>16. flags.esn => h = g - 1 \/ h = g \/ h = g + 1
  BY <1>3, <1>4, <1>13
<1> QED
  BY <1>5, <1>10, <1>12, <1>14, <1>15, <1>16

\* A packet whose high half is guessed right is in the window or less than a
\* turn ahead of its lower bound.
LEMMA GuessNear ==
  ASSUME IInv, flags.ar, flags.esn, NEW n \in Arriving,
         HiSeqReq(Lo(n)) = Hi(n), ~Replayed(Lo(n), 0, FALSE)
  PROVE  n > Top - WindowSize /\ n <= Top - WindowSize + SeqMod
<1>1. PICK M \in Nat \ {0}, W \in Nat \ {0, 1}, t \in Int, g \in Int, T \in Int :
         /\ M = SeqMod /\ W = WindowSize /\ t = seq /\ g = seq_hi /\ T = Top
         /\ t \in 0 .. M - 1 /\ g \in 0 .. M - 1 /\ 2 * W <= M
  <2>1. Top \in Int
    BY Sizes DEF Top, IInv, TypeOK
  <2> QED
    BY <2>1, Sizes, WindowSizes DEF IInv, TypeOK
<1>2. TypeOK
  BY DEF IInv
<1>3. n \in Nat /\ n >= T - Behind /\ Hi(n) < M
  <2>1. n \in Nat
    BY <1>2, ArrivingType
  <2> QED
    BY <1>1, <2>1 DEF Arriving
<1>4. PICK s \in Int, h \in Nat :
         s = Lo(n) /\ h = Hi(n) /\ s \in 0 .. M - 1 /\ h < M /\ n = M * h + s
  <2>1. Lo(n) \in 0 .. SeqMod - 1 /\ Hi(n) \in Nat /\ n = SeqMod * Hi(n) + Lo(n)
    BY <1>3, Halves
  <2> QED
    BY <1>1, <1>3, <2>1
<1>l. s \in 0 .. M - 1
  BY <1>4
<1>5. PICK lb \in Int : /\ lb = LowerBound
                        /\ CaseA <=> t >= W - 1
                        /\ t >= W - 1 => lb = t - W + 1
                        /\ t < W - 1 => lb = t - W + 1 + M
  BY <1>1, <1>2, Lower DEF CaseA
<1>6. h = IF CaseA THEN IF s < lb THEN (g + 1) % M ELSE g
                   ELSE IF s < lb THEN g ELSE (g - 1) % M
  BY <1>1, <1>4, <1>5 DEF HiSeqReq
<1>7. (g + 1 < M => (g + 1) % M = g + 1) /\ (g + 1 = M => (g + 1) % M = 0)
  <2>1. PICK x \in Int : x = g + 1
    BY <1>1
  <2>2. (x \in 0 .. M - 1 => x % M = x) /\ (x \in M .. 2 * M - 1 => x % M = x - M)
    BY ModNear
  <2> QED
    BY <1>1, <2>1, <2>2
<1>8. g > 0 => (g - 1) % M = g - 1
  <2>1. PICK x \in Int : x = g - 1
    BY <1>1
  <2>2. x \in 0 .. M - 1 => x % M = x
    BY ModNear
  <2> QED
    BY <1>1, <2>1, <2>2
<1>9. CASE h = g
  <2>1. n = T + (s - t)
    BY <1>1, <1>2, <1>3, <1>4, <1>9, Distance
  <2>2. (t >= W - 1 /\ s >= lb) \/ (t < W - 1 /\ s < lb) \/ (g + 1) % M = g \/ (g - 1) % M = g
    BY <1>1, <1>4, <1>5, <1>6, <1>9
  <2>3. (g + 1) % M # g
    BY <1>1, <1>7
  <2>4. (g - 1) % M # g
    <3>1. PICK x \in Int : x = g - 1
      BY <1>1
    <3>2. x \in -M .. -1 => x % M = x + M
      BY ModNear
    <3> QED
      BY <1>1, <1>8, <3>1, <3>2
  <2>5. (t >= W - 1 /\ s >= lb) \/ (t < W - 1 /\ s < lb)
    BY <2>2, <2>3, <2>4
  <2> QED
    BY <1>1, <1>l, <1>5, <2>1, <2>5
<1>10. CASE h # g /\ t >= W - 1
  <2>1. s < lb /\ h = (g + 1) % M
    BY <1>5, <1>6, <1>10
  <2>2. g + 1 # M
    <3> SUFFICES ASSUME g + 1 = M
                 PROVE  FALSE
      OBVIOUS
    <3>1. h = 0 /\ M * h = 0
      BY <1>7, <2>1
    <3>2. T = g * M + t
      BY <1>1 DEF Top
    <3>3. Behind <= M * (M - 1) /\ Behind \in Int
      BY <1>1, ArrivalAssumption
    <3>4. g * M = M * (M - 1)
      BY <1>1
    <3>5. PICK x \in Int : x = M * (M - 1)
      OBVIOUS
    <3>6. n = s /\ T = x + t
      BY <1>4, <3>1, <3>2, <3>4, <3>5
    <3> QED
      BY <1>1, <1>3, <1>4, <1>5, <1>10, <2>1, <3>3, <3>5, <3>6
  <2>3. h = g + 1
    BY <1>1, <1>7, <2>1, <2>2
  <2>4. n = T + (s - t + M)
    BY <1>1, <1>2, <1>3, <1>4, <2>3, Distance
  <2> QED
    BY <1>1, <1>l, <1>5, <1>10, <2>1, <2>4
<1>11. CASE h # g /\ t < W - 1
  <2>1. s >= lb /\ h = (g - 1) % M
    BY <1>1, <1>4, <1>5, <1>6, <1>11
  <2>2. ~ipsec_sa_anti_replay_check(s)
    BY <1>1, <1>4, <1>5, <1>11, <2>1 DEF Replayed
  <2>3. PICK i \in 0 .. W - 1 : s = t - i + M /\ i > t
    <3>1. t - s + M \in 0 .. W - 1 /\ t - s + M > t
      BY <1>1, <1>l, <1>5, <1>11, <2>1
    <3>2. PICK i \in 0 .. W - 1 : i = t - s + M
      BY <3>1
    <3>3. s = t - i + M /\ i > t
      BY <3>1, <3>2
    <3> QED
      BY <3>3
  <2>4. g > 0
    <3> SUFFICES ASSUME g = 0
                 PROVE  FALSE
      BY <1>1
    <3>1. T = t
      BY <1>1 DEF Top
    <3>2. Bit(s) = BitBehind(i)
      BY <1>1, <1>2, <1>4, <2>3, BitPlace
    <3>3. Marked(Top - i)
      BY <1>1, <2>3, <3>1 DEF Marked
    <3>4. BitBehind(i) \in window
      BY <1>1, <3>3 DEF IInv, WindowOK
    <3> QED
      BY <2>2, <3>2, <3>4 DEF ipsec_sa_anti_replay_check
  <2>5. h = g - 1
    BY <1>8, <2>1, <2>4
  <2>6. n = T + (s - t - M)
    BY <1>1, <1>2, <1>3, <1>4, <2>5, Distance
  <2> QED
    BY <1>1, <2>3, <2>6
<1> QED
  BY <1>1, <1>9, <1>10, <1>11

-----------------------------------------------------------------------------
(* The window.                                                             *)

\* The newest number as a number.
LEMMA TopType ==
  ASSUME TypeOK
  PROVE  Top \in Nat
<1>1. PICK M \in Nat, h \in Nat, t \in Nat : M = SeqMod /\ h = seq_hi /\ t = seq
  BY Sizes DEF TypeOK
<1>2. h * M \in Nat
  OBVIOUS
<1> QED
  BY <1>1, <1>2 DEF Top

\* A word that is shifted by inc has the bits it had, each for the number it
\* was for, and that of the new number.
LEMMA ShiftWord ==
  ASSUME IInv, flags.ar, ~flags.huge, NEW inc \in 1 .. SeqMod - 1,
         NEW i \in 0 .. WindowSize - 1
  PROVE  WindowSize - 1 - i \in WindowShift(inc)
            <=> i = 0 \/ (i >= inc /\ BitBehind(i - inc) \in window)
<1>1. PICK W \in Nat \ {0, 1}, T \in Nat : W = WindowSize /\ T = Top
  BY WindowSizes, TopType DEF IInv
<1>2. inc \in Nat \ {0}
  BY Sizes
<1>4. \A k : BitBehind(k) = W - 1 - k
  BY <1>1 DEF BitBehind
<1>5. window \subseteq 0 .. W - 1
  BY <1>1 DEF IInv, TypeOK
<1>6. WindowShift(inc)
         = {j - inc : j \in {k \in window : inc < W /\ k \notin 0 .. inc - 1}} \cup {W - 1}
  <2>1. inc < W => Leaving(inc) = window \cap (0 .. inc - 1)
    BY <1>1, <1>2, WindowSizes DEF Leaving, Pow2Mask
  <2>2. WindowShift(inc)
           = {j - inc : j \in IF inc < W THEN window \ Leaving(inc) ELSE {}} \cup {W - 1}
    BY <1>1 DEF WindowShift
  <2>3. (IF inc < W THEN window \ Leaving(inc) ELSE {})
           = {k \in window : inc < W /\ k \notin 0 .. inc - 1}
    BY <2>1
  <2> QED
    BY <2>2, <2>3
<1>7. CASE i = 0
  BY <1>1, <1>6, <1>7
<1>8. CASE i > 0 /\ i < inc
  <2>2. W - 1 - i \notin WindowShift(inc)
    BY <1>1, <1>2, <1>5, <1>6, <1>8
  <2> QED
    BY <1>1, <1>2, <1>8, <2>2
<1>9. CASE i >= inc
  <2>1. PICK k \in 0 .. W - 1 : k = i - inc
    <3>1. i - inc \in 0 .. W - 1
      BY <1>1, <1>2, <1>9
    <3> QED
      BY <3>1
  <2>2. i # 0
    BY <1>2, <1>9
  <2>3. W - 1 - k \in window <=> W - 1 - i \in WindowShift(inc)
    <3>1. /\ W - 1 - i = (W - 1 - k) - inc /\ inc < W
          /\ W - 1 - k \notin 0 .. inc - 1 /\ W - 1 - i # W - 1
      BY <1>1, <1>2, <1>9, <2>1
    <3>2. \A j \in window : j - inc = W - 1 - i => j = W - 1 - k
      BY <1>1, <1>2, <1>5, <2>1
    <3> QED
      BY <1>6, <3>1, <3>2
  <2> QED
    BY <1>1, <1>4, <1>9, <2>1, <2>2, <2>3
<1> QED
  BY <1>1, <1>2, <1>7, <1>8, <1>9

\* So does a ring that moves by inc.
LEMMA ShiftRing ==
  ASSUME IInv, Bmi2, flags.ar, flags.huge, NEW inc \in 1 .. SeqMod - 1,
         NEW i \in 0 .. WindowSize - 1
  PROVE  (Top + inc - i) % WindowSize \in WindowShift(inc)
            <=> i = 0 \/ (i >= inc /\ BitBehind(i - inc) \in window)
<1>1. PICK W \in Nat \ {0, 1}, T \in Nat, t \in Int :
         W = WindowSize /\ T = Top /\ W = HugeSize /\ t = seq
  <2>1. Top \in Nat
    BY TopType DEF IInv
  <2>2. seq \in Int
    BY Sizes DEF IInv, TypeOK
  <2> QED
    BY <2>1, <2>2, WindowSizes
<1>2. inc \in Nat \ {0}
  BY Sizes
<1>4. \A k : BitBehind(k) = (T - k) % W
  BY <1>1 DEF BitBehind
<1>5. \A a \in Int : (t + a) % W = (T + a) % W
  BY <1>1, TopMod DEF IInv
<1>6. (t + inc) % W = (T + inc) % W
  BY <1>2, <1>5
<1>7. WindowShift(inc) = {k \in window : inc < W /\ k \notin Turn(inc)} \cup {(T + inc) % W}
  <2>1. ASSUME inc < W
        PROVE  Leaving(inc) = window \cap Turn(inc)
    <3>1. inc \in 0 .. HugeSize - 1 /\ TypeOK
      BY <1>1, <1>2, <2>1 DEF IInv
    <3>2. Cleared(inc) = Turn(inc)
      BY <3>1, ClearedTurn
    <3> QED
      BY <3>2 DEF Leaving
  <2>2. WindowShift(inc) = (IF inc < W THEN window \ Leaving(inc) ELSE {}) \cup {(t + inc) % W}
    BY <1>1 DEF WindowShift
  <2>3. (IF inc < W THEN window \ Leaving(inc) ELSE {})
           = {k \in window : inc < W /\ k \notin Turn(inc)}
    BY <2>1
  <2> QED
    BY <1>6, <2>2, <2>3
<1>8. Turn(inc) = {(T + j) % W : j \in 1 .. inc}
  <2>1. \A j \in 1 .. inc : (t + j) % W = (T + j) % W
    BY <1>2, <1>5
  <2>2. Turn(inc) = {(t + j) % W : j \in 1 .. inc}
    BY <1>1 DEF Turn
  <2> QED
    BY <2>1, <2>2
<1>9. i \in Int /\ i >= 0 /\ i < W
  BY <1>1
<1>10. i > 0 => (T + inc - i) % W # (T + inc) % W
  <2>1. PICK a \in Int, b \in Int : a = T + inc - i /\ b = T + inc
    BY <1>2, <1>9
  <2>2. a < b /\ b < a + W => a % W # b % W
    BY ModApart
  <2> QED
    BY <1>2, <1>9, <2>1, <2>2
<1>11. CASE i = 0
  <2>1. T + inc - i = T + inc
    BY <1>2, <1>11
  <2> QED
    BY <1>1, <1>7, <1>11, <2>1
<1>12. CASE i > 0 /\ i < inc
  <2>2. PICK j \in 1 .. inc : T + inc - i = T + j
    <3>1. PICK j \in 1 .. inc : j = inc - i
      <4>1. inc - i \in 1 .. inc
        BY <1>2, <1>9, <1>12
      <4> QED
        BY <4>1
    <3>2. T + inc - i = T + j
      BY <1>2, <1>9, <3>1
    <3> QED
      BY <3>2
  <2>3. (T + inc - i) % W \in Turn(inc)
    BY <1>8, <2>2
  <2> QED
    BY <1>1, <1>2, <1>7, <1>9, <1>10, <1>12, <2>3
<1>13. CASE i >= inc
  <2>1. PICK k \in 0 .. W - 1 : k = i - inc
    <3>1. i - inc \in 0 .. W - 1
      BY <1>2, <1>9, <1>13
    <3> QED
      BY <3>1
  <2>2. T - k = T + inc - i /\ i > 0 /\ inc < W
    BY <1>2, <1>9, <1>13, <2>1
  <2>3. (T - k) % W \notin Turn(inc)
    <3> SUFFICES ASSUME NEW j \in 1 .. inc
                 PROVE  (T - k) % W # (T + j) % W
      BY <1>8
    <3>1. PICK a \in Int, b \in Int : a = T - k /\ b = T + j
      BY <1>2
    <3>2. a < b /\ b < a + W => a % W # b % W
      BY ModApart
    <3> QED
      BY <1>2, <1>9, <2>1, <3>1, <3>2
  <2>4. PICK z \in Int : z = T - k /\ z = T + inc - i
    BY <2>2
  <2>5. z % W = BitBehind(i - inc)
    BY <1>4, <2>1, <2>4
  <2>6. z % W \in WindowShift(inc) <=> z % W \in window
    BY <1>7, <1>10, <2>2, <2>3, <2>4
  <2> QED
    BY <1>1, <1>13, <2>2, <2>4, <2>5, <2>6
<1> QED
  BY <1>2, <1>9, <1>11, <1>12, <1>13

\* The bits of different numbers are different.
LEMMA BitsApart ==
  ASSUME TypeOK, NEW i \in 0 .. WindowSize - 1, NEW k \in 0 .. WindowSize - 1, i # k
  PROVE  BitBehind(i) # BitBehind(k)
<1>1. PICK W \in Nat \ {0, 1}, T \in Nat : W = WindowSize /\ T = Top
  BY WindowSizes, TopType
<1>2. CASE flags.huge
  <2>1. PICK a \in Int, b \in Int : a = T - i /\ b = T - k
    BY <1>1
  <2>2. a < b /\ b < a + W => a % W # b % W
    BY ModApart
  <2>3. b < a /\ a < b + W => b % W # a % W
    BY ModApart
  <2>4. a % W # b % W
    BY <1>1, <2>1, <2>2, <2>3
  <2> QED
    BY <1>1, <1>2, <2>1, <2>4 DEF BitBehind
<1>3. CASE ~flags.huge
  BY <1>1, <1>3 DEF BitBehind
<1> QED
  BY <1>2, <1>3

\* The number that a packet moves the window to is its own.
LEMMA NewTop ==
  ASSUME IInv, PostAccept, Newer(Head(flight))
  PROVE  /\ Top' = Head(flight).num
         /\ window' = WindowShift(Head(flight).num - Top)
         /\ lost' = lost + NLost(Head(flight).num - Top)
         /\ accepted' = accepted \cup {Head(flight).num}
         /\ Head(flight).num - Top \in 1 .. SeqMod - 1
         /\ UNCHANGED << flags, stray >>
<1>1. PICK n \in Nat, hi \in 0 .. SeqMod - 1 : Head(flight).num = n /\ Head(flight).hi = hi
  <2>1. flight \in Seq([num : Nat, hi : 0 .. SeqMod - 1]) /\ flight # << >>
    BY DEF IInv, TypeOK, PostAccept
  <2>2. Head(flight) \in [num : Nat, hi : 0 .. SeqMod - 1]
    BY <2>1, HeadTailType
  <2> QED
    BY <2>2
<1>2. flags.esn \/ n < SeqMod
  <2>1. flight \in Seq([num : Nat, hi : 0 .. SeqMod - 1]) /\ flight # << >>
    BY DEF IInv, TypeOK, PostAccept
  <2>2. Head(flight) = flight[1] /\ 1 \in 1 .. Len(flight)
    BY <2>1, HeadTailType
  <2> QED
    BY <1>1, <2>2 DEF IInv, FlightOK, Fit
<1>3. (Lo(n) - seq) % SeqMod = n - Top /\ n > Top /\ n < Top + SeqMod /\ Moves(Lo(n), hi)
  BY <1>1 DEF Newer
<1>4. /\ window' = WindowShift(n - Top) /\ lost' = lost + NLost(n - Top)
      /\ seq' = Lo(n) /\ seq_hi' = IF flags.esn THEN hi ELSE seq_hi
  BY <1>1, <1>3 DEF PostAccept, Advance
<1>5. flags.esn => hi = Hi(n)
  BY <1>1 DEF PostAccept, Accepts, Decrypts
<1>6. SeqMod \in Nat \ {0} /\ Top \in Nat
  BY Sizes, TopType DEF IInv
<1>7. PICK q \in Nat, r \in 0 .. SeqMod - 1 : q = Hi(n) /\ r = Lo(n) /\ n = SeqMod * q + r
  BY Halves
<1>8. ~flags.esn => q = 0 /\ seq_hi = 0
  <2>1. 0 < q => SeqMod * 0 + SeqMod <= SeqMod * q
    BY <1>6, Multiples
  <2>2. SeqMod * 0 = 0
    BY <1>6
  <2>3. PICK x \in Int : x = SeqMod * q
    BY <1>6
  <2> QED
    BY <1>2, <1>6, <1>7, <2>1, <2>2, <2>3 DEF IInv, EpochOK
<1>9. seq_hi' = q /\ seq' = r
  BY <1>4, <1>5, <1>7, <1>8
<1>10. Top' = n
  <2>1. q * SeqMod = SeqMod * q
    BY <1>6
  <2> QED
    BY <1>7, <1>9, <2>1 DEF Top
<1>11. n - Top \in 1 .. SeqMod - 1
  BY <1>3, <1>6
<1>12. stray' = stray
  <2>1. ~LeftBehind(n)
    BY <1>3, <1>6, WindowSizes DEF LeftBehind
  <2> QED
    BY <1>1, <2>1 DEF PostAccept, IInv, TypeOK
<1> QED
  BY <1>1, <1>4, <1>10, <1>11, <1>12 DEF PostAccept

\* A late packet leaves the window where it is,
LEMMA SameTop ==
  ASSUME TypeOK, PostAccept, Late(Head(flight))
  PROVE  /\ window' = window \cup {BitBehind(Top - Head(flight).num)}
         /\ accepted' = accepted \cup {Head(flight).num}
         /\ UNCHANGED << flags, seq, seq_hi, lost, Top, stray >>
<1>1. ~LeftBehind(Head(flight).num)
  <2>1. PICK n \in Nat : n = Head(flight).num
    <3>1. flight \in Seq([num : Nat, hi : 0 .. SeqMod - 1]) /\ flight # << >>
      BY DEF TypeOK, PostAccept
    <3>2. Head(flight) \in [num : Nat, hi : 0 .. SeqMod - 1]
      BY <3>1, HeadTailType
    <3> QED
      BY <3>2
  <2>2. PICK W \in Nat, T \in Nat : W = WindowSize /\ T = Top
    BY WindowSizes, TopType
  <2>3. T - n \in 0 .. W - 1
    BY <2>1, <2>2 DEF Late
  <2>4. ~(n <= T - W)
    BY <2>3
  <2> QED
    BY <2>1, <2>2, <2>4 DEF LeftBehind
<1>2. /\ window' = window \cup {BitBehind(Top - Head(flight).num)}
      /\ accepted' = accepted \cup {Head(flight).num}
      /\ UNCHANGED << flags, seq, seq_hi, lost, Top >>
  BY DEF PostAccept, Advance, Late, Top
<1>3. stray' = stray
  BY <1>1 DEF PostAccept, TypeOK
<1> QED
  BY <1>2, <1>3

\* and so does an overtaken one, but for a bit.
LEMMA StrayTop ==
  ASSUME PostAccept, flags.ar, Overtaken(Head(flight))
  PROVE  /\ window \subseteq window'
         /\ accepted' = accepted \cup {Head(flight).num}
         /\ stray'
         /\ UNCHANGED << flags, seq, seq_hi, lost, Top >>
<1>1. LeftBehind(Head(flight).num)
  BY DEF Overtaken, LeftBehind
<1> QED
  BY <1>1 DEF PostAccept, Advance, Overtaken, Top

\* No step makes the window show anything but the accepted numbers.
LEMMA WindowNext ==
  ASSUME IInv, Bmi2, [Next]_vars
  PROVE  AcceptedOK' /\ WindowOK'
<1>1. CASE UNCHANGED << flags, saVars, accepted, stray >>
  <2>1. UNCHANGED << flags, seq, seq_hi, window, accepted, stray, Top, WindowSize >>
    BY <1>1 DEF saVars, Top, WindowSize
  <2> QED
    BY <2>1 DEF IInv, AcceptedOK, WindowOK, BitBehind, Marked
<1>2. ASSUME PostAccept, flags.ar
      PROVE  AcceptedOK' /\ WindowOK'
  <2>1. PICK n \in Nat : n = Head(flight).num
    <3>1. flight \in Seq([num : Nat, hi : 0 .. SeqMod - 1]) /\ flight # << >>
      BY <1>2 DEF IInv, TypeOK, PostAccept
    <3>2. Head(flight) \in [num : Nat, hi : 0 .. SeqMod - 1]
      BY <3>1, HeadTailType
    <3> QED
      BY <3>2
  <2>2. n >= 1
    <3>1. flight \in Seq([num : Nat, hi : 0 .. SeqMod - 1]) /\ flight # << >>
      BY <1>2 DEF IInv, TypeOK, PostAccept
    <3>2. Head(flight) = flight[1] /\ 1 \in 1 .. Len(flight)
      BY <3>1, HeadTailType
    <3> QED
      BY <2>1, <3>2 DEF IInv, FlightOK, Fit
  <2>3. PICK W \in Nat \ {0, 1}, T \in Nat : W = WindowSize /\ T = Top
    <3>1. Top \in Nat
      BY TopType DEF IInv
    <3> QED
      BY <3>1, WindowSizes
  <2>4. accepted \subseteq 1 .. T
    BY <1>2, <2>3 DEF IInv, AcceptedOK
  <2>5. Newer(Head(flight)) \/ Late(Head(flight)) \/ Overtaken(Head(flight))
    BY <1>2, Verdict DEF PostAccept
  <2>6. CASE Newer(Head(flight))
    <3>1. PICK inc \in 1 .. SeqMod - 1 : inc = n - Top
      BY <1>2, <2>1, <2>6, NewTop
    <3>2. /\ Top' = n /\ window' = WindowShift(inc) /\ accepted' = accepted \cup {n}
          /\ flags' = flags /\ stray' = stray
      BY <1>2, <2>1, <2>6, <3>1, NewTop
    <3>3. inc \in Nat \ {0} /\ n = T + inc
      BY <2>3, <3>1, Sizes
    <3>4. AcceptedOK'
      BY <2>2, <2>4, <3>2, <3>3 DEF AcceptedOK
    <3>5. ASSUME NEW i \in 0 .. W - 1
          PROVE  /\ (Marked(Top - i))' => (BitBehind(i))' \in window'
                 /\ ~stray' /\ (BitBehind(i))' \in window' => (Marked(Top - i))'
      <4>1. PICK b \in Int : b = T + inc - i
        BY <3>3
      <4>2. (Marked(Top - i))' <=> (i = 0 \/ Marked(b))
        <5>1. Top' - i = b /\ (b = n <=> i = 0)
          BY <3>2, <3>3, <4>1
        <5> QED
          BY <2>2, <3>2, <4>1, <5>1 DEF Marked
      <4>3. (BitBehind(i))' = IF flags.huge THEN b % W ELSE W - 1 - i
        <5>1. Top' - i = b /\ WindowSize' = W
          BY <2>3, <3>2, <3>3, <4>1 DEF WindowSize
        <5> QED
          BY <3>2, <5>1 DEF BitBehind
      <4>4. i \in 0 .. WindowSize - 1
        BY <2>3
      <4>5. (BitBehind(i))' \in window' <=> i = 0 \/ (i >= inc /\ BitBehind(i - inc) \in window)
        <5>1. CASE flags.huge
          <6>1. (Top + inc - i) % WindowSize \in WindowShift(inc)
                   <=> i = 0 \/ (i >= inc /\ BitBehind(i - inc) \in window)
            BY <1>2, <4>4, <5>1, ShiftRing
          <6> QED
            BY <2>3, <3>2, <4>1, <4>3, <5>1, <6>1
        <5>2. CASE ~flags.huge
          <6>1. WindowSize - 1 - i \in WindowShift(inc)
                   <=> i = 0 \/ (i >= inc /\ BitBehind(i - inc) \in window)
            BY <1>2, <4>4, <5>2, ShiftWord
          <6> QED
            BY <2>3, <3>2, <4>1, <4>3, <5>2, <6>1
        <5> QED
          BY <5>1, <5>2
      <4>6. CASE i < inc
        <5>1. i # 0 => ~Marked(b)
          BY <2>4, <3>3, <4>1, <4>6 DEF Marked
        <5>2. ~(i >= inc)
          BY <3>3, <4>6
        <5> QED
          BY <4>2, <4>5, <5>1, <5>2
      <4>7. CASE i >= inc
        <5>1. PICK k \in 0 .. W - 1 : k = i - inc
          <6>1. i - inc \in 0 .. W - 1
            BY <3>3, <4>7
          <6> QED
            BY <6>1
        <5>2. T - k = b /\ i # 0
          BY <3>3, <4>1, <4>7, <5>1
        <5>3. /\ Marked(T - k) => BitBehind(k) \in window
              /\ ~stray /\ BitBehind(k) \in window => Marked(T - k)
          BY <1>2, <2>3 DEF IInv, WindowOK
        <5> QED
          BY <3>2, <4>2, <4>5, <4>7, <5>1, <5>2, <5>3
      <4> QED
        BY <3>3, <4>6, <4>7
    <3>6. WindowSize' = W
      BY <2>3, <3>2 DEF WindowSize
    <3> QED
      BY <3>4, <3>5, <3>6 DEF WindowOK
  <2>7. CASE Late(Head(flight))
    <3>1. PICK k \in 0 .. W - 1 : k = T - n
      BY <2>1, <2>3, <2>7 DEF Late
    <3>2. /\ window' = window \cup {BitBehind(k)} /\ accepted' = accepted \cup {n}
          /\ UNCHANGED << flags, seq, seq_hi, Top, stray >>
      BY <1>2, <2>1, <2>3, <2>7, <3>1, SameTop DEF IInv
    <3>3. AcceptedOK'
      BY <2>2, <2>3, <2>4, <3>1, <3>2 DEF AcceptedOK
    <3>4. WindowSize' = W /\ \A i : (BitBehind(i))' = BitBehind(i)
      <4>1. WindowSize' = WindowSize
        BY <3>2 DEF WindowSize
      <4> QED
        BY <2>3, <3>2, <4>1 DEF BitBehind
    <3>5. ASSUME NEW i \in 0 .. W - 1
          PROVE  /\ (Marked(Top - i))' => BitBehind(i) \in window'
                 /\ ~stray' /\ BitBehind(i) \in window' => (Marked(Top - i))'
      <4>1. /\ Marked(T - i) => BitBehind(i) \in window
            /\ ~stray /\ BitBehind(i) \in window => Marked(T - i)
        BY <1>2, <2>3 DEF IInv, WindowOK
      <4>2. (Marked(Top - i))' <=> (Marked(T - i) \/ T - i = n)
        BY <2>3, <3>2 DEF Marked
      <4>3. T - i = n <=> i = k
        BY <2>3, <3>1
      <4>4. i # k => BitBehind(i) # BitBehind(k)
        BY <2>3, BitsApart DEF IInv
      <4> QED
        BY <3>2, <4>1, <4>2, <4>3, <4>4
    <3> QED
      BY <3>3, <3>4, <3>5 DEF WindowOK
  <2>8. CASE Overtaken(Head(flight))
    <3>1. n <= T - W
      BY <2>1, <2>3, <2>8 DEF Overtaken
    <3>2. /\ window \subseteq window' /\ accepted' = accepted \cup {n} /\ stray'
          /\ UNCHANGED << flags, seq, seq_hi, Top >>
      BY <1>2, <2>1, <2>8, StrayTop
    <3>3. AcceptedOK'
      BY <2>2, <2>3, <2>4, <3>1, <3>2 DEF AcceptedOK
    <3>4. WindowSize' = W /\ \A i : (BitBehind(i))' = BitBehind(i)
      <4>1. WindowSize' = WindowSize
        BY <3>2 DEF WindowSize
      <4> QED
        BY <2>3, <3>2, <4>1 DEF BitBehind
    <3>5. ASSUME NEW i \in 0 .. W - 1
          PROVE  (Marked(Top - i))' => BitBehind(i) \in window'
      <4>1. Marked(T - i) => BitBehind(i) \in window
        BY <1>2, <2>3 DEF IInv, WindowOK
      <4>2. T - i # n
        BY <3>1
      <4>3. (Marked(Top - i))' <=> Marked(T - i)
        BY <2>3, <3>2, <4>2 DEF Marked
      <4> QED
        BY <3>2, <4>1, <4>3
    <3> QED
      BY <3>2, <3>3, <3>4, <3>5 DEF WindowOK
  <2> QED
    BY <2>5, <2>6, <2>7, <2>8
<1>3. ASSUME PostAccept, ~flags.ar
      PROVE  AcceptedOK' /\ WindowOK'
  BY <1>3 DEF PostAccept, AcceptedOK, WindowOK
<1> QED
  BY <1>1, <1>2, <1>3 DEF Next, Receive, PostDrop, vars

-----------------------------------------------------------------------------
(* The packets between the two checks.                                     *)

\* Packets that wait stay near, whatever those before them do to the window.
LEMMA FlightNext ==
  ASSUME IInv, [Next]_vars
  PROVE  EpochOK' /\ FlightOK'
<1> DEFINE S == [num : Nat, hi : 0 .. SeqMod - 1]
<1>1. flight \in Seq(S) /\ Len(flight) \in Nat
  BY DEF IInv, TypeOK
<1>2. /\ \A i \in 1 .. Len(flight) : flight[i].num \in Nat
      /\ \A i \in 1 .. Len(flight) : Fit(flight[i]) /\ Near(flight[i])
      /\ \A i, j \in 1 .. Len(flight) :
            i < j /\ Guessed(flight[i]) /\ Guessed(flight[j])
               => flight[i].num < flight[j].num + SeqMod
  <2>1. \A i \in 1 .. Len(flight) : flight[i] \in S
    <3> HIDE DEF S
    <3> QED
      BY <1>1
  <2> QED
    BY <2>1 DEF IInv, FlightOK
<1>3. PICK M \in Nat, W \in Nat \ {0}, T \in Nat : M = SeqMod /\ W = WindowSize /\ T = Top
  BY Sizes, WindowSizes, TopType DEF IInv
<1> HIDE DEF S
<1>4. ASSUME NEW n \in Arriving, Receive(n)
      PROVE  EpochOK' /\ FlightOK'
  <2>1. UNCHANGED << flags, seq, seq_hi, Top, WindowSize >>
    BY <1>4 DEF Receive, saVars, Top, WindowSize
  <2>2. EpochOK'
    BY <2>1 DEF IInv, EpochOK
  <2>3. CASE flight' = flight
    BY <2>1, <2>2, <2>3 DEF IInv, FlightOK, Fit, Near, Guessed
  <2>4. CASE flight' # flight
    <3> DEFINE p == [num |-> n, hi |-> HiSeqReq(Lo(n))]
    <3>1. flight' = Append(flight, p) /\ ~Replayed(Lo(n), 0, FALSE)
      BY <1>4, <2>4 DEF Receive
    <3>2. n \in Nat /\ Fit(p)
      <4>1. n \in Nat
        BY ArrivingType DEF IInv
      <4> QED
        BY <4>1 DEF Arriving, Fit
    <3>3. Guessed(p) => n > T - W /\ n <= T - W + M
      <4>1. HAVE Guessed(p)
      <4>2. flags.esn /\ flags.ar /\ HiSeqReq(Lo(n)) = Hi(n)
        BY <4>1 DEF Guessed
      <4>3. n > Top - WindowSize /\ n <= Top - WindowSize + SeqMod
        BY <3>1, <4>2, GuessNear
      <4> QED
        BY <1>3, <4>3
    <3>4. p.num = n
      OBVIOUS
    <3> HIDE DEF p
    <3>5. W <= M
      BY <1>3, Sizes, WindowSizes
    <3>6. Near(p)
      BY <1>3, <3>2, <3>3, <3>4, <3>5 DEF Near
    <3>7. /\ Len(flight') = Len(flight) + 1 /\ flight'[Len(flight) + 1] = p
          /\ \A i \in 1 .. Len(flight) : flight'[i] = flight[i]
      BY <1>1, <3>1
    <3>9. \A i \in 1 .. Len(flight') : Fit(flight'[i]) /\ Near(flight'[i])
      <4> TAKE i \in 1 .. Len(flight')
      <4>1. CASE i \in 1 .. Len(flight)
        BY <1>2, <3>7, <4>1
      <4>2. CASE i = Len(flight) + 1
        BY <3>2, <3>6, <3>7, <4>2
      <4> QED
        BY <1>1, <3>7, <4>1, <4>2
    <3>10. ASSUME NEW i \in 1 .. Len(flight'), NEW j \in 1 .. Len(flight'), i < j,
                  Guessed(flight'[i]), Guessed(flight'[j])
           PROVE  flight'[i].num < flight'[j].num + SeqMod
      <4>1. i \in 1 .. Len(flight)
        BY <1>1, <3>7, <3>10
      <4>2. CASE j \in 1 .. Len(flight)
        BY <1>2, <3>7, <3>10, <4>1, <4>2
      <4>3. CASE j = Len(flight) + 1
        <5>1. flight'[j] = p /\ flight'[i] = flight[i]
          BY <3>7, <4>1, <4>3
        <5>2. PICK m \in Nat : m = flight[i].num
          BY <1>2, <4>1
        <5>3. m <= T - W + M
          BY <1>2, <1>3, <3>10, <4>1, <5>1, <5>2 DEF Near
        <5>4. n > T - W
          BY <3>3, <3>10, <5>1
        <5>5. m < n + M
          BY <3>2, <5>3, <5>4
        <5> QED
          BY <1>3, <3>4, <5>1, <5>2, <5>5
      <4> QED
        BY <1>1, <3>7, <4>2, <4>3
    <3>12. FlightOK'
      <4>1. \A i \in 1 .. Len(flight') : (Fit(flight[i]))' /\ (Near(flight[i]))'
        BY <2>1, <3>9 DEF Fit, Near, Guessed
      <4>2. \A i, j \in 1 .. Len(flight') :
               i < j /\ (Guessed(flight[i]))' /\ (Guessed(flight[j]))'
                  => flight'[i].num < flight'[j].num + SeqMod
        BY <2>1, <3>10 DEF Guessed
      <4> QED
        BY <4>1, <4>2 DEF FlightOK
    <3> QED
      BY <2>2, <3>12
  <2> QED
    BY <2>3, <2>4
<1>5. ASSUME flight # << >>, flight' = Tail(flight), UNCHANGED flags,
             \/ Top' = T
             \/ Top' = flight[1].num /\ Top' > T /\ (flags.esn /\ flags.ar => Guessed(flight[1]))
      PROVE  FlightOK'
  <2>1. /\ Len(flight') = Len(flight) - 1 /\ Len(flight) \in Nat \ {0}
        /\ \A i \in 1 .. Len(flight') : flight'[i] = flight[i + 1]
    BY <1>1, <1>5, HeadTailType
  <2>2. \A q : ((Fit(q))' <=> Fit(q)) /\ ((Guessed(q))' <=> Guessed(q)) /\ WindowSize' = W
    BY <1>3, <1>5 DEF Fit, Guessed, WindowSize
  <2>3. \A i \in 1 .. Len(flight') : i + 1 \in 1 .. Len(flight) /\ 1 < i + 1
    BY <2>1
  <2>4. ASSUME NEW i \in 1 .. Len(flight')
        PROVE  (Fit(flight[i]))' /\ (Near(flight[i]))'
    <3>1. PICK k \in 1 .. Len(flight) : k = i + 1 /\ 1 < k /\ flight'[i] = flight[k]
      BY <2>1, <2>3
    <3>2. PICK m \in Nat : m = flight[k].num
      BY <1>2
    <3>3. (Fit(flight[i]))'
      BY <1>2, <1>5, <3>1 DEF Fit
    <3>4. (Near(flight[i]))'
      <4> SUFFICES ASSUME (Guessed(flight[i]))'
                   PROVE  m > Top' - M /\ m <= Top' - W + M
        BY <1>3, <2>2, <3>1, <3>2 DEF Near
      <4>1. Guessed(flight[k]) /\ flags.esn /\ flags.ar
        BY <1>5, <3>1 DEF Guessed
      <4>2. m > T - M /\ m <= T - W + M
        BY <1>2, <1>3, <3>2, <4>1 DEF Near
      <4>3. CASE Top' = T
        BY <4>2, <4>3
      <4>4. CASE Top' = flight[1].num /\ Top' > T /\ Guessed(flight[1])
        <5>1. 1 \in 1 .. Len(flight)
          BY <2>1
        <5>2. PICK v \in Nat : v = flight[1].num /\ v > T
          BY <1>2, <4>4, <5>1
        <5>3. v < m + M
          BY <1>2, <1>3, <3>1, <3>2, <4>1, <4>4, <5>1, <5>2
        <5> QED
          BY <4>2, <4>4, <5>2, <5>3
      <4> QED
        BY <1>5, <4>1, <4>3, <4>4
    <3> QED
      BY <3>3, <3>4
  <2>5. ASSUME NEW i \in 1 .. Len(flight'), NEW j \in 1 .. Len(flight'), i < j,
               (Guessed(flight[i]))', (Guessed(flight[j]))'
        PROVE  flight'[i].num < flight'[j].num + SeqMod
    <3>1. PICK k \in 1 .. Len(flight) : k = i + 1 /\ flight'[i] = flight[k]
      BY <2>1, <2>3
    <3>2. PICK l \in 1 .. Len(flight) : l = j + 1 /\ flight'[j] = flight[l]
      BY <2>1, <2>3
    <3>3. k < l /\ Guessed(flight[k]) /\ Guessed(flight[l])
      BY <1>5, <2>1, <2>5, <3>1, <3>2 DEF Guessed
    <3> QED
      BY <1>2, <3>1, <3>2, <3>3
  <2> QED
    BY <2>4, <2>5 DEF FlightOK
<1>6. ASSUME PostDrop
      PROVE  EpochOK' /\ FlightOK'
  <2>1. UNCHANGED << flags, seq, seq_hi, Top >>
    BY <1>6 DEF PostDrop, saVars, Top
  <2> QED
    BY <1>3, <1>5, <1>6, <2>1 DEF PostDrop, IInv, EpochOK
<1>7. ASSUME PostAccept
      PROVE  EpochOK' /\ FlightOK'
  <2>1. Head(flight) = flight[1] /\ flight # << >>
    BY <1>1, <1>7, HeadTailType DEF PostAccept
  <2>2. seq_hi' = seq_hi \/ flags.esn
    BY <1>7 DEF PostAccept, Advance
  <2>3. EpochOK'
    BY <1>7, <2>2 DEF PostAccept, IInv, EpochOK
  <2>4. CASE ~flags.ar
    <3>1. /\ Len(flight') = Len(flight) - 1 /\ Len(flight) \in Nat \ {0}
          /\ \A i \in 1 .. Len(flight') : flight'[i] = flight[i + 1]
      BY <1>1, <1>7, HeadTailType DEF PostAccept
    <3>2. flags' = flags
      BY <1>7 DEF PostAccept
    <3>3. \A i \in 1 .. Len(flight') : (Fit(flight[i]))' /\ ~(Guessed(flight[i]))'
      <4> TAKE i \in 1 .. Len(flight')
      <4>1. i + 1 \in 1 .. Len(flight)
        BY <3>1
      <4> QED
        BY <1>2, <2>4, <3>1, <3>2, <4>1 DEF Fit, Guessed
    <3> QED
      BY <2>3, <3>3 DEF FlightOK, Near
  <2>5. CASE flags.ar
    <3>1. flight' = Tail(flight) /\ flags' = flags
      BY <1>7 DEF PostAccept
    <3>2. Newer(flight[1]) \/ Late(flight[1]) \/ Overtaken(flight[1])
      BY <1>7, <2>1, <2>5, Verdict DEF PostAccept
    <3>3. CASE Newer(flight[1])
      <4>1. Top' = flight[1].num
        BY <1>7, <2>1, <3>3, NewTop
      <4>2. flight[1].num > T
        BY <1>3, <3>3 DEF Newer
      <4>3. flags.esn /\ flags.ar => Guessed(flight[1])
        BY <1>7, <2>1 DEF PostAccept, Accepts, Decrypts, Guessed
      <4> QED
        BY <1>5, <2>1, <2>3, <3>1, <4>1, <4>2, <4>3
    <3>4. CASE Late(flight[1]) \/ Overtaken(flight[1])
      <4>1. Top' = T
        BY <1>3, <1>7, <2>1, <2>5, <3>4, SameTop, StrayTop DEF IInv
      <4> QED
        BY <1>5, <2>1, <2>3, <3>1, <4>1
    <3> QED
      BY <3>2, <3>3, <3>4
  <2> QED
    BY <2>4, <2>5
<1>8. CASE UNCHANGED vars
  <2>1. UNCHANGED << flags, seq, seq_hi, flight, Top, WindowSize >>
    BY <1>8 DEF vars, saVars, Top, WindowSize
  <2> QED
    BY <2>1 DEF IInv, EpochOK, FlightOK, Fit, Near, Guessed
<1> QED
  BY <1>4, <1>6, <1>7, <1>8 DEF Next

\* The first window shows the numbers received in order.
LEMMA InitInv == Init => IInv
<1> SUFFICES ASSUME Init
             PROVE  IInv
  OBVIOUS
<1>1. PICK n \in Starts : /\ ~flags.esn => n < SeqMod
                          /\ seq = Lo(n) /\ seq_hi = Hi(n) /\ accepted = 1 .. n
  BY DEF Init
<1>2. n \in Nat /\ n < SeqMod * SeqMod /\ SeqMod \in Nat \ {0}
  BY Sizes, ArrivalAssumption
<1>3. PICK q \in Nat, r \in 0 .. SeqMod - 1 : q = Hi(n) /\ r = Lo(n) /\ n = SeqMod * q + r
  BY <1>2, Halves
<1>4. q < SeqMod
  <2>1. CASE SeqMod < q
    <3>1. SeqMod * SeqMod + SeqMod <= SeqMod * q
      BY <1>2, <2>1, Multiples
    <3>2. PICK x \in Int, y \in Int : x = SeqMod * SeqMod /\ y = SeqMod * q
      BY <1>2
    <3> QED
      BY <1>2, <1>3, <3>1, <3>2
  <2>2. CASE SeqMod = q
    <3>1. PICK x \in Int : x = SeqMod * SeqMod
      BY <1>2
    <3> QED
      BY <1>2, <1>3, <2>2, <3>1
  <2> QED
    BY <1>2, <2>1, <2>2
<1>5. ~flags.esn => q = 0
  <2>1. 0 < q => SeqMod * 0 + SeqMod <= SeqMod * q
    BY <1>2, Multiples
  <2>2. SeqMod * 0 = 0
    BY <1>2
  <2>3. PICK x \in Int : x = SeqMod * q
    BY <1>2
  <2>4. 0 < q => SeqMod <= n
    BY <1>2, <1>3, <2>1, <2>2, <2>3
  <2>5. ~flags.esn => n < SeqMod
    BY <1>1
  <2> QED
    BY <1>2, <2>4, <2>5
<1>6. Top = n
  <2>1. q * SeqMod = SeqMod * q
    BY <1>2
  <2> QED
    BY <1>1, <1>3, <2>1 DEF Top
<1>7. TypeOK
  <2>1. window \subseteq 0 .. WindowSize - 1 /\ lost \in Nat /\ arrived \in 0 .. MaxArrivals
    BY ArrivalAssumption DEF Init
  <2>2. seq \in 0 .. SeqMod - 1 /\ seq_hi \in 0 .. SeqMod - 1 /\ accepted \subseteq Nat
    BY <1>1, <1>2, <1>3, <1>4
  <2>3. flight \in Seq([num : Nat, hi : 0 .. SeqMod - 1])
    BY DEF Init
  <2> QED
    BY <2>1, <2>2, <2>3 DEF Init, TypeOK
<1>8. EpochOK /\ AcceptedOK /\ FlightOK
  BY <1>1, <1>3, <1>5, <1>6 DEF Init, EpochOK, AcceptedOK, FlightOK
<1>9. WindowOK
  <2> SUFFICES ASSUME NEW i \in 0 .. WindowSize - 1
               PROVE  BitBehind(i) \in window /\ Marked(Top - i)
    BY DEF WindowOK
  <2>1. PICK W \in Nat \ {0, 1} : W = WindowSize
    BY WindowSizes
  <2>2. (Top - i) % W \in 0 .. W - 1
    <3>1. Top - i \in Int
      BY <1>2, <1>6, <2>1
    <3> QED
      BY <3>1, DivMod
  <2>3. W - 1 - i \in 0 .. W - 1
    BY <2>1
  <2>4. BitBehind(i) \in 0 .. W - 1
    BY <2>1, <2>2, <2>3 DEF BitBehind
  <2>5. Marked(Top - i)
    BY <1>1, <1>2, <1>6, <2>1 DEF Marked
  <2> QED
    BY <2>1, <2>4, <2>5 DEF Init
<1> QED
  BY <1>7, <1>8, <1>9 DEF IInv

-----------------------------------------------------------------------------
(* The theorems.                                                           *)

\* The state of the SA and the packets in flight keep their types, whatever
\* the build.
THEOREM TypeCorrect == Spec => []TypeOK
<1>1. Init => TypeOK
  BY InitInv DEF IInv
<1>2. TypeOK /\ [Next]_vars => TypeOK'
  BY TypeNext
<1> QED
  BY <1>1, <1>2, PTL DEF Spec

\* The invariant is inductive if the build has pow2_mask's instruction.
LEMMA NextInv ==
  ASSUME Bmi2
  PROVE  IInv /\ [Next]_vars => IInv'
<1> SUFFICES ASSUME IInv, [Next]_vars
             PROVE  IInv'
  OBVIOUS
<1>1. TypeOK'
  BY TypeNext DEF IInv
<1>2. AcceptedOK' /\ WindowOK'
  BY WindowNext
<1>3. EpochOK' /\ FlightOK'
  BY FlightNext
<1> QED
  BY <1>1, <1>2, <1>3 DEF IInv

\* The inductive invariant holds in every reachable state.
LEMMA Inductive ==
  ASSUME Bmi2
  PROVE  Spec => []IInv
<1>1. IInv /\ [Next]_vars => IInv'
  BY NextInv
<1> QED
  BY <1>1, InitInv, PTL DEF Spec

\* Every packet that passes both checks is new, or left of the window and of
\* the epoch before the newest packet's: no other number is accepted twice,
\* although all packets of a frame pass the first check before the first of
\* them is marked, and whatever the packets of a frame are.
THEOREM ReplaySafe ==
  ASSUME Bmi2
  PROVE  Spec => []NoReplay
<1>1. IInv => NoReplay
  <2> SUFFICES ASSUME IInv, flags.ar, flight # << >>, Accepts(Head(flight))
               PROVE  \/ Head(flight).num \notin accepted
                      \/ /\ flags.esn /\ LeftBehind(Head(flight).num)
                         /\ Head(flight).hi = seq_hi - 1
    BY DEF NoReplay
  <2>1. Top \in Nat /\ accepted \subseteq 1 .. Top
    BY TopType DEF IInv, AcceptedOK
  <2>2. PICK n \in Nat : n = Head(flight).num
    <3>1. flight \in Seq([num : Nat, hi : 0 .. SeqMod - 1])
      BY DEF IInv, TypeOK
    <3>2. Head(flight) \in [num : Nat, hi : 0 .. SeqMod - 1]
      BY <3>1, HeadTailType
    <3> QED
      BY <3>2
  <2>3. CASE Newer(Head(flight))
    <3>1. n > Top
      BY <2>2, <2>3 DEF Newer
    <3> QED
      BY <2>1, <2>2, <3>1
  <2>4. CASE Late(Head(flight))
    <3>1. PICK i \in 0 .. WindowSize - 1 : i = Top - n /\ BitBehind(i) \notin window
      BY <2>2, <2>4 DEF Late
    <3>2. ~Marked(Top - i)
      BY <3>1 DEF IInv, WindowOK
    <3>3. Top - i = n
      BY <2>1, <3>1, WindowSizes
    <3> QED
      BY <2>2, <3>2, <3>3 DEF Marked
  <2>5. CASE Overtaken(Head(flight))
    BY <2>5 DEF Overtaken, LeftBehind
  <2> QED
    BY <2>3, <2>4, <2>5, Verdict
<1>2. Spec => []IInv
  BY Inductive
<1> QED
  BY <1>1, <1>2, PTL

\* The window, as a word and as a ring of any size, has the bits of all
\* accepted numbers and, until an overtaken packet is accepted, no others;
\* and the word shown to clients has the newest of its bits.
THEOREM WindowShows ==
  ASSUME Bmi2
  PROVE  Spec => []WindowExact
<1>1. IInv => WindowExact
  <2> SUFFICES ASSUME IInv, flags.ar, NEW i \in 0 .. UwordBits - 1
               PROVE  UwordBits - 1 - i \in get_64b_window <=> BitBehind(i) \in window
    BY DEF WindowExact, IInv, WindowOK
  <2>1. PICK U \in Nat \ {0, 1}, W \in Nat \ {0, 1}, T \in Nat, t \in Int :
           U = UwordBits /\ W = WindowSize /\ T = Top /\ t = seq /\ U <= W
    <3>1. Top \in Nat
      BY TopType DEF IInv
    <3>2. seq \in Int
      BY Sizes DEF IInv, TypeOK
    <3> QED
      BY <3>1, <3>2, Sizes, WindowSizes
  <2>2. i \in 0 .. WindowSize - 1 /\ i \in 0 .. U - 1
    BY <2>1
  <2>4. CASE ~flags.huge
    BY <2>1, <2>4, WindowSizes DEF get_64b_window, BitBehind
  <2>5. CASE flags.huge
    <3>1. PICK j \in 0 .. U - 1 : j = U - 1 - i
      BY <2>2
    <3>2. PICK q \in Int, r \in 0 .. W - 1 : r = t % W /\ t = W * q + r
      BY DivMod
    <3>3. BitBehind(i) = IF r - i >= 0 THEN r - i ELSE W + r - i
      <4>1. PICK a \in Int, x \in Int : a = -i /\ x = t - i
        BY <2>2
      <4>2. (Top + a) % WindowSize = (seq + a) % WindowSize
        BY TopMod DEF IInv
      <4>3. Top + a = Top - i /\ seq + a = x
        BY <2>1, <2>2, <4>1
      <4>4. BitBehind(i) = x % W
        BY <2>1, <2>5, <4>2, <4>3 DEF BitBehind
      <4>5. CASE r - i >= 0
        <5>1. x = W * q + (r - i) /\ r - i \in 0 .. W - 1
          <6>1. PICK y \in Int : y = W * q
            OBVIOUS
          <6> QED
            BY <2>1, <2>2, <3>2, <4>1, <4>5, <6>1
        <5> QED
          BY <4>4, <4>5, <5>1, DivModUnique
      <4>6. CASE r - i < 0
        <5>1. x = W * (q - 1) + (W + r - i) /\ W + r - i \in 0 .. W - 1 /\ q - 1 \in Int
          <6>1. PICK y \in Int : y = W * q /\ W * (q - 1) = y - W
            OBVIOUS
          <6> QED
            BY <2>1, <2>2, <3>2, <4>1, <4>6, <6>1
        <5>2. x % W = W + r - i
          <6>1. PICK z \in 0 .. W - 1 : z = W + r - i
            BY <5>1
          <6>2. PICK p \in Int : p = q - 1
            OBVIOUS
          <6>3. x = W * p + z
            BY <5>1, <6>1, <6>2
          <6>4. x % W = z
            BY <6>3, DivModUnique
          <6> QED
            BY <6>1, <6>4
        <5>3. ~(r - i >= 0)
          BY <2>1, <2>2, <3>2, <4>6
        <5> QED
          BY <4>4, <5>2, <5>3
      <4> QED
        BY <2>2, <4>5, <4>6
    <3>4. j \in get_64b_window <=> IF r + j >= U - 1 THEN r + j - (U - 1) \in window
                                                    ELSE W - (U - 1) + r + j \in window
      BY <2>1, <2>5, <3>2 DEF get_64b_window
    <3>5. /\ r + j >= U - 1 <=> r - i >= 0
          /\ r + j - (U - 1) = r - i /\ W - (U - 1) + r + j = W + r - i
      BY <2>1, <2>2, <3>1
    <3>6. j \in get_64b_window <=> BitBehind(i) \in window
      BY <3>3, <3>4, <3>5
    <3> QED
      BY <2>1, <3>1, <3>6
  <2> QED
    BY <2>4, <2>5
<1>2. Spec => []IInv
  BY Inductive
<1> QED
  BY <1>1, <1>2, PTL

\* A number the window can place has the high half the guess makes of its
\* low half, and no check takes it for a replay unless it was accepted.
LEMMA PlaceableWelcome ==
  ASSUME IInv, flags.ar, ~stray, NEW n \in Int, Placeable(n), n \notin accepted,
         flags.esn \/ n + WindowSize < SeqMod
  PROVE  Welcome(n)
<1>1. PICK M \in Nat \ {0}, W \in Nat \ {0, 1}, t \in Int, g \in Int, T \in Nat :
         /\ M = SeqMod /\ W = WindowSize /\ t = seq /\ g = seq_hi /\ T = Top
         /\ t \in 0 .. M - 1 /\ g \in 0 .. M - 1 /\ 2 * W <= M
  <2>1. Top \in Nat
    BY TopType DEF IInv
  <2> QED
    BY <2>1, Sizes, WindowSizes DEF IInv, TypeOK
<1>2. n \in Nat /\ n >= 1 /\ T - W < n /\ n <= T - W + M /\ Hi(n) < M /\ (flags.esn \/ n < M)
  BY <1>1 DEF Placeable
<1>3. PICK s \in Int, h \in Nat :
         s = Lo(n) /\ h = Hi(n) /\ s \in 0 .. M - 1 /\ h < M /\ n = M * h + s
  <2>1. Lo(n) \in 0 .. SeqMod - 1 /\ Hi(n) \in Nat /\ n = SeqMod * Hi(n) + Lo(n)
    BY <1>2, Halves
  <2> QED
    BY <1>1, <1>2, <2>1
<1>4. TypeOK /\ flags.esn \in BOOLEAN
  BY DEF IInv, TypeOK
<1>5. T = M * g + t
  BY <1>1 DEF Top
<1>6. \A i \in 0 .. W - 1 :
         n = T - i /\ (s = t - i \/ s = t - i + M) => ~ipsec_sa_anti_replay_check(s)
  <2> TAKE i \in 0 .. W - 1
  <2>1. HAVE n = T - i /\ (s = t - i \/ s = t - i + M)
  <2>2. Bit(s) = BitBehind(i)
    BY <1>1, <1>3, <1>4, <2>1, BitPlace
  <2>3. ~Marked(Top - i)
    BY <1>1, <1>2, <2>1 DEF Marked
  <2>4. BitBehind(i) \notin window
    BY <1>1, <2>3 DEF IInv, WindowOK
  <2> QED
    BY <2>2, <2>4 DEF ipsec_sa_anti_replay_check
<1>7. CASE ~flags.esn
  <2>1. h = 0 /\ g = 0
    <3>1. 0 < h => M * 0 + M <= M * h
      BY Multiples
    <3>2. PICK x \in Int : x = M * h
      OBVIOUS
    <3>3. n < M /\ M * 0 = 0
      BY <1>2, <1>7
    <3>4. ~(0 < h)
      BY <1>3, <3>1, <3>2, <3>3
    <3> QED
      BY <1>1, <1>3, <1>7, <3>4 DEF IInv, EpochOK
  <2>2. n = s /\ T = t
    BY <1>3, <1>5, <2>1
  <2>3. s + W < M
    BY <1>1, <1>7, <2>2
  <2>4. (s + W) % M = s + W
    <3>1. PICK x \in Int : x = s + W
      OBVIOUS
    <3>2. x \in 0 .. M - 1
      <4>1. s >= 0
        BY <1>3
      <4> QED
        BY <2>3, <3>1, <4>1
    <3>3. x % M = x
      BY <3>2, ModNear
    <3> QED
      BY <3>1, <3>3
  <2>5. ~OutOfWindow(s)
    BY <1>1, <1>2, <2>2, <2>4 DEF OutOfWindow
  <2>6. s <= t => ~ipsec_sa_anti_replay_check(s)
    <3>1. HAVE s <= t
    <3>2. t - s \in 0 .. W - 1
      BY <1>2, <2>2, <3>1
    <3>3. n = T - (t - s) /\ s = t - (t - s)
      BY <2>2
    <3> QED
      BY <1>6, <3>2, <3>3
  <2>7. ~Replayed(s, 0, FALSE)
    BY <1>1, <1>7, <2>5, <2>6 DEF Replayed
  <2>8. HiSeqReq(s) = h
    BY <1>7, <2>1 DEF HiSeqReq
  <2> QED
    BY <1>3, <2>7, <2>8 DEF Welcome
<1>8. PICK lb \in Int : /\ lb = LowerBound
                        /\ CaseA <=> t >= W - 1
                        /\ t >= W - 1 => lb = t - W + 1
                        /\ t < W - 1 => lb = t - W + 1 + M
  BY <1>1, <1>4, Lower DEF CaseA
<1>9. ASSUME flags.esn
      PROVE  /\ HiSeqReq(s) = IF CaseA THEN IF s < lb THEN (g + 1) % M ELSE g
                                       ELSE IF s < lb THEN g ELSE (g - 1) % M
             /\ Replayed(s, 0, FALSE) <=>
                   IF s < lb THEN ~CaseA /\ s <= t /\ ipsec_sa_anti_replay_check(s)
                             ELSE (CaseA => s <= t) /\ ipsec_sa_anti_replay_check(s)
  BY <1>1, <1>3, <1>8, <1>9 DEF HiSeqReq, Replayed
<1>10. PICK x \in Int, y \in Int : x = M * g /\ y = M * h
  OBVIOUS
<1>11. (h < g => y + M <= x) /\ (g < h => x + M <= y) /\ (h = g => y = x)
  BY <1>1, <1>10, Multiples
<1>12. CASE flags.esn /\ h = g
  <2>1. n = T + (s - t)
    BY <1>1, <1>3, <1>5, <1>10, <1>11, <1>12
  <2>2. IF t >= W - 1 THEN s >= lb ELSE s < lb
    BY <1>1, <1>2, <1>3, <1>8, <2>1
  <2>3. s <= t => ~ipsec_sa_anti_replay_check(s)
    <3>1. HAVE s <= t
    <3>2. t - s \in 0 .. W - 1
      BY <1>1, <1>2, <1>3, <2>1, <3>1
    <3>3. n = T - (t - s) /\ s = t - (t - s)
      BY <2>1
    <3> QED
      BY <1>6, <3>2, <3>3
  <2>4. HiSeqReq(s) = h
    BY <1>8, <1>9, <1>12, <2>2
  <2>5. ~Replayed(s, 0, FALSE)
    BY <1>8, <1>9, <1>12, <2>2, <2>3
  <2> QED
    BY <1>3, <2>4, <2>5 DEF Welcome
<1>13. CASE flags.esn /\ h > g
  <2>1. n = y + s /\ T = x + t
    BY <1>3, <1>5, <1>10
  <2>2. h = g + 1
    <3>1. g + 1 < h => M * (g + 1) + M <= M * h
      BY <1>1, Multiples
    <3>2. M * (g + 1) = x + M
      BY <1>10
    <3> QED
      BY <1>1, <1>2, <1>3, <1>10, <1>13, <2>1, <3>1, <3>2
  <2>3. y = x + M
    BY <1>10, <2>2
  <2>4. t >= W - 1 /\ s < lb
    BY <1>1, <1>2, <1>3, <1>8, <2>1, <2>3
  <2>5. (g + 1) % M = g + 1
    <3>1. PICK z \in 0 .. M - 1 : z = g + 1
      BY <1>1, <1>3, <2>2
    <3>2. z % M = z
      BY ModNear
    <3> QED
      BY <3>1, <3>2
  <2>6. HiSeqReq(s) = h /\ ~Replayed(s, 0, FALSE)
    BY <1>8, <1>9, <1>13, <2>2, <2>4, <2>5
  <2> QED
    BY <1>3, <2>6 DEF Welcome
<1>14. CASE flags.esn /\ h < g
  <2>1. n = y + s /\ T = x + t
    BY <1>3, <1>5, <1>10
  <2>2. h = g - 1
    <3>1. h < g - 1 => M * h + M <= M * (g - 1)
      BY <1>1, Multiples
    <3>2. M * (g - 1) = x - M
      BY <1>10
    <3> QED
      BY <1>1, <1>2, <1>3, <1>10, <1>14, <2>1, <3>1, <3>2
  <2>3. y = x - M
    BY <1>10, <2>2
  <2>4. t < W - 1 /\ s >= lb
    BY <1>1, <1>2, <1>3, <1>8, <2>1, <2>3
  <2>5. (g - 1) % M = g - 1
    <3>1. PICK z \in 0 .. M - 1 : z = g - 1
      BY <1>1, <1>3, <2>2
    <3>2. z % M = z
      BY ModNear
    <3> QED
      BY <3>1, <3>2
  <2>6. ~ipsec_sa_anti_replay_check(s)
    <3>1. PICK i \in 0 .. W - 1 : i = t - s + M
      <4>1. t - s + M \in 0 .. W - 1
        BY <1>1, <1>3, <1>8, <2>4
      <4> QED
        BY <4>1
    <3>2. n = T - i /\ s = t - i + M
      BY <2>1, <2>3, <3>1
    <3> QED
      BY <1>6, <3>2
  <2>7. HiSeqReq(s) = h /\ ~Replayed(s, 0, FALSE)
    <3>1. ~CaseA /\ ~(s < lb)
      BY <1>8, <2>4
    <3> QED
      BY <1>9, <1>14, <2>2, <2>5, <2>6, <3>1
  <2> QED
    BY <1>3, <2>7 DEF Welcome
<1> QED
  BY <1>1, <1>3, <1>4, <1>7, <1>12, <1>13, <1>14

\* A packet in or ahead of the window that was not accepted yet passes the
\* first check and is decrypted with the high half its sender used, until an
\* overtaken packet is accepted.
THEOREM FreshWelcome ==
  ASSUME Bmi2
  PROVE  Spec => []FreshPasses
<1>1. IInv => FreshPasses
  <2> SUFFICES ASSUME IInv
               PROVE  FreshPasses
    OBVIOUS
  <2>1. ASSUME flags.ar, ~stray
        PROVE  \A n \in (Top - WindowSize + 1 .. Top - WindowSize + SeqMod) \ accepted :
                  Placeable(n) /\ (flags.esn \/ n + WindowSize < SeqMod) => Welcome(n)
    <3>1. Top - WindowSize + 1 .. Top - WindowSize + SeqMod \subseteq Int
      OBVIOUS
    <3> QED
      BY <2>1, <3>1, PlaceableWelcome
  <2>2. ASSUME ~flags.ar, flags.esn,
               NEW n \in Top - WrapDistance .. Top + SeqMod - WrapDistance - 1,
               n >= seq_hi * SeqMod, Hi(n) < SeqMod
        PROVE  HiSeqReq(Lo(n)) = Hi(n)
    <3>1. PICK M \in Nat \ {0}, D \in Int, t \in Int, g \in Int, T \in Nat, x \in Int :
             /\ M = SeqMod /\ D = WrapDistance /\ t = seq /\ g = seq_hi /\ T = Top
             /\ t \in 0 .. M - 1 /\ g \in 0 .. M - 1 /\ D \in 1 .. M - 1
             /\ x = M * g /\ T = x + t
      <4>1. Top \in Nat
        BY TopType DEF IInv
      <4>2. SeqMod \in Nat \ {0} /\ WrapDistance \in 1 .. SeqMod - 1
        BY Sizes
      <4>3. seq \in 0 .. SeqMod - 1 /\ seq_hi \in 0 .. SeqMod - 1
        BY DEF IInv, TypeOK
      <4>4. SeqMod * seq_hi \in Int /\ Top = SeqMod * seq_hi + seq
        BY <4>2, <4>3 DEF Top
      <4> QED
        BY <4>1, <4>2, <4>3, <4>4
    <3>2. n \in Nat /\ T - D <= n /\ n <= T + M - D - 1 /\ n >= x
      <4>1. seq_hi * SeqMod = x /\ x >= 0
        BY <3>1
      <4> QED
        BY <2>2, <3>1, <4>1
    <3>3. PICK s \in Int, h \in Nat, y \in Int :
             s = Lo(n) /\ h = Hi(n) /\ s \in 0 .. M - 1 /\ h < M /\ n = y + s /\ y = M * h
      <4>1. Lo(n) \in 0 .. SeqMod - 1 /\ Hi(n) \in Nat /\ n = SeqMod * Hi(n) + Lo(n)
        BY <3>2, Halves
      <4> QED
        BY <2>2, <3>1, <4>1
    <3>4. HiSeqReq(s) = IF s < t /\ t - s > D THEN (g + 1) % M ELSE g
      BY <2>2, <3>1 DEF HiSeqReq
    <3>5. ~(h < g)
      <4>1. h < g => M * h + M <= M * g
        BY <3>1, Multiples
      <4> QED
        BY <3>1, <3>2, <3>3, <4>1
    <3>6. ~(g + 1 < h)
      <4>1. g + 1 < h => M * (g + 1) + M <= M * h
        BY <3>1, Multiples
      <4>2. M * (g + 1) = x + M
        BY <3>1
      <4> QED
        BY <3>1, <3>2, <3>3, <4>1, <4>2
    <3>7. T = x + t /\ n = y + s /\ s \in 0 .. M - 1 /\ t \in 0 .. M - 1 /\ D \in 1 .. M - 1
      BY <3>1, <3>3
    <3>8. CASE h = g
      <4>1. y = x
        BY <3>1, <3>3, <3>8
      <4>2. ~(t - s > D)
        BY <3>2, <3>7, <4>1
      <4> QED
        BY <3>3, <3>4, <3>8, <4>2
    <3>9. CASE h = g + 1
      <4>1. y = x + M
        BY <3>1, <3>3, <3>9
      <4>2. s < t /\ t - s > D
        BY <3>2, <3>7, <4>1
      <4>3. (g + 1) % M = g + 1
        <5>1. PICK z \in 0 .. M - 1 : z = g + 1
          BY <3>1, <3>3, <3>9
        <5>2. z % M = z
          BY ModNear
        <5> QED
          BY <5>1, <5>2
      <4> QED
        BY <3>3, <3>4, <3>9, <4>2, <4>3
    <3>10. h = g \/ h = g + 1
      BY <3>5, <3>6
    <3> QED
      BY <3>8, <3>9, <3>10
  <2> QED
    BY <2>1, <2>2 DEF FreshPasses
<1>2. Spec => []IInv
  BY Inductive
<1> QED
  BY <1>1, <1>2, PTL

-----------------------------------------------------------------------------
(* The lost counter.                                                       *)

\* The numbers a window of the newest number T and size W that moves by inc
\* leaves behind, and the bits they have.
Outgoing(inc) == {n \in Top - WindowSize + 1 .. Top - WindowSize + inc : Marked(n)}
Out(inc)    == IF inc < WindowSize THEN Leaving(inc) ELSE window

\* Every bit of the window is the bit of a number.
LEMMA BitsOnto ==
  ASSUME TypeOK, NEW b \in 0 .. WindowSize - 1
  PROVE  \E i \in 0 .. WindowSize - 1 : BitBehind(i) = b
<1>1. PICK W \in Nat \ {0, 1}, T \in Nat : W = WindowSize /\ T = Top
  BY WindowSizes, TopType
<1>2. CASE flags.huge
  <2>1. PICK x \in Int : x = T - b
    BY <1>1
  <2>2. PICK q \in Int, i \in 0 .. W - 1 : x = W * q + i
    BY DivMod
  <2>3. T - i = W * q + b
    <3>1. PICK y \in Int : y = W * q
      OBVIOUS
    <3> QED
      BY <1>1, <2>1, <2>2, <3>1
  <2>4. (T - i) % W = b
    <3>1. T - i \in Int /\ b \in 0 .. W - 1
      BY <1>1
    <3> QED
      BY <2>3, <3>1, DivModUnique
  <2> QED
    BY <1>1, <1>2, <2>4 DEF BitBehind
<1>3. CASE ~flags.huge
  <2>1. PICK i \in 0 .. W - 1 : i = W - 1 - b
    BY <1>1
  <2>2. BitBehind(i) = b
    BY <1>1, <1>3, <2>1 DEF BitBehind
  <2> QED
    BY <1>1, <2>2
<1> QED
  BY <1>2, <1>3

\* The bits that leave are those of the oldest inc numbers.
LEMMA LeavingIs ==
  ASSUME IInv, Bmi2, NEW inc \in 1 .. WindowSize - 1, NEW i \in 0 .. WindowSize - 1
  PROVE  BitBehind(i) \in Leaving(inc) <=> BitBehind(i) \in window /\ i >= WindowSize - inc
<1>1. PICK W \in Nat \ {0, 1}, T \in Nat, t \in Int : W = WindowSize /\ T = Top /\ t = seq
  <2>1. Top \in Nat
    BY TopType DEF IInv
  <2>2. seq \in Int
    BY Sizes DEF IInv, TypeOK
  <2> QED
    BY <2>1, <2>2, WindowSizes
<1>2. inc \in 1 .. W - 1 /\ i \in 0 .. W - 1
  BY <1>1
<1>3. CASE ~flags.huge
  <2>1. Leaving(inc) = window \cap (0 .. inc - 1)
    BY <1>1, <1>2, <1>3, WindowSizes DEF Leaving, Pow2Mask
  <2>2. BitBehind(i) = W - 1 - i
    BY <1>1, <1>3 DEF BitBehind
  <2>3. W - 1 - i \in 0 .. inc - 1 <=> i >= W - inc
    BY <1>2
  <2> QED
    BY <1>1, <2>1, <2>2, <2>3
<1>4. CASE flags.huge
  <2>1. Leaving(inc) = window \cap Turn(inc) /\ W = HugeSize
    <3>1. inc \in 0 .. HugeSize - 1 /\ TypeOK /\ W = HugeSize
      BY <1>1, <1>2, <1>4, WindowSizes DEF IInv
    <3>2. Cleared(inc) = Turn(inc)
      BY <3>1, ClearedTurn
    <3> QED
      BY <1>4, <3>1, <3>2 DEF Leaving
  <2>2. Turn(inc) = {(T + j) % W : j \in 1 .. inc}
    <3>1. \A j \in 1 .. inc : (T + j) % W = (t + j) % W
      <4>1. \A a \in Int : (Top + a) % WindowSize = (seq + a) % WindowSize
        BY TopMod DEF IInv
      <4> QED
        BY <1>1, <1>2, <4>1
    <3>2. Turn(inc) = {(t + j) % W : j \in 1 .. inc}
      BY <1>1, <2>1 DEF Turn
    <3> QED
      BY <3>1, <3>2
  <2>3. BitBehind(i) = (T - i) % W
    BY <1>1, <1>4 DEF BitBehind
  <2>4. ASSUME i >= W - inc
        PROVE  (T - i) % W \in Turn(inc)
    <3>1. PICK j \in 1 .. inc : j = W - i
      BY <1>2, <2>4
    <3>2. PICK a \in Int : a = T - i
      BY <1>2
    <3>3. T + j = a + W * 1 /\ 1 \in Int
      BY <1>2, <3>1, <3>2
    <3>4. (a + W * 1) % W = a % W
      BY <3>3, ModAdd
    <3> QED
      BY <2>2, <3>2, <3>3, <3>4
  <2>5. ASSUME i < W - inc
        PROVE  (T - i) % W \notin Turn(inc)
    <3> SUFFICES ASSUME NEW j \in 1 .. inc
                 PROVE  (T - i) % W # (T + j) % W
      BY <2>2
    <3>1. PICK a \in Int, b \in Int : a = T - i /\ b = T + j
      BY <1>2
    <3>2. a < b /\ b < a + W => a % W # b % W
      BY ModApart
    <3> QED
      BY <1>2, <2>5, <3>1, <3>2
  <2>6. i >= W - inc \/ i < W - inc
    BY <1>2
  <2> QED
    BY <1>1, <2>1, <2>3, <2>4, <2>5, <2>6
<1> QED
  BY <1>3, <1>4

\* As many bits leave as accepted numbers are left behind.
LEMMA OutgoingCount ==
  ASSUME IInv, Bmi2, flags.ar, ~stray, NEW inc \in 1 .. SeqMod - 1
  PROVE  IsFiniteSet(Outgoing(inc)) /\ Cardinality(Outgoing(inc)) = Cardinality(Out(inc))
<1>1. PICK W \in Nat \ {0, 1}, T \in Nat : W = WindowSize /\ T = Top
  <2>1. Top \in Nat
    BY TopType DEF IInv
  <2> QED
    BY <2>1, WindowSizes
<1>2. inc \in Nat \ {0}
  BY Sizes
<1>3. accepted \subseteq 1 .. T
  BY <1>1 DEF IInv, AcceptedOK
<1>4. \A i \in 0 .. W - 1 : BitBehind(i) \in window <=> Marked(T - i)
  BY <1>1 DEF IInv, WindowOK
<1>5. Outgoing(inc) = {n \in T - W + 1 .. T - W + inc : Marked(n)}
  BY <1>1 DEF Outgoing
<1>6. \A n \in Outgoing(inc) : n \in Int /\ T - n \in 0 .. W - 1 /\ n <= T - W + inc /\ Marked(n)
  BY <1>1, <1>2, <1>3, <1>5 DEF Marked
<1>7. \A i \in 0 .. W - 1 : BitBehind(i) \in Out(inc) <=> T - i \in Outgoing(inc)
  <2> TAKE i \in 0 .. W - 1
  <2>1. T - i \in Outgoing(inc) <=> Marked(T - i) /\ i >= W - inc
    BY <1>1, <1>2, <1>5
  <2>2. CASE inc < W
    <3>1. inc \in 1 .. WindowSize - 1
      BY <1>1, <1>2, <2>2
    <3>2. BitBehind(i) \in Leaving(inc) <=> BitBehind(i) \in window /\ i >= W - inc
      BY <1>1, <3>1, LeavingIs
    <3> QED
      BY <1>1, <1>4, <2>1, <2>2, <3>2 DEF Out
  <2>3. CASE ~(inc < W)
    <3>1. i >= W - inc
      BY <1>1, <1>2, <2>3
    <3> QED
      BY <1>1, <1>4, <2>1, <2>3, <3>1 DEF Out
  <2> QED
    BY <2>2, <2>3
<1>8. Out(inc) \subseteq 0 .. W - 1
  BY <1>1 DEF Out, Leaving, IInv, TypeOK
<1> DEFINE f == [n \in Outgoing(inc) |-> BitBehind(T - n)]
<1>9. f \in [Outgoing(inc) -> Out(inc)]
  <2>1. ASSUME NEW n \in Outgoing(inc)
        PROVE  BitBehind(T - n) \in Out(inc)
    <3>1. PICK i \in 0 .. W - 1 : i = T - n /\ T - i = n
      BY <1>6
    <3> QED
      BY <1>7, <3>1
  <2> QED
    BY <2>1
<1>10. \A m, n \in Outgoing(inc) : f[m] = f[n] => m = n
  <2> TAKE m, n \in Outgoing(inc)
  <2>1. PICK i \in 0 .. WindowSize - 1 : i = T - m /\ m = T - i
    BY <1>1, <1>6
  <2>2. PICK k \in 0 .. WindowSize - 1 : k = T - n /\ n = T - k
    BY <1>1, <1>6
  <2>3. i # k => BitBehind(i) # BitBehind(k)
    BY BitsApart DEF IInv
  <2> QED
    BY <2>1, <2>2, <2>3
<1>11. \A b \in Out(inc) : \E n \in Outgoing(inc) : f[n] = b
  <2> TAKE b \in Out(inc)
  <2>1. PICK i \in 0 .. W - 1 : BitBehind(i) = b
    BY <1>1, <1>8, BitsOnto DEF IInv
  <2>2. PICK n \in Outgoing(inc) : n = T - i
    BY <1>7, <2>1
  <2>3. T - n = i
    BY <1>1, <2>2
  <2>4. f[n] = b
    BY <2>1, <2>3
  <2> QED
    BY <2>4
<1>12. ExistsBijection(Outgoing(inc), Out(inc))
  <2> HIDE DEF f
  <2> QED
    BY <1>9, <1>10, <1>11 DEF ExistsBijection, Bijection, Injection, Surjection, IsInjective
<1>13. IsFiniteSet(Outgoing(inc))
  <2>1. PICK a \in Int, b \in Int : a = T - W + 1 /\ b = T - W + inc
    BY <1>2
  <2>2. IsFiniteSet(a .. b)
    BY FS_Interval
  <2>3. Outgoing(inc) \subseteq a .. b
    BY <1>5, <2>1
  <2> QED
    BY <2>2, <2>3, FS_Subset
<1> QED
  BY <1>12, <1>13, FS_Bijection

\* ipsec_sa_anti_replay_window_shift returns how many numbers that were not
\* accepted it leaves behind.
LEMMA NLostCount ==
  ASSUME IInv, Bmi2, flags.ar, ~stray, NEW inc \in 1 .. SeqMod - 1
  PROVE  LET left == {n \in Top - WindowSize + 1 .. Top - WindowSize + inc : ~Marked(n)}
         IN  IsFiniteSet(left) /\ Cardinality(left) = NLost(inc)
<1> DEFINE all  == Top - WindowSize + 1 .. Top - WindowSize + inc
           left == {n \in all : ~Marked(n)}
<1>1. PICK W \in Nat \ {0, 1}, T \in Nat : W = WindowSize /\ T = Top
  <2>1. Top \in Nat
    BY TopType DEF IInv
  <2> QED
    BY <2>1, WindowSizes
<1>2. inc \in Nat \ {0}
  BY Sizes
<1>3. IsFiniteSet(all) /\ Cardinality(all) = inc
  <2>1. PICK a \in Int, b \in Int : a = T - W + 1 /\ b = T - W + inc
    BY <1>2
  <2>2. IsFiniteSet(a .. b) /\ Cardinality(a .. b) = IF a > b THEN 0 ELSE b - a + 1
    BY FS_Interval
  <2>3. ~(a > b) /\ b - a + 1 = inc
    BY <1>2, <2>1
  <2> QED
    BY <1>1, <2>1, <2>2, <2>3
<1>4. left = all \ Outgoing(inc) /\ all \cap Outgoing(inc) = Outgoing(inc)
  BY DEF Outgoing
<1>5. IsFiniteSet(left) /\ Cardinality(left) = inc - Cardinality(Outgoing(inc))
  <2> HIDE DEF left, all
  <2> QED
    BY <1>3, <1>4, FS_Difference
<1>6. Cardinality(Outgoing(inc)) = Cardinality(Out(inc))
  BY OutgoingCount
<1>7. NLost(inc) = inc - Cardinality(Out(inc))
  <2>1. CASE inc < W
    BY <1>1, <2>1 DEF NLost, Out
  <2>2. CASE ~(inc < W)
    <3>1. Cardinality(window) \in Int
      BY WindowBound, WindowSizes DEF IInv
    <3> QED
      BY <1>1, <1>2, <2>2, <3>1 DEF NLost, Out
  <2> QED
    BY <2>1, <2>2
<1> QED
  BY <1>5, <1>6, <1>7

\* Every step counts what it loses.
LEMMA LostNext ==
  ASSUME IInv, Bmi2, LostExact, [Next]_vars
  PROVE  LostExact'
<1>1. CASE UNCHANGED << flags, saVars, accepted, stray >>
  <2>1. UNCHANGED << flags, lost, accepted, stray, Top, WindowSize >>
    BY <1>1 DEF saVars, Top, WindowSize
  <2> QED
    BY <2>1 DEF LostExact
<1>2. ASSUME PostAccept, ~flags.ar
      PROVE  LostExact'
  BY <1>2 DEF PostAccept, LostExact
<1>3. ASSUME PostAccept, flags.ar, ~stray'
      PROVE  LostExact'
  <2>0. ~stray /\ ~LeftBehind(Head(flight).num)
    BY <1>3 DEF PostAccept
  <2>1. PICK n \in Nat : n = Head(flight).num
    <3>1. flight \in Seq([num : Nat, hi : 0 .. SeqMod - 1]) /\ flight # << >>
      BY <1>3 DEF IInv, TypeOK, PostAccept
    <3>2. Head(flight) \in [num : Nat, hi : 0 .. SeqMod - 1]
      BY <3>1, HeadTailType
    <3> QED
      BY <3>2
  <2>2. PICK W \in Nat \ {0, 1}, T \in Nat : W = WindowSize /\ T = Top
    <3>1. Top \in Nat
      BY TopType DEF IInv
    <3> QED
      BY <3>1, WindowSizes
  <2>3. Newer(Head(flight)) \/ Late(Head(flight))
    <3>1. ~Overtaken(Head(flight))
      BY <1>3, <2>0 DEF Overtaken, LeftBehind
    <3> QED
      BY <1>3, <3>1, Verdict DEF PostAccept
  <2>4. WindowSize' = W /\ flags' = flags
    BY <1>3, <2>2 DEF PostAccept, WindowSize
  <2>5. lost = Cardinality({m \in 1 .. T - W : m \notin accepted})
    BY <1>3, <2>0, <2>2 DEF LostExact
  <2>6. CASE Late(Head(flight))
    <3>1. T - n \in 0 .. W - 1
      BY <2>1, <2>2, <2>6 DEF Late
    <3>2. accepted' = accepted \cup {n} /\ lost' = lost /\ Top' = T
      BY <1>3, <2>1, <2>2, <2>6, SameTop DEF IInv
    <3>3. n \notin 1 .. T - W
      BY <3>1
    <3>4. {m \in 1 .. T - W : m \notin accepted'} = {m \in 1 .. T - W : m \notin accepted}
      BY <3>2, <3>3
    <3> QED
      BY <2>4, <2>5, <3>2, <3>4 DEF LostExact
  <2>7. CASE Newer(Head(flight))
    <3>1. PICK inc \in 1 .. SeqMod - 1 : inc = n - Top
      BY <1>3, <2>1, <2>7, NewTop
    <3>2. /\ Top' = n /\ lost' = lost + NLost(inc) /\ accepted' = accepted \cup {n}
      BY <1>3, <2>1, <2>7, <3>1, NewTop
    <3>3. inc \in Nat \ {0} /\ n = T + inc
      BY <2>2, <3>1, Sizes
    <3> DEFINE old  == {m \in 1 .. T - W : m \notin accepted}
               left == {m \in T - W + 1 .. T - W + inc : ~Marked(m)}
               new  == {m \in 1 .. n - W : m \notin accepted'}
    <3>4. IsFiniteSet(left) /\ Cardinality(left) = NLost(inc)
      BY <1>3, <2>0, <2>2, NLostCount
    <3>5. IsFiniteSet(old)
      <4>1. PICK b \in Int : b = T - W
        OBVIOUS
      <4>2. IsFiniteSet(1 .. b)
        BY FS_Interval
      <4> QED
        BY <4>1, <4>2, FS_Subset
    <3>6. new = old \cup left
      <4>1. \A m : m \in new <=> m \in 1 .. n - W /\ m \notin accepted
        BY <3>2, <3>3
      <4>2. \A m \in Int : m \in 1 .. n - W <=>
               m \in 1 .. T - W \/ (m \in T - W + 1 .. T - W + inc /\ m >= 1)
        BY <3>3
      <4>3. \A m : m \in left <=> m \in T - W + 1 .. T - W + inc /\ m >= 1 /\ m \notin accepted
        BY <3>3 DEF Marked
      <4>4. \A m : (m \in 1 .. n - W => m \in Int) /\ (m \in 1 .. T - W => m \in Int)
                   /\ (m \in T - W + 1 .. T - W + inc => m \in Int)
        OBVIOUS
      <4>5. \A m : m \in old <=> m \in 1 .. T - W /\ m \notin accepted
        OBVIOUS
      <4> HIDE DEF new, old, left
      <4>6. \A m : m \in new <=> m \in old \/ m \in left
        BY <4>1, <4>2, <4>3, <4>4, <4>5, Zenon
      <4> QED
        BY <4>6
    <3>7. old \cap left = {}
      BY <3>3
    <3>8. Cardinality(new) = Cardinality(old) + Cardinality(left)
      <4> HIDE DEF new, old, left
      <4>1. /\ IsFiniteSet(old \cup left)
            /\ Cardinality(old \cup left)
                  = Cardinality(old) + Cardinality(left) - Cardinality(old \cap left)
        BY <3>4, <3>5, FS_Union
      <4>2. Cardinality({}) = 0
        BY FS_EmptySet
      <4>3. Cardinality(old) \in Nat /\ Cardinality(left) \in Nat
        BY <3>4, <3>5, FS_CardinalityType
      <4>4. Cardinality(old \cap left) = 0
        BY <3>7, <4>2
      <4>5. Cardinality(new) = Cardinality(old) + Cardinality(left) - 0
        BY <3>6, <4>1, <4>4
      <4> QED
        BY <4>3, <4>5
    <3>9. lost' = Cardinality(new)
      <4> HIDE DEF new, left
      <4> QED
        BY <2>5, <3>2, <3>4, <3>8
    <3> QED
      BY <2>4, <3>2, <3>9 DEF LostExact
  <2> QED
    BY <2>3, <2>6, <2>7
<1>4. stray' => LostExact'
  BY DEF LostExact
<1> QED
  BY <1>1, <1>2, <1>3, <1>4 DEF Next, Receive, PostDrop, vars

\* IPSEC_SA_ERROR_LOST counts exactly the packets that were not accepted and
\* are too old to be, however far and over how many words the window moved,
\* until an overtaken packet is accepted.
THEOREM LostCounted ==
  ASSUME Bmi2
  PROVE  Spec => []LostExact
<1>1. Init => LostExact
  <2> SUFFICES ASSUME Init
               PROVE  LostExact
    OBVIOUS
  <2>1. PICK n \in Starts : Top = n /\ accepted = 1 .. n /\ n \in Nat
    <3>1. PICK n \in Starts : seq = Lo(n) /\ seq_hi = Hi(n) /\ accepted = 1 .. n
      BY DEF Init
    <3>2. n \in Nat /\ SeqMod \in Nat
      BY Sizes, ArrivalAssumption
    <3>3. PICK q \in Nat, r \in 0 .. SeqMod - 1 : q = Hi(n) /\ r = Lo(n) /\ n = SeqMod * q + r
      BY <3>2, Halves
    <3>4. q * SeqMod = SeqMod * q
      BY <3>2
    <3> QED
      BY <3>1, <3>2, <3>3, <3>4 DEF Top
  <2>2. {m \in 1 .. Top - WindowSize : m \notin accepted} = {}
    BY <2>1, WindowSizes
  <2> QED
    BY <2>2, FS_EmptySet DEF Init, LostExact
<1>2. Init => IInv
  BY InitInv
<1>3. IInv /\ [Next]_vars => IInv'
  BY NextInv
<1>4. IInv /\ LostExact /\ [Next]_vars => LostExact'
  BY LostNext
<1> QED
  BY <1>1, <1>2, <1>3, <1>4, PTL DEF Spec
=============================================================================
