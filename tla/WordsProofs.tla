----------------------------- MODULE WordsProofs -----------------------------
(***************************************************************************)
(* Arithmetic of words: what the relocation code subtracts the processor   *)
(* adds again.                                                             *)
(***************************************************************************)
EXTENDS Words, TLAPS

\* A set of bits without a least one is empty.
LEMMA LeastBit ==
  ASSUME NEW S \in SUBSET Bits, S # {}
  PROVE  \E b \in S : \A c \in S : b <= c
<1> DEFINE K == {k \in Nat : \A c \in S : c >= k}
<1> SUFFICES ASSUME \A b \in S : \E c \in S : c < b
             PROVE  FALSE
  BY DEF Bits
<1>1. \A c \in S : c \in Nat /\ c < 64
  BY DEF Bits
<1>2. 0 \in K
  BY <1>1
<1>3. \A k \in K : k + 1 \in K
  BY <1>1
<1> HIDE DEF K
<1>4. \A k \in K : k \in Nat /\ k + 4 \in K
  <2> SUFFICES ASSUME NEW k \in K PROVE k \in Nat /\ k + 4 \in K
    OBVIOUS
  <2>1. k \in Nat /\ k + 1 \in K /\ (k + 1) + 1 \in K /\ ((k + 1) + 1) + 1 \in K
    BY <1>3 DEF K
  <2>2. ((k + 1) + 1) + 2 = k + 4 /\ ((k + 1) + 1) + 1 = k + 3 /\ (k + 3) + 1 = k + 4
    BY <2>1
  <2>3. QED
    BY <1>3, <2>1, <2>2
<1>5. \A k \in K : k + 16 \in K
  <2> SUFFICES ASSUME NEW k \in K PROVE k + 16 \in K
    OBVIOUS
  <2>1. k \in Nat /\ k + 4 \in K /\ (k + 4) + 4 \in K /\ ((k + 4) + 4) + 4 \in K
    BY <1>4
  <2>2. ((k + 4) + 4) + 4 = k + 12 /\ (k + 12) + 4 = k + 16
    BY <2>1
  <2>3. QED
    BY <1>4, <2>1, <2>2
<1>6. 64 \in K
  <2>1. 0 + 16 + 16 + 16 + 16 \in K
    BY <1>2, <1>5
  <2>2. QED
    BY <2>1
<1>7. QED
  BY <1>1, <1>6 DEF K

LEMMA LeastDifference ==
  ASSUME NEW x \in Word, NEW y \in Word, x # y
  PROVE  \E b \in Bits : /\ b \in x <=> b \notin y
                         /\ \A c \in 0 .. b - 1 : c \in x <=> c \in y
<1>1. PICK b \in Xor(x, y) : \A c \in Xor(x, y) : b <= c
  BY LeastBit DEF Xor, Word
<1>2. QED
  BY <1>1 DEF Xor, Word, Bits

\* A carry comes out of a bit where two of the three it adds are 1.
LEMMA CarryStep ==
  ASSUME NEW x \in Word, NEW y \in Word, NEW carry \in BOOLEAN, NEW b \in 0 .. 62
  PROVE  /\ 0 \in Carries(x, y, carry) <=> carry
         /\ b + 1 \in Carries(x, y, carry) <=>
              (b \in x /\ b \in y) \/ ((b \in x \/ b \in y) /\ b \in Carries(x, y, carry))
<1>1. 0 \in Carries(x, y, carry) <=> carry
  BY DEF Carries, Word, Bits
<1>2. ASSUME b + 1 \in Carries(x, y, carry)
      PROVE  (b \in x /\ b \in y) \/ ((b \in x \/ b \in y) /\ b \in Carries(x, y, carry))
  <2>1. CASE \E i \in x \cap y : i < b + 1 /\ (i + 1 .. b) \subseteq x \cup y
    BY <2>1 DEF Carries, Word, Bits
  <2>2. CASE carry /\ (0 .. b) \subseteq x \cup y
    BY <2>2 DEF Carries, Word, Bits
  <2>3. QED
    BY <1>2, <2>1, <2>2 DEF Carries
<1>3. ASSUME (b \in x /\ b \in y) \/ ((b \in x \/ b \in y) /\ b \in Carries(x, y, carry))
      PROVE  b + 1 \in Carries(x, y, carry)
  <2>1. CASE b \in x /\ b \in y
    BY <2>1 DEF Carries, Word, Bits
  <2>2. CASE (b \in x \/ b \in y) /\ b \in Carries(x, y, carry)
    <3>1. CASE \E i \in x \cap y : i < b /\ (i + 1 .. b - 1) \subseteq x \cup y
      BY <2>2, <3>1 DEF Carries, Word, Bits
    <3>2. CASE carry /\ (0 .. b - 1) \subseteq x \cup y
      BY <2>2, <3>2 DEF Carries, Word, Bits
    <3>3. QED
      BY <2>2, <3>1, <3>2 DEF Carries
  <2>3. QED
    BY <1>3, <2>1, <2>2
<1>4. QED
  BY <1>1, <1>2, <1>3

\* Only the bits below b count for what is carried into b.
LEMMA SumBit ==
  ASSUME NEW x \in Word, NEW y \in Word, NEW carry \in BOOLEAN, NEW b \in Bits
  PROVE  b \in AddCarry(x, y, carry) <=>
           ((b \in x <=> b \in y) <=> b \in Carries(x, y, carry))
BY DEF AddCarry, Xor, Carries, Word

LEMMA AddIsWord ==
  ASSUME NEW x \in Word, NEW y \in Word, NEW carry \in BOOLEAN
  PROVE  AddCarry(x, y, carry) \in Word
BY DEF AddCarry, Carries, Xor, Word

LEMMA AddBit ==
  ASSUME NEW x \in Word, NEW y \in Word, NEW b \in Bits
  PROVE  /\ b \in Add(x, y) <=> ((b \in x <=> b \in y) <=> b \in Carries(x, y, FALSE))
         /\ Add(x, y) \in Word
BY SumBit, AddIsWord DEF Add

\* y - x + x = y: the sum carries where the difference borrows, that is where it
\* does not carry.
LEMMA SubThenAdd ==
  ASSUME NEW x \in Word, NEW y \in Word
  PROVE  Add(x, Sub(y, x)) = y
<1> DEFINE nx == Not(x)
           C  == Carries(y, nx, TRUE)
           d  == AddCarry(y, nx, TRUE)
           D  == Carries(x, d, FALSE)
<1>1. nx \in Word /\ \A b \in Bits : b \in nx <=> b \notin x
  BY DEF Not, Word
<1>2. d \in Word
  BY <1>1, AddIsWord
<1>3. \A b \in Bits : b \in d <=> ((b \in y <=> b \in nx) <=> b \in C)
  BY <1>1, SumBit
<1>4. \A b \in Bits : b \in Add(x, d) <=> ((b \in x <=> b \in d) <=> b \in D)
  BY <1>2, SumBit DEF Add
<1>5. C \in Word /\ D \in Word
  BY DEF Carries, Word
<1>6. 0 \in C /\ 0 \notin D
  <2>1. 0 \in 0 .. 62
    OBVIOUS
  <2>2. QED
    BY <1>1, <1>2, <2>1, CarryStep
<1>7. \A b \in 0 .. 62 :
        b + 1 \in C <=> (b \in y /\ b \in nx) \/ ((b \in y \/ b \in nx) /\ b \in C)
  BY <1>1, CarryStep
<1>8. \A b \in 0 .. 62 :
        b + 1 \in D <=> (b \in x /\ b \in d) \/ ((b \in x \/ b \in d) /\ b \in D)
  BY <1>2, CarryStep
<1> HIDE DEF nx, C, d, D
<1>9. \A b \in Bits : b \in D <=> b \notin C
  <2> DEFINE S == {b \in Bits : b \in D <=> b \in C}
  <2>1. SUFFICES ASSUME S # {} PROVE FALSE
    OBVIOUS
  <2>2. PICK b \in S : \A c \in S : b <= c
    BY <2>1, LeastBit
  <2>3. b # 0
    BY <1>6, <2>2
  <2>4. b - 1 \in 0 .. 62 /\ b - 1 \in Bits /\ (b - 1) + 1 = b /\ b - 1 \notin S
    BY <2>2, <2>3 DEF Bits
  <2>5. b - 1 \in D <=> b - 1 \notin C
    BY <2>4
  <2>6. b \in D <=> b \notin C
    BY <1>1, <1>3, <1>7, <1>8, <2>4, <2>5
  <2>7. QED
    BY <2>2, <2>6
<1>10. \A b \in Bits : b \in Add(x, d) <=> b \in y
  BY <1>1, <1>3, <1>4, <1>9
<1>11. Add(x, d) \in Word
  BY <1>2, AddIsWord DEF Add
<1>12. Add(x, d) = y
  BY <1>10, <1>11 DEF Word
<1>13. QED
  BY <1>12 DEF Sub, d, nx

\* Adding x is one-to-one.
LEMMA AddCancels ==
  ASSUME NEW x \in Word, NEW y \in Word, NEW z \in Word, Add(x, y) = Add(x, z)
  PROVE  y = z
<1> SUFFICES ASSUME y # z PROVE FALSE
  OBVIOUS
<1>1. PICK b \in Bits : /\ b \in y <=> b \notin z
                       /\ \A c \in 0 .. b - 1 : c \in y <=> c \in z
  BY LeastDifference
<1>2. b \in Carries(x, y, FALSE) <=> b \in Carries(x, z, FALSE)
  BY <1>1 DEF Carries, Bits, Word
<1>3. QED
  BY <1>1, <1>2, SumBit DEF Add

\* x + d + y = x + y + d: at every bit the two sums of three carry as much, if
\* not in the same of their additions.
LEMMA AddSwaps ==
  ASSUME NEW x \in Word, NEW d \in Word, NEW y \in Word
  PROVE  Add(Add(x, d), y) = Add(Add(x, y), d)
<1> DEFINE s == Add(x, d)
           t == Add(x, y)
           A == Carries(x, d, FALSE)
           B == Carries(s, y, FALSE)
           C == Carries(x, y, FALSE)
           D == Carries(t, d, FALSE)
           Same(b) == /\ (b \in A <=> b \in B) <=> (b \in C <=> b \in D)
                      /\ (b \in A /\ b \in B) <=> (b \in C /\ b \in D)
<1>0. \A p, q \in Word : /\ Add(p, q) \in Word
                        /\ \A b \in Bits : b \in Add(p, q) <=> ((b \in p <=> b \in q) <=> b \in Carries(p, q, FALSE))
  <2> SUFFICES ASSUME NEW p \in Word, NEW q \in Word
               PROVE  /\ Add(p, q) \in Word
                      /\ \A b \in Bits : b \in Add(p, q) <=> ((b \in p <=> b \in q) <=> b \in Carries(p, q, FALSE))
    OBVIOUS
  <2>1. Add(p, q) \in Word
    BY AddIsWord DEF Add
  <2>2. QED
    BY <2>1, AddBit
<1>1. /\ s \in Word /\ \A b \in Bits : b \in s <=> ((b \in x <=> b \in d) <=> b \in A)
      /\ t \in Word /\ \A b \in Bits : b \in t <=> ((b \in x <=> b \in y) <=> b \in C)
  BY <1>0
<1>2. /\ \A b \in Bits : b \in Add(s, y) <=> ((b \in s <=> b \in y) <=> b \in B)
      /\ \A b \in Bits : b \in Add(t, d) <=> ((b \in t <=> b \in d) <=> b \in D)
      /\ Add(s, y) \in Word /\ Add(t, d) \in Word
  <2>1. s \in Word /\ t \in Word
    BY <1>1
  <2> HIDE DEF s, t
  <2>2. QED
    BY <2>1, <1>0
<1>3. 0 \notin A /\ 0 \notin B /\ 0 \notin C /\ 0 \notin D
  BY <1>1, CarryStep, 0 \in 0 .. 62
<1>4. \A b \in 0 .. 62 :
        /\ b + 1 \in A <=> (b \in x /\ b \in d) \/ ((b \in x \/ b \in d) /\ b \in A)
        /\ b + 1 \in B <=> (b \in s /\ b \in y) \/ ((b \in s \/ b \in y) /\ b \in B)
        /\ b + 1 \in C <=> (b \in x /\ b \in y) \/ ((b \in x \/ b \in y) /\ b \in C)
        /\ b + 1 \in D <=> (b \in t /\ b \in d) \/ ((b \in t \/ b \in d) /\ b \in D)
  BY <1>1, CarryStep
<1> HIDE DEF s, t, A, B, C, D
<1>5. \A b \in Bits : Same(b)
  <2> DEFINE S == {b \in Bits : ~Same(b)}
  <2>1. SUFFICES ASSUME S # {} PROVE FALSE
    OBVIOUS
  <2>2. PICK b \in S : \A c \in S : b <= c
    BY <2>1, LeastBit
  <2>3. b # 0
    BY <1>3, <2>2
  <2>4. b - 1 \in 0 .. 62 /\ b - 1 \in Bits /\ (b - 1) + 1 = b /\ b - 1 \notin S
    BY <2>2, <2>3 DEF Bits
  <2>5. PICK c \in Bits : c \in 0 .. 62 /\ c + 1 = b /\ Same(c)
    BY <2>4
  <2>6. /\ c \in s <=> ((c \in x <=> c \in d) <=> c \in A)
        /\ c \in t <=> ((c \in x <=> c \in y) <=> c \in C)
    BY <1>1
  <2>7. /\ b \in A <=> (c \in x /\ c \in d) \/ ((c \in x \/ c \in d) /\ c \in A)
        /\ b \in B <=> (c \in s /\ c \in y) \/ ((c \in s \/ c \in y) /\ c \in B)
        /\ b \in C <=> (c \in x /\ c \in y) \/ ((c \in x \/ c \in y) /\ c \in C)
        /\ b \in D <=> (c \in t /\ c \in d) \/ ((c \in t \/ c \in d) /\ c \in D)
    BY <1>4, <2>5
  <2>8. Same(b)
    BY <2>5, <2>6, <2>7
  <2>9. QED
    BY <2>2, <2>8
<1>6. \A b \in Bits : b \in Add(s, y) <=> b \in Add(t, d)
  BY <1>1, <1>2, <1>5
<1>7. Add(s, y) = Add(t, d)
  BY <1>2, <1>6 DEF Word
<1>8. QED
  BY <1>7 DEF s, t

\* The distance of two words stays when both move by d.
LEMMA DistanceStays ==
  ASSUME NEW x \in Word, NEW y \in Word, NEW d \in Word
  PROVE  Sub(Add(y, d), Add(x, d)) = Sub(y, x)
<1>1. \A a, b \in Word : Add(a, b) \in Word /\ Sub(a, b) \in Word
  <2>1. \A a \in Word : Not(a) \in Word
    BY DEF Not, Word
  <2>2. QED
    BY <2>1, AddIsWord DEF Add, Sub
<1>2. Add(Add(x, d), Sub(y, x)) = Add(Add(x, Sub(y, x)), d)
  BY <1>1, AddSwaps
<1>3. Add(x, Sub(y, x)) = y
  BY SubThenAdd
<1>4. Add(Add(x, d), Sub(Add(y, d), Add(x, d))) = Add(y, d)
  BY <1>1, SubThenAdd
<1>5. QED
  BY <1>1, <1>2, <1>3, <1>4, AddCancels

\* The low bits of a sum come from the low bits of what is added.
LEMMA LowOfSum ==
  ASSUME NEW x \in Word, NEW y \in Word, NEW z \in Word, NEW n \in Nat,
         Low(y, n) = Low(z, n)
  PROVE  Low(Add(x, y), n) = Low(Add(x, z), n)
<1> SUFFICES ASSUME NEW b \in Bits, b < n
             PROVE  b \in Add(x, y) <=> b \in Add(x, z)
  BY AddIsWord DEF Low, Add, Word
<1>1. \A c \in 0 .. b : c \in y <=> c \in z
  <2>1. \A c \in 0 .. b : c < n
    BY DEF Bits
  <2>2. QED
    BY <2>1 DEF Low
<1>2. b \in Carries(x, y, FALSE) <=> b \in Carries(x, z, FALSE)
  BY <1>1 DEF Carries, Bits, Word
<1>3. b \in y <=> b \in z
  BY <1>1 DEF Bits
<1>4. b \in Add(x, y) <=> ((b \in x <=> b \in y) <=> b \in Carries(x, y, FALSE))
  BY AddBit
<1>5. b \in Add(x, z) <=> ((b \in x <=> b \in z) <=> b \in Carries(x, z, FALSE))
  BY AddBit
<1>6. QED
  BY <1>2, <1>3, <1>4, <1>5

\* Added to a multiple of 2^n, the low n bits stay and carry nothing.
LEMMA SumWithMultiple ==
  ASSUME NEW x \in Word, NEW y \in Word, NEW n \in Nat, Low(x, n) = {}
  PROVE  \A b \in Bits :
           b \in Add(x, y) <=> IF b < n THEN b \in y ELSE b \in Add(x, {c \in y : c >= n})
<1> DEFINE z == {c \in y : c >= n}
<1> SUFFICES ASSUME NEW b \in Bits
             PROVE  b \in Add(x, y) <=> IF b < n THEN b \in y ELSE b \in Add(x, z)
  OBVIOUS
<1>1. z \in Word
  BY DEF Word
<1>2. \A c \in x : c >= n /\ c \in Nat
  BY DEF Low, Word, Bits
<1>3. CASE b < n
  <2>1. b \notin Carries(x, y, FALSE) /\ b \notin x
    BY <1>2, <1>3 DEF Carries, Bits, Word
  <2>2. QED
    BY <1>3, <2>1, SumBit DEF Add
<1>4. CASE b >= n
  <2>1. b \in Carries(x, y, FALSE) <=> b \in Carries(x, z, FALSE)
    BY <1>2, <1>4 DEF Carries, Bits, Word
  <2>2. b \in y <=> b \in z
    BY <1>4
  <2>3. QED
    <3>1. b \in Add(x, y) <=> b \in Add(x, z)
      <4>1. b \in Add(x, y) <=> ((b \in x <=> b \in y) <=> b \in Carries(x, y, FALSE))
        BY AddBit
      <4>2. b \in Add(x, z) <=> ((b \in x <=> b \in z) <=> b \in Carries(x, z, FALSE))
        BY <1>1, AddBit
      <4>3. QED
        BY <2>1, <2>2, <4>1, <4>2
    <3>2. ~ (b < n)
      BY <1>4 DEF Bits
    <3>3. QED
      BY <3>1, <3>2
<1>5. QED
  BY <1>3, <1>4 DEF Bits

-----------------------------------------------------------------------------
(***************************************************************************)
(* Fields                                                                  *)
(***************************************************************************)

LEMMA LowBits ==
  ASSUME NEW x \in Word, NEW n \in Nat
  PROVE  Low(x, n) \in Word /\ \A b \in Bits : b \in Low(x, n) <=> b \in x /\ b < n
BY DEF Low, Word

LEMMA ShlBits ==
  ASSUME NEW x \in Word, NEW n \in 0 .. 64
  PROVE  Shl(x, n) \in Word /\ \A b \in Bits : b \in Shl(x, n) <=> b - n \in x
<1>1. \A b \in x : b \in Nat
  BY DEF Word, Bits
<1>2. \A b \in Bits : b - n \in x => b \in Shl(x, n)
  <2> SUFFICES ASSUME NEW b \in Bits, b - n \in x PROVE b \in Shl(x, n)
    OBVIOUS
  <2>1. (b - n) + n = b
    BY DEF Bits
  <2>2. QED
    BY <2>1 DEF Shl
<1>3. QED
  BY <1>1, <1>2 DEF Shl, Word, Bits

LEMMA ShrBits ==
  ASSUME NEW x \in Word, NEW n \in 0 .. 64
  PROVE  Shr(x, n) \in Word /\ \A b \in Bits : b \in Shr(x, n) <=> b + n \in x
<1>1. \A b \in x : b \in Nat
  BY DEF Word, Bits
<1>2. \A b \in Bits : b + n \in x => b \in Shr(x, n)
  <2> SUFFICES ASSUME NEW b \in Bits, b + n \in x PROVE b \in Shr(x, n)
    OBVIOUS
  <2>1. (b + n) - n = b
    BY DEF Bits
  <2>2. QED
    BY <2>1 DEF Shr
<1>3. QED
  BY <1>1, <1>2 DEF Shr, Word, Bits

LEMMA AsrBits ==
  ASSUME NEW x \in Word, NEW n \in 0 .. 63
  PROVE  /\ Asr(x, n) \in Word
         /\ \A b \in Bits : b \in Asr(x, n) <=> IF b + n <= 63 THEN b + n \in x ELSE 63 \in x
<1>1. n \in 0 .. 64
  OBVIOUS
<1>2. Shr(x, n) \in Word /\ \A b \in Bits : b \in Shr(x, n) <=> b + n \in x
  BY <1>1, ShrBits
<1>3. \A b \in x : b \in 0 .. 63
  BY DEF Word, Bits
<1>4. QED
  BY <1>2, <1>3 DEF Asr, Word, Bits

LEMMA SignedBits ==
  ASSUME NEW x \in Word, NEW n \in 1 .. 63
  PROVE  /\ Signed(x, n) \in Word
         /\ \A b \in Bits : b \in Signed(x, n) <=> IF b < n THEN b \in x ELSE n - 1 \in x
<1>1. \A b \in Bits : b < n \/ b \in n .. 63
  BY DEF Bits
<1>2. n .. 63 \subseteq Bits /\ \A b \in n .. 63 : ~(b < n)
  BY DEF Bits
<1>3. CASE n - 1 \in x
  <2>1. Signed(x, n) = Low(x, n) \cup (n .. 63)
    BY <1>3 DEF Signed
  <2>2. QED
    BY <1>1, <1>2, <1>3, <2>1 DEF Low, Word
<1>4. CASE n - 1 \notin x
  <2>1. Signed(x, n) = Low(x, n)
    BY <1>4 DEF Signed
  <2>2. QED
    BY <1>1, <1>2, <1>4, <2>1 DEF Low, Word
<1>5. QED
  BY <1>3, <1>4

LEMMA NotBits ==
  ASSUME NEW x \in Word
  PROVE  Not(x) \in Word /\ \A b \in Bits : b \in Not(x) <=> b \notin x
BY DEF Not, Word

\* A number fits n bits with a sign if what lies above them is the sign.
LEMMA SignedFits ==
  ASSUME NEW x \in Word, NEW n \in 1 .. 63
  PROVE  x \cap (n - 1 .. 63) \in {{}, n - 1 .. 63} <=> Signed(x, n) = x
<1> DEFINE upper == n - 1 .. 63
<1>1. Signed(x, n) \in Word /\ \A b \in Bits : b \in Signed(x, n) <=> IF b < n THEN b \in x ELSE n - 1 \in x
  BY SignedBits
<1>2. /\ n - 1 \in upper /\ upper \subseteq Bits
      /\ \A b \in Bits : ~(b < n) => b \in upper
      /\ \A b \in upper : b = n - 1 \/ ~(b < n)
  BY DEF Bits
<1> HIDE DEF upper
<1>3. ASSUME x \cap upper = {} PROVE Signed(x, n) = x
  <2>1. \A b \in Bits : b \in Signed(x, n) <=> b \in x
    BY <1>1, <1>2, <1>3
  <2>2. QED
    BY <1>1, <2>1 DEF Word
<1>4. ASSUME x \cap upper = upper PROVE Signed(x, n) = x
  <2>1. \A b \in Bits : b \in Signed(x, n) <=> b \in x
    BY <1>1, <1>2, <1>4
  <2>2. QED
    BY <1>1, <2>1 DEF Word
<1>5. ASSUME Signed(x, n) = x PROVE x \cap upper \in {{}, upper}
  <2>1. \A b \in upper : b \in x <=> n - 1 \in x
    BY <1>1, <1>2, <1>5
  <2>2. CASE n - 1 \in x
    <3>1. x \cap upper = upper
      BY <2>1, <2>2
    <3>2. QED
      BY <3>1
  <2>3. CASE n - 1 \notin x
    <3>1. x \cap upper = {}
      BY <2>1, <2>3
    <3>2. QED
      BY <3>1
  <2>4. QED
    BY <2>2, <2>3
<1>6. QED
  BY <1>3, <1>4, <1>5 DEF upper

\* Added to a multiple h of 2^n, a multiple of 2^n and a distance give the same
\* multiple of 2^n exactly if it is that of the distance.
LEMMA SameMultiple ==
  ASSUME NEW h \in Word, NEW s \in Word, NEW v \in Word, NEW n \in 0 .. 63,
         Low(h, n) = {}, Low(s, n) = {}
  PROVE  (\A b \in Xor(Add(h, s), Add(h, v)) : b < n) <=> s = {c \in v : c >= n}
<1> DEFINE m == {c \in v : c >= n}
<1>1. m \in Word /\ Add(h, s) \in Word /\ Add(h, v) \in Word /\ Add(h, m) \in Word
  <2>1. m \in Word
    BY DEF Word
  <2>2. QED
    BY <2>1, AddIsWord DEF Add
<1>2. n \in Nat
  OBVIOUS
<1>3. \A b \in Bits : /\ b \in Add(h, v) <=> IF b < n THEN b \in v ELSE b \in Add(h, m)
                      /\ b < n => b \notin Add(h, s) /\ b \notin Add(h, m)
  <2>1. \A b \in Bits : b \in Add(h, v) <=> IF b < n THEN b \in v ELSE b \in Add(h, m)
    BY <1>2, SumWithMultiple
  <2>2. \A b \in Bits : b < n /\ b \in Add(h, s) => b \in s
    BY <1>2, SumWithMultiple
  <2>3. \A b \in Bits : b < n /\ b \in Add(h, m) => b \in m
    BY <1>1, <1>2, SumWithMultiple
  <2>4. \A b \in Bits : b < n => b \notin s /\ b \notin m
    BY DEF Low, Bits
  <2>5. QED
    BY <2>1, <2>2, <2>3, <2>4
<1> HIDE DEF m
<1>4. ASSUME s = m
      PROVE  \A b \in Xor(Add(h, s), Add(h, v)) : b < n
  BY <1>1, <1>3, <1>4 DEF Xor, Word
<1>5. ASSUME \A b \in Xor(Add(h, s), Add(h, v)) : b < n
      PROVE  s = m
  <2>1. \A b \in Bits : b \in Add(h, s) <=> b \in Add(h, m)
    BY <1>1, <1>3, <1>5 DEF Xor, Word
  <2>2. Add(h, s) = Add(h, m)
    BY <1>1, <2>1 DEF Word
  <2>3. QED
    BY <1>1, <2>2, AddCancels
<1>6. QED
  BY <1>4, <1>5 DEF m

\* A multiple of 2^n fits len bits exactly if the field, extended and shifted
\* back, is that multiple.
LEMMA ShiftedFits ==
  ASSUME NEW v \in Word, NEW n \in 0 .. 63, NEW len \in 1 .. 63, len + n <= 64
  PROVE  /\ Low(Shl(Signed(Asr(v, n), len), n), n) = {}
         /\ Shl(Signed(Asr(v, n), len), n) = {c \in v : c >= n} <=> Signed(Asr(v, n), len) = Asr(v, n)
<1> DEFINE x == Asr(v, n)
           s == Signed(x, len)
           y == Shl(s, n)
<1>1. x \in Word /\ \A b \in Bits : b \in x <=> IF b + n <= 63 THEN b + n \in v ELSE 63 \in v
  BY AsrBits
<1>2. s \in Word /\ \A b \in Bits : b \in s <=> IF b < len THEN b \in x ELSE len - 1 \in x
  BY <1>1, SignedBits
<1>3. y \in Word /\ \A b \in Bits : b \in y <=> b - n \in s
  <2>1. n \in 0 .. 64
    OBVIOUS
  <2>2. QED
    BY <1>2, <2>1, ShlBits
<1> HIDE DEF x, s, y
<1>4. \A b \in Bits : b >= n => b - n \in Bits /\ (b - n) + n = b /\ (b - n \in x <=> b \in v)
  BY <1>1 DEF Bits
<1>5. \A b \in Bits : b < n => b \notin y
  BY <1>2, <1>3 DEF Word, Bits
<1>6. ASSUME s = x PROVE y = {c \in v : c >= n}
  <2>1. \A b \in Bits : b \in y <=> b \in v /\ b >= n
    BY <1>3, <1>4, <1>5, <1>6 DEF Bits
  <2>2. QED
    BY <1>3, <2>1 DEF Word
<1>7. ASSUME y = {c \in v : c >= n} PROVE s = x
  <2>1. \A c \in Bits : c + n <= 63 => (c \in s <=> c \in x)
    <3> SUFFICES ASSUME NEW c \in Bits, c + n <= 63 PROVE c \in s <=> c \in x
      OBVIOUS
    <3>1. c + n \in Bits /\ (c + n) - n = c /\ c + n >= n
      BY DEF Bits
    <3>2. c + n \in y <=> c \in s
      BY <1>3, <3>1
    <3>3. c + n \in v <=> c \in x
      BY <1>1
    <3>4. QED
      BY <1>7, <3>1, <3>2, <3>3
  <2>2. 63 - n \in Bits /\ (63 - n) + n = 63
    BY DEF Bits
  <2>3. 63 - n \in s <=> 63 \in v
    BY <1>1, <2>1, <2>2
  <2>4. 63 - n \in s <=> len - 1 \in x
    <3>1. 63 - n < len => 63 - n = len - 1
      OBVIOUS
    <3>2. QED
      BY <1>2, <2>2, <3>1
  <2>5. \A c \in Bits : ~(c + n <= 63) => (c \in s <=> c \in x)
    <3> SUFFICES ASSUME NEW c \in Bits, ~(c + n <= 63) PROVE c \in s <=> c \in x
      OBVIOUS
    <3>1. ~(c < len)
      BY DEF Bits
    <3>2. (c \in s <=> len - 1 \in x) /\ (c \in x <=> 63 \in v)
      BY <1>1, <1>2, <3>1
    <3>3. QED
      BY <2>3, <2>4, <3>2
  <2>6. QED
    BY <1>1, <1>2, <2>1, <2>5 DEF Word
<1>8. Low(y, n) = {}
  BY <1>3, <1>5 DEF Low, Word
<1>9. QED
  BY <1>6, <1>7, <1>8 DEF x, s, y

\* So a field with a sign takes a distance from h exactly if it fits.
LEMMA DistanceFits ==
  ASSUME NEW h \in Word, NEW v \in Word, NEW n \in 0 .. 63, NEW len \in 1 .. 63, len + n <= 64,
         Low(h, n) = {}
  PROVE  (\A b \in Xor(Add(h, Shl(Signed(Asr(v, n), len), n)), Add(h, v)) : b < n)
           <=> Asr(v, n) \cap (len - 1 .. 63) \in {{}, len - 1 .. 63}
<1> DEFINE x == Asr(v, n)
           y == Shl(Signed(x, len), n)
<1>1. x \in Word
  BY AsrBits
<1>2. y \in Word
  <2>1. Signed(x, len) \in Word
    BY <1>1, SignedBits
  <2>2. n \in 0 .. 64
    OBVIOUS
  <2>3. QED
    BY <2>1, <2>2, ShlBits
<1>3. Low(y, n) = {} /\ (y = {c \in v : c >= n} <=> Signed(x, len) = x)
  BY ShiftedFits
<1>4. x \cap (len - 1 .. 63) \in {{}, len - 1 .. 63} <=> Signed(x, len) = x
  BY <1>1, SignedFits
<1> HIDE DEF x, y
<1>5. (\A b \in Xor(Add(h, y), Add(h, v)) : b < n) <=> y = {c \in v : c >= n}
  BY <1>2, <1>3, SameMultiple
<1>6. QED
  BY <1>3, <1>4, <1>5 DEF x, y

\* A wide move of sixteen bits at g gives a number up to what lies below g
\* exactly if nothing lies above them.
LEMMA WideFits ==
  ASSUME NEW x \in Word, NEW g \in 0 .. 47
  PROVE  (\A b \in Xor(Shl(Low(Asr(x, g), 16), g), x) : b < g) <=> Asr(x, g) = Low(Asr(x, g), 16)
<1> DEFINE imm == Asr(x, g)
           low == Low(imm, 16)
           y   == Shl(low, g)
<1>1. imm \in Word /\ \A b \in Bits : b \in imm <=> IF b + g <= 63 THEN b + g \in x ELSE 63 \in x
  <2>1. g \in 0 .. 63
    OBVIOUS
  <2>2. QED
    BY <2>1, AsrBits
<1>2. low \in Word /\ \A b \in Bits : b \in low <=> b \in imm /\ b < 16
  BY <1>1, LowBits
<1>3. y \in Word /\ \A b \in Bits : b \in y <=> b - g \in low
  <2>1. g \in 0 .. 64
    OBVIOUS
  <2>2. QED
    BY <1>2, <2>1, ShlBits
<1> HIDE DEF imm, low, y
<1>4. \A b \in Bits : b >= g => b - g \in Bits /\ (b - g) + g = b /\ (b - g \in imm <=> b \in x)
  BY <1>1 DEF Bits
<1>5. ASSUME imm = low PROVE \A b \in Xor(y, x) : b < g
  BY <1>3, <1>4, <1>5 DEF Xor, Word, Bits
<1>6. ASSUME \A b \in Xor(y, x) : b < g PROVE imm = low
  <2>1. \A c \in Bits : c + g <= 63 => (c \in imm => c < 16)
    <3> SUFFICES ASSUME NEW c \in Bits, c + g <= 63, c \in imm PROVE c < 16
      OBVIOUS
    <3>1. c + g \in Bits /\ (c + g) - g = c /\ ~(c + g < g)
      BY DEF Bits
    <3>2. c + g \in x
      BY <1>1
    <3>3. c + g \in y
      BY <1>6, <3>1, <3>2 DEF Xor
    <3>4. QED
      BY <1>2, <1>3, <3>1, <3>3
  <2>2. 63 - g \in Bits /\ (63 - g) + g = 63 /\ ~(63 - g < 16)
    BY DEF Bits
  <2>3. 63 \notin x
    BY <1>1, <2>1, <2>2
  <2>4. \A c \in Bits : c \in imm => c < 16
    BY <1>1, <2>1, <2>3
  <2>5. QED
    BY <1>1, <1>2, <2>4 DEF Word
<1>7. QED
  BY <1>5, <1>6 DEF imm, low, y

LEMMA NotOfAsr ==
  ASSUME NEW x \in Word, NEW g \in 0 .. 63
  PROVE  Not(Asr(x, g)) = Asr(Not(x), g)
<1> DEFINE z == Not(x)
<1>1. z \in Word /\ \A b \in Bits : b \in z <=> b \notin x
  BY NotBits
<1>2. 63 \in Bits /\ \A b \in Bits : b + g <= 63 => b + g \in Bits
  BY DEF Bits
<1>3. Asr(x, g) \in Word /\ \A b \in Bits : b \in Asr(x, g) <=> IF b + g <= 63 THEN b + g \in x ELSE 63 \in x
  BY AsrBits
<1> HIDE DEF z
<1>4. Asr(z, g) \in Word /\ \A b \in Bits : b \in Asr(z, g) <=> IF b + g <= 63 THEN b + g \in z ELSE 63 \in z
  BY <1>1, AsrBits
<1>5. \A b \in Bits : b \in Asr(z, g) <=> b \notin Asr(x, g)
  BY <1>1, <1>2, <1>3, <1>4
<1>6. QED
  BY <1>4, <1>5 DEF Not, Word, z

\* The same for a negative number, whose bits are inverted.
LEMMA InvertedFits ==
  ASSUME NEW x \in Word, NEW g \in 0 .. 47, 63 \in x
  PROVE  (\A b \in Xor(Not(Shl(Low(Not(Asr(x, g)), 16), g)), x) : b < g)
           <=> Not(Asr(x, g)) = Low(Not(Asr(x, g)), 16)
<1> DEFINE z == Not(x)
<1>1. z \in Word /\ \A b \in Bits : b \in z <=> b \notin x
  BY NotBits
<1>2. g \in 0 .. 63
  OBVIOUS
<1>3. Not(Asr(x, g)) = Asr(z, g)
  BY <1>2, NotOfAsr
<1>4. Asr(z, g) \in Word
  BY <1>1, <1>2, AsrBits
<1>5. (\A b \in Xor(Shl(Low(Asr(z, g), 16), g), z) : b < g) <=> Asr(z, g) = Low(Asr(z, g), 16)
  BY <1>1, WideFits
<1>6. \A y \in Word : Xor(Not(y), x) = Xor(y, z)
  BY <1>1 DEF Xor, Not, Word
<1>7. Shl(Low(Asr(z, g), 16), g) \in Word
  <2>1. Low(Asr(z, g), 16) \in Word
    BY <1>4, LowBits
  <2>2. g \in 0 .. 64
    OBVIOUS
  <2>3. QED
    BY <2>1, <2>2, ShlBits
<1>8. QED
  BY <1>3, <1>5, <1>6, <1>7
=============================================================================
