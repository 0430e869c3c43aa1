---------------------------- MODULE PrintfProofs ----------------------------
(***************************************************************************)
(* my_printf, for any calls, any widths of the types and any lengths of    *)
(* the buffers that satisfy the assumptions.                               *)
(***************************************************************************)
EXTENDS Printf, FiniteSetTheorems, SequenceTheorems, TLAPS

-----------------------------------------------------------------------------
(***************************************************************************)
(* Induction and recursion over the natural numbers                        *)
(***************************************************************************)

\* A set of natural numbers that is not empty has a least element.
LEMMA Smallest ==
  ASSUME NEW T, T \subseteq Nat, T # {}
  PROVE  \E x \in T : \A y \in T : x <= y
<1> DEFINE Upto(x) == {y \in T : y <= x}
           Sets    == {Upto(x) : x \in T}
<1>1. Sets \subseteq FiniteSubsetsOf(Nat) /\ Sets # {}
  <2>1. ASSUME NEW x \in T
        PROVE  Upto(x) \in FiniteSubsetsOf(Nat)
    <3>1. Upto(x) \in SUBSET Nat /\ x \in Nat /\ \A y \in Upto(x) : y <= x
      OBVIOUS
    <3>2. IsFiniteSet(Upto(x))
      BY <3>1, FS_BoundedSetOfNaturals
    <3>3. QED
      BY <3>1, <3>2 DEF FiniteSubsetsOf
  <2>2. QED
    BY <2>1
<1>2. PICK M \in Sets : \A U \in Sets : <<U, M>> \notin StrictSubsetOrdering(Nat)
  <2> HIDE DEF Sets
  <2>1. QED
    BY <1>1, FS_StrictSubsetOrderingWellFounded, WFMin
<1>3. PICK x \in T : M = Upto(x)
  OBVIOUS
<1>4. ASSUME NEW y \in T, ~(x <= y)
      PROVE  FALSE
  <2>1. x \in Nat /\ y \in Nat /\ y < x
    BY <1>4
  <2>2. \A z \in T : z \in Nat /\ (z <= y => z <= x)
    BY <2>1
  <2>3. Upto(y) \subseteq Upto(x)
    BY <2>2
  <2>4. x <= x /\ ~(x <= y)
    BY <2>1
  <2>5. x \notin Upto(y) /\ x \in Upto(x)
    BY <2>4
  <2>6. Upto(y) \in SUBSET Nat /\ Upto(x) \in SUBSET Nat
    OBVIOUS
  <2> HIDE DEF Upto
  <2>7. <<Upto(y), Upto(x)>> \in StrictSubsetOrdering(Nat)
    BY <2>3, <2>5, <2>6 DEF StrictSubsetOrdering
  <2>8. QED
    BY <1>2, <1>3, <2>7
<1>5. QED
  BY <1>4

\* What holds for 0, and for n + 1 if it holds for n, holds for all: S is the set
\* of the numbers it holds for.
LEMMA Induction ==
  ASSUME NEW S, 0 \in S, \A n \in Nat : n \in S => n + 1 \in S
  PROVE  Nat \subseteq S
<1> SUFFICES ASSUME NEW n \in Nat, n \notin S
             PROVE  FALSE
  OBVIOUS
<1> DEFINE T == Nat \ S
<1>1. PICK x \in T : \A y \in T : x <= y
  <2>1. T \subseteq Nat /\ T # {}
    OBVIOUS
  <2> HIDE DEF T
  <2>2. QED
    BY <2>1, Smallest
<1>2. x # 0 /\ x \in Nat
  OBVIOUS
<1>3. x - 1 \in Nat /\ x - 1 \notin T
  BY <1>1, <1>2
<1>4. (x - 1) + 1 \in S
  BY <1>3
<1>5. QED
  BY <1>2, <1>4

\* f starts with first and goes on with step.
Iterates(f, S, first, step) ==
  /\ f \in [Nat -> S]
  /\ f[0] = first
  /\ \A n \in Nat : f[n + 1] = step[n][f[n]]

\* There is such a function, so that one defined by recursion is what it says.
LEMMA Recursion ==
  ASSUME NEW S, NEW first \in S, NEW step \in [Nat -> [S -> S]]
  PROVE  \E f : Iterates(f, S, first, step)
<1> DEFINE Upto(g, N) == /\ g \in [0 .. N -> S]
                         /\ g[0] = first
                         /\ \A n \in 0 .. N - 1 : g[n + 1] = step[n][g[n]]
           Has == {N \in Nat : \E g : Upto(g, N)}
<1>1. 0 \in Has
  <2>1. Upto([n \in 0 .. 0 |-> first], 0)
    OBVIOUS
  <2>2. QED
    BY <2>1
<1>2. ASSUME NEW N \in Nat, N \in Has
      PROVE  N + 1 \in Has
  <2>1. PICK g : Upto(g, N)
    BY <1>2
  <2> DEFINE h == [n \in 0 .. N + 1 |-> IF n = N + 1 THEN step[N][g[N]] ELSE g[n]]
  <2>2. g[N] \in S /\ step[N][g[N]] \in S
    BY <2>1
  <2>3. h \in [0 .. N + 1 -> S] /\ h[0] = first
    BY <2>1, <2>2
  <2>4. \A n \in 0 .. (N + 1) - 1 : h[n + 1] = step[n][h[n]]
    <3> SUFFICES ASSUME NEW n \in 0 .. (N + 1) - 1 PROVE h[n + 1] = step[n][h[n]]
      OBVIOUS
    <3>1. h[n] = g[n]
      OBVIOUS
    <3>2. CASE n = N
      <4>1. N + 1 \in 0 .. N + 1 /\ h[N + 1] = step[N][g[N]]
        OBVIOUS
      <4>2. QED
        BY <3>1, <3>2, <4>1
    <3>3. CASE n # N
      <4>1. n \in 0 .. N - 1 /\ n + 1 # N + 1 /\ n + 1 \in 0 .. N + 1
        BY <3>3
      <4>2. h[n + 1] = g[n + 1]
        BY <4>1
      <4>3. QED
        BY <2>1, <3>1, <4>1, <4>2
    <3>4. QED
      BY <3>2, <3>3
  <2>5. QED
    <3> HIDE DEF h
    <3>1. Upto(h, N + 1)
      BY <2>3, <2>4
    <3>2. QED
      BY <3>1
<1>3. Nat \subseteq Has
  <2> HIDE DEF Has
  <2>1. QED
    BY <1>1, <1>2, Induction
<1> DEFINE G(N) == CHOOSE g : Upto(g, N)
<1>4. \A N \in Nat : Upto(G(N), N)
  <2> SUFFICES ASSUME NEW N \in Nat PROVE Upto(G(N), N)
    OBVIOUS
  <2>1. \E g : Upto(g, N)
    BY <1>3
  <2> HIDE DEF Upto
  <2>2. QED
    BY <2>1
<1>5. ASSUME NEW N \in Nat
      PROVE  G(N + 1)[N] = G(N)[N]
  <2> DEFINE Same == {n \in Nat : n <= N => G(N + 1)[n] = G(N)[n]}
  <2> HIDE DEF G
  <2>1. Upto(G(N), N) /\ Upto(G(N + 1), N + 1)
    <3> HIDE DEF Upto
    <3>1. N + 1 \in Nat
      OBVIOUS
    <3>2. QED
      BY <1>4, <3>1
  <2>2. 0 \in Same
    BY <2>1
  <2>3. ASSUME NEW n \in Nat, n \in Same
        PROVE  n + 1 \in Same
    <3> SUFFICES ASSUME n + 1 <= N PROVE G(N + 1)[n + 1] = G(N)[n + 1]
      OBVIOUS
    <3>1. n \in 0 .. N - 1 /\ n \in 0 .. (N + 1) - 1 /\ n <= N
      OBVIOUS
    <3>2. G(N + 1)[n] = G(N)[n]
      BY <2>3, <3>1
    <3>3. G(N)[n + 1] = step[n][G(N)[n]] /\ G(N + 1)[n + 1] = step[n][G(N + 1)[n]]
      BY <2>1, <3>1
    <3>4. QED
      BY <3>2, <3>3
  <2>4. Nat \subseteq Same
    <3> HIDE DEF Same
    <3>1. QED
      BY <2>2, <2>3, Induction
  <2>5. QED
    BY <2>4
<1> DEFINE f == [n \in Nat |-> G(n)[n]]
<1>6. \A n \in Nat : f[n] = G(n)[n] /\ f[n + 1] = G(n + 1)[n + 1]
  OBVIOUS
<1>7. f \in [Nat -> S] /\ f[0] = first
  <2> HIDE DEF G
  <2>1. \A n \in Nat : G(n)[n] \in S
    BY <1>4
  <2>2. G(0)[0] = first
    BY <1>4
  <2>3. QED
    BY <2>1, <2>2
<1>8. ASSUME NEW n \in Nat
      PROVE  f[n + 1] = step[n][f[n]]
  <2>1. G(n + 1)[n + 1] = step[n][G(n + 1)[n]]
    <3> HIDE DEF G
    <3>1. Upto(G(n + 1), n + 1) /\ n \in 0 .. (n + 1) - 1
      BY <1>4
    <3>2. QED
      BY <3>1
  <2>2. QED
    <3> HIDE DEF G, f
    <3>1. QED
      BY <1>5, <1>6, <2>1
<1>9. QED
  <2> HIDE DEF f
  <2>1. Iterates(f, S, first, step)
    BY <1>7, <1>8 DEF Iterates
  <2>2. QED
    BY <2>1

-----------------------------------------------------------------------------
(***************************************************************************)
(* Powers of 2, quotients and the numbers texts stand for                  *)
(***************************************************************************)

LEMMA PowIs == Pow = [n \in Nat |-> IF n = 0 THEN 1 ELSE 2 * Pow[n - 1]]
<1> DEFINE step == [n \in Nat |-> [x \in Int |-> 2 * x]]
<1>1. step \in [Nat -> [Int -> Int]] /\ 1 \in Int
  OBVIOUS
<1>2. PICK f : Iterates(f, Int, 1, step)
  <2> HIDE DEF step
  <2>1. QED
    BY <1>1, Recursion
<1>3. ASSUME NEW n \in Nat
      PROVE  f[n] = IF n = 0 THEN 1 ELSE 2 * f[n - 1]
  <2>1. CASE n = 0
    BY <1>2, <2>1 DEF Iterates
  <2>2. CASE n # 0
    <3>1. n - 1 \in Nat /\ (n - 1) + 1 = n
      BY <2>2
    <3>2. f[(n - 1) + 1] = step[n - 1][f[n - 1]] /\ f[n - 1] \in Int
      BY <1>2, <3>1 DEF Iterates
    <3>3. QED
      BY <2>2, <3>1, <3>2
  <2>3. QED
    BY <2>1, <2>2
<1>4. f = [n \in Nat |-> IF n = 0 THEN 1 ELSE 2 * f[n - 1]]
  BY <1>2, <1>3 DEF Iterates
<1>5. QED
  BY <1>4 DEF Pow

LEMMA PowStep ==
  /\ Pow[0] = 1
  /\ \A n \in Nat : Pow[n] \in Nat \ {0} /\ Pow[n + 1] = 2 * Pow[n]
<1>1. Pow[0] = 1
  BY PowIs
<1>2. ASSUME NEW n \in Nat
      PROVE  Pow[n + 1] = 2 * Pow[n]
  <2>1. n + 1 \in Nat /\ n + 1 # 0 /\ (n + 1) - 1 = n
    OBVIOUS
  <2>2. Pow[n + 1] = IF n + 1 = 0 THEN 1 ELSE 2 * Pow[(n + 1) - 1]
    BY <2>1, PowIs
  <2>3. QED
    BY <2>1, <2>2
<1> DEFINE S == {n \in Nat : Pow[n] \in Nat \ {0}}
<1>3. 0 \in S
  BY <1>1
<1>4. \A n \in Nat : n \in S => n + 1 \in S
  BY <1>2
<1>5. Nat \subseteq S
  <2> HIDE DEF S
  <2>1. QED
    BY <1>3, <1>4, Induction
<1>6. QED
  BY <1>1, <1>2, <1>5

LEMMA PowSum ==
  ASSUME NEW m \in Nat, NEW n \in Nat
  PROVE  Pow[m + n] = Pow[m] * Pow[n]
<1> DEFINE S == {x \in Nat : Pow[m + x] = Pow[m] * Pow[x]}
<1>1. 0 \in S
  BY PowStep
<1>2. ASSUME NEW x \in Nat, x \in S
      PROVE  x + 1 \in S
  <2>1. m + (x + 1) = (m + x) + 1 /\ m + x \in Nat
    OBVIOUS
  <2>2. Pow[(m + x) + 1] = 2 * Pow[m + x] /\ Pow[x + 1] = 2 * Pow[x]
    BY <2>1, PowStep
  <2>3. Pow[m + x] = Pow[m] * Pow[x] /\ Pow[m] \in Int /\ Pow[x] \in Int
    BY <1>2, PowStep
  <2>4. 2 * (Pow[m] * Pow[x]) = Pow[m] * (2 * Pow[x])
    BY <2>3
  <2>5. QED
    BY <2>1, <2>2, <2>3, <2>4
<1>3. Nat \subseteq S
  <2> HIDE DEF S
  <2>1. QED
    BY <1>1, <1>2, Induction
<1>4. QED
  BY <1>3

LEMMA PowGrows ==
  ASSUME NEW m \in Nat, NEW n \in Nat, m <= n
  PROVE  Pow[m] <= Pow[n] /\ Pow[n] = Pow[m] * Pow[n - m]
<1>1. n - m \in Nat /\ m + (n - m) = n
  OBVIOUS
<1>2. Pow[n] = Pow[m] * Pow[n - m]
  BY <1>1, PowSum
<1>3. Pow[m] \in Nat \ {0} /\ Pow[n - m] \in Nat \ {0}
  BY <1>1, PowStep
<1>4. \A x, y \in Nat \ {0} : x <= x * y
  OBVIOUS
<1>5. QED
  BY <1>2, <1>3, <1>4

\* The loop of simple_outputi divides by the base again and again.
LEMMA LeftIs ==
  ASSUME NEW number \in Nat, NEW base \in Nat \ {0}
  PROVE  /\ Left(number, base) \in [Nat -> Nat]
         /\ Left(number, base)[0] = number
         /\ \A n \in Nat : Left(number, base)[n + 1] = Left(number, base)[n] \div base
<1> DEFINE step == [n \in Nat |-> [x \in Nat |-> x \div base]]
<1>1. step \in [Nat -> [Nat -> Nat]]
  OBVIOUS
<1>2. PICK f : Iterates(f, Nat, number, step)
  <2> HIDE DEF step
  <2>1. QED
    BY <1>1, Recursion
<1>3. ASSUME NEW n \in Nat
      PROVE  f[n] = IF n = 0 THEN number ELSE f[n - 1] \div base
  <2>1. CASE n = 0
    BY <1>2, <2>1 DEF Iterates
  <2>2. CASE n # 0
    <3>1. n - 1 \in Nat /\ (n - 1) + 1 = n
      BY <2>2
    <3>2. f[(n - 1) + 1] = step[n - 1][f[n - 1]] /\ f[n - 1] \in Nat
      BY <1>2, <3>1 DEF Iterates
    <3>3. QED
      BY <2>2, <3>1, <3>2
  <2>3. QED
    BY <2>1, <2>2
<1>4. f = [n \in Nat |-> IF n = 0 THEN number ELSE f[n - 1] \div base]
  BY <1>2, <1>3 DEF Iterates
<1> DEFINE g == Left(number, base)
<1>5. g = [n \in Nat |-> IF n = 0 THEN number ELSE g[n - 1] \div base]
  BY <1>4 DEF Left
<1> HIDE DEF g
<1>6. ASSUME NEW n \in Nat
      PROVE  g[n + 1] = g[n] \div base
  <2>1. n + 1 \in Nat /\ n + 1 # 0 /\ (n + 1) - 1 = n
    OBVIOUS
  <2>2. g[n + 1] = IF n + 1 = 0 THEN number ELSE g[(n + 1) - 1] \div base
    BY <1>5, <2>1
  <2>3. QED
    BY <2>1, <2>2
<1>7. g[0] = number
  BY <1>5
<1> DEFINE S == {n \in Nat : g[n] \in Nat}
<1>8. Nat \subseteq S
  <2>1. 0 \in S
    BY <1>7
  <2>2. \A x \in Nat : x \div base \in Nat
    OBVIOUS
  <2>3. \A n \in Nat : n \in S => n + 1 \in S
    BY <1>6, <2>2
  <2> HIDE DEF S
  <2>4. QED
    BY <2>1, <2>3, Induction
<1>9. g \in [Nat -> Nat]
  <2>1. g = [n \in Nat |-> g[n]]
    BY <1>5
  <2>2. QED
    BY <1>8, <2>1
<1>10. QED
  BY <1>6, <1>7, <1>9 DEF g

IsDigit(c) == \E d \in 0 .. 15 : IsValueOf(d, c)

DigitValue(c) == CHOOSE d \in 0 .. 15 : IsValueOf(d, c)

\* A text is read from its first to its last character.
Reads(value, text, base) ==
  /\ value \in [0 .. Len(text) -> Nat]
  /\ value[0] = 0
  /\ \A n \in 1 .. Len(text) :
       value[n] = IF IsDigit(text[n]) THEN base * value[n - 1] + DigitValue(text[n])
                  ELSE value[n - 1]

LEMMA NumberIsRead ==
  ASSUME NEW text, Len(text) \in Nat, NEW base \in Nat
  PROVE  \E value : Reads(value, text, base) /\ NumberOf(text, base) = value[Len(text)]
<1> DEFINE step == [n \in Nat |-> [x \in Nat |->
             IF IsDigit(text[n + 1]) THEN base * x + DigitValue(text[n + 1]) ELSE x]]
<1>1. step \in [Nat -> [Nat -> Nat]]
  <2>1. \A c : IsDigit(c) => DigitValue(c) \in 0 .. 15
    BY DEF IsDigit, DigitValue
  <2>2. \A c : \A x \in Nat : IsDigit(c) => base * x + DigitValue(c) \in Nat
    <3>1. \A d \in 0 .. 15 : \A x \in Nat : base * x + d \in Nat
      OBVIOUS
    <3>2. QED
      BY <2>1, <3>1
  <2>3. QED
    BY <2>2
<1>2. PICK f : Iterates(f, Nat, 0, step)
  <2> HIDE DEF step
  <2>1. QED
    BY <1>1, Recursion
<1> DEFINE h == [n \in 0 .. Len(text) |-> f[n]]
           Body(g) == [n \in 0 .. Len(text) |->
             IF n = 0 THEN 0
             ELSE IF IsDigit(text[n]) THEN base * g[n - 1] + DigitValue(text[n])
                  ELSE g[n - 1]]
           value == CHOOSE g : g = Body(g)
<1>3. ASSUME NEW n \in 1 .. Len(text)
      PROVE  f[n] = IF IsDigit(text[n]) THEN base * f[n - 1] + DigitValue(text[n]) ELSE f[n - 1]
  <2>1. n - 1 \in Nat /\ (n - 1) + 1 = n
    OBVIOUS
  <2>2. f[(n - 1) + 1] = step[n - 1][f[n - 1]] /\ f[n - 1] \in Nat
    BY <1>2, <2>1 DEF Iterates
  <2>3. QED
    BY <2>1, <2>2
<1>4. h = Body(h)
  <2>1. \A n \in 1 .. Len(text) : n - 1 \in 0 .. Len(text) /\ n \in 0 .. Len(text)
    OBVIOUS
  <2>2. \A n \in 0 .. Len(text) : n = 0 \/ n \in 1 .. Len(text)
    OBVIOUS
  <2>3. f[0] = 0
    BY <1>2 DEF Iterates
  <2>4. \A n \in 0 .. Len(text) : h[n] = Body(h)[n]
    BY <1>3, <2>1, <2>2, <2>3
  <2>5. QED
    BY <2>4
<1>5. value = Body(value)
  <2> HIDE DEF h, Body
  <2>1. QED
    BY <1>4
<1>6. NumberOf(text, base) = value[Len(text)]
  BY DEF NumberOf, IsDigit, DigitValue
<1>7. value[0] = 0
  <2> HIDE DEF value
  <2>1. QED
    BY <1>5
<1>8. \A n \in 1 .. Len(text) :
        value[n] = IF IsDigit(text[n]) THEN base * value[n - 1] + DigitValue(text[n])
                   ELSE value[n - 1]
  <2> HIDE DEF value
  <2> TAKE n \in 1 .. Len(text)
  <2>1. n \in 0 .. Len(text) /\ n # 0
    OBVIOUS
  <2>2. value[n] = Body(value)[n]
    <3> HIDE DEF Body
    <3>1. QED
      BY <1>5
  <2>3. QED
    BY <2>1, <2>2
<1>9. value \in [0 .. Len(text) -> Nat]
  <2> HIDE DEF value
  <2> DEFINE S == {n \in Nat : n <= Len(text) => value[n] \in Nat}
  <2>1. 0 \in S
    BY <1>7
  <2>2. ASSUME NEW n \in Nat, n \in S
        PROVE  n + 1 \in S
    <3> SUFFICES ASSUME n + 1 <= Len(text) PROVE value[n + 1] \in Nat
      OBVIOUS
    <3>1. value[n] \in Nat /\ n + 1 \in 1 .. Len(text) /\ (n + 1) - 1 = n
      BY <2>2
    <3>2. step[n][value[n]] \in Nat
      BY <1>1, <3>1
    <3>3. step[n][value[n]] = IF IsDigit(text[n + 1]) THEN base * value[n] + DigitValue(text[n + 1])
                              ELSE value[n]
      BY <3>1
    <3> HIDE DEF step
    <3>4. QED
      BY <1>8, <3>1, <3>2, <3>3
  <2>3. Nat \subseteq S
    <3> HIDE DEF S
    <3>1. QED
      BY <2>1, <2>2, Induction
  <2>4. \A n \in 0 .. Len(text) : value[n] \in Nat
    BY <2>3
  <2>5. value = [n \in 0 .. Len(text) |-> value[n]]
    BY <1>5
  <2>6. QED
    BY <2>4, <2>5
<1>10. QED
  <2> HIDE DEF value
  <2>1. Reads(value, text, base)
    BY <1>7, <1>8, <1>9 DEF Reads
  <2>2. QED
    BY <1>6, <2>1

LEMMA DivIs ==
  ASSUME NEW x \in Int, NEW b \in Nat \ {0}
  PROVE  x \div b \in Int /\ x % b \in 0 .. b - 1 /\ x = (x \div b) * b + (x % b)
OBVIOUS

LEMMA DivUnique ==
  ASSUME NEW b \in Nat \ {0}, NEW q \in Int, NEW r \in 0 .. b - 1
  PROVE  (q * b + r) \div b = q /\ (q * b + r) % b = r
<1> DEFINE x == q * b + r
<1>1. x \in Int /\ b \in Nat \ {0}
  OBVIOUS
<1> HIDE DEF x
<1>2. x \div b \in Int /\ x % b \in 0 .. b - 1 /\ x = (x \div b) * b + (x % b)
  BY <1>1, DivIs
<1> DEFINE e == q - x \div b
<1>3. e \in Int /\ e * b = (x % b) - r
  BY <1>1, <1>2 DEF x
<1>4. -b < e * b /\ e * b < b
  BY <1>1, <1>2, <1>3
<1>5. e = 0
  <2> HIDE DEF e
  <2>1. ASSUME e >= 1 PROVE FALSE
    <3>1. e * b >= b
      BY <1>1, <1>3, <2>1
    <3>2. QED
      BY <1>1, <1>3, <1>4, <3>1
  <2>2. ASSUME e <= -1 PROVE FALSE
    <3>1. e * b <= -b
      BY <1>1, <1>3, <2>2
    <3>2. QED
      BY <1>1, <1>3, <1>4, <3>1
  <2>3. QED
    BY <1>3, <2>1, <2>2
<1>6. q = x \div b /\ r = x % b
  BY <1>1, <1>2, <1>3, <1>5
<1>7. QED
  BY <1>6 DEF x

\* What is below c times the base is below c after a turn.
LEMMA DivLess ==
  ASSUME NEW x \in Nat, NEW base \in Nat \ {0}, NEW c \in Nat, x < c * base
  PROVE  x \div base < c
<1>1. x \div base \in Int /\ x % base \in 0 .. base - 1 /\ x = (x \div base) * base + (x % base)
  BY DivIs
<1>2. \A q \in Int : q >= c => q * base >= c * base
  OBVIOUS
<1>3. QED
  BY <1>1, <1>2

\* Each digit takes e bits or more.
LEMMA LeftIsLess ==
  ASSUME NEW e \in Nat, NEW N \in Nat, NEW number \in Nat, number < Pow[e * N],
         NEW base \in Nat, base >= Pow[e]
  PROVE  Left(number, base)[N] = 0
<1> DEFINE S == {n \in Nat : n <= N => Left(number, base)[n] < Pow[e * (N - n)]}
<1>1. base \in Nat \ {0}
  BY PowStep
<1>2. /\ Left(number, base) \in [Nat -> Nat]
      /\ Left(number, base)[0] = number
      /\ \A n \in Nat : Left(number, base)[n + 1] = Left(number, base)[n] \div base
  BY <1>1, LeftIs
<1>3. 0 \in S
  BY <1>2
<1>4. ASSUME NEW n \in Nat, n \in S
      PROVE  n + 1 \in S
  <2> SUFFICES ASSUME n + 1 <= N
               PROVE  Left(number, base)[n + 1] < Pow[e * (N - (n + 1))]
    OBVIOUS
  <2> DEFINE k == e * (N - (n + 1))
             x == Left(number, base)[n]
  <2>1. x \in Nat /\ x < Pow[e * (N - n)]
    BY <1>2, <1>4
  <2>2. k \in Nat /\ e * (N - n) = k + e
    <3>1. \A m \in Nat : e * m \in Nat
      OBVIOUS
    <3>2. N - (n + 1) \in Nat
      OBVIOUS
    <3>3. QED
      BY <3>1, <3>2
  <2> HIDE DEF k, x
  <2>3. Pow[k + e] = Pow[k] * Pow[e] /\ Pow[k] \in Nat /\ Pow[e] \in Nat
    BY <2>2, PowSum, PowStep
  <2>4. Pow[k] * Pow[e] <= Pow[k] * base
    <3>1. \A a, b, c \in Nat : b <= c => a * b <= a * c
      OBVIOUS
    <3>2. QED
      BY <2>3, <3>1
  <2>5. x < Pow[k] * base
    <3>1. Pow[k] * base \in Nat /\ Pow[k] * Pow[e] \in Nat
      BY <2>3
    <3>2. QED
      BY <2>1, <2>2, <2>3, <2>4, <3>1
  <2>6. x \div base < Pow[k]
    BY <1>1, <2>1, <2>3, <2>5, DivLess
  <2>7. QED
    BY <1>2, <2>6 DEF k, x
<1>5. N \in S
  <2>1. Nat \subseteq S
    <3> HIDE DEF S
    <3>1. QED
      BY <1>3, <1>4, Induction
  <2>2. QED
    BY <2>1
<1>6. Left(number, base)[N] < Pow[0]
  <2>1. N <= N /\ e * (N - N) = 0
    OBVIOUS
  <2>2. QED
    BY <1>5, <2>1
<1>7. QED
  BY <1>2, <1>6, PowStep

\* The number has as many digits as turns are needed, and few of them if the
\* base is large.
Digits(number, base, len) ==
  /\ len \in 1 .. LongBits
  /\ Left(number, base)[len] = 0
  /\ \A m \in 1 .. len - 1 : Left(number, base)[m] # 0

LEMMA DigitsAreFew ==
  ASSUME NEW number \in Nat, number < Pow[LongBits], NEW base \in Nat, base >= 2,
         NEW e \in Nat, base >= Pow[e], NEW N \in Nat \ {0}, number < Pow[e * N]
  PROVE  Digits(number, base, NumDigits(number, base)) /\ NumDigits(number, base) <= N
<1>1. LongBits \in Nat \ {0}
  BY PrintfAssumption
<1>2. Left(number, base)[LongBits] = 0
  <2>1. Pow[1] = 2
    <3>1. Pow[0 + 1] = 2 * Pow[0] /\ 0 + 1 = 1
      BY PowStep
    <3>2. QED
      BY <3>1, PowStep
  <2>2. 1 * LongBits = LongBits
    BY <1>1
  <2>3. QED
    BY <1>1, <2>1, <2>2, LeftIsLess
<1>3. Left(number, base)[N] = 0
  BY LeftIsLess
<1> DEFINE T == {n \in Nat \ {0} : Left(number, base)[n] = 0}
<1>4. T \subseteq Nat /\ T # {}
  BY <1>3
<1>5. PICK n \in T : \A m \in T : n <= m
  <2> HIDE DEF T
  <2>1. QED
    BY <1>4, Smallest
<1>6. n <= N /\ n <= LongBits
  BY <1>1, <1>2, <1>3, <1>5
<1>7. Digits(number, base, n)
  <2>1. \A m \in 1 .. n - 1 : m \in Nat \ {0} /\ ~(n <= m)
    OBVIOUS
  <2>2. QED
    BY <1>1, <1>5, <1>6, <2>1 DEF Digits
<1>8. NumDigits(number, base) = CHOOSE m \in 1 .. LongBits : Digits(number, base, m)
  BY DEF NumDigits, Digits
<1>9. Digits(number, base, NumDigits(number, base))
  BY <1>7, <1>8 DEF Digits
<1>10. NumDigits(number, base) <= N
  <2> DEFINE m == NumDigits(number, base)
  <2>1. ~(n < m)
    <3>1. n < m => n \in 1 .. m - 1
      BY <1>9 DEF Digits
    <3>2. QED
      BY <1>5, <1>9, <3>1 DEF Digits
  <2> HIDE DEF m
  <2>2. m \in Nat
    BY <1>9 DEF Digits, m
  <2>3. QED
    BY <1>6, <2>1, <2>2 DEF m
<1>11. QED
  BY <1>9, <1>10

-----------------------------------------------------------------------------
(***************************************************************************)
(* The pieces of a conversion                                              *)
(***************************************************************************)

LEMMA AtIs ==
  ASSUME fmt \in Seq(STRING \ {NUL}), NEW p \in Nat \ {0}
  PROVE  /\ At(p) = NUL <=> p > Len(fmt)
         /\ p <= Len(fmt) => At(p) = fmt[p] /\ fmt[p] \in STRING
         /\ Len(fmt) \in Nat
<1>1. Len(fmt) \in Nat
  OBVIOUS
<1>2. CASE p <= Len(fmt)
  <2>1. fmt[p] \in STRING \ {NUL}
    BY <1>2, ElementOfSeq
  <2>2. QED
    BY <1>1, <1>2, <2>1 DEF At
<1>3. CASE p > Len(fmt)
  BY <1>1, <1>3 DEF At
<1>4. QED
  BY <1>1, <1>2, <1>3

LEMMA SkipAllStops ==
  ASSUME fmt \in Seq(STRING \ {NUL}), NEW p \in 1 .. Len(fmt) + 1, NEW set, NUL \notin set
  PROVE  /\ SkipAll(p, set) \in p .. Len(fmt) + 1
         /\ At(SkipAll(p, set)) \notin set
         /\ \A x \in p .. SkipAll(p, set) - 1 : At(x) \in set
<1> DEFINE T == {q \in p .. Len(fmt) + 1 : At(q) \notin set}
<1>1. T \subseteq Nat /\ T # {}
  <2>1. Len(fmt) \in Nat /\ Len(fmt) + 1 \in Nat \ {0} /\ Len(fmt) + 1 > Len(fmt)
    OBVIOUS
  <2>2. At(Len(fmt) + 1) = NUL
    BY <2>1, AtIs
  <2>3. Len(fmt) + 1 \in p .. Len(fmt) + 1
    BY <2>1
  <2>4. QED
    BY <2>2, <2>3
<1>2. PICK q \in T : \A x \in T : q <= x
  <2> HIDE DEF T
  <2>1. QED
    BY <1>1, Smallest
<1>3. \A x \in p .. q - 1 : At(x) \in set
  <2>1. \A x \in p .. q - 1 : x \in p .. Len(fmt) + 1 /\ ~(q <= x)
    BY <1>2
  <2>2. QED
    BY <1>2, <2>1
<1>4. \E y \in p .. Len(fmt) + 1 : At(y) \notin set /\ \A x \in p .. y - 1 : At(x) \in set
  BY <1>3
<1>5. QED
  BY <1>4 DEF SkipAll

\* A conversion is scanned up to its letter, which may be the end of the format.
LEMMA ConversionIsScanned ==
  ASSUME fmt \in Seq(STRING \ {NUL}), i \in Nat \ {0}, At(i + 1) # NUL
  PROVE  /\ i \in 1 .. Len(fmt) - 1
         /\ WidthAt \in i + 1 .. Len(fmt) + 1 /\ LengthAt \in WidthAt .. Len(fmt) + 1
         /\ LetterAt \in i + 1 .. Len(fmt) + 1
         /\ \A q \in i + 1 .. LetterAt - 1 : fmt[q] \in Decimal \cup {"-", "*", "l", "h"}
         /\ Star => WidthAt \in i + 1 .. LetterAt - 1 /\ fmt[WidthAt] = "*"
<1>1. Len(fmt) \in Nat /\ i \in 1 .. Len(fmt) - 1
  <2>1. i + 1 \in Nat \ {0}
    OBVIOUS
  <2>2. QED
    BY <2>1, AtIs
<1> DEFINE piece(q) == fmt[q] \in Decimal \cup {"-", "*", "l", "h"}
<1>2. /\ ZerosAt \in i + 1 .. Len(fmt) + 1
      /\ \A q \in i + 1 .. ZerosAt - 1 : piece(q)
  <2>1. CASE At(i + 1) = "-"
    <3>1. ZerosAt = i + 2 /\ i + 1 \in Nat \ {0} /\ i + 1 <= Len(fmt)
      BY <1>1, <2>1 DEF ZerosAt
    <3>2. fmt[i + 1] = "-"
      BY <2>1, <3>1, AtIs
    <3>3. \A q \in i + 1 .. ZerosAt - 1 : q = i + 1
      BY <3>1
    <3>4. QED
      BY <1>1, <3>1, <3>2, <3>3
  <2>2. CASE At(i + 1) # "-"
    BY <1>1, <2>2 DEF ZerosAt
  <2>3. QED
    BY <2>1, <2>2
<1>3. Digit[1] = "0" /\ "0" \in Decimal
  BY DEF Digit, Decimal
<1>4. NUL \notin {"0"} /\ NUL \notin Decimal
  BY DEF NUL, Digit, Decimal
<1>5. /\ WidthAt \in ZerosAt .. Len(fmt) + 1
      /\ \A q \in ZerosAt .. WidthAt - 1 : piece(q)
  <2>1. ZerosAt \in 1 .. Len(fmt) + 1
    BY <1>1, <1>2
  <2>2. /\ WidthAt \in ZerosAt .. Len(fmt) + 1
        /\ \A q \in ZerosAt .. WidthAt - 1 : At(q) \in {"0"}
    BY <1>4, <2>1, SkipAllStops DEF WidthAt
  <2>3. \A q \in ZerosAt .. WidthAt - 1 : q \in Nat \ {0} /\ q <= Len(fmt)
    BY <2>1, <2>2
  <2>4. QED
    BY <1>3, <2>2, <2>3, AtIs
<1>6. WidthAt \in i + 1 .. Len(fmt) + 1 /\ WidthAt \in 1 .. Len(fmt) + 1
  BY <1>1, <1>2, <1>5
<1>7. /\ LengthAt \in WidthAt .. Len(fmt) + 1
      /\ \A q \in WidthAt .. LengthAt - 1 : piece(q)
      /\ Star => WidthAt \in WidthAt .. LengthAt - 1 /\ fmt[WidthAt] = "*"
  <2>1. CASE Star
    <3>1. At(WidthAt) = "*" /\ At(WidthAt) # NUL /\ WidthAt \in Nat \ {0}
      BY <1>6, <2>1 DEF Star, NUL
    <3>2. WidthAt <= Len(fmt) /\ fmt[WidthAt] = "*"
      BY <1>1, <3>1, AtIs
    <3>3. LengthAt = WidthAt + 1
      BY <2>1 DEF LengthAt
    <3>4. QED
      BY <1>1, <3>1, <3>2, <3>3
  <2>2. CASE ~Star
    <3>1. /\ LengthAt \in WidthAt .. Len(fmt) + 1
          /\ \A q \in WidthAt .. LengthAt - 1 : At(q) \in Decimal
      BY <1>4, <1>6, <2>2, SkipAllStops DEF LengthAt
    <3>2. \A q \in WidthAt .. LengthAt - 1 : q \in Nat \ {0} /\ q <= Len(fmt)
      BY <1>6, <3>1
    <3>3. QED
      BY <2>2, <3>1, <3>2, AtIs
  <2>3. QED
    BY <2>1, <2>2
<1>8. LengthAt \in Nat \ {0}
  BY <1>6, <1>7
<1>9. /\ LetterAt \in LengthAt .. Len(fmt) + 1
      /\ \A q \in LengthAt .. LetterAt - 1 : piece(q)
  <2> DEFINE c == At(LengthAt)
  <2>1. CASE c \notin {"l", "h"}
    <3>1. Length = <<>> /\ LetterAt = LengthAt
      BY <1>8, <2>1 DEF Length, LetterAt
    <3>2. QED
      BY <1>7, <1>8, <3>1
  <2>2. CASE c \in {"l", "h"} /\ At(LengthAt + 1) # c
    <3>1. Length = <<c>> /\ LetterAt = LengthAt + 1
      BY <1>8, <2>2 DEF Length, LetterAt
    <3>2. c # NUL
      BY <2>2 DEF NUL
    <3>3. LengthAt <= Len(fmt) /\ fmt[LengthAt] = c
      BY <1>1, <1>8, <3>2, AtIs
    <3>4. \A q \in LengthAt .. LetterAt - 1 : q = LengthAt
      BY <1>8, <3>1
    <3>5. QED
      BY <1>1, <1>8, <2>2, <3>1, <3>3, <3>4
  <2>3. CASE c \in {"l", "h"} /\ At(LengthAt + 1) = c
    <3>1. Length = <<c, c>> /\ LetterAt = LengthAt + 2
      BY <1>8, <2>3 DEF Length, LetterAt
    <3>2. c # NUL /\ LengthAt + 1 \in Nat \ {0}
      BY <1>8, <2>3 DEF NUL
    <3>3. LengthAt + 1 <= Len(fmt) /\ fmt[LengthAt + 1] = c /\ fmt[LengthAt] = c
      BY <1>1, <1>8, <2>3, <3>2, AtIs
    <3>4. \A q \in LengthAt .. LetterAt - 1 : q \in {LengthAt, LengthAt + 1}
      BY <1>8, <3>1
    <3>5. QED
      BY <1>1, <1>8, <2>3, <3>1, <3>3, <3>4
  <2>4. QED
    BY <2>1, <2>2, <2>3
<1>10. \A q \in i + 1 .. LetterAt - 1 :
         \/ q \in i + 1 .. ZerosAt - 1 \/ q \in ZerosAt .. WidthAt - 1
         \/ q \in WidthAt .. LengthAt - 1 \/ q \in LengthAt .. LetterAt - 1
  BY <1>1, <1>2, <1>5, <1>7, <1>8, <1>9
<1>11. \A q \in i + 1 .. LetterAt - 1 : piece(q)
  <2> HIDE DEF piece
  <2>1. QED
    BY <1>2, <1>5, <1>7, <1>9, <1>10
<1>12. LetterAt \in i + 1 .. Len(fmt) + 1 /\ (Star => WidthAt \in i + 1 .. LetterAt - 1)
  BY <1>1, <1>6, <1>7, <1>8, <1>9
<1>13. QED
  BY <1>1, <1>6, <1>7, <1>11, <1>12

-----------------------------------------------------------------------------
(***************************************************************************)
(* The characters of a number and of a field                               *)
(***************************************************************************)

\* STRING has them already, but the provers do not know that.
Char ==
  STRING \cup {CR, LF, Blank, "-"} \cup {Null[k] : k \in 1 .. 6}
    \cup {Digit[k] : k \in 1 .. 16} \cup {UpperDigit[k] : k \in 1 .. 16}

LEMMA CharsDiffer ==
  LET digits == {"0", "1", "2", "3", "4", "5", "6", "7", "8", "9",
                 "a", "b", "c", "d", "e", "f", "A", "B", "C", "D", "E", "F"}
  IN  CR \notin {Blank, "-", LF} \cup digits /\ Blank \notin {"-", LF} \cup digits
BY Zenon DEF CR, LF, Blank

LEMMA NullIs == Null \in Seq(Char) /\ Len(Null) = 6 /\ \A p \in 1 .. 6 : Null[p] # CR
<1>1. \E a, b, c, d, e :
        Null = <<a, b, c, d, d, e>> /\ a # CR /\ b # CR /\ c # CR /\ d # CR /\ e # CR
  <2>1. "(" # CR /\ "n" # CR /\ "u" # CR /\ "l" # CR /\ ")" # CR
    BY Zenon DEF CR
  <2>2. QED
    BY <2>1, Zenon DEF Null
<1>2. \A k \in 1 .. 6 : Null[k] \in Char
  BY DEF Char
<1>3. QED
  BY <1>1, <1>2

\* A digit is none of the other characters, and says which one it is.
LEMMA DigitsAreDistinct ==
  ASSUME NEW k \in 1 .. 16, NEW c \in {Digit[k], UpperDigit[k]}
  PROVE  /\ c \in Char \ {CR, Blank, "-"}
         /\ c = "0" <=> k = 1
         /\ IsDigit(c) /\ DigitValue(c) = k - 1
<1>1. /\ c \in Char \ {CR, Blank, "-"} /\ (c = "0" <=> k = 1)
      /\ \A d \in 1 .. 16 : c \in {Digit[d], UpperDigit[d]} <=> d = k
  BY CharsDiffer DEF Digit, UpperDigit, Char
<1>2. k - 1 \in 0 .. 15 /\ IsValueOf(k - 1, c)
  BY DEF IsValueOf
<1>3. ASSUME NEW d \in 0 .. 15, IsValueOf(d, c)
      PROVE  d = k - 1
  <2>1. d + 1 \in 1 .. 16
    OBVIOUS
  <2>2. d + 1 = k
    BY <1>1, <1>3, <2>1 DEF IsValueOf
  <2>3. QED
    BY <2>2
<1>4. QED
  BY <1>1, <1>2, <1>3 DEF IsDigit, DigitValue

LEMMA OthersAreNoDigits == ~IsDigit(Blank) /\ ~IsDigit("-")
<1>1. ASSUME NEW c \in {Blank, "-"}, NEW d \in 0 .. 15, IsValueOf(d, c)
      PROVE  FALSE
  <2>1. d + 1 \in 1 .. 16
    OBVIOUS
  <2>2. c \in {Digit[d + 1], UpperDigit[d + 1]}
    BY <1>1 DEF IsValueOf
  <2>3. c \notin {Blank, "-"}
    BY <2>1, <2>2, DigitsAreDistinct
  <2>4. QED
    BY <2>3
<1>2. QED
  BY <1>1 DEF IsDigit

\* The digits of the number, from the first to the last.
Numeral(s, number, base) ==
  /\ Digits(number, base, Len(s))
  /\ s \in Seq(Char)
  /\ \A p \in 1 .. Len(s) : \E k \in 1 .. 16 :
       /\ s[p] \in {Digit[k], UpperDigit[k]}
       /\ k = (Left(number, base)[Len(s) - p] % base) + 1

LEMMA DigitsAre ==
  ASSUME NEW number \in Nat, NEW base \in 2 .. 16, NEW digit \in {Digit, UpperDigit},
         Digits(number, base, NumDigits(number, base))
  PROVE  /\ Numeral(DigitsOf(number, base, digit), number, base)
         /\ Len(DigitsOf(number, base, digit)) = NumDigits(number, base)
<1> DEFINE len == NumDigits(number, base)
           k(x) == (Left(number, base)[len - x] % base) + 1
           s == DigitsOf(number, base, digit)
<1>1. Left(number, base) \in [Nat -> Nat]
  <2>1. base \in Nat \ {0}
    OBVIOUS
  <2>2. QED
    BY <2>1, LeftIs
<1>2. len \in Nat
  BY PrintfAssumption DEF Digits
<1>3. s = [x \in 1 .. len |-> digit[k(x)]]
  BY DEF DigitsOf
<1>4. \A x \in 1 .. len : k(x) \in 1 .. 16 /\ digit[k(x)] \in {Digit[k(x)], UpperDigit[k(x)]}
  <2> TAKE x \in 1 .. len
  <2>1. Left(number, base)[len - x] \in Nat
    BY <1>1, <1>2
  <2>2. k(x) \in 1 .. 16
    BY <2>1
  <2> HIDE DEF k
  <2>3. QED
    BY <2>2
<1>5. \A x \in 1 .. len : digit[k(x)] \in Char
  <2> HIDE DEF k
  <2>1. QED
    BY <1>4, DigitsAreDistinct
<1>6. s \in Seq(Char) /\ Len(s) = len
  <2> HIDE DEF k, s
  <2>1. s \in [1 .. len -> Char]
    BY <1>3, <1>5
  <2>2. QED
    BY <1>2, <2>1
<1>7. \A x \in 1 .. len : \E d \in 1 .. 16 :
        s[x] \in {Digit[d], UpperDigit[d]} /\ d = (Left(number, base)[len - x] % base) + 1
  <2> TAKE x \in 1 .. len
  <2> HIDE DEF s
  <2>1. s[x] = digit[k(x)]
    BY <1>3
  <2>2. k(x) \in 1 .. 16 /\ s[x] \in {Digit[k(x)], UpperDigit[k(x)]}
    <3> HIDE DEF k
    <3>1. QED
      BY <1>4, <2>1
  <2>3. k(x) = (Left(number, base)[len - x] % base) + 1
    OBVIOUS
  <2>4. QED
    <3> HIDE DEF k
    <3>1. QED
      BY <2>2, <2>3
<1>8. QED
  <2> HIDE DEF s, len
  <2>1. Digits(number, base, len)
    BY DEF len
  <2>2. QED
    BY <1>6, <1>7, <2>1 DEF Numeral, s, len

\* prints, character by character: the blanks or zeros are in front of the string
\* or behind it.
PadLen(s, width) == IF width <= Len(s) THEN 0 ELSE width - Len(s)
PadBefore(s, width, flags) == IF "PAD_RIGHT" \in flags THEN 0 ELSE PadLen(s, width)
PadChar(flags) == IF "PAD_ZERO" \in flags THEN "0" ELSE Blank

LEMMA PrintsIs ==
  ASSUME NEW s \in Seq(Char), NEW width \in Int, NEW flags
  PROVE  /\ Prints(s, width, flags) \in Seq(Char)
         /\ Len(Prints(s, width, flags)) = Len(s) + PadLen(s, width)
         /\ \A p \in 1 .. Len(s) + PadLen(s, width) :
              Prints(s, width, flags)[p] =
                IF PadBefore(s, width, flags) < p /\ p <= PadBefore(s, width, flags) + Len(s)
                THEN s[p - PadBefore(s, width, flags)] ELSE PadChar(flags)
<1> DEFINE n == IF width <= Len(s) THEN 0 ELSE width - Len(s)
           a == IF "PAD_RIGHT" \in flags THEN 0 ELSE n
           c == IF "PAD_ZERO" \in flags THEN "0" ELSE Blank
           pad == Padding(n, c)
<1>1. n \in Nat /\ Len(s) \in Nat
  OBVIOUS
<1> HIDE DEF n
<1>2. c \in Char
  BY Digit[1] = "0" DEF Char, Digit
<1> HIDE DEF c
<1>3. pad \in Seq(Char) /\ Len(pad) = n /\ \A p \in 1 .. n : pad[p] = c
  <2>1. pad \in [1 .. n -> Char]
    BY <1>2 DEF Padding
  <2>2. QED
    BY <1>1, <2>1 DEF Padding
<1>4. Prints(s, width, flags) = IF "PAD_RIGHT" \in flags THEN s \o pad ELSE pad \o s
  BY DEF Prints, n, c
<1> HIDE DEF pad
<1>5. /\ Prints(s, width, flags) \in Seq(Char)
      /\ Len(Prints(s, width, flags)) = Len(s) + n
      /\ \A p \in 1 .. Len(s) + n :
           Prints(s, width, flags)[p] = IF a < p /\ p <= a + Len(s) THEN s[p - a] ELSE c
  <2>1. CASE "PAD_RIGHT" \in flags
    <3>1. /\ s \o pad \in Seq(Char) /\ Len(s \o pad) = Len(s) + Len(pad)
          /\ \A p \in 1 .. Len(s) + Len(pad) :
               (s \o pad)[p] = IF p <= Len(s) THEN s[p] ELSE pad[p - Len(s)]
      BY <1>3, ConcatProperties
    <3>2. QED
      BY <1>1, <1>3, <1>4, <2>1, <3>1
  <2>2. CASE "PAD_RIGHT" \notin flags
    <3>1. /\ pad \o s \in Seq(Char) /\ Len(pad \o s) = Len(pad) + Len(s)
          /\ \A p \in 1 .. Len(pad) + Len(s) :
               (pad \o s)[p] = IF p <= Len(pad) THEN pad[p] ELSE s[p - Len(pad)]
      BY <1>3, ConcatProperties
    <3>2. QED
      BY <1>1, <1>3, <1>4, <2>2, <3>1
  <2>3. QED
    BY <2>1, <2>2
<1>6. QED
  BY <1>5 DEF n, c, PadLen, PadBefore, PadChar

-----------------------------------------------------------------------------
(***************************************************************************)
(* The numbers: the union, its members and what simple_outputi is given    *)
(***************************************************************************)

LEMMA ModShift ==
  ASSUME NEW x \in Int, NEW b \in Nat \ {0}, NEW k \in Int
  PROVE  (x + k * b) % b = x % b
<1>1. x \div b \in Int /\ x % b \in 0 .. b - 1 /\ x = (x \div b) * b + (x % b)
  BY DivIs
<1> DEFINE q == x \div b
           r == x % b
<1> HIDE DEF q, r
<1>2. q \in Int /\ r \in 0 .. b - 1 /\ x = q * b + r /\ q + k \in Int
  BY <1>1 DEF q, r
<1>3. x + k * b = (q + k) * b + r
  BY <1>2
<1>4. ((q + k) * b + r) % b = r
  BY <1>2, DivUnique
<1>5. QED
  BY <1>3, <1>4 DEF r

LEMMA ModSmall ==
  ASSUME NEW b \in Nat \ {0}, NEW x \in 0 .. b - 1
  PROVE  x % b = x
<1>1. 0 \in Int /\ 0 * b + x = x
  OBVIOUS
<1>2. (0 * b + x) % b = x
  BY <1>1, DivUnique
<1>3. QED
  BY <1>1, <1>2

LEMMA SignedIs ==
  ASSUME NEW x \in Int, NEW bits \in Nat \ {0}
  PROVE  /\ Signed(x, bits) \in -Pow[bits - 1] .. Pow[bits - 1] - 1
         /\ Signed(x, bits) % Pow[bits] = x % Pow[bits]
         /\ \A y \in Int : y % Pow[bits] = x % Pow[bits] => Signed(y, bits) = Signed(x, bits)
<1>1. bits - 1 \in Nat /\ (bits - 1) + 1 = bits
  OBVIOUS
<1>2. Pow[bits] = 2 * Pow[bits - 1] /\ Pow[bits - 1] \in Nat \ {0} /\ Pow[bits] \in Nat \ {0}
  BY <1>1, PowStep
<1> DEFINE low == x % Pow[bits]
<1>3. low \in 0 .. Pow[bits] - 1
  BY <1>2
<1>4. low % Pow[bits] = low
  BY <1>2, <1>3, ModSmall
<1>5. Signed(x, bits) = IF low < Pow[bits - 1] THEN low ELSE low - Pow[bits]
  BY DEF Signed
<1>6. \A y \in Int : y % Pow[bits] = low => Signed(y, bits) = Signed(x, bits)
  BY DEF Signed
<1> HIDE DEF low
<1>7. (low + (-1) * Pow[bits]) % Pow[bits] = low % Pow[bits]
  BY <1>2, <1>3, ModShift
<1>8. low - Pow[bits] = low + (-1) * Pow[bits]
  BY <1>2, <1>3
<1>9. Signed(x, bits) % Pow[bits] = low
  BY <1>4, <1>5, <1>7, <1>8
<1>10. Signed(x, bits) \in -Pow[bits - 1] .. Pow[bits - 1] - 1
  BY <1>2, <1>3, <1>5
<1>11. QED
  BY <1>6, <1>9, <1>10 DEF low

LEMMA WidthsOfTypes ==
  /\ CharBits \in 1 .. LongBits /\ ShortBits \in 1 .. LongBits /\ IntBits \in 1 .. LongBits
  /\ LongBits \in Nat \ {0}
  /\ MemberBits \in 1 .. LongBits
<1>1. /\ CharBits \in 1 .. LongBits /\ ShortBits \in 1 .. LongBits /\ IntBits \in 1 .. LongBits
      /\ LongBits \in 1 .. LongBits /\ LongBits \in Nat \ {0}
  BY PrintfAssumption
<1>2. MemberBits \in {CharBits, ShortBits, LongBits, IntBits}
  BY DEF MemberBits
<1>3. QED
  BY <1>1, <1>2

\* Writing a member of the union changes its bits and nothing above them.
LEMMA MemberIsWritten ==
  ASSUME u \in 0 .. Pow[LongBits] - 1, NEW x \in Int
  PROVE  /\ WriteMember(x) \in 0 .. Pow[LongBits] - 1
         /\ WriteMember(x) % Pow[MemberBits] = x % Pow[MemberBits]
<1> DEFINE m == MemberBits
           q == u \div Pow[m]
           r == x % Pow[m]
           d == Pow[LongBits - m]
<1>1. m \in Nat /\ LongBits \in Nat /\ m <= LongBits /\ LongBits - m \in Nat
  BY WidthsOfTypes
<1> HIDE DEF m
<1>2. Pow[m] \in Nat \ {0} /\ d \in Nat /\ Pow[LongBits] = Pow[m] * d /\ u \in Nat
  <2>1. Pow[m] \in Nat \ {0} /\ d \in Nat /\ Pow[LongBits] \in Nat
    BY <1>1, PowStep
  <2>2. Pow[LongBits] = Pow[m] * d
    BY <1>1, PowGrows
  <2>3. QED
    BY <2>1, <2>2
<1> DEFINE b == Pow[m]
<1> HIDE DEF b, d
<1>3. b \in Nat \ {0} /\ d \in Nat /\ Pow[LongBits] = b * d /\ u < d * b
  BY <1>2 DEF b
<1>4. q \in Int /\ r \in 0 .. b - 1 /\ q >= 0 /\ q < d
  <2>1. u \div b \in Int /\ u \div b >= 0 /\ x % b \in 0 .. b - 1
    BY <1>2, <1>3
  <2>2. u \div b < d
    BY <1>2, <1>3, DivLess
  <2>3. QED
    BY <2>1, <2>2 DEF b
<1> HIDE DEF q, r
<1>5. q * b + r \in 0 .. b * d - 1
  <2>1. q + 1 <= d /\ q + 1 \in Nat
    BY <1>3, <1>4
  <2>2. \A y, z \in Nat : y <= z => y * b <= b * z
    BY <1>3
  <2>3. (q + 1) * b <= b * d
    BY <1>3, <2>1, <2>2
  <2>4. (q + 1) * b = q * b + b /\ q * b \in Nat /\ b * d \in Nat
    BY <1>3, <1>4
  <2>5. QED
    BY <1>3, <1>4, <2>3, <2>4
<1>6. (q * b + r) % b = r
  BY <1>3, <1>4, DivUnique
<1>7. WriteMember(x) = q * b + r
  BY DEF WriteMember, m, b, q, r
<1>8. QED
  BY <1>3, <1>5, <1>6, <1>7 DEF m, b, r

\* The number whose digits are printed.
Magnitude(v) == IF Negative(v, Letter) THEN -v ELSE v % Pow[LongBits]

LEMMA MagnitudeIs ==
  ASSUME NEW x \in Int
  PROVE  /\ ReadMember(x) \in -Pow[LongBits - 1] .. Pow[LongBits - 1] - 1
         /\ Magnitude(ReadMember(x)) \in 0 .. Pow[LongBits] - 1
         /\ Letter = "b" /\ Length = <<>> => ReadMember(x) \in -Pow[IntBits - 1] .. Pow[IntBits - 1] - 1
         /\ ReadMember(x) >= 0 => Magnitude(ReadMember(x)) = ReadMember(x)
<1> DEFINE v == ReadMember(x)
           half == Pow[LongBits - 1]
<1>1. LongBits - 1 \in Nat /\ (LongBits - 1) + 1 = LongBits
  BY WidthsOfTypes
<1>2. half \in Nat \ {0} /\ Pow[LongBits] = 2 * half
  BY <1>1, PowStep
<1>3. MemberBits \in Nat \ {0} /\ MemberBits - 1 \in Nat /\ MemberBits - 1 <= LongBits - 1
  BY WidthsOfTypes
<1>4. Pow[MemberBits - 1] \in Nat /\ Pow[MemberBits - 1] <= half
  BY <1>1, <1>3, PowStep, PowGrows
<1>5. \A y \in Int : /\ Signed(y, MemberBits) \in -Pow[MemberBits - 1] .. Pow[MemberBits - 1] - 1
                     /\ Signed(y, LongBits) \in -half .. half - 1
  BY <1>1, <1>3, WidthsOfTypes, SignedIs
<1>6. x % Pow[MemberBits] \in Int
  BY <1>3, PowStep
<1>7. v \in -half .. half - 1
  <2> HIDE DEF half
  <2>1. v \in {Signed(x, MemberBits), Signed(x, LongBits), Signed(x % Pow[MemberBits], LongBits)}
    BY DEF ReadMember
  <2>2. \A y \in Int : Signed(y, MemberBits) \in -half .. half - 1
    <3>1. -Pow[MemberBits - 1] .. Pow[MemberBits - 1] - 1 \subseteq -half .. half - 1
      BY <1>2, <1>4
    <3>2. QED
      BY <1>5, <3>1
  <2>3. QED
    BY <1>5, <1>6, <2>1, <2>2
<1>8. Letter = "b" /\ Length = <<>> => v \in -Pow[IntBits - 1] .. Pow[IntBits - 1] - 1
  <2> SUFFICES ASSUME Letter = "b", Length = <<>>
               PROVE  v \in -Pow[IntBits - 1] .. Pow[IntBits - 1] - 1
    OBVIOUS
  <2>1. MemberBits = IntBits
    BY DEF MemberBits
  <2>2. v = Signed(x, MemberBits)
    BY DEF ReadMember
  <2>3. QED
    BY <1>5, <2>1, <2>2
<1> HIDE DEF half, v
<1>9. v >= 0 => v % Pow[LongBits] = v
  <2>1. v >= 0 => v \in 0 .. Pow[LongBits] - 1
    BY <1>2, <1>7
  <2>2. QED
    BY <1>2, <2>1, ModSmall
<1>10. v % Pow[LongBits] \in 0 .. Pow[LongBits] - 1
  BY <1>2, <1>7
<1>11. Magnitude(v) \in 0 .. Pow[LongBits] - 1
  <2>1. v < 0 => -v \in 0 .. Pow[LongBits] - 1
    BY <1>2, <1>7
  <2>2. QED
    BY <1>10, <2>1 DEF Magnitude, Negative
<1>12. v >= 0 => Magnitude(v) = v
  BY <1>7, <1>9 DEF Magnitude, Negative
<1>13. QED
  BY <1>7, <1>8, <1>11, <1>12 DEF v, half

\* The digits of a conversion have room in print_buf, except those of a negative
\* number that %b prints.
LEMMA PrintBufIs ==
  ASSUME IsInteger, NEW x \in Int
  PROVE  LET v      == ReadMember(x)
             base   == BaseOf(Letter)
             digits == PrintBuf(v, Letter)
         IN  /\ base \in 2 .. 16 /\ (Letter \in {"d", "u"} => base = 10)
             /\ Numeral(digits, Magnitude(v), base)
             /\ \/ Letter = "b" /\ Length = <<>> /\ v < 0
                \/ \A width, flags : FitsPrintBuf(v, Letter, width, flags)
<1> DEFINE v      == ReadMember(x)
           base   == BaseOf(Letter)
           number == Magnitude(v)
           len    == NumDigits(number, base)
           digits == PrintBuf(v, Letter)
           digit  == IF Letter = "X" THEN UpperDigit ELSE Digit
           unfit  == Letter = "b" /\ Length = <<>> /\ v < 0
<1>1. Letter \in {"d", "u", "x", "X", "p"} \/ (Letter = "b" /\ Length = <<>>)
  BY DEF IsInteger
<1>2. /\ base = IF Letter \in {"d", "u"} THEN 10 ELSE IF Letter = "b" THEN 2 ELSE 16
      /\ base \in 2 .. 16
  BY <1>1 DEF BaseOf
<1>3. /\ number \in 0 .. Pow[LongBits] - 1 /\ v \in Int
      /\ v >= 0 => number = v
      /\ Letter = "b" /\ Length = <<>> => v < Pow[IntBits - 1]
  <2>1. LongBits \in Nat \ {0} /\ IntBits \in Nat \ {0}
    BY WidthsOfTypes
  <2>2. Pow[LongBits - 1] \in Nat /\ Pow[IntBits - 1] \in Nat
    <3>1. LongBits - 1 \in Nat /\ IntBits - 1 \in Nat
      BY <2>1
    <3>2. QED
      BY <3>1, PowStep
  <2> DEFINE a == Pow[LongBits - 1]
             b == Pow[IntBits - 1]
  <2>3. /\ v \in -a .. a - 1 /\ number \in 0 .. Pow[LongBits] - 1
        /\ Letter = "b" /\ Length = <<>> => v \in -b .. b - 1
        /\ v >= 0 => number = v
    BY MagnitudeIs
  <2> HIDE DEF a, b, v, number
  <2>4. a \in Nat /\ b \in Nat
    BY <2>2 DEF a, b
  <2>5. QED
    BY <2>3, <2>4 DEF b
<1>4. digits = DigitsOf(number, base, digit)
  BY DEF PrintBuf, Magnitude
<1>5. digit \in {Digit, UpperDigit}
  OBVIOUS
<1>6. LongBits \in Nat \ {0} /\ Pow[LongBits] \in Nat /\ number \in Nat /\ number < Pow[LongBits]
  <2>1. LongBits \in Nat \ {0}
    BY WidthsOfTypes
  <2>2. Pow[LongBits] \in Nat
    BY <2>1, PowStep
  <2> HIDE DEF number
  <2>3. QED
    BY <1>3, <2>1, <2>2
<1>7. Pow[1] = 2 /\ Pow[3] = 8
  <2>1. 0 + 1 = 1 /\ 1 + 1 = 2 /\ 2 + 1 = 3
    OBVIOUS
  <2>2. Pow[0] = 1 /\ Pow[0 + 1] = 2 * Pow[0] /\ Pow[1 + 1] = 2 * Pow[1] /\ Pow[2 + 1] = 2 * Pow[2]
    BY PowStep
  <2>3. QED
    BY <2>1, <2>2
<1> DEFINE negative == Negative(v, Letter)
<1>8. negative => Letter = "d"
  BY DEF Negative
<1>9. \A width, flags :
        FitsPrintBuf(v, Letter, width, flags) <=>
          (v # 0 => Len(digits) + 1
             + (IF negative /\ ~SignFirst(v, Letter, width, flags) THEN 1 ELSE 0) <= PRINT_BUF_LEN)
  BY DEF FitsPrintBuf
<1> HIDE DEF v, base, number, digit, digits, negative
<1>10. Digits(number, base, len) /\ (unfit \/ (v # 0 => len + 1 + (IF negative THEN 1 ELSE 0) <= PRINT_BUF_LEN))
  <2>1. PRINT_BUF_LEN \in Nat /\ IntBits \in Nat /\ IntBits <= PRINT_BUF_LEN
        /\ LongBits <= 3 * (PRINT_BUF_LEN - 2)
    BY PrintfAssumption
  <2>2. CASE base >= 8
    <3> DEFINE N == PRINT_BUF_LEN - 2
    <3>1. N \in Nat \ {0} /\ 3 * N \in Nat /\ LongBits <= 3 * N
      BY <1>6, <2>1
    <3> HIDE DEF N
    <3>2. Pow[LongBits] <= Pow[3 * N] /\ Pow[3 * N] \in Nat
      BY <1>6, <3>1, PowGrows, PowStep
    <3>3. number < Pow[3 * N]
      BY <1>6, <3>2
    <3>4. 3 \in Nat /\ base \in Nat /\ base >= 2 /\ base >= Pow[3]
      BY <1>2, <1>7, <2>2
    <3>5. Digits(number, base, len) /\ len <= N
      BY <1>6, <3>1, <3>3, <3>4, DigitsAreFew
    <3> HIDE DEF len
    <3>6. len \in Nat
      BY <1>6, <3>5 DEF Digits
    <3>7. QED
      BY <2>1, <3>5, <3>6 DEF N
  <2>3. CASE base < 8
    <3>1. Letter = "b" /\ Length = <<>> /\ base = 2 /\ base \in Nat /\ base >= Pow[1] /\ 1 \in Nat
      BY <1>1, <1>2, <1>7, <2>3
    <3>2. 1 * LongBits = LongBits
      BY <1>6
    <3>3. Digits(number, base, len)
      BY <1>6, <3>1, <3>2, DigitsAreFew
    <3>4. ~negative
      BY <1>8, <3>1
    <3>5. ASSUME v > 0
          PROVE  len + 1 <= PRINT_BUF_LEN
      <4> DEFINE N == IntBits - 1
      <4>1. number = v /\ number < Pow[N] /\ IntBits \in Nat \ {0}
        BY <1>3, <3>1, <3>5, WidthsOfTypes
      <4>2. N \in Nat
        BY <4>1
      <4>3. N # 0
        <5>1. Pow[0] = 1
          BY PowStep
        <5> HIDE DEF N
        <5>2. QED
          BY <1>3, <3>5, <4>1, <5>1
      <4>4. N \in Nat \ {0} /\ 1 * N = N
        BY <4>2, <4>3
      <4> HIDE DEF N
      <4>5. len <= N
        BY <1>6, <3>1, <4>1, <4>4, DigitsAreFew
      <4> HIDE DEF len
      <4>6. len \in Nat
        BY <1>6, <3>3 DEF Digits
      <4>7. QED
        BY <2>1, <4>4, <4>5, <4>6 DEF N
    <3>6. v # 0 => v < 0 \/ v > 0
      BY <1>3
    <3> HIDE DEF len
    <3>7. len + 1 + 0 = len + 1
      BY <1>6, <3>3 DEF Digits
    <3>8. QED
      BY <3>1, <3>3, <3>4, <3>5, <3>6, <3>7
  <2>4. QED
    BY <1>2, <2>2, <2>3
<1>11. Numeral(digits, number, base) /\ Len(digits) = len
  <2>1. Digits(number, base, NumDigits(number, base))
    BY <1>10
  <2>2. QED
    BY <1>2, <1>4, <1>5, <1>6, <2>1, DigitsAre
<1>12. unfit \/ \A width, flags : FitsPrintBuf(v, Letter, width, flags)
  <2> HIDE DEF len
  <2>1. len \in Nat /\ PRINT_BUF_LEN \in Nat
    BY <1>6, <1>10, PrintfAssumption DEF Digits
  <2>2. \A s \in {0, 1} : \A t \in {0, 1} : s <= t /\ len + 1 + t <= PRINT_BUF_LEN => len + 1 + s <= PRINT_BUF_LEN
    BY <2>1
  <2>3. QED
    BY <1>9, <1>10, <1>11, <2>2
<1>13. QED
  BY <1>2, <1>10, <1>11, <1>12 DEF v, base, number, digits

-----------------------------------------------------------------------------
(***************************************************************************)
(* The field of a number                                                   *)
(***************************************************************************)

\* Blanks, a sign, zeros, the digits, and behind them one character repeated.
Shaped(f, a, g, z, s, t, c) ==
  /\ f \in Seq(Char) /\ Len(f) = a + g + z + Len(s) + t
  /\ \A p \in 1 .. a : f[p] = Blank
  /\ \A p \in a + 1 .. a + g : f[p] = "-"
  /\ \A p \in a + g + 1 .. a + g + z : f[p] = "0"
  /\ \A p \in 1 .. Len(s) : f[a + g + z + p] = s[p]
  /\ \A p \in a + g + z + Len(s) + 1 .. a + g + z + Len(s) + t : f[p] = c

\* The parts that fill it go with the flags, and fill it up to its width only.
Filled(len, width, flags, a, z, t, c) ==
  /\ len >= width /\ (a + z + t # 0 => len = width)
  /\ IF "PAD_RIGHT" \in flags THEN a = 0 /\ z = 0 ELSE t = 0
  /\ IF "PAD_ZERO" \in flags THEN a = 0 /\ c = "0" ELSE z = 0 /\ c = Blank

LEMMA CharsAre == Blank \in Char /\ "-" \in Char /\ "0" \in Char /\ CR \in Char /\ LF \in Char
<1>1. Digit[1] = "0"
  BY DEF Digit
<1>2. QED
  BY <1>1 DEF Char

\* prints of a sign, or of nothing, and digits.
LEMMA PadLenIs ==
  ASSUME NEW s \in Seq(Char), NEW width \in Int
  PROVE  /\ PadLen(s, width) \in Nat
         /\ PadLen(s, width) # 0 => width # 0 /\ Len(s) + PadLen(s, width) = width
         /\ Len(s) + PadLen(s, width) >= width
BY DEF PadLen

LEMMA PrintsIsShaped ==
  ASSUME NEW s \in Seq(Char), NEW g \in {0, 1}, NEW d \in Seq(Char), Len(d) = g + Len(s),
         g = 1 => d[1] = "-", \A p \in 1 .. Len(s) : d[g + p] = s[p],
         NEW width \in Int, NEW flags, g = 1 /\ "PAD_ZERO" \in flags => width = 0
  PROVE  \E a, z, t \in Nat : \E c :
           /\ Shaped(Prints(d, width, flags), a, g, z, s, t, c)
           /\ Filled(Len(Prints(d, width, flags)), width, flags, a, z, t, c)
<1> DEFINE n == PadLen(d, width)
           b == PadBefore(d, width, flags)
           c == PadChar(flags)
           f == Prints(d, width, flags)
           a == IF "PAD_ZERO" \in flags THEN 0 ELSE b
           z == IF "PAD_ZERO" \in flags THEN b ELSE 0
           t == IF "PAD_RIGHT" \in flags THEN n ELSE 0
<1>1. /\ f \in Seq(Char)
      /\ Len(f) = Len(d) + n
      /\ \A p \in 1 .. Len(d) + n : f[p] = IF b < p /\ p <= b + Len(d) THEN d[p - b] ELSE c
  BY PrintsIs
<1>2. Len(s) \in Nat /\ Len(d) \in Nat /\ n \in Nat
  BY DEF PadLen
<1>3. Len(f) >= width /\ (n # 0 => Len(f) = width) /\ (n # 0 => width # 0)
  <2> HIDE DEF f
  <2>1. Len(f) = Len(d) + n
    BY <1>1
  <2> HIDE DEF n
  <2>2. /\ n # 0 => width # 0 /\ Len(d) + n = width
        /\ Len(d) + n >= width
    BY PadLenIs DEF n
  <2>3. QED
    BY <2>1, <2>2
<1> HIDE DEF n, f
<1>4. b \in Nat /\ a \in Nat /\ z \in Nat /\ t \in Nat /\ a + z = b /\ b + t = n
  BY <1>2 DEF PadBefore, n
<1>5. z # 0 => g = 0
  BY <1>3, <1>4
<1>6. Filled(Len(f), width, flags, a, z, t, c)
  BY <1>3, <1>4 DEF Filled, PadBefore, PadChar
<1>7. Shaped(f, a, g, z, s, t, c)
  <2> DEFINE e == a + g + z
  <2> HIDE DEF a, z, t, b, c
  <2>1. e \in Nat /\ e = b + g /\ Len(f) = e + Len(s) + t
    <3>1. Len(f) = Len(d) + n /\ Len(d) = g + Len(s) /\ g \in Nat
      BY <1>1
    <3>2. QED
      BY <1>2, <1>4, <3>1
  <2>2. \A p \in 1 .. a : f[p] = Blank
    <3>1. a # 0 => c = Blank /\ b = a
      BY <1>4 DEF a, z, b, c, PadChar
    <3>2. \A p \in 1 .. a : p \in 1 .. Len(d) + n /\ ~(a < p)
      BY <1>2, <1>4
    <3>3. QED
      BY <1>1, <1>4, <3>1, <3>2
  <2>3. \A p \in a + 1 .. a + g : f[p] = "-"
    <3> SUFFICES ASSUME NEW p \in a + 1 .. a + g PROVE f[p] = "-"
      OBVIOUS
    <3>1. g = 1 /\ z = 0 /\ b = a /\ p = b + 1
      BY <1>4, <1>5
    <3>2. p \in 1 .. Len(d) + n /\ b < p /\ p <= b + Len(d) /\ p - b = 1
      BY <1>2, <1>4, <3>1
    <3>3. QED
      BY <1>1, <3>1, <3>2
  <2>4. \A p \in a + g + 1 .. a + g + z : f[p] = "0"
    <3> SUFFICES ASSUME NEW p \in a + g + 1 .. a + g + z PROVE f[p] = "0"
      OBVIOUS
    <3>1. z # 0 /\ g = 0
      BY <1>4, <1>5
    <3>2. c = "0" /\ a = 0 /\ b = z
      BY <1>4, <3>1 DEF a, z, c, PadChar
    <3>3. p \in 1 .. Len(d) + n /\ ~(b < p /\ p <= b + Len(d))
      BY <1>2, <1>4, <3>1, <3>2
    <3>4. QED
      BY <1>1, <3>2, <3>3
  <2>5. \A p \in 1 .. Len(s) : f[e + p] = s[p]
    <3> SUFFICES ASSUME NEW p \in 1 .. Len(s) PROVE f[e + p] = s[p]
      OBVIOUS
    <3>1. e + p \in 1 .. Len(d) + n /\ b < e + p /\ e + p <= b + Len(d) /\ (e + p) - b = g + p
      BY <1>2, <1>4, <2>1
    <3>2. QED
      BY <1>1, <3>1
  <2>6. \A p \in e + Len(s) + 1 .. e + Len(s) + t : f[p] = c
    <3> SUFFICES ASSUME NEW p \in e + Len(s) + 1 .. e + Len(s) + t PROVE f[p] = c
      OBVIOUS
    <3>1. p \in 1 .. Len(d) + n /\ ~(b < p /\ p <= b + Len(d))
      BY <1>2, <1>4, <2>1
    <3>2. QED
      BY <1>1, <3>1
  <2>7. QED
    BY <1>1, <2>1, <2>2, <2>3, <2>4, <2>5, <2>6 DEF Shaped
<1>8. QED
  <2> HIDE DEF a, z, t, c, b
  <2>1. QED
    BY <1>4, <1>6, <1>7 DEF f

LEMMA OutputIIsShaped ==
  ASSUME NEW v \in Int, NEW letter, NEW s \in Seq(Char), s = PrintBuf(v, letter),
         NEW g, g = (IF Negative(v, letter) THEN 1 ELSE 0), NEW width \in Int, NEW flags
  PROVE  \E a, z, t \in Nat : \E c :
           /\ Shaped(OutputI(v, letter, width, flags), a, g, z, s, t, c)
           /\ Filled(Len(OutputI(v, letter, width, flags)), width, flags, a, z, t, c)
<1> DEFINE f == OutputI(v, letter, width, flags)
<1>1. CASE SignFirst(v, letter, width, flags)
  <2> DEFINE h == Prints(s, width - 1, flags)
             n == PadLen(s, width - 1)
             z == PadBefore(s, width - 1, flags)
             t == IF "PAD_RIGHT" \in flags THEN n ELSE 0
  <2>1. g = 1 /\ "PAD_ZERO" \in flags /\ f = <<"-">> \o h
    BY <1>1 DEF SignFirst, OutputI
  <2>2. /\ h \in Seq(Char) /\ Len(h) = Len(s) + n
        /\ \A p \in 1 .. Len(s) + n : h[p] = IF z < p /\ p <= z + Len(s) THEN s[p - z] ELSE "0"
    <3>1. width - 1 \in Int
      OBVIOUS
    <3>2. PadChar(flags) = "0"
      BY <2>1 DEF PadChar
    <3>3. QED
      BY <3>1, <3>2, PrintsIs
  <2>3. n \in Nat /\ (n # 0 => Len(s) + n = width - 1) /\ Len(s) + n >= width - 1
    <3>1. width - 1 \in Int
      OBVIOUS
    <3>2. QED
      BY <3>1, PadLenIs
  <2>4. z \in Nat /\ t \in Nat /\ z + t = n /\ (IF "PAD_RIGHT" \in flags THEN z = 0 ELSE t = 0)
    <3> HIDE DEF n
    <3>1. z = IF "PAD_RIGHT" \in flags THEN 0 ELSE n
      BY DEF PadBefore, n
    <3>2. QED
      BY <2>3, <3>1
  <2>5. <<"-">> \in Seq(Char) /\ Len(<<"-">>) = 1 /\ Len(s) \in Nat
    BY CharsAre
  <2> HIDE DEF f, h, n, z, t
  <2>6. /\ f \in Seq(Char) /\ Len(f) = 1 + Len(s) + n
        /\ \A p \in 1 .. 1 + Len(h) : f[p] = IF p <= 1 THEN <<"-">>[p] ELSE h[p - 1]
    <3> DEFINE sign == <<"-">>
    <3>1. sign \in Seq(Char) /\ Len(sign) = 1 /\ sign[1] = "-"
      BY <2>5
    <3> HIDE DEF sign
    <3>2. /\ sign \o h \in Seq(Char) /\ Len(sign \o h) = Len(sign) + Len(h)
          /\ \A p \in 1 .. Len(sign) + Len(h) :
               (sign \o h)[p] = IF p <= Len(sign) THEN sign[p] ELSE h[p - Len(sign)]
      BY <2>2, <3>1, ConcatProperties
    <3>3. f = sign \o h
      BY <2>1 DEF sign
    <3>4. /\ f \in Seq(Char) /\ Len(f) = 1 + Len(h)
          /\ \A p \in 1 .. 1 + Len(h) : f[p] = IF p <= 1 THEN sign[p] ELSE h[p - 1]
      BY <3>1, <3>2, <3>3
    <3>5. 1 + Len(h) = 1 + Len(s) + n
      BY <2>2, <2>3, <2>5
    <3>6. QED
      BY <3>4, <3>5 DEF sign
  <2>7. f[1] = "-" /\ \A p \in 1 .. Len(s) + n : f[1 + p] = h[p]
    <3>1. \A p \in 1 .. Len(s) + n : 1 + p \in 1 .. 1 + Len(h) /\ ~(1 + p <= 1) /\ (1 + p) - 1 = p
      BY <2>2, <2>3, <2>5
    <3>2. 1 \in 1 .. 1 + Len(h)
      BY <2>2, <2>3, <2>5
    <3>3. f[1] = "-"
      BY <2>6, <3>2
    <3>4. \A p \in 1 .. Len(s) + n : f[1 + p] = h[(1 + p) - 1]
      BY <2>6, <3>1
    <3>5. QED
      BY <3>1, <3>3, <3>4
  <2>8. Filled(Len(f), width, flags, 0, z, t, "0")
    <3>1. Len(f) >= width /\ (0 + z + t # 0 => Len(f) = width)
      BY <2>3, <2>4, <2>5, <2>6
    <3>2. QED
      BY <2>1, <2>4, <3>1 DEF Filled
  <2>9. Shaped(f, 0, g, z, s, t, "0")
    <3>1. Len(f) = 0 + g + z + Len(s) + t
      BY <2>1, <2>4, <2>5, <2>6
    <3>2. \A p \in 0 + 1 .. 0 + g : p = 1
      BY <2>1
    <3>3. ASSUME NEW p \in 0 + g + 1 .. 0 + g + z
          PROVE  f[p] = "0"
      <4>1. p - 1 \in 1 .. Len(s) + n /\ ~(z < p - 1) /\ 1 + (p - 1) = p
        BY <2>1, <2>4, <2>5
      <4>2. QED
        BY <2>2, <2>7, <4>1
    <3>4. ASSUME NEW p \in 1 .. Len(s)
          PROVE  f[0 + g + z + p] = s[p]
      <4>1. z + p \in 1 .. Len(s) + n /\ z < z + p /\ z + p <= z + Len(s) /\ (z + p) - z = p
        BY <2>4, <2>5
      <4>2. 0 + g + z + p = 1 + (z + p)
        BY <2>1, <2>4
      <4>3. QED
        BY <2>2, <2>7, <4>1, <4>2
    <3>5. ASSUME NEW p \in 0 + g + z + Len(s) + 1 .. 0 + g + z + Len(s) + t
          PROVE  f[p] = "0"
      <4>1. p - 1 \in 1 .. Len(s) + n /\ ~(p - 1 <= z + Len(s)) /\ 1 + (p - 1) = p
        BY <2>1, <2>4, <2>5
      <4>2. QED
        BY <2>2, <2>7, <4>1
    <3>6. QED
      BY <2>6, <2>7, <3>1, <3>2, <3>3, <3>4, <3>5 DEF Shaped
  <2>10. 0 \in Nat
    OBVIOUS
  <2>11. QED
    BY <2>4, <2>8, <2>9, <2>10 DEF f
<1>2. CASE ~SignFirst(v, letter, width, flags)
  <2> DEFINE sign == IF Negative(v, letter) THEN <<"-">> ELSE <<>>
             d == sign \o s
  <2>1. f = Prints(d, width, flags)
    BY <1>2 DEF OutputI
  <2>2. sign \in Seq(Char) /\ Len(sign) = g /\ (g = 1 => sign[1] = "-") /\ g \in {0, 1}
    <3>1. CASE Negative(v, letter)
      BY <3>1, CharsAre
    <3>2. CASE ~Negative(v, letter)
      BY <3>2
    <3>3. QED
      BY <3>1, <3>2
  <2> HIDE DEF sign
  <2>3. /\ d \in Seq(Char) /\ Len(d) = Len(sign) + Len(s)
        /\ \A p \in 1 .. Len(sign) + Len(s) : d[p] = IF p <= Len(sign) THEN sign[p] ELSE s[p - Len(sign)]
    BY <2>2, ConcatProperties
  <2> HIDE DEF d
  <2>4. Len(s) \in Nat
    OBVIOUS
  <2>5. Len(d) = g + Len(s) /\ (g = 1 => d[1] = "-")
    BY <2>2, <2>3, <2>4
  <2>6. \A p \in 1 .. Len(s) : d[g + p] = s[p]
    BY <2>2, <2>3, <2>4
  <2>7. g = 1 /\ "PAD_ZERO" \in flags => width = 0
    BY <1>2 DEF SignFirst
  <2> HIDE DEF f
  <2>8. \E a, z, t \in Nat : \E c :
          /\ Shaped(Prints(d, width, flags), a, g, z, s, t, c)
          /\ Filled(Len(Prints(d, width, flags)), width, flags, a, z, t, c)
    BY <2>2, <2>3, <2>5, <2>6, <2>7, PrintsIsShaped
  <2>9. QED
    BY <2>1, <2>8 DEF f
<1>3. QED
  BY <1>1, <1>2

-----------------------------------------------------------------------------
(***************************************************************************)
(* Counting the characters that are counted, and the arguments asked for   *)
(***************************************************************************)

CountOf(s) == Cardinality({p \in 1 .. Len(s) : s[p] # CR})

NoReturnIn(s) == \A p \in 1 .. Len(s) : s[p] # CR

\* What simple_vsprintf outputs and by how much it counts.
Counted(s, n) == (n = Len(s) /\ NoReturnIn(s)) \/ (n = 1 /\ s = <<CR, LF>>)

LEMMA CountGrows ==
  ASSUME NEW s \in Seq(Char), NEW t \in Seq(Char), NEW n, Counted(t, n)
  PROVE  CountOf(s \o t) = CountOf(s) + n
<1> DEFINE A == {p \in 1 .. Len(s) : s[p] # CR}
           B == {p \in Len(s) + 1 .. Len(s) + Len(t) : t[p - Len(s)] # CR}
           C == {p \in 1 .. Len(s \o t) : (s \o t)[p] # CR}
<1>1. Len(s) \in Nat /\ Len(t) \in Nat
  OBVIOUS
<1>2. /\ Len(s \o t) = Len(s) + Len(t)
      /\ \A p \in 1 .. Len(s) + Len(t) : (s \o t)[p] = IF p <= Len(s) THEN s[p] ELSE t[p - Len(s)]
  BY ConcatProperties
<1>3. C = A \cup B /\ A \cap B = {}
  BY <1>1, <1>2
<1>4. IsFiniteSet(A) /\ IsFiniteSet(B)
  <2>1. IsFiniteSet(1 .. Len(s)) /\ IsFiniteSet(Len(s) + 1 .. Len(s) + Len(t))
    BY <1>1, FS_Interval
  <2>2. A \in SUBSET (1 .. Len(s)) /\ B \in SUBSET (Len(s) + 1 .. Len(s) + Len(t))
    OBVIOUS
  <2> HIDE DEF A, B
  <2>3. QED
    BY <2>1, <2>2, FS_Subset
<1>5. Cardinality(B) = n
  <2>1. CASE n = Len(t) /\ NoReturnIn(t)
    <3>1. B = Len(s) + 1 .. Len(s) + Len(t)
      <4>1. \A p \in Len(s) + 1 .. Len(s) + Len(t) : p - Len(s) \in 1 .. Len(t)
        BY <1>1
      <4>2. QED
        BY <2>1, <4>1 DEF NoReturnIn
    <3>2. Cardinality(Len(s) + 1 .. Len(s) + Len(t)) =
            IF Len(s) + 1 > Len(s) + Len(t) THEN 0 ELSE (Len(s) + Len(t)) - (Len(s) + 1) + 1
      <4>1. Len(s) + 1 \in Int /\ Len(s) + Len(t) \in Int
        BY <1>1
      <4>2. QED
        BY <4>1, FS_Interval
    <3> HIDE DEF B
    <3>3. QED
      BY <1>1, <2>1, <3>1, <3>2
  <2>2. CASE n = 1 /\ t = <<CR, LF>>
    <3>1. Len(t) = 2 /\ t[1] = CR /\ t[2] # CR
      BY <2>2, CharsDiffer
    <3>2. \A p : p \in Len(s) + 1 .. Len(s) + 2 <=> p - Len(s) \in 1 .. 2 /\ p \in Int
      BY <1>1
    <3>3. B = {Len(s) + 2}
      <4>1. \A p \in Len(s) + 1 .. Len(s) + 2 : p = Len(s) + 1 \/ p = Len(s) + 2
        BY <1>1
      <4>2. (Len(s) + 1) - Len(s) = 1 /\ (Len(s) + 2) - Len(s) = 2 /\ Len(s) + 1 # Len(s) + 2
            /\ Len(s) + 2 \in Len(s) + 1 .. Len(s) + 2
        BY <1>1
      <4>3. QED
        BY <3>1, <4>1, <4>2
    <3> HIDE DEF B
    <3>4. QED
      BY <2>2, <3>3, FS_Singleton
  <2>3. QED
    BY <2>1, <2>2 DEF Counted
<1> HIDE DEF A, B, C
<1>6. Cardinality(A \cup B) = Cardinality(A) + Cardinality(B)
  <2>1. Cardinality(A \cup B) = Cardinality(A) + Cardinality(B) - Cardinality(A \cap B)
    BY <1>4, FS_Union
  <2>2. Cardinality(A \cap B) = 0 /\ Cardinality(A) \in Nat /\ Cardinality(B) \in Nat
    BY <1>3, <1>4, FS_EmptySet, FS_CardinalityType
  <2>3. QED
    BY <2>1, <2>2
<1>7. QED
  BY <1>3, <1>5, <1>6 DEF CountOf, A, C

\* The arguments the first k characters of the format ask for, or more.
Asked(k) == Cardinality({p \in 1 .. k : fmt[p] \in {"%", "*"}})

LEMMA AskedIs ==
  ASSUME NEW j \in Nat, NEW k \in Nat, j <= k
  PROVE  /\ Asked(j) \in Nat /\ Asked(j) <= Asked(k)
         /\ \A p \in j + 1 .. k : fmt[p] \in {"%", "*"} => Asked(j) + 1 <= Asked(k)
<1> DEFINE A == {p \in 1 .. j : fmt[p] \in {"%", "*"}}
           B == {p \in 1 .. k : fmt[p] \in {"%", "*"}}
<1>1. IsFiniteSet(A) /\ IsFiniteSet(B)
  <2>1. IsFiniteSet(1 .. j) /\ IsFiniteSet(1 .. k)
    BY FS_Interval
  <2>2. A \in SUBSET (1 .. j) /\ B \in SUBSET (1 .. k)
    OBVIOUS
  <2> HIDE DEF A, B
  <2>3. QED
    BY <2>1, <2>2, FS_Subset
<1>2. A \in SUBSET B
  OBVIOUS
<1>3. \A p \in j + 1 .. k : p \notin A /\ (fmt[p] \in {"%", "*"} => p \in B)
  OBVIOUS
<1> HIDE DEF A, B
<1>4. Cardinality(A) \in Nat /\ Cardinality(B) \in Nat /\ Cardinality(A) <= Cardinality(B)
  BY <1>1, <1>2, FS_CardinalityType, FS_Subset
<1>5. ASSUME NEW p \in j + 1 .. k, fmt[p] \in {"%", "*"}
      PROVE  Cardinality(A) + 1 <= Cardinality(B)
  <2>1. A # B
    BY <1>3, <1>5
  <2>2. Cardinality(A) # Cardinality(B)
    BY <1>1, <1>2, <2>1, FS_Subset
  <2>3. QED
    BY <1>4, <2>2
<1>6. QED
  BY <1>4, <1>5 DEF Asked, A, B

-----------------------------------------------------------------------------
(***************************************************************************)
(* The invariant                                                           *)
(***************************************************************************)

Arg == [num : 0 .. Pow[LongBits] - 1, text : Seq(STRING)]

PrintfTypeOK ==
  /\ fmt \in Seq(STRING \ {NUL}) /\ args \in Seq(Arg)
  /\ i \in 1 .. Len(fmt) + 1
  /\ ap \in 0 .. Len(args)
  /\ u \in 0 .. Pow[LongBits] - 1
  /\ out \in Seq(Char) /\ pc \in 0 .. Len(out)
  /\ written \in Seq(Char)
  /\ status \in {"running", "written", "undefined"}

\* No argument is consumed that the part of the format behind us did not ask for.
ConsumesAsked == Running => ap <= Asked(i - 1)

PrintfInv == PrintfTypeOK /\ ConsumesAsked /\ CountMissesReturns /\ UndefinedHasCause

LEMMA InitIsGood == Init => PrintfInv
<1> SUFFICES ASSUME Init PROVE PrintfInv
  OBVIOUS
<1>1. PICK c \in Calls : fmt = c.fmt /\ args = c.args
  BY DEF Init
<1>2. fmt \in Seq(STRING \ {NUL}) /\ args \in Seq(Arg) /\ u \in 0 .. Pow[LongBits] - 1
  BY <1>1, PrintfAssumption DEF Init, Arg
<1>3. i = 1 /\ ap = 0 /\ out = <<>> /\ pc = 0 /\ written = <<>> /\ status = "running"
  BY DEF Init
<1>4. PrintfTypeOK
  BY <1>2, <1>3 DEF PrintfTypeOK
<1>5. ConsumesAsked
  <2>1. 0 \in Nat /\ 1 - 1 = 0
    OBVIOUS
  <2>2. Asked(0) \in Nat
    BY <2>1, AskedIs
  <2>3. QED
    BY <1>3, <2>1, <2>2 DEF ConsumesAsked
<1>6. CountMissesReturns
  <2>1. {p \in 1 .. Len(out) : out[p] # CR} = {}
    BY <1>3
  <2>2. QED
    BY <1>3, <2>1, FS_EmptySet DEF CountMissesReturns
<1>7. QED
  BY <1>3, <1>4, <1>5, <1>6 DEF PrintfInv, UndefinedHasCause

\* What holds of a conversion before it is carried out.
LEMMA ConversionAsks ==
  ASSUME PrintfTypeOK, ConsumesAsked, AtConversion
  PROVE  /\ i \in 1 .. Len(fmt) - 1 /\ fmt[i] = "%" /\ Len(fmt) \in Nat
         /\ LetterAt \in i + 1 .. Len(fmt) + 1
         /\ Letter = NUL <=> LetterAt = Len(fmt) + 1
         /\ \A q \in i + 1 .. LetterAt - 1 : fmt[q] \in Decimal \cup {"-", "*", "l", "h"}
         /\ ArgAt \in ap + 1 .. ap + 2
         /\ ap + 1 <= Asked(i) /\ ArgAt <= Asked(LetterAt - 1)
<1>1. fmt \in Seq(STRING \ {NUL}) /\ i \in Nat \ {0} /\ ap \in Nat /\ Len(fmt) \in Nat
  BY DEF PrintfTypeOK
<1>2. At(i) = "%" /\ At(i + 1) # NUL
  BY DEF AtConversion
<1>3. /\ i \in 1 .. Len(fmt) - 1
      /\ LetterAt \in i + 1 .. Len(fmt) + 1
      /\ \A q \in i + 1 .. LetterAt - 1 : fmt[q] \in Decimal \cup {"-", "*", "l", "h"}
      /\ Star => WidthAt \in i + 1 .. LetterAt - 1 /\ fmt[WidthAt] = "*"
  BY <1>1, <1>2, ConversionIsScanned
<1>4. fmt[i] = "%"
  <2>1. i <= Len(fmt)
    BY <1>1, <1>3
  <2>2. QED
    BY <1>1, <1>2, <2>1, AtIs
<1>5. Letter = NUL <=> LetterAt = Len(fmt) + 1
  <2>1. LetterAt \in Nat \ {0}
    BY <1>1, <1>3
  <2>2. At(LetterAt) = NUL <=> LetterAt > Len(fmt)
    BY <1>1, <2>1, AtIs
  <2>3. QED
    BY <1>1, <1>3, <2>1, <2>2 DEF Letter
<1>6. ArgAt = ap + (IF Star THEN 2 ELSE 1)
  BY DEF ArgAt
<1>7. ap + 1 <= Asked(i) /\ Asked(i) \in Nat
  <2>1. i - 1 \in Nat /\ i \in Nat /\ i - 1 <= i /\ i \in (i - 1) + 1 .. i
    BY <1>1
  <2>2. Asked(i - 1) \in Nat /\ Asked(i) \in Nat /\ Asked(i - 1) + 1 <= Asked(i)
    <3>1. i <= i
      BY <1>1
    <3>2. QED
      BY <1>4, <2>1, <3>1, AskedIs
  <2>3. ap <= Asked(i - 1)
    BY DEF ConsumesAsked, AtConversion
  <2>4. QED
    BY <1>1, <2>2, <2>3
<1>8. LetterAt - 1 \in Nat /\ i <= LetterAt - 1 /\ i \in Nat
  BY <1>1, <1>3
<1>9. ArgAt <= Asked(LetterAt - 1)
  <2>1. CASE Star
    <3>1. Asked(i) + 1 <= Asked(LetterAt - 1)
      BY <1>3, <1>8, <2>1, AskedIs
    <3>2. Asked(LetterAt - 1) \in Nat
      <4>1. LetterAt - 1 <= LetterAt - 1
        BY <1>8
      <4>2. QED
        BY <1>8, <4>1, AskedIs
    <3>3. QED
      BY <1>1, <1>6, <1>7, <2>1, <3>1, <3>2
  <2>2. CASE ~Star
    <3>1. Asked(i) <= Asked(LetterAt - 1)
      BY <1>8, AskedIs
    <3>2. Asked(LetterAt - 1) \in Nat
      <4>1. LetterAt - 1 <= LetterAt - 1
        BY <1>8
      <4>2. QED
        BY <1>8, <4>1, AskedIs
    <3>3. QED
      BY <1>1, <1>6, <1>7, <2>2, <3>1, <3>2
  <2>3. QED
    BY <2>1, <2>2
<1>10. ArgAt \in ap + 1 .. ap + 2
  BY <1>1, <1>6
<1>11. QED
  BY <1>1, <1>3, <1>4, <1>5, <1>7, <1>9, <1>10

LEMMA WidthIs ==
  ASSUME PrintfTypeOK, Conversion
  PROVE  Width \in Int
<1>1. fmt \in Seq(STRING \ {NUL}) /\ i \in Nat \ {0} /\ ap \in Nat /\ args \in Seq(Arg)
  BY DEF PrintfTypeOK
<1>2. CASE Star
  <2>1. ArgAt = ap + 2
    BY <1>2 DEF ArgAt
  <2>2. ArgAt <= Len(args) \/ ArgAt - 1 <= Len(args)
    BY DEF Conversion, Given
  <2>3. Len(args) \in Nat
    BY <1>1
  <2>4. ap + 1 \in 1 .. Len(args)
    BY <1>1, <2>1, <2>2, <2>3
  <2>5. args[ap + 1] \in Arg
    BY <1>1, <2>4, ElementOfSeq
  <2>6. args[ap + 1].num \in 0 .. Pow[LongBits] - 1
    BY <2>5 DEF Arg
  <2>7. args[ap + 1].num \in Int /\ IntBits \in Nat \ {0}
    <3>1. \A y \in 0 .. Pow[LongBits] - 1 : y \in Int
      OBVIOUS
    <3>2. QED
      BY <2>6, <3>1, WidthsOfTypes
  <2>8. Signed(args[ap + 1].num, IntBits) \in Int
    <3>1. Signed(args[ap + 1].num, IntBits) \in -Pow[IntBits - 1] .. Pow[IntBits - 1] - 1
      BY <2>7, SignedIs
    <3>2. \A a : \A b : \A y \in a .. b : y \in Int
      OBVIOUS
    <3>3. QED
      BY <3>1, <3>2
  <2>9. QED
    BY <1>2, <2>8 DEF Width
<1>3. CASE ~Star
  <2> DEFINE text == SubSeq(fmt, WidthAt, LengthAt - 1)
  <2>1. At(i + 1) # NUL
    BY DEF Conversion, AtConversion
  <2>2. /\ WidthAt \in i + 1 .. Len(fmt) + 1 /\ LengthAt \in WidthAt .. Len(fmt) + 1
        /\ Len(fmt) \in Nat
    BY <1>1, <2>1, ConversionIsScanned
  <2>3. WidthAt \in Int /\ LengthAt - 1 \in Int /\ \A p \in WidthAt .. LengthAt - 1 : p \in 1 .. Len(fmt)
    BY <1>1, <2>2
  <2>4. \A p \in WidthAt .. LengthAt - 1 : fmt[p] \in STRING \ {NUL}
    BY <1>1, <2>3, ElementOfSeq
  <2>5. text \in Seq(STRING \ {NUL})
    BY <2>3, <2>4, SubSeqProperties
  <2>6. Len(text) \in Nat /\ 10 \in Nat
    BY <2>5
  <2>7. Width = NumberOf(text, 10)
    BY <1>3 DEF Width
  <2> HIDE DEF text
  <2>8. PICK value : Reads(value, text, 10) /\ NumberOf(text, 10) = value[Len(text)]
    BY <2>6, NumberIsRead
  <2>9. value[Len(text)] \in Nat
    BY <2>6, <2>8 DEF Reads
  <2>10. QED
    BY <2>7, <2>8, <2>9
<1>4. QED
  BY <1>2, <1>3

\* What goes to the buffer keeps the count in step with it.
LEMMA OutputKeeps ==
  ASSUME PrintfTypeOK, CountMissesReturns, fmt' = fmt, args' = args,
         NEW text \in Seq(Char), NEW n \in 0 .. Len(text), NoReturns => Counted(text, n),
         Output(text, n)
  PROVE  /\ out' \in Seq(Char) /\ pc' \in 0 .. Len(out')
         /\ NoReturns' => pc' = CountOf(out')
         /\ status' \in {"running", "undefined"}
         /\ status' = "undefined" => Len(out') >= BufLen
<1>1. out \in Seq(Char) /\ pc \in 0 .. Len(out) /\ Len(out) \in Nat /\ Len(text) \in Nat
  BY DEF PrintfTypeOK
<1>2. out' = out \o text /\ pc' = pc + n /\ status' = IF Len(out') <= BufLen THEN "running" ELSE "undefined"
  BY DEF Output
<1>3. out' \in Seq(Char) /\ Len(out') = Len(out) + Len(text)
  BY <1>1, <1>2, ConcatProperties
<1>4. pc' \in 0 .. Len(out')
  BY <1>1, <1>2, <1>3
<1>5. NoReturns' => pc' = CountOf(out')
  <2>1. NoReturns' <=> NoReturns
    BY DEF NoReturns
  <2>2. NoReturns => pc = CountOf(out)
    BY DEF CountMissesReturns, CountOf
  <2>3. NoReturns => CountOf(out \o text) = CountOf(out) + n
    BY <1>1, CountGrows
  <2>4. QED
    BY <1>2, <2>1, <2>2, <2>3
<1>6. status' = "undefined" => Len(out') >= BufLen
  <2>1. BufLen \in Nat /\ Len(out') \in Nat
    BY <1>3, PrintfAssumption
  <2>2. QED
    BY <1>2, <2>1
<1>7. QED
  BY <1>2, <1>3, <1>4, <1>5, <1>6

LEMMA ArgumentIs ==
  ASSUME PrintfTypeOK, ConsumesAsked, Conversion, IsInteger \/ IsChar \/ IsString
  PROVE  /\ ArgAt \in 1 .. Len(args)
         /\ args[ArgAt].num \in 0 .. Pow[LongBits] - 1
         /\ args[ArgAt].num \in Int
         /\ args[ArgAt].text \in Seq(Char)
<1>1. ap \in Nat /\ args \in Seq(Arg) /\ Len(args) \in Nat
  BY DEF PrintfTypeOK
<1>2. ArgAt \in ap + 1 .. ap + 2 /\ ArgAt <= Len(args)
  BY ConversionAsks DEF Conversion, Given
<1>3. ArgAt \in 1 .. Len(args)
  BY <1>1, <1>2
<1>4. args[ArgAt] \in Arg
  BY <1>1, <1>3, ElementOfSeq
<1>5. \A y \in 0 .. Pow[LongBits] - 1 : y \in Int
  OBVIOUS
<1>6. \A s \in Seq(STRING) : s \in Seq(Char)
  <2>1. STRING \subseteq Char
    BY DEF Char
  <2>2. QED
    BY <2>1, SeqMonotonic
<1>7. QED
  BY <1>3, <1>4, <1>5, <1>6 DEF Arg

LEMMA PrintsHasNoReturn ==
  ASSUME NEW s \in Seq(Char), NoReturnIn(s), NEW width \in Int, NEW flags
  PROVE  NoReturnIn(Prints(s, width, flags))
<1> DEFINE f == Prints(s, width, flags)
           b == PadBefore(s, width, flags)
           n == PadLen(s, width)
<1>1. /\ Len(f) = Len(s) + n
      /\ \A p \in 1 .. Len(s) + n : f[p] = IF b < p /\ p <= b + Len(s) THEN s[p - b] ELSE PadChar(flags)
  BY PrintsIs
<1>2. n \in Nat /\ Len(s) \in Nat /\ b \in Nat
  <2>1. Len(s) \in Nat
    OBVIOUS
  <2> HIDE DEF f
  <2>2. n \in Nat
    BY PadLenIs
  <2>3. b = 0 \/ b = n
    BY DEF PadBefore
  <2> HIDE DEF b, n
  <2>4. QED
    BY <2>1, <2>2, <2>3
<1>3. PadChar(flags) # CR
  BY CharsDiffer DEF PadChar
<1> HIDE DEF f, b, n
<1>4. ASSUME NEW p \in 1 .. Len(f)
      PROVE  f[p] # CR
  <2>1. p \in 1 .. Len(s) + n
    BY <1>1
  <2>2. CASE b < p /\ p <= b + Len(s)
    <3>1. p - b \in 1 .. Len(s)
      BY <1>2, <2>2
    <3>2. QED
      BY <1>1, <2>1, <2>2, <3>1 DEF NoReturnIn
  <2>3. CASE ~(b < p /\ p <= b + Len(s))
    BY <1>1, <1>3, <2>1, <2>3
  <2>4. QED
    BY <2>2, <2>3
<1>5. QED
  BY <1>4 DEF NoReturnIn, f

\* The five parts of a field.
InPart(p, f, a, g, z, s, t, c) ==
  LET e == a + g + z
  IN  \/ p \in 1 .. a /\ f[p] = Blank
      \/ p \in a + 1 .. a + g /\ f[p] = "-"
      \/ p \in a + g + 1 .. e /\ f[p] = "0"
      \/ p \in e + 1 .. e + Len(s) /\ p - e \in 1 .. Len(s) /\ f[p] = s[p - e]
      \/ p \in e + Len(s) + 1 .. e + Len(s) + t /\ f[p] = c

LEMMA ShapedParts ==
  ASSUME NEW f, NEW s \in Seq(Char), NEW a \in Nat, NEW g \in Nat, NEW z \in Nat, NEW t \in Nat,
         NEW c, Shaped(f, a, g, z, s, t, c), NEW p \in 1 .. Len(f)
  PROVE  InPart(p, f, a, g, z, s, t, c)
<1> DEFINE e == a + g + z
<1>1. Len(s) \in Nat /\ e \in Nat
  OBVIOUS
<1> HIDE DEF e, InPart
<1>2. /\ Len(f) = e + Len(s) + t
      /\ \A q \in 1 .. a : f[q] = Blank
      /\ \A q \in a + 1 .. a + g : f[q] = "-"
      /\ \A q \in a + g + 1 .. e : f[q] = "0"
      /\ \A q \in 1 .. Len(s) : f[e + q] = s[q]
      /\ \A q \in e + Len(s) + 1 .. e + Len(s) + t : f[q] = c
  BY DEF Shaped, e
<1>3. p \in 1 .. e + Len(s) + t
  BY <1>2
<1>4. CASE p <= e
  <2>1. p \in 1 .. a \/ p \in a + 1 .. a + g \/ p \in a + g + 1 .. e
    BY <1>1, <1>3, <1>4
  <2>2. QED
    BY <1>2, <2>1 DEF e, InPart
<1>5. CASE p > e /\ p <= e + Len(s)
  <2>1. p \in e + 1 .. e + Len(s) /\ p - e \in 1 .. Len(s) /\ e + (p - e) = p
    BY <1>1, <1>3, <1>5
  <2>2. f[p] = s[p - e]
    BY <1>2, <2>1
  <2>3. QED
    BY <2>1, <2>2 DEF e, InPart
<1>6. CASE p > e + Len(s)
  <2>1. p \in e + Len(s) + 1 .. e + Len(s) + t
    BY <1>1, <1>3, <1>6
  <2>2. QED
    BY <1>2, <2>1 DEF e, InPart
<1>7. QED
  BY <1>1, <1>3, <1>4, <1>5, <1>6

\* What PrintNumber adds to the buffer.
LEMMA FieldIsShaped ==
  ASSUME IsInteger, NEW x \in Int, NEW width \in Int, NEW flags
  PROVE  LET v == ReadMember(x)
             s == PrintBuf(v, Letter)
             f == OutputI(v, Letter, width, flags)
         IN  /\ Numeral(s, Magnitude(v), BaseOf(Letter))
             /\ f \in Seq(Char)
             /\ \E g : g = (IF Negative(v, Letter) THEN 1 ELSE 0)
                  /\ \E a, z, t \in Nat : \E c :
                       Shaped(f, a, g, z, s, t, c) /\ Filled(Len(f), width, flags, a, z, t, c)
<1> DEFINE v == ReadMember(x)
           s == PrintBuf(v, Letter)
           f == OutputI(v, Letter, width, flags)
           g == IF Negative(v, Letter) THEN 1 ELSE 0
<1>1. Numeral(s, Magnitude(v), BaseOf(Letter))
  BY PrintBufIs
<1>2. v \in Int
  <2>1. v \in -Pow[LongBits - 1] .. Pow[LongBits - 1] - 1
    BY MagnitudeIs
  <2>2. \A a : \A b : \A y \in a .. b : y \in Int
    OBVIOUS
  <2>3. QED
    BY <2>1, <2>2
<1>3. s \in Seq(Char)
  BY <1>1 DEF Numeral
<1> HIDE DEF v
<1>4. \E a, z, t \in Nat : \E c :
        Shaped(f, a, g, z, s, t, c) /\ Filled(Len(f), width, flags, a, z, t, c)
  BY <1>2, <1>3, OutputIIsShaped
<1> HIDE DEF s, f, g
<1>5. f \in Seq(Char)
  BY <1>4 DEF Shaped
<1>6. QED
  BY <1>1, <1>4, <1>5 DEF v, s, f, g

\* No digit of a numeral is a carriage return, a blank or a sign.
LEMMA NumeralChars ==
  ASSUME NEW s, NEW number, NEW base, Numeral(s, number, base), NEW p \in 1 .. Len(s)
  PROVE  s[p] \notin {CR, Blank, "-"}
BY DigitsAreDistinct DEF Numeral

LEMMA OutputIHasNoReturn ==
  ASSUME IsInteger, NEW x \in Int, NEW width \in Int, NEW flags
  PROVE  /\ OutputI(ReadMember(x), Letter, width, flags) \in Seq(Char)
         /\ NoReturnIn(OutputI(ReadMember(x), Letter, width, flags))
<1> DEFINE v == ReadMember(x)
           s == PrintBuf(v, Letter)
           f == OutputI(v, Letter, width, flags)
<1>1. /\ Numeral(s, Magnitude(v), BaseOf(Letter))
      /\ f \in Seq(Char)
      /\ \E g : g = (IF Negative(v, Letter) THEN 1 ELSE 0)
           /\ \E a, z, t \in Nat : \E c :
                Shaped(f, a, g, z, s, t, c) /\ Filled(Len(f), width, flags, a, z, t, c)
  BY FieldIsShaped
<1> HIDE DEF v, s, f
<1>2. PICK g \in Nat : \E a, z, t \in Nat : \E c :
                Shaped(f, a, g, z, s, t, c) /\ Filled(Len(f), width, flags, a, z, t, c)
  BY <1>1
<1>3. PICK a \in Nat, z \in Nat, t \in Nat :
                \E c : Shaped(f, a, g, z, s, t, c) /\ Filled(Len(f), width, flags, a, z, t, c)
  BY <1>2
<1>4. PICK c : Shaped(f, a, g, z, s, t, c) /\ Filled(Len(f), width, flags, a, z, t, c)
  BY <1>3
<1>5. c # CR /\ Blank # CR /\ "-" # CR /\ "0" # CR
  BY <1>4, CharsDiffer DEF Filled
<1>6. \A p \in 1 .. Len(s) : s[p] # CR
  BY <1>1, NumeralChars
<1>7. s \in Seq(Char)
  BY <1>1 DEF Numeral
<1>8. ASSUME NEW p \in 1 .. Len(f)
      PROVE  f[p] # CR
  <2>1. \/ f[p] \in {Blank, "-", "0", c}
        \/ p - (a + g + z) \in 1 .. Len(s) /\ f[p] = s[p - (a + g + z)]
    BY <1>4, <1>7, ShapedParts DEF InPart
  <2>2. QED
    BY <1>5, <1>6, <2>1
<1>9. QED
  BY <1>1, <1>8 DEF NoReturnIn, f, v

-----------------------------------------------------------------------------
(***************************************************************************)
(* Every step keeps the invariant                                          *)
(***************************************************************************)

\* The loop goes on behind the letter of a conversion.
LEMMA GoesOn ==
  ASSUME PrintfTypeOK, ConsumesAsked, Conversion, Letter # NUL, fmt' = fmt, args' = args,
         ap' \in {ArgAt, ArgAt - 1}, ap' <= Len(args), i' = LetterAt + 1
  PROVE  i' \in 1 .. Len(fmt') + 1 /\ ap' \in 0 .. Len(args') /\ ConsumesAsked'
<1>1. ap \in Nat /\ i \in Nat /\ Len(args) \in Nat
  BY DEF PrintfTypeOK
<1>2. /\ Len(fmt) \in Nat /\ LetterAt \in i + 1 .. Len(fmt) + 1
      /\ LetterAt # Len(fmt) + 1
      /\ ArgAt \in ap + 1 .. ap + 2 /\ ArgAt <= Asked(LetterAt - 1)
  BY ConversionAsks DEF Conversion
<1>3. i' \in 1 .. Len(fmt') + 1 /\ ap' \in 0 .. Len(args')
  BY <1>1, <1>2
<1>4. LetterAt - 1 \in Nat /\ LetterAt \in Nat /\ LetterAt - 1 <= LetterAt /\ i' - 1 = LetterAt
  BY <1>1, <1>2
<1>5. Asked(LetterAt - 1) <= Asked(LetterAt) /\ Asked(LetterAt - 1) \in Nat
  BY <1>4, AskedIs
<1>6. Asked(LetterAt) \in Nat
  <2>1. LetterAt <= LetterAt
    BY <1>4
  <2>2. QED
    BY <1>4, <2>1, AskedIs
<1>7. ap' <= Asked(LetterAt)
  BY <1>1, <1>2, <1>5, <1>6
<1>8. QED
  BY <1>3, <1>4, <1>7 DEF ConsumesAsked, Asked

\* A step that only outputs characters goes on with the same arguments.
LEMMA PutKeeps ==
  ASSUME PrintfInv, Running, NEW text \in Seq(Char), NEW n \in 0 .. Len(text),
         NoReturns => Counted(text, n), Output(text, n),
         NEW k \in i + 1 .. Len(fmt) + 1, i' = k, UNCHANGED <<fmt, args, ap, u, written>>
  PROVE  PrintfInv'
<1>1. PrintfTypeOK /\ ConsumesAsked /\ CountMissesReturns
  BY DEF PrintfInv
<1>2. /\ out' \in Seq(Char) /\ pc' \in 0 .. Len(out')
      /\ NoReturns' => pc' = CountOf(out')
      /\ status' \in {"running", "undefined"}
      /\ status' = "undefined" => Len(out') >= BufLen
  BY <1>1, OutputKeeps
<1>3. i \in Nat \ {0} /\ Len(fmt) \in Nat /\ k - 1 \in Nat /\ i - 1 \in Nat /\ i - 1 <= k - 1 /\ k \in 1 .. Len(fmt) + 1
  BY <1>1 DEF PrintfTypeOK
<1>4. PrintfTypeOK'
  BY <1>1, <1>2, <1>3 DEF PrintfTypeOK
<1>5. ConsumesAsked'
  <2>1. Asked(i - 1) <= Asked(k - 1) /\ Asked(i - 1) \in Nat
    BY <1>3, AskedIs
  <2>2. Asked(k - 1) \in Nat
    <3>1. k - 1 <= k - 1
      BY <1>3
    <3>2. QED
      BY <1>3, <3>1, AskedIs
  <2>3. ap \in Nat /\ ap <= Asked(i - 1)
    BY <1>1 DEF ConsumesAsked, PrintfTypeOK
  <2>4. ap' <= Asked(k - 1)
    BY <2>1, <2>2, <2>3
  <2>5. QED
    BY <2>4 DEF ConsumesAsked, Asked
<1>6. CountMissesReturns'
  BY <1>2 DEF CountMissesReturns, CountOf
<1>7. QED
  BY <1>2, <1>4, <1>5, <1>6 DEF PrintfInv, UndefinedHasCause

LEMMA OneCharacter ==
  ASSUME NEW c \in Char
  PROVE  LET text == IF c = LF THEN <<CR, LF>> ELSE <<c>>
         IN  text \in Seq(Char) /\ 1 \in 0 .. Len(text) /\ (c # CR => Counted(text, 1))
<1>1. CASE c = LF
  BY <1>1, CharsAre DEF Counted
<1>2. CASE c # LF
  BY <1>2 DEF Counted, NoReturnIn
<1>3. QED
  BY <1>1, <1>2

LEMMA LiteralKeeps == PrintfInv /\ Literal => PrintfInv'
<1> SUFFICES ASSUME PrintfInv, Literal PROVE PrintfInv'
  OBVIOUS
<1>1. fmt \in Seq(STRING \ {NUL}) /\ i \in Nat \ {0} /\ Len(fmt) \in Nat
  BY DEF PrintfInv, PrintfTypeOK
<1>2. At(i) # NUL
  BY DEF Literal
<1>3. i <= Len(fmt) /\ At(i) = fmt[i] /\ fmt[i] \in STRING
  BY <1>1, <1>2, AtIs
<1> DEFINE c == At(i)
           text == IF c = LF THEN <<CR, LF>> ELSE <<c>>
<1>4. c \in Char
  BY <1>3 DEF Char
<1>5. NoReturns => c # CR
  <2>1. i \in 1 .. Len(fmt)
    BY <1>1, <1>3
  <2>2. QED
    BY <1>3, <2>1 DEF NoReturns
<1>6. text \in Seq(Char) /\ 1 \in 0 .. Len(text) /\ (c # CR => Counted(text, 1))
  <2> HIDE DEF c
  <2>1. QED
    BY <1>4, OneCharacter
<1>7. Running /\ Output(text, 1) /\ i' = i + 1 /\ UNCHANGED <<fmt, args, ap, u, written>>
  BY DEF Literal, Put
<1>8. i + 1 \in i + 1 .. Len(fmt) + 1
  BY <1>1, <1>3
<1> HIDE DEF c, text
<1>9. QED
  BY <1>5, <1>6, <1>7, <1>8, PutKeeps

LEMMA PercentKeeps == PrintfInv /\ Percent => PrintfInv'
<1> SUFFICES ASSUME PrintfInv, Percent PROVE PrintfInv'
  OBVIOUS
<1>1. fmt \in Seq(STRING \ {NUL}) /\ i \in Nat \ {0} /\ i + 1 \in Nat \ {0} /\ Len(fmt) \in Nat
  BY DEF PrintfInv, PrintfTypeOK
<1>2. At(i + 1) = "%" /\ At(i + 1) # NUL
  BY DEF Percent, NUL
<1>3. i + 1 <= Len(fmt) /\ fmt[i + 1] = "%" /\ fmt[i + 1] \in STRING
  BY <1>1, <1>2, AtIs
<1> DEFINE c == "%"
           text == IF c = LF THEN <<CR, LF>> ELSE <<c>>
<1>4. c \in Char
  BY <1>3 DEF Char
<1>5. c # CR
  BY Zenon DEF CR
<1>6. text \in Seq(Char) /\ 1 \in 0 .. Len(text) /\ (c # CR => Counted(text, 1))
  <2> HIDE DEF c
  <2>1. QED
    BY <1>4, OneCharacter
<1>7. Running /\ Output(text, 1) /\ i' = i + 2 /\ UNCHANGED <<fmt, args, ap, u, written>>
  BY DEF Percent, Put
<1>8. i + 2 \in i + 1 .. Len(fmt) + 1
  BY <1>1, <1>3
<1> HIDE DEF c, text
<1>9. QED
  BY <1>5, <1>6, <1>7, <1>8, PutKeeps

LEMMA LonePercentKeeps == PrintfInv /\ LonePercent => PrintfInv'
<1> SUFFICES ASSUME PrintfInv, LonePercent PROVE PrintfInv'
  OBVIOUS
<1>1. PrintfTypeOK /\ ConsumesAsked /\ CountMissesReturns /\ UndefinedHasCause
  BY DEF PrintfInv
<1>2. fmt \in Seq(STRING \ {NUL}) /\ i \in Nat \ {0} /\ Len(fmt) \in Nat
  BY <1>1 DEF PrintfTypeOK
<1>3. At(i) # NUL
  BY DEF LonePercent, NUL
<1>4. i <= Len(fmt)
  BY <1>2, <1>3, AtIs
<1>5. i' = i + 1 /\ UNCHANGED <<fmt, args, ap, u, out, pc, written, status>>
  BY DEF LonePercent
<1>6. PrintfTypeOK'
  BY <1>1, <1>2, <1>4, <1>5 DEF PrintfTypeOK
<1>7. ConsumesAsked'
  <2>1. i - 1 \in Nat /\ i \in Nat /\ i - 1 <= i /\ i <= i
    BY <1>2
  <2>2. Asked(i - 1) <= Asked(i) /\ Asked(i - 1) \in Nat /\ Asked(i) \in Nat
    BY <2>1, AskedIs
  <2>3. ap \in Nat /\ ap <= Asked(i - 1)
    BY <1>1 DEF ConsumesAsked, PrintfTypeOK, LonePercent
  <2>4. i' - 1 = i /\ ap' <= Asked(i)
    BY <1>2, <1>5, <2>2, <2>3
  <2>5. QED
    BY <1>5, <2>4 DEF ConsumesAsked, Asked
<1>8. CountMissesReturns' /\ UndefinedHasCause'
  BY <1>1, <1>5 DEF CountMissesReturns, UndefinedHasCause, NoReturns
<1>9. QED
  BY <1>6, <1>7, <1>8 DEF PrintfInv

LEMMA PrintNumberKeeps == PrintfInv /\ PrintNumber => PrintfInv'
<1> SUFFICES ASSUME PrintfInv, PrintNumber PROVE PrintfInv'
  OBVIOUS
<1> DEFINE x == args[ArgAt].num
           v == ReadMember(u')
           text == OutputI(v, Letter, Width, Flags)
           fits == FitsPrintBuf(v, Letter, Width, Flags)
<1>1. PrintfTypeOK /\ ConsumesAsked /\ CountMissesReturns /\ UndefinedHasCause
  BY DEF PrintfInv
<1>2. Conversion /\ IsInteger /\ Converted /\ u' = WriteMember(x)
  BY DEF PrintNumber
<1>3. IF fits THEN Output(text, Len(text))
      ELSE status' = "undefined" /\ UNCHANGED <<out, pc>>
  BY DEF PrintNumber
<1>4. ArgAt \in 1 .. Len(args) /\ x \in Int
  BY <1>1, <1>2, ArgumentIs
<1>5. Width \in Int
  BY <1>1, <1>2, WidthIs
<1>6. fmt' = fmt /\ args' = args /\ written' = written /\ ap' = ArgAt /\ i' = LetterAt + 1
  BY <1>2 DEF Converted
<1>7. Letter # NUL
  BY <1>2 DEF IsInteger, NUL
<1>8. i' \in 1 .. Len(fmt') + 1 /\ ap' \in 0 .. Len(args') /\ ConsumesAsked'
  <2>1. ap' \in {ArgAt, ArgAt - 1} /\ ap' <= Len(args)
    BY <1>4, <1>6
  <2>2. QED
    BY <1>1, <1>2, <1>6, <1>7, <2>1, GoesOn
<1>9. /\ u' \in 0 .. Pow[LongBits] - 1 /\ u' \in Int
      /\ u' % Pow[MemberBits] = x % Pow[MemberBits]
  <2> HIDE DEF x
  <2>1. u \in 0 .. Pow[LongBits] - 1
    BY <1>1 DEF PrintfTypeOK
  <2>2. u' \in 0 .. Pow[LongBits] - 1 /\ u' % Pow[MemberBits] = x % Pow[MemberBits]
    BY <1>2, <1>4, <2>1, MemberIsWritten
  <2>3. \A y \in 0 .. Pow[LongBits] - 1 : y \in Int
    OBVIOUS
  <2>4. QED
    BY <2>2, <2>3
<1>10. CASE fits
  <2>1. text \in Seq(Char) /\ NoReturnIn(text)
    BY <1>2, <1>5, <1>9, OutputIHasNoReturn
  <2> HIDE DEF text, fits
  <2>2. Len(text) \in 0 .. Len(text) /\ Counted(text, Len(text))
    BY <2>1 DEF Counted
  <2>3. Output(text, Len(text))
    BY <1>3, <1>10
  <2>4. /\ out' \in Seq(Char) /\ pc' \in 0 .. Len(out')
        /\ NoReturns' => pc' = CountOf(out')
        /\ status' \in {"running", "undefined"}
        /\ status' = "undefined" => Len(out') >= BufLen
    BY <1>1, <1>6, <2>1, <2>2, <2>3, OutputKeeps
  <2>5. PrintfTypeOK'
    BY <1>1, <1>6, <1>8, <1>9, <2>4 DEF PrintfTypeOK
  <2>6. CountMissesReturns'
    BY <2>4 DEF CountMissesReturns, CountOf
  <2>7. QED
    BY <1>8, <2>4, <2>5, <2>6 DEF PrintfInv, UndefinedHasCause
<1>11. CASE ~fits
  <2>1. status' = "undefined" /\ out' = out /\ pc' = pc
    BY <1>3, <1>11
  <2>2. PrintfTypeOK'
    <3> HIDE DEF fits
    <3>1. QED
      BY <1>1, <1>6, <1>8, <1>9, <2>1 DEF PrintfTypeOK
  <2>3. CountMissesReturns'
    BY <1>1, <1>6, <2>1 DEF CountMissesReturns, NoReturns
  <2>4. Letter = "b" /\ Length = <<>> /\ v < 0
    BY <1>2, <1>9, <1>11, PrintBufIs
  <2>5. Signed(x, IntBits) < 0
    <3>1. MemberBits = IntBits
      BY <2>4 DEF MemberBits
    <3>2. v = Signed(u', IntBits)
      BY <2>4, <3>1 DEF ReadMember
    <3> HIDE DEF x, v
    <3>3. Signed(u', IntBits) = Signed(x, IntBits)
      BY <1>4, <1>9, <3>1, WidthsOfTypes, SignedIs
    <3>4. QED
      BY <2>4, <3>2, <3>3
  <2>6. Contains(fmt, "b")
    <3>1. LetterAt \in 1 .. Len(fmt)
      <4>1. /\ i \in 1 .. Len(fmt) - 1 /\ LetterAt \in i + 1 .. Len(fmt) + 1
            /\ Len(fmt) \in Nat /\ LetterAt # Len(fmt) + 1
        BY <1>1, <1>2, <1>7, ConversionAsks DEF Conversion
      <4>2. QED
        BY <4>1
    <3>2. fmt[LetterAt] = "b"
      BY <2>4, <3>1 DEF Letter, At
    <3>3. QED
      BY <3>1, <3>2 DEF Contains
  <2>7. UndefinedHasCause'
    <3>1. Contains(fmt', "b") /\ \E a \in 1 .. Len(args') : Signed(args'[a].num, IntBits) < 0
      BY <1>4, <1>6, <2>5, <2>6
    <3>2. QED
      BY <3>1 DEF UndefinedHasCause, Signed
  <2>8. QED
    BY <1>8, <2>2, <2>3, <2>7 DEF PrintfInv
<1>12. QED
  BY <1>10, <1>11

LEMMA PrintTextKeeps == PrintfInv /\ PrintText => PrintfInv'
<1> SUFFICES ASSUME PrintfInv, PrintText PROVE PrintfInv'
  OBVIOUS
<1> DEFINE null == IsString /\ args[ArgAt].num = 0
           s == IF null THEN Null ELSE args[ArgAt].text
           text == Prints(s, Width, Flags)
<1>1. PrintfTypeOK /\ ConsumesAsked /\ CountMissesReturns
  BY DEF PrintfInv
<1>2. /\ Conversion /\ (IsChar \/ IsString) /\ Converted
      /\ u' = WriteMember(args[ArgAt].num) /\ Output(text, Len(text))
  BY DEF PrintText
<1>3. ArgAt \in 1 .. Len(args) /\ args[ArgAt].num \in Int /\ args[ArgAt].text \in Seq(Char)
  BY <1>1, <1>2, ArgumentIs
<1>4. Width \in Int
  BY <1>1, <1>2, WidthIs
<1>5. fmt' = fmt /\ args' = args /\ written' = written /\ ap' = ArgAt /\ i' = LetterAt + 1
  BY <1>2 DEF Converted
<1>6. Letter # NUL
  BY <1>2 DEF IsChar, IsString, NUL
<1>7. i' \in 1 .. Len(fmt') + 1 /\ ap' \in 0 .. Len(args') /\ ConsumesAsked'
  <2>1. ap' \in {ArgAt, ArgAt - 1} /\ ap' <= Len(args)
    BY <1>3, <1>5
  <2>2. QED
    BY <1>1, <1>2, <1>5, <1>6, <2>1, GoesOn
<1>8. u' \in 0 .. Pow[LongBits] - 1
  <2>1. u \in 0 .. Pow[LongBits] - 1
    BY <1>1 DEF PrintfTypeOK
  <2>2. QED
    BY <1>2, <1>3, <2>1, MemberIsWritten
<1>9. s \in Seq(Char) /\ (NoReturns => NoReturnIn(s))
  <2>1. NoReturns => NoReturnIn(args[ArgAt].text)
    BY <1>3 DEF NoReturns, NoReturnIn
  <2>2. Null \in Seq(Char) /\ NoReturnIn(Null)
    BY NullIs DEF NoReturnIn
  <2>3. QED
    BY <1>3, <2>1, <2>2
<1> HIDE DEF s
<1>10. text \in Seq(Char) /\ (NoReturns => NoReturnIn(text))
  BY <1>4, <1>9, PrintsIs, PrintsHasNoReturn
<1> HIDE DEF text
<1>11. Len(text) \in 0 .. Len(text) /\ (NoReturns => Counted(text, Len(text)))
  BY <1>10 DEF Counted
<1>12. /\ out' \in Seq(Char) /\ pc' \in 0 .. Len(out')
       /\ NoReturns' => pc' = CountOf(out')
       /\ status' \in {"running", "undefined"}
       /\ status' = "undefined" => Len(out') >= BufLen
  BY <1>1, <1>2, <1>5, <1>10, <1>11, OutputKeeps
<1>13. PrintfTypeOK'
  BY <1>1, <1>5, <1>7, <1>8, <1>12 DEF PrintfTypeOK
<1>14. CountMissesReturns'
  BY <1>12 DEF CountMissesReturns, CountOf
<1>15. QED
  BY <1>7, <1>12, <1>13, <1>14 DEF PrintfInv, UndefinedHasCause

LEMMA UnknownKeeps == PrintfInv /\ Unknown => PrintfInv'
<1> SUFFICES ASSUME PrintfInv, Unknown PROVE PrintfInv'
  OBVIOUS
<1>1. PrintfTypeOK /\ ConsumesAsked /\ CountMissesReturns /\ UndefinedHasCause
  BY DEF PrintfInv
<1>2. /\ Conversion /\ ~(IsInteger \/ IsChar \/ IsString) /\ Letter # NUL
      /\ ap' = ArgAt - 1 /\ i' = LetterAt + 1
      /\ UNCHANGED <<fmt, args, u, out, pc, written, status>>
  BY DEF Unknown
<1>3. ap' <= Len(args)
  BY <1>2 DEF Conversion, Given
<1>4. i' \in 1 .. Len(fmt') + 1 /\ ap' \in 0 .. Len(args') /\ ConsumesAsked'
  BY <1>1, <1>2, <1>3, GoesOn
<1>5. PrintfTypeOK'
  BY <1>1, <1>2, <1>4 DEF PrintfTypeOK
<1>6. CountMissesReturns' /\ UndefinedHasCause'
  BY <1>1, <1>2 DEF CountMissesReturns, UndefinedHasCause, NoReturns
<1>7. QED
  BY <1>4, <1>5, <1>6 DEF PrintfInv

LEMMA CutOffKeeps == PrintfInv /\ CutOff => PrintfInv'
<1> SUFFICES ASSUME PrintfInv, CutOff PROVE PrintfInv'
  OBVIOUS
<1>1. PrintfTypeOK /\ ConsumesAsked /\ CountMissesReturns
  BY DEF PrintfInv
<1>2. /\ Conversion /\ Letter = NUL /\ ap' = ArgAt - 1 /\ status' = "undefined"
      /\ UNCHANGED <<fmt, args, i, u, out, pc, written>>
  BY DEF CutOff
<1>3. /\ i \in 1 .. Len(fmt) - 1 /\ fmt[i] = "%" /\ Len(fmt) \in Nat
      /\ LetterAt = Len(fmt) + 1
      /\ \A q \in i + 1 .. LetterAt - 1 : fmt[q] \in Decimal \cup {"-", "*", "l", "h"}
      /\ ArgAt \in ap + 1 .. ap + 2
  BY <1>1, <1>2, ConversionAsks DEF Conversion
<1>4. ap' \in 0 .. Len(args')
  <2>1. ap \in Nat /\ Len(args) \in Nat
    BY <1>1 DEF PrintfTypeOK
  <2>2. ~(IsInteger \/ IsChar \/ IsString)
    BY <1>2 DEF IsInteger, IsChar, IsString, NUL
  <2>3. ArgAt - 1 <= Len(args)
    BY <1>2, <2>2 DEF Conversion, Given
  <2>4. QED
    BY <1>2, <1>3, <2>1, <2>3
<1>5. PrintfTypeOK'
  BY <1>1, <1>2, <1>4 DEF PrintfTypeOK
<1>6. CountMissesReturns'
  BY <1>1, <1>2 DEF CountMissesReturns, NoReturns
<1>7. UndefinedHasCause'
  <2>1. \E p \in 1 .. Len(fmt) - 1 :
          fmt[p] = "%" /\ \A q \in p + 1 .. Len(fmt) : fmt[q] \in Decimal \cup {"-", "*", "l", "h"}
    <3>1. LetterAt - 1 = Len(fmt)
      BY <1>3
    <3>2. QED
      BY <1>3, <3>1
  <2>2. QED
    BY <1>2, <2>1 DEF UndefinedHasCause
<1>8. QED
  BY <1>2, <1>5, <1>6, <1>7 DEF PrintfInv, ConsumesAsked, Running

LEMMA MissingArgumentKeeps == PrintfInv /\ MissingArgument => PrintfInv'
<1> SUFFICES ASSUME PrintfInv, MissingArgument PROVE PrintfInv'
  OBVIOUS
<1>1. PrintfTypeOK /\ ConsumesAsked /\ CountMissesReturns
  BY DEF PrintfInv
<1>2. /\ AtConversion /\ ~Given /\ status' = "undefined"
      /\ UNCHANGED <<fmt, args, i, ap, u, out, pc, written>>
  BY DEF MissingArgument
<1>3. /\ i \in 1 .. Len(fmt) - 1 /\ Len(fmt) \in Nat
      /\ LetterAt \in i + 1 .. Len(fmt) + 1
      /\ Letter = NUL <=> LetterAt = Len(fmt) + 1
      /\ ArgAt \in ap + 1 .. ap + 2
      /\ ap + 1 <= Asked(i) /\ ArgAt <= Asked(LetterAt - 1)
  BY <1>1, <1>2, ConversionAsks
<1>4. ap \in Nat /\ Len(args) \in Nat /\ ap <= Len(args)
  BY <1>1 DEF PrintfTypeOK
<1>5. Len(args) < Asked(Len(fmt) - 1)
  <2>1. CASE IsInteger \/ IsChar \/ IsString
    <3>1. Letter # NUL
      BY <2>1 DEF IsInteger, IsChar, IsString, NUL
    <3>2. LetterAt - 1 \in Nat /\ Len(fmt) - 1 \in Nat /\ LetterAt - 1 <= Len(fmt) - 1
      BY <1>3, <3>1
    <3>3. Asked(LetterAt - 1) \in Nat /\ Asked(LetterAt - 1) <= Asked(Len(fmt) - 1)
      BY <3>2, AskedIs
    <3>4. Asked(Len(fmt) - 1) \in Nat
      <4>1. Len(fmt) - 1 <= Len(fmt) - 1
        BY <3>2
      <4>2. QED
        BY <3>2, <4>1, AskedIs
    <3>5. ~(ArgAt <= Len(args))
      BY <1>2, <2>1 DEF Given
    <3>6. QED
      BY <1>3, <1>4, <3>3, <3>4, <3>5
  <2>2. CASE ~(IsInteger \/ IsChar \/ IsString)
    <3>1. ~(ArgAt - 1 <= Len(args))
      BY <1>2, <2>2 DEF Given
    <3>2. i \in Nat /\ Len(fmt) - 1 \in Nat /\ i <= Len(fmt) - 1
      BY <1>3
    <3>3. Asked(i) \in Nat /\ Asked(i) <= Asked(Len(fmt) - 1)
      BY <3>2, AskedIs
    <3>4. Asked(Len(fmt) - 1) \in Nat
      <4>1. Len(fmt) - 1 <= Len(fmt) - 1
        BY <3>2
      <4>2. QED
        BY <3>2, <4>1, AskedIs
    <3>5. ArgAt - 1 <= ap + 1
      BY <1>3, <1>4
    <3>6. QED
      BY <1>3, <1>4, <3>1, <3>3, <3>4, <3>5
  <2>3. QED
    BY <2>1, <2>2
<1>6. PrintfTypeOK' /\ CountMissesReturns'
  BY <1>1, <1>2 DEF PrintfTypeOK, CountMissesReturns, NoReturns
<1>7. UndefinedHasCause'
  BY <1>2, <1>5 DEF UndefinedHasCause, Asked
<1>8. QED
  BY <1>2, <1>6, <1>7 DEF PrintfInv, ConsumesAsked, Running

LEMMA WriteKeeps == PrintfInv /\ Write => PrintfInv'
<1> SUFFICES ASSUME PrintfInv, Write PROVE PrintfInv'
  OBVIOUS
<1>1. PrintfTypeOK /\ ConsumesAsked /\ CountMissesReturns
  BY DEF PrintfInv
<1>2. /\ IF Len(out) < BufLen THEN written' = SubSeq(out, 1, pc) /\ status' = "written"
         ELSE status' = "undefined" /\ UNCHANGED written
      /\ UNCHANGED <<fmt, args, i, ap, u, out, pc>>
  BY DEF Write
<1>3. out \in Seq(Char) /\ pc \in 0 .. Len(out) /\ Len(out) \in Nat /\ BufLen \in Nat
  BY <1>1, PrintfAssumption DEF PrintfTypeOK
<1>4. /\ SubSeq(out, 1, pc) \in Seq(Char) /\ Len(SubSeq(out, 1, pc)) = pc
      /\ \A p \in 1 .. pc : SubSeq(out, 1, pc)[p] = out[p]
  <2>1. \A p \in 1 .. pc : out[p] \in Char
    BY <1>3, ElementOfSeq
  <2>2. 1 \in Int /\ pc \in Int
    BY <1>3
  <2>3. /\ SubSeq(out, 1, pc) \in Seq(Char)
        /\ Len(SubSeq(out, 1, pc)) = IF 1 <= pc THEN pc - 1 + 1 ELSE 0
        /\ \A p \in 1 .. pc - 1 + 1 : SubSeq(out, 1, pc)[p] = out[1 + p - 1]
    BY <2>1, <2>2, SubSeqProperties
  <2>4. pc - 1 + 1 = pc /\ \A p \in 1 .. pc : 1 + p - 1 = p
    BY <1>3
  <2>5. QED
    BY <1>3, <2>3, <2>4
<1>5. PrintfTypeOK'
  BY <1>1, <1>2, <1>4 DEF PrintfTypeOK
<1>6. CountMissesReturns'
  <2>1. NoReturns' => pc' = Cardinality({p \in 1 .. Len(out') : out'[p] # CR})
    BY <1>1, <1>2 DEF CountMissesReturns, NoReturns
  <2>2. ASSUME status' = "written"
        PROVE  IsPrefix(written', out') /\ Len(written') = pc'
    <3>1. written' = SubSeq(out, 1, pc)
      BY <1>2, <2>2
    <3>2. Len(written') = pc /\ written' \in Seq(Char)
      BY <1>4, <3>1
    <3>3. SubSeq(written', 1, Len(written')) = written'
      BY <3>2, SubSeqFull
    <3>4. QED
      BY <1>2, <1>3, <3>1, <3>2, <3>3 DEF IsPrefix
  <2>3. QED
    BY <2>1, <2>2 DEF CountMissesReturns
<1>7. UndefinedHasCause'
  <2>1. status' = "undefined" => Len(out') >= BufLen
    BY <1>2, <1>3
  <2>2. QED
    BY <2>1 DEF UndefinedHasCause
<1>8. QED
  BY <1>2, <1>5, <1>6, <1>7 DEF PrintfInv, ConsumesAsked, Running

LEMMA NextKeeps == PrintfInv /\ [Next]_vars => PrintfInv'
<1> SUFFICES ASSUME PrintfInv, [Next]_vars PROVE PrintfInv'
  OBVIOUS
<1>1. CASE Next
  BY <1>1, LiteralKeeps, PercentKeeps, LonePercentKeeps, PrintNumberKeeps, PrintTextKeeps,
     UnknownKeeps, CutOffKeeps, MissingArgumentKeeps, WriteKeeps DEF Next
<1>2. CASE UNCHANGED vars
  BY <1>2 DEF vars, PrintfInv, PrintfTypeOK, ConsumesAsked, Running, Asked, CountMissesReturns, NoReturns,
              UndefinedHasCause
<1>3. QED
  BY <1>1, <1>2

THEOREM PrintfInvariant == Spec => []PrintfInv
BY InitIsGood, NextKeeps, PTL DEF Spec

\* The count falls behind the buffer by the carriage returns only, and what is
\* written is the beginning of the text, as long as the count (mylibc.c:504-526).
THEOREM CountIsInStep == Spec => []CountMissesReturns
<1>1. PrintfInv => CountMissesReturns
  BY DEF PrintfInv
<1>2. QED
  BY <1>1, PrintfInvariant, PTL

\* Nothing but the four causes makes the behaviour of a call undefined, whatever
\* its format and its arguments (mylibc.c:152-176, 213-231, 518).
THEOREM OnlyCausesUndefined == Spec => []UndefinedHasCause
<1>1. PrintfInv => UndefinedHasCause
  BY DEF PrintfInv
<1>2. QED
  BY <1>1, PrintfInvariant, PTL

-----------------------------------------------------------------------------
(***************************************************************************)
(* Fields of numbers are padded, and read back                             *)
(***************************************************************************)

\* Only the number 0 begins with the digit 0.
LEMMA FirstDigit ==
  ASSUME NEW number \in Nat, NEW base \in 2 .. 16, NEW s, Numeral(s, number, base), s[1] = "0"
  PROVE  number = 0 /\ Len(s) = 1
<1> DEFINE left == Left(number, base)
           len  == Len(s)
<1>1. /\ left \in [Nat -> Nat] /\ left[0] = number
      /\ \A n \in Nat : left[n + 1] = left[n] \div base
      /\ base \in Nat \ {0}
  <2>1. base \in Nat \ {0}
    OBVIOUS
  <2>2. QED
    BY <2>1, LeftIs
<1>2. /\ len \in Nat /\ len >= 1 /\ left[len] = 0
      /\ \A m \in 1 .. len - 1 : left[m] # 0
  BY WidthsOfTypes DEF Numeral, Digits
<1>3. \E k \in 1 .. 16 : s[1] \in {Digit[k], UpperDigit[k]} /\ k = (left[len - 1] % base) + 1
  <2>1. 1 \in 1 .. len
    BY <1>2
  <2>2. QED
    BY <2>1 DEF Numeral
<1> HIDE DEF left, len
<1>4. left[len - 1] % base = 0
  <2>1. left[len - 1] % base \in Int
    <3>1. left[len - 1] \in Nat
      BY <1>1, <1>2
    <3>2. QED
      BY <1>1, <3>1
  <2>2. 1 = (left[len - 1] % base) + 1
    BY <1>3, DigitsAreDistinct
  <2>3. QED
    BY <2>1, <2>2
<1>5. len - 1 \in Nat /\ (len - 1) + 1 = len
  BY <1>2
<1>6. left[len - 1] = 0
  <2> DEFINE x == left[len - 1]
  <2>1. x \in Nat /\ x \div base = 0
    BY <1>1, <1>2, <1>5
  <2>2. x % base = 0
    BY <1>4
  <2> HIDE DEF x
  <2>3. x = (x \div base) * base + (x % base)
    BY <1>1, <2>1, DivIs
  <2>4. x = 0 * base + 0
    BY <2>1, <2>2, <2>3
  <2>5. QED
    BY <1>1, <2>4 DEF x
<1>7. len = 1
  <2>1. len # 1 => len - 1 \in 1 .. len - 1
    BY <1>2
  <2>2. QED
    BY <1>2, <1>6, <2>1
<1>8. QED
  BY <1>1, <1>6, <1>7 DEF len

LEMMA FlagsAre == Flags \subseteq {"PAD_RIGHT", "PAD_ZERO"}
BY DEF Flags

\* What a step of PrintNumber has added.
LEMMA FieldIs ==
  ASSUME PrintfInv, PrintNumber, status' = "running"
  PROVE  /\ Field = OutputI(ReadMember(u'), Letter, Width, Flags)
         /\ Field \in Seq(Char) /\ u' \in 0 .. Pow[LongBits] - 1 /\ u' \in Int
         /\ Width \in Int /\ IsInteger
         /\ args[ArgAt].num \in 0 .. Pow[LongBits] - 1 /\ args[ArgAt].num \in Int
         /\ u' % Pow[MemberBits] = args[ArgAt].num % Pow[MemberBits]
<1> DEFINE text == OutputI(ReadMember(u'), Letter, Width, Flags)
<1>1. PrintfTypeOK /\ ConsumesAsked /\ Conversion /\ IsInteger /\ u' = WriteMember(args[ArgAt].num)
  BY DEF PrintfInv, PrintNumber
<1>2. /\ args[ArgAt].num \in 0 .. Pow[LongBits] - 1 /\ args[ArgAt].num \in Int
      /\ Width \in Int
  BY <1>1, ArgumentIs, WidthIs
<1>3. /\ u' \in 0 .. Pow[LongBits] - 1
      /\ u' % Pow[MemberBits] = args[ArgAt].num % Pow[MemberBits]
  <2>1. u \in 0 .. Pow[LongBits] - 1
    BY <1>1 DEF PrintfTypeOK
  <2>2. QED
    BY <1>1, <1>2, <2>1, MemberIsWritten
<1>4. u' \in Int
  <2>1. \A y \in 0 .. Pow[LongBits] - 1 : y \in Int
    OBVIOUS
  <2>2. QED
    BY <1>3, <2>1
<1>5. text \in Seq(Char)
  BY <1>1, <1>2, <1>4, OutputIHasNoReturn
<1>6. out' = out \o text
  BY DEF PrintNumber, Output
<1>7. Field = text
  <2> HIDE DEF text
  <2>1. out \in Seq(Char)
    BY <1>1 DEF PrintfTypeOK
  <2>2. /\ out' \in Seq(Char) /\ Len(out') = Len(out) + Len(text)
        /\ \A p \in 1 .. Len(out) + Len(text) : out'[p] = IF p <= Len(out) THEN out[p] ELSE text[p - Len(out)]
    BY <1>5, <1>6, <2>1, ConcatProperties
  <2>3. Len(out) \in Nat /\ Len(text) \in Nat
    BY <1>5, <2>1
  <2> DEFINE m == Len(out) + 1
             n == Len(out')
  <2>4. m \in Int /\ n \in Int /\ \A p \in m .. n : out'[p] \in Char
    <3>1. m \in Int /\ n \in Int /\ \A p \in m .. n : p \in 1 .. Len(out')
      BY <2>2, <2>3
    <3>2. QED
      BY <2>2, <3>1, ElementOfSeq
  <2>5. /\ SubSeq(out', m, n) \in Seq(Char)
        /\ Len(SubSeq(out', m, n)) = IF m <= n THEN n - m + 1 ELSE 0
        /\ \A p \in 1 .. n - m + 1 : SubSeq(out', m, n)[p] = out'[m + p - 1]
    <3> HIDE DEF m, n
    <3>1. QED
      BY <2>4, SubSeqProperties
  <2>6. n - m + 1 = Len(text) /\ (IF m <= n THEN n - m + 1 ELSE 0) = Len(text)
    BY <2>2, <2>3
  <2>7. \A p \in 1 .. Len(text) : out'[m + p - 1] = text[p]
    <3>1. \A p \in 1 .. Len(text) : /\ m + p - 1 \in 1 .. Len(out) + Len(text) /\ ~(m + p - 1 <= Len(out))
                                    /\ (m + p - 1) - Len(out) = p
      BY <2>3
    <3>2. QED
      BY <2>2, <3>1
  <2> HIDE DEF m, n
  <2>8. \A p \in 1 .. Len(text) : SubSeq(out', m, n)[p] = text[p]
    BY <2>5, <2>6, <2>7
  <2>9. SubSeq(out', m, n) = text
    <3>1. Len(SubSeq(out', m, n)) = Len(text)
      BY <2>5, <2>6
    <3>2. QED
      BY <1>5, <2>5, <2>8, <3>1, SeqEqual
  <2>10. QED
    BY <2>9 DEF Field, m, n
<1>8. QED
  BY <1>1, <1>2, <1>3, <1>4, <1>5, <1>7

LEMMA PrintNumberPads ==
  ASSUME PrintfInv, PrintNumber, status' = "running"
  PROVE  LET blanks == {p \in 1 .. Len(Field) : Field[p] = Blank}
             signs  == {p \in 1 .. Len(Field) : Field[p] = "-"}
             zero   == \E p \in 1 .. Len(Field) :
                         Field[p] = "0" /\ \A q \in 1 .. p - 1 : Field[q] \in {Blank, "-"}
         IN  /\ Len(Field) >= Width
             /\ Len(Field) > Width => blanks = {} /\ (zero => Field = <<"0">>)
             /\ blanks = IF "PAD_RIGHT" \in Flags THEN Len(Field) - Cardinality(blanks) + 1 .. Len(Field)
                         ELSE 1 .. Cardinality(blanks)
             /\ \A r \in signs : 1 .. r - 1 \subseteq blanks
<1> DEFINE v == ReadMember(u')
           s == PrintBuf(v, Letter)
           number == Magnitude(v)
           base == BaseOf(Letter)
           f == Field
           blanks == {p \in 1 .. Len(f) : f[p] = Blank}
           signs  == {p \in 1 .. Len(f) : f[p] = "-"}
           zero   == \E p \in 1 .. Len(f) : f[p] = "0" /\ \A q \in 1 .. p - 1 : f[q] \in {Blank, "-"}
<1>1. /\ f = OutputI(v, Letter, Width, Flags) /\ u' \in Int /\ Width \in Int /\ IsInteger
      /\ f \in Seq(Char)
  BY FieldIs
<1>2. /\ Numeral(s, number, base)
      /\ \E g : g = (IF Negative(v, Letter) THEN 1 ELSE 0)
           /\ \E a, z, t \in Nat : \E c :
                Shaped(f, a, g, z, s, t, c) /\ Filled(Len(f), Width, Flags, a, z, t, c)
  BY <1>1, FieldIsShaped
<1>3. base \in 2 .. 16 /\ number \in Nat /\ (Negative(v, Letter) => number # 0)
  <2>1. base \in 2 .. 16
    BY <1>1, PrintBufIs
  <2>2. /\ v \in -Pow[LongBits - 1] .. Pow[LongBits - 1] - 1
        /\ number \in 0 .. Pow[LongBits] - 1
    BY <1>1, MagnitudeIs
  <2> HIDE DEF v, number, base
  <2>3. /\ \A a : \A b : \A y \in a .. b : y \in Int
        /\ \A b : \A y \in 0 .. b : y \in Nat
    OBVIOUS
  <2>4. v \in Int /\ number \in Nat
    BY <2>2, <2>3
  <2>5. Negative(v, Letter) => number = -v /\ v < 0
    BY DEF Negative, Magnitude, number
  <2>6. QED
    BY <2>1, <2>4, <2>5
<1> HIDE DEF v, s, number, base, f
<1>4. PICK g : /\ g = (IF Negative(v, Letter) THEN 1 ELSE 0)
               /\ \E a, z, t \in Nat : \E c :
                    Shaped(f, a, g, z, s, t, c) /\ Filled(Len(f), Width, Flags, a, z, t, c)
  BY <1>2
<1>5. PICK a \in Nat, z \in Nat, t \in Nat :
        \E c : Shaped(f, a, g, z, s, t, c) /\ Filled(Len(f), Width, Flags, a, z, t, c)
  BY <1>4
<1>6. PICK c : Shaped(f, a, g, z, s, t, c) /\ Filled(Len(f), Width, Flags, a, z, t, c)
  BY <1>5
<1>7. g \in {0, 1} /\ g \in Nat /\ (g = 1 => number # 0)
  BY <1>3, <1>4
<1>8. s \in Seq(Char) /\ Len(s) \in Nat /\ Len(s) >= 1 /\ \A p \in 1 .. Len(s) : s[p] \notin {Blank, "-"}
  <2>1. s \in Seq(Char) /\ Len(s) \in 1 .. LongBits
    BY <1>2 DEF Numeral, Digits
  <2>2. QED
    BY <1>2, <2>1, NumeralChars
<1> DEFINE e == a + g + z
<1>9. \A p \in 1 .. Len(f) :
        \/ p \in 1 .. a /\ f[p] = Blank
        \/ p \in a + 1 .. a + g /\ f[p] = "-"
        \/ p \in a + g + 1 .. a + g + z /\ f[p] = "0"
        \/ p \in e + 1 .. e + Len(s) /\ p - e \in 1 .. Len(s) /\ f[p] = s[p - e]
        \/ p \in e + Len(s) + 1 .. e + Len(s) + t /\ f[p] = c
  <2> TAKE p \in 1 .. Len(f)
  <2>1. Shaped(f, a, g, z, s, t, c) /\ g \in Nat /\ s \in Seq(Char)
    BY <1>6, <1>7, <1>8
  <2>2. QED
    <3>1. InPart(p, f, a, g, z, s, t, c)
      BY <2>1, ShapedParts
    <3>2. QED
      BY <3>1 DEF InPart
<1>10. Len(f) = e + Len(s) + t /\ e \in Nat /\ Len(f) \in Nat
  <2>1. Len(f) = a + g + z + Len(s) + t
    BY <1>6 DEF Shaped
  <2>2. QED
    BY <1>7, <1>8, <2>1
<1>11. Blank # "-" /\ Blank # "0" /\ "-" # "0"
  BY CharsDiffer
<1>12. Len(f) >= Width
  BY <1>6 DEF Filled
<1>13. blanks = IF "PAD_RIGHT" \in Flags THEN Len(f) - Cardinality(blanks) + 1 .. Len(f)
                ELSE 1 .. Cardinality(blanks)
  <2>1. CASE "PAD_ZERO" \in Flags
    <3>1. a = 0 /\ c = "0"
      BY <1>6, <2>1 DEF Filled
    <3>2. blanks = {}
      <4> SUFFICES ASSUME NEW p \in 1 .. Len(f), f[p] = Blank PROVE FALSE
        OBVIOUS
      <4>1. p \notin 1 .. a
        BY <3>1
      <4>2. QED
        BY <1>8, <1>9, <1>11, <3>1, <4>1
    <3>3. Cardinality(blanks) = 0
      BY <3>2, FS_EmptySet
    <3> HIDE DEF blanks
    <3>4. QED
      BY <1>10, <3>2, <3>3
  <2>2. CASE "PAD_ZERO" \notin Flags /\ "PAD_RIGHT" \in Flags
    <3>1. a = 0 /\ z = 0 /\ c = Blank
      BY <1>6, <2>2 DEF Filled
    <3> DEFINE b == Len(f) - t + 1
    <3>2. blanks = b .. Len(f)
      <4>1. ASSUME NEW p \in 1 .. Len(f), f[p] = Blank
            PROVE  p \in b .. Len(f)
        <5>1. p \in e + Len(s) + 1 .. e + Len(s) + t
          <6>1. p \notin 1 .. a
            BY <3>1
          <6>2. QED
            BY <1>8, <1>9, <1>11, <4>1, <6>1
        <5> HIDE DEF e
        <5>2. QED
          BY <1>8, <1>10, <5>1
      <4>2. ASSUME NEW p \in b .. Len(f)
            PROVE  p \in 1 .. Len(f) /\ f[p] = Blank
        <5> HIDE DEF e
        <5>1. p \in e + Len(s) + 1 .. e + Len(s) + t /\ p \in 1 .. Len(f)
          BY <1>8, <1>10
        <5>2. f[p] = c
          BY <1>6, <5>1 DEF Shaped, e
        <5>3. QED
          BY <3>1, <5>1, <5>2
      <4> HIDE DEF b
      <4>3. QED
        BY <4>1, <4>2
    <3>3. Cardinality(b .. Len(f)) = IF b > Len(f) THEN 0 ELSE Len(f) - b + 1
      <4>1. b \in Int /\ Len(f) \in Int
        BY <1>10
      <4> HIDE DEF b
      <4>2. QED
        BY <4>1, FS_Interval
    <3>4. Cardinality(b .. Len(f)) = t
      <4>1. (IF b > Len(f) THEN 0 ELSE Len(f) - b + 1) = t
        BY <1>10
      <4> HIDE DEF b
      <4>2. QED
        BY <3>3, <4>1
    <3> HIDE DEF blanks, b
    <3>5. Cardinality(blanks) = t
      BY <3>2, <3>4
    <3>6. blanks = Len(f) - Cardinality(blanks) + 1 .. Len(f)
      BY <3>2, <3>5 DEF b
    <3>7. QED
      BY <2>2, <3>6
  <2>3. CASE "PAD_ZERO" \notin Flags /\ "PAD_RIGHT" \notin Flags
    <3>1. t = 0 /\ z = 0 /\ c = Blank
      BY <1>6, <2>3 DEF Filled
    <3>2. blanks = 1 .. a
      <4>1. ASSUME NEW p \in 1 .. Len(f), f[p] = Blank
            PROVE  p \in 1 .. a
        <5>1. p \notin e + Len(s) + 1 .. e + Len(s) + t
          <6> HIDE DEF e
          <6>1. QED
            BY <1>8, <1>10, <3>1
        <5>2. QED
          BY <1>8, <1>9, <1>11, <4>1, <5>1
      <4>2. ASSUME NEW p \in 1 .. a
            PROVE  p \in 1 .. Len(f) /\ f[p] = Blank
        <5>1. f[p] = Blank
          BY <1>6 DEF Shaped
        <5>2. p \in 1 .. Len(f)
          BY <1>7, <1>8, <1>10
        <5>3. QED
          BY <5>1, <5>2
      <4>3. QED
        BY <4>1, <4>2
    <3>3. Cardinality(1 .. a) = a
      <4>1. 1 \in Int /\ a \in Int
        OBVIOUS
      <4>2. Cardinality(1 .. a) = IF 1 > a THEN 0 ELSE a - 1 + 1
        BY <4>1, FS_Interval
      <4>3. QED
        BY <4>2
    <3> HIDE DEF blanks
    <3>4. QED
      BY <2>3, <3>2, <3>3
  <2>4. QED
    BY <2>1, <2>2, <2>3
<1>14. ASSUME Len(f) > Width
       PROVE  blanks = {} /\ (zero => f = <<"0">>)
  <2>1. a = 0 /\ z = 0 /\ t = 0
    <3>1. ~(a + z + t # 0)
      BY <1>6, <1>10, <1>14, <1>1 DEF Filled
    <3>2. QED
      BY <3>1
  <2>2. \A p \in 1 .. Len(f) :
          (p = 1 /\ g = 1 /\ f[p] = "-") \/ (p - g \in 1 .. Len(s) /\ f[p] = s[p - g])
    <3>1. e = g
      BY <1>7, <2>1
    <3>2. \A p \in 1 .. Len(f) :
            /\ p \notin 1 .. a /\ p \notin a + g + 1 .. a + g + z
            /\ p \notin e + Len(s) + 1 .. e + Len(s) + t
            /\ p \in a + 1 .. a + g => p = 1 /\ g = 1
      BY <1>7, <1>8, <2>1
    <3> HIDE DEF e
    <3>3. QED
      BY <1>9, <3>1, <3>2
  <2>3. blanks = {}
    BY <1>8, <1>11, <2>2
  <2>4. ASSUME zero
        PROVE  f = <<"0">>
    <3>1. PICK p \in 1 .. Len(f) : f[p] = "0" /\ \A q \in 1 .. p - 1 : f[q] \in {Blank, "-"}
      BY <2>4
    <3>2. p - g \in 1 .. Len(s) /\ f[p] = s[p - g]
      BY <1>11, <2>2, <3>1
    <3>3. p - g = 1
      <4>1. p - 1 \in 1 .. p - 1 \/ p = 1
        BY <1>10, <3>1
      <4>2. p = 1 => p - g = 1
        BY <1>7, <3>2
      <4>3. ASSUME p # 1
            PROVE  p - g = 1
        <5>1. p - 1 \in 1 .. Len(f) /\ f[p - 1] \in {Blank, "-"}
          BY <1>10, <3>1, <4>1, <4>3
        <5>2. p - 1 = 1 /\ g = 1
          BY <1>8, <2>2, <5>1
        <5>3. QED
          BY <1>10, <5>2
      <4>4. QED
        BY <4>2, <4>3
    <3>4. number = 0 /\ Len(s) = 1
      BY <1>2, <1>3, <3>1, <3>2, <3>3, FirstDigit
    <3>5. g = 0
      BY <1>7, <3>4
    <3>6. Len(f) = 1 /\ f[1] = "0"
      BY <1>7, <1>10, <2>1, <3>1, <3>3, <3>4, <3>5
    <3>7. f \in Seq(Char)
      BY <1>6 DEF Shaped
    <3>8. QED
      BY <3>6, <3>7
  <2>5. QED
    BY <2>3, <2>4
<1>15. \A r \in signs : 1 .. r - 1 \subseteq blanks
  <2> SUFFICES ASSUME NEW r \in 1 .. Len(f), f[r] = "-", NEW q \in 1 .. r - 1
               PROVE  q \in 1 .. Len(f) /\ f[q] = Blank
    OBVIOUS
  <2>1. c # "-"
    BY <1>6, <1>11 DEF Filled
  <2>2. r \in a + 1 .. a + g
    BY <1>8, <1>9, <1>11, <2>1
  <2>3. q \in 1 .. a /\ q \in 1 .. Len(f)
    BY <1>7, <1>10, <2>2
  <2>4. QED
    BY <1>6, <2>3 DEF Shaped
<1>16. QED
  BY <1>12, <1>13, <1>14, <1>15 DEF f

\* A number is as wide as it was asked to be, padded on one side only and no more
\* than that, with its sign before all digits (mylibc.c:115-147, 179-189).
THEOREM FieldsArePadded == Spec => FieldIsPadded
<1>1. ASSUME PrintfInv
      PROVE  (PrintNumber /\ status' = "running") =>
        LET blanks == {p \in 1 .. Len(Field) : Field[p] = Blank}
            signs  == {p \in 1 .. Len(Field) : Field[p] = "-"}
            zero   == \E p \in 1 .. Len(Field) :
                        Field[p] = "0" /\ \A q \in 1 .. p - 1 : Field[q] \in {Blank, "-"}
        IN  /\ Len(Field) >= Width
            /\ Len(Field) > Width => blanks = {} /\ (zero => Field = <<"0">>)
            /\ blanks = IF "PAD_RIGHT" \in Flags THEN Len(Field) - Cardinality(blanks) + 1 .. Len(Field)
                        ELSE 1 .. Cardinality(blanks)
            /\ \A s \in signs : 1 .. s - 1 \subseteq blanks
  BY <1>1, PrintNumberPads
<1>2. QED
  BY <1>1, PrintfInvariant, PTL DEF FieldIsPadded

\* A field is read as the number whose digits it has.
LEMMA FieldIsRead ==
  ASSUME NEW f, NEW s \in Seq(Char), NEW a \in Nat, NEW g \in Nat, NEW z \in Nat, NEW t \in Nat,
         NEW c, Shaped(f, a, g, z, s, t, c), t # 0 => c = Blank,
         NEW number \in Nat, NEW base \in 2 .. 16, Numeral(s, number, base)
  PROVE  NumberOf(f, base) = number
<1> DEFINE e == a + g + z
           len == Len(s)
           left == Left(number, base)
<1>1. e \in Nat /\ len \in Nat /\ base \in Nat \ {0} /\ base \in Nat
  OBVIOUS
<1>2. /\ left \in [Nat -> Nat] /\ left[0] = number
      /\ \A n \in Nat : left[n + 1] = left[n] \div base
  BY <1>1, LeftIs
<1>3. /\ left[len] = 0
      /\ \A p \in 1 .. len : \E k \in 1 .. 16 :
           s[p] \in {Digit[k], UpperDigit[k]} /\ k = (left[len - p] % base) + 1
  BY DEF Numeral, Digits
<1>4. Len(f) = e + len + t /\ Len(f) \in Nat
  <2>1. Len(f) = a + g + z + Len(s) + t
    BY DEF Shaped
  <2>2. QED
    BY <1>1, <2>1
<1> HIDE DEF len, left
<1>5. PICK value : Reads(value, f, base) /\ NumberOf(f, base) = value[Len(f)]
  BY <1>1, <1>4, NumberIsRead
<1>6. /\ value \in [0 .. Len(f) -> Nat] /\ value[0] = 0
      /\ \A n \in 1 .. Len(f) :
           value[n] = IF IsDigit(f[n]) THEN base * value[n - 1] + DigitValue(f[n]) ELSE value[n - 1]
  BY <1>5 DEF Reads
<1>7. ASSUME NEW n \in Nat, n + 1 <= Len(f)
      PROVE  /\ n \in 0 .. Len(f) /\ n + 1 \in 1 .. Len(f) /\ value[n] \in Nat
             /\ value[n + 1] = IF IsDigit(f[n + 1]) THEN base * value[n] + DigitValue(f[n + 1])
                               ELSE value[n]
  <2>1. n \in 0 .. Len(f) /\ n + 1 \in 1 .. Len(f) /\ (n + 1) - 1 = n
    BY <1>4, <1>7
  <2>2. value[n + 1] = IF IsDigit(f[n + 1]) THEN base * value[(n + 1) - 1] + DigitValue(f[n + 1])
                       ELSE value[(n + 1) - 1]
    BY <1>6, <2>1
  <2>3. value[n] \in Nat
    BY <1>6, <2>1
  <2>4. QED
    BY <2>1, <2>2, <2>3
<1>8. ~IsDigit(Blank) /\ ~IsDigit("-") /\ IsDigit("0") /\ DigitValue("0") = 0
  <2>1. 1 \in 1 .. 16 /\ "0" \in {Digit[1], UpperDigit[1]} /\ 1 - 1 = 0
    BY DEF Digit
  <2>2. IsDigit("0") /\ DigitValue("0") = 1 - 1
    BY <2>1, DigitsAreDistinct
  <2>3. QED
    BY <2>1, <2>2, OthersAreNoDigits
<1>9. value[e] = 0
  <2> DEFINE S == {n \in Nat : n <= e => value[n] = 0}
  <2>1. 0 \in S
    BY <1>6
  <2>2. ASSUME NEW n \in Nat, n \in S
        PROVE  n + 1 \in S
    <3> SUFFICES ASSUME n + 1 <= e PROVE value[n + 1] = 0
      OBVIOUS
    <3>1. n + 1 <= Len(f) /\ value[n] = 0
      <4> HIDE DEF e
      <4>1. QED
        BY <1>1, <1>4, <2>2
    <3>2. f[n + 1] \in {Blank, "-", "0"}
      <4>1. n + 1 \in 1 .. a \/ n + 1 \in a + 1 .. a + g \/ n + 1 \in a + g + 1 .. a + g + z
        OBVIOUS
      <4>2. QED
        BY <4>1 DEF Shaped
    <3>3. value[n + 1] = IF IsDigit(f[n + 1]) THEN base * 0 + DigitValue(f[n + 1]) ELSE 0
      BY <1>7, <3>1
    <3>4. base * 0 + 0 = 0
      BY <1>1
    <3>5. QED
      BY <1>8, <3>2, <3>3, <3>4
  <2>3. Nat \subseteq S
    <3> HIDE DEF S
    <3>1. QED
      BY <2>1, <2>2, Induction
  <2>4. e <= e
    BY <1>1
  <2>5. QED
    BY <1>1, <2>3, <2>4
<1> HIDE DEF e
<1>10. value[e + len] = number
  <2> DEFINE S == {n \in Nat : n <= len => value[e + n] = left[len - n]}
  <2>1. 0 \in S
    <3>1. e + 0 = e /\ len - 0 = len
      BY <1>1
    <3>2. QED
      BY <1>3, <1>9, <3>1
  <2>2. ASSUME NEW n \in Nat, n \in S
        PROVE  n + 1 \in S
    <3> SUFFICES ASSUME n + 1 <= len PROVE value[e + (n + 1)] = left[len - (n + 1)]
      OBVIOUS
    <3> DEFINE m == len - (n + 1)
               x == left[m]
    <3>1. /\ m \in Nat /\ m + 1 = len - n /\ n + 1 \in 1 .. len
          /\ e + n \in Nat /\ (e + n) + 1 = e + (n + 1) /\ (e + n) + 1 <= Len(f) /\ n <= len
      BY <1>1, <1>4
    <3>2. value[e + n] = left[m + 1] /\ left[m + 1] = x \div base /\ x \in Nat
      BY <1>2, <2>2, <3>1
    <3>3. f[(e + n) + 1] = s[n + 1]
      <4>1. f[e + (n + 1)] = s[n + 1]
        BY <3>1 DEF Shaped, e, len
      <4>2. QED
        BY <3>1, <4>1
    <3>4. IsDigit(s[n + 1]) /\ DigitValue(s[n + 1]) = x % base
      <4>1. PICK k \in 1 .. 16 : s[n + 1] \in {Digit[k], UpperDigit[k]} /\ k = (x % base) + 1
        BY <1>3, <3>1
      <4>2. IsDigit(s[n + 1]) /\ DigitValue(s[n + 1]) = k - 1
        BY <4>1, DigitsAreDistinct
      <4> HIDE DEF x
      <4>3. x % base \in Int
        BY <1>1, <3>2
      <4>4. k - 1 = x % base
        BY <4>1, <4>3
      <4>5. QED
        BY <4>2, <4>4
    <3> HIDE DEF m, x
    <3>5. value[(e + n) + 1] = base * value[e + n] + (x % base)
      BY <1>7, <3>1, <3>3, <3>4
    <3>6. x = (x \div base) * base + (x % base) /\ x \div base \in Int /\ x % base \in Int
      <4>1. x \in Int /\ base \in Nat \ {0}
        BY <1>1, <3>2
      <4>2. x = (x \div base) * base + (x % base) /\ x \div base \in Int /\ x % base \in 0 .. base - 1
        BY <4>1, DivIs
      <4>3. QED
        BY <4>1, <4>2
    <3>7. base * (x \div base) = (x \div base) * base
      BY <1>1, <3>6
    <3>8. value[(e + n) + 1] = x
      BY <3>2, <3>5, <3>6, <3>7
    <3>9. QED
      BY <3>1, <3>8 DEF x, m
  <2>3. Nat \subseteq S
    <3> HIDE DEF S
    <3>1. QED
      BY <2>1, <2>2, Induction
  <2>4. len <= len /\ len - len = 0
    BY <1>1
  <2>5. QED
    BY <1>1, <1>2, <2>3, <2>4
<1>11. value[e + len + t] = number
  <2> DEFINE S == {n \in Nat : n <= t => value[e + len + n] = number}
  <2>1. 0 \in S
    <3>1. e + len + 0 = e + len
      BY <1>1
    <3>2. QED
      BY <1>10, <3>1
  <2>2. ASSUME NEW n \in Nat, n \in S
        PROVE  n + 1 \in S
    <3> SUFFICES ASSUME n + 1 <= t PROVE value[e + len + (n + 1)] = number
      OBVIOUS
    <3> DEFINE m == e + len + n
    <3>1. /\ m \in Nat /\ m + 1 = e + len + (n + 1) /\ m + 1 <= Len(f) /\ n <= t /\ t # 0
          /\ m + 1 \in e + len + 1 .. e + len + t
      BY <1>1, <1>4
    <3>2. f[m + 1] = c
      <4>1. \A p \in e + len + 1 .. e + len + t : f[p] = c
        BY DEF Shaped, e, len
      <4> HIDE DEF m
      <4>2. QED
        BY <3>1, <4>1
    <3>3. value[m] = number
      BY <2>2, <3>1
    <3> HIDE DEF m
    <3>4. value[m + 1] = value[m]
      BY <1>7, <1>8, <3>1, <3>2
    <3>5. QED
      BY <3>1, <3>3, <3>4
  <2>3. Nat \subseteq S
    <3> HIDE DEF S
    <3>1. QED
      BY <2>1, <2>2, Induction
  <2>4. t <= t
    OBVIOUS
  <2>5. QED
    BY <2>3, <2>4
<1>12. QED
  BY <1>4, <1>5, <1>11


\* A field reads as the number of simple_outputi, with its sign if it is printed.
LEMMA NumberIsShown ==
  ASSUME PrintfInv, PrintNumber, status' = "running", ~ZerosBehind
  PROVE  ReadNumber = IF Negative(ReadMember(u'), Letter) THEN ReadMember(u')
                      ELSE ReadMember(u') % Pow[LongBits]
<1> DEFINE v == ReadMember(u')
           s == PrintBuf(v, Letter)
           number == Magnitude(v)
           base == BaseOf(Letter)
           f == Field
<1>1. /\ f = OutputI(v, Letter, Width, Flags) /\ u' \in Int /\ Width \in Int /\ IsInteger
      /\ f \in Seq(Char)
  BY FieldIs
<1>2. /\ Numeral(s, number, base)
      /\ \E g : g = (IF Negative(v, Letter) THEN 1 ELSE 0)
           /\ \E a, z, t \in Nat : \E c :
                Shaped(f, a, g, z, s, t, c) /\ Filled(Len(f), Width, Flags, a, z, t, c)
  BY <1>1, FieldIsShaped
<1>3. base \in 2 .. 16 /\ (Negative(v, Letter) => base = 10)
  <2>1. base \in 2 .. 16 /\ (Letter \in {"d", "u"} => base = 10)
    BY <1>1, PrintBufIs
  <2>2. QED
    BY <2>1 DEF Negative
<1>4. /\ v \in Int /\ number \in Nat
      /\ number = IF Negative(v, Letter) THEN -v ELSE v % Pow[LongBits]
  <2>1. /\ v \in -Pow[LongBits - 1] .. Pow[LongBits - 1] - 1
        /\ number \in 0 .. Pow[LongBits] - 1
    BY <1>1, MagnitudeIs
  <2> HIDE DEF v, base
  <2>2. number = IF Negative(v, Letter) THEN -v ELSE v % Pow[LongBits]
    BY DEF Magnitude
  <2> HIDE DEF number
  <2>3. /\ \A a : \A b : \A y \in a .. b : y \in Int
        /\ \A b : \A y \in 0 .. b : y \in Nat
    OBVIOUS
  <2>4. QED
    BY <2>1, <2>2, <2>3
<1>5. ReadNumber = IF Contains(f, "-") THEN -NumberOf(f, 10) ELSE NumberOf(f, base)
  BY DEF ReadNumber
<1> HIDE DEF v, s, number, base, f
<1>6. PICK g : /\ g = (IF Negative(v, Letter) THEN 1 ELSE 0)
               /\ \E a, z, t \in Nat : \E c :
                    Shaped(f, a, g, z, s, t, c) /\ Filled(Len(f), Width, Flags, a, z, t, c)
  BY <1>2
<1>7. PICK a \in Nat, z \in Nat, t \in Nat :
        \E c : Shaped(f, a, g, z, s, t, c) /\ Filled(Len(f), Width, Flags, a, z, t, c)
  BY <1>6
<1>8. PICK c : Shaped(f, a, g, z, s, t, c) /\ Filled(Len(f), Width, Flags, a, z, t, c)
  BY <1>7
<1>9. g \in Nat /\ s \in Seq(Char) /\ Len(s) \in Nat
  BY <1>2, <1>6 DEF Numeral
<1>10. t # 0 => c = Blank
  <2> SUFFICES ASSUME t # 0 PROVE c = Blank
    OBVIOUS
  <2>1. "PAD_RIGHT" \in Flags
    BY <1>8 DEF Filled
  <2>2. "PAD_ZERO" \notin Flags
    BY <2>1, FlagsAre DEF ZerosBehind
  <2>3. QED
    BY <1>8, <2>2 DEF Filled
<1>11. NumberOf(f, base) = number
  BY <1>2, <1>3, <1>4, <1>7, <1>8, <1>9, <1>10, FieldIsRead
<1>12. Contains(f, "-") <=> Negative(v, Letter)
  <2>1. ASSUME Negative(v, Letter)
        PROVE  Contains(f, "-")
    <3>1. g = 1
      BY <1>6, <2>1
    <3>2. /\ Len(f) = a + g + z + Len(s) + t
          /\ \A p \in a + 1 .. a + g : f[p] = "-"
      BY <1>8 DEF Shaped
    <3>3. a + 1 \in a + 1 .. a + g /\ a + 1 \in 1 .. Len(f)
      BY <1>9, <3>1, <3>2
    <3>4. QED
      BY <3>2, <3>3 DEF Contains
  <2>2. ASSUME NEW p \in 1 .. Len(f), f[p] = "-"
        PROVE  Negative(v, Letter)
    <3>1. InPart(p, f, a, g, z, s, t, c)
      BY <1>8, <1>9, ShapedParts
    <3>2. Blank # "-" /\ "0" # "-" /\ c \in {"0", Blank}
      BY <1>8, CharsDiffer DEF Filled
    <3>3. \A q \in 1 .. Len(s) : s[q] # "-"
      BY <1>2, NumeralChars
    <3>4. p \in a + 1 .. a + g
      BY <2>2, <3>1, <3>2, <3>3 DEF InPart
    <3>5. g # 0
      BY <3>4
    <3>6. QED
      BY <1>6, <3>5
  <2>3. QED
    BY <2>1, <2>2 DEF Contains
<1>13. CASE Negative(v, Letter)
  <2>1. base = 10 /\ number = -v
    BY <1>3, <1>4, <1>13
  <2>2. ReadNumber = -number
    BY <1>5, <1>11, <1>12, <1>13, <2>1
  <2>3. ReadNumber = v
    BY <1>4, <2>1, <2>2
  <2>4. QED
    BY <1>13, <2>3 DEF v
<1>14. CASE ~Negative(v, Letter)
  <2>1. ReadNumber = number /\ number = v % Pow[LongBits]
    BY <1>4, <1>5, <1>11, <1>12, <1>14
  <2>2. QED
    BY <1>14, <2>1 DEF v
<1>15. QED
  BY <1>13, <1>14

\* The number of simple_outputi is the argument, or has its low bits.
LEMMA ArgumentIsShown ==
  ASSUME IsInteger, NEW x \in Int, x \in 0 .. Pow[LongBits] - 1, NEW arg \in Int,
         x % Pow[MemberBits] = arg % Pow[MemberBits],
         NEW n, n = IF Negative(ReadMember(x), Letter) THEN ReadMember(x)
                    ELSE ReadMember(x) % Pow[LongBits]
  PROVE  IF PrintsUnion THEN (n - arg) % Pow[MemberBits] = 0
         ELSE n = CASE Letter = "d" -> Signed(arg, MemberBits)
                    [] Letter = "b" -> Signed(arg, IntBits) % Pow[LongBits]
                    [] OTHER -> arg % Pow[MemberBits]
<1> DEFINE v == ReadMember(x)
<1>1. /\ LongBits \in Nat \ {0} /\ MemberBits \in Nat \ {0} /\ MemberBits <= LongBits
      /\ MemberBits \in Nat /\ LongBits \in Nat
  BY WidthsOfTypes
<1>2. /\ Pow[LongBits] \in Nat \ {0} /\ Pow[MemberBits] \in Nat \ {0}
      /\ Pow[MemberBits] <= Pow[LongBits]
  BY <1>1, PowStep, PowGrows
<1>3. Signed(x, MemberBits) = Signed(arg, MemberBits)
  BY <1>1, SignedIs
<1>4. CASE Letter = "d"
  <2>1. ~PrintsUnion
    BY <1>4 DEF PrintsUnion
  <2>2. v = Signed(arg, MemberBits)
    BY <1>3, <1>4 DEF ReadMember
  <2>3. v \in -Pow[LongBits - 1] .. Pow[LongBits - 1] - 1 /\ (v >= 0 => Magnitude(v) = v)
    BY MagnitudeIs
  <2> HIDE DEF v
  <2>4. n = IF Negative(v, Letter) THEN v ELSE v % Pow[LongBits]
    BY DEF v
  <2>5. v \in Int
    <3>1. \A a : \A b : \A y \in a .. b : y \in Int
      OBVIOUS
    <3>2. QED
      BY <2>3, <3>1
  <2>6. ~Negative(v, Letter) => v >= 0
    BY <1>4, <2>5 DEF Negative
  <2>7. ~Negative(v, Letter) => v % Pow[LongBits] = Magnitude(v)
    BY DEF Magnitude
  <2>8. n = v
    BY <2>3, <2>4, <2>6, <2>7
  <2>9. QED
    BY <1>4, <2>1, <2>2, <2>8
<1>5. CASE Letter = "b"
  <2>1. Length = <<>> /\ ~PrintsUnion /\ MemberBits = IntBits
    <3>1. Length = <<>>
      BY <1>5 DEF IsInteger
    <3>2. QED
      BY <1>5, <3>1 DEF PrintsUnion, MemberBits
  <2>2. v = Signed(arg, IntBits) /\ ~Negative(v, Letter)
    BY <1>3, <1>5, <2>1 DEF ReadMember, Negative
  <2>3. n = Signed(arg, IntBits) % Pow[LongBits]
    <3> HIDE DEF v
    <3>1. QED
      BY <2>2 DEF v
  <2>4. QED
    BY <1>5, <2>1, <2>3
<1>6. CASE PrintsUnion
  <2>1. Length \in {<<"h">>, <<"h", "h">>} /\ Letter # "d" /\ Letter # "b"
    BY <1>6 DEF PrintsUnion, IsInteger
  <2>2. v = Signed(x, LongBits) /\ ~Negative(v, Letter)
    BY <2>1 DEF ReadMember, Negative
  <2>3. v % Pow[LongBits] = x
    <3>1. Signed(x, LongBits) % Pow[LongBits] = x % Pow[LongBits]
      BY <1>1, SignedIs
    <3>2. x % Pow[LongBits] = x
      BY <1>2, ModSmall
    <3> HIDE DEF v
    <3>3. QED
      BY <2>2, <3>1, <3>2
  <2>4. n = x
    <3> HIDE DEF v
    <3>1. QED
      BY <2>2, <2>3 DEF v
  <2> DEFINE b == Pow[MemberBits]
  <2>5. b \in Nat \ {0} /\ x % b = arg % b
    BY <1>2
  <2> HIDE DEF b
  <2>6. (n - arg) % b = 0
    <3>1. /\ x \div b \in Int /\ x % b \in 0 .. b - 1 /\ x = (x \div b) * b + (x % b)
          /\ arg \div b \in Int /\ arg = (arg \div b) * b + (arg % b)
      BY <2>5, DivIs
    <3> DEFINE q == x \div b
               p == arg \div b
               r == x % b
    <3>2. q \in Int /\ p \in Int /\ r \in Int /\ x = q * b + r /\ arg = p * b + r /\ b \in Int
      <4>1. r \in Int
        BY <2>5, <3>1
      <4>2. arg = p * b + r
        BY <2>5, <3>1
      <4>3. QED
        BY <2>5, <3>1, <4>1, <4>2
    <3> HIDE DEF q, p, r
    <3>3. x - arg = 0 + (q - p) * b /\ q - p \in Int
      BY <3>2
    <3>4. (0 + (q - p) * b) % b = 0 % b /\ 0 \in 0 .. b - 1
      <4>1. 0 \in Int /\ 0 \in 0 .. b - 1
        BY <2>5
      <4> DEFINE k == q - p
      <4>2. k \in Int
        BY <3>3
      <4> HIDE DEF k
      <4>3. (0 + k * b) % b = 0 % b
        BY <2>5, <4>1, <4>2, ModShift
      <4>4. QED
        BY <4>1, <4>3 DEF k
    <3>5. 0 % b = 0
      BY <2>5, <3>4, ModSmall
    <3>6. QED
      BY <2>4, <3>3, <3>4, <3>5
  <2>7. QED
    BY <1>6, <2>6 DEF b
<1>7. CASE Letter \notin {"d", "b"} /\ ~PrintsUnion
  <2> DEFINE y == arg % Pow[MemberBits]
  <2>1. v = Signed(y, LongBits) /\ ~Negative(v, Letter)
    <3>1. Length \notin {<<"h">>, <<"h", "h">>}
      BY <1>7 DEF PrintsUnion
    <3>2. QED
      BY <1>7, <3>1 DEF ReadMember, Negative
  <2>2. y \in 0 .. Pow[LongBits] - 1 /\ y \in Int
    <3>1. y \in 0 .. Pow[MemberBits] - 1
      BY <1>2, DivIs
    <3> HIDE DEF y
    <3>2. QED
      BY <1>2, <3>1
  <2> HIDE DEF y
  <2>3. Signed(y, LongBits) % Pow[LongBits] = y % Pow[LongBits]
    BY <1>1, <2>2, SignedIs
  <2>4. y % Pow[LongBits] = y
    BY <1>2, <2>2, ModSmall
  <2>5. n = y
    <3> HIDE DEF v
    <3>1. QED
      BY <2>1, <2>3, <2>4 DEF v
  <2>6. QED
    BY <1>7, <2>5 DEF y
<1>8. QED
  BY <1>4, <1>5, <1>6, <1>7

\* What a conversion prints reads back as its argument, whatever the conversions
\* before it left in u; of an unsigned short or char only the low bits do
\* (mylibc.c:197-211, 395-495).
THEOREM FieldsReadBack == Spec => FieldReadsBack
<1>1. ASSUME PrintfInv
      PROVE  (PrintNumber /\ status' = "running" /\ ~ZerosBehind) =>
        LET arg == args[ArgAt].num
        IN  IF PrintsUnion THEN (ReadNumber - arg) % Pow[MemberBits] = 0
            ELSE ReadNumber = CASE Letter = "d" -> Signed(arg, MemberBits)
                                [] Letter = "b" -> Signed(arg, IntBits) % Pow[LongBits]
                                [] OTHER -> arg % Pow[MemberBits]
  <2> SUFFICES ASSUME PrintNumber, status' = "running", ~ZerosBehind
               PROVE  LET arg == args[ArgAt].num
                      IN  IF PrintsUnion THEN (ReadNumber - arg) % Pow[MemberBits] = 0
                          ELSE ReadNumber = CASE Letter = "d" -> Signed(arg, MemberBits)
                                              [] Letter = "b" -> Signed(arg, IntBits) % Pow[LongBits]
                                              [] OTHER -> arg % Pow[MemberBits]
    OBVIOUS
  <2> DEFINE n == ReadNumber
             arg == args[ArgAt].num
  <2>1. /\ IsInteger /\ u' \in Int /\ u' \in 0 .. Pow[LongBits] - 1 /\ arg \in Int
        /\ u' % Pow[MemberBits] = arg % Pow[MemberBits]
    BY <1>1, FieldIs
  <2>2. n = IF Negative(ReadMember(u'), Letter) THEN ReadMember(u')
            ELSE ReadMember(u') % Pow[LongBits]
    BY <1>1, NumberIsShown
  <2> HIDE DEF n, arg
  <2>3. IF PrintsUnion THEN (n - arg) % Pow[MemberBits] = 0
        ELSE n = CASE Letter = "d" -> Signed(arg, MemberBits)
                   [] Letter = "b" -> Signed(arg, IntBits) % Pow[LongBits]
                   [] OTHER -> arg % Pow[MemberBits]
    BY <2>1, <2>2, ArgumentIsShown
  <2>4. QED
    BY <2>3 DEF n, arg
<1>2. QED
  BY <1>1, PrintfInvariant, PTL DEF FieldReadsBack


-----------------------------------------------------------------------------
(***************************************************************************)
(* The pieces of the format                                                *)
(***************************************************************************)

LEMMA SkipAllIs ==
  ASSUME fmt \in Seq(STRING \ {NUL}), NEW p \in 1 .. Len(fmt) + 1, NEW set, NUL \notin set,
         NEW q \in p .. Len(fmt) + 1, At(q) \notin set, \A x \in p .. q - 1 : At(x) \in set
  PROVE  SkipAll(p, set) = q
<1> DEFINE s == SkipAll(p, set)
<1>1. s \in p .. Len(fmt) + 1 /\ At(s) \notin set /\ \A x \in p .. s - 1 : At(x) \in set
  BY SkipAllStops
<1>2. Len(fmt) \in Nat
  OBVIOUS
<1> HIDE DEF s
<1>3. ~(s < q)
  <2>1. s < q => s \in p .. q - 1
    BY <1>1, <1>2
  <2>2. QED
    BY <1>1, <2>1
<1>4. ~(q < s)
  <2>1. q < s => q \in p .. s - 1
    BY <1>1, <1>2
  <2>2. QED
    BY <1>1, <2>1
<1>5. s = q
  BY <1>1, <1>2, <1>3, <1>4
<1>6. QED
  BY <1>5 DEF s

LEMMA PiecesDiffer ==
  /\ "0" \in Decimal
  /\ {"%", "-", "*", "l", "h", NUL} \cap Decimal = {}
  /\ NUL \notin {"%", "-", "*", "l", "h"}
<1>1. Digit[1] = "0"
  BY DEF Digit
<1>2. \A d \in 1 .. 10 : Digit[d] \notin {"%", "-", "*", "l", "h", NUL}
  BY DEF Digit, NUL
<1>3. NUL \notin {"%", "-", "*", "l", "h"}
  BY DEF NUL
<1>4. QED
  BY <1>1, <1>2, <1>3 DEF Decimal

\* A piece that is a conversion is scanned as one, up to its end.
LEMMA PieceIsScanned ==
  ASSUME fmt \in Seq(STRING \ {NUL}), i \in Nat \ {0}, NEW q \in i + 1 .. Len(fmt) + 1,
         IsConversion(i, q)
  PROVE  /\ At(i) = "%" /\ At(i + 1) \notin {"%", NUL} /\ i + 2 <= q
         /\ LetterAt = q - 1 /\ Letter = fmt[q - 1] /\ Letter \notin {"*", NUL}
         /\ Star => WidthAt \in i + 1 .. q - 2
         /\ \A x \in i + 1 .. q - 2 : fmt[x] = "*" <=> (Star /\ x = WidthAt)
         /\ Length = <<>> <=> fmt[q - 2] \notin {"l", "h"}
<1>1. PICK z \in i + 1 .. q - 1, w \in i + 1 .. q - 1, l \in i + 1 .. q - 1 :
        /\ z = i + 1 \/ (z = i + 2 /\ fmt[i + 1] = "-")
        /\ z <= w /\ \A x \in z .. w - 1 : fmt[x] = "0"
        /\ \/ fmt[w] = "*" /\ l = w + 1
           \/ w <= l /\ fmt[w] # "0" /\ \A x \in w .. l - 1 : fmt[x] \in Decimal
        /\ q - 1 <= l + 2
        /\ \A x \in l .. q - 2 : fmt[x] \in {"l", "h"} /\ fmt[x] = fmt[l]
  BY DEF IsConversion
<1>2. fmt[i] = "%" /\ fmt[q - 1] \notin Decimal \cup {"%", "-", "*", "l", "h"}
  BY DEF IsConversion
<1>3. /\ Len(fmt) \in Nat /\ i + 2 <= q
      /\ i \in Int /\ q \in Int /\ z \in Int /\ w \in Int /\ l \in Int
  <2>1. Len(fmt) \in Nat
    OBVIOUS
  <2>2. QED
    BY <1>1, <2>1
<1>4. /\ \A x \in i .. q - 1 : At(x) = fmt[x]
      /\ \A x \in i .. q - 1 : fmt[x] # NUL
  <2>1. \A x \in i .. q - 1 : x \in Nat \ {0} /\ x <= Len(fmt)
    BY <1>3
  <2>2. \A x \in i .. q - 1 : ~(x > Len(fmt))
    BY <1>3
  <2>3. QED
    BY <2>1, <2>2, AtIs
<1>5. fmt[l] \notin Decimal \cup {"%", "-", "*"} /\ (l # q - 1 => fmt[l] \in {"l", "h"})
  <2>1. l # q - 1 => l \in l .. q - 2
    BY <1>1, <1>3
  <2>2. l # q - 1 => fmt[l] \in {"l", "h"}
    BY <1>1, <2>1
  <2>3. QED
    BY <1>2, <2>2, PiecesDiffer
<1>6. /\ w <= l /\ fmt[w] \notin {"%", "-", "0"}
      /\ fmt[w] = "*" => l = w + 1
      /\ fmt[w] # "*" => \A x \in w .. l - 1 : fmt[x] \in Decimal
  <2>1. w <= l
    BY <1>1, <1>3
  <2>2. w # l => w \in w .. l - 1
    BY <1>3, <2>1
  <2>3. QED
    BY <1>1, <1>5, <2>1, <2>2, PiecesDiffer
<1>7. fmt[z] \notin {"%", "-"}
  <2>1. z # w => z \in z .. w - 1
    BY <1>1, <1>3
  <2>2. QED
    BY <1>1, <1>6, <2>1
<1>8. ZerosAt = z /\ At(i + 1) \notin {"%", NUL} /\ At(i) = "%"
  <2>1. i \in i .. q - 1 /\ i + 1 \in i .. q - 1
    BY <1>3
  <2>2. At(i + 1) = fmt[i + 1] /\ At(i) = fmt[i] /\ fmt[i + 1] # NUL
    BY <1>4, <2>1
  <2>3. CASE z = i + 1
    BY <1>2, <1>7, <2>2, <2>3 DEF ZerosAt
  <2>4. CASE z = i + 2 /\ fmt[i + 1] = "-"
    BY <1>2, <2>2, <2>4 DEF ZerosAt
  <2>5. QED
    BY <1>1, <2>3, <2>4
<1>9. WidthAt = w
  <2>1. z \in 1 .. Len(fmt) + 1 /\ w \in z .. Len(fmt) + 1 /\ w \in i .. q - 1
    BY <1>1, <1>3
  <2>2. \A x \in z .. w - 1 : x \in i .. q - 1
    BY <1>1, <1>3
  <2>3. At(w) \notin {"0"} /\ \A x \in z .. w - 1 : At(x) \in {"0"}
    BY <1>1, <1>4, <1>6, <2>1, <2>2
  <2>4. NUL \notin {"0"}
    BY PiecesDiffer
  <2>5. SkipAll(z, {"0"}) = w
    BY <2>1, <2>3, <2>4, SkipAllIs
  <2>6. QED
    BY <1>8, <2>5 DEF WidthAt
<1>10. Star <=> fmt[w] = "*"
  <2>1. w \in i .. q - 1
    BY <1>1, <1>3
  <2>2. QED
    BY <1>4, <1>9, <2>1 DEF Star
<1>11. LengthAt = l
  <2>1. CASE Star
    BY <1>6, <1>9, <1>10, <2>1 DEF LengthAt
  <2>2. CASE ~Star
    <3>1. w \in 1 .. Len(fmt) + 1 /\ l \in w .. Len(fmt) + 1 /\ l \in i .. q - 1
      BY <1>1, <1>3, <1>6
    <3>2. \A x \in w .. l - 1 : x \in i .. q - 1
      BY <1>1, <1>3
    <3>3. At(l) \notin Decimal /\ \A x \in w .. l - 1 : At(x) \in Decimal
      BY <1>4, <1>5, <1>6, <1>10, <2>2, <3>1, <3>2
    <3>4. NUL \notin Decimal
      BY PiecesDiffer
    <3>5. SkipAll(w, Decimal) = l
      BY <3>1, <3>3, <3>4, SkipAllIs
    <3>6. QED
      BY <1>9, <2>2, <3>5 DEF LengthAt
  <2>3. QED
    BY <2>1, <2>2
<1>12. Len(Length) = q - 1 - l /\ (Length = <<>> <=> l = q - 1)
  <2>1. l \in i .. q - 1 /\ q - 1 \in i .. q - 1
    BY <1>1, <1>3
  <2>2. At(l) = fmt[l]
    BY <1>4, <2>1
  <2>3. CASE l = q - 1
    <3>1. Length = <<>>
      BY <1>2, <1>11, <2>2, <2>3 DEF Length
    <3>2. QED
      BY <1>3, <2>3, <3>1
  <2>4. CASE l = q - 2
    <3>1. l + 1 = q - 1 /\ l # q - 1
      BY <1>3, <2>4
    <3>2. At(l + 1) = fmt[q - 1]
      BY <1>4, <2>1, <3>1
    <3>3. Length = <<fmt[l]>>
      BY <1>2, <1>5, <1>11, <2>2, <3>1, <3>2 DEF Length
    <3>4. QED
      BY <1>3, <2>4, <3>1, <3>3
  <2>5. CASE l = q - 3
    <3>1. l + 1 \in l .. q - 2 /\ l + 1 \in i .. q - 1 /\ l # q - 1
      BY <1>1, <1>3, <2>5
    <3>2. At(l + 1) = fmt[l]
      BY <1>1, <1>4, <3>1
    <3>3. Length = <<fmt[l], fmt[l]>>
      BY <1>5, <1>11, <2>2, <3>1, <3>2 DEF Length
    <3>4. QED
      BY <1>3, <2>5, <3>1, <3>3
  <2>6. l = q - 1 \/ l = q - 2 \/ l = q - 3
    BY <1>1, <1>3
  <2>7. QED
    BY <2>3, <2>4, <2>5, <2>6
<1>13. LetterAt = q - 1 /\ Letter = fmt[q - 1] /\ Letter \notin {"*", NUL}
  <2>1. LetterAt = q - 1
    <3>1. LetterAt = l + Len(Length)
      BY <1>11 DEF LetterAt
    <3>2. QED
      BY <1>3, <1>12, <3>1
  <2>2. q - 1 \in i .. q - 1
    BY <1>3
  <2>3. QED
    BY <1>2, <1>4, <2>1, <2>2 DEF Letter
<1>14. \A x \in i + 1 .. q - 2 : fmt[x] = "*" <=> (Star /\ x = WidthAt)
  <2> TAKE x \in i + 1 .. q - 2
  <2>1. \/ x = i + 1 /\ fmt[x] = "-" /\ x < z
        \/ x \in z .. w - 1
        \/ x \in w .. l - 1
        \/ x \in l .. q - 2
    BY <1>1, <1>3
  <2>2. CASE x < z /\ fmt[x] = "-"
    <3>1. x # w
      BY <1>1, <1>3, <2>2
    <3>2. QED
      BY <1>9, <2>2, <3>1
  <2>3. CASE x \in z .. w - 1
    <3>1. x # w /\ fmt[x] = "0"
      BY <1>1, <1>3, <2>3
    <3>2. QED
      BY <1>9, <3>1
  <2>4. CASE x \in w .. l - 1
    <3>1. CASE Star
      <4>1. x = w
        BY <1>3, <1>6, <1>10, <2>4, <3>1
      <4>2. QED
        BY <1>9, <1>10, <3>1, <4>1
    <3>2. CASE ~Star
      <4>1. fmt[x] \in Decimal
        BY <1>6, <1>10, <2>4, <3>2
      <4>2. QED
        BY <3>2, <4>1, PiecesDiffer
    <3>3. QED
      BY <3>1, <3>2
  <2>5. CASE x \in l .. q - 2
    <3>1. fmt[x] # "*"
      BY <1>1, <2>5
    <3>2. ~(Star /\ x = w)
      BY <1>10, <3>1
    <3>3. QED
      BY <1>9, <3>1, <3>2
  <2>6. QED
    BY <2>1, <2>2, <2>3, <2>4, <2>5
<1>15. Star => WidthAt \in i + 1 .. q - 2
  <2>1. fmt[w] = "*" => w \in i + 1 .. q - 2
    BY <1>1, <1>3, <1>6
  <2>2. QED
    BY <1>9, <1>10, <2>1
<1>16. Length = <<>> <=> fmt[q - 2] \notin {"l", "h"}
  <2>1. CASE l = q - 1
    <3>1. \/ q - 2 = i
          \/ q - 2 = i + 1 /\ fmt[i + 1] = "-"
          \/ q - 2 \in z .. w - 1
          \/ q - 2 \in w .. l - 1
      BY <1>1, <1>3, <1>6, <2>1
    <3>2. q - 2 \in w .. l - 1 => fmt[q - 2] \in Decimal \cup {"*"}
      <4>1. fmt[w] = "*" /\ q - 2 \in w .. l - 1 => q - 2 = w
        BY <1>3, <1>6
      <4>2. QED
        BY <1>6, <4>1
    <3>3. fmt[q - 2] \in {"%", "-", "0"} \/ fmt[q - 2] \in Decimal \cup {"*"}
      BY <1>1, <1>2, <3>1, <3>2
    <3>4. fmt[q - 2] \notin {"l", "h"}
      BY <3>3, PiecesDiffer
    <3>5. QED
      BY <1>12, <2>1, <3>4
  <2>2. CASE l # q - 1
    <3>1. q - 2 \in l .. q - 2
      BY <1>1, <1>3, <2>2
    <3>2. fmt[q - 2] \in {"l", "h"}
      BY <1>1, <3>1
    <3>3. QED
      BY <1>12, <2>2, <3>2
  <2>3. QED
    BY <2>1, <2>2
<1>17. QED
  BY <1>3, <1>8, <1>13, <1>14, <1>15, <1>16


\* The next piece of a divided format is of the kind that its beginning shows.
LEMMA NextPiece ==
  ASSUME fmt \in Seq(STRING \ {NUL}), NEW cuts \in SUBSET (1 .. Len(fmt) + 1), Divides(cuts),
         i \in cuts, At(i) # NUL
  PROVE  \E q \in cuts :
           /\ q \in i + 1 .. Len(fmt) + 1 /\ \A x \in i + 1 .. q - 1 : x \notin cuts
           /\ \/ At(i) # "%" /\ q = i + 1
              \/ At(i) = "%" /\ At(i + 1) = "%" /\ q = i + 2
              \/ IsConversion(i, q)
<1>1. Len(fmt) \in Nat /\ i \in Nat \ {0} /\ i <= Len(fmt) /\ At(i) = fmt[i]
  <2>1. Len(fmt) \in Nat /\ i \in Nat \ {0}
    OBVIOUS
  <2>2. At(i) = NUL <=> i > Len(fmt)
    BY <2>1, AtIs
  <2>3. i <= Len(fmt)
    BY <2>1, <2>2
  <2>4. QED
    BY <2>1, <2>3, AtIs
<1>2. i \in cuts \ {Len(fmt) + 1}
  BY <1>1
<1>3. PICK q \in cuts : /\ i < q /\ \A x \in i + 1 .. q - 1 : x \notin cuts
                        /\ IsText(i, q) \/ IsConversion(i, q)
  BY <1>2 DEF Divides
<1>4. q \in i + 1 .. Len(fmt) + 1
  BY <1>1, <1>3
<1>5. ASSUME IsText(i, q)
      PROVE  \/ At(i) # "%" /\ q = i + 1
             \/ At(i) = "%" /\ At(i + 1) = "%" /\ q = i + 2
  <2>1. CASE q = i + 1 /\ fmt[i] # "%"
    BY <1>1, <2>1
  <2>2. CASE q = i + 2 /\ fmt[i] = "%" /\ fmt[i + 1] = "%"
    <3>1. i + 1 \in Nat \ {0} /\ i + 1 <= Len(fmt)
      BY <1>1, <1>4, <2>2
    <3>2. At(i + 1) = fmt[i + 1]
      BY <3>1, AtIs
    <3>3. QED
      BY <1>1, <2>2, <3>2
  <2>3. QED
    BY <1>5, <2>1, <2>2 DEF IsText
<1>6. QED
  BY <1>3, <1>4, <1>5

\* What the pieces in front of position n ask for.
AskedBefore(cuts, n) == Cardinality({p \in 1 .. n - 1 : Asks(cuts, p)})

LEMMA AskedBeforeGrows ==
  ASSUME NEW cuts, NEW m \in Nat \ {0}, NEW n \in Nat, m <= n
  PROVE  /\ AskedBefore(cuts, m) \in Nat
         /\ AskedBefore(cuts, n) = AskedBefore(cuts, m) + Cardinality({p \in m .. n - 1 : Asks(cuts, p)})
<1> DEFINE A == {p \in 1 .. m - 1 : Asks(cuts, p)}
           B == {p \in m .. n - 1 : Asks(cuts, p)}
           C == {p \in 1 .. n - 1 : Asks(cuts, p)}
<1>1. \A p : /\ p \in 1 .. n - 1 <=> p \in 1 .. m - 1 \/ p \in m .. n - 1
             /\ ~(p \in 1 .. m - 1 /\ p \in m .. n - 1)
  OBVIOUS
<1>2. C = A \cup B /\ A \cap B = {}
  BY <1>1
<1>3. IsFiniteSet(A) /\ IsFiniteSet(B)
  <2>1. 1 \in Int /\ m - 1 \in Int /\ m \in Int /\ n - 1 \in Int
    OBVIOUS
  <2>2. IsFiniteSet(1 .. m - 1) /\ IsFiniteSet(m .. n - 1)
    BY <2>1, FS_Interval
  <2>3. A \in SUBSET (1 .. m - 1) /\ B \in SUBSET (m .. n - 1)
    OBVIOUS
  <2> HIDE DEF A, B
  <2>4. QED
    BY <2>2, <2>3, FS_Subset
<1> HIDE DEF A, B, C
<1>4. Cardinality(A \cup B) = Cardinality(A) + Cardinality(B) - Cardinality(A \cap B)
  BY <1>3, FS_Union
<1>5. Cardinality(A \cap B) = 0 /\ Cardinality(A) \in Nat /\ Cardinality(B) \in Nat
  BY <1>2, <1>3, FS_EmptySet, FS_CardinalityType
<1>6. Cardinality(C) = Cardinality(A) + Cardinality(B)
  BY <1>2, <1>4, <1>5
<1>7. QED
  BY <1>5, <1>6 DEF AskedBefore, A, B, C

IsConverted == IsInteger \/ IsChar \/ IsString

\* A conversion asks for what its width and its letter take.
LEMMA ConversionAsksFor ==
  ASSUME fmt \in Seq(STRING \ {NUL}), NEW cuts \in SUBSET (1 .. Len(fmt) + 1), i \in cuts,
         ap \in Nat, ap = AskedBefore(cuts, i),
         NEW q \in cuts, q \in i + 1 .. Len(fmt) + 1, \A x \in i + 1 .. q - 1 : x \notin cuts,
         IsConversion(i, q)
  PROVE  AskedBefore(cuts, q) = IF IsConverted THEN ArgAt ELSE ArgAt - 1
<1> DEFINE asking == {p \in i .. q - 1 : Asks(cuts, p)}
           width  == IF Star THEN {WidthAt} ELSE {}
           letter == IF IsConverted THEN {q - 1} ELSE {}
<1>1. /\ Len(fmt) \in Nat /\ i \in Nat \ {0} /\ q \in Nat /\ i + 2 <= q
      /\ Letter = fmt[q - 1] /\ Letter # "*"
      /\ Star => WidthAt \in i + 1 .. q - 2
      /\ \A x \in i + 1 .. q - 2 : fmt[x] = "*" <=> (Star /\ x = WidthAt)
      /\ Length = <<>> <=> fmt[q - 2] \notin {"l", "h"}
  <2>1. Len(fmt) \in Nat /\ i \in Nat \ {0} /\ q \in Nat
    OBVIOUS
  <2>2. QED
    BY <2>1, PieceIsScanned
<1>2. ~Asks(cuts, i)
  BY DEF Asks
<1>3. ASSUME NEW x \in i + 1 .. q - 2
      PROVE  Asks(cuts, x) <=> Star /\ x = WidthAt
  <2>1. x + 1 \in i + 1 .. q - 1 /\ x \in i + 1 .. q - 1
    BY <1>1
  <2>2. x \notin cuts /\ x + 1 \notin cuts
    BY <2>1
  <2>3. QED
    BY <1>1, <1>3, <2>2 DEF Asks
<1>4. Asks(cuts, q - 1) <=> IsConverted
  <2>1. q - 1 \in i + 1 .. q - 1 /\ (q - 1) + 1 = q /\ (q - 1) - 1 = q - 2
    BY <1>1
  <2>2. q - 1 \notin cuts /\ (q - 1) + 1 \in cuts /\ fmt[(q - 1) - 1] = fmt[q - 2]
    BY <2>1
  <2>3. Asks(cuts, q - 1) <=> \/ Letter \in {"d", "u", "x", "X"}
                              \/ Letter \in {"b", "p", "c", "s"} /\ Length = <<>>
    BY <1>1, <2>2 DEF Asks
  <2>4. QED
    BY <2>3 DEF IsConverted, IsInteger, IsChar, IsString
<1>5. \A x \in i .. q - 1 : x = i \/ x \in i + 1 .. q - 2 \/ x = q - 1
  BY <1>1
<1>6. /\ Star => WidthAt \in i .. q - 1 /\ WidthAt # q - 1
      /\ q - 1 \in i .. q - 1 /\ q - 1 # i
  BY <1>1
<1>7. asking = width \cup letter
  <2>1. \A x : x \in asking => x \in width \cup letter
    BY <1>2, <1>3, <1>4, <1>5
  <2>2. \A x : x \in width \cup letter => x \in asking
    BY <1>1, <1>3, <1>4, <1>6
  <2> HIDE DEF asking, width, letter
  <2>3. QED
    BY <2>1, <2>2
<1>8. /\ IsFiniteSet(width) /\ Cardinality(width) = IF Star THEN 1 ELSE 0
      /\ IsFiniteSet(letter) /\ Cardinality(letter) = IF IsConverted THEN 1 ELSE 0
      /\ width \cap letter = {}
  <2>1. \A x : IsFiniteSet({x}) /\ Cardinality({x}) = 1
    BY FS_Singleton
  <2>2. IsFiniteSet({}) /\ Cardinality({}) = 0
    BY FS_EmptySet
  <2>3. QED
    BY <1>6, <2>1, <2>2
<1> HIDE DEF width, letter, asking
<1>9. Cardinality(asking) = (IF Star THEN 1 ELSE 0) + (IF IsConverted THEN 1 ELSE 0)
  <2>1. Cardinality(width \cup letter) = Cardinality(width) + Cardinality(letter) - Cardinality(width \cap letter)
    BY <1>8, FS_Union
  <2>2. Cardinality(width \cap letter) = 0
    BY <1>8, FS_EmptySet
  <2>3. QED
    BY <1>7, <1>8, <2>1, <2>2
<1>10. AskedBefore(cuts, q) = AskedBefore(cuts, i) + Cardinality(asking)
  <2>1. i <= q
    BY <1>1
  <2>2. QED
    BY <1>1, <2>1, AskedBeforeGrows DEF asking
<1>11. ArgAt = ap + (IF Star THEN 2 ELSE 1)
  BY DEF ArgAt
<1>12. QED
  BY <1>9, <1>10, <1>11

\* A text asks for nothing.
LEMMA TextAsksForNothing ==
  ASSUME fmt \in Seq(STRING \ {NUL}), NEW cuts \in SUBSET (1 .. Len(fmt) + 1), i \in cuts,
         NEW q \in cuts, q = i + 1 \/ (q = i + 2 /\ i + 1 \notin cuts /\ fmt[i + 1] = "%")
  PROVE  AskedBefore(cuts, q) = AskedBefore(cuts, i)
<1> DEFINE asking == {p \in i .. q - 1 : Asks(cuts, p)}
<1>1. Len(fmt) \in Nat /\ i \in Nat \ {0} /\ q \in Nat /\ i <= q
  OBVIOUS
<1>2. ~Asks(cuts, i)
  BY DEF Asks
<1>3. q = i + 2 => ~Asks(cuts, i + 1)
  BY DEF Asks
<1>4. \A x \in i .. q - 1 : x = i \/ (q = i + 2 /\ x = i + 1)
  BY <1>1
<1>5. asking = {}
  BY <1>2, <1>3, <1>4
<1>6. AskedBefore(cuts, q) = AskedBefore(cuts, i) + Cardinality(asking) /\ AskedBefore(cuts, i) \in Nat
  BY <1>1, AskedBeforeGrows
<1> HIDE DEF asking
<1>7. Cardinality(asking) = 0
  BY <1>5, FS_EmptySet
<1>8. QED
  BY <1>6, <1>7


\* A step from one piece to the next consumes what the piece asks for.
LEMMA PieceInStep ==
  ASSUME PrintfInv, Next, status' # "undefined",
         NEW cuts \in SUBSET (1 .. Len(fmt) + 1), Divides(cuts),
         i \in cuts, ap = AskedBefore(cuts, i)
  PROVE  i' \in cuts /\ ap' = AskedBefore(cuts, i')
<1>1. /\ fmt \in Seq(STRING \ {NUL}) /\ Len(fmt) \in Nat /\ i \in Nat \ {0} /\ i + 1 \in Nat \ {0}
      /\ ap \in Nat
  BY DEF PrintfInv, PrintfTypeOK
<1>2. CASE Write
  BY <1>2 DEF Write
<1>3. CASE MissingArgument \/ CutOff
  BY <1>3 DEF MissingArgument, CutOff
<1>4. CASE Literal \/ Percent \/ LonePercent
  <2>1. At(i) # NUL
    <3>1. "%" # NUL
      BY PiecesDiffer
    <3>2. QED
      BY <1>4, <3>1 DEF Literal, Percent, LonePercent
  <2>2. PICK q \in cuts :
           /\ q \in i + 1 .. Len(fmt) + 1 /\ \A x \in i + 1 .. q - 1 : x \notin cuts
           /\ \/ At(i) # "%" /\ q = i + 1
              \/ At(i) = "%" /\ At(i + 1) = "%" /\ q = i + 2
              \/ IsConversion(i, q)
    BY <1>1, <2>1, NextPiece
  <2>3. ~IsConversion(i, q)
    <3>1. ASSUME IsConversion(i, q)
          PROVE  At(i) = "%" /\ At(i + 1) \notin {"%", NUL}
      BY <1>1, <2>2, <3>1, PieceIsScanned
    <3>2. QED
      BY <1>4, <3>1 DEF Literal, Percent, LonePercent
  <2>4. CASE Literal
    <3>1. q = i + 1 /\ i' = i + 1 /\ ap' = ap
      BY <2>2, <2>3, <2>4 DEF Literal
    <3>2. AskedBefore(cuts, q) = AskedBefore(cuts, i)
      BY <1>1, <3>1, TextAsksForNothing
    <3>3. QED
      BY <3>1, <3>2
  <2>5. CASE Percent
    <3>1. q = i + 2 /\ At(i + 1) = "%" /\ i' = i + 2 /\ ap' = ap
      BY <2>2, <2>3, <2>5 DEF Percent
    <3>2. fmt[i + 1] = "%" /\ i + 1 \notin cuts
      <4>1. i + 1 <= Len(fmt) /\ i + 1 \in i + 1 .. q - 1
        BY <1>1, <2>2, <3>1
      <4>2. QED
        BY <1>1, <2>2, <3>1, <4>1, AtIs
    <3>3. AskedBefore(cuts, q) = AskedBefore(cuts, i)
      BY <1>1, <3>1, <3>2, TextAsksForNothing
    <3>4. QED
      BY <3>1, <3>3
  <2>6. CASE LonePercent
    <3>1. At(i) = "%" /\ At(i + 1) = NUL
      BY <2>6 DEF LonePercent
    <3>2. "%" # NUL
      BY PiecesDiffer
    <3>3. QED
      BY <2>2, <2>3, <3>1, <3>2
  <2>7. QED
    BY <1>4, <2>4, <2>5, <2>6
<1>5. CASE PrintNumber \/ PrintText \/ Unknown
  <2>1. AtConversion
    BY <1>5 DEF PrintNumber, PrintText, Unknown, Conversion
  <2>2. At(i) = "%" /\ At(i + 1) \notin {"%", NUL} /\ At(i) # NUL
    BY <2>1, PiecesDiffer DEF AtConversion
  <2>3. PICK q \in cuts :
           /\ q \in i + 1 .. Len(fmt) + 1 /\ \A x \in i + 1 .. q - 1 : x \notin cuts
           /\ \/ At(i) # "%" /\ q = i + 1
              \/ At(i) = "%" /\ At(i + 1) = "%" /\ q = i + 2
              \/ IsConversion(i, q)
    BY <1>1, <2>2, NextPiece
  <2>4. IsConversion(i, q)
    BY <2>2, <2>3
  <2>5. LetterAt = q - 1 /\ q \in Int
    <3>1. q \in Int
      BY <1>1
    <3>2. QED
      BY <1>1, <2>3, <2>4, <3>1, PieceIsScanned
  <2>6. i' = LetterAt + 1 /\ ap' = IF IsConverted THEN ArgAt ELSE ArgAt - 1
    BY <1>5 DEF PrintNumber, PrintText, Unknown, Converted, IsConverted
  <2>7. i' = q
    BY <2>5, <2>6
  <2>8. AskedBefore(cuts, q) = IF IsConverted THEN ArgAt ELSE ArgAt - 1
    BY <1>1, <2>3, <2>4, ConversionAsksFor
  <2>9. QED
    BY <2>6, <2>7, <2>8
<1>6. QED
  BY <1>2, <1>3, <1>4, <1>5 DEF Next

LEMMA NextInStep == PrintfInv /\ ArgumentsInStep /\ [Next]_vars => ArgumentsInStep'
<1> SUFFICES ASSUME PrintfInv, ArgumentsInStep, [Next]_vars
             PROVE  ArgumentsInStep'
  OBVIOUS
<1>1. fmt' = fmt
  BY DEF Next, Literal, Percent, LonePercent, PrintNumber, PrintText, Unknown, CutOff,
         MissingArgument, Write, Converted, vars
<1>2. ASSUME status # "undefined", NEW cuts \in SUBSET (1 .. Len(fmt) + 1), Divides(cuts)
      PROVE  i \in cuts /\ ap = AskedBefore(cuts, i)
  BY <1>2 DEF ArgumentsInStep, AskedBefore
<1>3. ASSUME status' # "undefined", NEW cuts \in SUBSET (1 .. Len(fmt) + 1), Divides(cuts)
      PROVE  i' \in cuts /\ ap' = AskedBefore(cuts, i')
  <2>1. CASE Next
    <3>1. status # "undefined"
      BY <2>1 DEF Next, Literal, Percent, LonePercent, PrintNumber, PrintText, Unknown, CutOff,
                  MissingArgument, Write, Conversion, AtConversion, Running
    <3>2. i \in cuts /\ ap = AskedBefore(cuts, i)
      BY <1>2, <1>3, <3>1
    <3>3. QED
      BY <1>3, <2>1, <3>2, PieceInStep
  <2>2. CASE UNCHANGED vars
    <3>1. status' = status /\ i' = i /\ ap' = ap
      BY <2>2 DEF vars
    <3>2. QED
      BY <1>2, <1>3, <3>1
  <2>3. QED
    BY <2>1, <2>2
<1>4. \A cuts : Divides(cuts)' <=> Divides(cuts)
  BY <1>1 DEF Divides, IsText, IsConversion
<1>5. \A cuts, p : Asks(cuts, p)' <=> Asks(cuts, p)
  BY <1>1 DEF Asks
<1>6. ASSUME status' # "undefined", NEW cuts \in SUBSET (1 .. Len(fmt') + 1), Divides(cuts)'
      PROVE  i' \in cuts /\ ap' = Cardinality({p \in 1 .. i' - 1 : Asks(cuts, p)'})
  <2>1. cuts \in SUBSET (1 .. Len(fmt) + 1) /\ Divides(cuts)
    BY <1>1, <1>4, <1>6
  <2>2. i' \in cuts /\ ap' = AskedBefore(cuts, i')
    BY <1>3, <1>6, <2>1
  <2>3. {p \in 1 .. i' - 1 : Asks(cuts, p)'} = {p \in 1 .. i' - 1 : Asks(cuts, p)}
    BY <1>5
  <2>4. AskedBefore(cuts, i') = Cardinality({p \in 1 .. i' - 1 : Asks(cuts, p)})
    BY DEF AskedBefore
  <2>5. QED
    BY <2>2, <2>3, <2>4
<1>7. QED
  BY <1>6 DEF ArgumentsInStep

LEMMA InitInStep == Init => ArgumentsInStep
<1> SUFFICES ASSUME Init, NEW cuts \in SUBSET (1 .. Len(fmt) + 1), Divides(cuts)
             PROVE  i \in cuts /\ ap = Cardinality({p \in 1 .. i - 1 : Asks(cuts, p)})
  BY DEF ArgumentsInStep
<1>1. i = 1 /\ ap = 0 /\ 1 \in cuts
  BY DEF Init, Divides
<1>2. {p \in 1 .. i - 1 : Asks(cuts, p)} = {}
  BY <1>1
<1> HIDE DEF Asks
<1>3. QED
  BY <1>1, <1>2, FS_EmptySet

\* Every conversion takes the argument that was meant for it: the loop stops
\* between the pieces of the format only, and there it has consumed what the
\* pieces in front of it ask for and no more (mylibc.c:213-242, 500).
THEOREM ArgumentsAreInStep == Spec => []ArgumentsInStep
BY InitInStep, NextInStep, PrintfInvariant, PTL DEF Spec
=============================================================================
