-------------------------------- MODULE Words --------------------------------
(***************************************************************************)
(* uint64_t and int64_t in two's complement: a word is the set of its bits *)
(* that are 1, so that the widths and shifts of the relocation code are    *)
(* the real ones.                                                          *)
(***************************************************************************)
EXTENDS Integers

Bits == 0 .. 63

Word == SUBSET Bits

Not(x)    == Bits \ x
Xor(x, y) == (x \ y) \cup (y \ x)

\* The bits a carry comes into when x and y are added: one is born where both
\* bits are 1 and goes on where one is.
Carries(x, y, carry) ==
  {b \in Bits : \/ \E i \in x \cap y : i < b /\ (i + 1 .. b - 1) \subseteq x \cup y
                \/ carry /\ (0 .. b - 1) \subseteq x \cup y}

\* x + y, or x + y + 1 if carry, modulo 2^64.
AddCarry(x, y, carry) == Xor(Xor(x, y), Carries(x, y, carry))

Add(x, y) == AddCarry(x, y, FALSE)
Sub(x, y) == AddCarry(x, Not(y), TRUE)

\* x << n.
Shl(x, n) == {b + n : b \in x} \cap Bits

\* x >> n of a uint64_t, and of an int64_t, whose sign fills up.
Shr(x, n) == {b - n : b \in x} \cap Bits
Asr(x, n) == Shr(x, n) \cup IF 63 \in x THEN 64 - n .. 63 ELSE {}

\* The n low bits of x, as an unsigned and as a signed number.
Low(x, n)    == {b \in x : b < n}
Signed(x, n) == Low(x, n) \cup IF n - 1 \in x THEN n .. 63 ELSE {}

\* 2^e, and a small integer, as words.
Pow(e) == {e}

OfInt(i) == {b \in Bits : IF b < 30 THEN (i \div 2^b) % 2 = 1 ELSE i < 0}
=============================================================================
