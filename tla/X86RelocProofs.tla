--------------------------- MODULE X86RelocProofs ---------------------------
(***************************************************************************)
(* What the x86_64 relocations guarantee for every section, table, address *)
(* and value: what they accept the processor reads as the address that was *)
(* meant, unless a later one lies on zeros of it, and what they refuse did *)
(* not fit.                                                                *)
(***************************************************************************)
EXTENDS X86Reloc, WordsProofs

\* The table is one of those whose places lie in the section.
TypeInv == TypeOK /\ table \in Tables

LEMMA OfIntIsWord ==
  ASSUME NEW i
  PROVE  OfInt(i) \in Word
BY DEF OfInt, Word

LEMMA LowBelow ==
  ASSUME NEW x \in Word, NEW n \in Nat
  PROVE  \A b \in Low(x, n) : b \in Nat /\ b < n
BY DEF Low, Word, Bits

LEMMA WrittenIsWord ==
  ASSUME TypeOK, NEW q
  PROVE  Written(q) \in Word
<1>1. start \in Word /\ value \in Word
  BY DEF TypeOK
<1>2. ValOf(q) \in Word /\ LocOf(q) \in Word
  BY <1>1, AddIsWord, OfIntIsWord DEF ValOf, LocOf, Add
<1>3. Not(LocOf(q)) \in Word
  BY DEF Not, Word
<1>4. QED
  BY <1>2, <1>3, AddIsWord DEF Written, Sub

\* A write stays inside the section.
LEMMA PutStays ==
  ASSUME TypeInv, NEW q \in 1 .. Len(table), TypeOf(q) \in DOMAIN Width
  PROVE  Put(mem, q) \subseteq 0 .. 8 * Size - 1
<1> DEFINE o == OffsetOf(q)
           w == Width[TypeOf(q)]
           x == Written(q)
<1>1. o \in Nat /\ 8 * o + w <= 8 * Size /\ Size \in Nat
  <2>1. table \in Tables /\ table \in Seq(STRING \X Nat \X Int)
    BY X86RelocAssumption DEF TypeInv
  <2>2. QED
    BY <2>1, X86RelocAssumption DEF OffsetOf, TypeOf
<1>2. w \in Nat
  BY DEF Width
<1>3. x \in Word
  BY WrittenIsWord DEF TypeInv
<1>4. mem \subseteq 0 .. 8 * Size - 1
  BY DEF TypeInv, TypeOK
<1>5. Put(mem, q) \subseteq mem \cup {8 * o + b : b \in Low(x, w)}
  BY DEF Put
<1> HIDE DEF o, w, x
<1>6. \A b \in Low(x, w) : b \in Nat /\ b < w
  BY <1>2, <1>3, LowBelow
<1>7. \A b \in Low(x, w) : 8 * o + b \in 0 .. 8 * Size - 1
  BY <1>1, <1>2, <1>6
<1>8. QED
  BY <1>4, <1>5, <1>7

LEMMA TypeInvInit == Init => TypeInv
<1> SUFFICES ASSUME Init PROVE TypeInv
  OBVIOUS
<1>1. table \in Tables /\ Len(table) \in Nat
  <2>1. table \in Tables /\ table \in Seq(STRING \X Nat \X Int)
    BY X86RelocAssumption DEF Init
  <2>2. QED
    BY <2>1
<1>2. start \in Word /\ value \in Word
  BY X86RelocAssumption DEF Init
<1>3. QED
  BY <1>1, <1>2, X86RelocAssumption DEF Init, TypeInv, TypeOK

LEMMA ReturnTypes ==
  ASSUME TypeInv, r <= Len(table), NEW code \in {Ok, ENOEXEC}, Return(code),
         mem' \subseteq 0 .. 8 * Size - 1
  PROVE  TypeInv'
<1>1. table \in Seq(STRING \X Nat \X Int) /\ r \in 1 .. Len(table) + 1
  BY X86RelocAssumption DEF TypeInv, TypeOK
<1>2. Len(table) \in Nat /\ r \in 1 .. Len(table)
  BY <1>1
<1>3. /\ table' = table /\ start' = start /\ value' = value /\ before' = before
      /\ r' = r + 1 /\ ret' = [ret EXCEPT ![r] = code]
  BY DEF Return
<1>4. ret' \in [1 .. Len(table) -> {None, Ok, ENOEXEC}]
  BY <1>3 DEF TypeInv, TypeOK
<1>5. r' \in 1 .. Len(table) + 1
  BY <1>2, <1>3
<1>6. QED
  BY <1>3, <1>4, <1>5 DEF TypeInv, TypeOK

\* One step per branch of do_relocate_add.
LEMMA TypeInvNext == TypeInv /\ [Next]_vars => TypeInv'
<1> SUFFICES ASSUME TypeInv, [Next]_vars PROVE TypeInv'
  OBVIOUS
<1>1. mem \subseteq 0 .. 8 * Size - 1
  BY DEF TypeInv, TypeOK
<1>2. CASE Apply
  <2>1. r \in 1 .. Len(table)
    <3>1. table \in Seq(STRING \X Nat \X Int) /\ r \in 1 .. Len(table) + 1 /\ r <= Len(table)
      BY <1>2, X86RelocAssumption DEF TypeInv, TypeOK, Apply
    <3>2. QED
      BY <3>1
  <2>2. mem' \subseteq 0 .. 8 * Size - 1
    BY <1>2, <2>1, PutStays DEF Apply
  <2>3. PICK code \in {Ok, ENOEXEC} : Return(code)
    BY <1>2 DEF Apply
  <2>4. QED
    BY <1>2, <2>2, <2>3, ReturnTypes DEF Apply
<1>3. CASE RefuseTarget
  BY <1>1, <1>3, ReturnTypes DEF RefuseTarget
<1>4. CASE Nothing
  BY <1>1, <1>4, ReturnTypes DEF Nothing
<1>5. CASE Unknown
  BY <1>1, <1>5, ReturnTypes DEF Unknown
<1>6. CASE UNCHANGED vars
  BY <1>6 DEF vars, TypeInv, TypeOK
<1>7. QED
  BY <1>2, <1>3, <1>4, <1>5, <1>6 DEF Next

LEMMA TypeInvHolds == Spec => []TypeInv
BY TypeInvInit, TypeInvNext, PTL DEF Spec

-----------------------------------------------------------------------------
(***************************************************************************)
(* Neighbours                                                              *)
(***************************************************************************)

LEMMA Indices ==
  ASSUME TypeInv
  PROVE  /\ Len(table) \in Nat /\ r \in 1 .. Len(table) + 1
         /\ \A q \in 1 .. Len(table) : OffsetOf(q) \in Nat
<1>1. table \in Seq(STRING \X Nat \X Int)
  BY X86RelocAssumption DEF TypeInv
<1>2. QED
  BY <1>1 DEF OffsetOf, TypeInv, TypeOK

LEMMA PlaceWritten ==
  ASSUME TypeInv, NEW q \in 1 .. Len(table), TypeOf(q) \in DOMAIN Width
  PROVE  /\ PlaceOf(q) = 8 * OffsetOf(q) .. 8 * OffsetOf(q) + Width[TypeOf(q)] - 1
         /\ Width[TypeOf(q)] \in Nat
         /\ \A b \in Low(Written(q), Width[TypeOf(q)]) :
              b \in Nat /\ b < Width[TypeOf(q)] /\ 8 * OffsetOf(q) + b \in PlaceOf(q)
<1>1. OffsetOf(q) \in Nat
  BY Indices
<1>2. Width[TypeOf(q)] \in Nat
  BY DEF Width
<1>3. \A b \in Low(Written(q), Width[TypeOf(q)]) : b \in Nat /\ b < Width[TypeOf(q)]
  <2>1. Written(q) \in Word
    BY WrittenIsWord DEF TypeInv
  <2>2. QED
    BY <1>2, <2>1, LowBelow
<1>4. PlaceOf(q) = 8 * OffsetOf(q) .. 8 * OffsetOf(q) + Width[TypeOf(q)] - 1
  BY DEF PlaceOf
<1>5. QED
  BY <1>1, <1>2, <1>3, <1>4

\* A step changes bits of an empty place only, the one of its relocation.
LEMMA StepIsInPlace ==
  ASSUME TypeInv, Next
  PROVE  \/ mem' = mem
         \/ /\ r \in 1 .. Len(table) /\ TypeOf(r) \in DOMAIN Width
            /\ mem \cap PlaceOf(r) = {} /\ Given(r) \subseteq PlaceOf(r)
            /\ mem' = mem \cup Given(r)
<1>1. CASE Apply
  <2>1. r \in 1 .. Len(table) /\ TypeOf(r) \in DOMAIN Width /\ mem \cap PlaceOf(r) = {}
    BY <1>1, Indices DEF Apply
  <2>2. Given(r) \subseteq PlaceOf(r)
    BY <2>1, PlaceWritten DEF Given
  <2>3. mem' = (mem \ PlaceOf(r)) \cup Given(r)
    BY <1>1 DEF Apply, Put, Given
  <2>4. QED
    BY <2>1, <2>2, <2>3
<1>2. CASE RefuseTarget \/ Nothing \/ Unknown
  BY <1>2 DEF RefuseTarget, Nothing, Unknown
<1>3. QED
  BY <1>1, <1>2 DEF Next

LEMMA StepKeepsPlaces ==
  ASSUME TypeInv, Next, NEW q \in 1 .. Len(table), q # r, Apart(q)
  PROVE  mem' \cap PlaceOf(q) = mem \cap PlaceOf(q)
BY StepIsInPlace DEF Apart, Overlap

\* Relocations into places apart from each other do not disturb each other:
\* whatever the order, a step changes no bit outside its own place.
THEOREM X86OnlyItsPlace ==
  Spec => [][\A q \in 1 .. Len(table) :
               q # r /\ Apart(q) => mem' \cap PlaceOf(q) = mem \cap PlaceOf(q)]_vars
<1> DEFINE Step == \A q \in 1 .. Len(table) :
                     q # r /\ Apart(q) => mem' \cap PlaceOf(q) = mem \cap PlaceOf(q)
<1>1. TypeInv /\ [Next]_vars => [Step]_vars
  BY StepKeepsPlaces
<1>2. QED
  BY <1>1, TypeInvHolds, PTL DEF Spec

-----------------------------------------------------------------------------
(***************************************************************************)
(* Reading back                                                            *)
(***************************************************************************)

\* An accepted relocation fits, no bit it made 1 is taken back, and it lies there
\* alone or under a later one that found none of these bits in its place.
HeldInv ==
  \A q \in 1 .. r - 1 :
    (ret[q] = Ok /\ TypeOf(q) \in DOMAIN Width) =>
      /\ ~Overflows(q) /\ Given(q) \subseteq mem
      /\ \/ mem \cap PlaceOf(q) = Given(q)
         \/ \E s \in q + 1 .. r - 1 : Overlap(q, s) /\ Given(q) \cap PlaceOf(s) = {}

LEMMA HeldNext ==
  ASSUME TypeInv, HeldInv, [Next]_vars
  PROVE  HeldInv'
<1>1. CASE UNCHANGED vars
  BY <1>1 DEF vars, HeldInv, TypeOf, Overlap, PlaceOf, Given, Overflows, Written, ValOf, LocOf, OffsetOf
<1>2. CASE Next
  <2>1. PICK code : Return(code)
    BY <1>2 DEF Next, Apply, RefuseTarget, Nothing, Unknown
  <2>2. /\ table' = table /\ start' = start /\ value' = value /\ r' = r + 1
        /\ ret' = [ret EXCEPT ![r] = code]
    BY <2>1 DEF Return
  <2>3. r \in 1 .. Len(table) /\ Len(table) \in Nat
    BY <1>2, Indices DEF Next, Apply, RefuseTarget, Nothing, Unknown
  <2>4. \A q : /\ TypeOf(q)' = TypeOf(q) /\ PlaceOf(q)' = PlaceOf(q) /\ Given(q)' = Given(q)
               /\ Overflows(q)' <=> Overflows(q)
    BY <2>2 DEF TypeOf, PlaceOf, Given, Overflows, Written, ValOf, LocOf, OffsetOf
  <2>5. \A q, s : Overlap(q, s)' <=> Overlap(q, s)
    BY <2>4 DEF Overlap
  <2>6. r' - 1 = r
    BY <2>2, <2>3
  <2> SUFFICES ASSUME NEW q \in 1 .. r, ret'[q] = Ok, TypeOf(q) \in DOMAIN Width
               PROVE  /\ ~Overflows(q) /\ Given(q) \subseteq mem'
                      /\ \/ mem' \cap PlaceOf(q) = Given(q)
                         \/ \E s \in q + 1 .. r : Overlap(q, s) /\ Given(q) \cap PlaceOf(s) = {}
    BY <2>4, <2>5, <2>6 DEF HeldInv
  <2>7. q \in 1 .. Len(table) /\ ret \in [1 .. Len(table) -> {None, Ok, ENOEXEC}]
    BY <2>3 DEF TypeInv, TypeOK
  <2>8. CASE q # r
    <3>1. ret[q] = Ok /\ q \in 1 .. r - 1 /\ r \in q + 1 .. r
      BY <2>2, <2>3, <2>7, <2>8
    <3>2. /\ ~Overflows(q) /\ Given(q) \subseteq mem
          /\ \/ mem \cap PlaceOf(q) = Given(q)
             \/ \E s \in q + 1 .. r - 1 : Overlap(q, s) /\ Given(q) \cap PlaceOf(s) = {}
      BY <3>1 DEF HeldInv
    <3>3. CASE mem' = mem
      <4>1. q + 1 .. r - 1 \subseteq q + 1 .. r
        BY <2>3, <2>7
      <4>2. QED
        BY <3>2, <3>3, <4>1
    <3>4. CASE mem' # mem
      <4>1. mem \cap PlaceOf(r) = {} /\ Given(r) \subseteq PlaceOf(r) /\ mem' = mem \cup Given(r)
        BY <1>2, <3>4, StepIsInPlace
      <4>2. Given(q) \cap PlaceOf(r) = {} /\ Given(q) \subseteq mem'
        BY <3>2, <4>1
      <4>3. CASE Overlap(q, r)
        BY <3>1, <3>2, <4>2, <4>3
      <4>4. CASE ~Overlap(q, r)
        <5>1. mem' \cap PlaceOf(q) = mem \cap PlaceOf(q)
          BY <4>1, <4>4 DEF Overlap
        <5>2. q + 1 .. r - 1 \subseteq q + 1 .. r
          BY <2>3, <2>7
        <5>3. QED
          BY <3>2, <4>2, <5>1, <5>2
      <4>5. QED
        BY <4>3, <4>4
    <3>5. QED
      BY <3>3, <3>4
  <2>9. CASE q = r
    <3>1. Apply
      BY <1>2, <2>7, <2>9 DEF Next, RefuseTarget, Nothing, Unknown, Return, Ok, ENOEXEC, Width
    <3>2. ~Overflows(q)
      BY <2>7, <2>9, <3>1 DEF Apply, Return, Ok, ENOEXEC
    <3>3. Given(q) \subseteq PlaceOf(q)
      BY <2>7, PlaceWritten DEF Given
    <3>4. mem' = (mem \ PlaceOf(q)) \cup Given(q)
      BY <2>9, <3>1 DEF Apply, Put, Given
    <3>5. QED
      BY <3>2, <3>3, <3>4
  <2>10. QED
    BY <2>8, <2>9
<1>3. QED
  BY <1>1, <1>2

\* What is at the place, taken as a number, is the low part of what was written.
LEMMA GivenIsRead ==
  ASSUME TypeInv, NEW q \in 1 .. Len(table), TypeOf(q) \in DOMAIN Width
  PROVE  {b - 8 * OffsetOf(q) : b \in Given(q)} = Low(Written(q), Width[TypeOf(q)])
<1> DEFINE o == OffsetOf(q)
           low == Low(Written(q), Width[TypeOf(q)])
<1>1. o \in Nat /\ \A b \in low : b \in Nat
  BY Indices, PlaceWritten
<1>2. Given(q) = {8 * o + b : b \in low}
  BY DEF Given
<1> HIDE DEF o, low
<1>3. \A b \in low : (8 * o + b) - 8 * o = b
  BY <1>1
<1>4. {c - 8 * o : c \in {8 * o + b : b \in low}} = low
  BY <1>3
<1>5. QED
  BY <1>2, <1>4 DEF o, low

LEMMA HeldReadsBack ==
  ASSUME TypeInv, HeldInv
  PROVE  AcceptedReadsBack
<1> SUFFICES ASSUME NEW q \in 1 .. r - 1, ret[q] = Ok, TypeOf(q) \in DOMAIN Width,
                    mem \cap PlaceOf(q) = Given(q)
             PROVE  ReadsBack(q)
  BY DEF AcceptedReadsBack, HeldInv
<1> USE DEF ReadsBack
<1> DEFINE raw == {b - 8 * OffsetOf(q) : b \in mem \cap PlaceOf(q)}
<1>1. q \in 1 .. Len(table)
  BY Indices
<1>2. ~Overflows(q) /\ raw = Low(Written(q), Width[TypeOf(q)])
  BY <1>1, GivenIsRead DEF HeldInv
<1>3. Written(q) \in Word
  BY WrittenIsWord DEF TypeInv
<1>4. ValOf(q) \in Word /\ LocOf(q) \in Word
  BY AddIsWord, OfIntIsWord DEF ValOf, LocOf, Add, TypeInv, TypeOK
<1>5. Low(Written(q), 64) = Written(q)
  BY <1>3 DEF Low, Word, Bits
<1> HIDE DEF raw
<1>6. CASE TypeOf(q) \in {"R_X86_64_PC32", "R_X86_64_PLT32"}
  <2>1. Written(q) = Sub(ValOf(q), LocOf(q)) /\ raw = Low(Written(q), 32)
    BY <1>2, <1>6 DEF Written, Relative, Width
  <2>2. Signed(raw, 32) \in Word /\ Low(Signed(raw, 32), 32) = Low(Written(q), 32)
    BY <1>3, <2>1 DEF Signed, Low, Word, Bits
  <2>3. Low(Add(LocOf(q), Signed(raw, 32)), 32) = Low(Add(LocOf(q), Written(q)), 32)
    BY <1>3, <1>4, <2>2, LowOfSum
  <2>4. Add(LocOf(q), Written(q)) = ValOf(q)
    BY <1>4, <2>1, SubThenAdd
  <2>5. Read(q) = Add(LocOf(q), Signed(raw, 32))
    BY <1>6 DEF Read, raw
  <2>6. QED
    BY <1>6, <2>3, <2>4, <2>5
<1>7. CASE TypeOf(q) = "R_X86_64_PC64"
  <2>1. Written(q) = Sub(ValOf(q), LocOf(q)) /\ raw = Written(q)
    BY <1>2, <1>5, <1>7 DEF Written, Relative, Width
  <2>2. Read(q) = Add(LocOf(q), raw)
    BY <1>7 DEF Read, raw
  <2>3. QED
    BY <1>4, <1>7, <2>1, <2>2, SubThenAdd
<1>8. CASE TypeOf(q) = "R_X86_64_64"
  BY <1>2, <1>5, <1>8 DEF Written, Relative, Width, Read, raw
<1>9. CASE TypeOf(q) = "R_X86_64_32"
  BY <1>2, <1>9 DEF Written, Relative, Width, Read, raw, Overflows
<1>10. CASE TypeOf(q) = "R_X86_64_32S"
  <2>1. raw = Low(ValOf(q), 32) /\ ValOf(q) = Signed(ValOf(q), 32)
    BY <1>2, <1>10 DEF Written, Relative, Width, Overflows
  <2>2. Signed(Low(ValOf(q), 32), 32) = Signed(ValOf(q), 32)
    BY <1>4 DEF Signed, Low, Word, Bits
  <2>3. Read(q) = Signed(raw, 32)
    BY <1>10 DEF Read, raw
  <2>4. QED
    BY <1>10, <2>1, <2>2, <2>3
<1>11. QED
  BY <1>6, <1>7, <1>8, <1>9, <1>10 DEF Width

\* An accepted relocation reads back as the address it was given, of PC32 and
\* PLT32 the low 32 bits, whatever relocations surround it; it is lost only to a
\* later one that lies on zeros of it (arch/x86_64/reloc.cpp:7-59).
THEOREM X86AcceptedReadsBack == Spec => []AcceptedReadsBack
<1>1. Init => HeldInv
  BY DEF Init, HeldInv
<1>2. QED
  BY <1>1, TypeInvHolds, HeldNext, HeldReadsBack, PTL DEF Spec

-----------------------------------------------------------------------------
(***************************************************************************)
(* Refusals                                                                *)
(***************************************************************************)

\* A place of its own that was empty is so until its relocation comes, and a
\* relocation that was refused then did not fit.
RefusedInv ==
  \A q \in 1 .. Len(table) :
    (TypeOf(q) \in DOMAIN Width /\ Apart(q) /\ before \cap PlaceOf(q) = {}) =>
      /\ q >= r => mem \cap PlaceOf(q) = {}
      /\ q < r /\ ret[q] = ENOEXEC => Overflows(q) /\ mem \cap PlaceOf(q) = Given(q)

LEMMA RefusedInit == Init => RefusedInv
<1> SUFFICES ASSUME Init, NEW q \in 1 .. Len(table), before \cap PlaceOf(q) = {}
             PROVE  mem \cap PlaceOf(q) = {} /\ ~ (q < r)
  BY DEF RefusedInv
<1>1. mem = before /\ r = 1
  BY DEF Init
<1>2. Len(table) \in Nat
  BY TypeInvInit, Indices
<1>3. QED
  BY <1>1, <1>2

LEMMA RefusedNext ==
  ASSUME TypeInv, RefusedInv, [Next]_vars
  PROVE  RefusedInv'
<1>1. CASE UNCHANGED vars
  BY <1>1 DEF vars, RefusedInv, TypeOf, Apart, Overlap, PlaceOf, Given, Overflows, Written, ValOf, LocOf, OffsetOf
<1>2. CASE Next
  <2>1. PICK code : Return(code)
    BY <1>2 DEF Next, Apply, RefuseTarget, Nothing, Unknown
  <2>2. /\ table' = table /\ start' = start /\ value' = value /\ before' = before /\ r' = r + 1
        /\ ret' = [ret EXCEPT ![r] = code]
    BY <2>1 DEF Return
  <2>3. r \in 1 .. Len(table) /\ Len(table) \in Nat
    BY <1>2, Indices DEF Next, Apply, RefuseTarget, Nothing, Unknown
  <2>4. \A q : /\ TypeOf(q)' = TypeOf(q) /\ PlaceOf(q)' = PlaceOf(q) /\ Given(q)' = Given(q)
               /\ Apart(q)' <=> Apart(q)
               /\ Overflows(q)' <=> Overflows(q)
    BY <2>2
    DEF TypeOf, Apart, Overlap, PlaceOf, Given, Overflows, Written, ValOf, LocOf, OffsetOf
  <2> SUFFICES ASSUME NEW q \in 1 .. Len(table), TypeOf(q) \in DOMAIN Width, Apart(q),
                      before \cap PlaceOf(q) = {}
               PROVE  /\ q >= r + 1 => mem' \cap PlaceOf(q) = {}
                      /\ q < r + 1 /\ ret'[q] = ENOEXEC =>
                           Overflows(q) /\ mem' \cap PlaceOf(q) = Given(q)
    BY <2>2, <2>4 DEF RefusedInv
  <2>5. ret \in [1 .. Len(table) -> {None, Ok, ENOEXEC}]
    BY DEF TypeInv, TypeOK
  <2>6. CASE q # r
    <3>1. ret'[q] = ret[q] /\ mem' \cap PlaceOf(q) = mem \cap PlaceOf(q)
      BY <1>2, <2>2, <2>5, <2>6, StepKeepsPlaces
    <3>2. /\ q >= r + 1 => q >= r
          /\ q < r + 1 => q < r
      BY <2>3, <2>6
    <3>3. QED
      BY <3>1, <3>2 DEF RefusedInv
  <2>7. CASE q = r
    <3>1. mem \cap PlaceOf(q) = {} /\ ~ (q >= r + 1)
      BY <2>3, <2>7 DEF RefusedInv
    <3>2. Apply
      BY <1>2, <2>7, <3>1 DEF Next, RefuseTarget, Nothing, Unknown, Width
    <3>3. ret'[q] = ENOEXEC => Overflows(q)
      BY <2>5, <2>7, <3>2 DEF Apply, Return, Ok, ENOEXEC
    <3>4. Given(q) \subseteq PlaceOf(q)
      BY PlaceWritten DEF Given
    <3>5. mem' = (mem \ PlaceOf(q)) \cup Given(q)
      BY <2>7, <3>2 DEF Apply, Put, Given
    <3>6. QED
      BY <3>1, <3>3, <3>4, <3>5
  <2>8. QED
    BY <2>6, <2>7
<1>3. QED
  BY <1>1, <1>2

LEMMA RefusedDoesNotFit ==
  ASSUME TypeInv, RefusedInv
  PROVE  RefusedIsOverflow
<1> SUFFICES ASSUME NEW q \in 1 .. r - 1, TypeOf(q) \in {"R_X86_64_32", "R_X86_64_32S"},
                    Apart(q), before \cap PlaceOf(q) = {}, ret[q] = ENOEXEC
             PROVE  Read(q) # ValOf(q)
  BY DEF RefusedIsOverflow
<1> DEFINE raw == {b - 8 * OffsetOf(q) : b \in mem \cap PlaceOf(q)}
<1>1. q \in 1 .. Len(table) /\ q < r /\ TypeOf(q) \in DOMAIN Width
  BY Indices DEF Width
<1>2. Overflows(q) /\ mem \cap PlaceOf(q) = Given(q)
  BY <1>1 DEF RefusedInv
<1>3. Written(q) = ValOf(q) /\ Width[TypeOf(q)] = 32
  BY DEF Written, Relative, Width
<1>4. raw = Low(ValOf(q), 32)
  BY <1>1, <1>2, <1>3, GivenIsRead
<1>5. Signed(Low(ValOf(q), 32), 32) = Signed(ValOf(q), 32)
  <2>1. ValOf(q) \in Word
    BY <1>3, WrittenIsWord DEF TypeInv
  <2>2. QED
    BY <2>1 DEF Signed, Low, Word, Bits
<1> HIDE DEF raw
<1>6. CASE TypeOf(q) = "R_X86_64_32"
  BY <1>2, <1>4, <1>6 DEF Overflows, Read, raw
<1>7. CASE TypeOf(q) = "R_X86_64_32S"
  BY <1>2, <1>4, <1>5, <1>7 DEF Overflows, Read, raw
<1>8. QED
  BY <1>6, <1>7

\* A relocation with a place of its own, in which the file has nothing, is refused
\* only if the place cannot hold its value (arch/x86_64/reloc.cpp:17-30).
THEOREM X86RefusedIsOverflow == Spec => []RefusedIsOverflow
BY RefusedInit, TypeInvHolds, RefusedNext, RefusedDoesNotFit, PTL DEF Spec
=============================================================================
