------------------------------- MODULE Printf -------------------------------
(***************************************************************************)
(* my_printf of examples/aarch64/mylibc.c, the library object that the     *)
(* objects of the AArch64 example are linked to: simple_vsprintf formats   *)
(* into a buffer, one character or conversion of the format after the      *)
(* other, and my_write writes as much of the buffer as was counted.        *)
(*                                                                         *)
(* Characters are one-character strings.  An argument is [num, text]: the  *)
(* bits va_arg gives, and for a %c or %s the characters they stand for.    *)
(***************************************************************************)
EXTENDS Integers, Sequences, FiniteSets, SequencesExt

\* 2^n, as a function that proofs can unfold.
Pow[n \in Nat] == IF n = 0 THEN 1 ELSE 2 * Pow[n - 1]

CONSTANTS
  Calls,          \* the calls: [fmt, args]
  Garbage,        \* what the union u may hold before it is written
  CharBits,       \* the widths of the types of C
  ShortBits,
  IntBits,
  LongBits,       \* of long, long long and pointers
  PRINT_BUF_LEN,  \* the length of print_buf, 64
  BufLen          \* the length of g_buff, 1024

NUL == "NUL"

\* A string has no NUL.  print_buf has room for a positive int in binary and for
\* a long in decimal with its sign; each digit of base 10 or 16 has three bits.
ASSUME PrintfAssumption ==
  /\ {CharBits, ShortBits, IntBits, LongBits, PRINT_BUF_LEN, BufLen} \subseteq Nat
  /\ 0 < CharBits /\ CharBits <= ShortBits /\ ShortBits <= IntBits /\ IntBits <= LongBits
  /\ IntBits <= PRINT_BUF_LEN /\ LongBits <= 3 * (PRINT_BUF_LEN - 2)
  /\ Garbage \subseteq 0 .. Pow[LongBits] - 1
  /\ \A c \in Calls :
       /\ c.fmt \in Seq(STRING \ {NUL})
       /\ c.args \in Seq([num : 0 .. Pow[LongBits] - 1, text : Seq(STRING)])

LF  == "\n"
CR  == "\r"
Blank == " "
Null  == <<"(", "n", "u", "l", "l", ")">>

Digit == <<"0", "1", "2", "3", "4", "5", "6", "7", "8", "9", "a", "b", "c", "d", "e", "f">>
UpperDigit == <<"0", "1", "2", "3", "4", "5", "6", "7", "8", "9", "A", "B", "C", "D", "E", "F">>

Decimal == {Digit[d] : d \in 1 .. 10}

VARIABLES
  fmt,      \* the format
  args,     \* the arguments behind it
  i,        \* where format points to
  ap,       \* the arguments va_arg has consumed
  u,        \* the bits of the union u
  out,      \* what is in the buffer
  pc,       \* the count simple_vsprintf keeps
  written,  \* what my_write was given
  status    \* "running", "written", or "undefined" when C says nothing any more

vars == <<fmt, args, i, ap, u, out, pc, written, status>>

Init ==
  /\ \E c \in Calls : fmt = c.fmt /\ args = c.args
  /\ u \in Garbage
  /\ i = 1 /\ ap = 0
  /\ out = <<>> /\ pc = 0
  /\ written = <<>>
  /\ status = "running"

-----------------------------------------------------------------------------
(***************************************************************************)
(* The pieces of a conversion: %, -, zeros, a width, l or h, a letter      *)
(***************************************************************************)

At(p) == IF p <= Len(fmt) THEN fmt[p] ELSE NUL

\* The first position from p on that has no character of set.
SkipAll(p, set) == CHOOSE q \in p .. Len(fmt) + 1 :
  At(q) \notin set /\ \A x \in p .. q - 1 : At(x) \in set

ZerosAt == IF At(i + 1) = "-" THEN i + 2 ELSE i + 1
WidthAt == SkipAll(ZerosAt, {"0"})
Star    == At(WidthAt) = "*"
LengthAt == IF Star THEN WidthAt + 1 ELSE SkipAll(WidthAt, Decimal)

Flags == (IF ZerosAt = i + 2 THEN {"PAD_RIGHT"} ELSE {})
           \cup (IF WidthAt > ZerosAt THEN {"PAD_ZERO"} ELSE {})

\* l, ll, h, hh or nothing.
Length ==
  LET c == At(LengthAt)
  IN  IF c \notin {"l", "h"} THEN <<>>
      ELSE IF At(LengthAt + 1) = c THEN <<c, c>> ELSE <<c>>

LetterAt == LengthAt + Len(Length)
Letter   == At(LetterAt)

Signed(x, bits) ==
  LET low == x % Pow[bits] IN IF low < Pow[bits - 1] THEN low ELSE low - Pow[bits]

IsValueOf(d, c) == c \in {Digit[d + 1], UpperDigit[d + 1]}

\* The number the digits of a text stand for.
NumberOf(text, base) ==
  LET value[n \in 0 .. Len(text)] ==
        IF n = 0 THEN 0
        ELSE IF \E d \in 0 .. 15 : IsValueOf(d, text[n])
             THEN base * value[n - 1] + CHOOSE d \in 0 .. 15 : IsValueOf(d, text[n])
             ELSE value[n - 1]
  IN  value[Len(text)]

Width ==
  IF Star THEN Signed(args[ap + 1].num, IntBits)
  ELSE NumberOf(SubSeq(fmt, WidthAt, LengthAt - 1), 10)

\* Faulty variant: the width shares its argument.
ArgAtWithoutWidth == ap + 1

\* The argument of the conversion; the width may have taken one.
ArgAt == ap + (IF Star THEN 2 ELSE 1)

-----------------------------------------------------------------------------
(***************************************************************************)
(* prints and simple_outputi                                               *)
(***************************************************************************)

Padding(n, c) == [x \in 1 .. n |-> c]

\* prints: the string in a field of the width.
Prints(s, width, flags) ==
  LET pad == Padding(IF width <= Len(s) THEN 0 ELSE width - Len(s),
                     IF "PAD_ZERO" \in flags THEN "0" ELSE Blank)
  IN  IF "PAD_RIGHT" \in flags THEN s \o pad ELSE pad \o s

\* What is left of the number after n turns of the loop: u /= base.
Left(number, base) ==
  LET left[n \in Nat] == IF n = 0 THEN number ELSE left[n - 1] \div base IN left

\* The turns until nothing is left; 0 has a digit, too.
NumDigits(number, base) ==
  CHOOSE n \in 1 .. LongBits :
    Left(number, base)[n] = 0 /\ \A m \in 1 .. n - 1 : Left(number, base)[m] # 0

\* The digits simple_outputi puts into print_buf, from its end on.
DigitsOf(number, base, digit) ==
  LET len == NumDigits(number, base)
  IN  [x \in 1 .. len |-> digit[(Left(number, base)[len - x] % base) + 1]]

Negative(v, letter) == letter = "d" /\ v < 0

BaseOf(letter) == CASE letter \in {"d", "u"} -> 10 [] letter = "b" -> 2 [] OTHER -> 16

\* What is in print_buf for the long long v, without the sign; -v wraps for
\* the least of them, which gives the same bits.
PrintBuf(v, letter) ==
  DigitsOf(IF Negative(v, letter) THEN -v ELSE v % Pow[LongBits], BaseOf(letter),
           IF letter = "X" THEN UpperDigit ELSE Digit)

\* Is the sign put in front of the zeros?
SignFirst(v, letter, width, flags) ==
  Negative(v, letter) /\ width # 0 /\ "PAD_ZERO" \in flags

\* Faulty variant: the zeros go in front of the sign.
OutputISignLast(v, letter, width, flags) ==
  Prints((IF Negative(v, letter) THEN <<"-">> ELSE <<>>) \o PrintBuf(v, letter), width, flags)

\* simple_outputi
OutputI(v, letter, width, flags) ==
  IF SignFirst(v, letter, width, flags)
  THEN <<"-">> \o Prints(PrintBuf(v, letter), width - 1, flags)
  ELSE Prints((IF Negative(v, letter) THEN <<"-">> ELSE <<>>) \o PrintBuf(v, letter), width, flags)

\* simple_outputi has room for the digits, a sign and the end.
FitsPrintBuf(v, letter, width, flags) ==
  v # 0 =>
    Len(PrintBuf(v, letter)) + 1
      + (IF Negative(v, letter) /\ ~SignFirst(v, letter, width, flags) THEN 1 ELSE 0) <= PRINT_BUF_LEN

-----------------------------------------------------------------------------
(***************************************************************************)
(* simple_vsprintf                                                         *)
(***************************************************************************)

Running == status = "running"

\* Characters go to the buffer, and the count follows.
Output(text, count) ==
  /\ out' = out \o text
  /\ pc' = pc + count
  /\ status' = IF Len(out') <= BufLen THEN "running" ELSE "undefined"

\* Faulty variant: the count has both characters of a line end.
PutBoth(c) ==
  LET text == IF c = LF THEN <<CR, LF>> ELSE <<c>> IN Output(text, Len(text))

\* A line feed becomes two characters but counts as one.
Put(c) == Output(IF c = LF THEN <<CR, LF>> ELSE <<c>>, 1)

Literal ==
  /\ Running /\ At(i) \notin {"%", NUL}
  /\ Put(At(i))
  /\ i' = i + 1
  /\ UNCHANGED <<fmt, args, ap, u, written>>

Percent ==
  /\ Running /\ At(i) = "%" /\ At(i + 1) = "%"
  /\ Put("%")
  /\ i' = i + 2
  /\ UNCHANGED <<fmt, args, ap, u, written>>

\* Faulty variant: the end behind a % is taken for a letter.
LonePercentGoesOn ==
  /\ Running /\ At(i) = "%" /\ At(i + 1) = NUL
  /\ status' = "undefined"
  /\ UNCHANGED <<fmt, args, i, ap, u, out, pc, written>>

\* A % at the end ends the loop.
LonePercent ==
  /\ Running /\ At(i) = "%" /\ At(i + 1) = NUL
  /\ i' = i + 1
  /\ UNCHANGED <<fmt, args, ap, u, out, pc, written, status>>

IsInteger == Letter \in {"d", "u", "x", "X"} \/ (Length = <<>> /\ Letter \in {"b", "p"})
IsChar    == Length = <<>> /\ Letter = "c"
IsString  == Length = <<>> /\ Letter = "s"

\* The call has the arguments of this conversion.
Given == (IF IsInteger \/ IsChar \/ IsString THEN ArgAt ELSE ArgAt - 1) <= Len(args)

AtConversion == Running /\ At(i) = "%" /\ At(i + 1) \notin {"%", NUL}

Conversion == AtConversion /\ Given

\* va_arg behind the last argument.
MissingArgument ==
  /\ AtConversion /\ ~Given
  /\ status' = "undefined"
  /\ UNCHANGED <<fmt, args, i, ap, u, out, pc, written>>

\* The width of the member of u that the conversion writes.
MemberBits ==
  CASE Letter = "c" \/ Length = <<"h", "h">> -> CharBits
    [] Length = <<"h">> -> ShortBits
    [] Letter \in {"p", "s"} \/ Length \in {<<"l">>, <<"l", "l">>} -> LongBits
    [] OTHER -> IntBits

\* u with its low bits written by va_arg; the bits above them stay.
WriteMember(x) == (u \div Pow[MemberBits]) * Pow[MemberBits] + (x % Pow[MemberBits])

\* Faulty variant: reads as unsigned what was written as signed.
ReadMemberUnsigned(x) == Signed(x % Pow[MemberBits], LongBits)

\* The long long simple_outputi is given: of an unsigned short or char it is
\* all of u (u.lli), of the others the member that was written.
ReadMember(x) ==
  IF Letter \in {"d", "b"} THEN Signed(x, MemberBits)
  ELSE IF Length \in {<<"h">>, <<"h", "h">>} THEN Signed(x, LongBits)
  ELSE Signed(x % Pow[MemberBits], LongBits)

\* The conversion is over: the loop goes on behind its letter.
Converted ==
  /\ ap' = ArgAt
  /\ i' = LetterAt + 1
  /\ UNCHANGED <<fmt, args, written>>

PrintNumber ==
  /\ Conversion /\ IsInteger
  /\ u' = WriteMember(args[ArgAt].num)
  /\ LET v == ReadMember(u')
         text == OutputI(v, Letter, Width, Flags)
     IN  IF FitsPrintBuf(v, Letter, Width, Flags) THEN Output(text, Len(text))
         ELSE status' = "undefined" /\ UNCHANGED <<out, pc>>
  /\ Converted

PrintText ==
  /\ Conversion /\ (IsChar \/ IsString)
  /\ u' = WriteMember(args[ArgAt].num)
  /\ LET null == IsString /\ args[ArgAt].num = 0
         text == Prints(IF null THEN Null ELSE args[ArgAt].text,
                        Width, Flags)
     IN  Output(text, Len(text))
  /\ Converted

\* A letter that is none of these: only a width of * takes an argument.
Unknown ==
  /\ Conversion /\ ~(IsInteger \/ IsChar \/ IsString) /\ Letter # NUL
  /\ ap' = ArgAt - 1
  /\ i' = LetterAt + 1
  /\ UNCHANGED <<fmt, args, u, out, pc, written, status>>

\* The format ends before the letter, and the loop goes on behind its end.
CutOff ==
  /\ Conversion /\ Letter = NUL
  /\ ap' = ArgAt - 1
  /\ status' = "undefined"
  /\ UNCHANGED <<fmt, args, i, u, out, pc, written>>

\* The end of the string is stored but not counted; my_printf writes what was
\* counted.
Write ==
  /\ Running /\ At(i) = NUL
  /\ IF Len(out) < BufLen THEN written' = SubSeq(out, 1, pc) /\ status' = "written"
     ELSE status' = "undefined" /\ UNCHANGED written
  /\ UNCHANGED <<fmt, args, i, ap, u, out, pc>>

Next ==
  \/ Literal \/ Percent \/ LonePercent
  \/ PrintNumber \/ PrintText \/ Unknown \/ CutOff \/ MissingArgument
  \/ Write

Spec == Init /\ [][Next]_vars

-----------------------------------------------------------------------------
(***************************************************************************)
(* What formatting must achieve                                            *)
(***************************************************************************)

\* The call passes no carriage return of its own.
NoReturns ==
  /\ \A p \in 1 .. Len(fmt) : fmt[p] # CR
  /\ \A a \in 1 .. Len(args) : \A p \in 1 .. Len(args[a].text) : args[a].text[p] # CR

\* The count falls behind the buffer by one for every line feed and by nothing
\* else, and what my_write is given is the beginning of the text, as long as the
\* count (mylibc.c:504-508, 522-526).
CountMissesReturns ==
  /\ NoReturns => pc = Cardinality({p \in 1 .. Len(out) : out[p] # CR})
  /\ status = "written" => IsPrefix(written, out) /\ Len(written) = pc

\* fmt from p up to q is a conversion: %, a -, zeros, a width, l or h, a letter.
IsConversion(p, q) ==
  /\ fmt[p] = "%" /\ fmt[q - 1] \notin Decimal \cup {"%", "-", "*", "l", "h"}
  /\ \E zeros, width, length \in p + 1 .. q - 1 :
       /\ zeros = p + 1 \/ (zeros = p + 2 /\ fmt[p + 1] = "-")
       /\ zeros <= width /\ \A x \in zeros .. width - 1 : fmt[x] = "0"
       /\ \/ fmt[width] = "*" /\ length = width + 1
          \/ width <= length /\ fmt[width] # "0" /\ \A x \in width .. length - 1 : fmt[x] \in Decimal
       /\ q - 1 <= length + 2
       /\ \A x \in length .. q - 2 : fmt[x] \in {"l", "h"} /\ fmt[x] = fmt[length]

\* Or it is a character, or the two that stand for a %.
IsText(p, q) ==
  \/ q = p + 1 /\ fmt[p] # "%"
  \/ q = p + 2 /\ fmt[p] = "%" /\ fmt[p + 1] = "%"

\* These positions divide the format into texts and conversions.
Divides(cuts) ==
  /\ {1, Len(fmt) + 1} \subseteq cuts
  /\ \A p \in cuts \ {Len(fmt) + 1} : \E q \in cuts :
       /\ p < q /\ \A x \in p + 1 .. q - 1 : x \notin cuts
       /\ IsText(p, q) \/ IsConversion(p, q)

\* A * within a conversion asks for an argument, and a letter that is one.
Asks(cuts, p) ==
  /\ p \notin cuts
  /\ \/ fmt[p] = "*"
     \/ /\ p + 1 \in cuts
        /\ \/ fmt[p] \in {"d", "u", "x", "X"}
           \/ fmt[p] \in {"b", "p", "c", "s"} /\ fmt[p - 1] \notin {"l", "h"}

\* Every conversion takes the argument that was meant for it: the loop stops
\* between the pieces of the format only, and there it has consumed what the
\* pieces in front of it ask for and no more (mylibc.c:213-242, 500).
ArgumentsInStep ==
  status # "undefined" =>
    \A cuts \in SUBSET (1 .. Len(fmt) + 1) :
      Divides(cuts) => i \in cuts /\ ap = Cardinality({p \in 1 .. i - 1 : Asks(cuts, p)})

\* The behaviour is undefined for four reasons only: the format ends within a
\* conversion, it has more conversions and * than the call has arguments, %b has
\* a negative number, whose digits and their end do not fit into print_buf, or the
\* text is too long (mylibc.c:152-176, 213-231, 518).
UndefinedHasCause ==
  status = "undefined" =>
    \/ \E p \in 1 .. Len(fmt) - 1 :
         fmt[p] = "%" /\ \A q \in p + 1 .. Len(fmt) : fmt[q] \in Decimal \cup {"-", "*", "l", "h"}
    \/ Len(args) < Cardinality({p \in 1 .. Len(fmt) - 1 : fmt[p] \in {"%", "*"}})
    \/ Contains(fmt, "b") /\ \E a \in 1 .. Len(args) : Signed(args[a].num, IntBits) < 0
    \/ Len(out) >= BufLen

\* The field a step has added, and the number in it.
Field == SubSeq(out', Len(out) + 1, Len(out'))

ReadNumber ==
  IF Contains(Field, "-") THEN -NumberOf(Field, 10) ELSE NumberOf(Field, BaseOf(Letter))

\* The unsigned conversions of short and char print all of u.
PrintsUnion == Length \in {<<"h">>, <<"h", "h">>} /\ Letter # "d"

\* Zeros that fill the field behind the number are read as a part of it.
ZerosBehind == Flags = {"PAD_RIGHT", "PAD_ZERO"}

\* What a conversion prints reads back as its argument, whatever the conversions
\* before it left in u; of an unsigned short or char only the low bits do
\* (mylibc.c:197-211, 395-495).
FieldReadsBack ==
  [][ (PrintNumber /\ status' = "running" /\ ~ZerosBehind) =>
        LET arg == args[ArgAt].num
        IN  IF PrintsUnion THEN (ReadNumber - arg) % Pow[MemberBits] = 0
            ELSE ReadNumber = CASE Letter = "d" -> Signed(arg, MemberBits)
                                [] Letter = "b" -> Signed(arg, IntBits) % Pow[LongBits]
                                [] OTHER -> arg % Pow[MemberBits] ]_vars

\* A number is as wide as it was asked to be, padded on one side only and no
\* more than that, with its sign before all digits (mylibc.c:115-147, 179-189).
FieldIsPadded ==
  [][ (PrintNumber /\ status' = "running") =>
        LET blanks == {p \in 1 .. Len(Field) : Field[p] = Blank}
            signs  == {p \in 1 .. Len(Field) : Field[p] = "-"}
            zero   == \E p \in 1 .. Len(Field) :
                        Field[p] = "0" /\ \A q \in 1 .. p - 1 : Field[q] \in {Blank, "-"}
        IN  /\ Len(Field) >= Width
            /\ Len(Field) > Width => blanks = {} /\ (zero => Field = <<"0">>)
            /\ blanks = IF "PAD_RIGHT" \in Flags THEN Len(Field) - Cardinality(blanks) + 1 .. Len(Field)
                        ELSE 1 .. Cardinality(blanks)
            /\ \A s \in signs : 1 .. s - 1 \subseteq blanks ]_vars
=============================================================================
