------------------------------ MODULE X86Reloc ------------------------------
(***************************************************************************)
(* do_relocate_add of arch/x86_64/reloc.cpp, called by the loop of         *)
(* apply_relocate_add (module/module.cpp) for the relocations of a piece   *)
(* of a section, which may lie side by side or on top of each other.       *)
(***************************************************************************)
EXTENDS Words, Sequences

CONSTANTS
  Tables,    \* the sequences of relocations: <<type, offset, addend>>
  Placings,  \* where the section may lie and what the symbol's value is: <<start, value>>
  Contents,  \* what the section may hold before
  Size       \* the bytes of the section

\* The bits that a supported type reads and writes.
Width ==
  [R_X86_64_64 |-> 64, R_X86_64_32 |-> 32, R_X86_64_32S |-> 32,
   R_X86_64_PC32 |-> 32, R_X86_64_PLT32 |-> 32, R_X86_64_PC64 |-> 64]

\* The linker's tools write no relocation beyond the end of its section; the
\* loader does not ask.
ASSUME X86RelocAssumption ==
  /\ Size \in Nat
  /\ Placings \subseteq Word \X Word
  /\ Contents \subseteq SUBSET (0 .. 8 * Size - 1)
  /\ Tables \subseteq Seq(STRING \X Nat \X Int)
  /\ \A t \in Tables : \A q \in 1 .. Len(t) :
       t[q][1] \in DOMAIN Width => 8 * t[q][2] + Width[t[q][1]] <= 8 * Size

VARIABLES
  table,   \* the relocations
  start,   \* the address of the section
  value,   \* the value of the symbol all of them refer to
  before,  \* the bits of the section that were 1 before the first relocation
  mem,     \* the bits of the section that are 1; bit 8 * o + b is bit b of byte o
  ret,     \* ret[r]: what do_relocate_add returned for relocation r
  r        \* the relocation the loop is at

vars == <<table, start, value, before, mem, ret, r>>

\* The values of ret; "none" before the call.
Ok      == "0"
ENOEXEC == "-ENOEXEC"
None    == "none"

Relative == {"R_X86_64_PC32", "R_X86_64_PLT32", "R_X86_64_PC64"}

TypeOf(q)   == table[q][1]
OffsetOf(q) == table[q][2]

\* loc and val of relocation q.
LocOf(q) == Add(start, OfInt(OffsetOf(q)))
ValOf(q) == Add(value, OfInt(table[q][3]))

\* The bits of the section relocation q is about.
PlaceOf(q) ==
  IF TypeOf(q) \in DOMAIN Width
  THEN 8 * OffsetOf(q) .. 8 * OffsetOf(q) + Width[TypeOf(q)] - 1
  ELSE {}

Init ==
  /\ table \in Tables
  /\ \E p \in Placings : start = p[1] /\ value = p[2]
  /\ before \in Contents
  /\ mem = before
  /\ ret = [q \in 1 .. Len(table) |-> None]
  /\ r = 1

-----------------------------------------------------------------------------

\* The loop of apply_relocate_add goes on whatever was returned.
Return(code) ==
  /\ ret' = [ret EXCEPT ![r] = code]
  /\ r' = r + 1
  /\ UNCHANGED <<table, start, value, before>>

\* What a relocation of type q writes, before it is cut to its width.
Written(q) == IF TypeOf(q) \in Relative THEN Sub(ValOf(q), LocOf(q)) ELSE ValOf(q)

\* Faulty variant: R_X86_64_32S is compared as an unsigned number.
OverflowsUnsigned(q) ==
  TypeOf(q) \in {"R_X86_64_32", "R_X86_64_32S"} /\ ValOf(q) # Low(ValOf(q), 32)

\* Only the absolute types are checked.
Overflows(q) ==
  \/ TypeOf(q) = "R_X86_64_32" /\ ValOf(q) # Low(ValOf(q), 32)
  \/ TypeOf(q) = "R_X86_64_32S" /\ ValOf(q) # Signed(ValOf(q), 32)

\* Replace the bits of the place of relocation q.
Put(word, q) ==
  LET at == 8 * OffsetOf(q)
  IN  (word \ PlaceOf(q)) \cup {at + b : b \in Low(Written(q), Width[TypeOf(q)])}

\* Faulty variant: adds to what is there.
ApplyOnTop ==
  /\ r <= Len(table) /\ TypeOf(r) \in DOMAIN Width
  /\ mem' = Put(mem, r)
  /\ Return(IF Overflows(r) THEN ENOEXEC ELSE Ok)

\* The place is written whether the value fits or not.
Apply ==
  /\ r <= Len(table) /\ TypeOf(r) \in DOMAIN Width
  /\ mem \cap PlaceOf(r) = {}
  /\ mem' = Put(mem, r)
  /\ Return(IF Overflows(r) THEN ENOEXEC ELSE Ok)

\* invalid_relocation: the place is not empty.
RefuseTarget ==
  /\ r <= Len(table) /\ TypeOf(r) \in DOMAIN Width
  /\ mem \cap PlaceOf(r) # {}
  /\ Return(ENOEXEC)
  /\ UNCHANGED mem

Nothing ==
  /\ r <= Len(table) /\ TypeOf(r) = "R_X86_64_NONE"
  /\ Return(Ok)
  /\ UNCHANGED mem

Unknown ==
  /\ r <= Len(table) /\ TypeOf(r) \notin DOMAIN Width \cup {"R_X86_64_NONE"}
  /\ Return(ENOEXEC)
  /\ UNCHANGED mem

Next == Apply \/ RefuseTarget \/ Nothing \/ Unknown

Spec == Init /\ [][Next]_vars

-----------------------------------------------------------------------------
(***************************************************************************)
(* What relocation must achieve                                            *)
(***************************************************************************)

TypeOK ==
  /\ start \in Word /\ value \in Word
  /\ before \subseteq 0 .. 8 * Size - 1
  /\ mem \subseteq 0 .. 8 * Size - 1
  /\ ret \in [1 .. Len(table) -> {None, Ok, ENOEXEC}]
  /\ r \in 1 .. Len(table) + 1

\* The address that the processor makes of the place of relocation q.
Read(q) ==
  LET raw == {b - 8 * OffsetOf(q) : b \in mem \cap PlaceOf(q)}
  IN  CASE TypeOf(q) = "R_X86_64_32"  -> raw
        [] TypeOf(q) = "R_X86_64_32S" -> Signed(raw, 32)
        [] TypeOf(q) \in {"R_X86_64_PC32", "R_X86_64_PLT32"} -> Add(LocOf(q), Signed(raw, 32))
        [] TypeOf(q) = "R_X86_64_PC64" -> Add(LocOf(q), raw)
        [] OTHER -> raw

\* The place of relocation q reads as the address that was asked for.  PC32 and
\* PLT32 are accepted without a check (reloc.cpp:31-37), so of them only the low
\* 32 bits are certain.
ReadsBack(q) ==
  IF TypeOf(q) \in {"R_X86_64_PC32", "R_X86_64_PLT32"}
  THEN Low(Read(q), 32) = Low(ValOf(q), 32)
  ELSE Read(q) = ValOf(q)

\* The bits that relocation q makes 1.
Given(q) == {8 * OffsetOf(q) + b : b \in Low(Written(q), Width[TypeOf(q)])}

\* Two relocations are about some of the same bits.
Overlap(q, s) == PlaceOf(q) \cap PlaceOf(s) # {}

\* An accepted relocation reads back as the address that was asked for and keeps
\* doing so, whatever is applied beside it or on top of it: one of the same place
\* is refused, since the place is not empty (reloc.cpp:13-39).  The test cannot
\* see a relocation that left zeros there, and only such a one is ever lost.
AcceptedReadsBack ==
  \A q \in 1 .. r - 1 :
    (ret[q] = Ok /\ TypeOf(q) \in DOMAIN Width) =>
      \/ ReadsBack(q)
      \/ \E s \in q + 1 .. r - 1 : Overlap(q, s) /\ Given(q) \cap PlaceOf(s) = {}

\* No other relocation is about a bit of the place of relocation q.
Apart(q) == \A s \in 1 .. Len(table) : s # q => ~Overlap(s, q)

\* A relocation with a place of its own, in which the file has nothing, is
\* refused only if the place cannot hold the value (reloc.cpp:17-30), at both ends
\* of the range: what it leaves there does not read as the value.
RefusedIsOverflow ==
  \A q \in 1 .. r - 1 :
    (/\ TypeOf(q) \in {"R_X86_64_32", "R_X86_64_32S"}
     /\ Apart(q) /\ before \cap PlaceOf(q) = {}
     /\ ret[q] = ENOEXEC) => Read(q) # ValOf(q)
=============================================================================
