---------------------------- MODULE Aarch64Reloc ----------------------------
(***************************************************************************)
(* do_relocate_add of arch/aarch64/reloc.cpp, called by the loop of        *)
(* apply_relocate_add (module/module.cpp) for the relocations of a piece   *)
(* of code that together make one address: a branch, an adrp with its add, *)
(* a movz with three movk.                                                 *)
(*                                                                         *)
(* A place is the 64 bits of memory from its address on; an instruction is *)
(* the low 32 of them.  The P32 types take the same branches as the types  *)
(* of the same name and are not listed.                                    *)
(***************************************************************************)
EXTENDS Words, Sequences

CONSTANTS
  Codes,     \* the sequences of relocations, <<type, addend>> for each place
  Placings,  \* where code may lie and what address it is to make: <<start, value>>
  Contents   \* what a place may hold before

\* Code lies at a multiple of four bytes.
ASSUME Aarch64RelocAssumption ==
  /\ Codes \subseteq Seq(STRING \X Int)
  /\ Placings \subseteq Word \X Word
  /\ \A p \in Placings : Low(p[1], 2) = {}
  /\ Contents \subseteq Word

VARIABLES
  code,    \* the relocations of the code
  start,   \* the address of its first place
  value,   \* the value of the symbol all of them refer to
  mem,     \* mem[r]: the 64 bits at place r
  ret,     \* ret[r]: what do_relocate_add returned for relocation r
  r        \* the relocation the loop is at

vars == <<code, start, value, mem, ret, r>>

\* The values of ret; "none" before the call.
Ok      == "0"
ENOEXEC == "-ENOEXEC"
None    == "none"

\* The relocation types, with the arguments do_relocate_add passes on.
DataType(op, len, check) == [op |-> op, len |-> len, check |-> check]

Data ==
  [ABS64  |-> DataType("ABS", 64, FALSE),
   ABS32  |-> DataType("ABS", 32, TRUE),
   ABS16  |-> DataType("ABS", 16, TRUE),
   PREL64 |-> DataType("PREL", 64, FALSE),
   PREL32 |-> DataType("PREL", 32, TRUE),
   PREL16 |-> DataType("PREL", 16, TRUE)]

MovwType(op, lsb, kind, check) == [op |-> op, lsb |-> lsb, kind |-> kind, check |-> check]

Movw ==
  [MOVW_UABS_G0_NC |-> MovwType("ABS", 0, "MOVKZ", FALSE),
   MOVW_UABS_G0    |-> MovwType("ABS", 0, "MOVKZ", TRUE),
   MOVW_UABS_G1_NC |-> MovwType("ABS", 16, "MOVKZ", FALSE),
   MOVW_UABS_G1    |-> MovwType("ABS", 16, "MOVKZ", TRUE),
   MOVW_UABS_G2_NC |-> MovwType("ABS", 32, "MOVKZ", FALSE),
   MOVW_UABS_G2    |-> MovwType("ABS", 32, "MOVKZ", TRUE),
   MOVW_UABS_G3    |-> MovwType("ABS", 48, "MOVKZ", FALSE),
   MOVW_SABS_G0    |-> MovwType("ABS", 0, "MOVNZ", TRUE),
   MOVW_SABS_G1    |-> MovwType("ABS", 16, "MOVNZ", TRUE),
   MOVW_SABS_G2    |-> MovwType("ABS", 32, "MOVNZ", TRUE),
   MOVW_PREL_G0_NC |-> MovwType("PREL", 0, "MOVKZ", FALSE),
   MOVW_PREL_G0    |-> MovwType("PREL", 0, "MOVNZ", TRUE),
   MOVW_PREL_G1_NC |-> MovwType("PREL", 16, "MOVKZ", FALSE),
   MOVW_PREL_G1    |-> MovwType("PREL", 16, "MOVNZ", TRUE),
   MOVW_PREL_G2_NC |-> MovwType("PREL", 32, "MOVKZ", FALSE),
   MOVW_PREL_G2    |-> MovwType("PREL", 32, "MOVNZ", TRUE),
   MOVW_PREL_G3    |-> MovwType("PREL", 48, "MOVNZ", FALSE)]

ImmType(op, lsb, len, field, check) ==
  [op |-> op, lsb |-> lsb, len |-> len, field |-> field, check |-> check]

\* The two ADRP types come from reloc_insn_adrp: no offset is forbidden.
Imm ==
  [LD_PREL_LO19         |-> ImmType("PREL", 2, 19, "IMM_19", TRUE),
   ADR_PREL_LO21        |-> ImmType("PREL", 0, 21, "IMM_ADR", TRUE),
   ADR_PREL_PG_HI21_NC  |-> ImmType("PAGE", 12, 21, "IMM_ADR", FALSE),
   ADR_PREL_PG_HI21     |-> ImmType("PAGE", 12, 21, "IMM_ADR", TRUE),
   ADD_ABS_LO12_NC      |-> ImmType("ABS", 0, 12, "IMM_12", FALSE),
   LDST8_ABS_LO12_NC    |-> ImmType("ABS", 0, 12, "IMM_12", FALSE),
   LDST16_ABS_LO12_NC   |-> ImmType("ABS", 1, 11, "IMM_12", FALSE),
   LDST32_ABS_LO12_NC   |-> ImmType("ABS", 2, 10, "IMM_12", FALSE),
   LDST64_ABS_LO12_NC   |-> ImmType("ABS", 3, 9, "IMM_12", FALSE),
   LDST128_ABS_LO12_NC  |-> ImmType("ABS", 4, 8, "IMM_12", FALSE),
   TSTBR14              |-> ImmType("PREL", 2, 14, "IMM_14", TRUE),
   CONDBR19             |-> ImmType("PREL", 2, 19, "IMM_19", TRUE),
   JUMP26               |-> ImmType("PREL", 2, 26, "IMM_26", TRUE),
   CALL26               |-> ImmType("PREL", 2, 26, "IMM_26", TRUE)]

TypeOf(q) == code[q][1]
Type == TypeOf(r)

\* value + addend of relocation q.
ValOf(q) == Add(value, OfInt(code[q][2]))

\* loc of relocation q: the instructions and data lie one after the other.
PlaceOf(q) == Add(start, OfInt(8 * (q - 1)))

Init ==
  /\ code \in Codes
  /\ \E p \in Placings : start = p[1] /\ value = p[2]
  /\ \E c \in Contents : mem = [q \in 1 .. Len(code) |-> c]
  /\ ret = [q \in 1 .. Len(code) |-> None]
  /\ r = 1

-----------------------------------------------------------------------------
(***************************************************************************)
(* The relocation value                                                    *)
(***************************************************************************)

\* x & ~0xfff
PageOf(x) == {b \in x : b >= 12}

\* Faulty variant: the page of the difference, not the difference of the pages.
PageOfDifference(op, place, val) ==
  CASE op = "ABS"  -> val
    [] op = "PREL" -> Sub(val, place)
    [] op = "PAGE" -> PageOf(Sub(val, place))

\* do_reloc
Value(op, place, val) ==
  CASE op = "ABS"  -> val
    [] op = "PREL" -> Sub(val, place)
    [] op = "PAGE" -> Sub(PageOf(val), PageOf(place))

-----------------------------------------------------------------------------
(***************************************************************************)
(* Immediate fields                                                        *)
(***************************************************************************)

\* Where an instruction has its immediate, of the kinds do_relocate_add asks for.
InField(type, imm) ==
  CASE type = "IMM_26"  -> Low(imm, 26)
    [] type = "IMM_12"  -> Shl(Low(imm, 12), 10)
    [] type = "IMM_ADR" -> Shl(Low(imm, 2), 29) \cup Shl(Shr(Low(imm, 21), 2), 5)
    [] type = "IMM_19"  -> Shl(Low(imm, 19), 5)
    [] type = "IMM_16"  -> Shl(Low(imm, 16), 5)
    [] type = "IMM_14"  -> Shl(Low(imm, 14), 5)

\* BRK #0x100, which stays what it is.
BREAK_FAULT == {13, 21, 26, 28, 30, 31}

\* aarch64_insn_encode_immediate; the mask is a field full of ones.
Encode(type, word, imm) ==
  IF Low(word, 32) = BREAK_FAULT THEN word
  ELSE (word \ InField(type, Bits)) \cup InField(type, imm)

-----------------------------------------------------------------------------
(***************************************************************************)
(* do_relocate_add                                                         *)
(***************************************************************************)

\* What every branch of do_relocate_add comes to: the place is written whether
\* the value fits or not, and -ERANGE counts where it is checked.
Patch(word, overflows, check) ==
  /\ r <= Len(code)
  /\ mem' = [mem EXCEPT ![r] = word]
  /\ ret' = [ret EXCEPT ![r] = IF check /\ overflows THEN ENOEXEC ELSE Ok]
  /\ r' = r + 1
  /\ UNCHANGED <<code, start, value>>

\* Faulty variant: nothing is left of what follows the datum.
StoreAlone(word, x, len) == Low(x, len)

\* Replace the low len bits of a word.
Store(word, x, len) == (word \ Low(Bits, len)) \cup Low(x, len)

DataOverflow(op, x, len) == x # IF op = "ABS" THEN Low(x, len) ELSE Signed(x, len)

RelocData ==
  /\ r <= Len(code) /\ Type \in DOMAIN Data
  /\ LET t == Data[Type]
         x == Value(t.op, PlaceOf(r), ValOf(r))
     IN  Patch(Store(mem[r], x, t.len), DataOverflow(t.op, x, t.len), t.check)

\* The immediate of a MOVN is inverted.
Inverted(x, lsb) == Not(Asr(x, lsb))

\* MOVZ is 10 in bits 30 and 29, MOVN 00.
SetOpcode(word, negative) ==
  (word \ {29, 30}) \cup IF negative THEN {} ELSE {30}

RelocInsnMovw ==
  /\ r <= Len(code) /\ Type \in DOMAIN Movw
  /\ LET t == Movw[Type]
         x == Value(t.op, PlaceOf(r), ValOf(r))
         negative == t.kind = "MOVNZ" /\ 63 \in x
         imm == IF negative THEN Inverted(x, t.lsb) ELSE Asr(x, t.lsb)
         word == IF t.kind = "MOVNZ" THEN SetOpcode(mem[r], negative) ELSE mem[r]
     IN  Patch(Encode("IMM_16", word, imm), imm # Low(imm, 16), t.check)

\* Faulty variant: tests the bits above the field, without its sign bit.
ImmOverflowUnsigned(x, len) == x \cap (len .. 63) \notin {{}, len .. 63}

\* The upper bits are not all equal to the sign bit.
ImmOverflow(x, len) == x \cap (len - 1 .. 63) \notin {{}, len - 1 .. 63}

RelocInsnImm ==
  /\ r <= Len(code) /\ Type \in DOMAIN Imm
  /\ LET t == Imm[Type]
         x == Asr(Value(t.op, PlaceOf(r), ValOf(r)), t.lsb)
     IN  Patch(Encode(t.field, mem[r], Low(x, t.len)), ImmOverflow(x, t.len), t.check)

Untouched(result) ==
  /\ ret' = [ret EXCEPT ![r] = result]
  /\ r' = r + 1
  /\ UNCHANGED <<code, start, value, mem>>

Nothing     == r <= Len(code) /\ Type = "NONE" /\ Untouched(Ok)
Unsupported ==
  /\ r <= Len(code)
  /\ Type \notin DOMAIN Data \cup DOMAIN Movw \cup DOMAIN Imm \cup {"NONE"}
  /\ Untouched(ENOEXEC)

Next == RelocData \/ RelocInsnMovw \/ RelocInsnImm \/ Nothing \/ Unsupported

Spec == Init /\ [][Next]_vars

-----------------------------------------------------------------------------
(***************************************************************************)
(* What relocation must achieve: the patched code is read back the way the *)
(* processor decodes it, not through the tables above.                     *)
(***************************************************************************)

TypeOK ==
  /\ start \in Word /\ value \in Word
  /\ mem \in [1 .. Len(code) -> Word]
  /\ ret \in [1 .. Len(code) -> {None, Ok, ENOEXEC}]
  /\ r \in 1 .. Len(code) + 1
  /\ \A q \in 1 .. Len(code) : ret[q] = None <=> q >= r

\* The types by the instruction or datum they patch.
Branches26 == {"JUMP26", "CALL26"}
Literals19 == {"CONDBR19", "LD_PREL_LO19"}
Adrp       == {"ADR_PREL_PG_HI21", "ADR_PREL_PG_HI21_NC"}
Scale      == [ADD_ABS_LO12_NC |-> 0, LDST8_ABS_LO12_NC |-> 0, LDST16_ABS_LO12_NC |-> 1,
               LDST32_ABS_LO12_NC |-> 2, LDST64_ABS_LO12_NC |-> 3, LDST128_ABS_LO12_NC |-> 4]
Width      == [ABS64 |-> 64, ABS32 |-> 32, ABS16 |-> 16, PREL64 |-> 64, PREL32 |-> 32, PREL16 |-> 16]

\* movz, movk or movn by the opcode, which bits 30 and 29 tell; the relocation
\* has to choose between movz and movn for these.
Signs == {"MOVW_SABS_G0", "MOVW_SABS_G1", "MOVW_SABS_G2",
          "MOVW_PREL_G0", "MOVW_PREL_G1", "MOVW_PREL_G2", "MOVW_PREL_G3"}

\* The 16 bits a wide move moves.
Group(type) ==
  CASE type \in {"MOVW_UABS_G0", "MOVW_UABS_G0_NC", "MOVW_SABS_G0", "MOVW_PREL_G0", "MOVW_PREL_G0_NC"} -> 0
    [] type \in {"MOVW_UABS_G1", "MOVW_UABS_G1_NC", "MOVW_SABS_G1", "MOVW_PREL_G1", "MOVW_PREL_G1_NC"} -> 16
    [] type \in {"MOVW_UABS_G2", "MOVW_UABS_G2_NC", "MOVW_SABS_G2", "MOVW_PREL_G2", "MOVW_PREL_G2_NC"} -> 32
    [] type \in {"MOVW_UABS_G3", "MOVW_PREL_G3"} -> 48

MovwRelative == {"MOVW_PREL_G0", "MOVW_PREL_G0_NC", "MOVW_PREL_G1", "MOVW_PREL_G1_NC",
                 "MOVW_PREL_G2", "MOVW_PREL_G2_NC", "MOVW_PREL_G3"}

\* The n bits of a word from bit l on.
Field(word, l, n) == {b - l : b \in word \cap (l .. l + n - 1)}

\* The immediate of adr and adrp.
AdrImm(word) == Signed(Field(word, 29, 2) \cup Shl(Field(word, 5, 19), 2), 21)

\* What the instruction at place q leaves in its register, which held reg
\* before, or where it jumps to, or what the datum says.
Effect(q, reg) ==
  LET type == TypeOf(q)
      here == PlaceOf(q)
      w    == mem[q]
      wide == Field(w, 5, 16)
      g    == Group(type)
  IN  CASE type \in Branches26     -> Add(here, Shl(Signed(w, 26), 2))
        [] type \in Literals19     -> Add(here, Shl(Signed(Field(w, 5, 19), 19), 2))
        [] type = "TSTBR14"        -> Add(here, Shl(Signed(Field(w, 5, 14), 14), 2))
        [] type = "ADR_PREL_LO21"  -> Add(here, AdrImm(w))
        [] type \in Adrp           -> Add(PageOf(here), Shl(AdrImm(w), 12))
        [] type \in DOMAIN Scale   -> Add(reg, Shl(Field(w, 10, 12), Scale[type]))
        [] type \in {"ABS64", "ABS32", "ABS16"}    -> Low(w, Width[type])
        [] type \in {"PREL64", "PREL32", "PREL16"} -> Add(here, Signed(w, Width[type]))
        [] type \in Signs -> IF 30 \in w THEN Shl(wide, g) ELSE Not(Shl(wide, g))
        [] OTHER -> (reg \ (g .. g + 15)) \cup Shl(wide, g)

\* What the code makes, the instructions one after the other; wide moves of
\* place-relative types make the distance from the first of them.
Made ==
  LET reg[q \in 0 .. Len(code)] == IF q = 0 THEN {} ELSE Effect(q, reg[q - 1])
  IN  IF TypeOf(1) \in MovwRelative THEN Add(start, reg[Len(code)]) ELSE reg[Len(code)]

\* The low bits of an address that type has no room for.
Granule(type) ==
  CASE type \in Branches26 \cup Literals19 \cup {"TSTBR14"} -> 2
    [] type \in DOMAIN Scale -> Scale[type]
    [] type \in Adrp -> 12
    [] type \in DOMAIN Width \cup {"ADR_PREL_LO21"} -> 0
    [] OTHER -> Group(type)

\* The movk types that fill the groups below that of a movz or movn.
Movk         == {"MOVW_UABS_G0_NC", "MOVW_UABS_G1_NC", "MOVW_UABS_G2_NC"}
MovkRelative == {"MOVW_PREL_G0_NC", "MOVW_PREL_G1_NC", "MOVW_PREL_G2_NC"}

\* One instruction or datum, adrp with what adds the low bits, movz or movn with
\* a movk for every group below: does the code, taken together, have room for
\* the whole address? The addends of a distance make up for the way from the
\* first instruction.
Alone(c) ==
  /\ Len(c) = 1 /\ c[1][2] = 0
  /\ c[1][1] \in DOMAIN Width \cup Branches26 \cup Literals19 \cup {"ADR_PREL_LO21", "TSTBR14"}

WithLowBits(c) ==
  /\ Len(c) = 2 /\ c[1][2] = 0 /\ c[2][2] = 0
  /\ c[1][1] = "ADR_PREL_PG_HI21" /\ c[2][1] \in DOMAIN Scale

WideMoves(c) ==
  /\ Len(c) \in 1 .. 4
  /\ c[1][1] \in {"MOVW_UABS_G0", "MOVW_UABS_G1", "MOVW_UABS_G2", "MOVW_UABS_G3"} \cup Signs
  /\ Group(c[1][1]) = 16 * (Len(c) - 1)
  /\ \A q \in 1 .. Len(c) : c[q][2] = IF c[1][1] \in MovwRelative THEN 8 * (q - 1) ELSE 0
  /\ \A q \in 2 .. Len(c) :
       /\ c[q][1] \in IF c[1][1] \in MovwRelative THEN MovkRelative ELSE Movk
       /\ Group(c[q][1]) = 16 * (Len(c) - q)

MakesAddress(c) == Alone(c) \/ WithLowBits(c) \/ WideMoves(c)

\* Once every relocation was accepted the code makes the address that was asked
\* for: adrp and its add across a page boundary, movn with its movk, a
\* backward branch at its limit (reloc.cpp:67-333).
AddressIsMade ==
  ( /\ r = Len(code) + 1
    /\ MakesAddress(code)
    /\ \A q \in 1 .. Len(code) : ret[q] = Ok /\ Low(mem[q], 32) # BREAK_FAULT
    /\ \A b \in value : b >= Granule(TypeOf(Len(code))) )
  => Made = value

\* The types do_relocate_add checks (reloc.cpp:531).
Checked ==
  {"ABS32", "ABS16", "PREL32", "PREL16", "ADR_PREL_LO21", "TSTBR14", "ADR_PREL_PG_HI21",
   "MOVW_UABS_G0", "MOVW_UABS_G1", "MOVW_UABS_G2"}
    \cup (Signs \ {"MOVW_PREL_G3"}) \cup Branches26 \cup Literals19

\* A checked relocation is refused exactly if its place has no room for the
\* value: neither too early nor too late at either end (reloc.cpp:84-313).
OverflowIsExact ==
  \A q \in 1 .. r - 1 :
    (TypeOf(q) \in Checked /\ Low(mem[q], 32) # BREAK_FAULT) =>
      LET asked == IF TypeOf(q) \in MovwRelative THEN Sub(ValOf(q), PlaceOf(q)) ELSE ValOf(q)
      IN  ret[q] = Ok <=>
            \A b \in Xor(Effect(q, {}), asked) : b < Granule(TypeOf(q))

\* The bits a relocation of type is to change.
Owned(type) ==
  CASE type \in Branches26    -> 0 .. 25
    [] type \in Literals19    -> 5 .. 23
    [] type = "TSTBR14"       -> 5 .. 18
    [] type \in Adrp \cup {"ADR_PREL_LO21"} -> (5 .. 23) \cup {29, 30}
    [] type \in DOMAIN Scale  -> 10 .. 21
    [] type \in DOMAIN Width  -> 0 .. Width[type] - 1
    [] type \in Signs         -> (5 .. 20) \cup {29, 30}
    [] type \in DOMAIN Movw \ Signs -> 5 .. 20
    [] OTHER                  -> {}

\* A relocation changes its immediate and nothing else: registers, condition
\* and size of the instruction, and the bytes behind it, stay.
OthersKeep ==
  [][\A q \in DOMAIN mem :
       \A b \in Xor(mem[q], mem'[q]) : q = r /\ b \in Owned(Type)]_vars
=============================================================================
