-------------------------- MODULE Aarch64RelocProofs --------------------------
(***************************************************************************)
(* What the AArch64 relocations guarantee for every code, address, value   *)
(* and content: they change the immediate of an instruction and nothing    *)
(* else, a value is refused exactly if its place has no room for it, and   *)
(* accepted code makes the address it was given.                           *)
(***************************************************************************)
EXTENDS Aarch64Reloc, WordsProofs

\* The code is one of those given, and lies at a multiple of four.
TypeInv == TypeOK /\ code \in Codes /\ Low(start, 2) = {}

-----------------------------------------------------------------------------
(***************************************************************************)
(* The tables                                                              *)
(***************************************************************************)

\* The bits a field takes up.
FieldBits(type) ==
  CASE type = "IMM_26"  -> 0 .. 25
    [] type = "IMM_12"  -> 10 .. 21
    [] type = "IMM_ADR" -> (5 .. 23) \cup {29, 30}
    [] type = "IMM_19"  -> 5 .. 23
    [] type = "IMM_16"  -> 5 .. 20
    [] type = "IMM_14"  -> 5 .. 18

LEMMA DataTypes ==
  \A t \in DOMAIN Data :
    /\ Data[t].op \in {"ABS", "PREL"} /\ Data[t].len \in {16, 32, 64}
    /\ Owned(t) = 0 .. Data[t].len - 1
BY DEF Data, DataType, Owned, Width, Branches26, Literals19, Adrp, Scale, Signs, Movw

LEMMA MovwTypes ==
  \A t \in DOMAIN Movw :
    /\ Movw[t].lsb \in {0, 16, 32, 48} /\ Group(t) = Movw[t].lsb
    /\ Movw[t].kind \in {"MOVNZ", "MOVKZ"} /\ (Movw[t].kind = "MOVNZ" <=> t \in Signs)
    /\ Movw[t].op = IF t \in MovwRelative THEN "PREL" ELSE "ABS"
BY DEF Movw, MovwType, Group, Signs, MovwRelative

LEMMA MovwOwned ==
  \A t \in DOMAIN Movw :
    Owned(t) = IF t \in Signs THEN (5 .. 20) \cup {29, 30} ELSE 5 .. 20
<1> SUFFICES ASSUME NEW t \in DOMAIN Movw
             PROVE  Owned(t) = IF t \in Signs THEN (5 .. 20) \cup {29, 30} ELSE 5 .. 20
  OBVIOUS
<1>1. t \notin Branches26 \cup Literals19 \cup Adrp \cup {"TSTBR14", "ADR_PREL_LO21"}
                \cup DOMAIN Scale \cup DOMAIN Width
  BY DEF Movw, Branches26, Literals19, Adrp, Scale, Width
<1>2. CASE t \in Signs
  BY <1>1, <1>2 DEF Owned
<1>3. CASE t \notin Signs
  BY <1>1, <1>3 DEF Owned
<1>4. QED
  BY <1>2, <1>3

LEMMA ImmTypes ==
  \A t \in DOMAIN Imm :
    /\ Imm[t].op \in {"ABS", "PREL", "PAGE"}
    /\ Imm[t].lsb \in 0 .. 12 /\ Imm[t].len \in 8 .. 26
    /\ Imm[t].field \in {"IMM_26", "IMM_19", "IMM_14", "IMM_12", "IMM_ADR"}
BY DEF Imm, ImmType

LEMMA ImmOwned ==
  \A t \in DOMAIN Imm :
    Owned(t) = FieldBits(Imm[t].field)
<1> SUFFICES ASSUME NEW t \in DOMAIN Imm PROVE Owned(t) = FieldBits(Imm[t].field)
  OBVIOUS
<1>1. t \notin DOMAIN Movw \cup Signs \cup DOMAIN Width
  BY DEF Imm, Movw, Signs, Width
<1>2. CASE t \in Branches26
  <2>1. /\ Imm[t].field = "IMM_26"
        /\ t \notin Literals19 \cup {"TSTBR14"} \cup (Adrp \cup {"ADR_PREL_LO21"}) \cup DOMAIN Scale
    BY <1>2 DEF Imm, ImmType, Branches26, Literals19, Adrp, Scale
  <2>2. Owned(t) = 0 .. 25
    BY <1>1, <1>2, <2>1 DEF Owned
  <2>3. FieldBits("IMM_26") = 0 .. 25
    BY DEF FieldBits
  <2>4. QED
    BY <2>1, <2>2, <2>3
<1>3. CASE t \in Literals19
  <2>1. /\ Imm[t].field = "IMM_19"
        /\ t \notin Branches26 \cup {"TSTBR14"} \cup (Adrp \cup {"ADR_PREL_LO21"}) \cup DOMAIN Scale
    BY <1>3 DEF Imm, ImmType, Branches26, Literals19, Adrp, Scale
  <2>2. Owned(t) = 5 .. 23
    BY <1>1, <1>3, <2>1 DEF Owned
  <2>3. FieldBits("IMM_19") = 5 .. 23
    BY DEF FieldBits
  <2>4. QED
    BY <2>1, <2>2, <2>3
<1>4. CASE t \in {"TSTBR14"}
  <2>1. /\ Imm[t].field = "IMM_14"
        /\ t \notin Branches26 \cup Literals19 \cup (Adrp \cup {"ADR_PREL_LO21"}) \cup DOMAIN Scale
    BY <1>4 DEF Imm, ImmType, Branches26, Literals19, Adrp, Scale
  <2>2. Owned(t) = 5 .. 18
    BY <1>1, <1>4, <2>1 DEF Owned
  <2>3. FieldBits("IMM_14") = 5 .. 18
    BY DEF FieldBits
  <2>4. QED
    BY <2>1, <2>2, <2>3
<1>5. CASE t \in Adrp \cup {"ADR_PREL_LO21"}
  <2>1. /\ Imm[t].field = "IMM_ADR"
        /\ t \notin Branches26 \cup Literals19 \cup {"TSTBR14"} \cup DOMAIN Scale
    BY <1>5 DEF Imm, ImmType, Branches26, Literals19, Adrp, Scale
  <2>2. Owned(t) = (5 .. 23) \cup {29, 30}
    BY <1>1, <1>5, <2>1 DEF Owned
  <2>3. FieldBits("IMM_ADR") = (5 .. 23) \cup {29, 30}
    BY DEF FieldBits
  <2>4. QED
    BY <2>1, <2>2, <2>3
<1>6. CASE t \in DOMAIN Scale
  <2>1. /\ Imm[t].field = "IMM_12"
        /\ t \notin Branches26 \cup Literals19 \cup {"TSTBR14"} \cup (Adrp \cup {"ADR_PREL_LO21"})
    BY <1>6 DEF Imm, ImmType, Branches26, Literals19, Adrp, Scale
  <2>2. Owned(t) = 10 .. 21
    BY <1>1, <1>6, <2>1 DEF Owned
  <2>3. FieldBits("IMM_12") = 10 .. 21
    BY DEF FieldBits
  <2>4. QED
    BY <2>1, <2>2, <2>3
<1>7. t \in Branches26 \cup Literals19 \cup Adrp \cup {"TSTBR14", "ADR_PREL_LO21"} \cup DOMAIN Scale
  BY DEF Imm, Literals19, Branches26, Adrp, Scale
<1>8. QED
  BY <1>2, <1>3, <1>4, <1>5, <1>6, <1>7

LEMMA DistanceTypes ==
  /\ \A t \in Branches26 :
       /\ t \in DOMAIN Imm /\ t \notin MovwRelative /\ Granule(t) = 2
       /\ Imm[t].op = "PREL" /\ Imm[t].lsb = 2 /\ Imm[t].len = 26
       /\ Imm[t].field = "IMM_26" /\ Imm[t].check
  /\ \A t \in Literals19 :
       /\ t \in DOMAIN Imm /\ t \notin MovwRelative /\ Granule(t) = 2
       /\ Imm[t].op = "PREL" /\ Imm[t].lsb = 2 /\ Imm[t].len = 19
       /\ Imm[t].field = "IMM_19" /\ Imm[t].check
  /\ LET t == "TSTBR14"
     IN  /\ t \in DOMAIN Imm /\ t \notin MovwRelative /\ Granule(t) = 2
         /\ Imm[t].op = "PREL" /\ Imm[t].lsb = 2 /\ Imm[t].len = 14
         /\ Imm[t].field = "IMM_14" /\ Imm[t].check
  /\ LET t == "ADR_PREL_LO21"
     IN  /\ t \in DOMAIN Imm /\ t \notin MovwRelative /\ Granule(t) = 0
         /\ Imm[t].op = "PREL" /\ Imm[t].lsb = 0 /\ Imm[t].len = 21
         /\ Imm[t].field = "IMM_ADR" /\ Imm[t].check
  /\ LET t == "ADR_PREL_PG_HI21"
     IN  /\ t \in DOMAIN Imm /\ t \notin MovwRelative /\ Granule(t) = 12
         /\ Imm[t].op = "PAGE" /\ Imm[t].lsb = 12 /\ Imm[t].len = 21
         /\ Imm[t].field = "IMM_ADR" /\ Imm[t].check
<1>1. \A t \in Branches26 :
        /\ t \in DOMAIN Imm /\ t \notin MovwRelative
        /\ Imm[t].op = "PREL" /\ Imm[t].lsb = 2 /\ Imm[t].len = 26
        /\ Imm[t].field = "IMM_26" /\ Imm[t].check
  BY DEF Imm, ImmType, Branches26, MovwRelative
<1>2. \A t \in Literals19 :
        /\ t \in DOMAIN Imm /\ t \notin MovwRelative
        /\ Imm[t].op = "PREL" /\ Imm[t].lsb = 2 /\ Imm[t].len = 19
        /\ Imm[t].field = "IMM_19" /\ Imm[t].check
  BY DEF Imm, ImmType, Literals19, MovwRelative
<1>3. LET t == "TSTBR14"
      IN  /\ t \in DOMAIN Imm /\ t \notin MovwRelative
          /\ Imm[t].op = "PREL" /\ Imm[t].lsb = 2 /\ Imm[t].len = 14
          /\ Imm[t].field = "IMM_14" /\ Imm[t].check
  BY DEF Imm, ImmType, MovwRelative
<1>4. LET t == "ADR_PREL_LO21"
      IN  /\ t \in DOMAIN Imm /\ t \notin MovwRelative
          /\ Imm[t].op = "PREL" /\ Imm[t].lsb = 0 /\ Imm[t].len = 21
          /\ Imm[t].field = "IMM_ADR" /\ Imm[t].check
  BY DEF Imm, ImmType, MovwRelative
<1>5. LET t == "ADR_PREL_PG_HI21"
      IN  /\ t \in DOMAIN Imm /\ t \notin MovwRelative
          /\ Imm[t].op = "PAGE" /\ Imm[t].lsb = 12 /\ Imm[t].len = 21
          /\ Imm[t].field = "IMM_ADR" /\ Imm[t].check
  BY DEF Imm, ImmType, MovwRelative
<1>6. /\ \A t \in Branches26 \cup Literals19 \cup {"TSTBR14"} : Granule(t) = 2
      /\ Granule("ADR_PREL_LO21") = 0 /\ Granule("ADR_PREL_PG_HI21") = 12
  BY DEF Granule, Branches26, Literals19, Adrp, Scale, Width
<1>7. QED
  BY <1>1, <1>2, <1>3, <1>4, <1>5, <1>6

LEMMA CheckedData ==
  /\ \A t \in {"ABS32", "ABS16"} :
       /\ t \in DOMAIN Data /\ t \notin MovwRelative
       /\ Data[t].op = "ABS" /\ Data[t].check /\ Data[t].len = Width[t] /\ Width[t] \in {16, 32}
  /\ \A t \in {"PREL32", "PREL16"} :
       /\ t \in DOMAIN Data /\ t \notin MovwRelative
       /\ Data[t].op = "PREL" /\ Data[t].check /\ Data[t].len = Width[t] /\ Width[t] \in {16, 32}
BY DEF Data, DataType, Width, MovwRelative

LEMMA CheckedMovw ==
  /\ \A t \in {"MOVW_UABS_G0", "MOVW_UABS_G1", "MOVW_UABS_G2"} :
       /\ t \in DOMAIN Movw /\ t \notin MovwRelative /\ t \notin Signs
       /\ Movw[t].check /\ Movw[t].lsb \in {0, 16, 32}
  /\ \A t \in Signs \ {"MOVW_PREL_G3"} :
       t \in DOMAIN Movw /\ Movw[t].check /\ Movw[t].lsb \in {0, 16, 32}
BY DEF Movw, MovwType, MovwRelative, Signs

LEMMA GranuleOfGroup ==
  /\ \A t \in DOMAIN Width : Granule(t) = 0
  /\ \A t \in DOMAIN Movw : Granule(t) = Group(t)
<1>1. \A t \in DOMAIN Width : Granule(t) = 0
  <2>1. \A t \in DOMAIN Width : t \notin Branches26 \cup Literals19 \cup {"TSTBR14"} \cup DOMAIN Scale \cup Adrp
    BY DEF Width, Branches26, Literals19, Scale, Adrp
  <2>2. QED
    BY <2>1 DEF Granule
<1>2. \A t \in DOMAIN Movw : Granule(t) = Group(t)
  <2>1. \A t \in DOMAIN Movw :
          t \notin Branches26 \cup Literals19 \cup {"TSTBR14", "ADR_PREL_LO21"}
                     \cup DOMAIN Scale \cup Adrp \cup DOMAIN Width
    BY DEF Movw, Width, Branches26, Literals19, Scale, Adrp
  <2>2. QED
    BY <2>1 DEF Granule
<1>3. QED
  BY <1>1, <1>2

-----------------------------------------------------------------------------
(***************************************************************************)
(* Immediate fields                                                        *)
(***************************************************************************)

\* An immediate goes into the bits of its field.
LEMMA InFieldBits ==
  ASSUME NEW type \in {"IMM_26", "IMM_12", "IMM_ADR", "IMM_19", "IMM_16", "IMM_14"},
         NEW imm \in Word
  PROVE  InField(type, imm) \subseteq FieldBits(type)
<1>1. CASE type = "IMM_26"
  BY <1>1 DEF InField, FieldBits, Low, Word, Bits
<1>2. CASE type = "IMM_12"
  BY <1>2 DEF InField, FieldBits, Low, Shl, Word, Bits
<1>3. CASE type = "IMM_19"
  BY <1>3 DEF InField, FieldBits, Low, Shl, Word, Bits
<1>4. CASE type = "IMM_16"
  BY <1>4 DEF InField, FieldBits, Low, Shl, Word, Bits
<1>5. CASE type = "IMM_14"
  BY <1>5 DEF InField, FieldBits, Low, Shl, Word, Bits
<1>6. CASE type = "IMM_ADR"
  <2>1. Shl(Low(imm, 2), 29) \subseteq {29, 30}
    BY DEF Low, Shl, Word, Bits
  <2>2. Shl(Shr(Low(imm, 21), 2), 5) \subseteq 5 .. 23
    BY DEF Low, Shl, Shr, Word, Bits
  <2>3. QED
    BY <1>6, <2>1, <2>2 DEF InField, FieldBits
<1>7. QED
  BY <1>1, <1>2, <1>3, <1>4, <1>5, <1>6

\* What Encode leaves: a word that differs in the bits of the field only.
LEMMA EncodeKeeps ==
  ASSUME NEW type \in {"IMM_26", "IMM_12", "IMM_ADR", "IMM_19", "IMM_16", "IMM_14"},
         NEW w \in Word, NEW imm \in Word
  PROVE  Encode(type, w, imm) \in Word /\ Xor(w, Encode(type, w, imm)) \subseteq FieldBits(type)
<1>1. Bits \in Word
  BY DEF Word
<1>2. InField(type, imm) \subseteq FieldBits(type) /\ InField(type, Bits) \subseteq FieldBits(type)
  BY <1>1, InFieldBits
<1>3. FieldBits(type) \subseteq Bits
  BY DEF FieldBits, Bits
<1>4. QED
  BY <1>2, <1>3 DEF Encode, Xor, Word

\* What Store leaves: the datum, and every bit behind it.
LEMMA StoreKeeps ==
  ASSUME NEW w \in Word, NEW x \in Word, NEW len \in 1 .. 64
  PROVE  /\ Store(w, x, len) \in Word
         /\ Xor(w, Store(w, x, len)) \subseteq 0 .. len - 1
         /\ Low(Store(w, x, len), len) = Low(x, len)
<1> DEFINE new == Store(w, x, len)
<1>1. \A b \in new : b \in Bits /\ (b \in w \/ b \in x)
  BY DEF Store, Low, Word
<1>2. \A b \in Bits : b \in new <=> IF b < len THEN b \in x ELSE b \in w
  BY DEF Store, Low, Word
<1> HIDE DEF new
<1>3. new \in Word
  BY <1>1 DEF Word
<1>4. Xor(w, new) \subseteq 0 .. len - 1
  BY <1>2, <1>3 DEF Xor, Word, Bits
<1>5. Low(new, len) = Low(x, len)
  BY <1>2, <1>3 DEF Low, Word
<1>6. QED
  BY <1>3, <1>4, <1>5 DEF new

\* What SetOpcode leaves.
LEMMA SetOpcodeKeeps ==
  ASSUME NEW w \in Word, NEW negative \in BOOLEAN
  PROVE  /\ SetOpcode(w, negative) \in Word
         /\ Xor(w, SetOpcode(w, negative)) \subseteq {29, 30}
         /\ 30 \in SetOpcode(w, negative) <=> ~negative
<1>1. CASE negative
  BY <1>1 DEF SetOpcode, Xor, Word, Bits
<1>2. CASE ~negative
  BY <1>2 DEF SetOpcode, Xor, Word, Bits
<1>3. QED
  BY <1>1, <1>2

-----------------------------------------------------------------------------
(***************************************************************************)
(* A step patches one place                                                *)
(***************************************************************************)

LEMMA PlacesAreWords ==
  ASSUME TypeInv, NEW q
  PROVE  PlaceOf(q) \in Word /\ ValOf(q) \in Word
<1>1. \A i : OfInt(i) \in Word
  BY DEF OfInt, Word
<1>2. start \in Word /\ value \in Word
  BY DEF TypeInv, TypeOK
<1>3. QED
  BY <1>1, <1>2, AddIsWord DEF PlaceOf, ValOf, Add

LEMMA ValueIsWord ==
  ASSUME NEW op \in {"ABS", "PREL", "PAGE"}, NEW place \in Word, NEW val \in Word
  PROVE  Value(op, place, val) \in Word
<1>1. PageOf(place) \in Word /\ PageOf(val) \in Word
  BY DEF PageOf, Word
<1>2. \A x, y \in Word : Sub(x, y) \in Word
  BY NotBits, AddIsWord DEF Sub
<1>3. QED
  BY <1>1, <1>2 DEF Value

\* Relocation q makes new of the word w and returns result.
Patched(q, w, new, result) ==
  \/ /\ TypeOf(q) \in DOMAIN Data
     /\ LET t == Data[TypeOf(q)]
            x == Value(t.op, PlaceOf(q), ValOf(q))
        IN  /\ new = Store(w, x, t.len)
            /\ result = IF t.check /\ DataOverflow(t.op, x, t.len) THEN ENOEXEC ELSE Ok
  \/ /\ TypeOf(q) \in DOMAIN Movw
     /\ LET t == Movw[TypeOf(q)]
            x == Value(t.op, PlaceOf(q), ValOf(q))
            negative == t.kind = "MOVNZ" /\ 63 \in x
            imm == IF negative THEN Inverted(x, t.lsb) ELSE Asr(x, t.lsb)
            word == IF t.kind = "MOVNZ" THEN SetOpcode(w, negative) ELSE w
        IN  /\ new = Encode("IMM_16", word, imm)
            /\ result = IF t.check /\ imm # Low(imm, 16) THEN ENOEXEC ELSE Ok
  \/ /\ TypeOf(q) \in DOMAIN Imm
     /\ LET t == Imm[TypeOf(q)]
            x == Asr(Value(t.op, PlaceOf(q), ValOf(q)), t.lsb)
        IN  /\ new = Encode(t.field, w, Low(x, t.len))
            /\ result = IF t.check /\ ImmOverflow(x, t.len) THEN ENOEXEC ELSE Ok
  \/ /\ TypeOf(q) \notin DOMAIN Data \cup DOMAIN Movw \cup DOMAIN Imm
     /\ new = w
     /\ result \in {Ok, ENOEXEC}

\* The relocations the loop has come past have patched their places.
PatchedInv == \A q \in 1 .. r - 1 : \E w \in Word : Patched(q, w, mem[q], ret[q])

\* A relocation changes the bits it owns and no others.
LEMMA PatchedKeeps ==
  ASSUME TypeInv, NEW q, NEW w \in Word, NEW new, NEW result, Patched(q, w, new, result)
  PROVE  /\ new \in Word /\ result \in {Ok, ENOEXEC}
         /\ Xor(w, new) \subseteq Owned(TypeOf(q))
<1>1. PlaceOf(q) \in Word /\ ValOf(q) \in Word
  BY PlacesAreWords
<1>2. result \in {Ok, ENOEXEC}
  BY DEF Patched
<1>3. CASE TypeOf(q) \in DOMAIN Data /\ TypeOf(q) \notin DOMAIN Movw /\ TypeOf(q) \notin DOMAIN Imm
  <2> DEFINE t == Data[TypeOf(q)]
             x == Value(t.op, PlaceOf(q), ValOf(q))
  <2>1. new = Store(w, x, t.len)
    BY <1>3 DEF Patched
  <2>2. t.op \in {"ABS", "PREL"} /\ t.len \in 1 .. 64 /\ Owned(TypeOf(q)) = 0 .. t.len - 1
    BY <1>3, DataTypes
  <2>3. x \in Word
    BY <1>1, <2>2, ValueIsWord
  <2> HIDE DEF t, x
  <2>4. QED
    BY <1>2, <2>1, <2>2, <2>3, StoreKeeps
<1>4. CASE TypeOf(q) \in DOMAIN Movw /\ TypeOf(q) \notin DOMAIN Data /\ TypeOf(q) \notin DOMAIN Imm
  <2> DEFINE t == Movw[TypeOf(q)]
             x == Value(t.op, PlaceOf(q), ValOf(q))
             negative == t.kind = "MOVNZ" /\ 63 \in x
             imm == IF negative THEN Inverted(x, t.lsb) ELSE Asr(x, t.lsb)
             word == IF t.kind = "MOVNZ" THEN SetOpcode(w, negative) ELSE w
  <2>1. new = Encode("IMM_16", word, imm)
    BY <1>4 DEF Patched
  <2>2. /\ t.op \in {"ABS", "PREL"} /\ t.lsb \in 0 .. 63
        /\ Owned(TypeOf(q)) = IF t.kind = "MOVNZ" THEN (5 .. 20) \cup {29, 30} ELSE 5 .. 20
    BY <1>4, MovwTypes, MovwOwned
  <2>3. x \in Word
    BY <1>1, <2>2, ValueIsWord
  <2> HIDE DEF t, x
  <2>4. imm \in Word
    BY <2>2, <2>3, AsrBits, NotBits DEF Inverted
  <2>5. negative \in BOOLEAN
    OBVIOUS
  <2> HIDE DEF negative, imm
  <2>6. word \in Word /\ Xor(w, word) \subseteq IF t.kind = "MOVNZ" THEN {29, 30} ELSE {}
    <3>1. Xor(w, w) = {}
      BY DEF Xor
    <3>2. QED
      BY <2>5, <3>1, SetOpcodeKeeps
  <2> HIDE DEF word
  <2>7. FieldBits("IMM_16") = 5 .. 20
    BY DEF FieldBits
  <2>8. new \in Word /\ Xor(word, new) \subseteq 5 .. 20
    BY <2>1, <2>4, <2>6, <2>7, EncodeKeeps
  <2>9. Xor(w, new) \subseteq Xor(w, word) \cup Xor(word, new)
    BY DEF Xor
  <2>10. QED
    BY <1>2, <2>2, <2>6, <2>8, <2>9
<1>5. CASE TypeOf(q) \in DOMAIN Imm /\ TypeOf(q) \notin DOMAIN Data /\ TypeOf(q) \notin DOMAIN Movw
  <2> DEFINE t == Imm[TypeOf(q)]
             v == Value(t.op, PlaceOf(q), ValOf(q))
             x == Asr(v, t.lsb)
  <2>1. new = Encode(t.field, w, Low(x, t.len))
    BY <1>5 DEF Patched
  <2>2. /\ t.op \in {"ABS", "PREL", "PAGE"} /\ t.lsb \in 0 .. 63 /\ t.len \in Nat
        /\ t.field \in {"IMM_26", "IMM_19", "IMM_14", "IMM_12", "IMM_ADR"}
        /\ Owned(TypeOf(q)) = FieldBits(t.field)
    BY <1>5, ImmTypes, ImmOwned
  <2>3. v \in Word
    BY <1>1, <2>2, ValueIsWord
  <2> HIDE DEF t, v
  <2>4. Low(x, t.len) \in Word
    BY <2>2, <2>3, AsrBits, LowBits
  <2>5. QED
    BY <1>2, <2>1, <2>2, <2>4, EncodeKeeps
<1>6. CASE TypeOf(q) \notin DOMAIN Data \cup DOMAIN Movw \cup DOMAIN Imm
  BY <1>2, <1>6 DEF Patched, Xor
<1>7. /\ DOMAIN Data \cap DOMAIN Movw = {} /\ DOMAIN Data \cap DOMAIN Imm = {}
      /\ DOMAIN Movw \cap DOMAIN Imm = {}
  BY DEF Data, Movw, Imm
<1>8. QED
  BY <1>3, <1>4, <1>5, <1>6, <1>7

\* Every branch of do_relocate_add patches the place the loop is at.
LEMMA StepPatches ==
  ASSUME TypeInv, Next
  PROVE  /\ r \in 1 .. Len(code) /\ mem[r] \in Word
         /\ UNCHANGED <<code, start, value>> /\ r' = r + 1
         /\ \E new, result :
              /\ Patched(r, mem[r], new, result)
              /\ mem' = [mem EXCEPT ![r] = new]
              /\ ret' = [ret EXCEPT ![r] = result]
<1>1. r <= Len(code)
  BY DEF Next, RelocData, RelocInsnMovw, RelocInsnImm, Nothing, Unsupported
<1>2. Len(code) \in Nat
  BY Aarch64RelocAssumption DEF TypeInv
<1>3. r \in 1 .. Len(code) /\ mem[r] \in Word
  BY <1>1, <1>2 DEF TypeInv, TypeOK
<1>4. CASE RelocData
  BY <1>3, <1>4 DEF RelocData, Patch, Patched, Type
<1>5. CASE RelocInsnMovw
  BY <1>3, <1>5 DEF RelocInsnMovw, Patch, Patched, Type
<1>6. CASE RelocInsnImm
  BY <1>3, <1>6 DEF RelocInsnImm, Patch, Patched, Type
<1>7. CASE Nothing \/ Unsupported
  <2>1. mem = [mem EXCEPT ![r] = mem[r]]
    BY <1>3 DEF TypeInv, TypeOK
  <2>2. Type \notin DOMAIN Data \cup DOMAIN Movw \cup DOMAIN Imm
    BY <1>7 DEF Nothing, Unsupported, Data, Movw, Imm
  <2>3. QED
    BY <1>3, <1>7, <2>1, <2>2 DEF Nothing, Unsupported, Untouched, Patched, Type
<1>8. QED
  BY <1>4, <1>5, <1>6, <1>7 DEF Next

-----------------------------------------------------------------------------
(***************************************************************************)
(* The invariant, and what stays                                           *)
(***************************************************************************)

LEMMA InvInit == Init => TypeInv /\ PatchedInv
<1> SUFFICES ASSUME Init PROVE TypeInv /\ PatchedInv
  OBVIOUS
<1>1. code \in Codes /\ Len(code) \in Nat
  BY Aarch64RelocAssumption DEF Init
<1>2. PICK p \in Placings : start = p[1] /\ value = p[2]
  BY DEF Init
<1>3. start \in Word /\ value \in Word /\ Low(start, 2) = {}
  BY <1>2, Aarch64RelocAssumption
<1>4. mem \in [1 .. Len(code) -> Word]
  BY Aarch64RelocAssumption DEF Init
<1>5. QED
  BY <1>1, <1>3, <1>4 DEF Init, TypeInv, TypeOK, PatchedInv

LEMMA InvNext == TypeInv /\ PatchedInv /\ [Next]_vars => TypeInv' /\ PatchedInv'
<1> SUFFICES ASSUME TypeInv, PatchedInv, [Next]_vars PROVE TypeInv' /\ PatchedInv'
  OBVIOUS
<1>1. CASE UNCHANGED vars
  <2>1. TypeInv'
    BY <1>1 DEF vars, TypeInv, TypeOK
  <2>2. \A q, w, new, result : Patched(q, w, new, result)' <=> Patched(q, w, new, result)
    BY <1>1 DEF vars, Patched, TypeOf, PlaceOf, ValOf
  <2>3. PatchedInv'
    BY <1>1, <2>2 DEF vars, PatchedInv, Patched, TypeOf, PlaceOf, ValOf
  <2>4. QED
    BY <2>1, <2>3
<1>2. CASE Next
  <2>1. /\ r \in 1 .. Len(code) /\ mem[r] \in Word
        /\ UNCHANGED <<code, start, value>> /\ r' = r + 1
    BY <1>2, StepPatches
  <2>2. PICK new, result : /\ Patched(r, mem[r], new, result)
                           /\ mem' = [mem EXCEPT ![r] = new]
                           /\ ret' = [ret EXCEPT ![r] = result]
    BY <1>2, StepPatches
  <2>3. new \in Word /\ result \in {Ok, ENOEXEC}
    BY <2>1, <2>2, PatchedKeeps
  <2>4. Len(code) \in Nat
    BY Aarch64RelocAssumption DEF TypeInv
  <2>5. TypeInv'
    BY <2>1, <2>2, <2>3, <2>4 DEF TypeInv, TypeOK, None, Ok, ENOEXEC
  <2>6. ASSUME NEW q \in 1 .. r PROVE \E w \in Word : Patched(q, w, mem[q], ret[q])'
    <3>1. \A w, x, y : Patched(q, w, x, y) => Patched(q, w, x, y)'
      BY <2>1 DEF Patched, TypeOf, PlaceOf, ValOf
    <3>2. CASE q = r
      <4>1. mem'[q] = new /\ ret'[q] = result
        BY <2>1, <2>2, <3>2 DEF TypeInv, TypeOK
      <4>2. QED
        BY <2>1, <2>2, <3>1, <3>2, <4>1
    <3>3. CASE q # r
      <4>1. mem'[q] = mem[q] /\ ret'[q] = ret[q]
        BY <2>1, <2>2, <3>3 DEF TypeInv, TypeOK
      <4>2. q \in 1 .. r - 1
        BY <2>1, <3>3
      <4>3. PICK w \in Word : Patched(q, w, mem[q], ret[q])
        BY <4>2 DEF PatchedInv
      <4>4. QED
        BY <3>1, <4>1, <4>3
    <3>4. QED
      BY <3>2, <3>3
  <2>7. r' - 1 = r
    BY <2>1
  <2>8. QED
    BY <2>5, <2>6, <2>7 DEF PatchedInv
<1>3. QED
  BY <1>1, <1>2

LEMMA InvHolds == Spec => [](TypeInv /\ PatchedInv)
BY InvInit, InvNext, PTL DEF Spec
\* Every place holds a word, and has a result exactly if the loop has come past
\* it, for every code, address, value and content.
THEOREM Aarch64TypeCorrect == Spec => []TypeOK
<1>1. TypeInv => TypeOK
  BY DEF TypeInv
<1>2. QED
  BY <1>1, InvHolds, PTL

\* Registers, condition and size of an instruction, and what lies behind a
\* datum, stay whatever is relocated: Encode, Store and SetOpcode change the
\* bits of the immediate, of the datum and of the opcode (reloc.cpp:150-167).
THEOREM Aarch64OthersKeep == Spec => OthersKeep
<1> DEFINE Keep == \A q \in DOMAIN mem :
                     \A b \in Xor(mem[q], mem'[q]) : q = r /\ b \in Owned(Type)
<1>1. ASSUME TypeInv, [Next]_vars PROVE [Keep]_vars
  <2>1. CASE UNCHANGED vars
    BY <2>1
  <2>2. CASE Next
    <3>1. r \in 1 .. Len(code) /\ mem[r] \in Word
      BY <1>1, <2>2, StepPatches
    <3>2. PICK new, result : Patched(r, mem[r], new, result) /\ mem' = [mem EXCEPT ![r] = new]
      BY <1>1, <2>2, StepPatches
    <3>3. Xor(mem[r], new) \subseteq Owned(Type)
      BY <1>1, <3>1, <3>2, PatchedKeeps DEF Type
    <3>4. ASSUME NEW q \in DOMAIN mem, NEW b \in Xor(mem[q], mem'[q])
          PROVE  q = r /\ b \in Owned(Type)
      <4>1. CASE q = r
        <5>1. mem'[q] = new
          BY <3>2, <4>1
        <5>2. QED
          BY <3>3, <3>4, <4>1, <5>1
      <4>2. CASE q # r
        <5>1. mem'[q] = mem[q]
          BY <3>2, <4>2
        <5>2. QED
          BY <3>4, <5>1 DEF Xor
      <4>3. QED
        BY <4>1, <4>2
    <3>5. QED
      BY <3>4
  <2>3. QED
    BY <1>1, <2>1, <2>2
<1>2. QED
  BY <1>1, InvHolds, PTL DEF Spec, OthersKeep

-----------------------------------------------------------------------------
(***************************************************************************)
(* What an instruction is read as                                          *)
(***************************************************************************)

\* A field of n bits from bit k on holds the low bits of what was encoded.
LEMMA FieldAt ==
  ASSUME NEW w \in Word, NEW imm \in Word, NEW k \in 0 .. 32, NEW n \in 1 .. 19
  PROVE  Field((w \ Shl(Low(Bits, n), k)) \cup Shl(Low(imm, n), k), k, n) = Low(imm, n)
<1> DEFINE new == (w \ Shl(Low(Bits, n), k)) \cup Shl(Low(imm, n), k)
<1>1. \A b \in Bits : b \in Shl(Low(Bits, n), k) <=> b \in k .. n + k - 1
  <2>1. Low(Bits, n) \in Word /\ \A c : c \in Low(Bits, n) <=> c \in Bits /\ c < n
    BY DEF Low, Word
  <2>2. \A b \in Bits : b \in Shl(Low(Bits, n), k) <=> b - k \in Bits /\ b - k < n
    BY <2>1, ShlBits
  <2>3. QED
    BY <2>2 DEF Bits
<1>2. \A b \in Bits : b \in Shl(Low(imm, n), k) <=> b - k \in imm /\ b - k < n
  <2>1. Low(imm, n) \in Word /\ \A c : c \in Low(imm, n) <=> c \in imm /\ c < n
    BY DEF Low, Word
  <2>2. QED
    BY <2>1, ShlBits
<1>3. \A b \in k .. n + k - 1 : b \in new <=> b - k \in imm
  BY <1>1, <1>2 DEF Bits
<1> HIDE DEF new
<1>4. Field(new, k, n) \subseteq Low(imm, n)
  BY <1>3 DEF Field, Low
<1>5. ASSUME NEW c \in Low(imm, n) PROVE c \in Field(new, k, n)
  <2>1. c \in imm /\ c \in 0 .. n - 1
    BY DEF Low, Word, Bits
  <2>2. c + k \in k .. n + k - 1 /\ (c + k) - k = c /\ n + k - 1 = k + n - 1
    BY <2>1
  <2>3. c + k \in new
    BY <1>3, <2>1, <2>2
  <2>4. QED
    BY <2>2, <2>3 DEF Field
<1>6. QED
  BY <1>4, <1>5 DEF new

\* An instruction that is not the break is read the way it was encoded.
LEMMA EncodeIsRead ==
  ASSUME NEW type \in {"IMM_26", "IMM_12", "IMM_ADR", "IMM_19", "IMM_16", "IMM_14"},
         NEW w \in Word, NEW imm \in Word, Low(Encode(type, w, imm), 32) # BREAK_FAULT
  PROVE  /\ type = "IMM_26" => Low(Encode(type, w, imm), 26) = Low(imm, 26)
         /\ type = "IMM_19" => Field(Encode(type, w, imm), 5, 19) = Low(imm, 19)
         /\ type = "IMM_16" => Field(Encode(type, w, imm), 5, 16) = Low(imm, 16)
         /\ type = "IMM_14" => Field(Encode(type, w, imm), 5, 14) = Low(imm, 14)
         /\ type = "IMM_12" => Field(Encode(type, w, imm), 10, 12) = Low(imm, 12)
         /\ type = "IMM_ADR" =>
              Field(Encode(type, w, imm), 29, 2) \cup Shl(Field(Encode(type, w, imm), 5, 19), 2)
                = Low(imm, 21)
<1> DEFINE new == Encode(type, w, imm)
<1>1. new = (w \ InField(type, Bits)) \cup InField(type, imm)
  BY DEF Encode
<1>2. CASE type = "IMM_26"
  <2>1. InField(type, Bits) = Low(Bits, 26) /\ InField(type, imm) = Low(imm, 26)
    BY <1>2 DEF InField
  <2>2. Low((w \ Low(Bits, 26)) \cup Low(imm, 26), 26) = Low(imm, 26)
    BY DEF Low, Word
  <2>3. QED
    BY <1>1, <1>2, <2>1, <2>2
<1>3. CASE type = "IMM_19"
  <2>1. InField(type, Bits) = Shl(Low(Bits, 19), 5) /\ InField(type, imm) = Shl(Low(imm, 19), 5)
    BY <1>3 DEF InField
  <2>2. Field(new, 5, 19) = Low(imm, 19)
    <3>1. Field((w \ Shl(Low(Bits, 19), 5)) \cup Shl(Low(imm, 19), 5), 5, 19) = Low(imm, 19)
      <4>1. 19 \in 1 .. 19 /\ 5 \in 0 .. 32
        OBVIOUS
      <4>2. QED
        BY <4>1, FieldAt
    <3>2. QED
      BY <1>1, <2>1, <3>1
  <2>3. QED
    BY <1>3, <2>2
<1>4. CASE type = "IMM_16"
  <2>1. InField(type, Bits) = Shl(Low(Bits, 16), 5) /\ InField(type, imm) = Shl(Low(imm, 16), 5)
    BY <1>4 DEF InField
  <2>2. Field(new, 5, 16) = Low(imm, 16)
    <3>1. Field((w \ Shl(Low(Bits, 16), 5)) \cup Shl(Low(imm, 16), 5), 5, 16) = Low(imm, 16)
      <4>1. 16 \in 1 .. 19 /\ 5 \in 0 .. 32
        OBVIOUS
      <4>2. QED
        BY <4>1, FieldAt
    <3>2. QED
      BY <1>1, <2>1, <3>1
  <2>3. QED
    BY <1>4, <2>2
<1>5. CASE type = "IMM_14"
  <2>1. InField(type, Bits) = Shl(Low(Bits, 14), 5) /\ InField(type, imm) = Shl(Low(imm, 14), 5)
    BY <1>5 DEF InField
  <2>2. Field(new, 5, 14) = Low(imm, 14)
    <3>1. Field((w \ Shl(Low(Bits, 14), 5)) \cup Shl(Low(imm, 14), 5), 5, 14) = Low(imm, 14)
      <4>1. 14 \in 1 .. 19 /\ 5 \in 0 .. 32
        OBVIOUS
      <4>2. QED
        BY <4>1, FieldAt
    <3>2. QED
      BY <1>1, <2>1, <3>1
  <2>3. QED
    BY <1>5, <2>2
<1>6. CASE type = "IMM_ADR"
  <2> DEFINE Lo(x) == Shl(Low(x, 2), 29)
             Hi(x) == Shl(Shr(Low(x, 21), 2), 5)
  <2>1. InField(type, Bits) = Lo(Bits) \cup Hi(Bits) /\ InField(type, imm) = Lo(imm) \cup Hi(imm)
    BY <1>6 DEF InField
  <2>2. \A x \in Word : \A b \in Bits : b \in Lo(x) <=> b - 29 \in x /\ b - 29 < 2
    BY DEF Low, Shl, Word, Bits
  <2>3. \A x \in Word : \A b \in Bits : b \in Hi(x) <=> b - 3 \in x /\ 5 <= b /\ b - 3 < 21
    <3>1. SUFFICES ASSUME NEW x \in Word, NEW b \in Bits
                   PROVE  b \in Hi(x) <=> b - 3 \in x /\ 5 <= b /\ b - 3 < 21
      OBVIOUS
    <3>2. Low(x, 21) \in Word
      BY LowBits
    <3>3. Shr(Low(x, 21), 2) \in Word
      BY <3>2, ShrBits
    <3>4. b \in Hi(x) <=> b - 5 \in Shr(Low(x, 21), 2)
      BY <3>3, ShlBits
    <3>5. CASE b - 5 \in Bits
      <4>1. b - 5 \in Shr(Low(x, 21), 2) <=> (b - 5) + 2 \in Low(x, 21)
        BY <3>2, <3>5, ShrBits
      <4>2. (b - 5) + 2 = b - 3 /\ b - 3 \in Bits /\ 5 <= b
        BY <3>5 DEF Bits
      <4>3. QED
        BY <3>4, <3>5, <4>1, <4>2 DEF Low, Bits, Word
    <3>6. CASE b - 5 \notin Bits
      BY <3>3, <3>4, <3>6 DEF Bits, Word
    <3>7. QED
      BY <3>5, <3>6
  <2>4. Bits \in Word
    BY DEF Word
  <2>5. \A b \in Bits : b \in new <=> IF b \in {29, 30} THEN b - 29 \in imm
                                      ELSE IF b \in 5 .. 23 THEN b - 3 \in imm ELSE b \in w
    <3>1. \A b \in Bits : b \in Lo(Bits) <=> b \in {29, 30}
      BY <2>2, <2>4 DEF Bits
    <3>2. \A b \in Bits : b \in Hi(Bits) <=> b \in 5 .. 23
      BY <2>3, <2>4 DEF Bits
    <3>3. \A b \in Bits : b \in Lo(imm) => b \in {29, 30} /\ b - 29 \in imm
      BY <2>2 DEF Bits, Word
    <3>4. \A b \in Bits : b \in {29, 30} /\ b - 29 \in imm => b \in Lo(imm)
      BY <2>2 DEF Bits
    <3>5. \A b \in Bits : b \in Hi(imm) <=> b \in 5 .. 23 /\ b - 3 \in imm
      BY <2>3 DEF Bits
    <3> HIDE DEF new, Lo, Hi
    <3>6. \A b : b \in new <=> \/ b \in w /\ b \notin Lo(Bits) /\ b \notin Hi(Bits)
                              \/ b \in Lo(imm) \/ b \in Hi(imm)
      BY <1>1, <2>1
    <3>7. ASSUME NEW b \in Bits
          PROVE  b \in new <=> IF b \in {29, 30} THEN b - 29 \in imm
                               ELSE IF b \in 5 .. 23 THEN b - 3 \in imm ELSE b \in w
      <4>1. CASE b \in {29, 30}
        <5>1. b \notin 5 .. 23
          BY <4>1
        <5>2. QED
          BY <3>1, <3>2, <3>3, <3>4, <3>5, <3>6, <4>1, <5>1
      <4>2. CASE b \in 5 .. 23
        <5>1. b \notin {29, 30}
          BY <4>2
        <5>2. QED
          BY <3>1, <3>2, <3>3, <3>4, <3>5, <3>6, <4>2, <5>1
      <4>3. CASE b \notin {29, 30} /\ b \notin 5 .. 23
        BY <3>1, <3>2, <3>3, <3>4, <3>5, <3>6, <4>3
      <4>4. QED
        BY <4>1, <4>2, <4>3
    <3>8. QED
      BY <3>7
  <2> HIDE DEF new, Lo, Hi
  <2>6. \A c : c \in Field(new, 29, 2) <=> c \in {0, 1} /\ c \in imm
    BY <2>5 DEF Field, Bits
  <2>7. \A c : c \in Shl(Field(new, 5, 19), 2) <=> c \in 2 .. 20 /\ c \in imm
    <3>1. \A d : d \in Field(new, 5, 19) <=> d \in 0 .. 18 /\ d + 2 \in imm
      <4>1. SUFFICES ASSUME NEW d PROVE d \in Field(new, 5, 19) <=> d \in 0 .. 18 /\ d + 2 \in imm
        OBVIOUS
      <4>2. d \in Field(new, 5, 19) <=> \E b \in new : b \in 5 .. 23 /\ d = b - 5
        BY DEF Field
      <4>3. CASE d \in 0 .. 18
        <5>1. d + 5 \in 5 .. 23 /\ d + 5 \in Bits /\ (d + 5) - 5 = d /\ (d + 5) - 3 = d + 2
          BY <4>3 DEF Bits
        <5>2. \A b \in 5 .. 23 : d = b - 5 => b = d + 5
          BY <4>3
        <5>3. d + 5 \in new <=> d + 2 \in imm
          BY <2>5, <5>1
        <5>4. QED
          BY <4>2, <4>3, <5>1, <5>2, <5>3
      <4>4. CASE d \notin 0 .. 18
        BY <4>2, <4>4
      <4>5. QED
        BY <4>3, <4>4
    <3>2. \A c : c \in Shl(Field(new, 5, 19), 2) <=> c \in Bits /\ \E d \in Field(new, 5, 19) : c = d + 2
      BY DEF Shl
    <3>3. \A c : c \in Shl(Field(new, 5, 19), 2)
                   <=> c \in Bits /\ \E d \in 0 .. 18 : d + 2 \in imm /\ c = d + 2
      BY <3>1, <3>2
    <3>4. \A c \in 2 .. 20 : c \in Bits /\ c - 2 \in 0 .. 18 /\ (c - 2) + 2 = c
      BY DEF Bits
    <3>5. \A d \in 0 .. 18 : d + 2 \in 2 .. 20
      OBVIOUS
    <3>6. QED
      BY <3>3, <3>4, <3>5
  <2>8. \A c : c \in Low(imm, 21) <=> c \in imm /\ c \in 0 .. 20
    <3>1. \A c \in imm : c < 21 <=> c \in 0 .. 20
      BY DEF Word, Bits
    <3>2. QED
      BY <3>1 DEF Low
  <2>9. Field(new, 29, 2) \cup Shl(Field(new, 5, 19), 2) = Low(imm, 21)
    BY <2>6, <2>7, <2>8
  <2>10. QED
    BY <1>6, <2>9 DEF new
<1>7. CASE type = "IMM_12"
  <2>1. InField(type, Bits) = Shl(Low(Bits, 12), 10) /\ InField(type, imm) = Shl(Low(imm, 12), 10)
    BY <1>7 DEF InField
  <2>2. Field(new, 10, 12) = Low(imm, 12)
    <3>1. Field((w \ Shl(Low(Bits, 12), 10)) \cup Shl(Low(imm, 12), 10), 10, 12) = Low(imm, 12)
      <4>1. 12 \in 1 .. 19 /\ 10 \in 0 .. 32
        OBVIOUS
      <4>2. QED
        BY <4>1, FieldAt
    <3>2. QED
      BY <1>1, <2>1, <3>1
  <2>3. QED
    BY <1>7, <2>2
<1>8. QED
  BY <1>2, <1>3, <1>4, <1>5, <1>6, <1>7
-----------------------------------------------------------------------------
(***************************************************************************)
(* Overflow                                                                *)
(***************************************************************************)

LEMMA SignedOfLow ==
  ASSUME NEW x \in Word, NEW n \in 1 .. 63
  PROVE  Low(Low(x, n), n) = Low(x, n) /\ Signed(Low(x, n), n) = Signed(x, n)
<1>1. Low(Low(x, n), n) = Low(x, n)
  BY DEF Low
<1>2. n - 1 \in Low(x, n) <=> n - 1 \in x
  BY DEF Low
<1>3. QED
  BY <1>1, <1>2 DEF Signed

LEMMA SignedByLow ==
  ASSUME NEW x \in Word, NEW y \in Word, NEW n \in 1 .. 63, Low(y, n) = Low(x, n)
  PROVE  Signed(y, n) = Signed(x, n)
BY SignedOfLow

\* Instructions lie at multiples of four.
LEMMA PlacesAreAligned ==
  ASSUME TypeInv, NEW q \in 1 .. Len(code)
  PROVE  Low(PlaceOf(q), 2) = {}
<1> DEFINE d == OfInt(8 * (q - 1))
<1>1. Len(code) \in Nat /\ start \in Word /\ Low(start, 2) = {}
  BY Aarch64RelocAssumption DEF TypeInv, TypeOK
<1>2. 0 \notin d /\ 1 \notin d
  <2>1. 2^0 = 1 /\ 2^1 = 2
    OBVIOUS
  <2>2. PICK k \in Nat : k = q - 1
    BY <1>1
  <2>3. /\ (8 * k) \div 1 = 8 * k /\ (8 * k) \div 2 = 4 * k
        /\ (8 * k) % 2 = 0 /\ (4 * k) % 2 = 0
    OBVIOUS
  <2>4. QED
    BY <2>1, <2>2, <2>3 DEF OfInt
<1>3. d \in Word
  BY DEF OfInt, Word
<1> HIDE DEF d
<1>4. \A b \in Bits : b < 2 => b = 0 \/ b = 1
  BY DEF Bits
<1>5. \A b \in Bits : b < 2 => b \notin Add(start, d)
  <2>1. \A b \in Bits : b < 2 => (b \in Add(start, d) <=> b \in d)
    BY <1>1, <1>3, 2 \in Nat, SumWithMultiple
  <2>2. QED
    BY <1>2, <1>4, <2>1
<1>6. Add(start, d) \in Word
  BY <1>1, <1>3, AddBit, AddIsWord DEF Add
<1>7. QED
  BY <1>5, <1>6 DEF PlaceOf, d, Low, Word

\* A distance from h is refused exactly if the field with its sign, n bits
\* further up, does not lead from h to the value.
LEMMA DistanceIsExact ==
  ASSUME NEW h \in Word, NEW val \in Word, NEW n \in 0 .. 63, NEW len \in 1 .. 63, len + n <= 64,
         Low(h, n) = {}
  PROVE  ~ImmOverflow(Asr(Sub(val, h), n), len) <=>
           \A b \in Xor(Add(h, Shl(Signed(Asr(Sub(val, h), n), len), n)), val) : b < n
<1>1. Sub(val, h) \in Word
  BY NotBits, AddIsWord DEF Sub
<1>2. Add(h, Sub(val, h)) = val
  BY SubThenAdd
<1>3. QED
  BY <1>1, <1>2, DistanceFits DEF ImmOverflow

\* Relocation q is refused exactly if its place has no room.
Exact(q) ==
  LET asked == IF TypeOf(q) \in MovwRelative THEN Sub(ValOf(q), PlaceOf(q)) ELSE ValOf(q)
  IN  ret[q] = Ok <=> \A b \in Xor(Effect(q, {}), asked) : b < Granule(TypeOf(q))

\* What a relocation of an immediate field leaves in place and result.
LEMMA ImmPatched ==
  ASSUME TypeInv, NEW q, NEW w, Patched(q, w, mem[q], ret[q]), TypeOf(q) \in DOMAIN Imm
  PROVE  LET t == Imm[TypeOf(q)]
             x == Asr(Value(t.op, PlaceOf(q), ValOf(q)), t.lsb)
         IN  /\ mem[q] = Encode(t.field, w, Low(x, t.len))
             /\ ret[q] = IF t.check /\ ImmOverflow(x, t.len) THEN ENOEXEC ELSE Ok
<1>1. TypeOf(q) \notin DOMAIN Data /\ TypeOf(q) \notin DOMAIN Movw
  BY DEF Imm, Data, Movw
<1>2. QED
  BY <1>1 DEF Patched

\* The same for a distance: the value from the place, n bits down.
LEMMA DistancePatched ==
  ASSUME TypeInv, NEW q, NEW w, Patched(q, w, mem[q], ret[q]), TypeOf(q) \in DOMAIN Imm,
         Imm[TypeOf(q)].op = "PREL", Imm[TypeOf(q)].check,
         Low(PlaceOf(q), Imm[TypeOf(q)].lsb) = {}
  PROVE  LET n   == Imm[TypeOf(q)].lsb
             len == Imm[TypeOf(q)].len
             x   == Asr(Sub(ValOf(q), PlaceOf(q)), n)
         IN  /\ x \in Word /\ Low(x, len) \in Word
             /\ mem[q] = Encode(Imm[TypeOf(q)].field, w, Low(x, len))
             /\ ret[q] = Ok <=>
                  \A b \in Xor(Add(PlaceOf(q), Shl(Signed(x, len), n)), ValOf(q)) : b < n
<1> DEFINE n == Imm[TypeOf(q)].lsb
           len == Imm[TypeOf(q)].len
           field == Imm[TypeOf(q)].field
           v == Sub(ValOf(q), PlaceOf(q))
           x == Asr(v, n)
<1>1. PlaceOf(q) \in Word /\ ValOf(q) \in Word
  BY PlacesAreWords
<1>2. v \in Word
  BY <1>1, NotBits, AddIsWord DEF Sub
<1>3. Value("PREL", PlaceOf(q), ValOf(q)) = v
  BY DEF Value
<1>4. mem[q] = Encode(field, w, Low(x, len)) /\ ret[q] = IF ImmOverflow(x, len) THEN ENOEXEC ELSE Ok
  BY <1>3, ImmPatched
<1>5. n \in 0 .. 63 /\ len \in 1 .. 63 /\ len \in Nat /\ len + n <= 64
  <2>1. n \in 0 .. 12 /\ len \in 8 .. 26
    BY ImmTypes
  <2> HIDE DEF n, len
  <2>2. QED
    BY <2>1
<1>6. Low(PlaceOf(q), n) = {}
  OBVIOUS
<1> HIDE DEF n, len, field, v
<1>7. x \in Word
  BY <1>2, <1>5, AsrBits
<1>8. Low(x, len) \in Word
  <2> HIDE DEF x
  <2>1. QED
    BY <1>5, <1>7, LowBits
<1>9. ~ImmOverflow(x, len) <=> \A b \in Xor(Add(PlaceOf(q), Shl(Signed(x, len), n)), ValOf(q)) : b < n
  BY <1>1, <1>5, <1>6, DistanceIsExact DEF v
<1>10. QED
  BY <1>4, <1>7, <1>8, <1>9 DEF Ok, ENOEXEC, n, len, field, v

\* Every type is read in one way.
LEMMA ReadInOneWay ==
  /\ \A t \in Branches26 :
       t \notin Literals19 \cup Adrp \cup DOMAIN Scale \cup DOMAIN Width \cup Signs
                  \cup {"TSTBR14", "ADR_PREL_LO21"}
  /\ \A t \in Literals19 :
       t \notin Adrp \cup DOMAIN Scale \cup DOMAIN Width \cup Signs \cup {"TSTBR14", "ADR_PREL_LO21"}
  /\ "TSTBR14" \notin Adrp \cup DOMAIN Scale \cup DOMAIN Width \cup Signs
  /\ "ADR_PREL_LO21" \notin Adrp \cup DOMAIN Scale \cup DOMAIN Width \cup Signs
  /\ \A t \in Adrp : t \notin DOMAIN Scale \cup DOMAIN Width \cup Signs
  /\ \A t \in DOMAIN Width : t \notin DOMAIN Scale \cup Signs
  /\ \A t \in DOMAIN Movw :
       t \notin Branches26 \cup Literals19 \cup Adrp \cup DOMAIN Scale \cup DOMAIN Width
                  \cup {"TSTBR14", "ADR_PREL_LO21"}
  /\ DOMAIN Width = {"ABS64", "ABS32", "ABS16"} \cup {"PREL64", "PREL32", "PREL16"}
BY DEF Branches26, Literals19, Adrp, Scale, Width, Signs, Movw

LEMMA BranchesExact ==
  ASSUME TypeInv, NEW q \in 1 .. Len(code), TypeOf(q) \in Branches26,
         NEW w \in Word, Patched(q, w, mem[q], ret[q]), Low(mem[q], 32) # BREAK_FAULT
  PROVE  Exact(q)
<1> DEFINE x == Asr(Sub(ValOf(q), PlaceOf(q)), 2)
<1>1. /\ TypeOf(q) \in DOMAIN Imm /\ TypeOf(q) \notin MovwRelative /\ Granule(TypeOf(q)) = 2
      /\ Imm[TypeOf(q)].op = "PREL" /\ Imm[TypeOf(q)].lsb = 2 /\ Imm[TypeOf(q)].len = 26
      /\ Imm[TypeOf(q)].field = "IMM_26" /\ Imm[TypeOf(q)].check
  BY DistanceTypes
<1>2. Low(PlaceOf(q), 2) = {}
  BY PlacesAreAligned
<1>3. /\ x \in Word /\ Low(x, 26) \in Word
      /\ mem[q] = Encode("IMM_26", w, Low(x, 26))
      /\ ret[q] = Ok <=>
           \A b \in Xor(Add(PlaceOf(q), Shl(Signed(x, 26), 2)), ValOf(q)) : b < 2
  <2>1. Low(PlaceOf(q), Imm[TypeOf(q)].lsb) = {}
    BY <1>1, <1>2
  <2> DEFINE n == Imm[TypeOf(q)].lsb
             len == Imm[TypeOf(q)].len
             y == Asr(Sub(ValOf(q), PlaceOf(q)), n)
  <2>2. /\ y \in Word /\ Low(y, len) \in Word
        /\ mem[q] = Encode(Imm[TypeOf(q)].field, w, Low(y, len))
        /\ ret[q] = Ok <=>
             \A b \in Xor(Add(PlaceOf(q), Shl(Signed(y, len), n)), ValOf(q)) : b < n
    BY <1>1, <2>1, DistancePatched
  <2>3. QED
    BY <1>1, <2>2
<1>4. Effect(q, {}) = Add(PlaceOf(q), Shl(Signed(mem[q], 26), 2))
  BY ReadInOneWay DEF Effect
<1> HIDE DEF x
<1>5. Signed(mem[q], 26) = Signed(x, 26)
  <2>1. mem[q] \in Word
    BY <1>3, EncodeKeeps
  <2>2. Low(mem[q], 26) = Low(Low(x, 26), 26)
    BY <1>3, EncodeIsRead
  <2>3. Low(Low(x, 26), 26) = Low(x, 26)
    BY <1>3, 26 \in 1 .. 63, SignedOfLow
  <2>4. QED
    BY <1>3, <2>1, <2>2, <2>3, 26 \in 1 .. 63, SignedByLow
<1>6. QED
  BY <1>1, <1>3, <1>4, <1>5 DEF Exact

LEMMA LiteralsExact ==
  ASSUME TypeInv, NEW q \in 1 .. Len(code), TypeOf(q) \in Literals19,
         NEW w \in Word, Patched(q, w, mem[q], ret[q]), Low(mem[q], 32) # BREAK_FAULT
  PROVE  Exact(q)
<1> DEFINE x == Asr(Sub(ValOf(q), PlaceOf(q)), 2)
<1>1. /\ TypeOf(q) \in DOMAIN Imm /\ TypeOf(q) \notin MovwRelative /\ Granule(TypeOf(q)) = 2
      /\ Imm[TypeOf(q)].op = "PREL" /\ Imm[TypeOf(q)].lsb = 2 /\ Imm[TypeOf(q)].len = 19
      /\ Imm[TypeOf(q)].field = "IMM_19" /\ Imm[TypeOf(q)].check
  BY DistanceTypes
<1>2. Low(PlaceOf(q), 2) = {}
  BY PlacesAreAligned
<1>3. /\ x \in Word /\ Low(x, 19) \in Word
      /\ mem[q] = Encode("IMM_19", w, Low(x, 19))
      /\ ret[q] = Ok <=>
           \A b \in Xor(Add(PlaceOf(q), Shl(Signed(x, 19), 2)), ValOf(q)) : b < 2
  <2>1. Low(PlaceOf(q), Imm[TypeOf(q)].lsb) = {}
    BY <1>1, <1>2
  <2> DEFINE n == Imm[TypeOf(q)].lsb
             len == Imm[TypeOf(q)].len
             y == Asr(Sub(ValOf(q), PlaceOf(q)), n)
  <2>2. /\ y \in Word /\ Low(y, len) \in Word
        /\ mem[q] = Encode(Imm[TypeOf(q)].field, w, Low(y, len))
        /\ ret[q] = Ok <=>
             \A b \in Xor(Add(PlaceOf(q), Shl(Signed(y, len), n)), ValOf(q)) : b < n
    BY <1>1, <2>1, DistancePatched
  <2>3. QED
    BY <1>1, <2>2
<1>4. Effect(q, {}) = Add(PlaceOf(q), Shl(Signed(Field(mem[q], 5, 19), 19), 2))
  BY ReadInOneWay DEF Effect
<1> HIDE DEF x
<1>5. Signed(Field(mem[q], 5, 19), 19) = Signed(x, 19)
  <2>1. Field(mem[q], 5, 19) = Low(Low(x, 19), 19)
    BY <1>3, EncodeIsRead
  <2>2. QED
    BY <1>3, <2>1, 19 \in 1 .. 63, SignedOfLow
<1>6. QED
  BY <1>1, <1>3, <1>4, <1>5 DEF Exact

LEMMA TestBranchExact ==
  ASSUME TypeInv, NEW q \in 1 .. Len(code), TypeOf(q) = "TSTBR14",
         NEW w \in Word, Patched(q, w, mem[q], ret[q]), Low(mem[q], 32) # BREAK_FAULT
  PROVE  Exact(q)
<1> DEFINE x == Asr(Sub(ValOf(q), PlaceOf(q)), 2)
<1>1. /\ TypeOf(q) \in DOMAIN Imm /\ TypeOf(q) \notin MovwRelative /\ Granule(TypeOf(q)) = 2
      /\ Imm[TypeOf(q)].op = "PREL" /\ Imm[TypeOf(q)].lsb = 2 /\ Imm[TypeOf(q)].len = 14
      /\ Imm[TypeOf(q)].field = "IMM_14" /\ Imm[TypeOf(q)].check
  BY DistanceTypes
<1>2. Low(PlaceOf(q), 2) = {}
  BY PlacesAreAligned
<1>3. /\ x \in Word /\ Low(x, 14) \in Word
      /\ mem[q] = Encode("IMM_14", w, Low(x, 14))
      /\ ret[q] = Ok <=>
           \A b \in Xor(Add(PlaceOf(q), Shl(Signed(x, 14), 2)), ValOf(q)) : b < 2
  <2>1. Low(PlaceOf(q), Imm[TypeOf(q)].lsb) = {}
    BY <1>1, <1>2
  <2> DEFINE n == Imm[TypeOf(q)].lsb
             len == Imm[TypeOf(q)].len
             y == Asr(Sub(ValOf(q), PlaceOf(q)), n)
  <2>2. /\ y \in Word /\ Low(y, len) \in Word
        /\ mem[q] = Encode(Imm[TypeOf(q)].field, w, Low(y, len))
        /\ ret[q] = Ok <=>
             \A b \in Xor(Add(PlaceOf(q), Shl(Signed(y, len), n)), ValOf(q)) : b < n
    BY <1>1, <2>1, DistancePatched
  <2>3. QED
    BY <1>1, <2>2
<1>4. Effect(q, {}) = Add(PlaceOf(q), Shl(Signed(Field(mem[q], 5, 14), 14), 2))
  BY ReadInOneWay DEF Effect
<1> HIDE DEF x
<1>5. Signed(Field(mem[q], 5, 14), 14) = Signed(x, 14)
  <2>1. Field(mem[q], 5, 14) = Low(Low(x, 14), 14)
    BY <1>3, EncodeIsRead
  <2>2. QED
    BY <1>3, <2>1, 14 \in 1 .. 63, SignedOfLow
<1>6. QED
  BY <1>1, <1>3, <1>4, <1>5 DEF Exact

LEMMA LowZero ==
  ASSUME NEW x \in Word
  PROVE  Low(x, 0) = {}
<1>1. \A b \in x : b \in 0 .. 63
  BY DEF Word, Bits
<1>2. \A b \in x : ~(b < 0)
  BY <1>1
<1>3. QED
  BY <1>2 DEF Low

LEMMA ShlZero ==
  ASSUME NEW x \in Word
  PROVE  Shl(x, 0) = x
<1>1. Shl(x, 0) \in Word /\ \A b \in Bits : b \in Shl(x, 0) <=> b - 0 \in x
  BY 0 \in 0 .. 64, ShlBits
<1>2. \A b \in Bits : b - 0 = b
  BY DEF Bits
<1>3. QED
  BY <1>1, <1>2 DEF Word

\* A page has no bit below 12, and differs from the address only there.
LEMMA PageBits ==
  ASSUME NEW x \in Word
  PROVE  /\ PageOf(x) \in Word /\ Low(PageOf(x), 12) = {}
         /\ \A y \in Word : (\A b \in Xor(y, PageOf(x)) : b < 12) <=> (\A b \in Xor(y, x) : b < 12)
<1>1. \A b \in Bits : b < 12 <=> ~(b >= 12)
  BY DEF Bits
<1>2. \A b \in x : b \in Bits
  BY DEF Word
<1>3. PageOf(x) \in Word
  BY DEF PageOf, Word
<1>4. Low(PageOf(x), 12) = {}
  BY <1>1, <1>2 DEF PageOf, Low
<1>5. ASSUME NEW y \in Word
      PROVE  (\A b \in Xor(y, PageOf(x)) : b < 12) <=> (\A b \in Xor(y, x) : b < 12)
  <2>1. \A b \in y : b \in Bits
    BY DEF Word
  <2>2. QED
    BY <1>1, <1>2, <2>1 DEF PageOf, Xor
<1>6. QED
  BY <1>3, <1>4, <1>5

\* The immediate of adr and adrp is read the way it was encoded.
LEMMA AdrIsRead ==
  ASSUME NEW w \in Word, NEW x \in Word, NEW new, new = Encode("IMM_ADR", w, Low(x, 21)),
         Low(new, 32) # BREAK_FAULT, Low(x, 21) \in Word
  PROVE  AdrImm(new) = Signed(x, 21)
<1>1. Field(new, 29, 2) \cup Shl(Field(new, 5, 19), 2) = Low(Low(x, 21), 21)
  BY EncodeIsRead
<1>2. QED
  BY <1>1, 21 \in 1 .. 63, SignedOfLow DEF AdrImm

LEMMA AdrExact ==
  ASSUME TypeInv, NEW q \in 1 .. Len(code), TypeOf(q) = "ADR_PREL_LO21",
         NEW w \in Word, Patched(q, w, mem[q], ret[q]), Low(mem[q], 32) # BREAK_FAULT
  PROVE  Exact(q)
<1> DEFINE x == Asr(Sub(ValOf(q), PlaceOf(q)), 0)
<1>1. /\ TypeOf(q) \in DOMAIN Imm /\ TypeOf(q) \notin MovwRelative /\ Granule(TypeOf(q)) = 0
      /\ Imm[TypeOf(q)].op = "PREL" /\ Imm[TypeOf(q)].lsb = 0 /\ Imm[TypeOf(q)].len = 21
      /\ Imm[TypeOf(q)].field = "IMM_ADR" /\ Imm[TypeOf(q)].check
  BY DistanceTypes
<1>2. Low(PlaceOf(q), 0) = {}
  <2>1. PlaceOf(q) \in Word
    BY PlacesAreWords
  <2>2. QED
    BY <2>1, LowZero
<1>3. /\ x \in Word /\ Low(x, 21) \in Word
      /\ mem[q] = Encode("IMM_ADR", w, Low(x, 21))
      /\ ret[q] = Ok <=>
           \A b \in Xor(Add(PlaceOf(q), Shl(Signed(x, 21), 0)), ValOf(q)) : b < 0
  <2>1. Low(PlaceOf(q), Imm[TypeOf(q)].lsb) = {}
    BY <1>1, <1>2
  <2> DEFINE n == Imm[TypeOf(q)].lsb
             len == Imm[TypeOf(q)].len
             y == Asr(Sub(ValOf(q), PlaceOf(q)), n)
  <2>2. /\ y \in Word /\ Low(y, len) \in Word
        /\ mem[q] = Encode(Imm[TypeOf(q)].field, w, Low(y, len))
        /\ ret[q] = Ok <=>
             \A b \in Xor(Add(PlaceOf(q), Shl(Signed(y, len), n)), ValOf(q)) : b < n
    BY <1>1, <2>1, DistancePatched
  <2>3. QED
    BY <1>1, <2>2
<1>4. Effect(q, {}) = Add(PlaceOf(q), AdrImm(mem[q]))
  BY ReadInOneWay DEF Effect
<1> HIDE DEF x
<1>5. AdrImm(mem[q]) = Signed(x, 21)
  BY <1>3, AdrIsRead
<1>6. Shl(Signed(x, 21), 0) = Signed(x, 21)
  <2>1. Signed(x, 21) \in Word
    BY <1>3, 21 \in 1 .. 63, SignedBits
  <2>2. QED
    BY <2>1, ShlZero
<1>7. QED
  BY <1>1, <1>3, <1>4, <1>5, <1>6 DEF Exact

LEMMA AdrpExact ==
  ASSUME TypeInv, NEW q \in 1 .. Len(code), TypeOf(q) = "ADR_PREL_PG_HI21",
         NEW w \in Word, Patched(q, w, mem[q], ret[q]), Low(mem[q], 32) # BREAK_FAULT
  PROVE  Exact(q)
<1> DEFINE h == PageOf(PlaceOf(q))
           page == PageOf(ValOf(q))
           v == Sub(page, h)
           x == Asr(v, 12)
<1>1. /\ TypeOf(q) \in DOMAIN Imm /\ TypeOf(q) \notin MovwRelative /\ Granule(TypeOf(q)) = 12
      /\ Imm[TypeOf(q)].op = "PAGE" /\ Imm[TypeOf(q)].lsb = 12 /\ Imm[TypeOf(q)].len = 21
      /\ Imm[TypeOf(q)].field = "IMM_ADR" /\ Imm[TypeOf(q)].check
  BY DistanceTypes
<1>2. PlaceOf(q) \in Word /\ ValOf(q) \in Word
  BY PlacesAreWords
<1>3. h \in Word /\ page \in Word /\ Low(h, 12) = {}
  BY <1>2, PageBits
<1>4. Value("PAGE", PlaceOf(q), ValOf(q)) = v
  BY DEF Value
<1>5. mem[q] = Encode("IMM_ADR", w, Low(x, 21)) /\ ret[q] = IF ImmOverflow(x, 21) THEN ENOEXEC ELSE Ok
  <2> DEFINE t == Imm[TypeOf(q)]
             y == Asr(Value(t.op, PlaceOf(q), ValOf(q)), t.lsb)
  <2>1. /\ mem[q] = Encode(t.field, w, Low(y, t.len))
        /\ ret[q] = IF t.check /\ ImmOverflow(y, t.len) THEN ENOEXEC ELSE Ok
    BY <1>1, ImmPatched
  <2>2. QED
    BY <1>1, <1>4, <2>1
<1>6. Effect(q, {}) = Add(h, Shl(AdrImm(mem[q]), 12))
  BY ReadInOneWay DEF Effect, Adrp
<1> HIDE DEF h, page
<1>7. v \in Word
  BY <1>3, NotBits, AddIsWord DEF Sub
<1>8. ~ImmOverflow(x, 21) <=> \A b \in Xor(Add(h, Shl(Signed(x, 21), 12)), page) : b < 12
  <2>1. 12 \in 0 .. 63 /\ 21 \in 1 .. 63 /\ 21 + 12 <= 64
    OBVIOUS
  <2>2. QED
    BY <1>3, <2>1, DistanceIsExact
<1> HIDE DEF v
<1>9. x \in Word /\ Low(x, 21) \in Word
  <2>1. x \in Word
    BY <1>7, 12 \in 0 .. 63, AsrBits
  <2> HIDE DEF x
  <2>2. QED
    BY <2>1, 21 \in Nat, LowBits
<1> HIDE DEF x
<1>10. AdrImm(mem[q]) = Signed(x, 21)
  BY <1>5, <1>9, AdrIsRead
<1>11. Effect(q, {}) \in Word
  <2>1. Signed(x, 21) \in Word
    BY <1>9, 21 \in 1 .. 63, SignedBits
  <2>2. Shl(Signed(x, 21), 12) \in Word
    BY <2>1, 12 \in 0 .. 64, ShlBits
  <2>3. QED
    BY <1>3, <1>6, <1>10, <2>2, AddIsWord DEF Add
<1>12. (\A b \in Xor(Effect(q, {}), page) : b < 12) <=> (\A b \in Xor(Effect(q, {}), ValOf(q)) : b < 12)
  BY <1>2, <1>11, PageBits DEF page
<1>13. QED
  BY <1>1, <1>5, <1>6, <1>8, <1>10, <1>12 DEF Exact, Ok, ENOEXEC

\* No bit below the first one: nothing differs.
LEMMA NothingDiffers ==
  ASSUME NEW x \in Word, NEW y \in Word
  PROVE  (\A b \in Xor(x, y) : b < 0) <=> x = y
<1>1. \A b \in Bits : ~(b < 0)
  BY DEF Bits
<1>2. QED
  BY <1>1 DEF Xor, Word

LEMMA DataExact ==
  ASSUME TypeInv, NEW q \in 1 .. Len(code), TypeOf(q) \in {"ABS32", "ABS16", "PREL32", "PREL16"},
         NEW w \in Word, Patched(q, w, mem[q], ret[q])
  PROVE  Exact(q)
<1> DEFINE h == PlaceOf(q)
           val == ValOf(q)
           t == Data[TypeOf(q)]
           len == Width[TypeOf(q)]
           x == Value(t.op, h, val)
<1>1. /\ TypeOf(q) \in DOMAIN Data /\ TypeOf(q) \notin MovwRelative
      /\ t.check /\ t.len = len /\ len \in {16, 32} /\ t.op \in {"ABS", "PREL"}
  BY CheckedData
<1>2. Granule(TypeOf(q)) = 0
  BY GranuleOfGroup DEF Width
<1>3. TypeOf(q) \notin DOMAIN Movw /\ TypeOf(q) \notin DOMAIN Imm
  BY DEF Movw, Imm
<1>4. mem[q] = Store(w, x, t.len) /\ ret[q] = IF DataOverflow(t.op, x, t.len) THEN ENOEXEC ELSE Ok
  BY <1>1, <1>3 DEF Patched
<1>5. h \in Word /\ val \in Word
  BY PlacesAreWords
<1>6. x \in Word
  BY <1>1, <1>5, ValueIsWord
<1>7. len \in 1 .. 63 /\ len \in 1 .. 64 /\ len \in Nat
  <2> HIDE DEF len
  <2>1. QED
    BY <1>1
<1>8. TypeOf(q) \in DOMAIN Width
  BY DEF Width
<1>9. mem[q] = Store(w, x, len) /\ ret[q] = IF DataOverflow(t.op, x, len) THEN ENOEXEC ELSE Ok
  BY <1>1, <1>4
<1>10. mem[q] \in Word /\ Low(mem[q], len) = Low(x, len)
  <2> HIDE DEF x, len
  <2>1. QED
    BY <1>6, <1>7, <1>9, StoreKeeps
<1>11. CASE TypeOf(q) \in {"ABS32", "ABS16"}
  <2>1. t.op = "ABS" /\ x = val
    BY <1>11, CheckedData DEF Value
  <2>2. Effect(q, {}) = Low(mem[q], len)
    BY <1>8, <1>11, ReadInOneWay DEF Effect
  <2> HIDE DEF h, val, t, len, x
  <2>3. ret[q] = Ok <=> x = Low(x, len)
    BY <1>9, <2>1 DEF DataOverflow, Ok, ENOEXEC
  <2>4. Low(x, len) \in Word
    BY <1>6, <1>7, LowBits
  <2>5. (\A b \in Xor(Low(x, len), x) : b < 0) <=> Low(x, len) = x
    BY <1>6, <2>4, NothingDiffers
  <2>6. QED
    BY <1>1, <1>2, <1>10, <2>1, <2>2, <2>3, <2>5 DEF Exact, val
<1>12. CASE TypeOf(q) \in {"PREL32", "PREL16"}
  <2>1. t.op = "PREL" /\ x = Sub(val, h)
    BY <1>12, CheckedData DEF Value
  <2>2. Effect(q, {}) = Add(h, Signed(mem[q], len))
    BY <1>8, <1>12, ReadInOneWay DEF Effect
  <2> HIDE DEF h, val, t, len, x
  <2>3. ret[q] = Ok <=> x = Signed(x, len)
    BY <1>9, <2>1 DEF DataOverflow, Ok, ENOEXEC
  <2>4. Signed(mem[q], len) = Signed(x, len)
    BY <1>6, <1>7, <1>10, SignedByLow
  <2>5. Signed(x, len) \in Word
    BY <1>6, <1>7, SignedBits
  <2>6. Add(h, x) = val
    BY <1>5, <2>1, SubThenAdd
  <2>7. Add(h, Signed(x, len)) = val <=> Signed(x, len) = x
    BY <1>5, <1>6, <2>5, <2>6, AddCancels
  <2>8. Add(h, Signed(x, len)) \in Word
    BY <1>5, <2>5, AddIsWord DEF Add
  <2>9. (\A b \in Xor(Add(h, Signed(x, len)), val) : b < 0) <=> Add(h, Signed(x, len)) = val
    BY <1>5, <2>8, NothingDiffers
  <2>10. QED
    BY <1>1, <1>2, <2>2, <2>3, <2>4, <2>7, <2>9 DEF Exact, val
<1>13. QED
  BY <1>11, <1>12

\* What a wide move is left with: the sixteen bits of the value, inverted for a
\* movn, and the opcode.
WideValue(q) ==
  IF TypeOf(q) \in MovwRelative THEN Sub(ValOf(q), PlaceOf(q)) ELSE ValOf(q)

WideNegative(q) == TypeOf(q) \in Signs /\ 63 \in WideValue(q)

WideImm(q) ==
  LET asr == Asr(WideValue(q), Group(TypeOf(q)))
  IN  IF WideNegative(q) THEN Not(asr) ELSE asr

LEMMA WideIsRead ==
  ASSUME TypeInv, NEW q \in 1 .. Len(code), TypeOf(q) \in DOMAIN Movw,
         NEW w \in Word, Patched(q, w, mem[q], ret[q]), Low(mem[q], 32) # BREAK_FAULT
  PROVE  /\ WideValue(q) \in Word /\ WideImm(q) \in Word
         /\ Field(mem[q], 5, 16) = Low(WideImm(q), 16)
         /\ TypeOf(q) \in Signs => (30 \in mem[q] <=> ~WideNegative(q))
         /\ ret[q] = IF Movw[TypeOf(q)].check /\ WideImm(q) # Low(WideImm(q), 16) THEN ENOEXEC ELSE Ok
<1> DEFINE t == Movw[TypeOf(q)]
           g == t.lsb
           x == Value(t.op, PlaceOf(q), ValOf(q))
           negative == t.kind = "MOVNZ" /\ 63 \in x
           imm == IF negative THEN Inverted(x, g) ELSE Asr(x, g)
           word == IF t.kind = "MOVNZ" THEN SetOpcode(w, negative) ELSE w
<1>1. /\ t.kind = "MOVNZ" <=> TypeOf(q) \in Signs
      /\ t.op = IF TypeOf(q) \in MovwRelative THEN "PREL" ELSE "ABS"
      /\ Group(TypeOf(q)) = g /\ g \in {0, 16, 32, 48}
  BY MovwTypes
<1>2. TypeOf(q) \notin DOMAIN Data /\ TypeOf(q) \notin DOMAIN Imm
  BY DEF Movw, Imm, Data
<1>3. /\ mem[q] = Encode("IMM_16", word, imm)
      /\ ret[q] = IF t.check /\ imm # Low(imm, 16) THEN ENOEXEC ELSE Ok
  BY <1>2 DEF Patched
<1>4. x = WideValue(q)
  BY <1>1 DEF Value, WideValue
<1>5. x \in Word
  BY <1>1, PlacesAreWords, ValueIsWord
<1>6. negative = WideNegative(q) /\ imm = WideImm(q)
  BY <1>1, <1>4 DEF WideNegative, WideImm, Inverted
<1> HIDE DEF t, g, x
<1>7. imm \in Word
  <2>1. g \in 0 .. 63
    BY <1>1
  <2>2. Asr(x, g) \in Word
    BY <1>5, <2>1, AsrBits
  <2>3. QED
    BY <2>2, NotBits DEF Inverted
<1>8. word \in Word /\ (t.kind = "MOVNZ" => (30 \in word <=> ~negative))
  BY SetOpcodeKeeps
<1> HIDE DEF imm, word
<1>9. Field(mem[q], 5, 16) = Low(imm, 16)
  BY <1>3, <1>7, <1>8, EncodeIsRead
<1>10. t.kind = "MOVNZ" => (30 \in mem[q] <=> ~negative)
  <2>1. Xor(word, mem[q]) \subseteq 5 .. 20
    <3>1. FieldBits("IMM_16") = 5 .. 20
      BY DEF FieldBits
    <3>2. QED
      BY <1>3, <1>7, <1>8, <3>1, EncodeKeeps
  <2>2. 30 \in mem[q] <=> 30 \in word
    BY <2>1 DEF Xor
  <2>3. QED
    BY <1>8, <2>2
<1> HIDE DEF negative
<1>11. QED
  BY <1>1, <1>3, <1>4, <1>5, <1>6, <1>7, <1>9, <1>10 DEF t

\* How a wide move is executed.
LEMMA WideEffect ==
  ASSUME NEW q, TypeOf(q) \in DOMAIN Movw, NEW reg
  PROVE  LET g == Group(TypeOf(q))
             y == Shl(Field(mem[q], 5, 16), g)
         IN  Effect(q, reg) = IF TypeOf(q) \in Signs THEN IF 30 \in mem[q] THEN y ELSE Not(y)
                              ELSE (reg \ (g .. g + 15)) \cup y
<1>1. TypeOf(q) \notin Branches26 \cup Literals19 \cup Adrp \cup DOMAIN Scale
                           \cup {"TSTBR14", "ADR_PREL_LO21"}
                           \cup {"ABS64", "ABS32", "ABS16"} \cup {"PREL64", "PREL32", "PREL16"}
  BY ReadInOneWay
<1>2. QED
  BY <1>1 DEF Effect

LEMMA WideExact ==
  ASSUME TypeInv, NEW q \in 1 .. Len(code),
         TypeOf(q) \in {"MOVW_UABS_G0", "MOVW_UABS_G1", "MOVW_UABS_G2"} \cup (Signs \ {"MOVW_PREL_G3"}),
         NEW w \in Word, Patched(q, w, mem[q], ret[q]), Low(mem[q], 32) # BREAK_FAULT
  PROVE  Exact(q)
<1> DEFINE g == Group(TypeOf(q))
           x == WideValue(q)
           wide == Field(mem[q], 5, 16)
<1>1. TypeOf(q) \in DOMAIN Movw /\ Movw[TypeOf(q)].check /\ Movw[TypeOf(q)].lsb \in {0, 16, 32}
  BY CheckedMovw
<1>2. g \in 0 .. 47 /\ Granule(TypeOf(q)) = g
  <2>1. g = Movw[TypeOf(q)].lsb /\ Granule(TypeOf(q)) = g
    BY <1>1, MovwTypes, GranuleOfGroup
  <2> HIDE DEF g
  <2>2. QED
    BY <1>1, <2>1
<1>3. /\ x \in Word /\ wide = Low(WideImm(q), 16)
      /\ TypeOf(q) \in Signs => (30 \in mem[q] <=> ~WideNegative(q))
      /\ ret[q] = IF WideImm(q) # Low(WideImm(q), 16) THEN ENOEXEC ELSE Ok
  BY <1>1, WideIsRead
<1>4. Effect(q, {}) = IF TypeOf(q) \in Signs THEN IF 30 \in mem[q] THEN Shl(wide, g) ELSE Not(Shl(wide, g))
                      ELSE ({} \ (g .. g + 15)) \cup Shl(wide, g)
  BY <1>1, WideEffect
<1>5. x = IF TypeOf(q) \in MovwRelative THEN Sub(ValOf(q), PlaceOf(q)) ELSE ValOf(q)
  BY DEF WideValue
<1>6. CASE WideNegative(q)
  <2>1. TypeOf(q) \in Signs /\ 63 \in x /\ WideImm(q) = Not(Asr(x, g))
    BY <1>6 DEF WideNegative, WideImm
  <2>2. Effect(q, {}) = Not(Shl(Low(WideImm(q), 16), g))
    BY <1>3, <1>4, <1>6, <2>1
  <2> HIDE DEF g, x, wide
  <2>3. (\A b \in Xor(Not(Shl(Low(WideImm(q), 16), g)), x) : b < g) <=> WideImm(q) = Low(WideImm(q), 16)
    BY <1>2, <1>3, <2>1, InvertedFits
  <2>4. QED
    BY <1>2, <1>3, <1>5, <2>2, <2>3 DEF Exact, Ok, ENOEXEC
<1>7. CASE ~WideNegative(q)
  <2>1. WideImm(q) = Asr(x, g)
    BY <1>7 DEF WideImm
  <2>2. Effect(q, {}) = Shl(Low(WideImm(q), 16), g)
    BY <1>3, <1>4, <1>7
  <2> HIDE DEF g, x, wide
  <2>3. (\A b \in Xor(Shl(Low(WideImm(q), 16), g), x) : b < g) <=> WideImm(q) = Low(WideImm(q), 16)
    BY <1>2, <1>3, <2>1, WideFits
  <2>4. QED
    BY <1>2, <1>3, <1>5, <2>2, <2>3 DEF Exact, Ok, ENOEXEC
<1>8. QED
  BY <1>6, <1>7

LEMMA PatchedIsExact ==
  ASSUME TypeInv, PatchedInv
  PROVE  OverflowIsExact
<1> SUFFICES ASSUME NEW q \in 1 .. r - 1, TypeOf(q) \in Checked, Low(mem[q], 32) # BREAK_FAULT
             PROVE  Exact(q)
  BY DEF OverflowIsExact, Exact
<1>1. q \in 1 .. Len(code)
  BY Aarch64RelocAssumption DEF TypeInv, TypeOK
<1>2. PICK w \in Word : Patched(q, w, mem[q], ret[q])
  BY DEF PatchedInv
<1>3. \/ TypeOf(q) \in Branches26 \/ TypeOf(q) \in Literals19
      \/ TypeOf(q) = "TSTBR14" \/ TypeOf(q) = "ADR_PREL_LO21" \/ TypeOf(q) = "ADR_PREL_PG_HI21"
      \/ TypeOf(q) \in {"ABS32", "ABS16", "PREL32", "PREL16"}
      \/ TypeOf(q) \in {"MOVW_UABS_G0", "MOVW_UABS_G1", "MOVW_UABS_G2"} \cup (Signs \ {"MOVW_PREL_G3"})
  BY DEF Checked
<1>4. QED
  BY <1>1, <1>2, <1>3, BranchesExact, LiteralsExact, TestBranchExact, AdrExact, AdrpExact,
     DataExact, WideExact

\* No value that fits is refused and none that does not fit is accepted, for
\* every code, address, value and addend: the tests of the upper bits are exact
\* for every field of an instruction and every datum (reloc.cpp:84-313).
THEOREM Aarch64OverflowIsExact == Spec => []OverflowIsExact
BY InvHolds, PatchedIsExact, PTL

-----------------------------------------------------------------------------
(***************************************************************************)
(* The address the code makes                                              *)
(***************************************************************************)

\* 0 has no bit, and adds nothing.
LEMMA Zero ==
  /\ OfInt(0) = {}
  /\ \A x \in Word : Add(x, {}) = x
<1>1. OfInt(0) = {}
  <2> DEFINE Powers == {1, 2, 4, 8, 16, 32, 64, 128, 256, 512, 1024, 2048, 4096, 8192, 16384, 32768,
                        65536, 131072, 262144, 524288, 1048576, 2097152, 4194304, 8388608, 16777216,
                        33554432, 67108864, 134217728, 268435456, 536870912}
  <2>1. /\ {2^0, 2^1, 2^2, 2^3, 2^4, 2^5, 2^6, 2^7, 2^8, 2^9} \subseteq Powers
        /\ {2^10, 2^11, 2^12, 2^13, 2^14, 2^15, 2^16, 2^17, 2^18, 2^19} \subseteq Powers
        /\ {2^20, 2^21, 2^22, 2^23, 2^24, 2^25, 2^26, 2^27, 2^28, 2^29} \subseteq Powers
    OBVIOUS
  <2>2. \A k \in Powers : k \in Nat /\ k > 0
    OBVIOUS
  <2> HIDE DEF Powers
  <2>3. \A b \in Bits : b < 30 => 2^b \in Powers
    <3>1. SUFFICES ASSUME NEW b \in Bits, b < 30 PROVE 2^b \in Powers
      OBVIOUS
    <3>2. \/ b \in {0, 1, 2, 3, 4, 5, 6, 7, 8, 9}
          \/ b \in {10, 11, 12, 13, 14, 15, 16, 17, 18, 19}
          \/ b \in {20, 21, 22, 23, 24, 25, 26, 27, 28, 29}
      BY <3>1 DEF Bits
    <3>3. QED
      BY <2>1, <3>2
  <2>4. \A k \in Nat : k > 0 => (0 \div k) % 2 # 1
    OBVIOUS
  <2>5. \A b \in Bits : b < 30 => (0 \div 2^b) % 2 # 1
    <3>1. SUFFICES ASSUME NEW b \in Bits, b < 30 PROVE (0 \div 2^b) % 2 # 1
      OBVIOUS
    <3>2. PICK k \in Nat : k > 0 /\ k = 2^b
      BY <2>2, <2>3, <3>1
    <3>3. QED
      BY <2>4, <3>2
  <2>6. ~(0 < 0)
    OBVIOUS
  <2>7. QED
    BY <2>5, <2>6 DEF OfInt
<1>2. ASSUME NEW x \in Word PROVE Add(x, {}) = x
  <2>1. {} \in Word
    BY DEF Word
  <2>2. Carries(x, {}, FALSE) = {}
    BY DEF Carries
  <2>3. \A b \in Bits : b \in Add(x, {}) <=> b \in x
    BY <2>1, <2>2, AddBit
  <2>4. Add(x, {}) \in Word
    BY <2>1, AddIsWord DEF Add
  <2>5. QED
    BY <2>3, <2>4 DEF Word
<1>3. QED
  BY <1>1, <1>2

\* The registers one after the other: reg[q] is what the first q instructions
\* make.
LEMMA MadeUnfolds ==
  ASSUME Len(code) \in 1 .. 4
  PROVE  \E reg :
           /\ reg[0] = {}
           /\ \A q \in 1 .. Len(code) : reg[q] = Effect(q, reg[q - 1])
           /\ Made = IF TypeOf(1) \in MovwRelative THEN Add(start, reg[Len(code)]) ELSE reg[Len(code)]
<1> DEFINE n == Len(code)
           Good(g) == g = [q \in 0 .. n |-> IF q = 0 THEN {} ELSE Effect(q, g[q - 1])]
           e1 == Effect(1, {})
           e2 == Effect(2, e1)
           e3 == Effect(3, e2)
           e4 == Effect(4, e3)
           w == [q \in 0 .. n |-> CASE q = 0 -> {} [] q = 1 -> e1 [] q = 2 -> e2 [] q = 3 -> e3 [] OTHER -> e4]
           reg == CHOOSE g : Good(g)
<1>0. n \in 1 .. 4
  OBVIOUS
<1> HIDE DEF n
<1>1. Good(w)
  <2> HIDE DEF e1, e2, e3, e4
  <2>1. \A q \in 0 .. n : q = 0 \/ q = 1 \/ q = 2 \/ q = 3 \/ q = 4
    BY <1>0
  <2>2. ASSUME NEW q \in 0 .. n
        PROVE  w[q] = IF q = 0 THEN {} ELSE Effect(q, w[q - 1])
    <3>1. q # 0 => q - 1 \in 0 .. n
      BY <1>0
    <3>2. CASE q = 0
      BY <3>2
    <3>3. CASE q = 1
      BY <3>1, <3>3 DEF e1
    <3>4. CASE q = 2
      BY <3>1, <3>4 DEF e2
    <3>5. CASE q = 3
      BY <3>1, <3>5 DEF e3
    <3>6. CASE q = 4
      BY <3>1, <3>6 DEF e4
    <3>7. QED
      BY <2>1, <3>2, <3>3, <3>4, <3>5, <3>6
  <2>3. QED
    BY <2>2
<1> HIDE DEF w
<1>2. Good(reg)
  <2> HIDE DEF Good
  <2>1. QED
    BY <1>1
<1>3. Made = IF TypeOf(1) \in MovwRelative THEN Add(start, reg[n]) ELSE reg[n]
  BY DEF Made, n
<1> HIDE DEF reg
<1>4. reg[0] = {}
  BY <1>0, <1>2
<1>5. \A q \in 1 .. n : reg[q] = Effect(q, reg[q - 1])
  <2>1. \A q \in 1 .. n : q \in 0 .. n /\ q # 0
    BY <1>0
  <2>2. \A q \in 0 .. n : reg[q] = IF q = 0 THEN {} ELSE Effect(q, reg[q - 1])
    BY <1>2, Zenon
  <2>3. QED
    BY <2>1, <2>2
<1>6. QED
  BY <1>3, <1>4, <1>5 DEF n

\* The first instruction lies at the start, and without an addend it is the value
\* that is asked for.
LEMMA FirstIsAsked ==
  ASSUME TypeInv, NEW q, code[q][2] = 0
  PROVE  ValOf(q) = value /\ PlaceOf(1) = start
<1>1. start \in Word /\ value \in Word
  BY DEF TypeInv, TypeOK
<1>2. 8 * (1 - 1) = 0
  OBVIOUS
<1>3. QED
  BY <1>1, <1>2, Zero DEF ValOf, PlaceOf

LEMMA FieldIsWord ==
  ASSUME NEW w \in Word, NEW l \in Nat, NEW n \in Nat
  PROVE  Field(w, l, n) \in Word
BY DEF Field, Word, Bits

\* Two multiples of 2^n that agree from bit n on are the same.
LEMMA MultiplesAgree ==
  ASSUME NEW x \in Word, NEW y \in Word, NEW n \in Nat,
         \A b \in Xor(x, y) : b < n, Low(x, n) = {}, Low(y, n) = {}
  PROVE  x = y
<1>1. \A b \in Bits : b < n => b \notin x /\ b \notin y
  BY DEF Low
<1>2. \A b \in Bits : b \in x <=> b \in y
  BY <1>1 DEF Xor
<1>3. QED
  BY <1>2 DEF Word

\* From a multiple of 2^n by a multiple of 2^n it is a multiple of 2^n.
LEMMA SumOfMultiples ==
  ASSUME NEW x \in Word, NEW s \in Word, NEW n \in 0 .. 63, Low(x, n) = {}
  PROVE  Add(x, Shl(s, n)) \in Word /\ Low(Add(x, Shl(s, n)), n) = {}
<1> DEFINE y == Shl(s, n)
<1>1. y \in Word /\ \A b \in Bits : b \in y <=> b - n \in s
  BY n \in 0 .. 64, ShlBits
<1>2. \A b \in s : b \in 0 .. 63
  BY DEF Word, Bits
<1> HIDE DEF y
<1>3. \A b \in Bits : b < n => b \notin y
  <2>1. \A b \in Bits : b < n => b - n \notin 0 .. 63
    BY DEF Bits
  <2>2. QED
    BY <1>1, <1>2, <2>1
<1>4. \A b \in Bits : b < n => (b \in Add(x, y) <=> b \in y)
  BY <1>1, n \in Nat, SumWithMultiple
<1>5. Add(x, y) \in Word
  BY <1>1, AddIsWord DEF Add
<1>6. Low(Add(x, y), n) = {}
  BY <1>3, <1>4, <1>5 DEF Low, Word
<1>7. QED
  BY <1>5, <1>6 DEF y

LEMMA AdrImmIsWord ==
  ASSUME NEW w \in Word
  PROVE  AdrImm(w) \in Word
<1>1. Field(w, 29, 2) \in Word /\ Field(w, 5, 19) \in Word
  BY FieldIsWord
<1>2. Shl(Field(w, 5, 19), 2) \in Word
  BY <1>1, 2 \in 0 .. 64, ShlBits
<1>3. Field(w, 29, 2) \cup Shl(Field(w, 5, 19), 2) \in Word
  BY <1>1, <1>2 DEF Word
<1>4. QED
  BY <1>3, 21 \in 1 .. 63, SignedBits DEF AdrImm

\* What a single instruction or datum makes is a multiple of what it has no room
\* for.
LEMMA AloneIsMultiple ==
  ASSUME TypeInv, NEW q \in 1 .. Len(code),
         TypeOf(q) \in Branches26 \cup Literals19 \cup {"TSTBR14", "ADR_PREL_LO21"}
  PROVE  /\ Effect(q, {}) \in Word /\ Low(Effect(q, {}), Granule(TypeOf(q))) = {}
         /\ Granule(TypeOf(q)) \in Nat
<1> DEFINE w == mem[q]
           here == PlaceOf(q)
<1>1. w \in Word /\ here \in Word /\ Low(here, 2) = {}
  BY PlacesAreWords, PlacesAreAligned DEF TypeInv, TypeOK
<1>2. \A x \in Word : \A n \in 1 .. 63 : Signed(x, n) \in Word
  BY SignedBits
<1>3. \A x \in Word : Add(here, Shl(x, 2)) \in Word /\ Low(Add(here, Shl(x, 2)), 2) = {}
  BY <1>1, 2 \in 0 .. 63, SumOfMultiples
<1>4. Field(w, 5, 19) \in Word /\ Field(w, 5, 14) \in Word /\ Field(w, 29, 2) \in Word
  BY <1>1, FieldIsWord
<1>5. CASE TypeOf(q) \in Branches26
  <2>1. Effect(q, {}) = Add(here, Shl(Signed(w, 26), 2)) /\ Granule(TypeOf(q)) = 2
    BY <1>5, ReadInOneWay, DistanceTypes DEF Effect
  <2> HIDE DEF w, here
  <2>2. Signed(w, 26) \in Word
    BY <1>1, <1>2, 26 \in 1 .. 63
  <2>3. QED
    BY <1>3, <2>1, <2>2
<1>6. CASE TypeOf(q) \in Literals19
  <2>1. Effect(q, {}) = Add(here, Shl(Signed(Field(w, 5, 19), 19), 2)) /\ Granule(TypeOf(q)) = 2
    BY <1>6, ReadInOneWay, DistanceTypes DEF Effect
  <2> HIDE DEF w, here
  <2>2. Signed(Field(w, 5, 19), 19) \in Word
    BY <1>2, <1>4, 19 \in 1 .. 63
  <2>3. QED
    BY <1>3, <2>1, <2>2
<1>7. CASE TypeOf(q) = "TSTBR14"
  <2>1. Effect(q, {}) = Add(here, Shl(Signed(Field(w, 5, 14), 14), 2)) /\ Granule(TypeOf(q)) = 2
    BY <1>7, ReadInOneWay, DistanceTypes DEF Effect
  <2> HIDE DEF w, here
  <2>2. Signed(Field(w, 5, 14), 14) \in Word
    BY <1>2, <1>4, 14 \in 1 .. 63
  <2>3. QED
    BY <1>3, <2>1, <2>2
<1>8. CASE TypeOf(q) = "ADR_PREL_LO21"
  <2>1. Effect(q, {}) = Add(here, AdrImm(w)) /\ Granule(TypeOf(q)) = 0
    BY <1>8, ReadInOneWay, DistanceTypes DEF Effect
  <2>2. AdrImm(w) \in Word
    BY <1>1, AdrImmIsWord
  <2>3. Add(here, AdrImm(w)) \in Word
    BY <1>1, <2>2, AddIsWord DEF Add
  <2>4. QED
    BY <2>1, <2>3, LowZero
<1>9. QED
  BY <1>5, <1>6, <1>7, <1>8

\* A datum of 64 bits takes every value.
LEMMA WordExact ==
  ASSUME TypeInv, NEW q \in 1 .. Len(code), TypeOf(q) \in {"ABS64", "PREL64"},
         NEW w \in Word, Patched(q, w, mem[q], ret[q])
  PROVE  Effect(q, {}) = ValOf(q)
<1>1. PlaceOf(q) \in Word /\ ValOf(q) \in Word
  BY PlacesAreWords
<1>2. \A x \in Word : Store(w, x, 64) = x /\ Low(x, 64) = x /\ Signed(x, 64) = x
  <2>1. SUFFICES ASSUME NEW x \in Word PROVE Store(w, x, 64) = x /\ Low(x, 64) = x /\ Signed(x, 64) = x
    OBVIOUS
  <2>2. \A y \in Word : \A b \in y : b < 64
    BY DEF Word, Bits
  <2>3. Bits \in Word
    BY DEF Word
  <2>4. Low(x, 64) = x /\ Low(Bits, 64) = Bits
    BY <2>2, <2>3 DEF Low
  <2>5. w \ Bits = {}
    BY DEF Word
  <2>6. 64 .. 63 = {}
    OBVIOUS
  <2>7. QED
    BY <2>4, <2>5, <2>6 DEF Store, Signed
<1>3. CASE TypeOf(q) = "ABS64"
  <2>1. /\ Data["ABS64"].op = "ABS" /\ Data["ABS64"].len = 64 /\ "ABS64" \in DOMAIN Data
        /\ "ABS64" \notin DOMAIN Movw /\ "ABS64" \notin DOMAIN Imm /\ Width["ABS64"] = 64
        /\ "ABS64" \in DOMAIN Width
    BY DEF Data, DataType, Movw, Imm, Width
  <2>2. mem[q] = Store(w, ValOf(q), 64)
    BY <1>3, <2>1 DEF Patched, Value
  <2>3. Effect(q, {}) = Low(mem[q], 64)
    BY <1>3, <2>1, ReadInOneWay DEF Effect
  <2>4. QED
    BY <1>1, <1>2, <2>2, <2>3
<1>4. CASE TypeOf(q) = "PREL64"
  <2>1. /\ Data["PREL64"].op = "PREL" /\ Data["PREL64"].len = 64 /\ "PREL64" \in DOMAIN Data
        /\ "PREL64" \notin DOMAIN Movw /\ "PREL64" \notin DOMAIN Imm /\ Width["PREL64"] = 64
        /\ "PREL64" \in DOMAIN Width
    BY DEF Data, DataType, Movw, Imm, Width
  <2>2. mem[q] = Store(w, Sub(ValOf(q), PlaceOf(q)), 64)
    BY <1>4, <2>1 DEF Patched, Value
  <2>3. Effect(q, {}) = Add(PlaceOf(q), Signed(mem[q], 64))
    BY <1>4, <2>1, ReadInOneWay DEF Effect
  <2>4. Sub(ValOf(q), PlaceOf(q)) \in Word
    BY <1>1, NotBits, AddIsWord DEF Sub
  <2>5. QED
    BY <1>1, <1>2, <2>2, <2>3, <2>4, SubThenAdd
<1>5. QED
  BY <1>3, <1>4

LEMMA DataIsWord ==
  ASSUME TypeInv, NEW q \in 1 .. Len(code), TypeOf(q) \in {"ABS32", "ABS16", "PREL32", "PREL16"}
  PROVE  Effect(q, {}) \in Word
<1>1. mem[q] \in Word /\ PlaceOf(q) \in Word
  BY PlacesAreWords DEF TypeInv, TypeOK
<1>2. Width[TypeOf(q)] \in 1 .. 63 /\ Width[TypeOf(q)] \in Nat /\ TypeOf(q) \in DOMAIN Width
  BY DEF Width
<1>3. Low(mem[q], Width[TypeOf(q)]) \in Word /\ Signed(mem[q], Width[TypeOf(q)]) \in Word
  BY <1>1, <1>2, LowBits, SignedBits
<1>4. CASE TypeOf(q) \in {"ABS32", "ABS16"}
  <2>1. Effect(q, {}) = Low(mem[q], Width[TypeOf(q)])
    BY <1>2, <1>4, ReadInOneWay DEF Effect
  <2>2. QED
    BY <1>3, <2>1
<1>5. CASE TypeOf(q) \in {"PREL32", "PREL16"}
  <2>1. Effect(q, {}) = Add(PlaceOf(q), Signed(mem[q], Width[TypeOf(q)]))
    BY <1>2, <1>5, ReadInOneWay DEF Effect
  <2>2. QED
    BY <1>1, <1>3, <2>1, AddIsWord DEF Add
<1>6. QED
  BY <1>4, <1>5

\* What is asked for of an accepted code, at every place the loop has come past.
Accepted ==
  /\ r = Len(code) + 1
  /\ \A q \in 1 .. Len(code) : ret[q] = Ok /\ Low(mem[q], 32) # BREAK_FAULT
  /\ \A b \in value : b >= Granule(TypeOf(Len(code)))

\* A checked relocation that was accepted makes what it has room for.
LEMMA AcceptedAgrees ==
  ASSUME TypeInv, PatchedInv, Accepted, NEW q \in 1 .. Len(code), TypeOf(q) \in Checked
  PROVE  LET asked == IF TypeOf(q) \in MovwRelative THEN Sub(ValOf(q), PlaceOf(q)) ELSE ValOf(q)
         IN  \A b \in Xor(Effect(q, {}), asked) : b < Granule(TypeOf(q))
<1>1. OverflowIsExact
  BY PatchedIsExact
<1>2. q \in 1 .. r - 1
  BY Aarch64RelocAssumption DEF Accepted, TypeInv
<1>3. ret[q] = Ok /\ Low(mem[q], 32) # BREAK_FAULT
  BY DEF Accepted
<1>4. QED
  BY <1>1, <1>2, <1>3 DEF OverflowIsExact

\* A single instruction or datum makes the address.
LEMMA AloneMakes ==
  ASSUME TypeInv, PatchedInv, Accepted, Alone(code)
  PROVE  TypeOf(1) \notin MovwRelative /\ Effect(1, {}) = value
<1>1. /\ Len(code) = 1 /\ 1 \in 1 .. Len(code) /\ ValOf(1) = value /\ value \in Word
      /\ \A b \in value : b >= Granule(TypeOf(1))
  BY FirstIsAsked DEF Alone, Accepted, TypeInv, TypeOK
<1>2. TypeOf(1) \notin MovwRelative
  BY DEF Alone, TypeOf, MovwRelative, Width, Branches26, Literals19
<1>3. CASE TypeOf(1) \in {"ABS64", "PREL64"}
  <2>1. PICK w \in Word : Patched(1, w, mem[1], ret[1])
    BY <1>1 DEF PatchedInv, Accepted
  <2>2. QED
    BY <1>1, <1>2, <1>3, <2>1, WordExact
<1>4. CASE TypeOf(1) \in {"ABS32", "ABS16", "PREL32", "PREL16"}
  <2>1. TypeOf(1) \in Checked /\ TypeOf(1) \in DOMAIN Width
    BY <1>4 DEF Checked, Width
  <2>2. \A b \in Xor(Effect(1, {}), value) : b < 0
    BY <1>1, <1>2, <2>1, AcceptedAgrees, GranuleOfGroup
  <2>3. Effect(1, {}) \in Word
    BY <1>1, <1>4, DataIsWord
  <2>4. QED
    BY <1>1, <1>2, <2>2, <2>3, NothingDiffers
<1>5. CASE TypeOf(1) \in Branches26 \cup Literals19 \cup {"TSTBR14", "ADR_PREL_LO21"}
  <2>1. TypeOf(1) \in Checked
    BY <1>5 DEF Checked
  <2>2. \A b \in Xor(Effect(1, {}), value) : b < Granule(TypeOf(1))
    BY <1>1, <1>2, <2>1, AcceptedAgrees
  <2>3. /\ Effect(1, {}) \in Word /\ Low(Effect(1, {}), Granule(TypeOf(1))) = {}
        /\ Granule(TypeOf(1)) \in Nat
    BY <1>1, <1>5, AloneIsMultiple
  <2>4. Low(value, Granule(TypeOf(1))) = {}
    <3>1. \A b \in value : b \in Nat
      BY <1>1 DEF Word, Bits
    <3>2. \A b \in value : ~(b < Granule(TypeOf(1)))
      BY <1>1, <2>3, <3>1
    <3>3. QED
      BY <3>2 DEF Low
  <2>5. QED
    BY <1>1, <1>2, <2>2, <2>3, <2>4, MultiplesAgree
<1>6. TypeOf(1) \in DOMAIN Width \cup Branches26 \cup Literals19 \cup {"ADR_PREL_LO21", "TSTBR14"}
  BY DEF Alone, TypeOf
<1>7. QED
  BY <1>3, <1>4, <1>5, <1>6, ReadInOneWay

\* An instruction that adds the low bits has those of the value.
LEMMA LowBitsExact ==
  ASSUME TypeInv, NEW q \in 1 .. Len(code), TypeOf(q) \in DOMAIN Scale, NEW reg,
         NEW w \in Word, Patched(q, w, mem[q], ret[q]), Low(mem[q], 32) # BREAK_FAULT,
         ValOf(q) = value, \A b \in value : b >= Granule(TypeOf(q))
  PROVE  Effect(q, reg) = Add(reg, Low(value, 12))
<1> DEFINE k == Scale[TypeOf(q)]
           x == Asr(value, k)
           len == Imm[TypeOf(q)].len
<1>1. /\ TypeOf(q) \in DOMAIN Imm /\ Imm[TypeOf(q)].op = "ABS" /\ Imm[TypeOf(q)].lsb = k
      /\ Imm[TypeOf(q)].field = "IMM_12" /\ Imm[TypeOf(q)].len = 12 - k /\ k \in 0 .. 4
  BY DEF Imm, ImmType, Scale
<1>2. Granule(TypeOf(q)) = k
  BY ReadInOneWay DEF Granule, Scale, Branches26, Literals19
<1>3. value \in Word
  BY DEF TypeInv, TypeOK
<1>4. mem[q] = Encode("IMM_12", w, Low(x, 12 - k))
  <2>1. Value("ABS", PlaceOf(q), value) = value
    BY DEF Value
  <2> DEFINE t == Imm[TypeOf(q)]
             y == Asr(Value(t.op, PlaceOf(q), ValOf(q)), t.lsb)
  <2>2. mem[q] = Encode(t.field, w, Low(y, t.len))
    BY <1>1, ImmPatched
  <2>3. QED
    BY <1>1, <2>1, <2>2
<1>5. Effect(q, reg) = Add(reg, Shl(Field(mem[q], 10, 12), k))
  <2>1. TypeOf(q) \notin Branches26 \cup Literals19 \cup Adrp \cup {"TSTBR14", "ADR_PREL_LO21"}
                             \cup {"ABS64", "ABS32", "ABS16"} \cup {"PREL64", "PREL32", "PREL16"} \cup Signs
    BY DEF Scale, Branches26, Literals19, Adrp, Signs
  <2>2. QED
    BY <2>1 DEF Effect
<1>0. k \in 0 .. 4
  BY <1>1
<1> HIDE DEF k
<1>6. x \in Word /\ \A b \in Bits : b \in x <=> IF b + k <= 63 THEN b + k \in value ELSE 63 \in value
  BY <1>1, <1>3, k \in 0 .. 63, AsrBits
<1> HIDE DEF x
<1>7. Low(x, 12 - k) \in Word /\ \A b \in Bits : b \in Low(x, 12 - k) <=> b \in x /\ b < 12 - k
  BY <1>1, <1>6, 12 - k \in Nat, LowBits
<1>8. Field(mem[q], 10, 12) = Low(Low(x, 12 - k), 12)
  BY <1>4, <1>7, EncodeIsRead
<1>9. Low(Low(x, 12 - k), 12) = Low(x, 12 - k)
  <2>1. \A b \in Low(x, 12 - k) : b < 12
    <3>1. \A b \in Low(x, 12 - k) : b \in Bits /\ b < 12 - k
      BY <1>7 DEF Word
    <3>2. \A b \in Bits : b < 12 - k => b < 12
      BY <1>0 DEF Bits
    <3>3. QED
      BY <3>1, <3>2
  <2>2. QED
    BY <2>1 DEF Low
<1>10. Shl(Low(x, 12 - k), k) = Low(value, 12)
  <2>1. Shl(Low(x, 12 - k), k) \in Word
        /\ \A b \in Bits : b \in Shl(Low(x, 12 - k), k) <=> b - k \in Low(x, 12 - k)
    BY <1>1, <1>7, k \in 0 .. 64, ShlBits
  <2>2. Low(value, 12) \in Word /\ \A b \in Bits : b \in Low(value, 12) <=> b \in value /\ b < 12
    BY <1>3, 12 \in Nat, LowBits
  <2>3. ASSUME NEW b \in Bits PROVE b - k \in Low(x, 12 - k) <=> b \in value /\ b < 12
    <3>1. CASE b >= k
      <4>1. b - k \in Bits /\ (b - k) + k = b /\ b <= 63 /\ (b - k < 12 - k <=> b < 12)
        BY <1>0, <3>1 DEF Bits
      <4>2. QED
        BY <1>6, <1>7, <4>1
    <3>2. CASE ~(b >= k)
      <4>1. b - k \notin Bits
        BY <1>0, <3>2 DEF Bits
      <4>2. b \notin value
        BY <1>2, <3>2
      <4>3. QED
        BY <1>7, <4>1, <4>2 DEF Word
    <3>3. QED
      BY <3>1, <3>2
  <2>4. QED
    BY <2>1, <2>2, <2>3 DEF Word
<1>11. QED
  BY <1>5, <1>8, <1>9, <1>10

\* adrp makes the page and the instruction behind it adds the low bits.
LEMMA WithLowBitsMakes ==
  ASSUME TypeInv, PatchedInv, Accepted, WithLowBits(code)
  PROVE  TypeOf(1) \notin MovwRelative /\ Effect(2, Effect(1, {})) = value
<1> DEFINE page == Effect(1, {})
           low  == Low(value, 12)
<1>1. /\ Len(code) = 2 /\ 1 \in 1 .. Len(code) /\ 2 \in 1 .. Len(code)
      /\ ValOf(1) = value /\ ValOf(2) = value /\ value \in Word
      /\ TypeOf(1) = "ADR_PREL_PG_HI21" /\ TypeOf(2) \in DOMAIN Scale
      /\ r - 1 = 2
  BY FirstIsAsked DEF WithLowBits, TypeOf, TypeInv, TypeOK, Accepted
<1>2. TypeOf(1) \notin MovwRelative /\ Granule(TypeOf(1)) = 12 /\ TypeOf(1) \in Checked
  BY <1>1, DistanceTypes DEF Checked
<1>3. \A b \in Xor(page, value) : b < 12
  BY <1>1, <1>2, AcceptedAgrees
<1>4. page \in Word /\ Low(page, 12) = {}
  <2>1. mem[1] \in Word /\ PlaceOf(1) \in Word
    BY <1>1, PlacesAreWords DEF TypeInv, TypeOK
  <2>2. PageOf(PlaceOf(1)) \in Word /\ Low(PageOf(PlaceOf(1)), 12) = {}
    BY <2>1, PageBits
  <2>3. page = Add(PageOf(PlaceOf(1)), Shl(AdrImm(mem[1]), 12))
    BY <1>1, ReadInOneWay DEF Effect, Adrp
  <2>4. AdrImm(mem[1]) \in Word
    BY <2>1, AdrImmIsWord
  <2>5. QED
    BY <2>2, <2>3, <2>4, 12 \in 0 .. 63, SumOfMultiples
<1>5. Effect(2, page) = Add(page, low)
  <2>1. PICK w \in Word : Patched(2, w, mem[2], ret[2])
    BY <1>1 DEF PatchedInv
  <2>2. Low(mem[2], 32) # BREAK_FAULT /\ \A b \in value : b >= Granule(TypeOf(2))
    BY <1>1 DEF Accepted
  <2> HIDE DEF page
  <2>3. QED
    BY <1>1, <2>1, <2>2, LowBitsExact
<1> HIDE DEF page
<1>6. low \in Word /\ \A b \in Bits : b \in low <=> b \in value /\ b < 12
  BY <1>1, 12 \in Nat, LowBits
<1>7. {c \in low : c >= 12} = {}
  BY <1>6 DEF Word, Bits
<1> HIDE DEF low
<1>8. \A b \in Bits : b \in Add(page, low) <=> IF b < 12 THEN b \in low ELSE b \in page
  <2>1. \A b \in Bits : b \in Add(page, low) <=>
                         IF b < 12 THEN b \in low ELSE b \in Add(page, {c \in low : c >= 12})
    BY <1>4, <1>6, 12 \in Nat, SumWithMultiple
  <2>2. Add(page, {}) = page
    BY <1>4, Zero
  <2>3. QED
    BY <1>7, <2>1, <2>2
<1>9. \A b \in Bits : b \in Add(page, low) <=> b \in value
  BY <1>1, <1>3, <1>4, <1>6, <1>8 DEF Xor
<1>10. Add(page, low) \in Word
  BY <1>4, <1>6, AddIsWord DEF Add
<1>11. QED
  BY <1>1, <1>2, <1>5, <1>9, <1>10 DEF Word, page

\* The sixteen bits at g of a word.
LEMMA WideBits ==
  ASSUME NEW x \in Word, NEW g \in {0, 16, 32, 48}
  PROVE  /\ Shl(Low(Asr(x, g), 16), g) \in Word
         /\ \A b \in Bits : b \in Shl(Low(Asr(x, g), 16), g) <=> b \in x /\ b >= g /\ b < g + 16
<1> DEFINE imm == Asr(x, g)
           low == Low(imm, 16)
<1>1. imm \in Word /\ \A b \in Bits : b \in imm <=> IF b + g <= 63 THEN b + g \in x ELSE 63 \in x
  BY g \in 0 .. 63, AsrBits
<1> HIDE DEF imm
<1>2. low \in Word /\ \A b \in Bits : b \in low <=> b \in imm /\ b < 16
  BY <1>1, 16 \in Nat, LowBits
<1> HIDE DEF low
<1>3. Shl(low, g) \in Word /\ \A b \in Bits : b \in Shl(low, g) <=> b - g \in low
  BY <1>2, g \in 0 .. 64, ShlBits
<1>4. ASSUME NEW b \in Bits PROVE b - g \in low <=> b \in x /\ b >= g /\ b < g + 16
  <2>1. CASE b >= g
    <3>1. b - g \in Bits /\ (b - g) + g = b /\ b <= 63 /\ (b - g < 16 <=> b < g + 16)
      BY <2>1 DEF Bits
    <3>2. QED
      BY <1>1, <1>2, <2>1, <3>1
  <2>2. CASE ~(b >= g)
    <3>1. b - g \notin Bits
      BY <2>2 DEF Bits
    <3>2. QED
      BY <1>2, <2>2, <3>1 DEF Word
  <2>3. QED
    BY <2>1, <2>2
<1>5. QED
  BY <1>3, <1>4 DEF low, imm

\* The sixteen bits a wide move has left are those of the value or, inverted,
\* the ones it has not.
LEMMA WideIsValue ==
  ASSUME TypeInv, NEW q \in 1 .. Len(code), TypeOf(q) \in DOMAIN Movw,
         NEW w \in Word, Patched(q, w, mem[q], ret[q]), Low(mem[q], 32) # BREAK_FAULT
  PROVE  LET g == Group(TypeOf(q))
             y == Shl(Field(mem[q], 5, 16), g)
         IN  /\ y \in Word /\ g \in {0, 16, 32, 48} /\ WideValue(q) \in Word
             /\ \A b \in Bits : b \in y <=> /\ b >= g /\ b < g + 16
                                           /\ (b \in WideValue(q) <=> ~WideNegative(q))
<1> DEFINE g == Group(TypeOf(q))
           x == WideValue(q)
           y == Shl(Field(mem[q], 5, 16), g)
<1>1. g \in {0, 16, 32, 48}
  BY MovwTypes
<1>2. x \in Word /\ Field(mem[q], 5, 16) = Low(WideImm(q), 16)
  BY WideIsRead
<1>3. CASE ~WideNegative(q)
  <2>1. WideImm(q) = Asr(x, g)
    BY <1>3 DEF WideImm
  <2> HIDE DEF x, g
  <2>2. QED
    BY <1>1, <1>2, <1>3, <2>1, WideBits DEF x, g
<1>4. CASE WideNegative(q)
  <2>1. WideImm(q) = Not(Asr(x, g)) /\ 63 \in x
    BY <1>4 DEF WideImm, WideNegative
  <2>2. Not(Asr(x, g)) = Asr(Not(x), g)
    BY <1>1, <1>2, <2>1, g \in 0 .. 63, NotOfAsr
  <2>3. Not(x) \in Word /\ \A b \in Bits : b \in Not(x) <=> b \notin x
    BY <1>2, NotBits
  <2> HIDE DEF x, g
  <2>4. QED
    BY <1>1, <1>2, <1>4, <2>1, <2>2, <2>3, WideBits DEF x, g
<1>5. QED
  BY <1>3, <1>4

\* The bits from g on are those of x.
Agrees(reg, x, g) == reg \in Word /\ \A b \in Bits : b >= g => (b \in reg <=> b \in x)

\* The distance, or the value, that wide moves make.
WideTarget == IF TypeOf(1) \in MovwRelative THEN Sub(value, start) ELSE value

\* Every wide move takes its sixteen bits of the same target: the addends make up
\* for the way from the first of them.
LEMMA WideTargetStays ==
  ASSUME TypeInv, WideMoves(code), NEW q \in 1 .. Len(code)
  PROVE  /\ WideTarget \in Word /\ WideValue(q) = WideTarget /\ TypeOf(q) \in DOMAIN Movw
         /\ Group(TypeOf(q)) = 16 * (Len(code) - q)
         /\ q # 1 => TypeOf(q) \notin Signs
<1>1. start \in Word /\ value \in Word /\ \A i : OfInt(i) \in Word
  BY DEF TypeInv, TypeOK, OfInt, Word
<1>2. /\ Movk \cap MovwRelative = {} /\ MovkRelative \subseteq MovwRelative
      /\ (Movk \cup MovkRelative) \cap Signs = {}
  BY DEF Movk, MovkRelative, MovwRelative, Signs
<1>3. TypeOf(q) \in MovwRelative <=> TypeOf(1) \in MovwRelative
  BY <1>2 DEF WideMoves, TypeOf
<1>4. TypeOf(q) \in DOMAIN Movw
  <2>1. /\ Movk \subseteq DOMAIN Movw /\ MovkRelative \subseteq DOMAIN Movw
        /\ {"MOVW_UABS_G0", "MOVW_UABS_G1", "MOVW_UABS_G2", "MOVW_UABS_G3"} \cup Signs \subseteq DOMAIN Movw
    BY DEF Movk, MovkRelative, Movw, Signs
  <2>2. QED
    BY <2>1 DEF WideMoves, TypeOf
<1>5. Group(TypeOf(q)) = 16 * (Len(code) - q) /\ (q # 1 => TypeOf(q) \notin Signs)
  BY <1>2 DEF WideMoves, TypeOf
<1>6. CASE TypeOf(1) \notin MovwRelative
  <2>1. code[q][2] = 0
    BY <1>6 DEF WideMoves, TypeOf
  <2>2. QED
    BY <1>1, <1>3, <1>4, <1>5, <1>6, <2>1, FirstIsAsked DEF WideTarget, WideValue
<1>7. CASE TypeOf(1) \in MovwRelative
  <2> DEFINE d == OfInt(8 * (q - 1))
  <2>1. code[q][2] = 8 * (q - 1)
    BY <1>7 DEF WideMoves, TypeOf
  <2>2. ValOf(q) = Add(value, d) /\ PlaceOf(q) = Add(start, d)
    BY <2>1 DEF ValOf, PlaceOf
  <2>3. Sub(Add(value, d), Add(start, d)) = Sub(value, start)
    BY <1>1, DistanceStays
  <2>4. Sub(value, start) \in Word
    BY <1>1, NotBits, AddIsWord DEF Sub
  <2>5. QED
    BY <1>3, <1>4, <1>5, <1>7, <2>2, <2>3, <2>4 DEF WideTarget, WideValue
<1>8. QED
  BY <1>6, <1>7

\* The first wide move has the bits of the target from its group on: what lies
\* above the group was checked, or there is nothing above it.
LEMMA FirstWideAgrees ==
  ASSUME TypeInv, PatchedInv, Accepted, WideMoves(code)
  PROVE  Agrees(Effect(1, {}), WideTarget, Group(TypeOf(1)))
<1> DEFINE g == Group(TypeOf(1))
           y == Shl(Field(mem[1], 5, 16), g)
<1>1. 1 \in 1 .. Len(code) /\ 1 \in 1 .. r - 1
  BY DEF WideMoves, Accepted
<1>2. WideTarget \in Word /\ WideValue(1) = WideTarget /\ TypeOf(1) \in DOMAIN Movw
  BY <1>1, WideTargetStays
<1>3. PICK w \in Word : Patched(1, w, mem[1], ret[1])
  BY <1>1 DEF PatchedInv
<1>4. Low(mem[1], 32) # BREAK_FAULT
  BY <1>1 DEF Accepted
<1>5. /\ y \in Word /\ g \in {0, 16, 32, 48}
      /\ \A b \in Bits : b \in y <=> /\ b >= g /\ b < g + 16
                                    /\ (b \in WideTarget <=> ~WideNegative(1))
  BY <1>1, <1>2, <1>3, <1>4, WideIsValue
<1>6. TypeOf(1) \in Signs => (30 \in mem[1] <=> ~WideNegative(1))
  BY <1>1, <1>2, <1>3, <1>4, WideIsRead
<1>7. Effect(1, {}) = IF TypeOf(1) \in Signs THEN IF 30 \in mem[1] THEN y ELSE Not(y)
                      ELSE ({} \ (g .. g + 15)) \cup y
  BY <1>2, WideEffect
<1>8. WideNegative(1) => TypeOf(1) \in Signs
  BY DEF WideNegative
<1> HIDE DEF y, g
<1>9. Effect(1, {}) = IF WideNegative(1) THEN Not(y) ELSE y
  BY <1>6, <1>7, <1>8
<1>10. Effect(1, {}) \in Word
  BY <1>5, <1>9, NotBits
<1>11. CASE TypeOf(1) \in Checked
  <2>1. WideTarget = IF TypeOf(1) \in MovwRelative THEN Sub(ValOf(1), PlaceOf(1)) ELSE ValOf(1)
    BY <1>2 DEF WideValue
  <2>2. \A b \in Xor(Effect(1, {}), WideTarget) : b < g
    BY <1>1, <1>2, <1>11, <2>1, AcceptedAgrees, GranuleOfGroup DEF g
  <2>3. \A b \in Bits : b >= g => ~(b < g)
    BY <1>5 DEF Bits
  <2>4. QED
    BY <1>10, <2>2, <2>3 DEF Agrees, Xor, g
<1>12. CASE TypeOf(1) \in {"MOVW_UABS_G3", "MOVW_PREL_G3"}
  <2>1. g = 48
    BY <1>12 DEF g, Group
  <2>2. \A b \in Bits : b < 48 + 16
    BY DEF Bits
  <2>3. \A b \in Bits : b \in Not(y) <=> b \notin y
    BY <1>5, NotBits
  <2>4. \A b \in Bits : b >= 48 => (b \in Effect(1, {}) <=> b \in WideTarget)
    BY <1>5, <1>9, <2>1, <2>2, <2>3
  <2>5. QED
    BY <1>10, <2>1, <2>4 DEF Agrees, g
<1>13. TypeOf(1) \in Checked \cup {"MOVW_UABS_G3", "MOVW_PREL_G3"}
  BY DEF WideMoves, TypeOf, Checked
<1>14. QED
  BY <1>11, <1>12, <1>13

\* A movk brings the bits of the target sixteen further down.
LEMMA MovkAgrees ==
  ASSUME TypeInv, PatchedInv, Accepted, WideMoves(code), NEW q \in 2 .. Len(code),
         NEW reg, Agrees(reg, WideTarget, Group(TypeOf(q)) + 16)
  PROVE  Agrees(Effect(q, reg), WideTarget, Group(TypeOf(q)))
<1> DEFINE g == Group(TypeOf(q))
           y == Shl(Field(mem[q], 5, 16), g)
<1>1. q \in 1 .. Len(code) /\ q \in 1 .. r - 1 /\ q # 1
  BY DEF WideMoves, Accepted
<1>2. /\ WideTarget \in Word /\ WideValue(q) = WideTarget /\ TypeOf(q) \in DOMAIN Movw
      /\ TypeOf(q) \notin Signs
  BY <1>1, WideTargetStays
<1>3. PICK w \in Word : Patched(q, w, mem[q], ret[q])
  BY <1>1 DEF PatchedInv
<1>4. Low(mem[q], 32) # BREAK_FAULT
  BY <1>1 DEF Accepted
<1>5. ~WideNegative(q)
  BY <1>2 DEF WideNegative
<1>6. /\ y \in Word /\ g \in {0, 16, 32, 48}
      /\ \A b \in Bits : b \in y <=> b >= g /\ b < g + 16 /\ b \in WideTarget
  BY <1>1, <1>2, <1>3, <1>4, <1>5, WideIsValue
<1>7. Effect(q, reg) = (reg \ (g .. g + 15)) \cup y
  BY <1>2, WideEffect
<1>8. reg \in Word /\ \A b \in Bits : b >= g + 16 => (b \in reg <=> b \in WideTarget)
  BY DEF Agrees
<1> HIDE DEF y, g
<1>9. \A b \in Bits : b >= g => (b \in g .. g + 15 <=> b < g + 16)
  <2>1. g \in Nat
    BY <1>6
  <2>2. QED
    BY <2>1 DEF Bits
<1>10. \A b \in Bits : ~(b < g + 16) <=> b >= g + 16
  BY <1>6 DEF Bits
<1>11. \A b \in Bits : b >= g => (b \in Effect(q, reg) <=> b \in WideTarget)
  BY <1>6, <1>7, <1>8, <1>9, <1>10
<1>12. Effect(q, reg) \in Word
  BY <1>6, <1>7, <1>8 DEF Word
<1>13. QED
  BY <1>11, <1>12 DEF Agrees, g

\* So the wide moves, one after the other, make all of the target.
LEMMA WideMovesMake ==
  ASSUME TypeInv, PatchedInv, Accepted, WideMoves(code), NEW reg,
         reg[0] = {}, \A q \in 1 .. Len(code) : reg[q] = Effect(q, reg[q - 1])
  PROVE  reg[Len(code)] = WideTarget
<1> DEFINE n == Len(code)
           Done(q) == Agrees(reg[q], WideTarget, 16 * (n - q))
<1>1. n \in 1 .. 4 /\ \A q \in 1 .. n : Group(TypeOf(q)) = 16 * (n - q)
  BY WideTargetStays DEF WideMoves
<1>2. reg[1] = Effect(1, {})
  <2>1. 1 \in 1 .. n /\ 1 - 1 = 0
    BY <1>1
  <2>2. QED
    BY <2>1
<1>3. Done(1)
  <2>1. 1 \in 1 .. n
    BY <1>1
  <2>2. QED
    BY <1>1, <1>2, <2>1, FirstWideAgrees
<1>4. \A q \in 2 .. n : Done(q - 1) => Done(q)
  <2>1. SUFFICES ASSUME NEW q \in 2 .. n, Done(q - 1) PROVE Done(q)
    OBVIOUS
  <2>2. q \in 1 .. n /\ 16 * (n - (q - 1)) = 16 * (n - q) + 16
    BY <1>1
  <2>3. reg[q] = Effect(q, reg[q - 1]) /\ Group(TypeOf(q)) = 16 * (n - q)
    BY <1>1, <2>2
  <2>4. Agrees(reg[q - 1], WideTarget, Group(TypeOf(q)) + 16)
    BY <2>1, <2>2, <2>3
  <2>5. QED
    BY <2>3, <2>4, MovkAgrees
<1> HIDE DEF Done
<1>5. Done(n)
  <2> HIDE DEF n
  <2>1. CASE n = 1
    BY <1>3, <2>1
  <2>2. CASE n = 2
    BY <1>3, <1>4, <2>2, 2 - 1 = 1
  <2>3. CASE n = 3
    <3>1. Done(2)
      BY <1>3, <1>4, <2>3, 2 - 1 = 1, 2 \in 2 .. 3
    <3>2. QED
      BY <1>4, <2>3, <3>1, 3 - 1 = 2, 3 \in 2 .. 3
  <2>4. CASE n = 4
    <3>1. Done(2)
      BY <1>3, <1>4, <2>4, 2 - 1 = 1, 2 \in 2 .. 4
    <3>2. Done(3)
      BY <1>4, <2>4, <3>1, 3 - 1 = 2, 3 \in 2 .. 4
    <3>3. QED
      BY <1>4, <2>4, <3>2, 4 - 1 = 3, 4 \in 2 .. 4
  <2>5. QED
    BY <1>1, <2>1, <2>2, <2>3, <2>4
<1>6. 16 * (n - n) = 0
  BY <1>1
<1>7. WideTarget \in Word
  <2>1. 1 \in 1 .. n
    BY <1>1
  <2>2. QED
    BY <2>1, WideTargetStays
<1>8. \A b \in Bits : b >= 0
  BY DEF Bits
<1>9. QED
  BY <1>5, <1>6, <1>7, <1>8 DEF Done, Agrees, Word

LEMMA PatchedMakesAddress ==
  ASSUME TypeInv, PatchedInv
  PROVE  AddressIsMade
<1> SUFFICES ASSUME Accepted, MakesAddress(code) PROVE Made = value
  BY DEF AddressIsMade, Accepted
<1>1. Len(code) \in 1 .. 4
  BY DEF MakesAddress, Alone, WithLowBits, WideMoves
<1>2. PICK reg :
        /\ reg[0] = {}
        /\ \A q \in 1 .. Len(code) : reg[q] = Effect(q, reg[q - 1])
        /\ Made = IF TypeOf(1) \in MovwRelative THEN Add(start, reg[Len(code)]) ELSE reg[Len(code)]
  BY <1>1, MadeUnfolds
<1>3. reg[1] = Effect(1, {})
  <2>1. 1 \in 1 .. Len(code) /\ 1 - 1 = 0
    BY <1>1
  <2>2. QED
    BY <1>2, <2>1
<1>4. CASE Alone(code)
  BY <1>2, <1>3, <1>4, AloneMakes DEF Alone
<1>5. CASE WithLowBits(code)
  <2>1. Len(code) = 2 /\ 2 \in 1 .. 2 /\ 2 - 1 = 1
    BY <1>5 DEF WithLowBits
  <2>2. reg[2] = Effect(2, Effect(1, {}))
    BY <1>2, <1>3, <2>1
  <2>3. QED
    BY <1>2, <1>5, <2>1, <2>2, WithLowBitsMakes
<1>6. CASE WideMoves(code)
  <2>1. reg[Len(code)] = WideTarget
    BY <1>2, <1>6, WideMovesMake
  <2>2. start \in Word /\ value \in Word
    BY DEF TypeInv, TypeOK
  <2>3. Add(start, Sub(value, start)) = value
    BY <2>2, SubThenAdd
  <2>4. QED
    BY <1>2, <2>1, <2>3 DEF WideTarget
<1>7. QED
  BY <1>4, <1>5, <1>6 DEF MakesAddress

\* The address that was asked for is made by every accepted code of the idioms
\* of compilers, wherever it lies and whatever it held: adrp and the
\* instruction behind it join at bit 12 without a carry, movn and movk join the
\* groups of one distance, and what a field has no room for is nothing
\* (reloc.cpp:67-333).
THEOREM Aarch64AddressIsMade == Spec => []AddressIsMade
BY InvHolds, PatchedMakesAddress, PTL
=============================================================================
