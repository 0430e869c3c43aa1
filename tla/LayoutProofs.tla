---------------------------- MODULE LayoutProofs ----------------------------
(***************************************************************************)
(* What the arena promises, for any blocks, and what Layout guarantees for *)
(* every object file, base and page size that satisfies the assumptions:   *)
(* among other things that it implements the arena.                        *)
(***************************************************************************)
EXTENDS Layout, Arena, FiniteSetTheorems, TLAPS

-----------------------------------------------------------------------------
(***************************************************************************)
(* The arena, for any blocks, sizes, granularity and limit                 *)
(***************************************************************************)

\* The break bounds every block; it is what a cut starts from.
BreakBounds == \A b \in Placed : lo[b] + size[b] <= brk

\* The seal never lies above the break.
SealBelowBreak == seal # Unplaced => seal <= brk

ArenaInv ==
  /\ ArenaTypeOK
  /\ BreakBounds
  /\ SealBelowBreak
  /\ BlocksDisjoint
  /\ SealSeparates

LEMMA SizesAreNat == ArenaTypeOK => \A b \in Block : size[b] \in Nat
<1>1. ArenaTypeOK => \A b \in Block : size[b] \in Sizes
  BY DEF ArenaTypeOK
<1>2. QED
  BY <1>1, ArenaAssumption

\* The empty arena satisfies the invariant.
LEMMA ArenaInvInit == ArenaInit => ArenaInv
BY DEF ArenaInit, ArenaInv, ArenaTypeOK, BreakBounds, SealBelowBreak,
       BlocksDisjoint, SealSeparates, Placed, Unplaced

\* Cutting a block at or above the break preserves the invariant.
LEMMA CutPreserves ==
  ASSUME ArenaInv, NEW b \in Block, Cut(b)
  PROVE  ArenaInv'
<1>1. PICK at \in brk .. Limit :
        lo' = [lo EXCEPT ![b] = at] /\ brk' = at + size[b]
  BY DEF Cut
<1>2. lo[b] = Unplaced /\ size' = size /\ seal' = seal
  BY DEF Cut
<1>3. at \in Nat /\ brk <= at /\ size[b] \in Nat /\ brk \in Nat
  BY <1>1, SizesAreNat DEF ArenaInv, ArenaTypeOK
<1>4. ArenaTypeOK'
  BY <1>1, <1>2, <1>3 DEF ArenaInv, ArenaTypeOK
<1>5. \A c \in Placed : c # b /\ lo'[c] = lo[c] /\ lo[c] \in Nat /\ size[c] \in Nat
  BY <1>1, <1>2, SizesAreNat DEF ArenaInv, ArenaTypeOK, Placed
<1>6. lo'[b] = at /\ Placed' \subseteq Placed \cup {b}
  BY <1>1, <1>2 DEF ArenaInv, ArenaTypeOK, Placed
<1>7. BreakBounds'
  BY <1>1, <1>2, <1>3, <1>5, <1>6 DEF ArenaInv, BreakBounds
<1>8. SealBelowBreak'
  BY <1>1, <1>2, <1>3 DEF ArenaInv, ArenaTypeOK, SealBelowBreak
<1>9. BlocksDisjoint'
  BY <1>1, <1>2, <1>3, <1>5, <1>6 DEF ArenaInv, BlocksDisjoint, BreakBounds
<1>10. SealSeparates'
  BY <1>1, <1>2, <1>3, <1>5, <1>6
     DEF ArenaInv, ArenaTypeOK, SealSeparates, SealBelowBreak
<1>11. QED
  BY <1>4, <1>7, <1>8, <1>9, <1>10 DEF ArenaInv

\* Sealing at or above the break preserves the invariant.
LEMMA SealPreserves ==
  ASSUME ArenaInv, Seal
  PROVE  ArenaInv'
<1>1. PICK at \in brk .. Limit : brk' = at /\ seal' = at
  BY DEF Seal
<1>2. size' = size /\ lo' = lo /\ at \in Nat /\ brk <= at
  BY <1>1 DEF Seal, ArenaInv, ArenaTypeOK
<1>3. \A c \in Placed : lo[c] \in Nat /\ size[c] \in Nat
  BY SizesAreNat DEF ArenaInv, ArenaTypeOK, Placed
<1>4. Placed' = Placed
  BY <1>2 DEF Placed
<1>5. QED
  BY <1>1, <1>2, <1>3, <1>4
     DEF ArenaInv, ArenaTypeOK, BreakBounds, SealBelowBreak, BlocksDisjoint, SealSeparates

LEMMA ArenaInvNext == ArenaInv /\ [ArenaNext]_arenaVars => ArenaInv'
<1> SUFFICES ASSUME ArenaInv, [ArenaNext]_arenaVars PROVE ArenaInv'
  OBVIOUS
<1>1. CASE Seal
  BY <1>1, SealPreserves
<1>2. CASE \E b \in Block : Cut(b)
  BY <1>2, CutPreserves
<1>3. CASE UNCHANGED arenaVars
  BY <1>3 DEF arenaVars, ArenaInv, ArenaTypeOK, BreakBounds, SealBelowBreak,
              BlocksDisjoint, SealSeparates, Placed
<1>4. QED
  BY <1>1, <1>2, <1>3 DEF ArenaNext

\* However many blocks are cut, before and after the seal, no two share a byte:
\* what move_module needs to copy one section without damaging another.
THEOREM ArenaDisjoint == ArenaSpec => []BlocksDisjoint
<1>1. ArenaInv => BlocksDisjoint
  BY DEF ArenaInv
<1>2. QED
  BY <1>1, ArenaInvInit, ArenaInvNext, PTL DEF ArenaSpec

\* No block ever straddles the seal: what mod_protect needs to protect one side
\* without touching the other.
THEOREM ArenaSealed == ArenaSpec => []SealSeparates
<1>1. ArenaInv => SealSeparates
  BY DEF ArenaInv
<1>2. QED
  BY <1>1, ArenaInvInit, ArenaInvNext, PTL DEF ArenaSpec

-----------------------------------------------------------------------------
(***************************************************************************)
(* Arithmetic of the layout                                                *)
(***************************************************************************)

LEMMA DivMod ==
  ASSUME NEW x \in Nat, NEW a \in Nat \ {0}
  PROVE  /\ x = a * (x \div a) + (x % a)
         /\ x % a \in 0 .. a - 1
         /\ x \div a \in Nat
OBVIOUS

LEMMA SmallMod ==
  ASSUME NEW x \in Nat, NEW n \in Nat, x < n
  PROVE  x % n = x
OBVIOUS

LEMMA MultipleMod ==
  ASSUME NEW q \in Nat, NEW a \in Nat \ {0}
  PROVE  (q * a) % a = 0
OBVIOUS

LEMMA NextMultiple ==
  ASSUME NEW x \in Nat, NEW a \in Nat \ {0}
  PROVE  (x \div a + 1) * a = x - (x % a) + a
<1> DEFINE q == x \div a
<1>1. /\ x = a * q + (x % a)
      /\ q \in Nat
      /\ x % a \in 0 .. a - 1
  BY DivMod
<1> HIDE DEF q
<1>2. (q + 1) * a = a * q + a
  BY <1>1
<1>3. QED
  BY <1>1, <1>2 DEF q

\* align_as rounds up to a multiple, by less than the alignment, as long as
\* the result still is a uint32_t.
LEMMA AlignAsRoundsUp ==
  ASSUME NEW x \in Nat, NEW a \in Nat \ {0}, x + a <= U32
  PROVE  /\ AlignAs(x, a) \in Nat
         /\ x <= AlignAs(x, a)
         /\ AlignAs(x, a) < x + a
         /\ AlignAs(x, a) % a = 0
<1>1. U32 \in Nat
  BY LayoutAssumption
<1>2. x % U32 = x
  BY <1>1, SmallMod
<1>3. CASE x % a = 0
  <2>1. AlignAs(x, a) = x
    BY <1>2, <1>3 DEF AlignAs
  <2>2. QED
    BY <1>3, <2>1
<1>4. CASE x % a # 0
  <2>1. /\ (x \div a + 1) * a = x - (x % a) + a
        /\ x % a \in 1 .. a - 1
        /\ x \div a \in Nat
    <3>1. x % a \in 0 .. a - 1 /\ x \div a \in Nat
      BY DivMod
    <3>2. (x \div a + 1) * a = x - (x % a) + a
      BY NextMultiple
    <3>3. QED
      BY <1>4, <3>1, <3>2
  <2>2. (x \div a + 1) * a \in Nat /\ (x \div a + 1) * a < U32
    BY <1>1, <2>1
  <2>3. AlignAs(x, a) = (x \div a + 1) * a
    BY <1>1, <1>2, <1>4, <2>2, SmallMod DEF AlignAs
  <2>4. ((x \div a + 1) * a) % a = 0
    BY <2>1, MultipleMod
  <2>5. QED
    BY <2>1, <2>2, <2>3, <2>4
<1>5. QED
  BY <1>3, <1>4

\* The kernel's rounding to pages does nothing to a multiple of the page.
LEMMA PageUpOfMultiple ==
  ASSUME NEW n \in Nat, n % Page = 0
  PROVE  PageUp(n) = n
<1>1. Page \in Nat \ {0}
  BY MappingAssumption
<1> DEFINE q == n \div Page
<1>2. n = Page * q /\ q \in Nat
  BY <1>1, DivMod
<1>3. (n + Page - 1) \div Page = q
  BY <1>1, <1>2
<1>4. QED
  BY <1>1, <1>2, <1>3 DEF PageUp

LEMMA PageUpCovers ==
  ASSUME NEW n \in Nat
  PROVE  PageUp(n) \in Nat /\ n <= PageUp(n)
<1>1. Page \in Nat \ {0}
  BY MappingAssumption
<1> DEFINE x == n + Page - 1
<1>2. x \in Nat
  BY <1>1
<1>3. PageUp(n) = (x \div Page) * Page
  BY DEF PageUp
<1>4. x = n + Page - 1
  OBVIOUS
<1> HIDE DEF x
<1>5. /\ x = Page * (x \div Page) + (x % Page)
      /\ x % Page \in 0 .. Page - 1
      /\ x \div Page \in Nat
  BY <1>1, <1>2, DivMod
<1>6. (x \div Page) * Page = x - (x % Page)
  BY <1>1, <1>2, <1>5
<1>7. QED
  BY <1>1, <1>2, <1>3, <1>4, <1>5, <1>6

-----------------------------------------------------------------------------
(***************************************************************************)
(* Types                                                                   *)
(***************************************************************************)

\* The pass counter and the program counter agree, and sections are copied to
\* an image that exists.
Phase ==
  /\ IF pc = "layout_sections" THEN m \in 0 .. 4 ELSE m = 5
  /\ pc = "copy_sections" => layout.base # NULL

TypeInv == TypeOK /\ Phase

LEMMA HeaderTypes ==
  ASSUME TypeOK, NEW s \in Sec
  PROVE  /\ hdr[s] \in Header
         /\ hdr[s].size \in Nat /\ hdr[s].align \in Nat
         /\ hdr[s].size + hdr[s].align <= MaxStep
         /\ hdr[s].size < U32 /\ hdr[s].align < U32
<1>1. hdr[s] \in Headers
  BY DEF TypeOK
<1>2. hdr[s] \in Header /\ hdr[s].size + hdr[s].align <= MaxStep
  BY <1>1, LayoutAssumption
<1>3. hdr[s].size \in Nat /\ hdr[s].align \in Nat
  BY <1>2 DEF Header
<1>4. NSec \in Nat /\ MaxStep \in Nat /\ U32 \in Nat /\ Split \in Nat /\ NSec > 0
  BY LayoutAssumption DEF Sec
<1>5. MaxStep <= NSec * MaxStep
  BY <1>4
<1>6. NSec * MaxStep + Split < U32
  BY LayoutAssumption
<1>7. MaxStep < U32
  <2> DEFINE k == NSec * MaxStep
  <2>1. k \in Nat
    BY <1>4
  <2> HIDE DEF k
  <2>2. k + Split < U32 /\ MaxStep <= k
    BY <1>5, <1>6 DEF k
  <2>3. QED
    BY <1>4, <2>1, <2>2
<1>8. QED
  BY <1>2, <1>3, <1>4, <1>7

\* align_as returns a uint32_t whatever its arguments.
LEMMA AlignAsIsNat ==
  ASSUME NEW x \in Nat, NEW a \in Nat \ {0}
  PROVE  AlignAs(x, a) \in Nat
<1>1. U32 \in Nat \ {0}
  <2>1. NSec \in Nat /\ MaxStep \in Nat /\ Split \in Nat \ {0} /\ U32 \in Nat
    BY LayoutAssumption
  <2>2. NSec * MaxStep \in Nat
    BY <2>1
  <2>3. QED
    BY <2>1, <2>2, LayoutAssumption
<1>2. x % U32 \in Nat
  BY <1>1
<1>3. (x % U32) \div a + 1 \in Nat
  BY <1>2
<1>4. (((x % U32) \div a + 1) * a) % U32 \in Nat
  BY <1>1, <1>3
<1>5. QED
  BY <1>2, <1>4 DEF AlignAs

LEMMA OffsetIsNat ==
  ASSUME TypeOK, NEW s \in Sec
  PROVE  /\ OffsetFor(s) \in Nat
         /\ hdr[s].size % U32 = hdr[s].size
         /\ hdr[s].align % U32 = hdr[s].align
<1>1. /\ hdr[s].size % U32 = hdr[s].size
      /\ hdr[s].align % U32 = hdr[s].align
      /\ hdr[s].align \in Nat
  BY HeaderTypes, SmallMod, LayoutAssumption
<1>2. layout.total_size \in Nat
  BY DEF TypeOK
<1>3. QED
  BY <1>1, <1>2, AlignAsIsNat DEF OffsetFor

LEMMA TypeInvInit == Init => TypeInv
BY LayoutAssumption
   DEF Init, TypeInv, TypeOK, Phase, Sec, None, InFile, NULL

LEMMA TypeInvNext == TypeInv /\ [Next]_vars => TypeInv'
<1> SUFFICES ASSUME TypeInv, [Next]_vars PROVE TypeInv'
  OBVIOUS
<1> USE DEF TypeInv, Phase
<1>1. CASE PlaceSection
  <2>1. OffsetFor(i) \in Nat /\ OffsetFor(i) + (hdr[i].size % U32) \in Nat
    <3>1. i \in Sec
      BY <1>1, LayoutAssumption DEF PlaceSection, TypeOK, Sec
    <3>2. QED
      BY <3>1, OffsetIsNat, HeaderTypes
  <2>2. i + 1 \in 0 .. NSec
    BY <1>1, LayoutAssumption DEF PlaceSection, TypeOK
  <2>3. /\ off' \in [Sec -> Nat \cup {None}]
        /\ layout' \in [total_size : Nat, text_size : Nat, ro_size : Nat,
                        ro_after_init_size : Nat, base : Bases \cup {NULL}]
        /\ layout'.base = layout.base
    BY <1>1, <2>1 DEF PlaceSection, TypeOK
  <2>4. QED
    BY <1>1, <2>2, <2>3 DEF PlaceSection, TypeOK
<1>2. CASE SkipSection
  BY <1>2, LayoutAssumption DEF SkipSection, TypeOK
<1>3. CASE EndPass
  <2>1. AlignAs(layout.total_size, Split) \in Nat
    BY AlignAsIsNat, LayoutAssumption DEF TypeOK
  <2>2. LayoutAfter(m) \in [total_size : Nat, text_size : Nat, ro_size : Nat,
                            ro_after_init_size : Nat, base : Bases \cup {NULL}]
    BY <2>1 DEF LayoutAfter, TypeOK
  <2>3. QED
    BY <1>3, <2>2, LayoutAssumption DEF EndPass, TypeOK
<1>4. CASE MapImage
  <2>1. PICK b \in Bases : layout' = [layout EXCEPT !.base = b]
    BY <1>4 DEF MapImage
  <2>2. /\ layout' \in [total_size : Nat, text_size : Nat, ro_size : Nat,
                        ro_after_init_size : Nat, base : Bases \cup {NULL}]
        /\ layout'.base = b /\ b # NULL
    BY <2>1, MappingAssumption DEF TypeOK, NULL
  <2>3. QED
    BY <1>4, <2>2 DEF MapImage, TypeOK
<1>5. CASE MapFails
  BY <1>5 DEF MapFails, TypeOK
<1>6. CASE CopySection
  <2>1. i \in Sec /\ i + 1 \in 0 .. NSec
    BY <1>6, LayoutAssumption DEF CopySection, TypeOK, Sec
  <2>2. intact' \subseteq Sec
    BY <1>6, <2>1 DEF CopySection, CopyOver, TypeOK
  <2>3. layout.base \in Nat \ {0} /\ off[i] \in Nat \cup {-1}
    BY <1>6, <2>1, MappingAssumption DEF CopySection, TypeOK, NULL, None
  <2>4. addr' \in [Sec -> Nat \cup {InFile}]
    BY <1>6, <2>1, <2>3 DEF CopySection, TypeOK
  <2>5. QED
    BY <1>6, <2>1, <2>2, <2>4 DEF CopySection, TypeOK
<1>7. CASE SkipCopy
  BY <1>7, LayoutAssumption DEF SkipCopy, TypeOK
<1>8. CASE EndMove
  BY <1>8 DEF EndMove, TypeOK
<1>9. CASE ProtectImage
  <2>1. protected' \in Nat
    BY <1>9, PageUpCovers DEF ProtectImage, ProtectLength, TypeOK
  <2>2. QED
    BY <1>9, <2>1 DEF ProtectImage, TypeOK
<1>10. CASE ProtectFails
  BY <1>10 DEF ProtectFails, TypeOK
<1>11. CASE UNCHANGED vars
  BY <1>11 DEF vars, TypeOK
<1>12. QED
  BY <1>1, <1>2, <1>3, <1>4, <1>5, <1>6, <1>7, <1>8, <1>9, <1>10, <1>11 DEF Next

\* Types are kept; offsets and sizes never go below 0 or to None again.
THEOREM TypeCorrect == Spec => []TypeOK
<1>1. TypeInv => TypeOK
  BY DEF TypeInv
<1>2. QED
  BY <1>1, TypeInvInit, TypeInvNext, PTL DEF Spec

-----------------------------------------------------------------------------
(***************************************************************************)
(* The invariant of the five passes                                        *)
(***************************************************************************)

\* The pass that places section s: the first one whose masks let it in.
Pass(s) ==
  IF Code(s) THEN 0
  ELSE IF SHF_WRITE \notin hdr[s].flags THEN 1
  ELSE IF SHF_RO_AFTER_INIT \in hdr[s].flags THEN 2
  ELSE 3

\* Pass m has reached section i: the placed sections are those of earlier
\* passes, and those of this pass that lie before i.
PlacedByPass ==
  \A s \in Sec :
    off[s] # None <=> Alloc(s) /\ (Pass(s) < m \/ (Pass(s) = m /\ s < i))

\* Every placed section has added at most MaxStep, the split at most Split.
Budget ==
  layout.total_size <= Cardinality(PlacedSections) * MaxStep
                         + (IF m > 2 THEN Split ELSE 0)

BelowTotal == \A s \in PlacedSections : Below(s, layout.total_size)

TextBoundary ==
  m > 0 =>
    /\ layout.text_size <= layout.total_size
    /\ \A s \in PlacedSections :
         IF Code(s) THEN Below(s, layout.text_size) ELSE layout.text_size <= off[s]

SplitBoundary ==
  m > 2 =>
    /\ layout.ro_after_init_size <= layout.total_size
    /\ layout.ro_after_init_size % Split = 0
    /\ \A s \in PlacedSections :
         IF Writable(s) THEN layout.ro_after_init_size <= off[s]
                        ELSE Below(s, layout.ro_after_init_size)

LayoutInv ==
  /\ TypeInv
  /\ PlacedByPass
  /\ Budget
  /\ BelowTotal
  /\ SectionsDisjoint
  /\ TextBoundary
  /\ SplitBoundary

LEMMA SecIsFinite == IsFiniteSet(Sec) /\ Cardinality(Sec) = NSec
<1>1. NSec \in Nat
  BY LayoutAssumption
<1>2. QED
  BY <1>1, FS_Interval DEF Sec

LEMMA PlacedCount ==
  /\ IsFiniteSet(PlacedSections)
  /\ Cardinality(PlacedSections) \in 0 .. NSec
  /\ PlacedSections # Sec => Cardinality(PlacedSections) < NSec
<1>1. PlacedSections \subseteq Sec
  BY DEF PlacedSections
<1>2. /\ IsFiniteSet(PlacedSections)
      /\ Cardinality(PlacedSections) <= NSec
      /\ Cardinality(PlacedSections) = NSec => PlacedSections = Sec
  BY <1>1, SecIsFinite, FS_Subset
<1>3. Cardinality(PlacedSections) \in Nat /\ NSec \in Nat
  BY <1>2, FS_CardinalityType, LayoutAssumption
<1>4. QED
  BY <1>2, <1>3

\* What the masks of pass p ask of the flags of a section.
LEMMA MaskMeaning ==
  ASSUME NEW p \in 0 .. 4, NEW F
  PROVE  (Masks[p].all \subseteq F /\ Masks[p].none \cap F = {}) <=>
           /\ SHF_ALLOC \in F
           /\ p = 0 => SHF_EXECINSTR \in F
           /\ p = 1 => SHF_WRITE \notin F
           /\ p = 2 => SHF_RO_AFTER_INIT \in F
           /\ p = 3 => SHF_WRITE \in F
<1>1. CASE p = 0
  <2>1. Masks[p] = [all |-> {SHF_EXECINSTR, SHF_ALLOC}, none |-> {}]
    BY <1>1 DEF Masks
  <2>2. QED
    BY <1>1, <2>1
<1>2. CASE p = 1
  <2>1. Masks[p] = [all |-> {SHF_ALLOC}, none |-> {SHF_WRITE}]
    BY <1>2 DEF Masks
  <2>2. QED
    BY <1>2, <2>1
<1>3. CASE p = 2
  <2>1. Masks[p] = [all |-> {SHF_RO_AFTER_INIT, SHF_ALLOC}, none |-> {}]
    BY <1>3 DEF Masks
  <2>2. QED
    BY <1>3, <2>1
<1>4. CASE p = 3
  <2>1. Masks[p] = [all |-> {SHF_WRITE, SHF_ALLOC}, none |-> {}]
    BY <1>4 DEF Masks
  <2>2. QED
    BY <1>4, <2>1
<1>5. CASE p = 4
  <2>1. Masks[p] = [all |-> {SHF_ALLOC}, none |-> {}]
    BY <1>5 DEF Masks
  <2>2. QED
    BY <1>5, <2>1
<1>6. QED
  BY <1>1, <1>2, <1>3, <1>4, <1>5

\* The masks of a pass let in a section exactly when it is that pass's turn.
LEMMA SelectedIsPass ==
  ASSUME TypeInv, PlacedByPass, pc = "layout_sections", i \in Sec
  PROVE  Selected(m, i) <=> Alloc(i) /\ Pass(i) = m
<1>1. m \in 0 .. 4 /\ i \in Int
  BY LayoutAssumption DEF TypeInv, Phase, Sec
<1>2. off[i] # None <=> Alloc(i) /\ Pass(i) < m
  BY <1>1 DEF PlacedByPass
<1>3. Pass(i) \in 0 .. 3
  BY DEF Pass
<1>4. Selected(m, i) <=>
        /\ Alloc(i)
        /\ m = 0 => SHF_EXECINSTR \in hdr[i].flags
        /\ m = 1 => SHF_WRITE \notin hdr[i].flags
        /\ m = 2 => SHF_RO_AFTER_INIT \in hdr[i].flags
        /\ m = 3 => SHF_WRITE \in hdr[i].flags
        /\ off[i] = None
  BY <1>1, MaskMeaning DEF Selected, Alloc
<1>5. ASSUME Selected(m, i) PROVE Alloc(i) /\ Pass(i) = m
  <2>1. Alloc(i) /\ off[i] = None /\ Pass(i) <= m
    BY <1>1, <1>3, <1>4, <1>5 DEF Pass, Code
  <2>2. QED
    BY <1>1, <1>2, <1>3, <2>1
<1>6. ASSUME Alloc(i), Pass(i) = m PROVE Selected(m, i)
  <2>1. off[i] = None
    BY <1>1, <1>2, <1>6
  <2>2. QED
    BY <1>1, <1>4, <1>6, <2>1 DEF Pass, Code
<1>7. QED
  BY <1>5, <1>6

LEMMA BudgetLeft ==
  ASSUME TypeInv, Budget
  PROVE  /\ layout.total_size <= NSec * MaxStep + (IF m > 2 THEN Split ELSE 0)
         /\ layout.total_size < U32
         /\ PlacedSections # Sec => layout.total_size + MaxStep < U32
<1> DEFINE c == Cardinality(PlacedSections)
<1>1. c \in Nat /\ c <= NSec /\ (PlacedSections # Sec => c + 1 <= NSec)
  BY PlacedCount, LayoutAssumption
<1>2. /\ layout.total_size \in Nat /\ MaxStep \in Nat /\ Split \in Nat /\ NSec \in Nat
      /\ U32 \in Nat /\ NSec * MaxStep + Split < U32
  BY LayoutAssumption DEF TypeInv, TypeOK
<1>3. layout.total_size <= c * MaxStep + (IF m > 2 THEN Split ELSE 0)
  BY DEF Budget
<1> HIDE DEF c
<1>4. c * MaxStep \in Nat /\ NSec * MaxStep \in Nat
  BY <1>1, <1>2
<1>5. c * MaxStep <= NSec * MaxStep
  BY <1>1, <1>2
<1>6. ASSUME c + 1 <= NSec PROVE c * MaxStep + MaxStep <= NSec * MaxStep
  <2>1. (c + 1) * MaxStep <= NSec * MaxStep
    BY <1>1, <1>2, <1>6
  <2>2. (c + 1) * MaxStep = c * MaxStep + MaxStep
    BY <1>1, <1>2
  <2>3. QED
    BY <2>1, <2>2
<1> DEFINE x == c * MaxStep
           y == NSec * MaxStep
<1>7. /\ x \in Nat /\ y \in Nat /\ x <= y
      /\ c + 1 <= NSec => x + MaxStep <= y
      /\ layout.total_size <= x + (IF m > 2 THEN Split ELSE 0)
      /\ y + Split < U32
  BY <1>2, <1>3, <1>4, <1>5, <1>6
<1> HIDE DEF x, y
<1>8. /\ layout.total_size <= y + (IF m > 2 THEN Split ELSE 0)
      /\ layout.total_size < U32
      /\ c + 1 <= NSec => layout.total_size + MaxStep < U32
  BY <1>2, <1>7
<1>9. QED
  BY <1>1, <1>8 DEF y

\* Where a section that is still to be placed goes.
LEMMA OffsetBounds ==
  ASSUME TypeInv, Budget, NEW s \in Sec, off[s] = None
  PROVE  /\ OffsetFor(s) \in Nat
         /\ layout.total_size <= OffsetFor(s)
         /\ OffsetFor(s) + hdr[s].size <= layout.total_size + MaxStep
         /\ hdr[s].size % U32 = hdr[s].size
         /\ hdr[s].size \in Nat
<1>1. /\ hdr[s].size \in Nat /\ hdr[s].align \in Nat
      /\ hdr[s].size + hdr[s].align <= MaxStep
      /\ hdr[s].size % U32 = hdr[s].size
      /\ hdr[s].align % U32 = hdr[s].align
  BY HeaderTypes, OffsetIsNat DEF TypeInv
<1>2. PlacedSections # Sec
  BY DEF PlacedSections
<1>3. layout.total_size + MaxStep < U32 /\ layout.total_size < U32
  BY <1>2, BudgetLeft
<1>4. layout.total_size \in Nat /\ MaxStep \in Nat /\ U32 \in Nat
  BY LayoutAssumption DEF TypeInv, TypeOK
<1> DEFINE a == IF hdr[s].align = 0 THEN 1 ELSE hdr[s].align
<1>5. a \in Nat \ {0} /\ layout.total_size + a <= U32
  BY <1>1, <1>3, <1>4
<1>6. OffsetFor(s) = AlignAs(layout.total_size, a)
  BY <1>1 DEF OffsetFor
<1>7. /\ OffsetFor(s) \in Nat
      /\ layout.total_size <= OffsetFor(s)
      /\ OffsetFor(s) < layout.total_size + a
  BY <1>4, <1>5, <1>6, AlignAsRoundsUp
<1>8. QED
  BY <1>1, <1>4, <1>7

LEMMA LayoutInvInit == Init => LayoutInv
<1> SUFFICES ASSUME Init PROVE LayoutInv
  OBVIOUS
<1>1. TypeInv
  BY TypeInvInit
<1>2. PlacedSections = {} /\ m = 0 /\ i = 0 /\ layout.total_size = 0
  BY DEF Init, PlacedSections
<1>3. PlacedByPass
  <2>1. \A s \in Sec : off[s] = None /\ s \in Nat /\ Pass(s) \in 0 .. 3
    BY LayoutAssumption DEF Init, Sec, Pass
  <2>2. QED
    BY <1>2, <2>1 DEF PlacedByPass
<1>4. Budget
  BY <1>2, FS_EmptySet, LayoutAssumption DEF Budget
<1>5. BelowTotal /\ SectionsDisjoint /\ TextBoundary /\ SplitBoundary
  BY <1>2 DEF BelowTotal, SectionsDisjoint, TextBoundary, SplitBoundary
<1>6. QED
  BY <1>1, <1>3, <1>4, <1>5 DEF LayoutInv

\* Placing a section above everything placed so far keeps the invariant.
LEMMA PlacePreserves ==
  ASSUME LayoutInv, PlaceSection
  PROVE  LayoutInv'
<1> USE DEF LayoutInv
<1>1. /\ i \in Sec /\ i \in Nat /\ i < NSec /\ m \in 0 .. 4
      /\ pc = "layout_sections" /\ Selected(m, i)
  BY LayoutAssumption DEF PlaceSection, TypeInv, TypeOK, Phase, Sec
<1>2. Alloc(i) /\ Pass(i) = m /\ off[i] = None
  BY <1>1, SelectedIsPass DEF Selected
<1> DEFINE at == OffsetFor(i)
<1>3. /\ at \in Nat /\ hdr[i].size \in Nat
      /\ layout.total_size <= at
      /\ at + hdr[i].size <= layout.total_size + MaxStep
      /\ hdr[i].size % U32 = hdr[i].size
  BY <1>1, <1>2, OffsetBounds
<1>4. /\ off' = [off EXCEPT ![i] = at]
      /\ layout' = [layout EXCEPT !.total_size = at + hdr[i].size]
      /\ i' = i + 1 /\ m' = m /\ hdr' = hdr /\ pc' = pc
  BY <1>3 DEF PlaceSection
<1> HIDE DEF at
<1>5. /\ layout.total_size \in Nat /\ layout.text_size \in Nat
      /\ layout.ro_after_init_size \in Nat /\ MaxStep \in Nat /\ Split \in Nat
      /\ layout'.total_size = at + hdr[i].size
      /\ layout'.text_size = layout.text_size
      /\ layout'.ro_after_init_size = layout.ro_after_init_size
  BY <1>4, LayoutAssumption DEF TypeInv, TypeOK
<1>6. /\ PlacedSections' = PlacedSections \cup {i}
      /\ i \notin PlacedSections
      /\ off'[i] = at
      /\ \A s \in Sec : s # i => off'[s] = off[s]
  BY <1>1, <1>2, <1>3, <1>4 DEF PlacedSections, TypeInv, TypeOK, None, Sec
<1>7. \A s \in PlacedSections : off[s] \in Nat /\ hdr[s].size \in Nat /\ s # i /\ s \in Sec
  BY <1>2, HeaderTypes DEF PlacedSections, TypeInv, TypeOK
<1>8. TypeInv'
  BY <1>1, TypeInvNext DEF Next
<1>9. PlacedByPass'
  <2>1. \A s \in Sec : s \in Int /\ Pass(s) \in Int
    BY LayoutAssumption DEF Sec, Pass
  <2>2. \A s \in Sec : Alloc(s)' = Alloc(s) /\ Pass(s)' = Pass(s)
    BY <1>4 DEF Alloc, Pass, Code
  <2>3. ASSUME NEW s \in Sec
        PROVE  (off[s] # None)' <=>
                 Alloc(s) /\ (Pass(s) < m \/ (Pass(s) = m /\ s < i + 1))
    <3>1. CASE s = i
      BY <1>2, <1>3, <1>6, <2>1, <3>1 DEF None
    <3>2. CASE s # i
      <4>1. off'[s] = off[s]
        BY <1>6, <3>2
      <4>2. s < i + 1 <=> s < i
        BY <1>1, <2>1, <3>2
      <4>3. QED
        BY <4>1, <4>2 DEF PlacedByPass
    <3>3. QED
      BY <3>1, <3>2
  <2>4. QED
    BY <1>4, <2>2, <2>3 DEF PlacedByPass
<1>10. Budget'
  <2> DEFINE c == Cardinality(PlacedSections)
  <2>1. Cardinality(PlacedSections') = c + 1 /\ c \in Nat
    <3>1. IsFiniteSet(PlacedSections) /\ c \in Nat
      BY PlacedCount, LayoutAssumption
    <3>2. Cardinality(PlacedSections \cup {i}) = c + 1
      BY <1>6, <3>1, FS_AddElement
    <3>3. QED
      BY <1>6, <3>1, <3>2
  <2>2. layout.total_size <= c * MaxStep + (IF m > 2 THEN Split ELSE 0)
    BY DEF Budget
  <2> HIDE DEF c
  <2>3. (c + 1) * MaxStep = c * MaxStep + MaxStep /\ c * MaxStep \in Nat
    BY <1>5, <2>1
  <2>4. layout'.total_size <= (c + 1) * MaxStep + (IF m > 2 THEN Split ELSE 0)
    BY <1>3, <1>5, <2>2, <2>3
  <2>5. QED
    BY <1>4, <2>1, <2>4 DEF Budget
<1>11. BelowTotal'
  BY <1>3, <1>4, <1>5, <1>6, <1>7 DEF BelowTotal, Below
<1>12. SectionsDisjoint'
  BY <1>3, <1>4, <1>5, <1>6, <1>7 DEF SectionsDisjoint, Disjoint, BelowTotal, Below
<1>13. TextBoundary'
  <2>1. m > 0 => ~Code(i)
    BY <1>1, <1>2 DEF Pass
  <2>2. \A s \in Sec : Code(s)' = Code(s)
    BY <1>4 DEF Code, Alloc
  <2>3. QED
    BY <1>1, <1>3, <1>4, <1>5, <1>6, <1>7, <2>1, <2>2 DEF TextBoundary, Below
<1>14. SplitBoundary'
  <2>1. m > 2 => Writable(i)
    BY <1>1, <1>2 DEF Pass, Writable, Code
  <2>2. \A s \in Sec : Writable(s)' = Writable(s)
    BY <1>4 DEF Writable, Alloc
  <2>3. QED
    BY <1>1, <1>3, <1>4, <1>5, <1>6, <1>7, <2>1, <2>2 DEF SplitBoundary, Below
<1>15. QED
  BY <1>8, <1>9, <1>10, <1>11, <1>12, <1>13, <1>14

\* Passing over a section keeps the invariant: it is not its turn.
LEMMA SkipPreserves ==
  ASSUME LayoutInv, SkipSection
  PROVE  LayoutInv'
<1> USE DEF LayoutInv
<1>1. /\ i \in Sec /\ i \in Nat /\ pc = "layout_sections" /\ ~Selected(m, i)
      /\ m \in 0 .. 4
  BY LayoutAssumption DEF SkipSection, TypeInv, TypeOK, Phase, Sec
<1>2. ~(Alloc(i) /\ Pass(i) = m)
  BY <1>1, SelectedIsPass
<1>3. off' = off /\ layout' = layout /\ hdr' = hdr /\ m' = m /\ i' = i + 1
  BY DEF SkipSection
<1>4. TypeInv'
  BY TypeInvNext DEF Next
<1>5. PlacedByPass'
  <2>1. \A s \in Sec : s \in Int /\ Pass(s) \in Int
    BY LayoutAssumption DEF Sec, Pass
  <2>2. \A s \in Sec : Alloc(s)' = Alloc(s) /\ Pass(s)' = Pass(s)
    BY <1>3 DEF Alloc, Pass, Code
  <2>3. \A s \in Sec : Alloc(s) /\ Pass(s) = m => (s < i + 1 <=> s < i)
    BY <1>1, <1>2, <2>1
  <2>4. QED
    BY <1>3, <2>2, <2>3 DEF PlacedByPass
<1>6. /\ PlacedSections' = PlacedSections
      /\ \A s \in Sec : Code(s)' = Code(s) /\ Writable(s)' = Writable(s)
  BY <1>3 DEF PlacedSections, Code, Writable, Alloc
<1>7. PlacedSections \subseteq Sec
  BY DEF PlacedSections
<1>8. Budget' /\ BelowTotal' /\ SectionsDisjoint'
  BY <1>3, <1>6 DEF Budget, BelowTotal, SectionsDisjoint, Below
<1>9. TextBoundary'
  BY <1>3, <1>6, <1>7 DEF TextBoundary, Below
<1>10. SplitBoundary'
  BY <1>3, <1>6, <1>7 DEF SplitBoundary, Below
<1>11. QED
  BY <1>4, <1>5, <1>8, <1>9, <1>10

\* Between two passes: everything placed lies below total_size, so the tally of
\* pass 0 bounds code, and the one of pass 2, rounded up, all but pass 3.
LEMMA EndPassPreserves ==
  ASSUME LayoutInv, EndPass
  PROVE  LayoutInv'
<1> USE DEF LayoutInv
<1>1. /\ i = NSec /\ m \in 0 .. 4 /\ pc = "layout_sections"
      /\ off' = off /\ hdr' = hdr /\ m' = m + 1 /\ i' = 0
      /\ layout' = LayoutAfter(m)
  BY DEF EndPass, TypeInv, Phase
<1>2. /\ layout.total_size \in Nat /\ layout.text_size \in Nat
      /\ layout.ro_after_init_size \in Nat /\ Split \in Nat \ {0} /\ U32 \in Nat
      /\ layout \in [total_size : Nat, text_size : Nat, ro_size : Nat,
                     ro_after_init_size : Nat, base : Bases \cup {NULL}]
  BY LayoutAssumption DEF TypeInv, TypeOK
<1>3. TypeInv'
  BY TypeInvNext DEF Next
<1>4. PlacedByPass'
  <2>1. \A s \in Sec : s \in Int /\ 0 <= s /\ s < i /\ Pass(s) \in Int
    BY <1>1, LayoutAssumption DEF Sec, Pass
  <2>2. \A s \in Sec : Alloc(s)' = Alloc(s) /\ Pass(s)' = Pass(s)
    BY <1>1 DEF Alloc, Pass, Code
  <2>3. \A s \in Sec : (Pass(s) < m \/ (Pass(s) = m /\ s < i)) <=>
                        (Pass(s) < m + 1 \/ (Pass(s) = m + 1 /\ s < 0))
    BY <1>1, <2>1
  <2>4. QED
    BY <1>1, <2>2, <2>3 DEF PlacedByPass
<1>5. /\ PlacedSections' = PlacedSections
      /\ \A s \in Sec : Code(s)' = Code(s) /\ Writable(s)' = Writable(s)
      /\ \A s \in PlacedSections : s \in Sec /\ off[s] \in Nat /\ hdr[s].size \in Nat
  BY <1>1, HeaderTypes DEF PlacedSections, Code, Writable, Alloc, TypeInv, TypeOK
<1>6. SectionsDisjoint'
  BY <1>1, <1>5 DEF SectionsDisjoint
<1>7. CASE m = 2
  <2> DEFINE split == AlignAs(layout.total_size, Split)
  <2>1. layout.total_size + Split <= U32
    <3>1. layout.total_size <= NSec * MaxStep
      BY <1>7, BudgetLeft, LayoutAssumption
    <3>2. NSec * MaxStep \in Nat
      BY LayoutAssumption
    <3> DEFINE y == NSec * MaxStep
    <3>3. layout.total_size <= y /\ y \in Nat /\ y + Split < U32
      BY <3>1, <3>2, LayoutAssumption
    <3> HIDE DEF y
    <3>4. QED
      BY <1>2, <3>3
  <2>2. /\ split \in Nat /\ layout.total_size <= split
        /\ split < layout.total_size + Split /\ split % Split = 0
    BY <1>2, <2>1, AlignAsRoundsUp
  <2>3. layout' = [layout EXCEPT !.total_size = split, !.ro_after_init_size = split]
    BY <1>1, <1>7 DEF LayoutAfter
  <2> HIDE DEF split
  <2>4. /\ layout'.total_size = split
        /\ layout'.ro_after_init_size = split
        /\ layout'.text_size = layout.text_size
    BY <1>2, <2>3
  <2>5. Budget'
    <3> DEFINE x == Cardinality(PlacedSections) * MaxStep
    <3>1. layout.total_size <= x + 0 /\ x \in Nat
      BY <1>7, PlacedCount, LayoutAssumption DEF Budget
    <3> HIDE DEF x
    <3>2. split <= x + Split
      BY <1>2, <2>2, <3>1
    <3>3. QED
      BY <1>1, <1>5, <1>7, <2>4, <3>2 DEF Budget, x
  <2>6. BelowTotal'
    BY <1>1, <1>2, <1>5, <2>2, <2>4 DEF BelowTotal, Below
  <2>7. TextBoundary'
    BY <1>1, <1>2, <1>5, <1>7, <2>2, <2>4 DEF TextBoundary, Below
  <2>8. SplitBoundary'
    <3>1. \A s \in PlacedSections : ~Writable(s)
      <4>1. \A s \in PlacedSections : Alloc(s) /\ Pass(s) <= 2
        BY <1>7, <1>5, LayoutAssumption DEF PlacedSections, PlacedByPass, Pass
      <4>2. QED
        BY <4>1 DEF Pass, Writable, Code
    <3>2. \A s \in PlacedSections : off[s] + hdr[s].size <= split
      BY <1>2, <1>5, <2>2 DEF BelowTotal, Below
    <3>3. QED
      BY <1>1, <1>5, <2>2, <2>4, <3>1, <3>2 DEF SplitBoundary, Below
  <2>9. QED
    BY <1>3, <1>4, <1>6, <2>5, <2>6, <2>7, <2>8
<1>8. CASE m # 2
  <2>1. /\ layout'.total_size = layout.total_size
        /\ layout'.ro_after_init_size = layout.ro_after_init_size
        /\ layout'.text_size = IF m = 0 THEN layout.total_size ELSE layout.text_size
    BY <1>1, <1>2, <1>8 DEF LayoutAfter
  <2>2. Budget' /\ BelowTotal'
    BY <1>1, <1>5, <1>8, <2>1 DEF Budget, BelowTotal, Below
  <2>3. TextBoundary'
    <3>1. CASE m = 0
      <4>1. \A s \in PlacedSections : Code(s)
        BY <1>5, <3>1, LayoutAssumption DEF PlacedSections, PlacedByPass, Pass
      <4>2. QED
        BY <1>1, <1>2, <1>5, <2>1, <3>1, <4>1 DEF TextBoundary, BelowTotal, Below
    <3>2. CASE m # 0
      BY <1>1, <1>5, <2>1, <3>2 DEF TextBoundary, Below
    <3>3. QED
      BY <3>1, <3>2
  <2>4. SplitBoundary'
    BY <1>1, <1>5, <1>8, <2>1 DEF SplitBoundary, Below
  <2>5. QED
    BY <1>3, <1>4, <1>6, <2>2, <2>3, <2>4
<1>9. QED
  BY <1>7, <1>8

\* move_module and mod_protect leave the layout as it is.
LEMMA FrozenPreserves ==
  ASSUME LayoutInv, TypeInv', off' = off, hdr' = hdr, m' = m, m = 5 \/ i' = i,
         layout'.total_size = layout.total_size,
         layout'.text_size = layout.text_size,
         layout'.ro_after_init_size = layout.ro_after_init_size
  PROVE  LayoutInv'
<1> USE DEF LayoutInv
<1>1. /\ PlacedSections' = PlacedSections /\ PlacedSections \subseteq Sec
      /\ \A s \in Sec : Code(s)' = Code(s) /\ Writable(s)' = Writable(s)
      /\ \A s \in Sec : Alloc(s)' = Alloc(s) /\ Pass(s)' = Pass(s)
  BY DEF PlacedSections, Code, Writable, Alloc, Pass
<1>2. PlacedByPass'
  <2>1. \A s \in Sec : Pass(s) \in 0 .. 3
    BY DEF Pass
  <2>2. CASE m = 5
    <3>1. \A s \in Sec : Pass(s) < m
      BY <2>1, <2>2
    <3>2. QED
      BY <1>1, <3>1 DEF PlacedByPass
  <2>3. CASE i' = i
    BY <1>1, <2>3 DEF PlacedByPass
  <2>4. QED
    BY <2>2, <2>3
<1>3. Budget' /\ BelowTotal' /\ SectionsDisjoint'
  BY <1>1 DEF Budget, BelowTotal, SectionsDisjoint, Below
<1>4. TextBoundary'
  BY <1>1 DEF TextBoundary, Below
<1>5. SplitBoundary'
  BY <1>1 DEF SplitBoundary, Below
<1>6. QED
  BY <1>2, <1>3, <1>4, <1>5

LEMMA LayoutInvNext == LayoutInv /\ [Next]_vars => LayoutInv'
<1> SUFFICES ASSUME LayoutInv, [Next]_vars PROVE LayoutInv'
  OBVIOUS
<1>1. TypeInv /\ TypeInv'
  BY TypeInvNext DEF LayoutInv
<1>2. pc # "layout_sections" => m = 5
  BY <1>1 DEF TypeInv, Phase
<1>3. CASE PlaceSection
  BY <1>3, PlacePreserves
<1>4. CASE SkipSection
  BY <1>4, SkipPreserves
<1>5. CASE EndPass
  BY <1>5, EndPassPreserves
<1>6. CASE MapImage
  <2>1. PICK b \in Bases : layout' = [layout EXCEPT !.base = b]
    BY <1>6 DEF MapImage
  <2>2. /\ layout'.total_size = layout.total_size
        /\ layout'.text_size = layout.text_size
        /\ layout'.ro_after_init_size = layout.ro_after_init_size
    BY <1>1, <2>1 DEF TypeInv, TypeOK
  <2>3. QED
    BY <1>1, <1>6, <2>2, FrozenPreserves DEF MapImage
<1>7. CASE MapFails
  BY <1>1, <1>7, FrozenPreserves DEF MapFails
<1>8. CASE CopySection
  BY <1>1, <1>2, <1>8, FrozenPreserves DEF CopySection
<1>9. CASE SkipCopy
  BY <1>1, <1>2, <1>9, FrozenPreserves DEF SkipCopy
<1>10. CASE EndMove
  BY <1>1, <1>10, FrozenPreserves DEF EndMove
<1>11. CASE ProtectImage
  BY <1>1, <1>11, FrozenPreserves DEF ProtectImage
<1>12. CASE ProtectFails
  BY <1>1, <1>12, FrozenPreserves DEF ProtectFails
<1>13. CASE UNCHANGED vars
  BY <1>1, <1>13, FrozenPreserves DEF vars
<1>14. QED
  BY <1>3, <1>4, <1>5, <1>6, <1>7, <1>8, <1>9, <1>10, <1>11, <1>12, <1>13 DEF Next

LEMMA LayoutInvHolds == Spec => []LayoutInv
BY LayoutInvInit, LayoutInvNext, PTL DEF Spec

\* No two sections of the image share a byte.
THEOREM LayoutDisjoint == Spec => []SectionsDisjoint
<1>1. LayoutInv => SectionsDisjoint
  BY DEF LayoutInv
<1>2. QED
  BY <1>1, LayoutInvHolds, PTL

\* The sizes layout_sections tallies are boundaries between what the masks set
\* apart.
THEOREM LayoutRegions == Spec => []RegionsHold
<1>1. LayoutInv => RegionsHold
  <2> SUFFICES ASSUME LayoutInv, pc # "layout_sections" PROVE RegionsHold
    BY DEF RegionsHold
  <2>1. m = 5
    BY DEF LayoutInv, TypeInv, Phase
  <2>2. \A s \in Sec : Pass(s) < m
    BY <2>1 DEF Pass
  <2>3. PlacedSections = {s \in Sec : Alloc(s)}
    BY <2>2 DEF LayoutInv, PlacedByPass, PlacedSections
  <2>4. QED
    BY <2>1, <2>3
       DEF LayoutInv, RegionsHold, BelowTotal, TextBoundary, SplitBoundary
<1>2. QED
  BY <1>1, LayoutInvHolds, PTL

-----------------------------------------------------------------------------
(***************************************************************************)
(* layout_sections implements the sealed arena                             *)
(***************************************************************************)

LEMMA InitIsArena == Init => A!ArenaInit
<1> SUFFICES ASSUME Init PROVE A!ArenaInit
  OBVIOUS
<1>1. /\ off = [s \in Sec |-> None] /\ layout.total_size = 0 /\ m = 0
      /\ \A s \in Sec : hdr[s].size \in Nat
  BY LayoutAssumption DEF Init, Header
<1>2. QED
  BY <1>1 DEF A!ArenaInit, A!Unplaced, None

\* A step that leaves the headers, the offsets, total_size and the seal alone
\* is a stutter of the arena.
LEMMA FrozenIsStutter ==
  ASSUME hdr' = hdr, off' = off, layout'.total_size = layout.total_size,
         (IF m > 2 THEN layout.ro_after_init_size ELSE None)' =
           (IF m > 2 THEN layout.ro_after_init_size ELSE None)
  PROVE  UNCHANGED A!arenaVars
BY DEF A!arenaVars

LEMMA PlaceIsCut ==
  ASSUME LayoutInv, PlaceSection
  PROVE  A!Cut(i)
<1>1. /\ i \in Sec /\ m \in 0 .. 4 /\ Selected(m, i) /\ off[i] = None
  BY LayoutAssumption
     DEF PlaceSection, LayoutInv, TypeInv, TypeOK, Phase, Sec, Selected
<1> DEFINE at == OffsetFor(i)
<1>2. /\ at \in Nat /\ hdr[i].size \in Nat
      /\ layout.total_size <= at
      /\ at + hdr[i].size <= layout.total_size + MaxStep
      /\ hdr[i].size % U32 = hdr[i].size
  BY <1>1, OffsetBounds DEF LayoutInv
<1>3. layout.total_size + MaxStep < U32
  BY <1>1, BudgetLeft DEF LayoutInv, PlacedSections
<1>4. /\ off' = [off EXCEPT ![i] = at]
      /\ layout' = [layout EXCEPT !.total_size = at + hdr[i].size]
      /\ hdr' = hdr /\ m' = m
  BY <1>2 DEF PlaceSection
<1> HIDE DEF at
<1>5. /\ layout.total_size \in Nat /\ U32 \in Nat /\ MaxStep \in Nat
      /\ layout'.total_size = at + hdr[i].size
      /\ layout'.ro_after_init_size = layout.ro_after_init_size
  BY <1>4, LayoutAssumption DEF LayoutInv, TypeInv, TypeOK
<1>6. at \in layout.total_size .. U32 /\ at + hdr[i].size <= U32
  BY <1>2, <1>3, <1>5
<1>7. [s \in Sec |-> hdr[s].size][i] = hdr[i].size
  BY <1>1
<1>8. off[i] = A!Unplaced
  BY <1>1 DEF A!Unplaced, None
<1>9. QED
  BY <1>4, <1>5, <1>6, <1>7, <1>8 DEF A!Cut

LEMMA EndPassIsSeal ==
  ASSUME LayoutInv, EndPass
  PROVE  A!Seal \/ UNCHANGED A!arenaVars
<1>1. /\ m \in 0 .. 4 /\ off' = off /\ hdr' = hdr /\ m' = m + 1
      /\ layout' = LayoutAfter(m)
      /\ layout.total_size \in Nat /\ Split \in Nat \ {0} /\ U32 \in Nat
      /\ layout \in [total_size : Nat, text_size : Nat, ro_size : Nat,
                     ro_after_init_size : Nat, base : Bases \cup {NULL}]
  BY LayoutAssumption DEF EndPass, LayoutInv, TypeInv, TypeOK, Phase
<1>2. CASE m = 2
  <2> DEFINE split == AlignAs(layout.total_size, Split)
  <2>1. layout.total_size + Split <= U32
    <3> DEFINE y == NSec * MaxStep
    <3>1. layout.total_size <= y /\ y \in Nat /\ y + Split < U32
      BY <1>2, BudgetLeft, LayoutAssumption DEF LayoutInv
    <3> HIDE DEF y
    <3>2. QED
      BY <1>1, <3>1
  <2>2. /\ split \in layout.total_size .. U32 /\ split % Split = 0
    BY <1>1, <2>1, AlignAsRoundsUp
  <2>3. layout' = [layout EXCEPT !.total_size = split, !.ro_after_init_size = split]
    BY <1>1, <1>2 DEF LayoutAfter
  <2> HIDE DEF split
  <2>4. layout'.total_size = split /\ layout'.ro_after_init_size = split
    BY <1>1, <2>3
  <2>5. A!Seal
    BY <1>1, <1>2, <2>2, <2>4 DEF A!Seal, A!Unplaced, None
  <2>6. QED
    BY <2>5
<1>3. CASE m # 2
  <2>1. /\ layout'.total_size = layout.total_size
        /\ layout'.ro_after_init_size = layout.ro_after_init_size
    BY <1>1, <1>3 DEF LayoutAfter
  <2>2. (m' > 2) <=> (m > 2)
    BY <1>1, <1>3
  <2>3. QED
    BY <1>1, <2>1, <2>2, FrozenIsStutter
<1>4. QED
  BY <1>2, <1>3

LEMMA NextIsArena == LayoutInv /\ [Next]_vars => [A!ArenaNext]_(A!arenaVars)
<1> SUFFICES ASSUME LayoutInv, [Next]_vars
             PROVE  A!ArenaNext \/ UNCHANGED A!arenaVars
  OBVIOUS
<1>1. CASE PlaceSection
  <2>1. i \in Sec
    BY <1>1, LayoutAssumption DEF PlaceSection, LayoutInv, TypeInv, TypeOK, Sec
  <2>2. QED
    BY <1>1, <2>1, PlaceIsCut DEF A!ArenaNext
<1>2. CASE EndPass
  BY <1>2, EndPassIsSeal DEF A!ArenaNext
<1>3. CASE MapImage
  <2>1. PICK b \in Bases : layout' = [layout EXCEPT !.base = b]
    BY <1>3 DEF MapImage
  <2>2. /\ layout'.total_size = layout.total_size
        /\ layout'.ro_after_init_size = layout.ro_after_init_size
    BY <2>1 DEF LayoutInv, TypeInv, TypeOK
  <2>3. QED
    BY <1>3, <2>2, FrozenIsStutter DEF MapImage
<1>4. CASE \/ SkipSection \/ MapFails \/ CopySection \/ SkipCopy \/ EndMove
           \/ ProtectImage \/ ProtectFails \/ UNCHANGED vars
  <2>1. hdr' = hdr /\ off' = off /\ layout' = layout /\ m' = m
    BY <1>4 DEF SkipSection, MapFails, CopySection, SkipCopy, EndMove,
                ProtectImage, ProtectFails, vars
  <2>2. QED
    BY <2>1, FrozenIsStutter
<1>5. QED
  BY <1>1, <1>2, <1>3, <1>4 DEF Next

\* Whatever the object file, layout_sections cuts its sections from a sealed
\* arena.
THEOREM LayoutImplementsArena == Spec => LayoutIsArena
BY InitIsArena, NextIsArena, LayoutInvHolds, PTL
   DEF Spec, LayoutIsArena, A!ArenaSpec

-----------------------------------------------------------------------------
(***************************************************************************)
(* What move_module and mod_protect make of a layout: every section whole  *)
(* and aligned at its address, and the protection on the right side of the *)
(* split.                                                                  *)
(***************************************************************************)

\* Offsets satisfy the alignment their section asks for.
OffsetsAligned ==
  \A s \in PlacedSections : hdr[s].align > 0 => off[s] % hdr[s].align = 0

\* Has the copying loop come past section s?
Copied(s) == pc \notin {"layout_sections", "move_module"} /\ (pc = "copy_sections" => s < i)

\* There is an image only behind move_module, and what the copying loop has
\* come past is whole and at its address.
MoveInv ==
  /\ pc \in {"layout_sections", "move_module"} => layout.base = NULL
  /\ pc = "move_module" => i = 0
  /\ layout.base # NULL =>
       \A s \in Sec :
         Alloc(s) =>
           /\ hdr[s].nobits \/ Copied(s) => s \in intact
           /\ Copied(s) => addr[s] = layout.base + off[s]

\* What mod_protect protects is the front of the image up to the split.
ProtectInv == protected = 0 \/ (m = 5 /\ protected = PageUp(layout.ro_after_init_size))

ImageInv == LayoutInv /\ OffsetsAligned /\ MoveInv /\ ProtectInv

LEMMA ImageInvInit == Init => ImageInv
<1> SUFFICES ASSUME Init PROVE ImageInv
  OBVIOUS
<1>1. PlacedSections = {} /\ layout.base = NULL
  BY DEF Init, PlacedSections
<1>2. QED
  BY <1>1, LayoutInvInit
     DEF Init, ImageInv, OffsetsAligned, MoveInv, ProtectInv

LEMMA OffsetsAlignedNext ==
  ASSUME LayoutInv, OffsetsAligned, [Next]_vars
  PROVE  OffsetsAligned'
<1>1. CASE PlaceSection
  <2>1. i \in Sec /\ off[i] = None
    BY <1>1, LayoutAssumption
       DEF PlaceSection, Selected, LayoutInv, TypeInv, TypeOK, Sec
  <2>2. /\ hdr[i].align \in Nat /\ hdr[i].align % U32 = hdr[i].align
        /\ hdr[i].size + hdr[i].align <= MaxStep /\ hdr[i].size \in Nat
        /\ layout.total_size \in Nat /\ MaxStep \in Nat /\ U32 \in Nat
    BY <2>1, HeaderTypes, OffsetIsNat, LayoutAssumption DEF LayoutInv, TypeInv, TypeOK
  <2>3. layout.total_size + MaxStep < U32
    BY <2>1, BudgetLeft DEF LayoutInv, PlacedSections
  <2>4. hdr[i].align > 0 => OffsetFor(i) % hdr[i].align = 0
    <3> SUFFICES ASSUME hdr[i].align > 0 PROVE OffsetFor(i) % hdr[i].align = 0
      OBVIOUS
    <3>1. OffsetFor(i) = AlignAs(layout.total_size, hdr[i].align)
      BY <2>2 DEF OffsetFor
    <3>2. layout.total_size + hdr[i].align <= U32
      BY <2>2, <2>3
    <3>3. QED
      BY <2>2, <3>1, <3>2, AlignAsRoundsUp
  <2>5. /\ PlacedSections' \subseteq PlacedSections \cup {i} /\ hdr' = hdr
        /\ off'[i] = OffsetFor(i)
        /\ \A s \in PlacedSections : s # i /\ off'[s] = off[s]
    BY <1>1, <2>1 DEF PlaceSection, PlacedSections, LayoutInv, TypeInv, TypeOK
  <2>6. QED
    BY <2>4, <2>5 DEF OffsetsAligned
<1>2. CASE UNCHANGED <<off, hdr>>
  BY <1>2 DEF OffsetsAligned, PlacedSections
<1>3. QED
  BY <1>1, <1>2
     DEF Next, vars, SkipSection, EndPass, MapImage, MapFails, CopySection,
         SkipCopy, EndMove, ProtectImage, ProtectFails

\* Copying section i over the image costs no other section its bytes.
LEMMA CopyKeeps ==
  ASSUME LayoutInv, MoveInv, CopySection
  PROVE  /\ i \in intact'
         /\ \A s \in intact : Alloc(s) => s \in intact'
<1> SUFFICES ASSUME hdr[i].nobits = FALSE \/ hdr[i].nobits = TRUE
             PROVE  /\ i \in intact'
                    /\ \A s \in intact : Alloc(s) => s \in intact'
  <2>1. i \in Sec
    BY LayoutAssumption DEF CopySection, LayoutInv, TypeInv, TypeOK, Sec
  <2>2. hdr[i] \in Header
    BY <2>1, HeaderTypes DEF LayoutInv, TypeInv
  <2>3. QED
    BY <2>2 DEF Header
<1>1. /\ i \in Sec /\ Alloc(i) /\ pc = "copy_sections" /\ m = 5
      /\ layout.base # NULL
  BY LayoutAssumption DEF CopySection, LayoutInv, TypeInv, TypeOK, Phase, Sec
<1>2. \A s \in Sec : Alloc(s) => s \in PlacedSections
  <2>1. \A s \in Sec : Pass(s) < m
    BY <1>1 DEF Pass
  <2>2. QED
    BY <2>1 DEF LayoutInv, PlacedByPass, PlacedSections
<1>3. CASE hdr[i].nobits = TRUE
  <2>1. intact' = intact
    BY <1>3 DEF CopySection
  <2>2. i \in intact
    BY <1>1, <1>3 DEF MoveInv
  <2>3. QED
    BY <2>1, <2>2
<1>4. CASE hdr[i].nobits = FALSE
  <2>1. intact' = CopyOver(i)
    BY <1>4 DEF CopySection
  <2>2. \A s \in intact : s \in Sec
    BY DEF LayoutInv, TypeInv, TypeOK
  <2>3. \A s \in intact : (Alloc(s) /\ s # i) =>
          Disjoint(off[s], hdr[s].size, off[i], hdr[i].size)
    BY <1>1, <1>2, <2>2 DEF LayoutInv, SectionsDisjoint
  <2>4. QED
    BY <2>1, <2>3 DEF CopyOver
<1>5. QED
  BY <1>3, <1>4

LEMMA MoveInvNext ==
  ASSUME LayoutInv, MoveInv, [Next]_vars
  PROVE  MoveInv'
<1> USE DEF MoveInv
<1>1. \A s \in Sec : s \in Nat /\ s < NSec
  BY LayoutAssumption DEF Sec
<1>2. CASE PlaceSection \/ SkipSection \/ EndPass
  <2>1. layout'.base = layout.base
    BY <1>2 DEF PlaceSection, SkipSection, EndPass, LayoutAfter,
                LayoutInv, TypeInv, TypeOK
  <2>2. layout.base = NULL /\ pc' \in {"layout_sections", "move_module"}
    BY <1>2 DEF PlaceSection, SkipSection, EndPass
  <2>3. pc' = "move_module" => i' = 0
    BY <1>2 DEF PlaceSection, SkipSection, EndPass
  <2>4. QED
    BY <2>1, <2>2, <2>3
<1>3. CASE MapImage
  <2>1. /\ intact' = {s \in Sec : Alloc(s) /\ hdr[s].nobits} /\ hdr' = hdr
        /\ pc' = "copy_sections" /\ i' = 0
    BY <1>3 DEF MapImage
  <2>2. \A s \in Sec : ~Copied(s)' /\ Alloc(s)' = Alloc(s)
    BY <1>1, <2>1 DEF Copied, Alloc
  <2>3. QED
    BY <2>1, <2>2
<1>4. CASE MapFails
  BY <1>4 DEF MapFails
<1>5. CASE CopySection
  <2>1. /\ i \in Sec /\ pc = "copy_sections" /\ Alloc(i) /\ i' = i + 1
        /\ addr' = [addr EXCEPT ![i] = layout.base + off[i]]
        /\ hdr' = hdr /\ off' = off /\ layout' = layout /\ pc' = pc
        /\ addr \in [Sec -> Nat \cup {InFile}]
    BY <1>5, LayoutAssumption DEF CopySection, LayoutInv, TypeInv, TypeOK, Sec
  <2>2. \A s \in Sec : (Copied(s)' <=> Copied(s) \/ s = i) /\ Alloc(s)' = Alloc(s)
    BY <1>1, <2>1 DEF Copied, Alloc
  <2>3. addr'[i] = layout.base + off[i] /\ \A s \in Sec : s # i => addr'[s] = addr[s]
    BY <2>1
  <2>4. i \in intact' /\ \A s \in intact : Alloc(s) => s \in intact'
    BY <1>5, CopyKeeps
  <2>5. \A s \in Sec : Alloc(s)' =>
          /\ (hdr'[s].nobits \/ Copied(s)') => s \in intact'
          /\ Copied(s)' => addr'[s] = layout'.base + off'[s]
    <3> SUFFICES ASSUME NEW s \in Sec, Alloc(s), layout.base # NULL
                 PROVE  /\ (hdr[s].nobits \/ Copied(s) \/ s = i) => s \in intact'
                        /\ (Copied(s) \/ s = i) => addr'[s] = layout.base + off[s]
      BY <2>1, <2>2 DEF LayoutInv, TypeInv, Phase
    <3>1. CASE s = i
      BY <2>3, <2>4, <3>1
    <3>2. CASE s # i
      BY <2>3, <2>4, <3>2
    <3>3. QED
      BY <3>1, <3>2
  <2>6. QED
    BY <2>1, <2>5
<1>6. CASE SkipCopy
  <2>1. /\ i \in Sec /\ pc = "copy_sections" /\ ~Alloc(i) /\ i' = i + 1
        /\ UNCHANGED <<hdr, off, layout, addr, intact, pc>>
    BY <1>6, LayoutAssumption DEF SkipCopy, LayoutInv, TypeInv, TypeOK, Sec
  <2>2. \A s \in Sec : Alloc(s) => (Copied(s)' <=> Copied(s))
    BY <1>1, <2>1 DEF Copied
  <2>3. \A s \in Sec : Alloc(s)' = Alloc(s)
    BY <2>1 DEF Alloc
  <2>4. QED
    BY <2>1, <2>2, <2>3
<1>7. CASE EndMove
  <2>1. /\ i = NSec /\ pc = "copy_sections" /\ pc' = "mod_protect"
        /\ UNCHANGED <<hdr, off, layout, addr, intact>>
    BY <1>7 DEF EndMove
  <2>2. \A s \in Sec : Copied(s)
    BY <1>1, <2>1 DEF Copied
  <2>3. \A s \in Sec : Alloc(s)' = Alloc(s)
    BY <2>1 DEF Alloc
  <2>4. QED
    BY <2>1, <2>2, <2>3
<1>8. CASE ProtectImage \/ ProtectFails
  <2>1. /\ pc = "mod_protect" /\ pc' = "mod_init_and_construct"
        /\ UNCHANGED <<hdr, off, layout, addr, intact>>
    BY <1>8 DEF ProtectImage, ProtectFails
  <2>2. \A s \in Sec : Copied(s)
    BY <2>1 DEF Copied
  <2>3. \A s \in Sec : Alloc(s)' = Alloc(s)
    BY <2>1 DEF Alloc
  <2>4. QED
    BY <2>1, <2>2, <2>3
<1>9. CASE UNCHANGED vars
  BY <1>9 DEF vars, Copied, Alloc
<1>10. QED
  BY <1>2, <1>3, <1>4, <1>5, <1>6, <1>7, <1>8, <1>9 DEF Next

LEMMA ProtectInvNext ==
  ASSUME LayoutInv, ProtectInv, [Next]_vars
  PROVE  ProtectInv'
<1>1. pc # "layout_sections" => m = 5
  BY DEF LayoutInv, TypeInv, Phase
<1>2. CASE PlaceSection \/ SkipSection \/ EndPass
  <2>1. pc = "layout_sections" /\ protected' = protected /\ m \in 0 .. 4
    BY <1>2 DEF PlaceSection, SkipSection, EndPass, LayoutInv, TypeInv, Phase
  <2>2. QED
    BY <2>1 DEF ProtectInv
<1>3. CASE MapImage
  <2>1. PICK b \in Bases : layout' = [layout EXCEPT !.base = b]
    BY <1>3 DEF MapImage
  <2>2. layout'.ro_after_init_size = layout.ro_after_init_size
    BY <2>1 DEF LayoutInv, TypeInv, TypeOK
  <2>3. QED
    BY <1>3, <2>2 DEF MapImage, ProtectInv, PageUp
<1>4. CASE ProtectImage
  BY <1>1, <1>4 DEF ProtectImage, ProtectInv, ProtectLength, PageUp
<1>5. CASE UNCHANGED <<layout, m, protected>>
  BY <1>5 DEF ProtectInv, PageUp
<1>6. QED
  BY <1>2, <1>3, <1>4, <1>5
     DEF Next, vars, MapFails, CopySection, SkipCopy, EndMove, ProtectFails

LEMMA ImageInvHolds == Spec => []ImageInv
<1>1. ImageInv /\ [Next]_vars => ImageInv'
  BY LayoutInvNext, OffsetsAlignedNext, MoveInvNext, ProtectInvNext DEF ImageInv
<1>2. QED
  BY <1>1, ImageInvInit, PTL DEF Spec

LEMMA AllPlaced ==
  ASSUME LayoutInv, Mapped \/ Ended, NEW s \in Sec, Alloc(s)
  PROVE  s \in PlacedSections /\ m = 5 /\ off[s] \in Nat /\ hdr[s].size \in Nat
<1>1. m = 5
  BY DEF LayoutInv, TypeInv, Phase, Mapped, Ended
<1>2. Pass(s) < m
  BY <1>1 DEF Pass
<1>3. off[s] # None
  BY <1>2 DEF LayoutInv, PlacedByPass
<1>4. QED
  BY <1>1, <1>3, HeaderTypes DEF PlacedSections, LayoutInv, TypeInv, TypeOK

-----------------------------------------------------------------------------
(***************************************************************************)
(* The properties of the image                                             *)
(***************************************************************************)

\* Every section of the image is whole, at its address, inside the mapping.
THEOREM ImageIsIntact == Spec => []ImageIntact
<1>1. ImageInv => ImageIntact
  <2> SUFFICES ASSUME ImageInv, Mapped, NEW s \in Sec, Alloc(s)
               PROVE  /\ s \in intact
                      /\ addr[s] = layout.base + off[s]
                      /\ addr[s] + hdr[s].size <= layout.base + PageUp(layout.total_size)
    BY DEF ImageIntact
  <2>1. s \in PlacedSections /\ off[s] \in Nat /\ hdr[s].size \in Nat
    BY AllPlaced DEF ImageInv
  <2>2. s \in intact /\ addr[s] = layout.base + off[s]
    BY DEF ImageInv, MoveInv, Mapped, Copied
  <2>3. off[s] + hdr[s].size <= layout.total_size
    BY <2>1 DEF ImageInv, LayoutInv, BelowTotal, Below
  <2>4. layout.total_size \in Nat /\ layout.base \in Nat
    <3>1. layout.total_size \in Nat
      BY DEF ImageInv, LayoutInv, TypeInv, TypeOK
    <3>2. layout.base \in Bases
      BY DEF ImageInv, LayoutInv, TypeInv, TypeOK, Mapped
    <3>3. QED
      BY <3>1, <3>2, MappingAssumption
  <2>5. PageUp(layout.total_size) \in Nat /\ layout.total_size <= PageUp(layout.total_size)
    BY <2>4, PageUpCovers
  <2>6. QED
    BY <2>1, <2>2, <2>3, <2>4, <2>5
<1>2. QED
  BY <1>1, ImageInvHolds, PTL

\* When mprotect succeeded, constructors and the entry find their code and
\* read-only data on the protected pages.
THEOREM CodeIsProtected == Spec => []CodeRuns
<1>1. ImageInv => CodeRuns
  <2> SUFFICES ASSUME ImageInv, Ended, Mapped, protected > 0,
                      NEW s \in Sec, Alloc(s), ~Writable(s)
               PROVE  Below(s, protected)
    BY DEF CodeRuns
  <2>1. s \in PlacedSections /\ m = 5 /\ off[s] \in Nat /\ hdr[s].size \in Nat
    BY AllPlaced DEF ImageInv
  <2>2. off[s] + hdr[s].size <= layout.ro_after_init_size
    BY <2>1 DEF ImageInv, LayoutInv, SplitBoundary, Below
  <2>3. layout.ro_after_init_size \in Nat
    BY DEF ImageInv, LayoutInv, TypeInv, TypeOK
  <2>4. /\ protected = PageUp(layout.ro_after_init_size)
        /\ PageUp(layout.ro_after_init_size) \in Nat
        /\ layout.ro_after_init_size <= PageUp(layout.ro_after_init_size)
    BY <2>3, PageUpCovers DEF ImageInv, ProtectInv
  <2>5. QED
    BY <2>1, <2>2, <2>3, <2>4 DEF Below
<1>2. QED
  BY <1>1, ImageInvHolds, PTL

\* A multiple of a multiple of a is a multiple of a.
LEMMA MultipleOfMultiple ==
  ASSUME NEW x \in Nat, NEW b \in Nat \ {0}, NEW a \in Nat \ {0},
         x % b = 0, b % a = 0
  PROVE  x % a = 0
<1> DEFINE q == x \div b
           k == b \div a
<1>1. x = b * q /\ q \in Nat /\ b = a * k /\ k \in Nat
  BY DivMod
<1> HIDE DEF q, k
<1>2. x = (k * q) * a /\ k * q \in Nat
  BY <1>1
<1>3. QED
  BY <1>2, MultipleMod

LEMMA SumOfMultiples ==
  ASSUME NEW x \in Nat, NEW y \in Nat, NEW a \in Nat \ {0}, x % a = 0, y % a = 0
  PROVE  (x + y) % a = 0
<1> DEFINE q == x \div a
           k == y \div a
<1>1. x = a * q /\ q \in Nat /\ y = a * k /\ k \in Nat
  BY DivMod
<1> HIDE DEF q, k
<1>2. x + y = (q + k) * a /\ q + k \in Nat
  BY <1>1
<1>3. QED
  BY <1>2, MultipleMod

\* Sections have the alignment they ask for where a page can give it.
THEOREM AddressesAreAligned == Spec => []AddressesAligned
<1>1. ImageInv => AddressesAligned
  <2> SUFFICES ASSUME ImageInv, Mapped, NEW s \in Sec, Alloc(s),
                      hdr[s].align > 0, Page % hdr[s].align = 0
               PROVE  addr[s] % hdr[s].align = 0
    BY DEF AddressesAligned
  <2>1. s \in PlacedSections /\ off[s] \in Nat
    BY AllPlaced DEF ImageInv
  <2>2. off[s] % hdr[s].align = 0 /\ addr[s] = layout.base + off[s]
    BY <2>1 DEF ImageInv, OffsetsAligned, MoveInv, Mapped, Copied
  <2>3. layout.base \in Nat /\ layout.base % Page = 0 /\ Page \in Nat \ {0}
    <3>1. layout.base \in Bases
      BY DEF ImageInv, LayoutInv, TypeInv, TypeOK, Mapped
    <3>2. QED
      BY <3>1, MappingAssumption
  <2>4. hdr[s].align \in Nat \ {0}
    BY HeaderTypes DEF ImageInv, LayoutInv, TypeInv
  <2>5. layout.base % hdr[s].align = 0
    BY <2>3, <2>4, MultipleOfMultiple
  <2>6. QED
    BY <2>1, <2>2, <2>3, <2>4, <2>5, SumOfMultiples
<1>2. QED
  BY <1>1, ImageInvHolds, PTL

\* No page mod_protect made read-only holds data the program may write,
\* provided the split is at a page boundary of the kernel: 4096 must be a
\* multiple of its page size.
THEOREM WritableIsWritable ==
  ASSUME Split % Page = 0
  PROVE  Spec => []WritableStaysWritable
<1>1. ImageInv => WritableStaysWritable
  <2> SUFFICES ASSUME ImageInv, Ended, NEW s \in Sec, Writable(s)
               PROVE  protected <= off[s]
    BY DEF WritableStaysWritable
  <2>1. s \in PlacedSections /\ m = 5 /\ off[s] \in Nat
    BY AllPlaced DEF ImageInv, Writable
  <2>2. /\ layout.ro_after_init_size <= off[s]
        /\ layout.ro_after_init_size % Split = 0
    BY <2>1 DEF ImageInv, LayoutInv, SplitBoundary
  <2>3. layout.ro_after_init_size \in Nat
    BY DEF ImageInv, LayoutInv, TypeInv, TypeOK
  <2>4. Split \in Nat \ {0} /\ Page \in Nat \ {0}
    BY LayoutAssumption, MappingAssumption
  <2>5. PageUp(layout.ro_after_init_size) = layout.ro_after_init_size
    BY <2>2, <2>3, <2>4, MultipleOfMultiple, PageUpOfMultiple
  <2>6. QED
    BY <2>1, <2>2, <2>5 DEF ImageInv, ProtectInv
<1>2. QED
  BY <1>1, ImageInvHolds, PTL
=============================================================================
