------------------------------- MODULE Layout -------------------------------
(***************************************************************************)
(* The memory image of one relocatable object, as module/module.cpp makes  *)
(* it: init_section_addr points every section into the mapped file,        *)
(* layout_sections gives every SHF_ALLOC section an offset in five passes, *)
(* move_module maps the image and copies the sections into it, and         *)
(* mod_protect makes the front of the image read-only and executable.      *)
(* load_module calls the four in this order and looks at no return code.   *)
(*                                                                         *)
(* Addresses and sizes are numbers; what a section contains is not         *)
(* modelled, only whether its bytes are where its address says.            *)
(***************************************************************************)
EXTENDS Integers, FiniteSets

CONSTANTS
  NSec,     \* elf.sections.size()
  Headers,  \* the section headers an object file may hold
  MaxStep,  \* the most one section can add to the image: size plus alignment
  U32,      \* 2^32, the number of values of uint32_t
  Split,    \* the literal 4096 of layout_sections
  Page,     \* the page size of the kernel that runs the program
  Bases     \* the addresses mmap may return

SHF_WRITE         == "SHF_WRITE"
SHF_ALLOC         == "SHF_ALLOC"
SHF_EXECINSTR     == "SHF_EXECINSTR"
SHF_RO_AFTER_INIT == "SHF_RO_AFTER_INIT"

Flags == {SHF_WRITE, SHF_ALLOC, SHF_EXECINSTR, SHF_RO_AFTER_INIT}

Header == [flags : SUBSET Flags, nobits : BOOLEAN, size : Nat, align : Nat]

\* Headers are well formed, and the image of an object stays below 2^32
\* bytes, so that no uint32_t of the layout wraps.
ASSUME LayoutAssumption ==
  /\ NSec \in Nat
  /\ Headers \subseteq Header
  /\ MaxStep \in Nat
  /\ \A h \in Headers : h.size + h.align <= MaxStep
  /\ U32 \in Nat
  /\ Split \in Nat \ {0}
  /\ NSec * MaxStep + Split < U32

\* The kernel maps at non-zero page boundaries.
ASSUME MappingAssumption ==
  /\ Page \in Nat \ {0}
  /\ Bases \subseteq Nat \ {0}
  /\ \A b \in Bases : b % Page = 0

VARIABLES
  hdr,        \* hdr[i]: header of section i
  off,        \* off[i]: vsec[i].offset
  layout,     \* mod.get_layout()
  addr,       \* addr[i]: elf.sections[i]->get_address()
  intact,     \* the sections whose bytes are where the image wants them
  protected,  \* length of the prefix of the image mprotect made r-x
  m,          \* the pass of layout_sections
  i,          \* the section index of the loop that runs
  pc          \* which function of load_module runs

vars == <<hdr, off, layout, addr, intact, protected, m, i, pc>>

Sec == 0 .. NSec - 1

\* vsec[i].offset before layout_sections places section i: ~0UL.
None == -1

\* A section that still is where init_section_addr put it, in the mapped file.
InFile == -1

\* layout.base before, or without, a successful mmap.
NULL == 0

Alloc(s) == SHF_ALLOC \in hdr[s].flags

PlacedSections == {s \in Sec : off[s] # None}

Disjoint(lo1, size1, lo2, size2) ==
  lo1 + size1 <= lo2 \/ lo2 + size2 <= lo1

Init ==
  /\ hdr \in [Sec -> Headers]
  /\ off = [s \in Sec |-> None]
  /\ layout = [total_size |-> 0, text_size |-> 0, ro_size |-> 0,
               ro_after_init_size |-> 0, base |-> NULL]
  /\ addr = [s \in Sec |-> InFile]
  /\ intact = {}
  /\ protected = 0
  /\ m = 0
  /\ i = 0
  /\ pc = "layout_sections"

-----------------------------------------------------------------------------
(***************************************************************************)
(* layout_sections                                                         *)
(***************************************************************************)

\* Faulty variant: rounds down.
RoundDown(input, align) == ((input % U32) \div align) * align

\* align_as: the least multiple of align that is not below input, in uint32_t.
AlignAs(input, align) ==
  LET in == input % U32
  IN  IF in % align = 0 THEN in ELSE ((in \div align + 1) * align) % U32

\* Faulty variant: pass 1 takes writable sections too.
MasksWithoutExclusion ==
  [p \in 0 .. 4 |->
     CASE p = 0 -> [all |-> {SHF_EXECINSTR, SHF_ALLOC},     none |-> {}]
       [] p = 2 -> [all |-> {SHF_RO_AFTER_INIT, SHF_ALLOC}, none |-> {}]
       [] p = 3 -> [all |-> {SHF_WRITE, SHF_ALLOC},         none |-> {}]
       [] OTHER -> [all |-> {SHF_ALLOC},                    none |-> {}]]

\* masks[p]: the flags pass p requires and the flags it excludes.
Masks ==
  [p \in 0 .. 4 |->
     CASE p = 0 -> [all |-> {SHF_EXECINSTR, SHF_ALLOC},     none |-> {}]
       [] p = 1 -> [all |-> {SHF_ALLOC},                    none |-> {SHF_WRITE}]
       [] p = 2 -> [all |-> {SHF_RO_AFTER_INIT, SHF_ALLOC}, none |-> {}]
       [] p = 3 -> [all |-> {SHF_WRITE, SHF_ALLOC},         none |-> {}]
       [] p = 4 -> [all |-> {SHF_ALLOC},                    none |-> {}]]

\* Faulty variant: forgets that an earlier pass may have placed the section.
SelectedAgain(p, s) ==
  /\ Masks[p].all \subseteq hdr[s].flags
  /\ Masks[p].none \cap hdr[s].flags = {}

\* Pass p places section s: its flags match and no earlier pass took it.
Selected(p, s) ==
  /\ Masks[p].all \subseteq hdr[s].flags
  /\ Masks[p].none \cap hdr[s].flags = {}
  /\ off[s] = None

\* Faulty variant: does not align.
UnalignedOffset(s) == layout.total_size

\* The offset get_offset returns for section s: total_size, aligned.
OffsetFor(s) ==
  LET align == hdr[s].align % U32
  IN  AlignAs(layout.total_size, IF align = 0 THEN 1 ELSE align)

\* Faulty variant: total_size forgets the size of the section.
PlaceWithoutSize ==
  /\ pc = "layout_sections" /\ i < NSec
  /\ Selected(m, i)
  /\ off' = [off EXCEPT ![i] = OffsetFor(i)]
  /\ layout' = [layout EXCEPT !.total_size = OffsetFor(i)]
  /\ i' = i + 1
  /\ UNCHANGED <<hdr, addr, intact, protected, m, pc>>

PlaceSection ==
  /\ pc = "layout_sections" /\ i < NSec
  /\ Selected(m, i)
  /\ off' = [off EXCEPT ![i] = OffsetFor(i)]
  /\ layout' = [layout EXCEPT !.total_size = OffsetFor(i) + (hdr[i].size % U32)]
  /\ i' = i + 1
  /\ UNCHANGED <<hdr, addr, intact, protected, m, pc>>

\* Faulty variant: continue without the increment of the loop.
SkipForever ==
  /\ pc = "layout_sections" /\ i < NSec
  /\ ~Selected(m, i)
  /\ UNCHANGED vars

SkipSection ==
  /\ pc = "layout_sections" /\ i < NSec
  /\ ~Selected(m, i)
  /\ i' = i + 1
  /\ UNCHANGED <<hdr, off, layout, addr, intact, protected, m, pc>>

\* The switch behind pass p.  debug_align is compiled as the identity.
LayoutAfter(p) ==
  CASE p = 0 -> [layout EXCEPT !.text_size = layout.total_size]
    [] p = 1 -> [layout EXCEPT !.ro_size = layout.total_size]
    [] p = 2 -> LET split == AlignAs(layout.total_size, Split)
                IN  [layout EXCEPT !.total_size = split,
                                   !.ro_after_init_size = split]
    [] OTHER -> layout

EndPass ==
  /\ pc = "layout_sections" /\ i = NSec
  /\ layout' = LayoutAfter(m)
  /\ m' = m + 1
  /\ i' = 0
  /\ pc' = IF m = 4 THEN "move_module" ELSE pc
  /\ UNCHANGED <<hdr, off, addr, intact, protected>>

-----------------------------------------------------------------------------
(***************************************************************************)
(* move_module                                                             *)
(***************************************************************************)

\* mmap and memset: the new image is zero, which is all a SHT_NOBITS section
\* asks for.  The kernel refuses a mapping of length 0.
MapImage ==
  /\ pc = "move_module" /\ layout.total_size > 0
  /\ \E b \in Bases : layout' = [layout EXCEPT !.base = b]
  /\ intact' = {s \in Sec : Alloc(s) /\ hdr[s].nobits}
  /\ pc' = "copy_sections"
  /\ UNCHANGED <<hdr, off, addr, protected, m, i>>

\* mmap fails: move_module returns -1, load_module goes on.
MapFails ==
  /\ pc = "move_module"
  /\ pc' = "mod_protect"
  /\ UNCHANGED <<hdr, off, layout, addr, intact, protected, m, i>>

\* memcpy section s into the image: whatever it overlaps is lost.
CopyOver(s) ==
  {t \in intact : Disjoint(off[t], hdr[t].size, off[s], hdr[s].size)} \cup {s}

CopySection ==
  /\ pc = "copy_sections" /\ i < NSec
  /\ Alloc(i)
  /\ intact' = IF hdr[i].nobits THEN intact ELSE CopyOver(i)
  /\ addr' = [addr EXCEPT ![i] = layout.base + off[i]]
  /\ i' = i + 1
  /\ UNCHANGED <<hdr, off, layout, protected, m, pc>>

SkipCopy ==
  /\ pc = "copy_sections" /\ i < NSec
  /\ ~Alloc(i)
  /\ i' = i + 1
  /\ UNCHANGED <<hdr, off, layout, addr, intact, protected, m, pc>>

EndMove ==
  /\ pc = "copy_sections" /\ i = NSec
  /\ pc' = "mod_protect"
  /\ UNCHANGED <<hdr, off, layout, addr, intact, protected, m, i>>

-----------------------------------------------------------------------------
(***************************************************************************)
(* mod_protect                                                             *)
(***************************************************************************)

\* The kernel works on whole pages.
PageUp(n) == ((n + Page - 1) \div Page) * Page

\* Faulty variant of the length: the code only.
TextOnly == layout.text_size

\* Faulty variant: protects the whole image.
WholeImage == layout.total_size

\* The length mod_protect passes to mprotect.
ProtectLength == layout.ro_after_init_size

\* mprotect succeeds on a mapped image, and on a length of 0.
ProtectImage ==
  /\ pc = "mod_protect"
  /\ layout.base # NULL \/ ProtectLength = 0
  /\ protected' = PageUp(ProtectLength)
  /\ pc' = "mod_init_and_construct"
  /\ UNCHANGED <<hdr, off, layout, addr, intact, m, i>>

\* mprotect fails: mod_protect returns -1, load_module goes on.
ProtectFails ==
  /\ pc = "mod_protect"
  /\ ProtectLength > 0
  /\ pc' = "mod_init_and_construct"
  /\ UNCHANGED <<hdr, off, layout, addr, intact, protected, m, i>>

Next ==
  \/ PlaceSection \/ SkipSection \/ EndPass
  \/ MapImage \/ MapFails \/ CopySection \/ SkipCopy \/ EndMove
  \/ ProtectImage \/ ProtectFails

Spec == Init /\ [][Next]_vars

\* load_module runs on one thread to its end.
FairSpec == Spec /\ WF_vars(Next)

-----------------------------------------------------------------------------
(***************************************************************************)
(* What the layout must achieve                                            *)
(***************************************************************************)

TypeOK ==
  /\ hdr \in [Sec -> Headers]
  /\ off \in [Sec -> Nat \cup {None}]
  /\ layout \in [total_size : Nat, text_size : Nat, ro_size : Nat,
                 ro_after_init_size : Nat, base : Bases \cup {NULL}]
  /\ addr \in [Sec -> Nat \cup {InFile}]
  /\ intact \subseteq Sec
  /\ protected \in Nat
  /\ m \in 0 .. 5
  /\ i \in 0 .. NSec
  /\ pc \in {"layout_sections", "move_module", "copy_sections", "mod_protect",
            "mod_init_and_construct"}

\* No two sections of the image share a byte, in whatever order the five
\* passes of layout_sections took them (module.cpp:123-141).
SectionsDisjoint ==
  \A s, t \in PlacedSections :
    s # t => Disjoint(off[s], hdr[s].size, off[t], hdr[t].size)

Code(s) == Alloc(s) /\ SHF_EXECINSTR \in hdr[s].flags

\* Data the program may write for as long as it runs.
Writable(s) ==
  /\ Alloc(s)
  /\ SHF_WRITE \in hdr[s].flags
  /\ {SHF_EXECINSTR, SHF_RO_AFTER_INIT} \cap hdr[s].flags = {}

Below(s, boundary) == off[s] + hdr[s].size <= boundary

\* The sizes layout_sections tallies (module.cpp:142-159) are boundaries: the
\* sections of the image are the SHF_ALLOC ones, code lies below text_size and
\* nothing else does, and ro_after_init_size divides what is written forever
\* from everything else.
RegionsHold ==
  pc # "layout_sections" =>
    /\ PlacedSections = {s \in Sec : Alloc(s)}
    /\ \A s \in PlacedSections :
         /\ IF Code(s) THEN Below(s, layout.text_size) ELSE layout.text_size <= off[s]
         /\ IF Writable(s) THEN layout.ro_after_init_size <= off[s]
                           ELSE Below(s, layout.ro_after_init_size)
         /\ Below(s, layout.total_size)

Mapped == pc \in {"mod_protect", "mod_init_and_construct"} /\ layout.base # NULL

\* move_module leaves every SHF_ALLOC section whole at its address in the
\* image: no copy runs over a section copied or zeroed before, and none runs
\* past the pages that were mapped (module.cpp:182-203).
ImageIntact ==
  Mapped =>
    \A s \in Sec : Alloc(s) =>
      /\ s \in intact
      /\ addr[s] = layout.base + off[s]
      /\ addr[s] + hdr[s].size <= layout.base + PageUp(layout.total_size)

\* A section that asks for an alignment a page can give gets it in the final
\* address, not only in the offset (module.cpp:138 and 193).
AddressesAligned ==
  Mapped =>
    \A s \in Sec :
      (Alloc(s) /\ hdr[s].align > 0 /\ Page % hdr[s].align = 0)
        => addr[s] % hdr[s].align = 0

Ended == pc = "mod_init_and_construct"

\* "RO and RW split" (module.cpp:151): no byte the program may write lies on a
\* page mod_protect made read-only.
WritableStaysWritable ==
  Ended => \A s \in Sec : Writable(s) => protected <= off[s]

\* When mprotect succeeded, constructors and the entry can run: all code, and
\* all other data that is not written forever, lies on protected pages.
CodeRuns ==
  (Ended /\ Mapped /\ protected > 0) =>
    \A s \in Sec : (Alloc(s) /\ ~Writable(s)) => Below(s, protected)

\* Whatever mmap and mprotect answer, load_module reaches the constructors.
ReachesConstructors == <>(pc = "mod_init_and_construct")

\* layout_sections implements the sealed arena: the blocks are the sections,
\* the break is total_size, and the switch behind pass 2 seals it.
A == INSTANCE Arena WITH
       Block <- Sec,
       Sizes <- Nat,
       Gran  <- Split,
       Limit <- U32,
       size  <- [s \in Sec |-> hdr[s].size],
       lo    <- off,
       brk   <- layout.total_size,
       seal  <- IF m > 2 THEN layout.ro_after_init_size ELSE None

LayoutIsArena == A!ArenaSpec
=============================================================================
