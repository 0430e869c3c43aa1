------------------------------ MODULE Relocate ------------------------------
(***************************************************************************)
(* One object between its layout and its constructors: move_module copies  *)
(* the SHF_ALLOC sections into the image, layout_symbol_addr gives the     *)
(* symbols addresses, relocate_symbol goes over the SHT_RELA sections and  *)
(* has apply_relocate_add write the addresses where the entries say, and   *)
(* mod_protect takes the right to write away (module/module.cpp).          *)
(*                                                                         *)
(* The four share sh_addr, the symbol values and mod.sym_sec_index, and    *)
(* each relies on what the one before it left there.  What an entry writes *)
(* is in Aarch64Reloc and X86Reloc, what an import is bound to in Symbols. *)
(***************************************************************************)
EXTENDS Integers, Sequences

CONSTANTS
  NSec,      \* elf.sections.size()
  Headers    \* the sections an object file may hold

SHT_SYMTAB == "SHT_SYMTAB"
SHT_RELA   == "SHT_RELA"
SHT_OTHER  == "every other type"

Sec == 0 .. NSec - 1

\* Where a symbol is whose st_shndx is the index of no section.
Elsewhere == -1

\* A section: a symbol table has symbols, each known by the section it is
\* defined in; a SHT_RELA section has entries, each known by its symbol, and
\* names the section it is for (sh_info) and its symbol table (sh_link).
Header ==
  [type : {SHT_SYMTAB, SHT_RELA, SHT_OTHER}, alloc : BOOLEAN,
   symbols : Seq((Sec \ {0}) \cup {Elsewhere}), entries : Seq(Nat),
   info : Nat, link : Nat]

\* Section 0 of every object file.
NullHeader ==
  [type |-> SHT_OTHER, alloc |-> FALSE, symbols |-> <<>>, entries |-> <<>>,
   info |-> 0, link |-> 0]

ASSUME RelocateAssumption ==
  /\ NSec \in Nat \ {0}
  /\ Headers \subseteq Header
  /\ NullHeader \in Headers
  /\ \A h \in Headers : h.type # SHT_SYMTAB => h.symbols = <<>>

VARIABLES
  sec,        \* sec[s]: section s
  addr,       \* addr[s]: where sh_addr of section s points
  value,      \* value[s]: the values of the symbols of section s
  symSec,     \* mod.sym_sec_index
  calls,      \* the calls of do_relocate_add, in order
  writable,   \* the image may be written
  i,          \* the section a loop is at
  e,          \* the entries of it apply_relocate_add is done with
  pc          \* which function of load_module runs

vars == <<sec, addr, value, symSec, calls, writable, i, e, pc>>

InFile  == "the mapped file"
InImage == "the image"

\* The value of a symbol: an address in a section of the object, the address
\* of a definition outside of it, or what the file has.
Outside == <<"outside", 0>>
Raw     == <<"as in the file", 0>>
Values  == ({InFile, InImage} \X Sec) \cup {Outside, Raw}

\* A call of do_relocate_add for entry number entry of section rela.
Call ==
  [rela : Sec, entry : Nat \ {0}, target : Sec, loc : {InFile, InImage},
   symbol : Nat \ {0}, val : Values, allowed : BOOLEAN]

\* The order of load_module; variants that call a function too early.
FollowingSymbolsFirst ==
  [start |-> "layout_symbol_addr", layout_symbol_addr |-> "move_module",
   move_module |-> "relocate_symbol", relocate_symbol |-> "mod_protect",
   mod_protect |-> "done"]

FollowingProtectFirst ==
  [start |-> "move_module", move_module |-> "layout_symbol_addr",
   layout_symbol_addr |-> "mod_protect", mod_protect |-> "relocate_symbol",
   relocate_symbol |-> "done"]

Following ==
  [start |-> "move_module", move_module |-> "layout_symbol_addr",
   layout_symbol_addr |-> "relocate_symbol", relocate_symbol |-> "mod_protect",
   mod_protect |-> "done"]

Init ==
  /\ sec \in [Sec -> Headers] /\ sec[0] = NullHeader
  /\ addr = [s \in Sec |-> InFile]
  /\ value = [s \in Sec |-> [y \in DOMAIN sec[s].symbols |-> Raw]]
  /\ symSec = 0
  /\ calls = <<>>
  /\ writable = TRUE
  /\ i = 0 /\ e = 0
  /\ pc = Following["start"]

\* A loop over the sections is at section i, or behind the last one.
At(fn)    == pc = fn /\ i < NSec
Ended(fn) == pc = fn /\ i = NSec

NextSection == i' = i + 1 /\ UNCHANGED pc

Return ==
  /\ pc' = Following[pc]
  /\ i' = 0

-----------------------------------------------------------------------------
(***************************************************************************)
(* move_module                                                             *)
(***************************************************************************)

\* mmap fails before a section is moved: sh_addr stays in the file.
MapFails ==
  /\ At("move_module") /\ i = 0
  /\ Return
  /\ UNCHANGED <<sec, addr, value, symSec, calls, writable, e>>

MoveSection ==
  /\ At("move_module")
  /\ addr' = IF sec[i].alloc THEN [addr EXCEPT ![i] = InImage] ELSE addr
  /\ NextSection
  /\ UNCHANGED <<sec, value, symSec, calls, writable, e>>

EndMove ==
  /\ Ended("move_module")
  /\ Return
  /\ UNCHANGED <<sec, addr, value, symSec, calls, writable, e>>

-----------------------------------------------------------------------------
(***************************************************************************)
(* layout_symbol_addr                                                      *)
(***************************************************************************)

IsTable(s) == sec[s].type = SHT_SYMTAB

SkipTable ==
  /\ At("layout_symbol_addr") /\ ~IsTable(i)
  /\ NextSection
  /\ UNCHANGED <<sec, addr, value, symSec, calls, writable, e>>

\* update_symbol_addr gives symbol y of the table this value: its section's
\* address; or what SysEnv has, nothing, or the address newValue still holds.
Updated(y, v) ==
  LET homes == {sec[i].symbols[x] : x \in DOMAIN sec[i].symbols} \ {Elsewhere}
      home  == sec[i].symbols[y]
  IN  IF home = Elsewhere THEN v \in {Outside, Raw} \cup {<<addr[h], h>> : h \in homes}
      ELSE v = <<addr[home], home>>

UpdateTable ==
  /\ At("layout_symbol_addr") /\ IsTable(i)
  /\ \E found \in [DOMAIN sec[i].symbols -> Values] :
       /\ \A y \in DOMAIN found : Updated(y, found[y])
       /\ value' = [value EXCEPT ![i] = found]
  /\ symSec' = i
  /\ NextSection
  /\ UNCHANGED <<sec, addr, calls, writable, e>>

EndSymbols ==
  /\ Ended("layout_symbol_addr")
  /\ Return
  /\ UNCHANGED <<sec, addr, value, symSec, calls, writable, e>>

-----------------------------------------------------------------------------
(***************************************************************************)
(* relocate_symbol and apply_relocate_add                                  *)
(***************************************************************************)

\* Faulty variant: takes sections without SHF_ALLOC for loaded ones.
AppliesToAll(s) == sec[s].type = SHT_RELA /\ sec[s].info < NSec

\* The relocations of section s are applied: sh_info is the index of a section
\* of the image.
Applies(s) ==
  /\ sec[s].type = SHT_RELA
  /\ sec[s].info < NSec
  /\ sec[sec[s].info].alloc

SkipSection ==
  /\ At("relocate_symbol") /\ ~Applies(i)
  /\ NextSection
  /\ UNCHANGED <<sec, addr, value, symSec, calls, writable, e>>

InEntries == At("relocate_symbol") /\ Applies(i) /\ e < Len(sec[i].entries)

\* get_symbol has no symbol for the entry.
NoSymbol(y) == y \notin DOMAIN value[symSec]

SkipEntry ==
  /\ InEntries /\ NoSymbol(sec[i].entries[e + 1])
  /\ e' = e + 1
  /\ UNCHANGED <<sec, addr, value, symSec, calls, writable, i, pc>>

\* The call of do_relocate_add for the entry.
CallFor(y) ==
  [rela |-> i, entry |-> e + 1, target |-> sec[i].info, loc |-> addr[sec[i].info],
   symbol |-> y, val |-> value[symSec][y], allowed |-> writable]

\* Faulty variant: a relocation that is refused ends the loop.
ApplyEntryOrStop ==
  /\ InEntries
  /\ LET y == sec[i].entries[e + 1]
     IN  ~NoSymbol(y) /\ calls' = Append(calls, CallFor(y))
  /\ e' \in {e + 1, Len(sec[i].entries)}
  /\ UNCHANGED <<sec, addr, value, symSec, writable, i, pc>>

\* Faulty variant: takes the loop index for the symbol's.
ApplyEntryByIndex ==
  /\ InEntries
  /\ LET y == e + 1
     IN  /\ ~NoSymbol(y)
         /\ calls' = Append(calls, [CallFor(y) EXCEPT !.symbol = sec[i].entries[e + 1]])
  /\ e' = e + 1
  /\ UNCHANGED <<sec, addr, value, symSec, writable, i, pc>>

\* do_relocate_add accepts the relocation or refuses it, which is only logged.
ApplyEntry ==
  /\ InEntries
  /\ LET y == sec[i].entries[e + 1]
     IN  ~NoSymbol(y) /\ calls' = Append(calls, CallFor(y))
  /\ e' = e + 1
  /\ UNCHANGED <<sec, addr, value, symSec, writable, i, pc>>

EndEntries ==
  /\ At("relocate_symbol") /\ Applies(i) /\ e = Len(sec[i].entries)
  /\ e' = 0
  /\ NextSection
  /\ UNCHANGED <<sec, addr, value, symSec, calls, writable>>

EndRelocate ==
  /\ Ended("relocate_symbol")
  /\ Return
  /\ UNCHANGED <<sec, addr, value, symSec, calls, writable, e>>

-----------------------------------------------------------------------------

\* mprotect makes the front of the image r-x, or fails.
ModProtect ==
  /\ pc = "mod_protect"
  /\ writable' \in BOOLEAN
  /\ Return
  /\ UNCHANGED <<sec, addr, value, symSec, calls, e>>

Next ==
  \/ MapFails \/ MoveSection \/ EndMove
  \/ SkipTable \/ UpdateTable \/ EndSymbols
  \/ SkipSection \/ SkipEntry \/ ApplyEntry \/ EndEntries \/ EndRelocate
  \/ ModProtect

Spec == Init /\ [][Next]_vars

-----------------------------------------------------------------------------
(***************************************************************************)
(* What the four functions achieve together                                *)
(***************************************************************************)

Calls == DOMAIN calls

TypeOK ==
  /\ sec \in [Sec -> Headers]
  /\ addr \in [Sec -> {InFile, InImage}]
  /\ value \in [Sec -> Seq(Values)]
  /\ \A s \in Sec : DOMAIN value[s] = DOMAIN sec[s].symbols
  /\ symSec \in Sec
  /\ calls \in Seq(Call)
  /\ writable \in BOOLEAN
  /\ i \in 0 .. NSec /\ e \in Nat
  /\ pc \in {"move_module", "layout_symbol_addr", "relocate_symbol", "mod_protect", "done"}

\* An address in a section is where the section is at the end: what was
\* relocated, and what it was relocated to, lie where the code will run, in the
\* image or, without one, both in the file (module.cpp:201, 236, 242, 301, 315).
AddressesAreFinal ==
  \A c \in Calls :
    /\ calls[c].loc = addr[calls[c].target]
    /\ calls[c].val \notin {Outside, Raw} => calls[c].val[1] = addr[calls[c].val[2]]

\* The section entry c of the calls belongs to comes before that of d, or its
\* number does.
Earlier(c, d) ==
  \/ calls[c].rela < calls[d].rela
  \/ calls[c].rela = calls[d].rela /\ calls[c].entry < calls[d].entry

\* No relocation is applied twice or out of order, and none to a section that
\* is not loaded (module.cpp:302-323, 334-357).
CallsInOrder ==
  /\ \A c, d \in Calls : c < d => Earlier(c, d)
  /\ \A c \in Calls : sec[calls[c].target].alloc

\* An object has no more than one symbol table, as the gABI demands.
OneTable == \A s, t \in Sec : IsTable(s) /\ IsTable(t) => s = t

\* The table section s takes its symbols from: by sh_link, if there is only one.
TableFor(s) ==
  LET t == sec[s].link
  IN  IF OneTable /\ t \in Sec /\ IsTable(t) THEN t ELSE symSec

\* The relocations of section s that are due: those whose symbol exists.
Due(s) ==
  {n \in DOMAIN sec[s].entries :
     Applies(s) /\ sec[s].entries[n] \in DOMAIN sec[TableFor(s)].symbols}

\* Whatever was refused before, every relocation that can be applied was when
\* the image is protected (module.cpp:317-323, 338-350).
AllApplied ==
  pc \in {"mod_protect", "done"} =>
    \A s \in Sec : \A n \in Due(s) :
      \E c \in Calls : calls[c].rela = s /\ calls[c].entry = n

\* Nothing is written into the image once it is protected (module.cpp:413-415).
WritesAreAllowed == \A c \in Calls : calls[c].allowed

\* A relocation gets the value its symbol has at the end, and the symbol is one
\* of the table its section is linked to.  sym_sec_index is where
\* layout_symbol_addr left it, whatever sh_link says (module.cpp:279, 331): for
\* an object with one table both are the same.
LinkedSymbolIsUsed ==
  \A c \in Calls :
    LET t == TableFor(calls[c].rela)
    IN  /\ calls[c].symbol = sec[calls[c].rela].entries[calls[c].entry]
        /\ calls[c].symbol \in DOMAIN value[t]
        /\ calls[c].val = value[t][calls[c].symbol]
=============================================================================
