--------------------------- MODULE RelocateProofs ---------------------------
(***************************************************************************)
(* Relocation of an object with any number of sections, symbol tables,     *)
(* relocation sections and entries, whatever the kernel and                *)
(* do_relocate_add refuse.                                                 *)
(***************************************************************************)
EXTENDS Relocate, TLAPS

\* The functions before and after the loop over the relocations.
Before == {"move_module", "layout_symbol_addr"}
Later    == {"mod_protect", "done"}

\* layout_symbol_addr has come past section t, relocate_symbol past section s.
TableSeen(t)  == pc \in {"relocate_symbol"} \cup Later \/ (pc = "layout_symbol_addr" /\ t < i)
EntrySeen(s, x) ==
  \/ pc \in Later
  \/ pc = "relocate_symbol" /\ (s < i \/ (s = i /\ x <= e))

\* Before the relocations nothing is written, and everything may be.
NothingYet ==
  /\ pc \in Before => calls = <<>>
  /\ pc \notin Later => writable
  /\ pc = "move_module" => \A t \in Sec : \A y \in DOMAIN value[t] : value[t][y] = Raw

\* e counts entries of a section that is being applied.
EntryIndex ==
  e # 0 => /\ pc = "relocate_symbol" /\ i < NSec
           /\ Applies(i) /\ e <= Len(sec[i].entries)

\* Symbols have final addresses as soon as they have addresses.
ValuesAreFinal ==
  \A t \in Sec : \A y \in DOMAIN value[t] :
    value[t][y] \notin {Outside, Raw} => value[t][y][1] = addr[value[t][y][2]]

\* sym_sec_index is a symbol table as soon as one was seen.
TableIsRemembered ==
  \A t \in Sec : IsTable(t) /\ TableSeen(t) => IsTable(symSec)

\* What a call was made from is still there.
CallIsRight(call) ==
  /\ call.rela \in Sec /\ Applies(call.rela)
  /\ call.target = sec[call.rela].info
  /\ call.entry \in DOMAIN sec[call.rela].entries
  /\ call.symbol = sec[call.rela].entries[call.entry]
  /\ call.symbol \in DOMAIN value[symSec]
  /\ call.val = value[symSec][call.symbol]
  /\ call.loc = addr[call.target]
  /\ call.allowed
  /\ EntrySeen(call.rela, call.entry)

CallsAreRight == \A c \in Calls : CallIsRight(calls[c])

Ordered == \A c, d \in Calls : c < d => Earlier(c, d)

\* The relocations the loops have come past were applied.
SeenAreApplied ==
  \A s \in Sec : \A x \in DOMAIN sec[s].entries :
    (Applies(s) /\ sec[s].entries[x] \in DOMAIN value[symSec] /\ EntrySeen(s, x))
      => \E c \in Calls : calls[c].rela = s /\ calls[c].entry = x

RelocateInv ==
  /\ TypeOK
  /\ NothingYet
  /\ EntryIndex
  /\ ValuesAreFinal
  /\ TableIsRemembered
  /\ CallsAreRight
  /\ Ordered
  /\ SeenAreApplied

-----------------------------------------------------------------------------
(***************************************************************************)
(* Sections and tables                                                     *)
(***************************************************************************)

LEMMA HeaderTypes ==
  ASSUME TypeOK, NEW s \in Sec
  PROVE  /\ sec[s] \in Header /\ sec[s].alloc \in BOOLEAN
         /\ sec[s].symbols \in Seq((Sec \ {0}) \cup {Elsewhere})
         /\ sec[s].entries \in Seq(Nat) /\ Len(sec[s].entries) \in Nat
         /\ DOMAIN sec[s].entries = 1 .. Len(sec[s].entries)
         /\ sec[s].info \in Nat /\ sec[s].link \in Nat
<1>1. sec[s] \in Header
  BY RelocateAssumption DEF TypeOK
<1>2. QED
  BY <1>1 DEF Header

LEMMA SectionNumbers ==
  /\ NSec \in Nat \ {0} /\ 0 \in Sec /\ Sec \subseteq Nat
  /\ \A s \in Nat : s \in Sec <=> s < NSec
BY RelocateAssumption DEF Sec

LEMMA ValuesDiffer ==
  /\ Raw \in Values /\ Outside \in Values /\ Raw # Outside
  /\ \A v \in Values : v \notin {Outside, Raw} => v[1] \in {InFile, InImage} /\ v[2] \in Sec
BY DEF Values, Raw, Outside, InFile, InImage

\* The sections never change, and what is said about them alone never does.
LEMMA SectionsStay ==
  ASSUME sec' = sec
  PROVE  /\ \A s : IsTable(s)' <=> IsTable(s)
         /\ \A s : Applies(s)' <=> Applies(s)
         /\ OneTable' <=> OneTable
BY DEF IsTable, Applies, OneTable

LEMMA CallTypes ==
  ASSUME TypeOK
  PROVE  /\ calls \in Seq(Call) /\ Len(calls) \in Nat /\ Calls = 1 .. Len(calls)
         /\ \A c \in Calls : calls[c] \in Call
BY DEF TypeOK, Calls

-----------------------------------------------------------------------------
(***************************************************************************)
(* The invariant                                                           *)
(***************************************************************************)

LEMMA InitInv == Init => RelocateInv
<1> SUFFICES ASSUME Init PROVE RelocateInv
  OBVIOUS
<1>1. /\ sec \in [Sec -> Headers] /\ addr = [s \in Sec |-> InFile]
      /\ value = [s \in Sec |-> [y \in DOMAIN sec[s].symbols |-> Raw]]
      /\ symSec = 0 /\ calls = <<>> /\ writable = TRUE /\ i = 0 /\ e = 0
      /\ pc = "move_module"
  BY DEF Init, Following
<1>2. \A s \in Sec : sec[s].symbols \in Seq((Sec \ {0}) \cup {Elsewhere})
  BY <1>1, RelocateAssumption DEF Header
<1>3. \A s \in Sec :
        /\ value[s] \in Seq(Values)
        /\ DOMAIN value[s] = DOMAIN sec[s].symbols
        /\ \A y \in DOMAIN value[s] : value[s][y] = Raw
  <2> SUFFICES ASSUME NEW s \in Sec
               PROVE  /\ value[s] \in Seq(Values)
                      /\ DOMAIN value[s] = DOMAIN sec[s].symbols
                      /\ \A y \in DOMAIN value[s] : value[s][y] = Raw
    OBVIOUS
  <2>1. value[s] = [y \in 1 .. Len(sec[s].symbols) |-> Raw] /\ Len(sec[s].symbols) \in Nat
    BY <1>1, <1>2
  <2>2. QED
    BY <1>2, <2>1, ValuesDiffer
<1>4. TypeOK
  BY <1>1, <1>3, SectionNumbers DEF TypeOK
<1>5. Calls = {}
  BY <1>1 DEF Calls
<1>6. QED
  BY <1>1, <1>3, <1>4, <1>5
     DEF RelocateInv, NothingYet, EntryIndex, ValuesAreFinal, TableIsRemembered,
         CallsAreRight, Ordered, SeenAreApplied, EntrySeen, TableSeen, Later, Before

\* Before the relocations: the steps of move_module and layout_symbol_addr and
\* the one to relocate_symbol.  No call was made.
LEMMA BeforeCalls ==
  ASSUME RelocateInv, pc \in Before, TypeOK', sec' = sec,
         calls' = calls, writable' = writable, e' = e,
         pc' \in Before \/ (pc' = "relocate_symbol" /\ i' = 0),
         pc' = "move_module" => \A t \in Sec : \A y \in DOMAIN value'[t] : value'[t][y] = Raw
  PROVE  /\ NothingYet' /\ EntryIndex' /\ CallsAreRight' /\ Ordered' /\ SeenAreApplied'
<1>1. calls = <<>> /\ writable /\ e = 0 /\ Calls' = {}
  BY DEF RelocateInv, NothingYet, EntryIndex, Before, Later, Calls
<1>2. NothingYet' /\ EntryIndex'
  BY <1>1 DEF NothingYet, EntryIndex, Before, Later
<1>3. CallsAreRight' /\ Ordered'
  BY <1>1 DEF CallsAreRight, Ordered
<1>4. \A t \in Sec : \A x \in DOMAIN sec[t].entries : ~EntrySeen(t, x)'
  BY <1>1, HeaderTypes, SectionNumbers DEF EntrySeen, Before, Later, RelocateInv
<1>5. SeenAreApplied'
  BY <1>4 DEF SeenAreApplied
<1>6. QED
  BY <1>2, <1>3, <1>5

LEMMA MoveInv ==
  ASSUME RelocateInv, MapFails \/ MoveSection \/ EndMove
  PROVE  RelocateInv'
<1>1. /\ pc = "move_module" /\ pc' \in Before
      /\ sec' = sec /\ value' = value /\ symSec' = symSec /\ calls' = calls
      /\ writable' = writable /\ e' = e
      /\ pc' = "move_module" => i' = i + 1 /\ i < NSec
      /\ pc' # "move_module" => i' = 0
      /\ addr' = addr \/ addr' = [addr EXCEPT ![i] = InImage]
  BY DEF MapFails, MoveSection, EndMove, At, Ended, Return, NextSection, Following, Before
<1>2. TypeOK'
  <2>1. addr' \in [Sec -> {InFile, InImage}]
    BY <1>1 DEF RelocateInv, TypeOK
  <2>2. i' \in 0 .. NSec /\ pc' \in Before
    BY <1>1, SectionNumbers DEF RelocateInv, TypeOK, Before
  <2>3. QED
    BY <1>1, <2>1, <2>2 DEF RelocateInv, TypeOK, Before
<1>3. \A t \in Sec : \A y \in DOMAIN value[t] : value[t][y] = Raw
  BY <1>1 DEF RelocateInv, NothingYet
<1>4. ValuesAreFinal'
  BY <1>1, <1>3 DEF ValuesAreFinal
<1>5. TableIsRemembered'
  BY <1>1, SectionNumbers DEF TableIsRemembered, TableSeen, Before, Later
<1>6. NothingYet' /\ EntryIndex' /\ CallsAreRight' /\ Ordered' /\ SeenAreApplied'
  BY <1>1, <1>2, <1>3, BeforeCalls DEF Before
<1>7. QED
  BY <1>2, <1>4, <1>5, <1>6 DEF RelocateInv

LEMMA TablesInv ==
  ASSUME RelocateInv, SkipTable \/ EndSymbols
  PROVE  RelocateInv'
<1>1. /\ pc = "layout_symbol_addr"
      /\ UNCHANGED <<sec, addr, value, symSec, calls, writable, e>>
      /\ \/ pc' = pc /\ i' = i + 1 /\ i < NSec /\ ~IsTable(i)
         \/ pc' = "relocate_symbol" /\ i' = 0 /\ i = NSec
  BY DEF SkipTable, EndSymbols, At, Ended, Return, NextSection, Following
<1>2. TypeOK'
  BY <1>1, SectionNumbers DEF RelocateInv, TypeOK
<1>3. ValuesAreFinal'
  BY <1>1 DEF RelocateInv, ValuesAreFinal
<1>4. TableIsRemembered'
  <2>1. \A t \in Sec : IsTable(t) /\ TableSeen(t)' => TableSeen(t)
    BY <1>1, SectionNumbers DEF TableSeen, Later, RelocateInv, TypeOK
  <2>2. QED
    BY <1>1, <2>1, SectionsStay DEF RelocateInv, TableIsRemembered
<1>5. NothingYet' /\ EntryIndex' /\ CallsAreRight' /\ Ordered' /\ SeenAreApplied'
  BY <1>1, <1>2, BeforeCalls DEF Before
<1>6. QED
  BY <1>2, <1>3, <1>4, <1>5 DEF RelocateInv

LEMMA UpdateInv ==
  ASSUME RelocateInv, UpdateTable
  PROVE  RelocateInv'
<1>1. /\ pc = "layout_symbol_addr" /\ pc' = pc /\ i < NSec /\ i' = i + 1
      /\ IsTable(i) /\ symSec' = i
      /\ UNCHANGED <<sec, addr, calls, writable, e>>
  BY DEF UpdateTable, At, NextSection
<1>2. PICK found \in [DOMAIN sec[i].symbols -> Values] :
        /\ \A y \in DOMAIN found : Updated(y, found[y])
        /\ value' = [value EXCEPT ![i] = found]
  BY DEF UpdateTable
<1>3. i \in Sec /\ i \in Nat /\ value \in [Sec -> Seq(Values)]
  BY <1>1, SectionNumbers DEF RelocateInv, TypeOK
<1>4. found \in Seq(Values) /\ DOMAIN found = DOMAIN sec[i].symbols
  <2>1. DOMAIN sec[i].symbols = 1 .. Len(sec[i].symbols) /\ Len(sec[i].symbols) \in Nat
    BY <1>3, HeaderTypes DEF RelocateInv
  <2>2. QED
    BY <1>2, <2>1
<1>5. value' \in [Sec -> Seq(Values)] /\ value'[i] = found
      /\ \A t \in Sec : t # i => value'[t] = value[t]
  BY <1>2, <1>3, <1>4
<1>6. TypeOK'
  BY <1>1, <1>3, <1>4, <1>5, SectionNumbers DEF RelocateInv, TypeOK
<1>7. \A y \in DOMAIN found : found[y] \notin {Outside, Raw} => found[y][1] = addr[found[y][2]]
  <2> SUFFICES ASSUME NEW y \in DOMAIN found, found[y] \notin {Outside, Raw}
               PROVE  \E h : found[y] = <<addr[h], h>>
    OBVIOUS
  <2>1. QED
    BY <1>2 DEF Updated
<1>8. ValuesAreFinal'
  BY <1>1, <1>5, <1>7 DEF RelocateInv, ValuesAreFinal
<1>9. TableIsRemembered'
  BY <1>1, SectionsStay DEF TableIsRemembered
<1>10. NothingYet' /\ EntryIndex' /\ CallsAreRight' /\ Ordered' /\ SeenAreApplied'
  BY <1>1, <1>6, BeforeCalls DEF Before
<1>11. QED
  BY <1>6, <1>8, <1>9, <1>10 DEF RelocateInv

\* From relocate_symbol on only calls are added: what was true of the symbols
\* stays true, and the calls there are stay right.
LEMMA SymbolsStay ==
  ASSUME RelocateInv, UNCHANGED <<sec, addr, value, symSec>>,
         pc = "relocate_symbol" \/ pc \in Later, pc' = "relocate_symbol" \/ pc' \in Later
  PROVE  /\ ValuesAreFinal' /\ TableIsRemembered'
         /\ \A call : /\ CallIsRight(call) => EntrySeen(call.rela, call.entry)
                      /\ CallIsRight(call) /\ EntrySeen(call.rela, call.entry)' => CallIsRight(call)'
<1>1. ValuesAreFinal'
  BY DEF RelocateInv, ValuesAreFinal
<1>2. TableIsRemembered'
  BY SectionsStay DEF RelocateInv, TableIsRemembered, TableSeen, Later
<1>3. \A call : /\ CallIsRight(call) => EntrySeen(call.rela, call.entry)
                /\ CallIsRight(call) /\ EntrySeen(call.rela, call.entry)' => CallIsRight(call)'
  BY SectionsStay DEF CallIsRight
<1>4. QED
  BY <1>1, <1>2, <1>3

LEMMA SkipInv ==
  ASSUME RelocateInv, SkipSection \/ SkipEntry \/ EndEntries
  PROVE  RelocateInv'
<1>1. /\ pc = "relocate_symbol" /\ pc' = pc /\ i < NSec /\ i \in Sec /\ i \in Nat /\ e \in Nat
      /\ UNCHANGED <<sec, addr, value, symSec, calls, writable>>
      /\ \/ ~Applies(i) /\ i' = i + 1 /\ e' = e
         \/ /\ Applies(i) /\ i' = i /\ e' = e + 1 /\ e < Len(sec[i].entries)
            /\ sec[i].entries[e + 1] \notin DOMAIN value[symSec]
         \/ Applies(i) /\ i' = i + 1 /\ e' = 0 /\ e = Len(sec[i].entries)
  BY SectionNumbers
     DEF SkipSection, SkipEntry, EndEntries, InEntries, NoSymbol, At, NextSection,
         RelocateInv, TypeOK
<1>2. Len(sec[i].entries) \in Nat /\ DOMAIN sec[i].entries = 1 .. Len(sec[i].entries)
  BY <1>1, HeaderTypes DEF RelocateInv
<1>3. TypeOK'
  BY <1>1, SectionNumbers DEF RelocateInv, TypeOK
<1>4. ~Applies(i) => e = 0
  BY <1>1 DEF RelocateInv, EntryIndex
<1>5. EntryIndex'
  BY <1>1, <1>2, <1>4, SectionsStay DEF EntryIndex
<1>6. NothingYet'
  BY <1>1 DEF RelocateInv, NothingYet, Before, Later
<1>7. ValuesAreFinal' /\ TableIsRemembered'
  BY <1>1, SymbolsStay
<1>8. \A s \in Sec : \A x \in DOMAIN sec[s].entries : EntrySeen(s, x) => EntrySeen(s, x)'
  BY <1>1, <1>4, SectionNumbers, HeaderTypes DEF EntrySeen, Later, RelocateInv
<1>9. CallsAreRight'
  <2> SUFFICES ASSUME NEW c \in Calls PROVE CallIsRight(calls[c])'
    BY <1>1 DEF CallsAreRight, Calls
  <2>1. CallIsRight(calls[c]) /\ EntrySeen(calls[c].rela, calls[c].entry)'
    BY <1>1, <1>8 DEF RelocateInv, CallsAreRight, CallIsRight
  <2>2. calls'[c] = calls[c]
    BY <1>1
  <2>3. CallIsRight(calls[c])'
    BY <1>1, <2>1, <2>2, SectionsStay DEF CallIsRight
  <2>4. QED
    BY <2>3
<1>10. Ordered'
  BY <1>1 DEF RelocateInv, Ordered, Calls, Earlier
<1>11. SeenAreApplied'
  <2> SUFFICES ASSUME NEW s \in Sec, NEW x \in DOMAIN sec[s].entries,
                      Applies(s), sec[s].entries[x] \in DOMAIN value[symSec], EntrySeen(s, x)'
               PROVE  \E c \in Calls : calls[c].rela = s /\ calls[c].entry = x
    BY <1>1, SectionsStay DEF SeenAreApplied, Calls
  <2>1. s \in Nat /\ x \in Nat /\ 1 <= x /\ x <= Len(sec[s].entries)
    BY SectionNumbers, HeaderTypes DEF RelocateInv
  <2>2. s < i' \/ (s = i' /\ x <= e')
    BY <1>1, <2>1 DEF EntrySeen, Later
  <2>3. s < i \/ (s = i /\ x <= e)
    <3>1. CASE ~Applies(i)
      BY <1>1, <1>4, <2>1, <2>2, <3>1
    <3>2. CASE Applies(i) /\ e' = e + 1
      BY <1>1, <2>1, <2>2, <3>2
    <3>3. CASE Applies(i) /\ e = Len(sec[i].entries)
      BY <1>1, <2>1, <2>2, <3>3
    <3>4. QED
      BY <1>1, <3>1, <3>2, <3>3
  <2>4. QED
    BY <1>1, <2>3 DEF RelocateInv, SeenAreApplied, EntrySeen
<1>12. QED
  BY <1>3, <1>5, <1>6, <1>7, <1>9, <1>10, <1>11 DEF RelocateInv

LEMMA ApplyInv ==
  ASSUME RelocateInv, ApplyEntry
  PROVE  RelocateInv'
<1> DEFINE y == sec[i].entries[e + 1]
<1>0. PICK call, last : call = CallFor(y) /\ last = Len(calls) + 1
  OBVIOUS
<1>1. /\ pc = "relocate_symbol" /\ pc' = pc /\ i' = i /\ i \in Sec /\ i \in Nat /\ e \in Nat
      /\ i < NSec /\ e' = e + 1 /\ e < Len(sec[i].entries) /\ Applies(i)
      /\ UNCHANGED <<sec, addr, value, symSec, writable>>
      /\ y \in DOMAIN value[symSec] /\ writable
      /\ calls' = Append(calls, call)
  BY <1>0, SectionNumbers
     DEF ApplyEntry, InEntries, NoSymbol, At, RelocateInv, TypeOK, NothingYet, Later
<1>2. /\ Len(sec[i].entries) \in Nat /\ DOMAIN sec[i].entries = 1 .. Len(sec[i].entries)
      /\ y \in Nat /\ sec[i].info \in Sec
  BY <1>1, HeaderTypes, SectionNumbers DEF RelocateInv, Applies
<1>3. /\ value[symSec] \in Seq(Values) /\ y \in Nat \ {0} /\ value[symSec][y] \in Values
      /\ addr[sec[i].info] \in {InFile, InImage}
  <2>1. value[symSec] \in Seq(Values) /\ addr[sec[i].info] \in {InFile, InImage}
    BY <1>2 DEF RelocateInv, TypeOK
  <2>2. DOMAIN value[symSec] = 1 .. Len(value[symSec]) /\ Len(value[symSec]) \in Nat
    BY <2>1
  <2>3. QED
    BY <1>1, <2>1, <2>2
<1>4. call = [rela |-> i, entry |-> e + 1, target |-> sec[i].info, loc |-> addr[sec[i].info],
              symbol |-> y, val |-> value[symSec][y], allowed |-> writable]
  BY <1>0 DEF CallFor
<1>5. call \in Call
  BY <1>1, <1>2, <1>3, <1>4 DEF Call
<1>6. /\ Calls' = Calls \cup {last} /\ last \in Nat /\ \A c \in Calls : c \in Nat /\ c < last
      /\ calls'[last] = call
      /\ \A c \in Calls : calls'[c] = calls[c]
      /\ calls' \in Seq(Call)
  BY <1>0, <1>1, <1>5, CallTypes DEF RelocateInv, Calls
<1>7. TypeOK'
  BY <1>1, <1>6 DEF RelocateInv, TypeOK
<1>8. NothingYet' /\ EntryIndex'
  BY <1>1, <1>2, SectionsStay DEF RelocateInv, NothingYet, EntryIndex, Before, Later
<1>9. ValuesAreFinal' /\ TableIsRemembered'
  BY <1>1, SymbolsStay
<1>10. \A s \in Sec : \A x \in DOMAIN sec[s].entries :
         EntrySeen(s, x)' <=> EntrySeen(s, x) \/ (s = i /\ x = e + 1)
  <2> SUFFICES ASSUME NEW s \in Sec, NEW x \in DOMAIN sec[s].entries
               PROVE  EntrySeen(s, x)' <=> EntrySeen(s, x) \/ (s = i /\ x = e + 1)
    OBVIOUS
  <2>1. s \in Nat /\ x \in Nat
    BY HeaderTypes, SectionNumbers DEF RelocateInv
  <2>2. QED
    BY <1>1, <2>1 DEF EntrySeen, Later
<1>11. CallsAreRight'
  <2>1. CallIsRight(call)'
    BY <1>1, <1>2, <1>3, <1>4, <1>10, SectionsStay DEF CallIsRight
  <2>2. ASSUME NEW c \in Calls PROVE CallIsRight(calls[c])'
    <3>1. CallIsRight(calls[c]) /\ calls'[c] = calls[c]
      BY <1>6 DEF RelocateInv, CallsAreRight
    <3>2. EntrySeen(calls[c].rela, calls[c].entry)'
      BY <1>10, <3>1 DEF CallIsRight
    <3>3. QED
      BY <1>1, <3>1, <3>2, SectionsStay DEF CallIsRight
  <2>3. QED
    BY <1>6, <2>1, <2>2 DEF CallsAreRight
<1>12. Ordered'
  <2>1. ASSUME NEW c \in Calls
        PROVE  calls[c].rela < i \/ (calls[c].rela = i /\ calls[c].entry < e + 1)
    <3>1. CallIsRight(calls[c])
      BY DEF RelocateInv, CallsAreRight
    <3>2. calls[c].entry \in Nat
      BY <3>1, HeaderTypes DEF RelocateInv, CallIsRight
    <3>3. QED
      BY <1>1, <3>1, <3>2 DEF CallIsRight, EntrySeen, Later
  <2>2. \A c \in Calls : Earlier(c, last)'
    BY <1>4, <1>6, <2>1 DEF Earlier
  <2>3. \A c, d \in Calls : Earlier(c, d) => Earlier(c, d)'
    BY <1>6 DEF Earlier
  <2>4. QED
    BY <1>6, <2>2, <2>3 DEF RelocateInv, Ordered
<1>13. SeenAreApplied'
  <2> SUFFICES ASSUME NEW s \in Sec, NEW x \in DOMAIN sec[s].entries,
                      Applies(s), sec[s].entries[x] \in DOMAIN value[symSec], EntrySeen(s, x)'
               PROVE  \E c \in Calls' : calls'[c].rela = s /\ calls'[c].entry = x
    BY <1>1, SectionsStay DEF SeenAreApplied
  <2>1. CASE EntrySeen(s, x)
    BY <1>6, <2>1 DEF RelocateInv, SeenAreApplied
  <2>2. CASE s = i /\ x = e + 1
    BY <1>4, <1>6, <2>2
  <2>3. QED
    BY <1>10, <2>1, <2>2
<1>14. QED
  BY <1>7, <1>8, <1>9, <1>11, <1>12, <1>13 DEF RelocateInv

LEMMA EndInv ==
  ASSUME RelocateInv, EndRelocate \/ ModProtect
  PROVE  RelocateInv'
<1>1. /\ UNCHANGED <<sec, addr, value, symSec, calls, e>>
      /\ i' = 0 /\ pc' \in Later /\ writable' \in BOOLEAN
      /\ pc = "mod_protect" \/ (pc = "relocate_symbol" /\ i = NSec)
  BY DEF EndRelocate, ModProtect, Ended, Return, Following, Later, RelocateInv, TypeOK
<1>2. TypeOK'
  BY <1>1, SectionNumbers DEF RelocateInv, TypeOK, Later
<1>3. NothingYet' /\ EntryIndex'
  BY <1>1, SectionNumbers DEF RelocateInv, NothingYet, EntryIndex, Before, Later
<1>4. ValuesAreFinal' /\ TableIsRemembered'
  BY <1>1, SymbolsStay DEF Later
<1>5. CallsAreRight'
  BY <1>1, SectionsStay DEF RelocateInv, CallsAreRight, CallIsRight, Calls, EntrySeen
<1>6. Ordered'
  BY <1>1 DEF RelocateInv, Ordered, Calls, Earlier
<1>7. \A s \in Sec : \A x : EntrySeen(s, x)
  BY <1>1, SectionNumbers DEF EntrySeen, Later
<1>8. SeenAreApplied'
  BY <1>1, <1>7, SectionsStay DEF RelocateInv, SeenAreApplied, Calls
<1>9. QED
  BY <1>2, <1>3, <1>4, <1>5, <1>6, <1>8 DEF RelocateInv

LEMMA StutterInv == RelocateInv /\ UNCHANGED vars => RelocateInv'
BY DEF vars, RelocateInv, TypeOK, NothingYet, EntryIndex, ValuesAreFinal, TableIsRemembered,
       CallsAreRight, CallIsRight, Ordered, SeenAreApplied, Calls, Earlier, EntrySeen,
       TableSeen, IsTable, Applies

LEMMA NextInv == RelocateInv /\ [Next]_vars => RelocateInv'
BY MoveInv, TablesInv, UpdateInv, SkipInv, ApplyInv, EndInv, StutterInv DEF Next

LEMMA RelocateInvHolds == Spec => []RelocateInv
BY InitInv, NextInv, PTL DEF Spec

-----------------------------------------------------------------------------
(***************************************************************************)
(* The properties                                                          *)
(***************************************************************************)

\* When a call has been made, the table its section is linked to, if it is the
\* only one, is the one the values came from.
LEMMA TableIsLinked ==
  ASSUME RelocateInv, pc = "relocate_symbol" \/ pc \in Later, NEW s \in Sec
  PROVE  TableFor(s) = symSec
<1>1. \A t \in Sec : IsTable(t) => IsTable(symSec)
  BY DEF RelocateInv, TableIsRemembered, TableSeen
<1>2. symSec \in Sec
  BY DEF RelocateInv, TypeOK
<1>3. QED
  BY <1>1, <1>2 DEF TableFor, OneTable

LEMMA CallsComeLate ==
  ASSUME RelocateInv, Calls # {}
  PROVE  pc = "relocate_symbol" \/ pc \in Later
BY DEF RelocateInv, TypeOK, NothingYet, Calls, Before, Later

\* Type correctness of Relocate.
THEOREM RelocateTypeCorrect == Spec => []TypeOK
<1>1. RelocateInv => TypeOK
  BY DEF RelocateInv
<1>2. QED
  BY <1>1, RelocateInvHolds, PTL

\* What is relocated and what it is relocated to lie where the code runs
\* (module.cpp:201, 236, 242, 301, 315).
THEOREM RelocatedIsFinal == Spec => []AddressesAreFinal
<1>1. RelocateInv => AddressesAreFinal
  <2> SUFFICES ASSUME RelocateInv, NEW c \in Calls
               PROVE  /\ calls[c].loc = addr[calls[c].target]
                      /\ calls[c].val \notin {Outside, Raw} =>
                           calls[c].val[1] = addr[calls[c].val[2]]
    BY DEF AddressesAreFinal
  <2>1. CallIsRight(calls[c]) /\ symSec \in Sec
    BY DEF RelocateInv, CallsAreRight, TypeOK
  <2>2. calls[c].symbol \in DOMAIN value[symSec] /\ calls[c].val = value[symSec][calls[c].symbol]
    BY <2>1 DEF CallIsRight
  <2>3. calls[c].val \notin {Outside, Raw} => calls[c].val[1] = addr[calls[c].val[2]]
    BY <2>1, <2>2 DEF RelocateInv, ValuesAreFinal
  <2>4. QED
    BY <2>1, <2>3 DEF CallIsRight
<1>2. QED
  BY <1>1, RelocateInvHolds, PTL

\* No relocation is applied twice, out of order or to a section that is not
\* loaded (module.cpp:302-323, 334-357).
THEOREM RelocatedInOrder == Spec => []CallsInOrder
<1>1. RelocateInv => CallsInOrder
  BY DEF RelocateInv, CallsInOrder, Ordered, CallsAreRight, CallIsRight, Applies
<1>2. QED
  BY <1>1, RelocateInvHolds, PTL

\* Every relocation that is due was applied before the image is protected,
\* whatever was refused (module.cpp:317-323, 338-350).
THEOREM RelocatedAll == Spec => []AllApplied
<1>1. RelocateInv => AllApplied
  <2> SUFFICES ASSUME RelocateInv, pc \in Later, NEW s \in Sec, NEW x \in Due(s)
               PROVE  \E c \in Calls : calls[c].rela = s /\ calls[c].entry = x
    BY DEF AllApplied, Later
  <2>1. TableFor(s) = symSec /\ DOMAIN value[symSec] = DOMAIN sec[symSec].symbols
    BY TableIsLinked DEF RelocateInv, TypeOK
  <2>2. x \in DOMAIN sec[s].entries /\ Applies(s) /\ sec[s].entries[x] \in DOMAIN value[symSec]
    BY <2>1 DEF Due
  <2>3. QED
    BY <2>2 DEF RelocateInv, SeenAreApplied, EntrySeen
<1>2. QED
  BY <1>1, RelocateInvHolds, PTL

\* Nothing is written after mod_protect (module.cpp:413-415).
THEOREM RelocatedWhileWritable == Spec => []WritesAreAllowed
<1>1. RelocateInv => WritesAreAllowed
  BY DEF RelocateInv, WritesAreAllowed, CallsAreRight, CallIsRight
<1>2. QED
  BY <1>1, RelocateInvHolds, PTL

\* A relocation gets the final value of its symbol in the table it is linked to
\* (module.cpp:279, 331).
THEOREM RelocatedToLinked == Spec => []LinkedSymbolIsUsed
<1>1. RelocateInv => LinkedSymbolIsUsed
  <2> SUFFICES ASSUME RelocateInv, NEW c \in Calls, NEW t, t = TableFor(calls[c].rela)
               PROVE  /\ calls[c].symbol = sec[calls[c].rela].entries[calls[c].entry]
                      /\ calls[c].symbol \in DOMAIN value[t]
                      /\ calls[c].val = value[t][calls[c].symbol]
    BY DEF LinkedSymbolIsUsed
  <2>1. CallIsRight(calls[c])
    BY DEF RelocateInv, CallsAreRight
  <2>2. t = symSec
    BY <2>1, CallsComeLate, TableIsLinked DEF CallIsRight
  <2>3. QED
    BY <2>1, <2>2 DEF CallIsRight
<1>2. QED
  BY <1>1, RelocateInvHolds, PTL
=============================================================================
