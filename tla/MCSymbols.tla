----------------------------- MODULE MCSymbols ------------------------------
(***************************************************************************)
(* Instances of Symbols for TLC: every kind of symbol once, behind the     *)
(* null symbol, and the pairs of those that meet in SysEnv.                *)
(***************************************************************************)
EXTENDS Symbols

Sy(n, b, t, x) == [name |-> n, bind |-> b, type |-> t, shndx |-> x]

Null == Sy(NoName, STB_LOCAL, STT_OTHER, SHN_UNDEF)

\* The symbols that meet in SysEnv.
Shared ==
  { Sy("f", STB_GLOBAL, STT_OTHER, InSection),
    Sy("f", STB_GLOBAL, STT_OTHER, SHN_UNDEF),
    Sy("Construct", STB_GLOBAL, STT_OTHER, InSection) }

\* The others: a section symbol and an invalid one, a static and a weak
\* definition, a weak import, an import from and a definition against the
\* executable, a common symbol, and one with an index out of range.
Others ==
  { Sy(NoName, STB_LOCAL, STT_SECTION, InSection),
    Sy(NoName, STB_LOCAL, STT_SECTION, SHN_UNDEF),
    Sy("f", STB_LOCAL, STT_OTHER, InSection),
    Sy("f", STB_WEAK, STT_OTHER, InSection),
    Sy("f", STB_WEAK, STT_OTHER, SHN_UNDEF),
    Sy("vprintf", STB_GLOBAL, STT_OTHER, SHN_UNDEF),
    Sy("vprintf", STB_GLOBAL, STT_OTHER, InSection),
    Sy("f", STB_GLOBAL, STT_OTHER, Reserved),
    Sy("f", STB_GLOBAL, STT_OTHER, BadIndex) }

MCTables ==
  { <<>> }
    \cup { <<Null, s>> : s \in Shared \cup Others }
    \cup { <<Null, s, t>> : s \in Shared, t \in Shared }

MCNames == {NoName, "f", "Construct", "vprintf"}

MCHost == {"vprintf"}

\* What no symbol of the objects has as its address.
MCGarbage == { <<-3, 0>> }
=============================================================================
