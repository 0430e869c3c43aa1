------------------------------ MODULE Symbols -------------------------------
(***************************************************************************)
(* Symbol resolution.  load_module calls layout_symbol_addr for one object *)
(* after the other; for each object update_symbol_addr (module/module.cpp) *)
(* walks over the symbol table and overwrites the value of every symbol by *)
(* an address.  The global definitions it meets go to SysEnv               *)
(* (include/module.h), where the undefined symbols of later objects find   *)
(* them.                                                                   *)
(*                                                                         *)
(* An address is the definition it belongs to; see At and HostAddress.     *)
(***************************************************************************)
EXTENDS Integers, Sequences

CONSTANTS
  NMod,      \* the number of objects on the command line
  Names,     \* the names symbols have
  Tables,    \* the symbol tables an object may have
  MaxSym,    \* no table is longer
  Host,      \* the names the executable registers before main
  Garbage    \* what the stack may hold where newValue lives

STB_LOCAL   == "STB_LOCAL"
STB_GLOBAL  == "STB_GLOBAL"
STB_WEAK    == "STB_WEAK"
STT_SECTION == "STT_SECTION"
STT_OTHER   == "every type but STT_SECTION"

\* What section_index may be: SHN_UNDEF, the index of a section, an index below
\* SHN_LORESERVE that is too large, or SHN_LORESERVE and above (SHN_ABS,
\* SHN_COMMON).
SHN_UNDEF   == "SHN_UNDEF"
InSection   == "below section_num"
BadIndex    == "section_num up to SHN_LORESERVE"
Reserved    == "SHN_LORESERVE and above"

Mod == 1 .. NMod

\* The address of symbol j of object k: its section's address plus its value.
At(k, j) == <<k, j>>

\* The address of a function of the executable that was registered by name.
HostAddress(n) == <<0, n>>

\* Not an address.  What a symbol of a file holds before it is updated, and
\* what SysEnv has of a name nobody defined.
Raw     == <<-1, 0>>
Unbound == <<-2, 0>>

Address == (Mod \X (1 .. MaxSym)) \cup {HostAddress(n) : n \in Host}

\* The name of the null symbol and of section symbols.
NoName == ""

Symbol ==
  [name  : Names,
   bind  : {STB_LOCAL, STB_GLOBAL, STB_WEAK},
   type  : {STT_SECTION, STT_OTHER},
   shndx : {SHN_UNDEF, InSection, BadIndex, Reserved}]

ASSUME SymbolsAssumption ==
  /\ NMod \in Nat
  /\ Tables \subseteq Seq(Symbol)
  /\ MaxSym \in Nat
  /\ \A t \in Tables : Len(t) <= MaxSym
  /\ NoName \in Names
  /\ Host \subseteq Names
  /\ Garbage # {}

\* What update_symbol can write.
Values == Address \cup Garbage \cup {Raw}

VARIABLES
  table,    \* table[k]: the symbol table of object k
  value,    \* value[k][j]: the value of symbol j of object k
  env,      \* SysEnv::map
  func,     \* func[k]: mod.func.consruct_func of object k
  newValue, \* the local of update_symbol_addr; Raw outside of it
  k,        \* the object being loaded
  j         \* the symbol being updated; 0 before update_symbol_addr

vars == <<table, value, env, func, newValue, k, j>>

Init ==
  /\ table \in [Mod -> Tables]
  /\ value = [o \in Mod |-> [s \in 1 .. Len(table[o]) |-> Raw]]
  /\ env = [n \in Names |-> IF n \in Host THEN HostAddress(n) ELSE Unbound]
  /\ func = [o \in Mod |-> Unbound]
  /\ newValue = Raw
  /\ k = 1
  /\ j = 0

-----------------------------------------------------------------------------
(***************************************************************************)
(* SysEnv                                                                  *)
(***************************************************************************)

\* Faulty variant: map[name] = addr.
AddSymbolOver(n, a) == [env EXCEPT ![n] = a]

\* add_symbol: unordered_map::emplace keeps the element that is there.
AddSymbol(n, a) == IF env[n] = Unbound THEN [env EXCEPT ![n] = a] ELSE env

\* get_symbol finds the name.
Known(n) == env[n] # Unbound

-----------------------------------------------------------------------------
(***************************************************************************)
(* update_symbol_addr                                                      *)
(***************************************************************************)

Sym == table[k][j]

Updating == k \in Mod /\ j \in 1 .. Len(table[k])

\* update_symbol: the symbol's value becomes newValue, whatever that is.
Update(v) ==
  /\ newValue' = v
  /\ value' = [value EXCEPT ![k][j] = v]
  /\ j' = j + 1

IsSection(s)    == s.type = STT_SECTION
IsDefinition(s) == s.type # STT_SECTION /\ s.shndx = InSection
IsImport(s)     == s.type # STT_SECTION /\ s.shndx = SHN_UNDEF /\ s.bind = STB_GLOBAL
IsExport(s)     == IsDefinition(s) /\ s.bind = STB_GLOBAL

\* newValue is not initialised.
StartTable ==
  /\ k \in Mod /\ j = 0
  /\ newValue' \in Garbage
  /\ j' = 1
  /\ UNCHANGED <<table, value, env, func, k>>

SectionSymbol ==
  /\ Updating
  /\ IsSection(Sym) /\ Sym.shndx = InSection
  /\ Update(At(k, j))
  /\ UNCHANGED <<table, env, func, k>>

LocalDefinition ==
  /\ Updating
  /\ IsDefinition(Sym) /\ ~IsExport(Sym)
  /\ Update(At(k, j))
  /\ UNCHANGED <<table, env, func, k>>

\* Faulty variant: the symbol takes the address SysEnv has of its name.
ExportedDefinitionFromEnv ==
  /\ Updating
  /\ IsExport(Sym)
  /\ env' = AddSymbol(Sym.name, At(k, j))
  /\ Update(env'[Sym.name])
  /\ func' = [func EXCEPT ![k] = IF Sym.name = "Construct" THEN At(k, j) ELSE @]
  /\ UNCHANGED <<table, k>>

\* Faulty variant: the constructor is looked up in SysEnv.
ExportedConstructFromEnv ==
  /\ Updating
  /\ IsExport(Sym)
  /\ env' = AddSymbol(Sym.name, At(k, j))
  /\ Update(At(k, j))
  /\ func' = [func EXCEPT ![k] = IF Sym.name = "Construct" THEN env'["Construct"] ELSE @]
  /\ UNCHANGED <<table, k>>

ExportedDefinition ==
  /\ Updating
  /\ IsExport(Sym)
  /\ env' = AddSymbol(Sym.name, At(k, j))
  /\ Update(At(k, j))
  /\ func' = [func EXCEPT ![k] = IF Sym.name = "Construct" THEN At(k, j) ELSE @]
  /\ UNCHANGED <<table, k>>

ImportFound ==
  /\ Updating
  /\ IsImport(Sym) /\ Known(Sym.name)
  /\ Update(env[Sym.name])
  /\ UNCHANGED <<table, env, func, k>>

\* Faulty variant: does not continue with the next symbol.
ImportMissingUpdates ==
  /\ Updating
  /\ IsImport(Sym) /\ ~Known(Sym.name)
  /\ Update(newValue)
  /\ UNCHANGED <<table, env, func, k>>

\* "undefined symbol": log_fatal does not end the program.
ImportMissing ==
  /\ Updating
  /\ IsImport(Sym) /\ ~Known(Sym.name)
  /\ j' = j + 1
  /\ UNCHANGED <<table, value, env, func, newValue, k>>

\* Faulty variant: continue without the increment of the loop.
InvalidForever ==
  /\ Updating
  /\ \/ IsSection(Sym) /\ Sym.shndx # InSection
     \/ ~IsSection(Sym) /\ Sym.shndx = BadIndex
  /\ UNCHANGED vars

\* A section symbol without a section, or an index of no section.
InvalidSymbol ==
  /\ Updating
  /\ \/ IsSection(Sym) /\ Sym.shndx # InSection
     \/ ~IsSection(Sym) /\ Sym.shndx = BadIndex
  /\ j' = j + 1
  /\ UNCHANGED <<table, value, env, func, newValue, k>>

\* No branch of update_symbol_addr is for this symbol (the null symbol, a weak
\* undefined one, SHN_ABS, SHN_COMMON): it gets the value left in newValue.
OtherSymbol ==
  /\ Updating
  /\ ~IsSection(Sym)
  /\ \/ Sym.shndx = Reserved
     \/ Sym.shndx = SHN_UNDEF /\ Sym.bind # STB_GLOBAL
  /\ Update(newValue)
  /\ UNCHANGED <<table, env, func, k>>

EndTable ==
  /\ k \in Mod /\ j = Len(table[k]) + 1
  /\ k' = k + 1
  /\ j' = 0
  /\ newValue' = Raw
  /\ UNCHANGED <<table, value, env, func>>

Next ==
  \/ StartTable \/ SectionSymbol \/ LocalDefinition \/ ExportedDefinition
  \/ ImportFound \/ ImportMissing \/ InvalidSymbol \/ OtherSymbol \/ EndTable

Spec == Init /\ [][Next]_vars

-----------------------------------------------------------------------------
(***************************************************************************)
(* What resolution must achieve                                            *)
(***************************************************************************)

TypeOK ==
  /\ table \in [Mod -> Tables]
  /\ value \in [Mod -> Seq(Values)]
  /\ \A o \in Mod : Len(value[o]) = Len(table[o])
  /\ env \in [Names -> Address \cup {Unbound}]
  /\ func \in [Mod -> Address \cup {Unbound}]
  /\ newValue \in Values
  /\ k \in 1 .. NMod + 1
  /\ j \in 0 .. MaxSym + 1

\* Symbols are met in the order of the command line, then of their table.
Before(p, q) == p[1] < q[1] \/ (p[1] = q[1] /\ p[2] < q[2])

\* The symbols update_symbol_addr has come past.
Done ==
  {p \in Mod \X (1 .. MaxSym) : p[2] <= Len(table[p[1]]) /\ Before(p, <<k, j>>)}

SymbolAt(p) == table[p[1]][p[2]]
ValueAt(p)  == value[p[1]][p[2]]

Exports(n) == {p \in Done : IsExport(SymbolAt(p)) /\ SymbolAt(p).name = n}

\* Of several objects that define a name, the executable's registration wins,
\* then the first object on the command line: no later definition replaces it
\* (module.h:29-38, main of umko.cpp:84-88).
FirstDefinitionWins ==
  \A n \in Names :
    IF n \in Host THEN env[n] = HostAddress(n)
    ELSE IF Exports(n) = {} THEN env[n] = Unbound
    ELSE \E p \in Exports(n) :
           /\ env[n] = At(p[1], p[2])
           /\ \A q \in Exports(n) : q = p \/ Before(p, q)

\* The definition env has of name n was there when symbol p was met.
Available(n, p) ==
  /\ env[n] # Unbound
  /\ n \in Host \/ Before(env[n], p)

\* An import holds the definition its name had when it was met and keeps it
\* whatever is defined later; without one it keeps what the file had, never the
\* address of the symbol before it (module.cpp:250-257).
ImportsHoldFirstDefinition ==
  \A p \in Done :
    IsImport(SymbolAt(p)) =>
      LET n == SymbolAt(p).name
      IN  ValueAt(p) = IF Available(n, p) THEN env[n] ELSE Raw

\* What an object defines for itself is not diverted to another object's
\* definition of the same name (module.cpp:242).
DefinitionsAreOwn ==
  \A p \in Done :
    (SymbolAt(p).shndx = InSection) => ValueAt(p) = At(p[1], p[2])

\* Every object's own Construct is called, the last one its table exports, also
\* when SysEnv has that of an earlier object (module.cpp:245-247, 391-397).
ConstructIsOwn ==
  \A o \in Mod :
    LET own == {p \in Exports("Construct") : p[1] = o}
    IN  IF own = {} THEN func[o] = Unbound
        ELSE \E p \in own :
               /\ func[o] = At(p[1], p[2])
               /\ \A q \in own : q = p \/ Before(q, p)

\* "Seek undefined symbols from this REL in previous RELs" (module.cpp:251):
\* an undefined symbol whose name an earlier object or the executable defines
\* gets that definition.
UndefinedAreSought ==
  \A p \in Done :
    LET s == SymbolAt(p)
    IN  (s.type # STT_SECTION /\ s.shndx = SHN_UNDEF /\ s.name # NoName /\ Available(s.name, p))
          => ValueAt(p) = env[s.name]

\* SysEnv is a registry, and the imports of all objects are its clients.
InTable(c) == c[2] <= Len(table[c[1]])

Client == Mod \X (1 .. MaxSym)

Wanted == [c \in Client |-> IF InTable(c) THEN SymbolAt(c).name ELSE NoName]

Got ==
  [c \in Client |->
     IF InTable(c) /\ IsImport(SymbolAt(c)) /\ ValueAt(c) # Raw THEN ValueAt(c)
     ELSE Unbound]

R == INSTANCE Registry WITH
       Name    <- Names,
       Place   <- Address,
       Asker   <- Client,
       Nobody  <- Unbound,
       wanted  <- Wanted,
       bound   <- env,
       got     <- Got

SysEnvIsRegistry == R!RegistrySpec

\* Two objects that import the same name call the same function, whatever is
\* defined between their loading (module.h:29-47).
ImportsAgree == R!Agreement
=============================================================================
