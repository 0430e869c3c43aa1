---------------------------- MODULE LoaderProofs ----------------------------
(***************************************************************************)
(* The registry, symbol resolution and the program that resolves symbols,  *)
(* for any number of objects, any symbol tables, any registrations of the  *)
(* executable, whatever the objects hold and whatever fails.  Resolution   *)
(* implements the registry; the program is resolution as far as symbols    *)
(* go, and calls initialisers and the entry in order and completely.       *)
(***************************************************************************)
EXTENDS Loader, Registry, TLAPS

-----------------------------------------------------------------------------
(***************************************************************************)
(* The registry                                                            *)
(***************************************************************************)

\* An answer is the binding, which is never changed again.
AnswersAreBindings == \A c \in Asker : got[c] # Nobody => got[c] = bound[wanted[c]]

RegistryInv == RegistryTypeOK /\ AnswersAreBindings

LEMMA RegistryInvInit == RegistryInit => RegistryInv
BY DEF RegistryInit, RegistryInv, RegistryTypeOK, AnswersAreBindings

LEMMA BindPreserves ==
  ASSUME RegistryInv, NEW nm \in Name, Bind(nm)
  PROVE  RegistryInv'
<1>1. PICK to \in Place : bound' = [bound EXCEPT ![nm] = to]
  BY DEF Bind
<1>2. bound[nm] = Nobody /\ UNCHANGED <<wanted, got>>
  BY DEF Bind
<1>3. RegistryTypeOK'
  BY <1>1, <1>2 DEF RegistryInv, RegistryTypeOK
<1>4. \A x \in Name : bound[x] # Nobody => bound'[x] = bound[x]
  BY <1>1, <1>2 DEF RegistryInv, RegistryTypeOK
<1>5. AnswersAreBindings'
  BY <1>2, <1>4 DEF RegistryInv, RegistryTypeOK, AnswersAreBindings
<1>6. QED
  BY <1>3, <1>5 DEF RegistryInv

LEMMA AskPreserves ==
  ASSUME RegistryInv, NEW c \in Asker, Ask(c)
  PROVE  RegistryInv'
<1>1. got' = [got EXCEPT ![c] = bound[wanted[c]]] /\ UNCHANGED <<wanted, bound>>
  BY DEF Ask
<1>2. bound[wanted[c]] \in Place \cup {Nobody}
  BY DEF RegistryInv, RegistryTypeOK
<1>3. RegistryTypeOK'
  BY <1>1, <1>2 DEF RegistryInv, RegistryTypeOK
<1>4. AnswersAreBindings'
  BY <1>1 DEF RegistryInv, RegistryTypeOK, AnswersAreBindings
<1>5. QED
  BY <1>3, <1>4 DEF RegistryInv

LEMMA RegistryInvHolds == RegistrySpec => []RegistryInv
<1>1. RegistryInv /\ UNCHANGED registryVars => RegistryInv'
  BY DEF RegistryInv, RegistryTypeOK, AnswersAreBindings, registryVars
<1>2. RegistryInv /\ [RegistryNext]_registryVars => RegistryInv'
  BY <1>1, BindPreserves, AskPreserves DEF RegistryNext
<1>3. QED
  BY <1>2, RegistryInvInit, PTL DEF RegistrySpec

\* All clients of a name have the same answer, however many definitions were
\* offered between their questions (module.h:29-47).
THEOREM ClientsAgree == RegistrySpec => []Agreement
<1>1. RegistryInv => Agreement
  BY DEF RegistryInv, AnswersAreBindings, Agreement
<1>2. QED
  BY <1>1, RegistryInvHolds, PTL

-----------------------------------------------------------------------------
(***************************************************************************)
(* Symbol resolution                                                       *)
(***************************************************************************)

\* The loop index stays within the table.
InLoop == IF k \in Mod THEN j <= Len(table[k]) + 1 ELSE j = 0

\* A symbol the loop has not come past is as the file has it.
NotDoneRaw ==
  \A p \in Mod \X (1 .. MaxSym) :
    (p[2] <= Len(table[p[1]]) /\ p \notin Done) => ValueAt(p) = Raw

SymbolsInv ==
  /\ TypeOK
  /\ InLoop
  /\ NotDoneRaw
  /\ FirstDefinitionWins
  /\ ImportsHoldFirstDefinition
  /\ DefinitionsAreOwn
  /\ ConstructIsOwn

-----------------------------------------------------------------------------
(***************************************************************************)
(* Addresses, tables and positions                                         *)
(***************************************************************************)

LEMMA AddressesDiffer ==
  /\ Raw \notin Address /\ Unbound \notin Address /\ Raw # Unbound
  /\ \A nm \in Host : HostAddress(nm) \in Address
  /\ \A p \in Mod \X (1 .. MaxSym) : At(p[1], p[2]) = p /\ p \in Address
BY SymbolsAssumption DEF Address, Raw, Unbound, HostAddress, At, Mod

LEMMA TableTypes ==
  ASSUME TypeOK, NEW o \in Mod
  PROVE  /\ table[o] \in Seq(Symbol) /\ Len(table[o]) \in 0 .. MaxSym
         /\ \A s \in 1 .. Len(table[o]) : table[o][s] \in Symbol
<1>1. table[o] \in Tables
  BY DEF TypeOK
<1>2. table[o] \in Seq(Symbol) /\ Len(table[o]) <= MaxSym /\ MaxSym \in Nat
  BY <1>1, SymbolsAssumption
<1>3. QED
  BY <1>2

LEMMA PositionTypes ==
  ASSUME TypeOK
  PROVE  /\ MaxSym \in Nat /\ NMod \in Nat /\ k \in Nat /\ j \in Nat
         /\ Done \subseteq Mod \X (1 .. MaxSym)
         /\ \A p \in Mod \X (1 .. MaxSym) :
              p[1] \in Nat /\ p[2] \in Nat /\ p[1] \in Mod /\ p = <<p[1], p[2]>>
BY SymbolsAssumption DEF TypeOK, Done, Mod

\* The symbol the loop is at.
LEMMA CurrentTypes ==
  ASSUME TypeOK, Updating
  PROVE  /\ k \in Mod /\ j \in 1 .. MaxSym /\ j <= Len(table[k])
         /\ <<k, j>> \in Mod \X (1 .. MaxSym) /\ <<k, j>> \notin Done
         /\ At(k, j) = <<k, j>> /\ <<k, j>> \in Address
         /\ Sym = SymbolAt(<<k, j>>) /\ Sym \in Symbol /\ Sym.name \in Names
<1>1. k \in Mod /\ j \in 1 .. Len(table[k]) /\ Len(table[k]) \in 0 .. MaxSym
  BY TableTypes DEF Updating
<1>2. <<k, j>> \in Mod \X (1 .. MaxSym) /\ k \in Nat /\ j \in Nat /\ MaxSym \in Nat
  BY <1>1, PositionTypes
<1>3. <<k, j>> \notin Done
  BY <1>2 DEF Done, Before
<1>4. Sym \in Symbol
  BY <1>1, TableTypes DEF Sym
<1>5. QED
  BY <1>1, <1>2, <1>3, <1>4, AddressesDiffer DEF Sym, SymbolAt, Symbol, At

\* One turn of the loop comes past one symbol, the last of all so far.
LEMMA Advance ==
  ASSUME TypeOK, Updating, table' = table, k' = k, j' = j + 1
  PROVE  /\ Done' = Done \cup {<<k, j>>}
         /\ \A p \in Done : Before(p, <<k, j>>) /\ ~Before(<<k, j>>, p)
<1>1. /\ k \in Nat /\ j \in Nat /\ MaxSym \in Nat
      /\ <<k, j>> \in Mod \X (1 .. MaxSym) /\ j <= Len(table[k])
      /\ \A p \in Mod \X (1 .. MaxSym) : p[1] \in Nat /\ p[2] \in Nat /\ p = <<p[1], p[2]>>
  BY PositionTypes, CurrentTypes
<1>2. \A p \in Mod \X (1 .. MaxSym) :
        Before(p, <<k, j + 1>>) <=> Before(p, <<k, j>>) \/ p = <<k, j>>
  BY <1>1 DEF Before
<1>3. Done' = {p \in Mod \X (1 .. MaxSym) :
                 p[2] <= Len(table[p[1]]) /\ Before(p, <<k, j + 1>>)}
  BY DEF Done, Before
<1>4. Done' = Done \cup {<<k, j>>}
  BY <1>1, <1>2, <1>3 DEF Done
<1>5. \A p \in Done : Before(p, <<k, j>>) /\ ~Before(<<k, j>>, p)
  BY <1>1 DEF Done, Before
<1>6. QED
  BY <1>4, <1>5

\* Beginning and ending a table comes past none.
LEMMA Between ==
  ASSUME TypeOK, k \in Mod, table' = table,
         \/ j = 0 /\ j' = 1 /\ k' = k
         \/ j = Len(table[k]) + 1 /\ j' = 0 /\ k' = k + 1
  PROVE  Done' = Done
<1>1. /\ k \in Nat /\ j \in Nat /\ MaxSym \in Nat /\ Len(table[k]) \in Nat
      /\ \A p \in Mod \X (1 .. MaxSym) :
           p[1] \in Nat /\ p[2] \in Nat /\ p[2] >= 1 /\ p = <<p[1], p[2]>>
  BY PositionTypes, TableTypes
<1>2. ASSUME NEW p \in Mod \X (1 .. MaxSym), p[2] <= Len(table[p[1]])
      PROVE  Before(p, <<k', j'>>) <=> Before(p, <<k, j>>)
  BY <1>1, <1>2 DEF Before
<1>3. Done' = {p \in Mod \X (1 .. MaxSym) :
                 p[2] <= Len(table[p[1]]) /\ Before(p, <<k', j'>>)}
  BY DEF Done, Before
<1>4. QED
  BY <1>2, <1>3 DEF Done

\* Update changes the value of the current symbol and of no other.
LEMMA UpdateOne ==
  ASSUME TypeOK, Updating, NEW v \in Values, value' = [value EXCEPT ![k][j] = v]
  PROVE  /\ value' \in [Mod -> Seq(Values)]
         /\ \A o \in Mod : Len(value'[o]) = Len(value[o])
         /\ value'[k][j] = v
         /\ \A p \in Mod \X (1 .. MaxSym) :
              (p[2] <= Len(table[p[1]]) /\ p # <<k, j>>)
                => value'[p[1]][p[2]] = value[p[1]][p[2]]
<1>1. /\ k \in Mod /\ j \in 1 .. Len(value[k]) /\ value[k] \in Seq(Values)
      /\ value \in [Mod -> Seq(Values)]
  BY DEF TypeOK, Updating
<1> DEFINE w == [value[k] EXCEPT ![j] = v]
<1>2. w \in Seq(Values) /\ Len(w) = Len(value[k]) /\ w[j] = v
  BY <1>1
<1>3. \A s \in 1 .. Len(value[k]) : s # j => w[s] = value[k][s]
  BY <1>1
<1>4. value' = [value EXCEPT ![k] = w]
  OBVIOUS
<1> HIDE DEF w
<1>5. value'[k] = w /\ \A o \in Mod : o # k => value'[o] = value[o]
  BY <1>1, <1>4
<1>6. value' \in [Mod -> Seq(Values)]
  BY <1>1, <1>2, <1>4
<1>7. ASSUME NEW p \in Mod \X (1 .. MaxSym), p[2] <= Len(table[p[1]]), p # <<k, j>>
      PROVE  value'[p[1]][p[2]] = value[p[1]][p[2]]
  <2>1. p = <<p[1], p[2]>> /\ p[1] \in Mod /\ p[2] \in 1 .. Len(value[p[1]])
    BY <1>7, PositionTypes DEF TypeOK
  <2>2. CASE p[1] = k
    BY <1>3, <1>5, <1>7, <2>1, <2>2
  <2>3. CASE p[1] # k
    BY <1>5, <2>1, <2>3
  <2>4. QED
    BY <2>2, <2>3
<1>8. QED
  BY <1>2, <1>5, <1>6, <1>7

-----------------------------------------------------------------------------
(***************************************************************************)
(* The invariant                                                           *)
(***************************************************************************)

LEMMA SymbolsInvInit == Init => SymbolsInv
<1> SUFFICES ASSUME Init PROVE SymbolsInv
  OBVIOUS
<1>1. /\ table \in [Mod -> Tables] /\ k = 1 /\ j = 0 /\ newValue = Raw
      /\ value = [o \in Mod |-> [s \in 1 .. Len(table[o]) |-> Raw]]
      /\ env = [nm \in Names |-> IF nm \in Host THEN HostAddress(nm) ELSE Unbound]
      /\ func = [o \in Mod |-> Unbound]
  BY DEF Init
<1>2. \A o \in Mod : Len(table[o]) \in Nat
  BY <1>1, SymbolsAssumption
<1>3. \A o \in Mod :
        /\ [s \in 1 .. Len(table[o]) |-> Raw] \in Seq(Values)
        /\ Len([s \in 1 .. Len(table[o]) |-> Raw]) = Len(table[o])
  BY <1>2 DEF Values
<1>4. TypeOK
  <2>1. value \in [Mod -> Seq(Values)] /\ \A o \in Mod : Len(value[o]) = Len(table[o])
    BY <1>1, <1>3
  <2>2. env \in [Names -> Address \cup {Unbound}]
    BY <1>1, AddressesDiffer
  <2>3. QED
    BY <1>1, <2>1, <2>2, SymbolsAssumption DEF TypeOK, Values
<1>5. Done = {}
  BY <1>1 DEF Done, Before, Mod
<1>6. NotDoneRaw
  <2> SUFFICES ASSUME NEW p \in Mod \X (1 .. MaxSym), p[2] <= Len(table[p[1]])
               PROVE  ValueAt(p) = Raw
    BY DEF NotDoneRaw
  <2>1. p[1] \in Mod /\ p[2] \in 1 .. Len(table[p[1]])
    BY SymbolsAssumption, <1>2
  <2>2. QED
    BY <1>1, <2>1 DEF ValueAt
<1>7. FirstDefinitionWins
  BY <1>1, <1>5 DEF FirstDefinitionWins, Exports
<1>8. ImportsHoldFirstDefinition /\ DefinitionsAreOwn
  BY <1>5 DEF ImportsHoldFirstDefinition, DefinitionsAreOwn
<1>9. ConstructIsOwn
  BY <1>1, <1>5 DEF ConstructIsOwn, Exports
<1>10. InLoop
  BY <1>1, <1>2, SymbolsAssumption DEF InLoop, Mod
<1>11. QED
  BY <1>4, <1>6, <1>7, <1>8, <1>9, <1>10 DEF SymbolsInv

\* A step that comes past no symbol.
LEMMA BetweenPreserves ==
  ASSUME SymbolsInv, TypeOK', InLoop', Done' = Done,
         table' = table, value' = value, env' = env, func' = func
  PROVE  SymbolsInv'
<1> USE DEF SymbolsInv
<1>1. NotDoneRaw'
  BY DEF NotDoneRaw, ValueAt
<1>2. FirstDefinitionWins'
  BY DEF FirstDefinitionWins, Exports, SymbolAt
<1>3. ImportsHoldFirstDefinition'
  BY DEF ImportsHoldFirstDefinition, SymbolAt, ValueAt, Available
<1>4. DefinitionsAreOwn'
  BY DEF DefinitionsAreOwn, SymbolAt, ValueAt
<1>5. ConstructIsOwn'
  BY DEF ConstructIsOwn, Exports, SymbolAt
<1>6. QED
  BY <1>1, <1>2, <1>3, <1>4, <1>5

\* A step past a symbol that is not exported, and that ends with the value v.
LEMMA PassPreserves ==
  ASSUME SymbolsInv, Updating, ~IsExport(Sym), NEW v \in Values,
         table' = table, k' = k, j' = j + 1, env' = env, func' = func, newValue' \in Values,
         \/ value' = [value EXCEPT ![k][j] = v]
         \/ value' = value /\ v = Raw,
         IsImport(Sym) => v = IF Known(Sym.name) THEN env[Sym.name] ELSE Raw,
         Sym.shndx = InSection => v = At(k, j)
  PROVE  SymbolsInv'
<1> USE DEF SymbolsInv
<1>0. PICK here : here = <<k, j>>
  OBVIOUS
<1>1. /\ k \in Mod /\ j \in 1 .. MaxSym /\ j <= Len(table[k]) /\ MaxSym \in Nat
      /\ here \in Mod \X (1 .. MaxSym) /\ here \notin Done
      /\ At(k, j) = here
      /\ Sym = SymbolAt(here) /\ Sym \in Symbol /\ Sym.name \in Names
  BY <1>0, CurrentTypes, PositionTypes
<1>2. /\ Done' = Done \cup {here}
      /\ \A p \in Done : Before(p, here) /\ ~Before(here, p)
  BY <1>0, Advance
<1>3. /\ value' \in [Mod -> Seq(Values)]
      /\ \A o \in Mod : Len(value'[o]) = Len(value[o])
      /\ ValueAt(here)' = v
      /\ \A p \in Mod \X (1 .. MaxSym) :
           (p[2] <= Len(table[p[1]]) /\ p # here) => ValueAt(p)' = ValueAt(p)
  <2>1. CASE value' = [value EXCEPT ![k][j] = v]
    BY <1>0, <2>1, UpdateOne DEF ValueAt
  <2>2. CASE value' = value /\ v = Raw
    BY <1>0, <1>1, <2>2 DEF ValueAt, NotDoneRaw, TypeOK
  <2>3. QED
    BY <2>1, <2>2
<1>4. TypeOK' /\ InLoop'
  <2>1. j' \in 0 .. MaxSym + 1
    BY <1>1
  <2>2. TypeOK'
    BY <1>3, <2>1 DEF TypeOK
  <2>3. InLoop'
    BY <1>1, TableTypes DEF InLoop
  <2>4. QED
    BY <2>2, <2>3
<1>5. NotDoneRaw'
  BY <1>2, <1>3 DEF NotDoneRaw
<1>6. \A nm : Exports(nm)' = Exports(nm)
  BY <1>1, <1>2 DEF Exports, SymbolAt
<1>7. FirstDefinitionWins'
  BY <1>6 DEF FirstDefinitionWins
<1>8. \A p \in Done : p # here /\ ValueAt(p)' = ValueAt(p) /\ SymbolAt(p)' = SymbolAt(p)
  BY <1>1, <1>3 DEF Done, SymbolAt
<1>9. ImportsHoldFirstDefinition'
  <2>1. \A nm, p : Available(nm, p)' = Available(nm, p)
    BY DEF Available
  <2>2. ASSUME IsImport(Sym)
        PROVE  v = IF Available(Sym.name, here) THEN env[Sym.name] ELSE Raw
    <3>1. Known(Sym.name) <=> Available(Sym.name, here)
      <4>1. ASSUME env[Sym.name] # Unbound, Sym.name \notin Host
            PROVE  Before(env[Sym.name], here)
        <5>1. PICK p \in Exports(Sym.name) : env[Sym.name] = At(p[1], p[2])
          BY <1>1, <4>1 DEF FirstDefinitionWins
        <5>2. p \in Done /\ At(p[1], p[2]) = p
          BY AddressesDiffer DEF Exports, Done
        <5>3. QED
          BY <1>2, <5>1, <5>2
      <4>2. QED
        BY <4>1 DEF Known, Available
    <3>2. QED
      BY <2>2, <3>1
  <2>3. QED
    BY <1>1, <1>2, <1>3, <1>8, <2>1, <2>2 DEF ImportsHoldFirstDefinition, SymbolAt
<1>10. DefinitionsAreOwn'
  <2>1. SymbolAt(here)' = Sym /\ At(here[1], here[2]) = here
    BY <1>1, AddressesDiffer DEF SymbolAt
  <2>2. QED
    BY <1>1, <1>2, <1>3, <1>8, <2>1 DEF DefinitionsAreOwn
<1>11. ConstructIsOwn'
  BY <1>6 DEF ConstructIsOwn
<1>12. QED
  BY <1>4, <1>5, <1>7, <1>9, <1>10, <1>11

LEMMA ExportPreserves ==
  ASSUME SymbolsInv, ExportedDefinition
  PROVE  SymbolsInv'
<1> USE DEF SymbolsInv
<1>0. PICK here : here = <<k, j>>
  OBVIOUS
<1> DEFINE name == Sym.name
<1>1. /\ k \in Mod /\ j \in 1 .. MaxSym /\ j <= Len(table[k]) /\ MaxSym \in Nat
      /\ here \in Mod \X (1 .. MaxSym) /\ here \notin Done
      /\ At(k, j) = here /\ here \in Address
      /\ Sym = SymbolAt(here) /\ name \in Names
      /\ IsExport(Sym) /\ ~IsImport(Sym) /\ Sym.shndx = InSection
  BY <1>0, CurrentTypes, PositionTypes
     DEF ExportedDefinition, IsExport, IsDefinition, IsImport, InSection, SHN_UNDEF
<1>2. /\ table' = table /\ k' = k /\ j' = j + 1 /\ newValue' = here
      /\ value' = [value EXCEPT ![k][j] = here]
      /\ env' = IF env[name] = Unbound THEN [env EXCEPT ![name] = here] ELSE env
      /\ func' = [func EXCEPT ![k] = IF name = "Construct" THEN here ELSE @]
  BY <1>1 DEF ExportedDefinition, Update, AddSymbol
<1>3. /\ Done' = Done \cup {here}
      /\ \A p \in Done : Before(p, here) /\ ~Before(here, p)
  BY <1>0, <1>2, Advance DEF ExportedDefinition
<1>4. /\ value' \in [Mod -> Seq(Values)]
      /\ \A o \in Mod : Len(value'[o]) = Len(value[o])
      /\ ValueAt(here)' = here
      /\ \A p \in Mod \X (1 .. MaxSym) :
           (p[2] <= Len(table[p[1]]) /\ p # here) => ValueAt(p)' = ValueAt(p)
  <2>1. here \in Values
    BY <1>1 DEF Values
  <2>2. QED
    BY <1>0, <1>2, <2>1, UpdateOne DEF ValueAt, ExportedDefinition
<1>5. /\ env \in [Names -> Address \cup {Unbound}]
      /\ env' \in [Names -> Address \cup {Unbound}]
      /\ \A nm \in Names : nm # name \/ env[nm] # Unbound => env'[nm] = env[nm]
      /\ env[name] = Unbound => env'[name] = here
  BY <1>1, <1>2 DEF TypeOK
<1>6. TypeOK' /\ InLoop'
  <2>1. j' \in 0 .. MaxSym + 1
    BY <1>1, <1>2
  <2>2. func' \in [Mod -> Address \cup {Unbound}]
    BY <1>1, <1>2 DEF TypeOK
  <2>3. newValue' \in Values
    BY <1>1, <1>2 DEF Values
  <2>4. TypeOK'
    BY <1>2, <1>4, <1>5, <2>1, <2>2, <2>3 DEF TypeOK
  <2>5. InLoop'
    BY <1>1, <1>2, TableTypes DEF InLoop
  <2>6. QED
    BY <2>4, <2>5
<1>7. NotDoneRaw'
  BY <1>2, <1>3, <1>4 DEF NotDoneRaw
<1>8. \A p \in Mod \X (1 .. MaxSym) : SymbolAt(p)' = SymbolAt(p)
  BY <1>2 DEF SymbolAt
<1>9. \A nm : Exports(nm)' = IF nm = name THEN Exports(nm) \cup {here} ELSE Exports(nm)
  <2>1. Done \subseteq Mod \X (1 .. MaxSym)
    BY DEF Done
  <2>2. QED
    BY <1>1, <1>3, <1>8, <2>1 DEF Exports
<1>10. \A nm : here \notin Exports(nm) /\ Exports(nm) \subseteq Done
  BY <1>1 DEF Exports
<1>11. FirstDefinitionWins'
  <2> SUFFICES ASSUME NEW nm \in Names
               PROVE  IF nm \in Host THEN env'[nm] = HostAddress(nm)
                      ELSE IF Exports(nm)' = {} THEN env'[nm] = Unbound
                      ELSE \E p \in Exports(nm)' :
                             /\ env'[nm] = At(p[1], p[2])
                             /\ \A q \in Exports(nm)' : q = p \/ Before(p, q)
    BY DEF FirstDefinitionWins
  <2>1. CASE nm \in Host
    BY <1>5, <2>1, AddressesDiffer DEF FirstDefinitionWins
  <2>2. CASE nm \notin Host /\ nm # name
    BY <1>5, <1>9, <2>2 DEF FirstDefinitionWins
  <2>3. CASE nm \notin Host /\ nm = name /\ Exports(nm) = {}
    <3>1. env'[nm] = here /\ Exports(nm)' = {here}
      BY <1>5, <1>9, <2>3 DEF FirstDefinitionWins
    <3>2. At(here[1], here[2]) = here
      BY <1>1, AddressesDiffer
    <3>3. QED
      BY <2>3, <3>1, <3>2
  <2>4. CASE nm \notin Host /\ nm = name /\ Exports(nm) # {}
    <3>1. PICK p \in Exports(nm) : /\ env[nm] = At(p[1], p[2])
                                  /\ \A q \in Exports(nm) : q = p \/ Before(p, q)
      BY <2>4 DEF FirstDefinitionWins
    <3>2. env[nm] # Unbound
      BY <3>1, AddressesDiffer DEF Exports, Done
    <3>3. env'[nm] = env[nm] /\ Before(p, here)
      BY <1>3, <1>5, <1>10, <3>2
    <3>4. QED
      BY <1>9, <2>4, <3>1, <3>3
  <2>5. QED
    BY <2>1, <2>2, <2>3, <2>4
<1>12. \A p \in Done : p # here /\ p \in Mod \X (1 .. MaxSym) /\ ValueAt(p)' = ValueAt(p)
  BY <1>1, <1>4 DEF Done
<1>13. ImportsHoldFirstDefinition'
  <2>1. ASSUME NEW p \in Done, NEW nm \in Names
        PROVE  /\ Available(nm, p)' <=> Available(nm, p)
               /\ Available(nm, p) => env'[nm] = env[nm]
    <3>1. CASE env[nm] # Unbound
      BY <1>5, <3>1 DEF Available
    <3>2. CASE env[nm] = Unbound
      <4>1. nm \notin Host
        BY <3>2, AddressesDiffer DEF FirstDefinitionWins
      <4>2. env'[nm] = Unbound \/ env'[nm] = here
        BY <1>5, <3>2
      <4>3. QED
        BY <1>3, <3>2, <4>1, <4>2 DEF Available
    <3>3. QED
      BY <3>1, <3>2
  <2>2. \A p \in Done : SymbolAt(p).name \in Names
    <3>1. \A p \in Done : SymbolAt(p) \in Symbol
      BY TableTypes DEF Done, SymbolAt
    <3>2. QED
      BY <3>1 DEF Symbol
  <2>3. ASSUME NEW p \in Done', IsImport(SymbolAt(p)), NEW nm, nm = SymbolAt(p).name
        PROVE  ValueAt(p)' = IF Available(nm, p)' THEN env'[nm] ELSE Raw
    <3>1. p \in Done /\ nm \in Names
      BY <1>1, <1>3, <2>2, <2>3
    <3>2. ValueAt(p) = IF Available(nm, p) THEN env[nm] ELSE Raw
      BY <2>3, <3>1 DEF ImportsHoldFirstDefinition
    <3>3. QED
      BY <1>12, <2>1, <3>1, <3>2
  <2>4. \A p \in Done' : SymbolAt(p)' = SymbolAt(p)
    BY <1>1, <1>3, <1>8, <1>12
  <2>5. QED
    BY <2>3, <2>4 DEF ImportsHoldFirstDefinition
<1>14. DefinitionsAreOwn'
  <2>1. At(here[1], here[2]) = here
    BY <1>1, AddressesDiffer
  <2>2. QED
    BY <1>1, <1>3, <1>4, <1>8, <1>12, <2>1 DEF DefinitionsAreOwn
<1>15. ConstructIsOwn'
  <2> SUFFICES ASSUME NEW o \in Mod
               PROVE  LET own == {p \in Exports("Construct")' : p[1] = o}
                      IN  IF own = {} THEN func'[o] = Unbound
                          ELSE \E p \in own :
                                 /\ func'[o] = At(p[1], p[2])
                                 /\ \A q \in own : q = p \/ Before(q, p)
    BY DEF ConstructIsOwn
  <2> DEFINE own == {p \in Exports("Construct") : p[1] = o}
             own1 == {p \in Exports("Construct")' : p[1] = o}
  <2>1. here[1] = k /\ At(here[1], here[2]) = here
    BY <1>0, <1>1, AddressesDiffer
  <2>2. func \in [Mod -> Address \cup {Unbound}]
    BY DEF TypeOK
  <2>3. CASE o = k /\ name = "Construct"
    <3>1. func'[o] = here /\ own1 = own \cup {here}
      BY <1>2, <1>9, <2>1, <2>2, <2>3
    <3>2. \A q \in own : Before(q, here)
      BY <1>3, <1>10
    <3>3. QED
      BY <2>1, <3>1, <3>2
  <2>4. CASE ~(o = k /\ name = "Construct")
    <3>1. func'[o] = func[o] /\ own1 = own
      BY <1>2, <1>9, <2>1, <2>2, <2>4
    <3>2. QED
      BY <3>1 DEF ConstructIsOwn
  <2>5. QED
    BY <2>3, <2>4
<1>16. QED
  BY <1>6, <1>7, <1>11, <1>13, <1>14, <1>15

LEMMA SymbolsInvNext == SymbolsInv /\ [Next]_vars => SymbolsInv'
<1> SUFFICES ASSUME SymbolsInv, [Next]_vars PROVE SymbolsInv'
  OBVIOUS
<1>1. TypeOK /\ MaxSym \in Nat /\ NMod \in Nat
  BY SymbolsAssumption DEF SymbolsInv
<1>2. Raw \in Values /\ newValue \in Values /\ \A nm \in Names : Known(nm) => env[nm] \in Values
  BY <1>1 DEF Values, TypeOK, Known
<1>3. CASE StartTable
  <2>1. Done' = Done
    BY <1>1, <1>3, Between DEF StartTable
  <2>2. TypeOK'
    BY <1>1, <1>3 DEF StartTable, TypeOK, Values
  <2>3. InLoop'
    BY <1>1, <1>3, TableTypes DEF StartTable, InLoop
  <2>4. QED
    BY <1>3, <2>1, <2>2, <2>3, BetweenPreserves DEF StartTable
<1>4. CASE SectionSymbol
  <2>1. ~IsExport(Sym) /\ ~IsImport(Sym) /\ Updating /\ At(k, j) \in Values
    BY <1>1, <1>4, CurrentTypes
       DEF SectionSymbol, IsExport, IsDefinition, IsImport, IsSection, Values
  <2>2. QED
    BY <1>4, <2>1, PassPreserves DEF SectionSymbol, Update
<1>5. CASE LocalDefinition
  <2>1. ~IsExport(Sym) /\ ~IsImport(Sym) /\ Updating /\ At(k, j) \in Values
    BY <1>1, <1>5, CurrentTypes
       DEF LocalDefinition, IsDefinition, IsImport, Values, InSection, SHN_UNDEF
  <2>2. QED
    BY <1>5, <2>1, PassPreserves DEF LocalDefinition, Update
<1>6. CASE ExportedDefinition
  BY <1>6, ExportPreserves
<1>7. CASE ImportFound
  <2>1. /\ Updating /\ ~IsExport(Sym) /\ Sym.shndx # InSection
        /\ env[Sym.name] \in Values /\ Known(Sym.name)
    BY <1>1, <1>2, <1>7, CurrentTypes
       DEF ImportFound, IsExport, IsDefinition, IsImport, InSection, SHN_UNDEF
  <2>2. QED
    BY <1>7, <2>1, PassPreserves DEF ImportFound, Update
<1>8. CASE ImportMissing
  <2>1. /\ Updating /\ ~IsExport(Sym) /\ Sym.shndx # InSection /\ ~Known(Sym.name)
    BY <1>8
       DEF ImportMissing, IsExport, IsDefinition, IsImport, InSection, SHN_UNDEF
  <2>2. QED
    BY <1>2, <1>8, <2>1, PassPreserves DEF ImportMissing
<1>9. CASE InvalidSymbol
  <2>1. /\ Updating /\ ~IsExport(Sym) /\ ~IsImport(Sym) /\ Sym.shndx # InSection
    BY <1>9
       DEF InvalidSymbol, IsSection, IsExport, IsDefinition, IsImport,
           InSection, SHN_UNDEF, BadIndex
  <2>2. QED
    BY <1>2, <1>9, <2>1, PassPreserves DEF InvalidSymbol
<1>10. CASE OtherSymbol
  <2>1. /\ Updating /\ ~IsExport(Sym) /\ ~IsImport(Sym) /\ Sym.shndx # InSection
    BY <1>10
       DEF OtherSymbol, IsSection, IsExport, IsDefinition, IsImport,
           InSection, SHN_UNDEF, Reserved
  <2>2. QED
    BY <1>2, <1>10, <2>1, PassPreserves DEF OtherSymbol, Update
<1>11. CASE EndTable
  <2>1. Done' = Done
    BY <1>1, <1>11, Between DEF EndTable
  <2>2. TypeOK'
    BY <1>1, <1>2, <1>11 DEF EndTable, TypeOK, Mod
  <2>3. InLoop'
    BY <1>1, <1>11, TableTypes DEF EndTable, InLoop
  <2>4. QED
    BY <1>11, <2>1, <2>2, <2>3, BetweenPreserves DEF EndTable
<1>12. CASE UNCHANGED vars
  <2>1. TypeOK' /\ InLoop' /\ Done' = Done
    BY <1>12 DEF vars, SymbolsInv, TypeOK, InLoop, Done, Before
  <2>2. QED
    BY <1>12, <2>1, BetweenPreserves DEF vars
<1>13. QED
  BY <1>3, <1>4, <1>5, <1>6, <1>7, <1>8, <1>9, <1>10, <1>11, <1>12 DEF Next

LEMMA SymbolsInvHolds == Spec => []SymbolsInv
BY SymbolsInvInit, SymbolsInvNext, PTL DEF Spec

\* The first definition of a name wins, whatever is loaded afterwards.
THEOREM FirstWins == Spec => []FirstDefinitionWins
<1>1. SymbolsInv => FirstDefinitionWins
  BY DEF SymbolsInv
<1>2. QED
  BY <1>1, SymbolsInvHolds, PTL

\* Imports hold the first definition if it came before them, else nothing.
THEOREM ImportsAreBound == Spec => []ImportsHoldFirstDefinition
<1>1. SymbolsInv => ImportsHoldFirstDefinition
  BY DEF SymbolsInv
<1>2. QED
  BY <1>1, SymbolsInvHolds, PTL

\* Type correctness of Symbols.
THEOREM SymbolsTypeCorrect == Spec => []TypeOK
<1>1. SymbolsInv => TypeOK
  BY DEF SymbolsInv
<1>2. QED
  BY <1>1, SymbolsInvHolds, PTL

\* An object's own definitions are used, whoever else defines their names.
THEOREM DefinitionsOwn == Spec => []DefinitionsAreOwn
<1>1. SymbolsInv => DefinitionsAreOwn
  BY DEF SymbolsInv
<1>2. QED
  BY <1>1, SymbolsInvHolds, PTL

\* An object's own Construct is the one that is called.
THEOREM ConstructOwn == Spec => []ConstructIsOwn
<1>1. SymbolsInv => ConstructIsOwn
  BY DEF SymbolsInv
<1>2. QED
  BY <1>1, SymbolsInvHolds, PTL

-----------------------------------------------------------------------------
(***************************************************************************)
(* SysEnv implements the registry                                          *)
(***************************************************************************)

LEMMA WantedIsName ==
  ASSUME TypeOK
  PROVE  Wanted \in [Client -> Names]
<1>1. \A c \in Client : InTable(c) => SymbolAt(c) \in Symbol
  BY TableTypes, SymbolsAssumption DEF Client, InTable, SymbolAt
<1>2. QED
  BY <1>1, SymbolsAssumption DEF Wanted, Symbol

LEMMA InitIsRegistry == Init => R!RegistryInit
<1> SUFFICES ASSUME Init PROVE R!RegistryInit
  OBVIOUS
<1>1. SymbolsInv
  BY SymbolsInvInit
<1>2. Done = {}
  BY DEF Init, Done, Before, Mod
<1>3. Got = [c \in Client |-> Unbound]
  BY <1>1, <1>2 DEF Got, SymbolsInv, NotDoneRaw, InTable, Client
<1>4. QED
  BY <1>1, <1>3, WantedIsName DEF R!RegistryInit, SymbolsInv, TypeOK

\* Passing a symbol that is no import answers no client.
LEMMA OthersGetNothing ==
  ASSUME TypeOK, Updating, ~IsImport(Sym), table' = table, NEW v \in Values,
         value' = [value EXCEPT ![k][j] = v]
  PROVE  Got' = Got
<1>1. ASSUME NEW c \in Client, InTable(c), IsImport(SymbolAt(c))
      PROVE  ValueAt(c)' = ValueAt(c)
  <2>1. c # <<k, j>>
    BY <1>1, CurrentTypes
  <2>2. QED
    BY <1>1, <2>1, UpdateOne DEF ValueAt, Client, InTable
<1>2. \A c \in Client : InTable(c)' = InTable(c) /\ SymbolAt(c)' = SymbolAt(c)
  BY DEF InTable, SymbolAt
<1>3. QED
  BY <1>1, <1>2 DEF Got

LEMMA ImportIsAsk ==
  ASSUME SymbolsInv, ImportFound
  PROVE  \E c \in Client : R!Ask(c)
<1>0. PICK here : here = <<k, j>>
  OBVIOUS
<1>1. /\ here \in Client /\ here \notin Done /\ InTable(here) /\ k \in Mod
      /\ Sym = SymbolAt(here) /\ Sym.name \in Names /\ IsImport(Sym) /\ Known(Sym.name)
      /\ env[Sym.name] \in Address /\ env[Sym.name] \in Values
      /\ Updating
  BY <1>0, CurrentTypes
     DEF ImportFound, SymbolsInv, Client, InTable, Known, TypeOK, Values
<1>2. /\ value' = [value EXCEPT ![k][j] = env[Sym.name]]
      /\ UNCHANGED <<table, env>>
  BY DEF ImportFound, Update
<1>3. /\ value'[k][j] = env[Sym.name]
      /\ \A p \in Client : (InTable(p) /\ p # here) => ValueAt(p)' = ValueAt(p)
  BY <1>0, <1>1, <1>2, UpdateOne DEF SymbolsInv, Client, InTable, ValueAt
<1>4. ValueAt(here)' = env[Sym.name]
  BY <1>0, <1>3 DEF ValueAt
<1>5. ValueAt(here) = Raw
  BY <1>1 DEF SymbolsInv, NotDoneRaw, Client, InTable
<1>6. \A c \in Client : InTable(c)' = InTable(c) /\ SymbolAt(c)' = SymbolAt(c)
  BY <1>2 DEF InTable, SymbolAt
<1>7. Wanted[here] = Sym.name /\ Got[here] = Unbound
  BY <1>1, <1>5 DEF Wanted, Got
<1>8. env[Sym.name] # Raw
  BY <1>1, AddressesDiffer
<1>9. Got' = [Got EXCEPT ![here] = env[Sym.name]]
  <2>1. \A c \in Client : c # here =>
          (InTable(c) /\ IsImport(SymbolAt(c)) =>  ValueAt(c)' = ValueAt(c))
    BY <1>3
  <2>2. QED
    BY <1>1, <1>4, <1>6, <1>8, <2>1 DEF Got
<1>10. Wanted' = Wanted
  BY <1>6 DEF Wanted
<1>11. R!Ask(here)
  BY <1>1, <1>2, <1>7, <1>9, <1>10 DEF R!Ask, Known
<1>12. QED
  BY <1>1, <1>11

LEMMA NextIsRegistry == SymbolsInv /\ [Next]_vars => [R!RegistryNext]_(R!registryVars)
<1> SUFFICES ASSUME SymbolsInv, [Next]_vars
             PROVE  R!RegistryNext \/ UNCHANGED R!registryVars
  OBVIOUS
<1>1. table' = table
  BY DEF Next, StartTable, SectionSymbol, LocalDefinition, ExportedDefinition,
         ImportFound, ImportMissing, InvalidSymbol, OtherSymbol, EndTable, vars
<1>2. Wanted' = Wanted
  BY <1>1 DEF Wanted, InTable, SymbolAt
<1>3. CASE ImportFound
  BY <1>3, ImportIsAsk DEF R!RegistryNext
<1>4. CASE ExportedDefinition
  <2>1. /\ Updating /\ ~IsImport(Sym) /\ Sym.name \in Names /\ At(k, j) \in Address
        /\ At(k, j) \in Values
    BY <1>4, CurrentTypes
       DEF ExportedDefinition, IsExport, IsDefinition, IsImport, InSection,
           SHN_UNDEF, SymbolsInv, Values
  <2>2. Got' = Got
    BY <1>1, <1>4, <2>1, OthersGetNothing DEF ExportedDefinition, Update, SymbolsInv
  <2>3. CASE env[Sym.name] = Unbound
    <3>1. env' = [env EXCEPT ![Sym.name] = At(k, j)]
      BY <1>4, <2>3 DEF ExportedDefinition, AddSymbol
    <3>2. R!Bind(Sym.name)
      BY <1>2, <2>1, <2>2, <2>3, <3>1 DEF R!Bind
    <3>3. QED
      BY <2>1, <3>2 DEF R!RegistryNext
  <2>4. CASE env[Sym.name] # Unbound
    BY <1>2, <1>4, <2>2, <2>4 DEF ExportedDefinition, AddSymbol, R!registryVars
  <2>5. QED
    BY <2>3, <2>4
<1>5. CASE SectionSymbol \/ LocalDefinition \/ OtherSymbol
  <2>1. PICK v \in Values : value' = [value EXCEPT ![k][j] = v]
    BY <1>5, CurrentTypes
       DEF SectionSymbol, LocalDefinition, OtherSymbol, Update, SymbolsInv, TypeOK, Values
  <2>2. Updating /\ ~IsImport(Sym) /\ env' = env
    BY <1>5
       DEF SectionSymbol, LocalDefinition, OtherSymbol, IsSection, IsDefinition,
           IsImport, InSection, SHN_UNDEF, Reserved
  <2>3. QED
    BY <1>1, <1>2, <2>1, <2>2, OthersGetNothing DEF R!registryVars, SymbolsInv
<1>6. CASE UNCHANGED <<table, value, env>>
  BY <1>2, <1>6 DEF R!registryVars, Got, InTable, SymbolAt, ValueAt
<1>7. QED
  BY <1>3, <1>4, <1>5, <1>6
     DEF Next, StartTable, ImportMissing, InvalidSymbol, EndTable, vars

\* SysEnv is a registry: bindings never change, and all who ask agree.
THEOREM SymbolsImplementRegistry == Spec => SysEnvIsRegistry
BY InitIsRegistry, NextIsRegistry, SymbolsInvHolds, PTL
   DEF Spec, SysEnvIsRegistry, R!RegistrySpec

\* All objects that import a name call the same function.
THEOREM ImportersAgree == Spec => []ImportsAgree
<1>1. SymbolsInv => ImportsAgree
  <2> SUFFICES ASSUME SymbolsInv, NEW c \in Client, NEW d \in Client,
                      Wanted[c] = Wanted[d], Got[c] # Unbound, Got[d] # Unbound
               PROVE  Got[c] = Got[d]
    BY DEF ImportsAgree, R!Agreement
  <2>1. ASSUME NEW cl \in Client, Got[cl] # Unbound
        PROVE  Got[cl] = env[Wanted[cl]]
    <3>1. InTable(cl) /\ IsImport(SymbolAt(cl)) /\ ValueAt(cl) # Raw /\ Got[cl] = ValueAt(cl)
      BY <2>1 DEF Got
    <3>2. cl \in Done
      BY <3>1 DEF SymbolsInv, NotDoneRaw, Client, InTable
    <3>3. ValueAt(cl) = env[SymbolAt(cl).name]
      BY <3>1, <3>2 DEF SymbolsInv, ImportsHoldFirstDefinition
    <3>4. QED
      BY <3>1, <3>3 DEF Wanted
  <2>2. QED
    BY <2>1
<1>2. QED
  BY <1>1, SymbolsInvHolds, PTL

-----------------------------------------------------------------------------
(***************************************************************************)
(* Loading is resolution                                                   *)
(***************************************************************************)

LEMMA LoaderInitIsInit == LoaderInit => Init
BY DEF LoaderInit

\* A step resolves symbols or leaves all they consist of alone.
LEMMA StepIsResolution == [LoaderNext]_allVars => [Next]_vars
<1> SUFFICES ASSUME [LoaderNext]_allVars PROVE Next \/ UNCHANGED vars
  OBVIOUS
<1>1. CASE UpdateSymbols
  BY <1>1 DEF UpdateSymbols, Next
<1>2. CASE NextObject
  BY <1>2 DEF NextObject, Next
<1>3. CASE UNCHANGED allVars
  BY <1>3 DEF allVars, vars
<1>4. QED
  BY <1>1, <1>2, <1>3
     DEF LoaderNext, MoveModule, SymbolsUpdated, RelocateSymbol, ModProtect, DivideByZero,
         CallInit, CrashInInit, EndArray, EndInits, CallConstruct, CrashInConstruct,
         NoConstruct, CallEntry, CrashInEntry, NoEntry

\* Loading does to symbols and SysEnv what Symbols does (module.cpp:208-283).
LEMMA LoaderIsResolution == LoaderSpec => Spec
BY LoaderInitIsInit, StepIsResolution, PTL DEF LoaderSpec, Spec

LEMMA LoaderKeepsSymbols == LoaderSpec => []SymbolsInv
BY LoaderIsResolution, SymbolsInvHolds, PTL

\* So the first definition of a name wins in the program, too (module.h:29-38).
THEOREM LoaderFirstWins == LoaderSpec => []FirstDefinitionWins
BY LoaderIsResolution, FirstWins, PTL

-----------------------------------------------------------------------------
(***************************************************************************)
(* The invariant                                                           *)
(***************************************************************************)

\* An object is being loaded.
Loading ==
  {"move_module", "layout_symbol_addr", "relocate_symbol", "mod_protect",
   "init_array", "Construct", "next"}

\* Which object the program is at, and which init array of it.
Stage ==
  /\ pc \in Loading => k \in Mod
  /\ pc \in {"entry", "exit"} => k = NMod + 1
  /\ pc \notin {"init_array", "crashed"} => a = 1 /\ n = 0
  /\ pc = "init_array" => a <= Len(obj[k].arrays) + 1
  /\ pc = "init_array" /\ n > 0 => a <= Len(obj[k].arrays)

\* The place of the call that would be made next.
Position ==
  CASE pc = "init_array"     -> <<k, a, IF n = 0 THEN 0 ELSE n + 1>>
    [] pc = "Construct"      -> <<k, Len(obj[k].arrays) + 1, 0>>
    [] pc = "next"           -> <<k + 1, 0, 0>>
    [] OTHER                 -> <<k, 0, 0>>

\* Every call that was made comes before it.
CallsPrecede ==
  pc \notin {"exit", "crashed"} => \A x \in Calls : Precedes(Rank(ran[x]), Position)

\* A call of main is known by its address, one of load_module by its object.
CallsKnown ==
  \A x \in Calls :
    /\ ran[x].fn = "init_array" => ran[x].at \in Mod \X Nat \X Nat
    /\ ran[x].fn = "Construct" => ran[x].at[1] \in Mod

\* The constructors the loops have come past.
Passed(o, s, c) ==
  /\ pc # "crashed"
  /\ \/ o < k
     \/ o = k /\ pc \in {"Construct", "next"}
     \/ o = k /\ pc = "init_array" /\ (s < a \/ (s = a /\ c <= n))

InitsMade ==
  \A o \in Mod : \A s \in DOMAIN obj[o].arrays :
    \A c \in 1 .. InitCount(obj[o].arrays[s]) :
      Passed(o, s, c) => \E x \in Calls : ran[x] = Call("init_array", <<o, s, c>>)

ConstructsMade ==
  \A o \in Mod :
    (func[o] # Unbound /\ pc # "crashed" /\ (o < k \/ (o = k /\ pc = "next")))
      => \E x \in Calls : ran[x] = Call("Construct", func[o])

EntryMade == pc = "exit" /\ Entry # Unbound => \E x \in Calls : ran[x].fn = "entry"

LoaderInv ==
  /\ LoaderTypeOK
  /\ Stage
  /\ CallsKnown
  /\ CallsPrecede
  /\ CallsInOrder
  /\ InitsMade
  /\ ConstructsMade
  /\ EntryMade

-----------------------------------------------------------------------------
(***************************************************************************)
(* Objects and calls                                                       *)
(***************************************************************************)

LEMMA ObjectTypes ==
  ASSUME LoaderTypeOK, NEW o \in Mod
  PROVE  /\ obj[o] \in Objects \cup {NoObject} /\ table[o] = obj[o].symtab
         /\ obj[o].arrays \in Seq(InitArray)
         /\ Len(obj[o].arrays) \in Nat /\ DOMAIN obj[o].arrays = 1 .. Len(obj[o].arrays)
         /\ \A s \in DOMAIN obj[o].arrays : InitCount(obj[o].arrays[s]) \in Nat
         /\ \A s \in obj[o].relocs : s \in 1 .. Len(table[o])
<1>1. obj[o] \in Objects \cup {NoObject} /\ table[o] = obj[o].symtab
  BY DEF LoaderTypeOK
<1>2. obj[o] \in Object
  BY <1>1, LoaderAssumption
<1>3. obj[o].arrays \in Seq(InitArray)
  BY <1>2 DEF Object
<1>4. \A s \in DOMAIN obj[o].arrays : obj[o].arrays[s] \in InitArray
  BY <1>3
<1>5. \A s \in DOMAIN obj[o].arrays : InitCount(obj[o].arrays[s]) \in Nat
  BY <1>4 DEF InitCount, InitArray
<1>6. \A s \in obj[o].relocs : s \in 1 .. Len(table[o])
  <2>1. CASE obj[o] \in Objects
    BY <1>1, <2>1, LoaderAssumption
  <2>2. CASE obj[o] = NoObject
    BY <2>2 DEF NoObject
  <2>3. QED
    BY <1>1, <2>1, <2>2
<1>7. QED
  BY <1>1, <1>3, <1>5, <1>6

LEMMA ModNumbers ==
  /\ NMod \in Nat /\ Mod \subseteq Nat \ {0}
  /\ \A o \in Nat \ {0} : o \in Mod <=> o <= NMod
BY SymbolsAssumption DEF Mod

Functions == {"init_array", "Construct", "entry"}
Places    == Address \cup (Mod \X Nat \X Nat)
CallSet   == [fn : Functions, at : Places]

LEMMA CallTypes ==
  ASSUME LoaderTypeOK
  PROVE  /\ ran \in Seq(CallSet) /\ Len(ran) \in Nat /\ Calls = 1 .. Len(ran)
         /\ \A x \in Calls : ran[x] \in CallSet /\ ran[x].fn \in Functions
<1>1. ran \in Seq(CallSet)
  BY DEF LoaderTypeOK, CallSet, Functions, Places
<1>2. Len(ran) \in Nat /\ Calls = 1 .. Len(ran)
  BY <1>1 DEF Calls
<1>3. \A x \in Calls : ran[x] \in CallSet
  BY <1>1, <1>2
<1>4. QED
  BY <1>1, <1>2, <1>3 DEF CallSet

LEMMA ObjectsStay == LoaderNext => obj' = obj
BY DEF LoaderNext, MoveModule, UpdateSymbols, SymbolsUpdated, RelocateSymbol, ModProtect,
       DivideByZero, CallInit, CrashInInit, EndArray, EndInits, CallConstruct,
       CrashInConstruct, NoConstruct, NextObject, CallEntry, CrashInEntry, NoEntry, loaderVars

\* The functions that are called lie where their type says.
LEMMA TargetTypes ==
  ASSUME SymbolsInv, LoaderInv
  PROVE  /\ pc = "init_array" => <<k, a, n + 1>> \in Mod \X Nat \X Nat
         /\ k \in Mod /\ func[k] # Unbound => func[k] \in Address /\ func[k][1] = k
         /\ Entry # Unbound => Entry \in Address
<1>1. pc = "init_array" => <<k, a, n + 1>> \in Mod \X Nat \X Nat
  BY DEF LoaderInv, LoaderTypeOK, Stage, Loading
<1>2. ASSUME k \in Mod, func[k] # Unbound
      PROVE  func[k] \in Address /\ func[k][1] = k
  <2>1. PICK p \in Exports("Construct") : p[1] = k /\ func[k] = At(p[1], p[2])
    BY <1>2 DEF SymbolsInv, ConstructIsOwn
  <2>2. p \in Mod \X (1 .. MaxSym)
    BY DEF Exports, Done
  <2>3. QED
    BY <2>1, <2>2, AddressesDiffer
<1>3. Entry # Unbound => Entry \in Address
  <2>1. \A name \in {"_start", "APP_Root"} :
          env[name] # Unbound /\ name \in Names => env[name] \in Address
    BY DEF SymbolsInv, TypeOK
  <2>2. QED
    BY <2>1, LoaderAssumption DEF Entry
<1>4. QED
  BY <1>1, <1>2, <1>3

-----------------------------------------------------------------------------
(***************************************************************************)
(* Types and stages                                                        *)
(***************************************************************************)

LEMMA AppendIsTyped ==
  ASSUME LoaderTypeOK, NEW fn \in Functions, NEW at \in Places, ran' = Append(ran, Call(fn, at))
  PROVE  ran' \in Seq([fn : {"init_array", "Construct", "entry"},
                       at : Address \cup (Mod \X Nat \X Nat)])
<1>1. Call(fn, at) \in CallSet
  BY DEF Call, CallSet
<1>2. ran' \in Seq(CallSet)
  BY <1>1, CallTypes
<1>3. QED
  BY <1>2 DEF CallSet, Functions, Places

\* A step makes no call, or one that its stage allows.
LEMMA StepMakesOneCall ==
  ASSUME SymbolsInv, LoaderInv, LoaderNext
  PROVE  \/ ran' = ran
         \/ \E fn \in Functions, at \in Places : ran' = Append(ran, Call(fn, at))
<1>1. CASE CallInit \/ CrashInInit
  BY <1>1, TargetTypes DEF CallInit, CrashInInit, InArray, Returns, Crashes, Functions, Places
<1>2. CASE CallConstruct \/ CrashInConstruct
  <2>1. pc = "Construct" /\ func[k] # Unbound /\ k \in Mod
    BY <1>2 DEF CallConstruct, CrashInConstruct, LoaderInv, Stage, Loading
  <2>2. QED
    BY <1>2, <2>1, TargetTypes
       DEF CallConstruct, CrashInConstruct, Returns, Crashes, Functions, Places
<1>3. CASE CallEntry \/ CrashInEntry
  BY <1>3, TargetTypes DEF CallEntry, CrashInEntry, Returns, Crashes, Functions, Places
<1>4. CASE ~(CallInit \/ CrashInInit \/ CallConstruct \/ CrashInConstruct
             \/ CallEntry \/ CrashInEntry)
  BY <1>4 DEF LoaderNext, MoveModule, UpdateSymbols, SymbolsUpdated, RelocateSymbol,
              ModProtect, DivideByZero, EndArray, EndInits, NoConstruct, NextObject, NoEntry,
              loaderVars
<1>5. QED
  BY <1>1, <1>2, <1>3, <1>4

\* What relocation gives an object: values of its symbols, or addresses that are
\* none, and one that was refused is a fault.
LEMMA NewLinks ==
  ASSUME RelocateSymbol
  PROVE  \E all :
           /\ links' = [links EXCEPT ![k] = all]
           /\ all \subseteq {ValueAt(<<k, x>>) : x \in obj[k].relocs} \cup {Refused, Astray}
           /\ \/ faults' = faults \cup {k}
              \/ /\ faults' = faults
                 /\ all \subseteq {ValueAt(<<k, x>>) : x \in obj[k].relocs} \cup {Astray}
<1>1. PICK applied \in SUBSET obj[k].relocs, refused \in SUBSET obj[k].relocs,
           astray \in SUBSET obj[k].relocs :
        /\ links' = [links EXCEPT ![k] = {ValueAt(<<k, s>>) : s \in applied}
                                         \cup {Refused : s \in refused}
                                         \cup {Astray : s \in astray}]
        /\ faults' = IF refused = {} THEN faults ELSE faults \cup {k}
  BY DEF RelocateSymbol
<1> DEFINE all == {ValueAt(<<k, s>>) : s \in applied} \cup {Refused : s \in refused}
                    \cup {Astray : s \in astray}
<1>2. all \subseteq {ValueAt(<<k, x>>) : x \in obj[k].relocs} \cup {Refused, Astray}
  OBVIOUS
<1>3. refused = {} => all \subseteq {ValueAt(<<k, x>>) : x \in obj[k].relocs} \cup {Astray}
  OBVIOUS
<1>4. links' = [links EXCEPT ![k] = all]
  BY <1>1
<1> HIDE DEF all
<1>5. QED
  BY <1>1, <1>2, <1>3, <1>4

\* They are values its symbols have.
LEMMA LinksAreValues ==
  ASSUME SymbolsInv, LoaderInv, RelocateSymbol
  PROVE  links' \in [Mod -> SUBSET (Values \cup {Refused, Astray})]
<1>1. k \in Mod /\ links \in [Mod -> SUBSET (Values \cup {Refused, Astray})]
  BY DEF RelocateSymbol, LoaderInv, LoaderTypeOK, Stage, Loading
<1>2. \A x \in obj[k].relocs : ValueAt(<<k, x>>) \in Values
  <2>1. \A x \in obj[k].relocs : x \in 1 .. Len(value[k])
    BY <1>1, ObjectTypes DEF LoaderInv, SymbolsInv, TypeOK
  <2>2. value[k] \in Seq(Values)
    BY <1>1 DEF SymbolsInv, TypeOK
  <2>3. QED
    BY <2>1, <2>2 DEF ValueAt
<1>3. QED
  BY <1>1, <1>2, NewLinks

LEMMA LoaderTypeInv ==
  ASSUME SymbolsInv, LoaderInv, LoaderNext
  PROVE  LoaderTypeOK'
<1>1. LoaderTypeOK /\ (pc \in Loading => k \in Mod)
  BY DEF LoaderInv, Stage
<1>2. ran' \in Seq([fn : {"init_array", "Construct", "entry"},
                    at : Address \cup (Mod \X Nat \X Nat)])
  BY <1>1, StepMakesOneCall, AppendIsTyped DEF LoaderTypeOK
<1>3. obj' = obj /\ table' = table
  <2>1. table' = table
    BY StepIsResolution
       DEF Next, StartTable, SectionSymbol, LocalDefinition, ExportedDefinition, ImportFound,
           ImportMissing, InvalidSymbol, OtherSymbol, EndTable, vars
  <2>2. QED
    BY <2>1, ObjectsStay
<1>4. links' \in [Mod -> SUBSET (Values \cup {Refused, Astray})]
  <2>1. CASE RelocateSymbol
    BY <2>1, LinksAreValues
  <2>2. CASE ~RelocateSymbol
    <3>1. links' = links
      BY <2>2 DEF LoaderNext, MoveModule, UpdateSymbols, SymbolsUpdated, ModProtect,
                  DivideByZero, CallInit, CrashInInit, EndArray, EndInits, CallConstruct,
                  CrashInConstruct, NoConstruct, NextObject, CallEntry, CrashInEntry,
                  NoEntry, loaderVars
    <3>2. QED
      BY <1>1, <3>1 DEF LoaderTypeOK
  <2>3. QED
    BY <2>1, <2>2
<1>5. /\ mapped' \subseteq Mod /\ exec' \subseteq mapped' /\ faults' \subseteq Mod
  <2>1. CASE MoveModule
    BY <1>1, <2>1 DEF MoveModule, LoaderTypeOK, Loading
  <2>2. CASE RelocateSymbol
    <3>1. mapped' = mapped /\ exec' = exec /\ (faults' = faults \/ faults' = faults \cup {k})
      BY <2>2 DEF RelocateSymbol
    <3>2. QED
      BY <1>1, <2>2, <3>1 DEF RelocateSymbol, LoaderTypeOK, Loading
  <2>3. CASE ModProtect
    BY <1>1, <2>3 DEF ModProtect, LoaderTypeOK, Loading
  <2>4. CASE ~(MoveModule \/ RelocateSymbol \/ ModProtect)
    <3>1. mapped' = mapped /\ exec' = exec /\ faults' = faults
      BY <2>4 DEF LoaderNext, UpdateSymbols, SymbolsUpdated, DivideByZero, CallInit,
                  CrashInInit, EndArray, EndInits, CallConstruct, CrashInConstruct,
                  NoConstruct, NextObject, CallEntry, CrashInEntry, NoEntry, loaderVars
    <3>2. QED
      BY <1>1, <3>1 DEF LoaderTypeOK
  <2>5. QED
    BY <2>1, <2>2, <2>3, <2>4
<1>6. /\ a' \in Nat \ {0} /\ n' \in Nat
      /\ pc' \in Loading \cup {"entry", "exit", "crashed"}
  BY <1>1
     DEF LoaderNext, MoveModule, UpdateSymbols, SymbolsUpdated, RelocateSymbol, ModProtect,
         DivideByZero, CallInit, CrashInInit, EndArray, EndInits, CallConstruct,
         CrashInConstruct, NoConstruct, NextObject, CallEntry, CrashInEntry, NoEntry,
         loaderVars, Crashes, LoaderTypeOK, Loading
<1>7. QED
  BY <1>1, <1>2, <1>3, <1>4, <1>5, <1>6 DEF LoaderTypeOK, Loading

Resolving == {"move_module", "layout_symbol_addr", "relocate_symbol", "mod_protect"}

\* Until its initialisers are called an object only goes through its stages.
LEMMA ResolvingStep ==
  ASSUME SymbolsInv,
         MoveModule \/ UpdateSymbols \/ SymbolsUpdated \/ RelocateSymbol \/ ModProtect
  PROVE  /\ pc \in Resolving /\ pc' \in Resolving \cup {"init_array"}
         /\ UNCHANGED <<obj, ran, k, a, n>>
         /\ \A o \in Mod : o # k => func'[o] = func[o]
BY DEF MoveModule, UpdateSymbols, SymbolsUpdated, RelocateSymbol, ModProtect, Resolving,
       StartTable, SectionSymbol, LocalDefinition, ExportedDefinition, ImportFound,
       ImportMissing, InvalidSymbol, OtherSymbol, vars, loaderVars, SymbolsInv, TypeOK

LEMMA CrashStep ==
  ASSUME DivideByZero \/ CrashInInit \/ CrashInConstruct \/ CrashInEntry
  PROVE  pc' = "crashed"
BY DEF DivideByZero, CrashInInit, CrashInConstruct, CrashInEntry, Crashes

LEMMA LoaderStageInv ==
  ASSUME SymbolsInv, LoaderInv, LoaderNext
  PROVE  Stage'
<1>1. /\ LoaderTypeOK /\ Stage /\ NMod \in Nat /\ k \in 1 .. NMod + 1
      /\ a \in Nat \ {0} /\ n \in Nat
  BY SymbolsAssumption DEF LoaderInv, LoaderTypeOK, SymbolsInv, TypeOK
<1>2. CASE MoveModule \/ UpdateSymbols \/ SymbolsUpdated \/ RelocateSymbol \/ ModProtect
  <2>1. k \in Mod /\ a = 1 /\ n = 0
    BY <1>1, <1>2, ResolvingStep DEF Stage, Loading, Resolving
  <2>2. Len(obj[k].arrays) \in Nat
    BY <1>1, <2>1, ObjectTypes
  <2>3. QED
    BY <1>1, <1>2, <2>1, <2>2, ResolvingStep DEF Stage, Loading, Resolving
<1>3. CASE DivideByZero \/ CrashInInit \/ CrashInConstruct \/ CrashInEntry
  BY <1>3, CrashStep DEF Stage, Loading
<1>4. CASE CallInit \/ EndArray \/ EndInits
  <2>1. k \in Mod /\ pc = "init_array" /\ k' = k /\ obj' = obj
    BY <1>1, <1>4 DEF CallInit, EndArray, EndInits, InArray, Stage, Loading, vars
  <2>2. Len(obj[k].arrays) \in Nat
    BY <1>1, <2>1, ObjectTypes
  <2>3. CASE CallInit
    BY <1>1, <2>1, <2>2, <2>3 DEF CallInit, InArray, Stage, Loading
  <2>4. CASE EndArray
    BY <1>1, <2>1, <2>2, <2>4 DEF EndArray, InArray, Stage, Loading
  <2>5. CASE EndInits
    BY <1>1, <2>1, <2>2, <2>5 DEF EndInits, Stage, Loading
  <2>6. QED
    BY <1>4, <2>3, <2>4, <2>5
<1>5. CASE CallConstruct \/ NoConstruct
  BY <1>1, <1>5 DEF CallConstruct, NoConstruct, Stage, Loading, vars
<1>6. CASE NextObject
  <2>1. k \in Mod /\ k' = k + 1 /\ pc' = IF k = NMod THEN "entry" ELSE "move_module"
    BY <1>1, <1>6 DEF NextObject, EndTable
  <2>2. a' = 1 /\ n' = 0
    BY <1>1, <1>6 DEF NextObject, Stage
  <2>3. QED
    BY <1>1, <2>1, <2>2, ModNumbers DEF Stage, Loading, Mod
<1>7. CASE CallEntry \/ NoEntry
  BY <1>1, <1>7 DEF CallEntry, NoEntry, Stage, Loading, vars
<1>8. QED
  BY <1>2, <1>3, <1>4, <1>5, <1>6, <1>7 DEF LoaderNext

-----------------------------------------------------------------------------
(***************************************************************************)
(* The order of the calls                                                  *)
(***************************************************************************)

Triple == Nat \X Nat \X Nat

LEMMA PrecedesOrders ==
  ASSUME NEW x \in Triple, NEW y \in Triple, NEW z \in Triple
  PROVE  /\ Precedes(x, y) /\ Precedes(y, z) => Precedes(x, z)
         /\ ~Precedes(x, x)
BY DEF Precedes, Triple

LEMMA RankTypes ==
  ASSUME LoaderTypeOK, CallsKnown
  PROVE  \A x \in Calls : Rank(ran[x]) \in Triple
<1> SUFFICES ASSUME NEW x \in Calls PROVE Rank(ran[x]) \in Triple
  OBVIOUS
<1>1. CASE ran[x].fn = "init_array"
  BY <1>1, ModNumbers DEF CallsKnown, Rank, Triple
<1>2. CASE ran[x].fn = "Construct"
  <2>1. PICK o \in Mod : o = ran[x].at[1]
    BY <1>2 DEF CallsKnown
  <2>2. Rank(ran[x]) = <<o, Len(obj[o].arrays) + 1, 0>>
    BY <1>2, <2>1 DEF Rank
  <2>3. o \in Nat /\ Len(obj[o].arrays) + 1 \in Nat /\ 0 \in Nat
    BY ObjectTypes, ModNumbers
  <2>4. QED
    BY <2>2, <2>3 DEF Triple
<1>3. CASE ran[x].fn = "entry"
  BY <1>3, ModNumbers DEF Rank, Triple
<1>4. QED
  BY <1>1, <1>2, <1>3, CallTypes DEF Functions

LEMMA RankStays == ASSUME obj' = obj PROVE \A c : Rank(c)' = Rank(c)
BY DEF Rank

\* A step that makes no call and does not go back.
LEMMA NoCall ==
  ASSUME SymbolsInv, LoaderInv, obj' = obj, ran' = ran,
         pc' \in {"exit", "crashed"} \/
           (pc \notin {"exit", "crashed"} /\ Position \in Triple /\ Position' \in Triple /\
              (Position' = Position \/ Precedes(Position, Position')))
  PROVE  CallsKnown' /\ CallsPrecede' /\ CallsInOrder'
<1>1. CallsKnown' /\ CallsInOrder'
  BY RankStays DEF LoaderInv, CallsKnown, CallsInOrder, Calls
<1>2. CallsPrecede'
  <2> SUFFICES ASSUME pc' \notin {"exit", "crashed"}, NEW x \in Calls
               PROVE  Precedes(Rank(ran[x]), Position')
    BY RankStays DEF CallsPrecede, Calls
  <2>1. Precedes(Rank(ran[x]), Position) /\ Rank(ran[x]) \in Triple
    BY RankTypes DEF LoaderInv, CallsPrecede
  <2>2. QED
    BY <2>1, PrecedesOrders
<1>3. QED
  BY <1>1, <1>2

\* A step that makes a call of rank r, not before its turn.
LEMMA OneCall ==
  ASSUME SymbolsInv, LoaderInv, obj' = obj, NEW fn \in Functions, NEW at \in Places,
         ran' = Append(ran, Call(fn, at)),
         fn = "init_array" => at \in Mod \X Nat \X Nat,
         fn = "Construct" => at[1] \in Mod,
         NEW r \in Triple, Rank(Call(fn, at)) = r,
         pc \notin {"exit", "crashed"}, Position \in Triple,
         Position = r \/ Precedes(Position, r),
         pc' \in {"exit", "crashed"} \/ (Position' \in Triple /\ Precedes(r, Position'))
  PROVE  CallsKnown' /\ CallsPrecede' /\ CallsInOrder'
<1>0. PICK last, call : last = Len(ran) + 1 /\ call = Call(fn, at)
  OBVIOUS
<1>1. /\ Calls' = Calls \cup {last} /\ last \in Nat /\ \A x \in Calls : x \in Nat /\ x < last
      /\ ran'[last] = call /\ \A x \in Calls : ran'[x] = ran[x]
  <2>1. call \in CallSet
    BY <1>0 DEF Call, CallSet
  <2>2. ran \in Seq(CallSet) /\ Len(ran) \in Nat /\ Calls = 1 .. Len(ran)
    BY CallTypes DEF LoaderInv
  <2>3. QED
    BY <1>0, <2>1, <2>2 DEF Calls
<1>2. call.fn = fn /\ call.at = at
  BY <1>0 DEF Call
<1>3. CallsKnown'
  BY <1>1, <1>2 DEF LoaderInv, CallsKnown
<1>4. \A x \in Calls : Rank(ran[x]) \in Triple /\ Precedes(Rank(ran[x]), r)
  <2> SUFFICES ASSUME NEW x \in Calls
               PROVE  Rank(ran[x]) \in Triple /\ Precedes(Rank(ran[x]), r)
    OBVIOUS
  <2>1. Rank(ran[x]) \in Triple /\ Precedes(Rank(ran[x]), Position)
    BY RankTypes DEF LoaderInv, CallsPrecede
  <2>2. QED
    BY <2>1, PrecedesOrders
<1>5. Rank(call)' = r /\ \A x \in Calls : Rank(ran[x])' = Rank(ran[x])
  <2>1. \A c : Rank(c)' = Rank(c)
    BY RankStays
  <2>2. \A x \in Calls : ran'[x] = ran[x]
    BY <1>1
  <2>3. \A x \in Calls : Rank(ran[x])' = Rank(ran[x])
    BY <2>2 DEF Rank
  <2>4. QED
    BY <1>0, <2>1, <2>3
<1>6. CallsInOrder'
  <2>1. Rank(ran[last])' = r
    BY <1>1, <1>5 DEF Rank
  <2>2. ASSUME NEW x \in Calls', NEW y \in Calls', x < y
        PROVE  Precedes(Rank(ran[x]), Rank(ran[y]))'
    <3>1. x \in Calls /\ (y \in Calls \/ y = last)
      BY <1>1, <2>2
    <3>2. CASE y \in Calls
      <4>1. Precedes(Rank(ran[x]), Rank(ran[y]))
        BY <2>2, <3>1, <3>2 DEF LoaderInv, CallsInOrder
      <4>2. QED
        BY <1>5, <3>1, <3>2, <4>1 DEF Precedes
    <3>3. CASE y = last
      BY <1>4, <1>5, <2>1, <3>1, <3>3 DEF Precedes
    <3>4. QED
      BY <3>1, <3>2, <3>3
  <2>3. QED
    BY <2>2 DEF CallsInOrder
<1>7. CallsPrecede'
  <2>1. Rank(ran[last])' = r
    BY <1>1, <1>5 DEF Rank
  <2>2. \A x \in Calls : pc' \notin {"exit", "crashed"} => Precedes(Rank(ran[x]), Position')
    BY <1>4, PrecedesOrders
  <2>3. QED
    BY <1>1, <1>5, <2>1, <2>2 DEF CallsPrecede
<1>8. QED
  BY <1>3, <1>6, <1>7

LEMMA LoaderCallsInv ==
  ASSUME SymbolsInv, LoaderInv, LoaderNext
  PROVE  CallsKnown' /\ CallsPrecede' /\ CallsInOrder'
<1>1. /\ LoaderTypeOK /\ Stage /\ NMod \in Nat /\ k \in Nat \ {0}
      /\ a \in Nat \ {0} /\ n \in Nat /\ obj' = obj
  BY SymbolsAssumption, ObjectsStay DEF LoaderInv, LoaderTypeOK, SymbolsInv, TypeOK
<1>2. pc \in Loading => k \in Mod /\ Len(obj[k].arrays) \in Nat
  BY <1>1, ObjectTypes DEF Stage
<1>3. CASE MoveModule \/ UpdateSymbols \/ SymbolsUpdated \/ RelocateSymbol \/ ModProtect
  <2>1. Position = <<k, 0, 0>> /\ pc \notin {"exit", "crashed"} /\ ran' = ran /\ k' = k
    BY <1>3, ResolvingStep DEF Position, Resolving
  <2>2. Position' = <<k, 0, 0>> \/ Position' = <<k, 1, 0>>
    BY <1>1, <1>3, ResolvingStep DEF Position, Resolving, Stage
  <2>3. Position \in Triple /\ Position' \in Triple
    BY <1>1, <2>1, <2>2 DEF Triple
  <2>4. Position' = Position \/ Precedes(Position, Position')
    BY <1>1, <2>1, <2>2 DEF Precedes
  <2>5. QED
    BY <1>1, <2>1, <2>3, <2>4, NoCall
<1>4. CASE DivideByZero
  BY <1>1, <1>4, NoCall DEF DivideByZero
<1>5. CASE CallInit \/ CrashInInit
  <2> DEFINE at == <<k, a, n + 1>>
  <2>1. /\ pc = "init_array" /\ ran' = Append(ran, Call("init_array", at))
        /\ at \in Mod \X Nat \X Nat /\ at \in Triple
    BY <1>1, <1>2, <1>5, ModNumbers
       DEF CallInit, CrashInInit, InArray, Returns, Crashes, Loading, Triple
  <2>2. Position = <<k, a, IF n = 0 THEN 0 ELSE n + 1>> /\ Position \in Triple
    BY <1>1, <2>1 DEF Position, Triple
  <2>3. Position = at \/ Precedes(Position, at)
    BY <1>1, <2>2 DEF Precedes
  <2>4. pc' = "crashed" \/ (Position' \in Triple /\ Precedes(at, Position'))
    <3>1. CASE CallInit
      <4>1. Position' = <<k, a, n + 2>>
        BY <1>1, <3>1 DEF CallInit, InArray, Position, vars
      <4>2. QED
        BY <1>1, <4>1 DEF Precedes, Triple
    <3>2. CASE CrashInInit
      BY <3>2, CrashStep
    <3>3. QED
      BY <1>5, <3>1, <3>2
  <2>5. Rank(Call("init_array", at)) = at
    BY DEF Rank, Call
  <2> HIDE DEF at
  <2>6. QED
    BY <1>1, <2>1, <2>2, <2>3, <2>4, <2>5, OneCall DEF Functions, Places
<1>6. CASE EndArray
  <2>1. /\ pc = "init_array" /\ pc' = pc /\ ran' = ran
        /\ Position = <<k, a, IF n = 0 THEN 0 ELSE n + 1>> /\ Position' = <<k, a + 1, 0>>
    BY <1>6 DEF EndArray, InArray, Position, vars
  <2>2. Position \in Triple /\ Position' \in Triple /\ Precedes(Position, Position')
    BY <1>1, <2>1 DEF Precedes, Triple
  <2>3. QED
    BY <1>1, <2>1, <2>2, NoCall
<1>7. CASE EndInits
  <2>1. /\ pc = "init_array" /\ pc' = "Construct" /\ ran' = ran /\ a > Len(obj[k].arrays)
        /\ k' = k
    BY <1>7 DEF EndInits, vars
  <2>2. a = Len(obj[k].arrays) + 1 /\ n = 0
    BY <1>1, <1>2, <2>1 DEF Stage, Loading
  <2>3. Position = <<k, a, 0>> /\ Position' = <<k, a, 0>>
    BY <1>1, <2>1, <2>2 DEF Position
  <2>4. QED
    BY <1>1, <2>1, <2>3, NoCall DEF Triple
<1>8. CASE CallConstruct \/ CrashInConstruct
  <2>1. /\ pc = "Construct" /\ func[k] # Unbound
        /\ ran' = Append(ran, Call("Construct", func[k]))
    BY <1>8 DEF CallConstruct, CrashInConstruct, Returns, Crashes
  <2>2. k \in Mod /\ func[k] \in Address /\ func[k][1] = k /\ Len(obj[k].arrays) \in Nat
    BY <1>2, <2>1, TargetTypes DEF Loading
  <2> DEFINE r == <<k, Len(obj[k].arrays) + 1, 0>>
  <2>3. Rank(Call("Construct", func[k])) = r /\ Position = r /\ r \in Triple
    <3>1. PICK call : call = Call("Construct", func[k])
      OBVIOUS
    <3>2. call.fn = "Construct" /\ call.at[1] = k
      BY <2>2, <3>1 DEF Call
    <3>3. Rank(call) = r
      BY <3>2 DEF Rank
    <3>4. Position = r /\ r \in Triple
      BY <1>1, <2>1, <2>2 DEF Position, Triple
    <3>5. QED
      BY <3>1, <3>3, <3>4
  <2>4. pc' = "crashed" \/ (Position' \in Triple /\ Precedes(r, Position'))
    <3>1. CASE CallConstruct
      <4>1. Position' = <<k + 1, 0, 0>>
        BY <3>1 DEF CallConstruct, Position, vars
      <4>2. QED
        BY <1>1, <2>2, <4>1 DEF Precedes, Triple
    <3>2. CASE CrashInConstruct
      BY <3>2, CrashStep
    <3>3. QED
      BY <1>8, <3>1, <3>2
  <2> HIDE DEF r
  <2>5. QED
    BY <1>1, <2>1, <2>2, <2>3, <2>4, OneCall DEF Functions, Places
<1>9. CASE NoConstruct
  <2>1. /\ pc = "Construct" /\ pc' = "next" /\ ran' = ran
        /\ Position = <<k, Len(obj[k].arrays) + 1, 0>> /\ Position' = <<k + 1, 0, 0>>
    BY <1>9 DEF NoConstruct, Position, vars
  <2>2. Position \in Triple /\ Position' \in Triple /\ Precedes(Position, Position')
    BY <1>1, <1>2, <2>1 DEF Precedes, Triple, Loading
  <2>3. QED
    BY <1>1, <2>1, <2>2, NoCall
<1>10. CASE NextObject
  <2>1. /\ pc = "next" /\ pc' \in {"entry", "move_module"} /\ ran' = ran
        /\ Position = <<k + 1, 0, 0>> /\ Position' = <<k + 1, 0, 0>>
    BY <1>10 DEF NextObject, EndTable, Position
  <2>2. QED
    BY <1>1, <2>1, NoCall DEF Triple
<1>11. CASE CallEntry \/ CrashInEntry
  <2>1. /\ pc = "entry" /\ Entry \in Address /\ ran' = Append(ran, Call("entry", Entry))
        /\ pc' \in {"exit", "crashed"} /\ k = NMod + 1
    BY <1>1, <1>11, TargetTypes DEF CallEntry, CrashInEntry, Returns, Crashes, Stage
  <2>2. Position = <<k, 0, 0>> /\ Rank(Call("entry", Entry)) = <<k, 0, 0>>
    BY <2>1 DEF Rank, Call, Position
  <2>3. <<k, 0, 0>> \in Triple
    BY <1>1 DEF Triple
  <2>4. QED
    BY <1>1, <2>1, <2>2, <2>3, OneCall DEF Functions, Places
<1>12. CASE NoEntry
  BY <1>1, <1>12, NoCall DEF NoEntry
<1>13. QED
  BY <1>3, <1>4, <1>5, <1>6, <1>7, <1>8, <1>9, <1>10, <1>11, <1>12 DEF LoaderNext

-----------------------------------------------------------------------------
(***************************************************************************)
(* The calls are complete                                                  *)
(***************************************************************************)

\* Calls that were made are never taken back.
LEMMA CallsRemain ==
  ASSUME SymbolsInv, LoaderInv, LoaderNext
  PROVE  /\ \A call : (\E x \in Calls : ran[x] = call) => \E x \in Calls' : ran'[x] = call
         /\ \A call : ran' = Append(ran, call) => \E x \in Calls' : ran'[x] = call
<1>1. ran \in Seq(CallSet) /\ Len(ran) \in Nat /\ Calls = 1 .. Len(ran)
  BY CallTypes DEF LoaderInv
<1>2. CASE ran' = ran
  <2>1. \A call : ran' # Append(ran, call)
    BY <1>1, <1>2
  <2>2. QED
    BY <1>2, <2>1 DEF Calls
<1>3. ASSUME NEW fn \in Functions, NEW at \in Places, ran' = Append(ran, Call(fn, at))
      PROVE  /\ \A call : (\E x \in Calls : ran[x] = call) => \E x \in Calls' : ran'[x] = call
             /\ \A call : ran' = Append(ran, call) => \E x \in Calls' : ran'[x] = call
  <2>1. /\ Len(ran') = Len(ran) + 1 /\ Calls' = 1 .. Len(ran) + 1
        /\ \A x \in Calls : ran'[x] = ran[x]
    BY <1>1, <1>3 DEF Calls
  <2>2. \A call : ran' = Append(ran, call) => ran'[Len(ran) + 1] = call
    BY <1>1
  <2>3. QED
    BY <1>1, <2>1, <2>2
<1>4. QED
  BY <1>2, <1>3, StepMakesOneCall

\* The constructors a step comes past are those it calls.
LEMMA StepPasses ==
  ASSUME SymbolsInv, LoaderInv, LoaderNext,
         NEW o \in Mod, NEW s \in DOMAIN obj[o].arrays,
         NEW c \in 1 .. InitCount(obj[o].arrays[s]), Passed(o, s, c)'
  PROVE  Passed(o, s, c) \/ ran' = Append(ran, Call("init_array", <<o, s, c>>))
<1>1. /\ LoaderTypeOK /\ Stage /\ NMod \in Nat /\ k \in Nat \ {0}
      /\ a \in Nat \ {0} /\ n \in Nat /\ obj' = obj /\ pc' # "crashed"
  BY SymbolsAssumption, ObjectsStay DEF LoaderInv, LoaderTypeOK, SymbolsInv, TypeOK, Passed
<1>2. /\ o \in Nat \ {0} /\ s \in 1 .. Len(obj[o].arrays) /\ Len(obj[o].arrays) \in Nat
      /\ c \in Nat /\ 1 <= c /\ c <= InitCount(obj[o].arrays[s])
      /\ InitCount(obj[o].arrays[s]) \in Nat
  BY <1>1, ModNumbers, ObjectTypes
<1>3. CASE MoveModule \/ UpdateSymbols \/ SymbolsUpdated \/ RelocateSymbol \/ ModProtect
  BY <1>1, <1>2, <1>3, ResolvingStep DEF Passed, Resolving, Stage
<1>4. CASE CallInit
  <2>1. /\ pc = "init_array" /\ pc' = pc /\ k' = k /\ a' = a /\ n' = n + 1
        /\ ran' = Append(ran, Call("init_array", <<k, a, n + 1>>))
    BY <1>4 DEF CallInit, InArray, Returns, vars
  <2>2. Passed(o, s, c) \/ (o = k /\ s = a /\ c = n + 1)
    BY <1>1, <1>2, <2>1 DEF Passed
  <2>3. QED
    BY <2>1, <2>2
<1>5. CASE EndArray
  <2>1. /\ pc = "init_array" /\ pc' = pc /\ k' = k /\ a' = a + 1 /\ n' = 0
        /\ n = InitCount(obj[k].arrays[a])
    BY <1>5 DEF EndArray, InArray, Array, vars
  <2>2. QED
    BY <1>1, <1>2, <2>1 DEF Passed
<1>6. CASE EndInits
  <2>1. /\ pc = "init_array" /\ pc' = "Construct" /\ k' = k /\ a > Len(obj[k].arrays)
    BY <1>6 DEF EndInits, vars
  <2>2. QED
    BY <1>1, <1>2, <2>1 DEF Passed
<1>7. CASE CallConstruct \/ NoConstruct
  BY <1>1, <1>2, <1>7 DEF CallConstruct, NoConstruct, Passed, vars
<1>8. CASE NextObject
  <2>1. /\ pc = "next" /\ pc' \in {"entry", "move_module"} /\ k' = k + 1
    BY <1>8 DEF NextObject, EndTable
  <2>2. QED
    BY <1>1, <1>2, <2>1 DEF Passed
<1>9. CASE CallEntry \/ NoEntry
  BY <1>1, <1>2, <1>9 DEF CallEntry, NoEntry, Passed, vars
<1>10. QED
  BY <1>1, <1>3, <1>4, <1>5, <1>6, <1>7, <1>8, <1>9, CrashStep DEF LoaderNext

LEMMA LoaderMadeInv ==
  ASSUME SymbolsInv, LoaderInv, LoaderNext
  PROVE  InitsMade' /\ ConstructsMade' /\ EntryMade'
<1>1. /\ LoaderTypeOK /\ Stage /\ NMod \in Nat /\ k \in Nat \ {0} /\ obj' = obj
      /\ func \in [Mod -> Address \cup {Unbound}]
  BY SymbolsAssumption, ObjectsStay DEF LoaderInv, SymbolsInv, TypeOK
<1>2. InitsMade'
  <2> SUFFICES ASSUME NEW o \in Mod, NEW s \in DOMAIN obj[o].arrays,
                      NEW c \in 1 .. InitCount(obj[o].arrays[s]), Passed(o, s, c)'
               PROVE  \E x \in Calls' : ran'[x] = Call("init_array", <<o, s, c>>)
    BY <1>1 DEF InitsMade, InitCount, Call
  <2>1. CASE Passed(o, s, c)
    BY <2>1, CallsRemain DEF LoaderInv, InitsMade
  <2>2. CASE ~Passed(o, s, c)
    BY <2>2, StepPasses, CallsRemain
  <2>3. QED
    BY <2>1, <2>2
<1>3. ConstructsMade'
  <2> SUFFICES ASSUME NEW o \in Mod, func'[o] # Unbound, pc' # "crashed",
                      o < k' \/ (o = k' /\ pc' = "next")
               PROVE  \E x \in Calls' : ran'[x] = Call("Construct", func'[o])
    BY DEF ConstructsMade, Call
  <2>0. o \in Nat
    BY ModNumbers
  <2>1. CASE MoveModule \/ UpdateSymbols \/ SymbolsUpdated \/ RelocateSymbol \/ ModProtect
    <3>1. o < k /\ func'[o] = func[o] /\ pc # "crashed"
      BY <1>1, <2>0, <2>1, ResolvingStep DEF Resolving
    <3>2. QED
      BY <3>1, CallsRemain DEF LoaderInv, ConstructsMade
  <2>2. CASE CallConstruct
    <3>1. /\ func' = func /\ k' = k /\ pc = "Construct"
          /\ ran' = Append(ran, Call("Construct", func[k]))
      BY <2>2 DEF CallConstruct, Returns, vars
    <3>2. CASE o = k
      BY <3>1, <3>2, CallsRemain
    <3>3. CASE o < k
      BY <3>1, <3>3, CallsRemain DEF LoaderInv, ConstructsMade
    <3>4. QED
      BY <3>1, <3>2, <3>3
  <2>3. CASE NoConstruct
    <3>1. func' = func /\ k' = k /\ pc = "Construct" /\ func[k] = Unbound
      BY <2>3 DEF NoConstruct, vars
    <3>2. o < k
      BY <1>1, <2>0, <3>1
    <3>3. QED
      BY <3>1, <3>2, CallsRemain DEF LoaderInv, ConstructsMade
  <2>4. CASE NextObject
    <3>1. func' = func /\ k' = k + 1 /\ pc = "next"
      BY <2>4 DEF NextObject, EndTable
    <3>2. o < k \/ o = k
      BY <1>1, <2>0, <2>4, <3>1 DEF NextObject
    <3>3. QED
      BY <3>1, <3>2, CallsRemain DEF LoaderInv, ConstructsMade
  <2>5. CASE CallInit \/ EndArray \/ EndInits \/ CallEntry \/ NoEntry
    <3>1. func' = func /\ k' = k /\ pc # "crashed" /\ pc' # "next"
      BY <2>5 DEF CallInit, EndArray, EndInits, InArray, CallEntry, NoEntry, vars
    <3>2. QED
      BY <3>1, CallsRemain DEF LoaderInv, ConstructsMade
  <2>6. QED
    BY <2>1, <2>2, <2>3, <2>4, <2>5, CrashStep DEF LoaderNext
<1>4. EntryMade'
  <2> SUFFICES ASSUME pc' = "exit", Entry' # Unbound
               PROVE  \E x \in Calls' : ran'[x].fn = "entry"
    BY DEF EntryMade
  <2>1. CASE CallEntry
    <3>1. ran' = Append(ran, Call("entry", Entry))
      BY <2>1 DEF CallEntry, Returns
    <3>2. \E x \in Calls' : ran'[x] = Call("entry", Entry)
      BY <3>1, CallsRemain
    <3>3. QED
      BY <3>2 DEF Call
  <2>2. CASE NoEntry
    BY <2>2 DEF NoEntry, vars, Entry
  <2>3. QED
    BY <1>1, <2>1, <2>2, CrashStep, ResolvingStep
       DEF LoaderNext, CallInit, EndArray, EndInits, InArray, CallConstruct, NoConstruct,
           NextObject, Resolving
<1>5. QED
  BY <1>2, <1>3, <1>4

-----------------------------------------------------------------------------
(***************************************************************************)
(* The properties                                                          *)
(***************************************************************************)

LEMMA LoaderInvInit == LoaderInit => LoaderInv
<1> SUFFICES ASSUME LoaderInit PROVE LoaderInv
  OBVIOUS
<1>1. /\ obj \in [Mod -> Objects \cup {NoObject}] /\ table = [o \in Mod |-> obj[o].symtab]
      /\ mapped = {} /\ exec = {} /\ links = [o \in Mod |-> {}] /\ ran = <<>>
      /\ faults \subseteq Mod /\ a = 1 /\ n = 0 /\ k = 1
      /\ pc = IF NMod = 0 THEN "exit" ELSE "move_module"
      /\ SymbolsInv /\ NMod \in Nat
  BY LoaderInitIsInit, SymbolsInvInit, SymbolsAssumption DEF LoaderInit, Init
<1>2. Calls = {}
  BY <1>1 DEF Calls
<1>3. LoaderTypeOK
  BY <1>1 DEF LoaderTypeOK
<1>4. Stage
  BY <1>1 DEF Stage, Loading, Mod
<1>5. CallsKnown /\ CallsPrecede /\ CallsInOrder
  BY <1>2 DEF CallsKnown, CallsPrecede, CallsInOrder
<1>6. InitsMade
  <2>1. \A o \in Mod : o \in Nat \ {0}
    BY ModNumbers
  <2>2. QED
    BY <1>1, <2>1 DEF InitsMade, Passed
<1>7. ConstructsMade
  BY <1>1, ModNumbers DEF ConstructsMade
<1>8. EntryMade
  <2>1. CASE NMod = 0
    <3>1. Exports("_start") = {} /\ Exports("APP_Root") = {}
      BY <2>1, SymbolsAssumption DEF Exports, Done, Mod
    <3>2. "_start" \notin Host /\ "APP_Root" \notin Host
      BY LoaderAssumption
    <3>3. QED
      BY <1>1, <3>1, <3>2, LoaderAssumption DEF EntryMade, Entry, SymbolsInv, FirstDefinitionWins
  <2>2. CASE NMod # 0
    BY <1>1, <2>2 DEF EntryMade
  <2>3. QED
    BY <2>1, <2>2
<1>9. QED
  BY <1>3, <1>4, <1>5, <1>6, <1>7, <1>8 DEF LoaderInv

LEMMA LoaderInvStutter == LoaderInv /\ UNCHANGED allVars => LoaderInv'
<1> SUFFICES ASSUME LoaderInv, UNCHANGED allVars PROVE LoaderInv'
  OBVIOUS
<1>1. /\ UNCHANGED <<table, env, func, k, obj, mapped, exec, links, ran, faults, a, n, pc>>
  BY DEF allVars
<1>2. LoaderTypeOK' /\ Stage'
  BY <1>1 DEF LoaderInv, LoaderTypeOK, Stage
<1>3. CallsKnown' /\ CallsInOrder' /\ CallsPrecede'
  <2>1. Position' = Position /\ \A x \in Calls : Rank(ran[x])' = Rank(ran[x])
    BY <1>1 DEF Position, Rank
  <2>2. QED
    BY <1>1, <2>1, RankStays DEF LoaderInv, CallsKnown, CallsInOrder, CallsPrecede, Calls
<1>4. InitsMade' /\ ConstructsMade' /\ EntryMade'
  BY <1>1 DEF LoaderInv, InitsMade, Passed, ConstructsMade, EntryMade, Entry, Calls
<1>5. QED
  BY <1>2, <1>3, <1>4 DEF LoaderInv

LEMMA LoaderInvHolds == LoaderSpec => []LoaderInv
<1>1. SymbolsInv /\ LoaderInv /\ [LoaderNext]_allVars => LoaderInv'
  BY LoaderTypeInv, LoaderStageInv, LoaderCallsInv, LoaderMadeInv, LoaderInvStutter
     DEF LoaderInv
<1>2. QED
  BY <1>1, LoaderInvInit, LoaderKeepsSymbols, PTL DEF LoaderSpec

\* Type correctness of Loader; only code of a mapped image may be executed.
THEOREM LoaderTypeCorrect == LoaderSpec => []LoaderTypeOK
<1>1. LoaderInv => LoaderTypeOK
  BY DEF LoaderInv
<1>2. QED
  BY <1>1, LoaderInvHolds, PTL

\* No call is made twice or out of order (module.cpp:379-397, umko.cpp:84-94).
THEOREM LoaderCallsInOrder == LoaderSpec => []CallsInOrder
<1>1. LoaderInv => CallsInOrder
  BY DEF LoaderInv
<1>2. QED
  BY <1>1, LoaderInvHolds, PTL

\* When the program exits it has called every initialiser there is, and the
\* entry (module.cpp:379-397, umko.cpp:84-94).
THEOREM LoaderCallsComplete == LoaderSpec => []CallsComplete
<1>1. SymbolsInv /\ LoaderInv => CallsComplete
  <2> SUFFICES ASSUME SymbolsInv, LoaderInv, pc = "exit" PROVE CallsComplete
    BY DEF CallsComplete
  <2>1. \A o \in Mod : o < k /\ pc # "crashed"
    BY ModNumbers DEF LoaderInv, Stage
  <2>2. \A o \in Mod : \A s \in DOMAIN obj[o].arrays :
          \A c \in 1 .. InitCount(obj[o].arrays[s]) :
            \E x \in Calls : ran[x] = Call("init_array", <<o, s, c>>)
    BY <2>1 DEF LoaderInv, InitsMade, Passed
  <2>3. \A o \in Mod :
          func[o] # Unbound => \E x \in Calls : ran[x] = Call("Construct", func[o])
    BY <2>1 DEF LoaderInv, ConstructsMade
  <2>4. ASSUME NEW name \in {"_start", "APP_Root"}, Exports(name) # {}
        PROVE  \E x \in Calls : ran[x].fn = "entry"
    <3>1. name \in Names /\ name \notin Host
      BY LoaderAssumption
    <3>2. env[name] # Unbound
      BY <2>4, <3>1, AddressesDiffer DEF SymbolsInv, FirstDefinitionWins, Exports, Done
    <3>3. Entry # Unbound
      BY <3>2 DEF Entry
    <3>4. QED
      BY <3>3 DEF LoaderInv, EntryMade
  <2>5. QED
    BY <2>2, <2>3, <2>4 DEF CallsComplete
<1>2. QED
  BY <1>1, LoaderInvHolds, LoaderKeepsSymbols, PTL

-----------------------------------------------------------------------------
(***************************************************************************)
(* What is linked is initialised                                           *)
(***************************************************************************)

\* Address b is none of an object behind object o.
Backward(b, o) == b \in Mod \X (1 .. MaxSym) => b[1] <= o

ValuesBackward ==
  /\ \A o \in Mod : \A s \in 1 .. Len(table[o]) : Backward(value[o][s], o)
  /\ Backward(newValue, k)

LinksBackward == \A o \in Mod : \A b \in links[o] : Backward(b, o)

LEMMA NoAddressIsBackward ==
  /\ \A o : Backward(Raw, o) /\ Backward(Refused, o) /\ Backward(Astray, o)
  /\ \A name \in Host : \A o : Backward(HostAddress(name), o)
BY ModNumbers DEF Backward, Raw, Refused, Astray, HostAddress

\* SysEnv holds what was loaded so far.
LEMMA EnvIsBackward ==
  ASSUME SymbolsInv, NEW name \in Names, env[name] # Unbound
  PROVE  Backward(env[name], k)
<1>1. CASE name \in Host
  BY <1>1, NoAddressIsBackward DEF SymbolsInv, FirstDefinitionWins
<1>2. CASE name \notin Host
  <2>1. PICK p \in Exports(name) : env[name] = At(p[1], p[2])
    BY <1>2 DEF SymbolsInv, FirstDefinitionWins
  <2>2. p \in Mod \X (1 .. MaxSym) /\ Before(p, <<k, j>>) /\ At(p[1], p[2]) = p
    BY AddressesDiffer DEF Exports, Done
  <2>3. p[1] \in Nat /\ k \in Nat
    BY <2>2, PositionTypes DEF SymbolsInv
  <2>4. QED
    BY <2>1, <2>2, <2>3 DEF Before, Backward
<1>3. QED
  BY <1>1, <1>2

LEMMA ValuesBackwardInit == Init => ValuesBackward
<1> SUFFICES ASSUME Init PROVE ValuesBackward
  OBVIOUS
<1>1. \A o \in Mod : \A s \in 1 .. Len(table[o]) : value[o][s] = Raw
  BY DEF Init
<1>2. newValue = Raw
  BY DEF Init
<1>3. QED
  BY <1>1, <1>2, NoAddressIsBackward DEF ValuesBackward

\* A value that update_symbol writes for the current symbol.
LEMMA UpdateIsBackward ==
  ASSUME SymbolsInv, ValuesBackward, Updating, NEW v \in Values, Update(v), Backward(v, k),
         table' = table, k' = k
  PROVE  ValuesBackward'
<1>1. /\ value' = [value EXCEPT ![k][j] = v] /\ newValue' = v /\ TypeOK
  BY DEF Update, SymbolsInv
<1>2. /\ value'[k][j] = v
      /\ \A p \in Mod \X (1 .. MaxSym) :
           (p[2] <= Len(table[p[1]]) /\ p # <<k, j>>)
             => value'[p[1]][p[2]] = value[p[1]][p[2]]
  BY <1>1, UpdateOne
<1>3. ASSUME NEW o \in Mod, NEW s \in 1 .. Len(table[o])
      PROVE  Backward(value'[o][s], o)
  <2>1. <<o, s>> \in Mod \X (1 .. MaxSym) /\ s <= Len(table[o])
    <3>1. Len(table[o]) \in 0 .. MaxSym /\ MaxSym \in Nat
      BY <1>1, TableTypes, SymbolsAssumption
    <3>2. QED
      BY <3>1
  <2>2. CASE <<o, s>> = <<k, j>>
    BY <1>2, <2>2
  <2>3. CASE <<o, s>> # <<k, j>>
    <3>1. value'[o][s] = value[o][s]
      BY <1>2, <2>1, <2>3
    <3>2. QED
      BY <3>1, <1>3 DEF ValuesBackward
  <2>4. QED
    BY <2>2, <2>3
<1>4. QED
  BY <1>1, <1>3 DEF ValuesBackward, Backward

LEMMA ValuesBackwardNext ==
  ASSUME Garbage \cap Address = {}, SymbolsInv, ValuesBackward, [Next]_vars
  PROVE  ValuesBackward'
<1>0. /\ TypeOK /\ k \in Nat /\ newValue \in Values
      /\ \A b \in Garbage : \A o : Backward(b, o)
  <2>1. \A b \in Garbage : \A o : Backward(b, o)
    BY DEF Backward, Address
  <2>2. QED
    BY <2>1, PositionTypes DEF SymbolsInv, TypeOK
<1>1. CASE StartTable
  BY <1>0, <1>1 DEF StartTable, ValuesBackward, Backward
<1>2. ASSUME Updating, Update(At(k, j)), table' = table, k' = k
      PROVE  ValuesBackward'
  <2>1. At(k, j) = <<k, j>> /\ <<k, j>> \in Address
    BY <1>0, <1>2, CurrentTypes
  <2>2. Backward(At(k, j), k) /\ At(k, j) \in Values
    BY <1>0, <2>1 DEF Backward, Values
  <2>3. QED
    BY <1>2, <2>2, UpdateIsBackward
<1>3. CASE SectionSymbol
  BY <1>2, <1>3 DEF SectionSymbol
<1>4. CASE LocalDefinition
  BY <1>2, <1>4 DEF LocalDefinition
<1>5. CASE ExportedDefinition
  BY <1>2, <1>5 DEF ExportedDefinition
<1>6. CASE ImportFound
  <2>1. Updating /\ Sym.name \in Names /\ env[Sym.name] # Unbound
    BY <1>0, <1>6, CurrentTypes DEF ImportFound, Known
  <2>2. env[Sym.name] \in Values
    BY <1>0, <2>1 DEF TypeOK, Values
  <2>3. QED
    BY <1>6, <2>1, <2>2, EnvIsBackward, UpdateIsBackward DEF ImportFound
<1>7. CASE ImportMissing \/ InvalidSymbol
  BY <1>7 DEF ImportMissing, InvalidSymbol, ValuesBackward, Backward
<1>8. CASE OtherSymbol
  BY <1>0, <1>8, UpdateIsBackward DEF OtherSymbol, ValuesBackward
<1>9. CASE EndTable
  BY <1>9, NoAddressIsBackward DEF EndTable, ValuesBackward, Backward
<1>10. CASE UNCHANGED vars
  BY <1>10 DEF vars, ValuesBackward, Backward
<1>11. QED
  BY <1>1, <1>3, <1>4, <1>5, <1>6, <1>7, <1>8, <1>9, <1>10 DEF Next

LEMMA LinksBackwardNext ==
  ASSUME SymbolsInv, LoaderInv, ValuesBackward, LinksBackward, [LoaderNext]_allVars
  PROVE  LinksBackward'
<1>1. CASE RelocateSymbol
  <2>1. k \in Mod /\ links \in [Mod -> SUBSET (Values \cup {Refused, Astray})]
    BY <1>1 DEF RelocateSymbol, LoaderInv, LoaderTypeOK, Stage, Loading
  <2>2. \A x \in obj[k].relocs : Backward(ValueAt(<<k, x>>), k)
    <3>1. \A x \in obj[k].relocs : x \in 1 .. Len(table[k])
      BY <2>1, ObjectTypes DEF LoaderInv
    <3>2. QED
      BY <2>1, <3>1 DEF ValuesBackward, ValueAt
  <2>3. PICK all : /\ links' = [links EXCEPT ![k] = all]
                   /\ all \subseteq {ValueAt(<<k, x>>) : x \in obj[k].relocs}
                                      \cup {Refused, Astray}
    BY <1>1, NewLinks
  <2>4. \A b \in links'[k] : Backward(b, k)
    BY <2>1, <2>2, <2>3, NoAddressIsBackward
  <2>5. \A o \in Mod : o # k => links'[o] = links[o]
    BY <2>1, <2>3
  <2>6. QED
    BY <2>4, <2>5 DEF LinksBackward, Backward
<1>2. CASE ~RelocateSymbol
  <2>1. links' = links
    BY <1>2 DEF LoaderNext, MoveModule, UpdateSymbols, SymbolsUpdated, ModProtect,
                DivideByZero, CallInit, CrashInInit, EndArray, EndInits, CallConstruct,
                CrashInConstruct, NoConstruct, NextObject, CallEntry, CrashInEntry,
                NoEntry, loaderVars, allVars
  <2>2. QED
    BY <2>1 DEF LinksBackward, Backward
<1>3. QED
  BY <1>1, <1>2

\* A later call that is not the entry is of the same or of a later object.
LEMMA LaterCalls ==
  ASSUME LoaderInv, NEW x \in Calls, NEW y \in Calls, x < y,
         ran[x].at[1] \in Mod, ran[y].fn # "entry"
  PROVE  ran[x].fn # "entry" => ran[x].at[1] <= ran[y].at[1]
<1> SUFFICES ASSUME ran[x].fn # "entry" PROVE ran[x].at[1] <= ran[y].at[1]
  OBVIOUS
<1>1. LoaderTypeOK /\ CallsKnown /\ Precedes(Rank(ran[x]), Rank(ran[y]))
  BY DEF LoaderInv, CallsInOrder
<1>2. ran[x].fn \in {"init_array", "Construct"} /\ ran[y].fn \in {"init_array", "Construct"}
  BY <1>1, CallTypes DEF Functions
<1>3. Rank(ran[x])[1] = ran[x].at[1] /\ Rank(ran[y])[1] = ran[y].at[1]
  BY <1>2 DEF Rank
<1>4. ran[x].at[1] \in Nat /\ ran[y].at[1] \in Nat
  BY <1>1, <1>2, ModNumbers DEF CallsKnown
<1>5. QED
  BY <1>1, <1>3, <1>4 DEF Precedes

\* Whatever code of an object is linked to has been initialised when it runs,
\* if what newValue holds at the start of a table is not by accident the address
\* of a symbol (module.cpp:217, 379-397, umko.cpp:84-88).
THEOREM LoaderLinkedIsInitialised ==
  ASSUME Garbage \cap Address = {}
  PROVE  LoaderSpec => []LinkedIsInitialised
<1>1. LoaderInit => ValuesBackward /\ LinksBackward
  <2>1. LoaderInit => LinksBackward
    BY DEF LoaderInit, LinksBackward
  <2>2. QED
    BY <2>1, LoaderInitIsInit, ValuesBackwardInit
<1>2. SymbolsInv /\ LoaderInv /\ ValuesBackward /\ LinksBackward /\ [LoaderNext]_allVars
        => ValuesBackward' /\ LinksBackward'
  BY StepIsResolution, ValuesBackwardNext, LinksBackwardNext
<1>3. SymbolsInv /\ LoaderInv /\ LinksBackward => LinkedIsInitialised
  <2> SUFFICES ASSUME LoaderInv, LinksBackward,
                      NEW x \in Calls, NEW y \in Calls, x < y, ran[x].at[1] \in Mod,
                      ran[y].fn # "entry", ran[y].at[1] # ran[x].at[1]
               PROVE  ran[y].at[1] \notin Reached(ran[x].at[1])
    BY DEF LinkedIsInitialised
  <2>1. LoaderTypeOK /\ CallsKnown /\ Precedes(Rank(ran[x]), Rank(ran[y]))
    BY DEF LoaderInv, CallsInOrder
  <2>2. ran[y].fn \in {"init_array", "Construct"}
    BY <2>1, CallTypes DEF Functions
  <2>3. ran[y].at[1] \in Mod
    BY <2>1, <2>2, ModNumbers DEF CallsKnown
  <2>4. ran[x].fn # "entry"
    <3>1. SUFFICES ASSUME ran[x].fn = "entry" PROVE FALSE
      OBVIOUS
    <3>2. Rank(ran[x])[1] = NMod + 1 /\ Rank(ran[y])[1] = ran[y].at[1]
      BY <2>2, <3>1 DEF Rank
    <3>3. NMod \in Nat /\ ran[y].at[1] \in Nat /\ ran[y].at[1] <= NMod
      BY <2>3, SymbolsAssumption DEF Mod
    <3>4. QED
      BY <2>1, <3>2, <3>3 DEF Precedes
  <2>5. PICK o \in Mod, p \in Mod : o = ran[x].at[1] /\ p = ran[y].at[1]
    BY <2>3
  <2>6. o \in Nat /\ p \in Nat /\ o < p
    <3>1. o <= p /\ o # p
      BY <2>4, <2>5, LaterCalls
    <3>2. QED
      BY <2>5, <3>1, ModNumbers
  <2>7. \A b \in links[o] : b \in Address /\ b[1] \in Mod => b[1] <= o
    <3>1. \A b \in Address : b[1] \in Mod => b \in Mod \X (1 .. MaxSym)
      BY ModNumbers DEF Address, HostAddress
    <3>2. QED
      BY <3>1 DEF LinksBackward, Backward
  <2>8. \A to \in Reached(o) : to <= o
    BY <2>6, <2>7 DEF Reached
  <2>9. ~ p <= o
    BY <2>6
  <2>10. QED
    BY <2>5, <2>8, <2>9
<1>4. QED
  BY <1>1, <1>2, <1>3, LoaderInvHolds, LoaderKeepsSymbols, PTL DEF LoaderSpec

-----------------------------------------------------------------------------
(***************************************************************************)
(* A crash has a cause                                                     *)
(***************************************************************************)

AfterProtection == {"init_array", "Construct", "next"}
AfterRelocation == {"mod_protect"} \cup AfterProtection
AfterMove       == {"layout_symbol_addr", "relocate_symbol"} \cup AfterRelocation

\* Loading of object o has come past some stage.
Behind(o, stages) == o < k \/ (o = k /\ pc \in stages)

\* An object for which no step failed is mapped, linked and executable when the
\* steps for it have been taken.
FaultlessLoaded ==
  /\ pc \in {"relocate_symbol"} \cup AfterRelocation => j = Len(table[k]) + 1
  /\ pc # "crashed" =>
       \A o \in Mod \ faults :
         /\ Behind(o, AfterMove) => o \in mapped
         /\ Behind(o, AfterRelocation) =>
              links[o] \subseteq {ValueAt(<<o, x>>) : x \in obj[o].relocs} \cup {Astray}
         /\ Behind(o, AfterProtection) => o \in exec

\* Nothing stands in the way of the code of a clean object.
LEMMA CleanIsSafe ==
  ASSUME SymbolsInv, LoaderInv, FaultlessLoaded, pc # "crashed",
         NEW o \in Mod, Clean(o), Behind(o, AfterProtection)
  PROVE  /\ o \in exec /\ ~obj[o].sealed
         /\ \A to \in links[o] :
              to \in Address /\ (to[1] \in Mod => Behind(to[1], AfterProtection))
<1>1. /\ o \in exec /\ ~obj[o].sealed
      /\ links[o] \subseteq {ValueAt(<<o, x>>) : x \in obj[o].relocs}
  BY DEF FaultlessLoaded, Clean, Behind, AfterRelocation
<1>2. ASSUME NEW x \in obj[o].relocs
      PROVE  /\ ValueAt(<<o, x>>) \in Address
             /\ ValueAt(<<o, x>>)[1] \in Mod => Behind(ValueAt(<<o, x>>)[1], AfterProtection)
  <2> DEFINE p == <<o, x>>
             y == SymbolAt(p)
  <2>1. x \in 1 .. Len(table[o]) /\ Len(table[o]) \in 0 .. MaxSym /\ MaxSym \in Nat
    BY ObjectTypes, TableTypes, SymbolsAssumption DEF LoaderInv, SymbolsInv
  <2>2. p \in Mod \X (1 .. MaxSym) /\ p[1] = o /\ p[2] = x
    BY <2>1
  <2>3. p \in Done
    <3>1. o \in Nat /\ k \in Nat /\ j \in Nat
      BY PositionTypes, ModNumbers DEF SymbolsInv
    <3>2. o < k \/ (o = k /\ j = Len(table[o]) + 1)
      BY DEF FaultlessLoaded, Behind, AfterRelocation
    <3>3. Before(p, <<k, j>>)
      BY <2>1, <3>1, <3>2 DEF Before
    <3>4. QED
      BY <2>1, <2>2, <3>3 DEF Done
  <2>4. y.name \in Names
    BY <2>1, TableTypes DEF SymbolsInv, SymbolAt, Symbol
  <2>5. CASE y.shndx = InSection
    <3>1. ValueAt(p) = p /\ p \in Address
      BY <2>2, <2>3, <2>5, AddressesDiffer DEF SymbolsInv, DefinitionsAreOwn
    <3>2. QED
      BY <3>1
  <2>6. CASE IsImport(y) /\ Available(y.name, p)
    <3>1. ValueAt(p) = env[y.name] /\ env[y.name] \in Address
      BY <2>3, <2>4, <2>6 DEF SymbolsInv, ImportsHoldFirstDefinition, Available, TypeOK
    <3>2. ASSUME env[y.name][1] \in Mod
          PROVE  Behind(env[y.name][1], AfterProtection)
      <4>1. y.name \notin Host
        BY <2>4, <3>2, ModNumbers DEF SymbolsInv, FirstDefinitionWins, HostAddress
      <4>2. Before(env[y.name], p)
        BY <2>6, <4>1 DEF Available
      <4>3. env[y.name][1] < o \/ env[y.name][1] = o
        BY <4>2 DEF Before
      <4>4. o \in Nat /\ k \in Nat /\ env[y.name][1] \in Nat
        BY <3>2, PositionTypes, ModNumbers DEF SymbolsInv
      <4>5. QED
        BY <4>3, <4>4 DEF Behind
    <3>3. QED
      BY <3>1, <3>2
  <2>7. QED
    BY <2>5, <2>6 DEF Clean
<1>3. QED
  BY <1>1, <1>2

\* If all that code of a loaded object gets to is clean, it does not crash: of these
\* objects those that have been loaded already are enough.
LEMMA CleanDoesNotCrash ==
  ASSUME SymbolsInv, LoaderInv, FaultlessLoaded, pc # "crashed",
         NEW set \in SUBSET Mod, Closed(set), \A o \in set : Clean(o),
         NEW o \in set, Behind(o, AfterProtection)
  PROVE  ~MayCrash(o)
<1> DEFINE loaded == {b \in set : Behind(b, AfterProtection)}
<1>1. ASSUME NEW b \in loaded, NEW to \in links[b]
      PROVE  to \in Address /\ (to[1] \in Mod => to[1] \in loaded)
  <2>1. to \in Address /\ (to[1] \in Mod => Behind(to[1], AfterProtection))
    BY <1>1, CleanIsSafe
  <2>2. to[1] \in Mod => to[1] \in set
    BY <1>1, <2>1 DEF Closed, Reached
  <2>3. QED
    BY <2>1, <2>2
<1>2. \A b \in loaded : b \in exec /\ ~obj[b].sealed
  BY CleanIsSafe
<1>3. Safe(loaded)
  BY <1>1, <1>2 DEF Safe
<1>4. QED
  BY <1>3 DEF MayCrash

LEMMA FaultlessLoadedInit == LoaderInit => FaultlessLoaded
<1> SUFFICES ASSUME LoaderInit PROVE FaultlessLoaded
  OBVIOUS
<1>1. pc \in {"exit", "move_module"} /\ k = 1 /\ \A o \in Mod : o \in Nat \ {0}
  BY LoaderInitIsInit, ModNumbers DEF LoaderInit, Init
<1>2. \A o \in Mod : \A stages : Behind(o, stages) => pc \in stages
  BY <1>1 DEF Behind
<1>3. QED
  BY <1>1, <1>2 DEF FaultlessLoaded, AfterMove, AfterRelocation, AfterProtection

\* Resolution changes the values of the object that is loaded and of no other.
LEMMA OtherValuesStay ==
  ASSUME SymbolsInv, UpdateSymbols
  PROVE  /\ k' = k /\ pc = "layout_symbol_addr" /\ UNCHANGED loaderVars
         /\ \A o \in Mod : o # k => \A x : ValueAt(<<o, x>>)' = ValueAt(<<o, x>>)
<1>1. value \in [Mod -> Seq(Values)]
  BY DEF SymbolsInv, TypeOK
<1>2. \/ value' = value
      \/ k \in Mod /\ \E v : value' = [value EXCEPT ![k][j] = v]
  BY DEF UpdateSymbols, StartTable, SectionSymbol, LocalDefinition, ExportedDefinition,
         ImportFound, ImportMissing, InvalidSymbol, OtherSymbol, Update, Updating
<1>3. \A o \in Mod : o # k => value'[o] = value[o]
  BY <1>1, <1>2
<1>4. /\ k' = k /\ pc = "layout_symbol_addr" /\ UNCHANGED loaderVars
  BY DEF UpdateSymbols, StartTable, SectionSymbol, LocalDefinition, ExportedDefinition,
         ImportFound, ImportMissing, InvalidSymbol, OtherSymbol
<1>5. QED
  BY <1>3, <1>4 DEF ValueAt

\* What is left of FaultlessLoaded for an object that is not loaded now.
LEMMA OthersStay ==
  ASSUME FaultlessLoaded, pc # "crashed", k' = k, obj' = obj, k \in Mod,
         \A o \in Mod : o # k =>
           /\ o \in faults' <=> o \in faults
           /\ o \in mapped' <=> o \in mapped
           /\ o \in exec' <=> o \in exec
           /\ links'[o] = links[o]
           /\ \A x : ValueAt(<<o, x>>)' = ValueAt(<<o, x>>),
         pc' \in {"relocate_symbol"} \cup AfterRelocation => j' = Len(table'[k]) + 1,
         k \notin faults' =>
           /\ pc' \in AfterMove => k \in mapped'
           /\ pc' \in AfterRelocation =>
                links'[k] \subseteq {ValueAt(<<k, x>>) : x \in obj[k].relocs}' \cup {Astray}
           /\ pc' \in AfterProtection => k \in exec'
  PROVE  FaultlessLoaded'
<1>1. ASSUME NEW o \in Mod, o \notin faults'
      PROVE  /\ Behind(o, AfterMove)' => o \in mapped'
             /\ Behind(o, AfterRelocation)'
                  => links'[o] \subseteq {ValueAt(<<o, x>>) : x \in obj[o].relocs}' \cup {Astray}
             /\ Behind(o, AfterProtection)' => o \in exec'
  <2>1. CASE o = k
    <3>1. ~(o < k)
      BY <2>1, ModNumbers
    <3>2. QED
      BY <1>1, <2>1, <3>1 DEF Behind, AfterMove, AfterRelocation, AfterProtection
  <2>2. CASE o # k
    <3>1. \A stages : (Behind(o, stages)' <=> o < k) /\ (Behind(o, stages) <=> o < k)
      BY <2>2 DEF Behind
    <3>2. {ValueAt(<<o, x>>) : x \in obj[o].relocs}' = {ValueAt(<<o, x>>) : x \in obj[o].relocs}
      BY <2>2
    <3>3. QED
      BY <1>1, <2>2, <3>1, <3>2
         DEF FaultlessLoaded, Behind, AfterMove, AfterRelocation, AfterProtection
  <2>3. QED
    BY <2>1, <2>2
<1>2. QED
  BY <1>1 DEF FaultlessLoaded, AfterMove, AfterRelocation, AfterProtection

LEMMA FaultlessLoadedNext ==
  ASSUME SymbolsInv, LoaderInv, FaultlessLoaded, LoaderNext
  PROVE  FaultlessLoaded'
<1>0. /\ pc \in Loading => k \in Mod
      /\ table \in [Mod -> Tables] /\ links \in [Mod -> SUBSET (Values \cup {Refused, Astray})]
      /\ obj' = obj
  BY ObjectsStay DEF LoaderInv, Stage, SymbolsInv, TypeOK, LoaderTypeOK
<1> USE DEF AfterMove, AfterRelocation, AfterProtection
<1>1. CASE MoveModule
  <2>1. /\ k \in Mod /\ pc = "move_module" /\ pc' = "layout_symbol_addr"
        /\ UNCHANGED <<vars, obj, exec, links>>
        /\ \/ mapped' = mapped \cup {k} /\ faults' = faults
           \/ mapped' = mapped /\ faults' = faults \cup {k}
    BY <1>0, <1>1 DEF MoveModule, Loading
  <2>2. QED
    BY <2>1, OthersStay DEF vars, ValueAt
<1>2. CASE UpdateSymbols
  <2>1. /\ k \in Mod /\ pc = "layout_symbol_addr" /\ UNCHANGED loaderVars /\ k' = k
        /\ \A o \in Mod : o # k => \A x : ValueAt(<<o, x>>)' = ValueAt(<<o, x>>)
    BY <1>0, <1>2, OtherValuesStay DEF Loading
  <2>2. k \notin faults => k \in mapped
    BY <2>1 DEF FaultlessLoaded, Behind
  <2>3. QED
    BY <2>1, <2>2, OthersStay DEF loaderVars
<1>3. CASE SymbolsUpdated
  <2>1. /\ k \in Mod /\ pc = "layout_symbol_addr" /\ pc' = "relocate_symbol"
        /\ j = Len(table[k]) + 1
        /\ UNCHANGED <<vars, obj, mapped, exec, links, faults>>
    BY <1>0, <1>3 DEF SymbolsUpdated, Loading
  <2>2. k \notin faults => k \in mapped
    BY <2>1 DEF FaultlessLoaded, Behind
  <2>3. QED
    BY <2>1, <2>2, OthersStay DEF vars, ValueAt
<1>4. CASE RelocateSymbol
  <2>1. /\ k \in Mod /\ pc = "relocate_symbol" /\ pc' = "mod_protect"
        /\ UNCHANGED <<vars, obj, mapped, exec>>
    BY <1>0, <1>4 DEF RelocateSymbol, Loading
  <2>2. (k \notin faults => k \in mapped) /\ j = Len(table[k]) + 1
    BY <2>1 DEF FaultlessLoaded, Behind
  <2>3. PICK all :
          /\ links' = [links EXCEPT ![k] = all]
          /\ \/ faults' = faults \cup {k}
             \/ /\ faults' = faults
                /\ all \subseteq {ValueAt(<<k, x>>) : x \in obj[k].relocs} \cup {Astray}
    BY <1>4, NewLinks
  <2>4. /\ \A o \in Mod : o # k => links'[o] = links[o] /\ (o \in faults' <=> o \in faults)
        /\ faults \subseteq faults'
    BY <1>0, <2>3
  <2>5. k \notin faults' =>
          links'[k] \subseteq {ValueAt(<<k, x>>) : x \in obj[k].relocs}' \cup {Astray}
    <3>1. {ValueAt(<<k, x>>) : x \in obj[k].relocs}' = {ValueAt(<<k, x>>) : x \in obj[k].relocs}
      BY <2>1 DEF vars, ValueAt
    <3>2. QED
      BY <1>0, <2>1, <2>3, <3>1
  <2>6. \A o \in Mod : \A x : ValueAt(<<o, x>>)' = ValueAt(<<o, x>>)
    BY <2>1 DEF vars, ValueAt
  <2>7. k' = k /\ table' = table /\ j' = j
    BY <2>1 DEF vars
  <2>8. QED
    BY <2>1, <2>2, <2>4, <2>5, <2>6, <2>7, OthersStay DEF vars
<1>5. CASE ModProtect
  <2>1. /\ k \in Mod /\ pc = "mod_protect" /\ pc' = "init_array"
        /\ UNCHANGED <<vars, obj, mapped, links>>
        /\ \/ exec' = exec \cup ({k} \cap mapped) /\ faults' = faults
           \/ exec' = exec /\ faults' = faults \cup {k}
    BY <1>0, <1>5 DEF ModProtect, Loading
  <2>2. /\ j = Len(table[k]) + 1
        /\ k \notin faults =>
             k \in mapped /\ links[k] \subseteq {ValueAt(<<k, x>>) : x \in obj[k].relocs} \cup {Astray}
    BY <2>1 DEF FaultlessLoaded, Behind
  <2>3. {ValueAt(<<k, x>>) : x \in obj[k].relocs}' = {ValueAt(<<k, x>>) : x \in obj[k].relocs}
    BY <2>1 DEF vars, ValueAt
  <2>4. QED
    BY <2>1, <2>2, <2>3, OthersStay DEF vars, ValueAt
<1>6. CASE CallInit \/ EndArray \/ EndInits \/ CallConstruct \/ NoConstruct
  <2>1. /\ k \in Mod /\ pc \in AfterProtection /\ pc' \in AfterProtection
        /\ UNCHANGED <<vars, obj, mapped, exec, links, faults>>
    BY <1>0, <1>6 DEF CallInit, EndArray, EndInits, CallConstruct, NoConstruct, InArray, Loading
  <2>2. /\ j = Len(table[k]) + 1
        /\ k \notin faults =>
             /\ k \in mapped /\ k \in exec
             /\ links[k] \subseteq {ValueAt(<<k, x>>) : x \in obj[k].relocs} \cup {Astray}
    BY <2>1 DEF FaultlessLoaded, Behind
  <2>3. {ValueAt(<<k, x>>) : x \in obj[k].relocs}' = {ValueAt(<<k, x>>) : x \in obj[k].relocs}
    BY <2>1 DEF vars, ValueAt
  <2>4. QED
    BY <2>1, <2>2, <2>3, OthersStay DEF vars, ValueAt
<1>7. CASE DivideByZero \/ CrashInInit \/ CrashInConstruct \/ CrashInEntry
  BY <1>7, CrashStep DEF FaultlessLoaded
<1>8. CASE NextObject \/ CallEntry \/ NoEntry
  <2>1. /\ pc \in {"next", "entry"} /\ pc' \in {"move_module", "entry", "exit"}
        /\ UNCHANGED <<obj, mapped, exec, links, faults, value>>
        /\ k' = IF pc = "next" THEN k + 1 ELSE k
    BY <1>8 DEF NextObject, EndTable, CallEntry, NoEntry, vars
  <2>2. \A o \in Mod : o < k' => o < k \/ (o = k /\ pc = "next")
    <3>1. k \in Nat /\ Mod \subseteq Nat
      BY PositionTypes, ModNumbers DEF SymbolsInv
    <3>2. QED
      BY <2>1, <3>1
  <2>3. \A o \in Mod, stages \in {AfterMove, AfterRelocation, AfterProtection} :
          Behind(o, stages)' => Behind(o, stages)
    BY <2>1, <2>2 DEF Behind
  <2>4. \A o \in Mod :
          {ValueAt(<<o, x>>) : x \in obj[o].relocs}' = {ValueAt(<<o, x>>) : x \in obj[o].relocs}
    BY <2>1 DEF ValueAt
  <2>5. pc # "crashed" /\ pc' \notin {"relocate_symbol"} \cup AfterRelocation
    BY <2>1
  <2> HIDE DEF AfterMove, AfterRelocation, AfterProtection
  <2>6. ASSUME NEW o \in Mod, o \notin faults'
        PROVE  /\ Behind(o, AfterMove)' => o \in mapped'
               /\ Behind(o, AfterRelocation)'
                    => links'[o] \subseteq {ValueAt(<<o, x>>) : x \in obj[o].relocs}' \cup {Astray}
               /\ Behind(o, AfterProtection)' => o \in exec'
    BY <2>1, <2>3, <2>4, <2>5, <2>6 DEF FaultlessLoaded
  <2>7. QED
    BY <2>5, <2>6 DEF FaultlessLoaded
<1>9. QED
  BY <1>1, <1>2, <1>3, <1>4, <1>5, <1>6, <1>7, <1>8 DEF LoaderNext

\* A crash changes nothing that makes an object clean or a set of them closed.
LEMMA CrashKeepsClean ==
  ASSUME DivideByZero \/ CrashInInit \/ CrashInConstruct \/ CrashInEntry
  PROVE  /\ \A o \in Mod : Clean(o)' <=> Clean(o)
         /\ \A set \in SUBSET Mod : Closed(set)' <=> Closed(set)
<1>1. UNCHANGED <<vars, obj, links, faults>>
  BY DEF DivideByZero, CrashInInit, CrashInConstruct, CrashInEntry
<1>2. \A o \in Mod : Clean(o)' <=> Clean(o)
  BY <1>1 DEF vars, Clean, Available, SymbolAt
<1>3. \A o : Reached(o)' = Reached(o)
  BY <1>1 DEF Reached
<1>4. QED
  BY <1>2, <1>3 DEF Closed

\* What made a call crash is found in what it gets to.
LEMMA CallCrash ==
  ASSUME SymbolsInv, LoaderInv, FaultlessLoaded, pc # "crashed",
         NEW fn, NEW at, Crashes(fn, at), Behind(at[1], AfterProtection),
         CrashInInit \/ CrashInConstruct \/ CrashInEntry
  PROVE  CrashHasCause'
<1>1. at[1] \in Mod /\ MayCrash(at[1]) /\ ran' = Append(ran, Call(fn, at))
  BY DEF Crashes
<1>2. ran \in Seq(CallSet) /\ Len(ran) \in Nat
  BY CallTypes DEF LoaderInv
<1>3. ran' # <<>> /\ ran'[Len(ran')].at[1] = at[1]
  BY <1>1, <1>2 DEF Call
<1>4. \A set \in SUBSET Mod : at[1] \in set /\ Closed(set) => \E o \in set : ~Clean(o)
  BY <1>1, CleanDoesNotCrash
<1>5. QED
  BY <1>3, <1>4, CrashKeepsClean DEF CrashHasCause

LEMMA CrashHasCauseNext ==
  ASSUME SymbolsInv, LoaderInv, FaultlessLoaded, CrashHasCause, LoaderNext
  PROVE  CrashHasCause'
<1>0. pc \in Loading => k \in Mod
  BY DEF LoaderInv, Stage
<1>1. CASE DivideByZero
  <2>1. k \in Mod /\ a <= Len(obj[k].arrays) /\ Traps
    BY <1>0, <1>1 DEF DivideByZero, InArray, Loading
  <2>2. UNCHANGED <<k, a, obj>>
    BY <1>1 DEF DivideByZero, vars
  <2>3. QED
    BY <2>1, <2>2 DEF CrashHasCause, Traps, Array
<1>2. CASE CrashInInit
  <2>1. /\ Crashes("init_array", <<k, a, n + 1>>) /\ pc = "init_array" /\ k \in Mod
    BY <1>0, <1>2 DEF CrashInInit, InArray, Loading
  <2>2. Behind(<<k, a, n + 1>>[1], AfterProtection) /\ pc # "crashed"
    BY <2>1 DEF Behind, AfterProtection
  <2>3. QED
    BY <1>2, <2>1, <2>2, CallCrash
<1>3. CASE CrashInConstruct
  <2>1. /\ Crashes("Construct", func[k]) /\ pc = "Construct" /\ k \in Mod /\ func[k][1] = k
    BY <1>0, <1>3, TargetTypes DEF CrashInConstruct, Loading
  <2>2. Behind(func[k][1], AfterProtection) /\ pc # "crashed"
    BY <2>1 DEF Behind, AfterProtection
  <2>3. QED
    BY <1>3, <2>1, <2>2, CallCrash
<1>4. CASE CrashInEntry
  <2>1. Crashes("entry", Entry) /\ pc = "entry" /\ k = NMod + 1 /\ Entry[1] \in Mod
    BY <1>4 DEF CrashInEntry, Crashes, LoaderInv, Stage
  <2>2. Behind(Entry[1], AfterProtection) /\ pc # "crashed"
    BY <2>1, SymbolsAssumption DEF Behind, Mod
  <2>3. QED
    BY <1>4, <2>1, <2>2, CallCrash
<1>5. CASE ~(DivideByZero \/ CrashInInit \/ CrashInConstruct \/ CrashInEntry)
  <2>1. pc' # "crashed"
    BY <1>5 DEF LoaderNext, MoveModule, UpdateSymbols, SymbolsUpdated, RelocateSymbol,
                ModProtect, CallInit, InArray, EndArray, EndInits, CallConstruct, NoConstruct,
                NextObject, CallEntry, NoEntry, loaderVars
  <2>2. QED
    BY <2>1 DEF CrashHasCause
<1>6. QED
  BY <1>1, <1>2, <1>3, <1>4, <1>5

LEMMA CrashInvStutter ==
  ASSUME FaultlessLoaded, CrashHasCause, UNCHANGED allVars
  PROVE  FaultlessLoaded' /\ CrashHasCause'
<1>1. UNCHANGED <<table, value, env, k, j, obj, mapped, exec, links, ran, faults, a, pc>>
  BY DEF allVars
<1>2. FaultlessLoaded'
  BY <1>1 DEF FaultlessLoaded, Behind, ValueAt
<1>3. \A o : (Clean(o)' <=> Clean(o)) /\ Reached(o)' = Reached(o)
  BY <1>1 DEF Clean, Available, SymbolAt, Reached
<1>4. (Traps' <=> Traps) /\ \A set : Closed(set)' <=> Closed(set)
  BY <1>1, <1>3 DEF Traps, Array, Closed
<1>5. CrashHasCause'
  BY <1>1, <1>3, <1>4 DEF CrashHasCause
<1>6. QED
  BY <1>2, <1>5

\* The loader itself never ends the program: a crash comes from an empty
\* sh_entsize, or what the code that runs gets to has a step that failed, a symbol
\* that is undefined, a distance that does not fit, or writes where it may not
\* (module.cpp:401-419).
THEOREM LoaderCrashHasCause == LoaderSpec => []CrashHasCause
<1>1. LoaderInit => CrashHasCause
  BY DEF LoaderInit, CrashHasCause
<1>2. SymbolsInv /\ LoaderInv /\ FaultlessLoaded /\ CrashHasCause /\ [LoaderNext]_allVars
        => FaultlessLoaded' /\ CrashHasCause'
  BY FaultlessLoadedNext, CrashHasCauseNext, CrashInvStutter
<1>3. QED
  BY <1>1, <1>2, FaultlessLoadedInit, LoaderInvHolds, LoaderKeepsSymbols, PTL DEF LoaderSpec
=============================================================================
