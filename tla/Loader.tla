------------------------------- MODULE Loader -------------------------------
(***************************************************************************)
(* The program: main (main/umko.cpp) loads the objects of the command line *)
(* one by one and calls the entry; load_module (module/module.cpp) reads,  *)
(* lays out, resolves, relocates, protects and initialises one object.     *)
(* No step looks at whether an earlier one failed.                         *)
(*                                                                         *)
(* Resolution is Symbols, whose actions are the steps of this module while *)
(* layout_symbol_addr runs.  The layout is in Layout; here it matters only *)
(* whether there is an image and whether its code may be executed.         *)
(***************************************************************************)
EXTENDS Symbols

CONSTANTS
  Objects,     \* the object files
  DivTraps     \* a division by zero ends the program (x86_64), or gives 0 (aarch64)

\* What load_module finds in an object file: its symbol table, the symbols its
\* relocations refer to, and its SHT_INIT_ARRAY sections in the order of the
\* section table, each with the number of its constructors and its sh_entsize.
\* Its code may write to memory that mod_protect makes read-only (sealed): to a
\* section that is also executable or SHF_RO_AFTER_INIT, or, where pages are larger
\* than the literal 4096 of layout_sections, to the first writable one.
InitArray == [num : Nat, entsize : {0, 8}]

Object ==
  [symtab : Tables, relocs : SUBSET (1 .. MaxSym), arrays : Seq(InitArray),
   sealed : BOOLEAN]

\* What load_module works on when load_reloc_elf failed: no sections.
NoObject == [symtab |-> <<>>, relocs |-> {}, arrays |-> <<>>, sealed |-> FALSE]

ASSUME LoaderAssumption ==
  /\ Objects \subseteq Object
  /\ NoObject \in Object
  /\ \A o \in Objects : o.relocs \subseteq 1 .. Len(o.symtab)
  /\ {"_start", "APP_Root"} \subseteq Names \ Host    \* register.cpp has no entry
  /\ DivTraps \in BOOLEAN

VARIABLES
  obj,      \* obj[o]: what elf.load makes of file o
  mapped,   \* the objects move_module mapped an image for
  exec,     \* the objects whose code may be executed
  links,    \* links[o]: the addresses relocation gave object o
  ran,      \* the calls load_module and main made, in order
  faults,   \* the objects a step of load_module failed for
  a,        \* the init array mod_init_and_construct is at
  n,        \* how many constructors of it were called
  pc        \* which function runs

loaderVars == <<obj, mapped, exec, links, ran, faults, a, n, pc>>

allVars == <<table, value, env, func, newValue, k, j,
             obj, mapped, exec, links, ran, faults, a, n, pc>>

\* Where an instruction points whose relocation was refused, and where one points
\* whose relocation was accepted although its value does not fit (PC32 and PLT32
\* of x86_64, ADR_PREL_PG_HI21_NC of AArch64).
Refused == <<-4, 0>>
Astray  == <<-5, 0>>

\* A call into an object: at[1] is the object, the rest tells its functions apart.
Call(fn, at) == [fn |-> fn, at |-> at]

\* Which files can be opened, mapped and parsed is decided here.
LoaderInit ==
  /\ obj \in [Mod -> Objects \cup {NoObject}]
  /\ Init
  /\ table = [o \in Mod |-> obj[o].symtab]
  /\ mapped = {}
  /\ exec = {}
  /\ links = [o \in Mod |-> {}]
  /\ ran = <<>>
  /\ faults = {o \in Mod : obj[o] = NoObject}
  /\ a = 1 /\ n = 0
  /\ pc = IF NMod = 0 THEN "exit" ELSE "move_module"

-----------------------------------------------------------------------------
(***************************************************************************)
(* Running loaded code                                                     *)
(***************************************************************************)

\* The code of a set of objects that cannot end the program: it may be executed, it
\* may write where it writes, and its links go to functions of the executable or of
\* the set.
Safe(set) ==
  \A o \in set :
    /\ o \in exec /\ ~obj[o].sealed
    /\ \A to \in links[o] : to \in Address /\ (to[1] \in Mod => to[1] \in set)

\* Code of object o may end the program: no such set has it.
MayCrash(o) == \A set \in SUBSET Mod : Safe(set) => o \notin set

\* The call returns.  It always may: no code has to follow all its links.
Returns(fn, at) ==
  /\ at[1] \in Mod => at[1] \in exec
  /\ ran' = Append(ran, Call(fn, at))

Crashes(fn, at) ==
  /\ at[1] \in Mod /\ MayCrash(at[1])
  /\ ran' = Append(ran, Call(fn, at))
  /\ pc' = "crashed"

-----------------------------------------------------------------------------
(***************************************************************************)
(* load_module                                                             *)
(***************************************************************************)

\* load_reloc_elf, init_section_addr, layout_sections and move_module.  Without
\* an image the sections stay in the private mapping of the file; an object
\* without sections has none, since mmap refuses length 0.
MoveModule ==
  /\ pc = "move_module"
  /\ \/ obj[k] # NoObject /\ mapped' = mapped \cup {k} /\ UNCHANGED faults
     \/ faults' = faults \cup {k} /\ UNCHANGED mapped
  /\ pc' = "layout_symbol_addr"
  /\ UNCHANGED <<vars, obj, exec, links, ran, a, n>>

UpdateSymbols ==
  /\ pc = "layout_symbol_addr"
  /\ \/ StartTable \/ SectionSymbol \/ LocalDefinition \/ ExportedDefinition
     \/ ImportFound \/ ImportMissing \/ InvalidSymbol \/ OtherSymbol
  /\ UNCHANGED loaderVars

SymbolsUpdated ==
  /\ pc = "layout_symbol_addr" /\ j = Len(table[k]) + 1
  /\ pc' = "relocate_symbol"
  /\ UNCHANGED <<vars, obj, mapped, exec, links, ran, faults, a, n>>

\* A relocation gets the value of its symbol, is refused by do_relocate_add, which
\* is logged, or is accepted although the value does not fit, which is not.  A
\* symbol may have several relocations, with different outcomes.
RelocateSymbol ==
  /\ pc = "relocate_symbol"
  /\ \E applied \in SUBSET obj[k].relocs,
        refused \in SUBSET obj[k].relocs, astray \in SUBSET obj[k].relocs :
       /\ applied \cup refused \cup astray = obj[k].relocs
       /\ links' = [links EXCEPT ![k] = {ValueAt(<<k, s>>) : s \in applied}
                                        \cup {Refused : s \in refused}
                                        \cup {Astray : s \in astray}]
       /\ faults' = IF refused = {} THEN faults ELSE faults \cup {k}
  /\ pc' = "mod_protect"
  /\ UNCHANGED <<vars, obj, mapped, exec, ran, a, n>>

\* Faulty variant: PROT_EXEC is missing.
ProtectReadOnly ==
  /\ pc = "mod_protect"
  /\ UNCHANGED exec
  /\ faults' \in {faults, faults \cup {k}}
  /\ pc' = "init_array"
  /\ UNCHANGED <<vars, obj, mapped, links, ran, a, n>>

\* mprotect makes the code of the image executable, or fails.
ModProtect ==
  /\ pc = "mod_protect"
  /\ \/ exec' = exec \cup ({k} \cap mapped) /\ UNCHANGED faults
     \/ faults' = faults \cup {k} /\ UNCHANGED exec
  /\ pc' = "init_array"
  /\ UNCHANGED <<vars, obj, mapped, links, ran, a, n>>

-----------------------------------------------------------------------------
(***************************************************************************)
(* mod_init_and_construct                                                  *)
(***************************************************************************)

\* sh_size / sh_entsize: how many constructors an array has.
InitCount(array) == IF array.entsize = 0 THEN 0 ELSE array.num

\* The loop over the sections is at an init array.
InArray == pc = "init_array" /\ a <= Len(obj[k].arrays)
Array   == obj[k].arrays[a]

Traps == Array.entsize = 0 /\ DivTraps

\* An empty sh_entsize where dividing by it is a trap.
DivideByZero ==
  /\ InArray /\ Traps
  /\ pc' = "crashed"
  /\ UNCHANGED <<vars, obj, mapped, exec, links, ran, faults, a, n>>

\* Faulty variant: forgets to count.
CallInitAgain ==
  /\ InArray /\ n < InitCount(Array)
  /\ Returns("init_array", <<k, a, n + 1>>)
  /\ UNCHANGED <<vars, obj, mapped, exec, links, faults, a, n, pc>>

CallInit ==
  /\ InArray /\ n < InitCount(Array)
  /\ Returns("init_array", <<k, a, n + 1>>)
  /\ n' = n + 1
  /\ UNCHANGED <<vars, obj, mapped, exec, links, faults, a, pc>>

CrashInInit ==
  /\ InArray /\ n < InitCount(Array)
  /\ Crashes("init_array", <<k, a, n + 1>>)
  /\ UNCHANGED <<vars, obj, mapped, exec, links, faults, a, n>>

\* All constructors of the array were called: the loop goes on with the sections.
EndArray ==
  /\ InArray /\ ~Traps /\ n = InitCount(Array)
  /\ a' = a + 1 /\ n' = 0
  /\ UNCHANGED <<vars, obj, mapped, exec, links, ran, faults, pc>>

\* Faulty variant: looks at the first array only.
EndInitsEarly ==
  /\ pc = "init_array" /\ (a > Len(obj[k].arrays) \/ a = 2)
  /\ a' = 1
  /\ pc' = "Construct"
  /\ UNCHANGED <<vars, obj, mapped, exec, links, ran, faults, n>>

\* There are no more init arrays.
EndInits ==
  /\ pc = "init_array" /\ a > Len(obj[k].arrays)
  /\ a' = 1
  /\ pc' = "Construct"
  /\ UNCHANGED <<vars, obj, mapped, exec, links, ran, faults, n>>

\* Faulty variant: calls the Construct that SysEnv knows.
CallConstructOfEnv ==
  /\ pc = "Construct" /\ env["Construct"] # Unbound
  /\ Returns("Construct", env["Construct"])
  /\ pc' = "next"
  /\ UNCHANGED <<vars, obj, mapped, exec, links, faults, a, n>>

CallConstruct ==
  /\ pc = "Construct" /\ func[k] # Unbound
  /\ Returns("Construct", func[k])
  /\ pc' = "next"
  /\ UNCHANGED <<vars, obj, mapped, exec, links, faults, a, n>>

CrashInConstruct ==
  /\ pc = "Construct" /\ func[k] # Unbound
  /\ Crashes("Construct", func[k])
  /\ UNCHANGED <<vars, obj, mapped, exec, links, faults, a, n>>

NoConstruct ==
  /\ pc = "Construct" /\ func[k] = Unbound
  /\ pc' = "next"
  /\ UNCHANGED <<vars, obj, mapped, exec, links, ran, faults, a, n>>

-----------------------------------------------------------------------------
(***************************************************************************)
(* main                                                                    *)
(***************************************************************************)

\* The loop of main goes on with the next object, or ends.
NextObject ==
  /\ pc = "next"
  /\ EndTable
  /\ pc' = IF k = NMod THEN "entry" ELSE "move_module"
  /\ UNCHANGED <<obj, mapped, exec, links, ran, faults, a, n>>

\* get_entry.
Entry == IF env["_start"] # Unbound THEN env["_start"] ELSE env["APP_Root"]

CallEntry ==
  /\ pc = "entry" /\ Entry # Unbound
  /\ Returns("entry", Entry)
  /\ pc' = "exit"
  /\ UNCHANGED <<vars, obj, mapped, exec, links, faults, a, n>>

CrashInEntry ==
  /\ pc = "entry" /\ Entry # Unbound
  /\ Crashes("entry", Entry)
  /\ UNCHANGED <<vars, obj, mapped, exec, links, faults, a, n>>

NoEntry ==
  /\ pc = "entry" /\ Entry = Unbound
  /\ pc' = "exit"
  /\ UNCHANGED <<vars, obj, mapped, exec, links, ran, faults, a, n>>

LoaderNext ==
  \/ MoveModule \/ UpdateSymbols \/ SymbolsUpdated \/ RelocateSymbol \/ ModProtect
  \/ DivideByZero \/ CallInit \/ CrashInInit \/ EndArray \/ EndInits
  \/ CallConstruct \/ CrashInConstruct \/ NoConstruct
  \/ NextObject \/ CallEntry \/ CrashInEntry \/ NoEntry

LoaderSpec == LoaderInit /\ [][LoaderNext]_allVars

\* One thread, and every function it calls returns or crashes.
FairLoaderSpec == LoaderSpec /\ WF_allVars(LoaderNext)

-----------------------------------------------------------------------------
(***************************************************************************)
(* What loading must achieve                                               *)
(***************************************************************************)

Calls == 1 .. Len(ran)

LoaderTypeOK ==
  /\ obj \in [Mod -> Objects \cup {NoObject}]
  /\ table = [o \in Mod |-> obj[o].symtab]
  /\ mapped \subseteq Mod /\ exec \subseteq mapped /\ faults \subseteq Mod
  /\ links \in [Mod -> SUBSET (Values \cup {Refused, Astray})]
  /\ ran \in Seq([fn : {"init_array", "Construct", "entry"}, at : Address \cup (Mod \X Nat \X Nat)])
  /\ a \in Nat \ {0} /\ n \in Nat
  /\ pc \in {"move_module", "layout_symbol_addr", "relocate_symbol", "mod_protect",
            "init_array", "Construct", "next", "entry", "exit", "crashed"}

\* The call that must come before another: objects in the order of the command
\* line, in each its init arrays in the order of the section table, each from
\* front to back, then Construct; the entry last.
Rank(c) ==
  CASE c.fn = "init_array" -> c.at
    [] c.fn = "Construct"  -> <<c.at[1], Len(obj[c.at[1]].arrays) + 1, 0>>
    [] c.fn = "entry"      -> <<NMod + 1, 0, 0>>

Precedes(x, y) ==
  \/ x[1] < y[1]
  \/ x[1] = y[1] /\ (x[2] < y[2] \/ (x[2] = y[2] /\ x[3] < y[3]))

\* Nothing is called twice or out of order (module.cpp:379-397, umko.cpp:84-94).
CallsInOrder ==
  \A x, y \in Calls : x < y => Precedes(Rank(ran[x]), Rank(ran[y]))

\* When the program exits every constructor, every Construct and the entry, if
\* any object has one, have been called.
CallsComplete ==
  pc = "exit" =>
    /\ \A o \in Mod : \A s \in DOMAIN obj[o].arrays :
         \A c \in 1 .. InitCount(obj[o].arrays[s]) :
           \E x \in Calls : ran[x] = Call("init_array", <<o, s, c>>)
    /\ \A o \in Mod :
         func[o] # Unbound => \E x \in Calls : ran[x] = Call("Construct", func[o])
    /\ \A e \in {"_start", "APP_Root"} :
         Exports(e) # {} => \E x \in Calls : ran[x].fn = "entry"

\* The objects whose code a call of object o may reach.
Reached(o) == {o} \cup {to[1] : to \in {b \in links[o] : b \in Address /\ b[1] \in Mod}}

\* When code of an object runs, whatever it is linked to has been initialised:
\* no initialiser of the one comes after a call of the other.
LinkedIsInitialised ==
  \A x, y \in Calls :
    (x < y /\ ran[x].at[1] \in Mod /\ ran[y].fn # "entry" /\ ran[y].at[1] # ran[x].at[1])
      => ran[y].at[1] \notin Reached(ran[x].at[1])

\* No step for object o failed, its symbols and those it refers to are defined, the
\* distances to them fit, and its code does not write where it may not.
Clean(o) ==
  /\ o \notin faults
  /\ Astray \notin links[o]
  /\ ~obj[o].sealed
  /\ \A s \in obj[o].relocs :
       LET y == SymbolAt(<<o, s>>)
       IN  y.shndx = InSection \/ (IsImport(y) /\ Available(y.name, <<o, s>>))

\* Code of a set of objects gets to no other object.
Closed(set) == \A o \in set : Reached(o) \subseteq set

\* log_fatal ends nothing (module.cpp:401-419), so the program goes on to run
\* what it could not load; but it crashes for no other reason than that.  The
\* cause is an init array without sh_entsize, or it lies in an object that the
\* code which was called last gets to, over however many others; what became of
\* the rest of the program does not matter.
CrashHasCause ==
  pc = "crashed" =>
    \/ k \in Mod /\ a <= Len(obj[k].arrays) /\ Traps
    \/ /\ ran # <<>>
       /\ \A set \in SUBSET Mod :
            (ran[Len(ran)].at[1] \in set /\ Closed(set)) => \E o \in set : ~Clean(o)

\* The program ends, whatever fails.
Ends == <>(pc \in {"exit", "crashed"})
=============================================================================
