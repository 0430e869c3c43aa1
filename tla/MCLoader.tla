------------------------------ MODULE MCLoader ------------------------------
(***************************************************************************)
(* Instances of Loader for TLC: programs made of a library, of a second    *)
(* object that defines what the library defines, of clients of both, and   *)
(* of objects that are not what load_module expects.                       *)
(***************************************************************************)
EXTENDS Loader

Sy(name, b, x) == [name |-> name, bind |-> b, type |-> STT_OTHER, shndx |-> x]

Def(name)  == Sy(name, STB_GLOBAL, InSection)
Undef(name) == Sy(name, STB_GLOBAL, SHN_UNDEF)

Inits(count) == [num |-> count, entsize |-> 8]

Null == Sy(NoName, STB_LOCAL, SHN_UNDEF)

Obj(symtab, relocs, arrays) ==
  [symtab |-> symtab, relocs |-> relocs, arrays |-> arrays, sealed |-> FALSE]

\* Defines f, with a constructor and a Construct.
Library == Obj(<<Null, Def("f"), Def("Construct")>>, {2}, <<Inits(1)>>)

\* Defines f again; two init arrays with three constructors that call the executable.
Second == Obj(<<Undef("vprintf"), Def("f")>>, {1}, <<Inits(1), Inits(2)>>)

\* Its constructor writes to a section that is writable and executable.
Writer == [Obj(<<Def("f")>>, {}, <<Inits(1)>>) EXCEPT !.sealed = TRUE]

\* Calls f in its constructor and from its Construct and has an entry.
Client1 == Obj(<<Undef("f"), Def("Construct"), Def("_start")>>, {1}, <<Inits(1)>>)

\* The other entry; f is weak and its section symbol is broken.
Client2 ==
  Obj(<<Sy("f", STB_WEAK, SHN_UNDEF), Sy("f", STB_GLOBAL, BadIndex), Def("APP_Root")>>, {1}, <<>>)

\* An init array without sh_entsize behind one with it.
NoEntSize == Obj(<<>>, {}, <<Inits(1), [num |-> 1, entsize |-> 0]>>)

MCObjects == {Library, Second, Writer, Client1, Client2, NoEntSize}

MCTables == {o.symtab : o \in MCObjects}

MCNames == {NoName, "f", "Construct", "vprintf", "_start", "APP_Root"}

MCHost == {"vprintf"}

MCGarbage == { <<-3, 0>> }
=============================================================================
