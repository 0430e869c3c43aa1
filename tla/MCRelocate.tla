----------------------------- MODULE MCRelocate -----------------------------
(***************************************************************************)
(* Instances of Relocate for TLC: objects of four sections behind the null *)
(* section, in every order, with no, one or several symbol tables.         *)
(***************************************************************************)
EXTENDS Relocate

Progbits(allocated) == [NullHeader EXCEPT !.alloc = allocated]

\* Symbols of sections 1 and 2 and one that is imported.
Table == [NullHeader EXCEPT !.type = SHT_SYMTAB, !.symbols = <<1, Elsewhere, 2>>]

\* A table that is shorter and has its symbols elsewhere.
Other == [NullHeader EXCEPT !.type = SHT_SYMTAB, !.symbols = <<2, 1>>]

Rela(target, table, syms) ==
  [NullHeader EXCEPT !.type = SHT_RELA, !.info = target, !.link = table, !.entries = syms]

MCHeaders ==
  {NullHeader, Progbits(TRUE), Table, Other,
   Rela(1, 3, <<1, 3>>), Rela(2, 2, <<3, 2, 4>>), Rela(5, 3, <<1>>)}
=============================================================================
