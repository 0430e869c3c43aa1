------------------------------ MODULE MCLayout ------------------------------
(***************************************************************************)
(* Instances of Layout for TLC: objects of NSec sections, with sizes and   *)
(* alignments around the scaled-down page.                                 *)
(***************************************************************************)
EXTENDS Layout

\* The flag combinations of compiled and hand-written objects, and one
\* section that is not part of the image.
FlagSets ==
  { {SHF_ALLOC, SHF_EXECINSTR},
    {SHF_ALLOC},
    {SHF_ALLOC, SHF_WRITE},
    {SHF_ALLOC, SHF_WRITE, SHF_RO_AFTER_INIT},
    {SHF_ALLOC, SHF_WRITE, SHF_EXECINSTR},
    {} }

\* (size, align, nobits): an odd size that misaligns what follows, an empty
\* section, a section aligned to half a page, a page-aligned .bss.
Shapes == { <<3, 1, FALSE>>, <<0, 0, FALSE>>, <<1, 2, FALSE>>, <<2, 4, TRUE>> }

MCHeaders ==
  { [flags |-> f, nobits |-> s[3], size |-> s[1], align |-> s[2]] :
      f \in FlagSets, s \in Shapes }

\* Page-aligned, and not aligned to anything coarser.
MCBases == { 3 * Page, 8 * Page }
=============================================================================
