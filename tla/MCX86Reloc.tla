----------------------------- MODULE MCX86Reloc -----------------------------
(***************************************************************************)
(* Instances of X86Reloc for TLC: every pair of relocations side by side,  *)
(* overlapping or on the same place, with values at both ends of 32 bits.  *)
(***************************************************************************)
EXTENDS X86Reloc

Types == DOMAIN Width \cup {"R_X86_64_NONE", "R_X86_64_COPY"}

Fits(u, o) == o < 12 \/ Width[u] = 32

MCTables ==
  UNION { { << <<t, o, 0>>, <<u, p, -4>> >> : p \in {x \in {0, 4, 8, 12} : Fits(u, x)} } :
            t \in Types, o \in {0, 4}, u \in DOMAIN Width }

Start == Add(Pow(46), OfInt(16))

Ends == { Add(x, OfInt(d)) :
            x \in {Pow(31), Pow(32), Sub({}, Pow(31))}, d \in {-1, 0, 8} }

MCPlacings == { <<Start, v>> : v \in Ends } \cup { <<Start, Add(Start, v)>> : v \in Ends }

\* An empty section, and one with a byte that is not empty.
MCContents == { {}, {33} }
=============================================================================
