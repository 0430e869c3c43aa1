--------------------------- MODULE MCAarch64Reloc ---------------------------
(***************************************************************************)
(* Instances of Aarch64Reloc for TLC: every supported type, alone and in   *)
(* the idioms compilers emit, with values at both ends of every range.     *)
(***************************************************************************)
EXTENDS Aarch64Reloc

One(type) == << <<type, 0>> >>

Singles ==
  { One(type) : type \in DOMAIN Data \cup DOMAIN Movw \cup DOMAIN Imm \cup {"NONE", "TLSGD_ADR_PAGE21"} }

\* adrp with the instruction that adds the low bits.
Pages ==
  { << <<"ADR_PREL_PG_HI21", 0>>, <<lo, 0>> >> : lo \in DOMAIN Scale }

\* movz or movn with the movk that follow; of the place-relative ones the
\* addend makes up for the distance between the instructions.
Wide ==
  { << <<"MOVW_UABS_G1", 0>>, <<"MOVW_UABS_G0_NC", 0>> >>,
    << <<"MOVW_SABS_G2", 0>>, <<"MOVW_UABS_G1_NC", 0>>, <<"MOVW_UABS_G0_NC", 0>> >>,
    << <<"MOVW_UABS_G3", 0>>, <<"MOVW_UABS_G2_NC", 0>>, <<"MOVW_UABS_G1_NC", 0>>,
       <<"MOVW_UABS_G0_NC", 0>> >>,
    << <<"MOVW_PREL_G1", 0>>, <<"MOVW_PREL_G0_NC", 8>> >>,
    << <<"MOVW_PREL_G3", 0>>, <<"MOVW_PREL_G2_NC", 8>>, <<"MOVW_PREL_G1_NC", 16>>,
       <<"MOVW_PREL_G0_NC", 24>> >> }

MCCodes == Singles \cup Pages \cup Wide

\* A page boundary lies behind the first place, or before it.
Starts == { Add(Pow(46), OfInt(4088)), Pow(46) }

\* The last value inside a range, the first one outside, and the multiple of
\* four before them.
Ends == { Add(x, OfInt(d)) :
            x \in { Pow(e) : e \in {15, 16, 20, 27, 31, 32, 47, 48} }
                  \cup { Sub({}, Pow(e)) : e \in {15, 16, 20, 27, 31, 32, 47, 48} },
            d \in {-4, -1, 0} }

MCPlacings ==
  { <<s, Add(s, d)>> : s \in Starts, d \in Ends } \cup { <<Pow(46), v>> : v \in Ends }

MCContents == { {}, Bits, BREAK_FAULT }
=============================================================================
