------------------------------ MODULE MCPrintf ------------------------------
(***************************************************************************)
(* Instances of Printf for TLC: every call whose format is made of two     *)
(* pieces, a text or a conversion each, with short types of C: char has 2  *)
(* bits, short 3, int 4 and long 6.                                        *)
(***************************************************************************)
EXTENDS Printf

Piece(f, a) == [fmt |-> f, args |-> a]

Num(x) == [num |-> x % Pow[LongBits], text |-> <<>>]

\* Zero, the ends of the types, and one that all of them cut.
Numbers == {Num(0), Num(1), Num(7), Num(-1), Num(-8), Num(-32), Num(29)}

Plain ==
  { Piece(<<"%", "d">>, <<n>>) : n \in Numbers }
    \cup { Piece(<<"%", c>>, <<n>>) : c \in {"u", "x", "X", "b", "p"}, n \in {Num(29), Num(-8)} }

Lengths ==
  { Piece(<<"%">> \o l \o <<c>>, <<n>>) :
      l \in {<<"l">>, <<"l", "l">>, <<"h">>, <<"h", "h">>}, c \in {"d", "u", "x", "X"},
      n \in {Num(29), Num(-32)} }

Padded ==
  { Piece(<<"%">> \o f \o <<"d">>, <<n>>) :
      f \in {<<"3">>, <<"-", "3">>, <<"0", "3">>, <<"-", "0", "3">>, <<"0", "1">>, <<"1">>},
      n \in {Num(0), Num(-1), Num(7)} }
    \cup { Piece(<<"%", "*", "d">>, <<w, Num(-1)>>) : w \in {Num(3), Num(-1)} }

Texts ==
  { Piece(<<"a">>, <<>>), Piece(<<LF>>, <<>>), Piece(<<"%", "%">>, <<>>),
    Piece(<<"%", "c">>, <<[num |-> 2, text |-> <<"a">>]>>),
    Piece(<<"%", "3", "c">>, <<[num |-> 0, text |-> <<>>]>>),
    Piece(<<"%", "s">>, <<[num |-> 44, text |-> <<"a", LF, "a", "a">>]>>),
    Piece(<<"%", "-", "3", "s">>, <<[num |-> 44, text |-> <<"a", "a">>]>>),
    Piece(<<"%", "s">>, <<Num(0)>>) }

\* Letters that are none, formats that end too early, and both ways to end
\* right behind a %.
Odd ==
  { Piece(<<"%", "q">>, <<>>), Piece(<<"%", "l", "q">>, <<>>), Piece(<<"%", "*", "q">>, <<Num(3)>>),
    Piece(<<"%", "h", "h", "s">>, <<>>), Piece(<<"%", "0", "-", "3", "d">>, <<>>),
    Piece(<<"%">>, <<>>), Piece(<<"%", "3">>, <<>>), Piece(<<"%", "l">>, <<>>),
    Piece(<<"%", "*">>, <<Num(3)>>) }

\* Too few arguments.
Short ==
  { Piece(<<"%", "d">>, <<>>), Piece(<<"%", "*", "q">>, <<>>), Piece(<<"%", "*", "d">>, <<Num(3)>>) }

Pieces == Plain \cup Lengths \cup Padded \cup Texts \cup Odd \cup Short

\* A piece that ends within a conversion, or lacks an argument, comes last.
Open == Short \cup {p \in Odd : p.fmt[Len(p.fmt)] \in {"%", "3", "l", "*"}}

MCCalls ==
  { Piece(p.fmt \o q.fmt, p.args \o q.args) : p \in Pieces \ Open, q \in Pieces }

MCGarbage == {0, 45}
=============================================================================
