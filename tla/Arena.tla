------------------------------- MODULE Arena --------------------------------
(***************************************************************************)
(* What laying out an image promises, without saying how: blocks are cut   *)
(* one by one from an arena that only grows, and at one moment the arena   *)
(* is sealed at a multiple of Gran, so that everything cut before lies     *)
(* below the seal and everything cut afterwards lies above it.  The loops  *)
(* of layout_sections (module/module.cpp) implement this: the blocks are   *)
(* the SHF_ALLOC sections, the seal is layout.ro_after_init_size.          *)
(***************************************************************************)
EXTENDS Integers

CONSTANTS
  Block,  \* the things an arena may hold
  Sizes,  \* how much a block may take
  Gran,   \* the seal is a multiple of Gran
  Limit   \* no block ends above Limit

ASSUME ArenaAssumption ==
  Sizes \subseteq Nat /\ Gran \in Nat \ {0} /\ Limit \in Nat

VARIABLES
  size,   \* size[b]: how much block b takes
  lo,     \* lo[b]: where block b starts, or Unplaced
  brk,    \* everything cut so far lies below brk
  seal    \* the seal, or Unplaced before the arena is sealed

arenaVars == <<size, lo, brk, seal>>

Unplaced == -1

Placed == {b \in Block : lo[b] # Unplaced}

ArenaInit ==
  /\ size \in [Block -> Sizes]
  /\ lo = [b \in Block |-> Unplaced]
  /\ brk = 0
  /\ seal = Unplaced

\* Faulty variant: cuts below the break too.
CutAnywhere(b) ==
  /\ lo[b] = Unplaced
  /\ \E at \in 0 .. Limit :
       /\ at + size[b] <= Limit
       /\ lo' = [lo EXCEPT ![b] = at]
       /\ brk' = at + size[b]
  /\ UNCHANGED <<size, seal>>

\* Cut block b somewhere at or above the break.
Cut(b) ==
  /\ lo[b] = Unplaced
  /\ \E at \in brk .. Limit :
       /\ at + size[b] <= Limit
       /\ lo' = [lo EXCEPT ![b] = at]
       /\ brk' = at + size[b]
  /\ UNCHANGED <<size, seal>>

\* Seal the arena, once, at a multiple of Gran at or above the break.
Seal ==
  /\ seal = Unplaced
  /\ \E at \in brk .. Limit :
       /\ at % Gran = 0
       /\ brk' = at
       /\ seal' = at
  /\ UNCHANGED <<size, lo>>

ArenaNext == Seal \/ \E b \in Block : Cut(b)

ArenaSpec == ArenaInit /\ [][ArenaNext]_arenaVars

-----------------------------------------------------------------------------

ArenaTypeOK ==
  /\ size \in [Block -> Sizes]
  /\ lo \in [Block -> Nat \cup {Unplaced}]
  /\ brk \in Nat
  /\ seal \in Nat \cup {Unplaced}

\* No two blocks share a byte: what layout_sections owes move_module
\* (module.cpp:123-141).
BlocksDisjoint ==
  \A b, c \in Placed :
    b # c => lo[b] + size[b] <= lo[c] \/ lo[c] + size[c] <= lo[b]

\* A block lies wholly on one side of the seal: what layout_sections owes
\* mod_protect (module.cpp:151-155).
SealSeparates ==
  seal # Unplaced => \A b \in Placed : lo[b] + size[b] <= seal \/ seal <= lo[b]
=============================================================================
