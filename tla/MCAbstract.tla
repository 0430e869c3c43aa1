----------------------------- MODULE MCAbstract -----------------------------
(***************************************************************************)
(* The two abstract specifications for TLC, side by side: they share       *)
(* nothing, and each takes its steps while the other waits.                *)
(***************************************************************************)
EXTENDS Arena, Registry, TLC

Symmetry == Permutations(Block) \cup Permutations(Asker)

AbstractNext ==
  \/ ArenaNext /\ UNCHANGED registryVars
  \/ RegistryNext /\ UNCHANGED arenaVars

AbstractInit == ArenaInit /\ RegistryInit

AbstractSpec == AbstractInit /\ [][AbstractNext]_<<arenaVars, registryVars>>
=============================================================================
