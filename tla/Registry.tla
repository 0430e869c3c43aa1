------------------------------ MODULE Registry ------------------------------
(***************************************************************************)
(* What SysEnv promises the object files that are loaded one by one: a     *)
(* name, once bound, keeps its address, and everybody who asks for it gets *)
(* that address.  Symbols implements this: the clients are the undefined   *)
(* symbols of all objects.                                                 *)
(***************************************************************************)
CONSTANTS
  Name,    \* the names
  Place,   \* what a name may be bound to
  Asker,   \* who asks
  Nobody   \* no address

ASSUME RegistryAssumption == Nobody \notin Place

VARIABLES
  wanted,  \* wanted[c]: the name client c asks for
  bound,   \* bound[n]: the address of n, or Nobody
  got      \* got[c]: the answer client c has, or Nobody

registryVars == <<wanted, bound, got>>

RegistryInit ==
  /\ wanted \in [Asker -> Name]
  /\ bound \in [Name -> Place \cup {Nobody}]
  /\ got = [c \in Asker |-> Nobody]

\* Faulty variant: a later definition replaces an earlier one.
BindAgain(n) ==
  /\ \E a \in Place : bound' = [bound EXCEPT ![n] = a]
  /\ UNCHANGED <<wanted, got>>

Bind(n) ==
  /\ bound[n] = Nobody
  /\ \E a \in Place : bound' = [bound EXCEPT ![n] = a]
  /\ UNCHANGED <<wanted, got>>

Ask(c) ==
  /\ got[c] = Nobody
  /\ bound[wanted[c]] # Nobody
  /\ got' = [got EXCEPT ![c] = bound[wanted[c]]]
  /\ UNCHANGED <<wanted, bound>>

RegistryNext == (\E n \in Name : Bind(n)) \/ (\E c \in Asker : Ask(c))

RegistrySpec == RegistryInit /\ [][RegistryNext]_registryVars

-----------------------------------------------------------------------------

RegistryTypeOK ==
  /\ wanted \in [Asker -> Name]
  /\ bound \in [Name -> Place \cup {Nobody}]
  /\ got \in [Asker -> Place \cup {Nobody}]

\* Two objects that import the same name call the same function, however
\* many definitions were offered between their loading (module.h:29-47).
Agreement ==
  \A c, d \in Asker :
    (wanted[c] = wanted[d] /\ got[c] # Nobody /\ got[d] # Nobody) => got[c] = got[d]
=============================================================================
