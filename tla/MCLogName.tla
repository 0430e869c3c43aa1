----------------------------- MODULE MCLogName -----------------------------
(* LogName for TLC: every path of slashes and letters, the short ones. *)
EXTENDS LogName

MCPaths == UNION { [1 .. n -> {Slash, "c"}] : n \in 1 .. 7 }
=============================================================================
