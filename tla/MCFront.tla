------------------------------ MODULE MCFront ------------------------------
(***************************************************************************)
(* The text main handles itself, for TLC: the command line, made of two    *)
(* objects and the two options in every order, and, once there is          *)
(* something to load, the name of a file for a line of the log.            *)
(***************************************************************************)
EXTENDS Args, LogName

MCArguments == {"a.o", "b.o", "--args", "--help"}

MCPaths == UNION { [1 .. n -> {Slash, "c"}] : n \in 1 .. 7 }

FrontNext ==
  \/ Next /\ UNCHANGED logVars
  \/ outcome = "load" /\ LogNext /\ UNCHANGED vars

FrontInit == Init /\ LogInit

FrontSpec == FrontInit /\ [][FrontNext]_<<vars, logVars>>
=============================================================================
