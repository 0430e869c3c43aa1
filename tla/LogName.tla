------------------------------ MODULE LogName ------------------------------
(***************************************************************************)
(* process_name of pub/logger.cpp: which part of __FILE__ Logger::log      *)
(* prints.  The loop looks for the end and the last slash of a path.       *)
(***************************************************************************)
EXTENDS Integers, Sequences, SequencesExt

CONSTANTS
  Paths,   \* the values of __FILE__, as sequences of characters
  Limit,   \* the literal 1024
  width    \* how much of a name is printed

Slash == "/"

ASSUME LogNameAssumption ==
  /\ Limit \in Nat
  /\ width \in Nat
  /\ Paths \subseteq Seq(STRING)
  /\ \A p \in Paths : Len(p) < Limit

VARIABLES
  filepath,    \* the path
  last_slash,  \* where the last slash was found, or 0
  pos,         \* the loop index i
  from         \* the result: how many characters are left out, or one of these

logVars == <<filepath, last_slash, pos, from>>

Idle    == -2
Looking == -1

LogInit ==
  /\ filepath = <<>>
  /\ last_slash = 0
  /\ pos = 0
  /\ from = Idle

\* Logger::log passes on the __FILE__ of the line that logs.
Call ==
  /\ from = Idle
  /\ filepath' \in Paths
  /\ from' = Looking
  /\ UNCHANGED <<last_slash, pos>>

AtEnd == pos = Limit \/ pos = Len(filepath)

\* filepath[i] == '/'
AtSlash == filepath[pos + 1] = Slash

\* Faulty variant: finds the first slash.
StepFirstSlash ==
  /\ from = Looking /\ ~AtEnd
  /\ last_slash' = IF AtSlash /\ last_slash = 0 THEN pos ELSE last_slash
  /\ pos' = pos + 1
  /\ UNCHANGED <<filepath, from>>

Step ==
  /\ from = Looking /\ ~AtEnd
  /\ last_slash' = IF AtSlash THEN pos ELSE last_slash
  /\ pos' = pos + 1
  /\ UNCHANGED <<filepath, from>>

Return ==
  /\ from = Looking /\ AtEnd
  /\ from' = IF pos - last_slash > width THEN pos - width ELSE last_slash + 1
  /\ UNCHANGED <<filepath, last_slash, pos>>

LogNext == Call \/ Step \/ Return

LogSpec == LogInit /\ [][LogNext]_logVars

-----------------------------------------------------------------------------

\* What a path is called: what is behind its last slash, or all of it.
FileName(path) == CHOOSE t \in Suffixes(path) :
  /\ \A n \in DOMAIN t : t[n] # Slash
  /\ Len(t) = Len(path) \/ path[Len(path) - Len(t)] = Slash

\* The file name, or its last width characters.
Promised(path) ==
  LET name == FileName(path)
  IN  IF Len(name) <= width THEN name
      ELSE SubSeq(name, Len(name) - width + 1, Len(name))

Returned == SubSeq(filepath, from + 1, Len(filepath))

\* "return filename or last 'width' name." (logger.cpp:27).
NameIsPrinted == from \in Nat => Returned = Promised(filepath)

\* That of the paths with a slash, which the compiler is given by cmake: the
\* boundary between a whole name and a cut one, and a name behind several
\* directories, come out right (logger.cpp:30-44).
NameOfPathIsPrinted ==
  (from \in Nat /\ Contains(filepath, Slash)) => Returned = Promised(filepath)
=============================================================================
