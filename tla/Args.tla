-------------------------------- MODULE Args --------------------------------
(***************************************************************************)
(* parser_args and the head of main (main/umko.cpp): which arguments of    *)
(* the command line are objects to load.  What main does with the objects  *)
(* is in Loader.                                                           *)
(***************************************************************************)
EXTENDS Integers, Sequences

CONSTANTS
  Arguments,  \* what an argument may be
  MaxArgs     \* how many arguments there may be

ASSUME ArgsAssumption == MaxArgs \in Nat

VARIABLES
  argv,      \* the arguments behind the name of the program
  i,         \* the loop index
  args,      \* arg.args
  rel_objs,  \* arg.rel_objs
  outcome    \* what main does: "parse", "usage", "nothing" or "load"

vars == <<argv, i, args, rel_objs, outcome>>

argc == Len(argv) + 1

Init ==
  /\ argv \in UNION {[1 .. n -> Arguments] : n \in 0 .. MaxArgs}
  /\ i = 1
  /\ args = <<>> /\ rel_objs = <<>>
  /\ outcome = "parse"

Looping == outcome = "parse" /\ i < argc

PrintUsage == outcome' = "usage" /\ UNCHANGED <<argv, i, args, rel_objs>>

NoArguments == outcome = "parse" /\ argc = 1 /\ PrintUsage

Help == Looping /\ argv[i] = "--help" /\ PrintUsage

\* --args is the last argument: ++i == argc.
MissingValue == Looping /\ argv[i] = "--args" /\ i + 1 = argc /\ PrintUsage

\* Faulty variant: the value is looked at again.
ArgsOptionOnly ==
  /\ Looping /\ argv[i] = "--args" /\ i + 1 < argc
  /\ args' = Append(args, argv[i + 1])
  /\ i' = i + 1
  /\ UNCHANGED <<argv, rel_objs, outcome>>

\* Whatever follows --args is its value, also an option.
ArgsOption ==
  /\ Looping /\ argv[i] = "--args" /\ i + 1 < argc
  /\ args' = Append(args, argv[i + 1])
  /\ i' = i + 2
  /\ UNCHANGED <<argv, rel_objs, outcome>>

RelObj ==
  /\ Looping /\ argv[i] \notin {"--help", "--args"}
  /\ rel_objs' = Append(rel_objs, argv[i])
  /\ i' = i + 1
  /\ UNCHANGED <<argv, args, outcome>>

\* parser_args returns 0, and main looks whether there is an object.
Parsed ==
  /\ outcome = "parse" /\ i = argc /\ argc > 1
  /\ outcome' = IF rel_objs = <<>> THEN "nothing" ELSE "load"
  /\ UNCHANGED <<argv, i, args, rel_objs>>

Next ==
  \/ NoArguments \/ Help \/ MissingValue \/ ArgsOption \/ RelObj \/ Parsed

Spec == Init /\ [][Next]_vars

-----------------------------------------------------------------------------
(***************************************************************************)
(* What parsing must achieve                                               *)
(***************************************************************************)

\* An argument is a value if an odd number of --args stands right before it:
\* of each two of them the second is the value of the first.
IsValue(p) ==
  \E n \in 1 .. p - 1 :
    /\ n % 2 = 1
    /\ \A q \in p - n .. p - 1 : argv[q] = "--args"
    /\ p - n > 1 => argv[p - n - 1] # "--args"

IsObject(p) == ~IsValue(p) /\ argv[p] \notin {"--help", "--args"}

\* s is the arguments at these positions, in their order.
Lists(s, positions) ==
  \E at \in [1 .. Len(s) -> positions] :
    /\ \A x, y \in 1 .. Len(s) : x < y => at[x] < at[y]
    /\ \A p \in positions : \E x \in 1 .. Len(s) : at[x] = p
    /\ \A x \in 1 .. Len(s) : s[x] = argv[at[x]]

\* At any point the arguments that were passed are sorted as a reader of the
\* usage text expects: no value is loaded as an object, no object is lost, and
\* both keep their order (umko.cpp:49-64).
ArgumentsAreSorted ==
  /\ Lists(rel_objs, {p \in 1 .. i - 1 : IsObject(p)})
  /\ Lists(args, {p \in 1 .. i - 1 : IsValue(p)})

\* The usage is printed, and nothing is loaded, exactly for an empty command
\* line, for a --help that is not a value and for a last --args without one
\* (umko.cpp:44-59).
UsageHasCause ==
  outcome # "parse" =>
    (outcome = "usage" <=>
       \/ argv = <<>>
       \/ \E p \in 1 .. Len(argv) :
            /\ ~IsValue(p)
            /\ argv[p] = "--help" \/ (argv[p] = "--args" /\ p = Len(argv)))
=============================================================================
