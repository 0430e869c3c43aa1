----------------------------- MODULE FrontProofs -----------------------------
(***************************************************************************)
(* The command line, for any arguments and any number of them, and the     *)
(* name of a file in a line of the log, for any paths and widths.          *)
(***************************************************************************)
EXTENDS Args, LogName, FiniteSetTheorems, SequenceTheorems, TLAPS

\* A set of natural numbers that is not empty has a least element.
LEMMA Smallest ==
  ASSUME NEW T, T \subseteq Nat, T # {}
  PROVE  \E x \in T : \A y \in T : x <= y
<1> DEFINE Upto(x) == {y \in T : y <= x}
           Sets    == {Upto(x) : x \in T}
<1>1. Sets \subseteq FiniteSubsetsOf(Nat) /\ Sets # {}
  <2>1. ASSUME NEW x \in T
        PROVE  Upto(x) \in FiniteSubsetsOf(Nat)
    <3>1. Upto(x) \in SUBSET Nat /\ x \in Nat /\ \A y \in Upto(x) : y <= x
      OBVIOUS
    <3>2. IsFiniteSet(Upto(x))
      BY <3>1, FS_BoundedSetOfNaturals
    <3>3. QED
      BY <3>1, <3>2 DEF FiniteSubsetsOf
  <2>2. QED
    BY <2>1
<1>2. PICK M \in Sets : \A U \in Sets : <<U, M>> \notin StrictSubsetOrdering(Nat)
  <2> HIDE DEF Sets
  <2>1. QED
    BY <1>1, FS_StrictSubsetOrderingWellFounded, WFMin
<1>3. PICK x \in T : M = Upto(x)
  OBVIOUS
<1>4. ASSUME NEW y \in T, ~(x <= y)
      PROVE  FALSE
  <2>1. x \in Nat /\ y \in Nat /\ y < x
    BY <1>4
  <2>2. \A z \in T : z \in Nat /\ (z <= y => z <= x)
    BY <2>1
  <2>3. Upto(y) \subseteq Upto(x)
    BY <2>2
  <2>4. x <= x /\ ~(x <= y)
    BY <2>1
  <2>5. x \notin Upto(y) /\ x \in Upto(x)
    BY <2>4
  <2>6. Upto(y) \in SUBSET Nat /\ Upto(x) \in SUBSET Nat
    OBVIOUS
  <2> HIDE DEF Upto
  <2>7. <<Upto(y), Upto(x)>> \in StrictSubsetOrdering(Nat)
    BY <2>3, <2>5, <2>6 DEF StrictSubsetOrdering
  <2>8. QED
    BY <1>2, <1>3, <2>7
<1>5. QED
  BY <1>4

-----------------------------------------------------------------------------
(***************************************************************************)
(* Which arguments are values                                              *)
(***************************************************************************)

\* n arguments --args, and no more, stand right before position p.
Run(n, p) ==
  /\ \A q \in p - n .. p - 1 : argv[q] = "--args"
  /\ p - n > 1 => argv[p - n - 1] # "--args"

\* A run is as long as it is.
LEMMA RunIsUnique ==
  ASSUME NEW p \in Nat, NEW n \in 0 .. p - 1, NEW m \in 0 .. p - 1, Run(n, p), Run(m, p)
  PROVE  n = m
<1>1. ASSUME NEW x \in 0 .. p - 1, NEW y \in 0 .. p - 1, Run(x, p), Run(y, p), x < y
      PROVE  FALSE
  <2>1. p - x > 1 /\ p - x - 1 \in p - y .. p - 1
    BY <1>1
  <2>2. argv[p - x - 1] # "--args"
    BY <1>1, <2>1 DEF Run
  <2>3. argv[p - x - 1] = "--args"
    BY <1>1, <2>1 DEF Run
  <2>4. QED
    BY <2>2, <2>3
<1>2. n \in Int /\ m \in Int
  OBVIOUS
<1>3. QED
  BY <1>1, <1>2

\* Before every position stands a run, an empty one at least.
LEMMA RunExists ==
  ASSUME NEW p \in Nat, 1 <= p
  PROVE  \E n \in 0 .. p - 1 : Run(n, p)
<1> DEFINE Ends == {n \in Nat : n = p - 1 \/ (n < p - 1 /\ argv[p - n - 1] # "--args")}
<1>1. p - 1 \in Ends /\ Ends \subseteq Nat
  OBVIOUS
<1>2. PICK n \in Ends : \A m \in Ends : n <= m
  <2> HIDE DEF Ends
  <2>1. QED
    BY <1>1, Smallest
<1>3. n \in 0 .. p - 1 /\ (p - n > 1 => argv[p - n - 1] # "--args")
  OBVIOUS
<1>4. ASSUME NEW q \in p - n .. p - 1
      PROVE  argv[q] = "--args"
  <2>1. p - 1 - q \in Nat /\ p - 1 - q < n /\ p - 1 - q < p - 1 /\ p - (p - 1 - q) - 1 = q
    BY <1>3
  <2>2. p - 1 - q \notin Ends
    BY <1>2, <1>3, <2>1
  <2>3. QED
    BY <2>1, <2>2
<1>5. QED
  BY <1>3, <1>4 DEF Run

LEMMA ValueIsOddRun ==
  ASSUME NEW p \in Nat
  PROVE  IsValue(p) <=> \E n \in 1 .. p - 1 : n % 2 = 1 /\ Run(n, p)
BY DEF IsValue, Run

\* What the loop relies on: an argument is a value exactly if the argument
\* before it is --args and is not a value itself.
LEMMA ValueFollows ==
  ASSUME NEW p \in Nat, 1 <= p
  PROVE  IsValue(p + 1) <=> argv[p] = "--args" /\ ~IsValue(p)
<1>1. PICK n \in 0 .. p - 1 : Run(n, p)
  BY RunExists
<1>2. IsValue(p) <=> n % 2 = 1
  <2>1. n % 2 = 1 => n # 0
    OBVIOUS
  <2>2. \A m \in 1 .. p - 1 : Run(m, p) => m = n
    BY <1>1, RunIsUnique
  <2>3. QED
    BY <1>1, <2>1, <2>2, ValueIsOddRun
<1>3. CASE argv[p] = "--args"
  <2>1. Run(n + 1, p + 1)
    BY <1>1, <1>3 DEF Run
  <2>2. n + 1 \in 1 .. (p + 1) - 1 /\ p + 1 \in Nat
    OBVIOUS
  <2>3. \A m \in 1 .. (p + 1) - 1 : Run(m, p + 1) => m = n + 1
    BY <2>1, <2>2, RunIsUnique
  <2>4. IsValue(p + 1) <=> (n + 1) % 2 = 1
    BY <2>1, <2>2, <2>3, ValueIsOddRun
  <2>5. (n + 1) % 2 = 1 <=> n % 2 # 1
    OBVIOUS
  <2>6. QED
    BY <1>2, <1>3, <2>4, <2>5
<1>4. CASE argv[p] # "--args"
  <2>1. \A m \in 1 .. (p + 1) - 1 : p \in (p + 1) - m .. (p + 1) - 1
    OBVIOUS
  <2>2. ~IsValue(p + 1)
    BY <1>4, <2>1 DEF IsValue
  <2>3. QED
    BY <1>4, <2>2
<1>5. QED
  BY <1>3, <1>4

-----------------------------------------------------------------------------
(***************************************************************************)
(* The loop of parser_args                                                 *)
(***************************************************************************)

ArgsTypeOK ==
  /\ argv \in Seq(Arguments)
  /\ i \in 1 .. argc
  /\ args \in Seq(Arguments) /\ rel_objs \in Seq(Arguments)
  /\ outcome \in {"parse", "usage", "nothing", "load"}

\* An argument the usage is printed for.
Stops(p) ==
  ~IsValue(p) /\ (argv[p] = "--help" \/ (argv[p] = "--args" /\ p = Len(argv)))

\* The loop has come past none of them, and its end is the end.
StoppedForCause ==
  /\ outcome = "usage" => argv = <<>> \/ \E p \in 1 .. Len(argv) : Stops(p)
  /\ outcome # "usage" => \A p \in 1 .. i - 1 : ~Stops(p)
  /\ outcome \in {"nothing", "load"} => i = argc /\ argc > 1

\* The loop never looks at a value.
ArgsInv ==
  /\ ArgsTypeOK
  /\ ~IsValue(i)
  /\ ArgumentsAreSorted
  /\ StoppedForCause

\* One more argument behind those of a list.
LEMMA ListsAppend ==
  ASSUME NEW s \in Seq(Arguments), NEW S \in SUBSET Int, Lists(s, S),
         NEW p \in Int, argv[p] \in Arguments, \A q \in S : q < p
  PROVE  Lists(Append(s, argv[p]), S \cup {p})
<1> DEFINE t == Append(s, argv[p])
<1>1. PICK at \in [1 .. Len(s) -> S] :
        /\ \A x, y \in 1 .. Len(s) : x < y => at[x] < at[y]
        /\ \A q \in S : \E x \in 1 .. Len(s) : at[x] = q
        /\ \A x \in 1 .. Len(s) : s[x] = argv[at[x]]
  BY DEF Lists
<1>2. /\ Len(s) \in Nat
      /\ Len(t) = Len(s) + 1
      /\ \A x \in 1 .. Len(s) : t[x] = s[x]
      /\ t[Len(s) + 1] = argv[p]
  BY AppendProperties
<1> DEFINE to == [x \in 1 .. Len(t) |-> IF x = Len(t) THEN p ELSE at[x]]
<1>3. \A x \in 1 .. Len(t) : x = Len(t) \/ x \in 1 .. Len(s)
  BY <1>2
<1>4. to \in [1 .. Len(t) -> S \cup {p}]
  BY <1>3
<1>5. \A x, y \in 1 .. Len(t) : x < y => to[x] < to[y]
  <2> SUFFICES ASSUME NEW x \in 1 .. Len(t), NEW y \in 1 .. Len(t), x < y
               PROVE  to[x] < to[y]
    OBVIOUS
  <2>1. x \in 1 .. Len(s) /\ x # Len(t) /\ to[x] = at[x] /\ at[x] \in S
    BY <1>2, <1>3
  <2>2. CASE y = Len(t)
    BY <2>1, <2>2
  <2>3. CASE y \in 1 .. Len(s)
    BY <1>1, <1>2, <2>1, <2>3
  <2>4. QED
    BY <1>3, <2>2, <2>3
<1>6. \A q \in S \cup {p} : \E x \in 1 .. Len(t) : to[x] = q
  <2>1. to[Len(t)] = p /\ Len(t) \in 1 .. Len(t)
    BY <1>2
  <2>2. \A x \in 1 .. Len(s) : x \in 1 .. Len(t) /\ to[x] = at[x]
    BY <1>2
  <2> HIDE DEF to, t
  <2>3. QED
    BY <1>1, <2>1, <2>2
<1>7. \A x \in 1 .. Len(t) : t[x] = argv[to[x]]
  BY <1>1, <1>2, <1>3
<1>8. QED
  <2> HIDE DEF to, t
  <2>1. Lists(t, S \cup {p})
    BY <1>4, <1>5, <1>6, <1>7 DEF Lists
  <2>2. QED
    BY <2>1 DEF t

LEMMA ArgsInvInit == Init => ArgsInv
<1> SUFFICES ASSUME Init PROVE ArgsInv
  OBVIOUS
<1>1. PICK n \in 0 .. MaxArgs : argv \in [1 .. n -> Arguments]
  BY DEF Init
<1>2. argv \in Seq(Arguments) /\ argc \in Nat /\ argc >= 1
  BY <1>1, ArgsAssumption DEF argc
<1>3. i = 1 /\ args = <<>> /\ rel_objs = <<>> /\ outcome = "parse"
  BY DEF Init
<1>4. ArgsTypeOK
  BY <1>2, <1>3 DEF ArgsTypeOK
<1>5. ~IsValue(i)
  BY <1>3 DEF IsValue
<1>6. Lists(<<>>, {})
  <2>1. [x \in {} |-> 0] \in [1 .. Len(<<>>) -> {}]
    OBVIOUS
  <2>2. QED
    BY <2>1 DEF Lists
<1>7. ArgumentsAreSorted
  BY <1>3, <1>6 DEF ArgumentsAreSorted
<1>8. StoppedForCause
  BY <1>3 DEF StoppedForCause
<1>9. QED
  BY <1>4, <1>5, <1>7, <1>8 DEF ArgsInv

\* What only depends on the command line.
LEMMA CommandLineStays ==
  ASSUME argv' = argv
  PROVE  /\ argc' = argc
         /\ \A p : IsValue(p)' = IsValue(p) /\ IsObject(p)' = IsObject(p) /\ Stops(p)' = Stops(p)
         /\ \A s, S : Lists(s, S)' = Lists(s, S)
BY DEF argc, IsValue, IsObject, Stops, Lists

\* A step that ends the loop, or main, leaves the lists alone.
LEMMA EndPreserves ==
  ASSUME ArgsInv, UNCHANGED <<argv, i, args, rel_objs>>
  PROVE  ~IsValue(i)' /\ ArgumentsAreSorted'
<1>1. ~IsValue(i)'
  BY DEF ArgsInv, IsValue
<1>2. /\ {p \in 1 .. i - 1 : IsObject(p)}' = {p \in 1 .. i - 1 : IsObject(p)}
      /\ {p \in 1 .. i - 1 : IsValue(p)}' = {p \in 1 .. i - 1 : IsValue(p)}
  BY CommandLineStays
<1>3. ArgumentsAreSorted'
  BY <1>2, CommandLineStays DEF ArgsInv, ArgumentsAreSorted
<1>4. QED
  BY <1>1, <1>3

LEMMA NoArgumentsPreserves ==
  ASSUME ArgsInv, NoArguments
  PROVE  ArgsInv'
<1>1. UNCHANGED <<argv, i, args, rel_objs>> /\ outcome' = "usage" /\ Len(argv) = 0
  BY DEF NoArguments, PrintUsage, argc, ArgsInv, ArgsTypeOK
<1>2. argv = <<>>
  BY <1>1, EmptySeq DEF ArgsInv, ArgsTypeOK
<1>3. ArgsTypeOK' /\ StoppedForCause'
  BY <1>1, <1>2 DEF ArgsInv, ArgsTypeOK, StoppedForCause, argc
<1>4. QED
  BY <1>1, <1>3, EndPreserves DEF ArgsInv

LEMMA UsagePreserves ==
  ASSUME ArgsInv, Help \/ MissingValue
  PROVE  ArgsInv'
<1>1. /\ UNCHANGED <<argv, i, args, rel_objs>>
      /\ outcome' = "usage"
      /\ i < argc
      /\ argv[i] = "--help" \/ (argv[i] = "--args" /\ i + 1 = argc)
  BY DEF Help, MissingValue, PrintUsage, Looping
<1>2. Len(argv) \in Nat /\ i \in 1 .. Len(argv) /\ (i + 1 = argc => i = Len(argv))
  BY <1>1 DEF ArgsInv, ArgsTypeOK, argc
<1>3. Stops(i)
  BY <1>1, <1>2 DEF ArgsInv, Stops
<1>4. \E p \in 1 .. Len(argv') : Stops(p)'
  BY <1>1, <1>2, <1>3, CommandLineStays
<1>5. ArgsTypeOK' /\ StoppedForCause'
  BY <1>1, <1>4 DEF ArgsInv, ArgsTypeOK, StoppedForCause, argc
<1>6. QED
  BY <1>1, <1>5, EndPreserves DEF ArgsInv

LEMMA ParsedPreserves ==
  ASSUME ArgsInv, Parsed
  PROVE  ArgsInv'
<1>1. /\ UNCHANGED <<argv, i, args, rel_objs>>
      /\ outcome = "parse" /\ outcome' \in {"nothing", "load"}
      /\ i = argc /\ argc > 1
  BY DEF Parsed
<1>2. ArgsTypeOK' /\ StoppedForCause'
  BY <1>1, CommandLineStays DEF ArgsInv, ArgsTypeOK, StoppedForCause
<1>3. QED
  BY <1>1, <1>2, EndPreserves DEF ArgsInv

LEMMA RelObjPreserves ==
  ASSUME ArgsInv, RelObj
  PROVE  ArgsInv'
<1>1. /\ outcome = "parse" /\ i < argc
      /\ argv[i] \notin {"--help", "--args"}
      /\ rel_objs' = Append(rel_objs, argv[i])
      /\ i' = i + 1 /\ argv' = argv /\ args' = args /\ outcome' = outcome
  BY DEF RelObj, Looping
<1>2. i \in Nat /\ 1 <= i /\ Len(argv) \in Nat /\ i \in 1 .. Len(argv) /\ argv[i] \in Arguments
  BY <1>1 DEF ArgsInv, ArgsTypeOK, argc
<1>3. ~IsValue(i) /\ IsObject(i) /\ ~IsValue(i + 1)
  BY <1>1, <1>2, ValueFollows DEF ArgsInv, IsObject
<1>4. 1 .. (i + 1) - 1 = (1 .. i - 1) \cup {i}
  BY <1>2
<1>5. ArgsTypeOK'
  BY <1>1, <1>2, AppendProperties DEF ArgsInv, ArgsTypeOK, argc
<1>6. ~IsValue(i)'
  BY <1>1, <1>3 DEF IsValue
<1>7. ArgumentsAreSorted'
  <2> DEFINE S == {p \in 1 .. i - 1 : IsObject(p)}
             V == {p \in 1 .. i - 1 : IsValue(p)}
  <2>1. Lists(rel_objs, S) /\ Lists(args, V) /\ rel_objs \in Seq(Arguments)
    BY DEF ArgsInv, ArgumentsAreSorted, ArgsTypeOK
  <2>2. S \in SUBSET Int /\ \A q \in S : q < i
    BY <1>2
  <2>3. Lists(rel_objs', S \cup {i})
    <3> HIDE DEF S
    <3>1. i \in Int
      BY <1>2
    <3>2. Lists(Append(rel_objs, argv[i]), S \cup {i})
      BY <1>2, <2>1, <2>2, <3>1, ListsAppend
    <3>3. QED
      BY <1>1, <3>2
  <2>4. {p \in 1 .. i - 1 : IsObject(p)}' = S \cup {i}
    BY <1>1, <1>3, <1>4, CommandLineStays
  <2>5. {p \in 1 .. i - 1 : IsValue(p)}' = V
    BY <1>1, <1>3, <1>4, CommandLineStays
  <2>6. QED
    <3> HIDE DEF S, V
    <3>1. QED
      BY <1>1, <2>1, <2>3, <2>4, <2>5, CommandLineStays DEF ArgumentsAreSorted
<1>8. StoppedForCause'
  <2>1. ~Stops(i)
    BY <1>1 DEF Stops
  <2>2. \A p \in 1 .. i' - 1 : ~Stops(p)'
    BY <1>1, <1>4, <2>1, CommandLineStays DEF ArgsInv, StoppedForCause
  <2>3. QED
    BY <1>1, <2>2 DEF StoppedForCause
<1>9. QED
  BY <1>5, <1>6, <1>7, <1>8 DEF ArgsInv

LEMMA ArgsOptionPreserves ==
  ASSUME ArgsInv, ArgsOption
  PROVE  ArgsInv'
<1>1. /\ outcome = "parse" /\ i + 1 < argc
      /\ argv[i] = "--args"
      /\ args' = Append(args, argv[i + 1])
      /\ i' = i + 2 /\ argv' = argv /\ rel_objs' = rel_objs /\ outcome' = outcome
  BY DEF ArgsOption, Looping
<1>2. /\ i \in Nat /\ 1 <= i /\ i + 1 \in Nat /\ 1 <= i + 1
      /\ Len(argv) \in Nat /\ i + 1 \in 1 .. Len(argv) /\ i # Len(argv)
      /\ argv[i + 1] \in Arguments
  BY <1>1 DEF ArgsInv, ArgsTypeOK, argc
<1>3. ~IsValue(i) /\ ~IsObject(i) /\ IsValue(i + 1) /\ ~IsObject(i + 1) /\ ~IsValue(i + 2)
  <2>1. IsValue(i + 1)
    BY <1>1, <1>2, ValueFollows DEF ArgsInv
  <2>2. ~IsValue((i + 1) + 1) /\ (i + 1) + 1 = i + 2
    BY <1>2, <2>1, ValueFollows
  <2>3. QED
    BY <1>1, <2>1, <2>2 DEF ArgsInv, IsObject
<1>4. 1 .. (i + 2) - 1 = (1 .. i - 1) \cup {i, i + 1}
  BY <1>2
<1>5. ArgsTypeOK'
  BY <1>1, <1>2, AppendProperties DEF ArgsInv, ArgsTypeOK, argc
<1>6. ~IsValue(i)'
  BY <1>1, <1>3 DEF IsValue
<1>7. ArgumentsAreSorted'
  <2> DEFINE S == {p \in 1 .. i - 1 : IsObject(p)}
             V == {p \in 1 .. i - 1 : IsValue(p)}
  <2>1. Lists(rel_objs, S) /\ Lists(args, V) /\ args \in Seq(Arguments)
    BY DEF ArgsInv, ArgumentsAreSorted, ArgsTypeOK
  <2>2. V \in SUBSET Int /\ \A q \in V : q < i + 1
    BY <1>2
  <2>3. Lists(args', V \cup {i + 1})
    <3> HIDE DEF V
    <3>1. i + 1 \in Int
      BY <1>2
    <3>2. Lists(Append(args, argv[i + 1]), V \cup {i + 1})
      BY <1>2, <2>1, <2>2, <3>1, ListsAppend
    <3>3. QED
      BY <1>1, <3>2
  <2>4. {p \in 1 .. i - 1 : IsObject(p)}' = S
    BY <1>1, <1>3, <1>4, CommandLineStays
  <2>5. {p \in 1 .. i - 1 : IsValue(p)}' = V \cup {i + 1}
    BY <1>1, <1>3, <1>4, CommandLineStays
  <2>6. QED
    <3> HIDE DEF S, V
    <3>1. QED
      BY <1>1, <2>1, <2>3, <2>4, <2>5, CommandLineStays DEF ArgumentsAreSorted
<1>8. StoppedForCause'
  <2>1. ~Stops(i) /\ ~Stops(i + 1)
    BY <1>1, <1>2, <1>3 DEF Stops
  <2>2. \A p \in 1 .. i' - 1 : ~Stops(p)'
    BY <1>1, <1>4, <2>1, CommandLineStays DEF ArgsInv, StoppedForCause
  <2>3. QED
    BY <1>1, <2>2 DEF StoppedForCause
<1>9. QED
  BY <1>5, <1>6, <1>7, <1>8 DEF ArgsInv

LEMMA ArgsInvHolds == Spec => []ArgsInv
<1>1. ArgsInv /\ UNCHANGED vars => ArgsInv'
  <2> SUFFICES ASSUME ArgsInv, UNCHANGED vars PROVE ArgsInv'
    OBVIOUS
  <2>1. ArgsTypeOK' /\ StoppedForCause'
    BY CommandLineStays DEF ArgsInv, ArgsTypeOK, StoppedForCause, vars
  <2>2. QED
    BY <2>1, EndPreserves DEF ArgsInv, vars
<1>2. ArgsInv /\ [Next]_vars => ArgsInv'
  BY <1>1, NoArgumentsPreserves, UsagePreserves, ParsedPreserves, RelObjPreserves,
     ArgsOptionPreserves DEF Next
<1>3. QED
  BY <1>2, ArgsInvInit, PTL DEF Spec

\* Objects and values are told apart on command lines of any length: what is
\* behind an --args is its value unless that --args is a value (umko.cpp:49-64).
THEOREM CommandLineIsSorted == Spec => []ArgumentsAreSorted
<1>1. ArgsInv => ArgumentsAreSorted
  BY DEF ArgsInv
<1>2. QED
  BY <1>1, ArgsInvHolds, PTL

\* The usage is printed instead of loading exactly for the three causes the code
\* has for it (umko.cpp:44-59).
THEOREM UsageIsPrintedForCause == Spec => []UsageHasCause
<1>1. ArgsInv => UsageHasCause
  <2> SUFFICES ASSUME ArgsInv, outcome # "parse"
               PROVE  outcome = "usage" <=>
                        argv = <<>> \/ \E p \in 1 .. Len(argv) : Stops(p)
    BY DEF UsageHasCause, Stops
  <2>1. CASE outcome = "usage"
    BY <2>1 DEF ArgsInv, StoppedForCause
  <2>2. CASE outcome \in {"nothing", "load"}
    <3>1. i = argc /\ argc > 1 /\ Len(argv) \in Nat
      BY <2>2 DEF ArgsInv, StoppedForCause, ArgsTypeOK
    <3>2. 1 .. i - 1 = 1 .. Len(argv) /\ argv # <<>>
      BY <3>1 DEF argc
    <3>3. QED
      BY <2>2, <3>2 DEF ArgsInv, StoppedForCause
  <2>3. QED
    BY <2>1, <2>2 DEF ArgsInv, ArgsTypeOK
<1>2. QED
  BY <1>1, ArgsInvHolds, PTL

-----------------------------------------------------------------------------
(***************************************************************************)
(* process_name                                                            *)
(***************************************************************************)

LogTypeOK ==
  /\ filepath \in Seq(STRING)
  /\ pos \in 0 .. Len(filepath)
  /\ last_slash \in 0 .. pos
  /\ from \in Nat \cup {Idle, Looking}

\* Of the characters the loop has seen, the last slash is the one it remembers;
\* if it saw none, it remembers the first character.
LastSlashIsKept ==
  /\ \A x \in last_slash + 2 .. pos : filepath[x] # Slash
  /\ (\E x \in 1 .. pos : filepath[x] = Slash) =>
       last_slash < pos /\ filepath[last_slash + 1] = Slash

LogInv ==
  /\ LogTypeOK
  /\ from = Idle => pos = 0 /\ last_slash = 0
  /\ from # Idle => filepath \in Paths
  /\ LastSlashIsKept
  /\ from \in Nat =>
       /\ pos = Len(filepath)
       /\ from = IF pos - last_slash > width THEN pos - width ELSE last_slash + 1

LEMMA LogInvInit == LogInit => LogInv
BY DEF LogInit, LogInv, LogTypeOK, LastSlashIsKept, Idle

LEMMA CallPreserves ==
  ASSUME LogInv, Call
  PROVE  LogInv'
<1>1. /\ from = Idle /\ from' = Looking
      /\ filepath' \in Paths /\ last_slash' = 0 /\ pos' = 0
  BY DEF Call, LogInv
<1>2. filepath' \in Seq(STRING) /\ Len(filepath') \in Nat
  BY <1>1, LogNameAssumption
<1>3. from' \notin Nat /\ from' # Idle
  BY <1>1 DEF Idle, Looking
<1>4. LastSlashIsKept'
  BY <1>1 DEF LastSlashIsKept
<1>5. QED
  BY <1>1, <1>2, <1>3, <1>4 DEF LogInv, LogTypeOK

LEMMA StepPreserves ==
  ASSUME LogInv, Step
  PROVE  LogInv'
<1>1. /\ from = Looking /\ pos # Len(filepath) /\ pos' = pos + 1
      /\ last_slash' = IF filepath[pos + 1] = Slash THEN pos ELSE last_slash
      /\ filepath' = filepath /\ from' = from
  BY DEF Step, AtEnd, AtSlash
<1>2. pos \in Nat /\ last_slash \in Nat /\ last_slash <= pos /\ pos < Len(filepath) /\ Len(filepath) \in Nat
  BY <1>1 DEF LogInv, LogTypeOK
<1>3. LogTypeOK'
  BY <1>1, <1>2 DEF LogInv, LogTypeOK
<1>4. LastSlashIsKept'
  <2>1. CASE filepath[pos + 1] = Slash
    BY <1>1, <1>2, <2>1 DEF LastSlashIsKept
  <2>2. CASE filepath[pos + 1] # Slash
    <3>1. \A x \in last_slash + 2 .. pos + 1 : x = pos + 1 \/ x \in last_slash + 2 .. pos
      BY <1>2
    <3>2. \A x \in 1 .. pos + 1 : x = pos + 1 \/ x \in 1 .. pos
      BY <1>2
    <3>3. QED
      BY <1>1, <1>2, <2>2, <3>1, <3>2 DEF LogInv, LastSlashIsKept
  <2>3. QED
    BY <2>1, <2>2
<1>5. from' # Idle /\ from' \notin Nat /\ filepath' \in Paths
  BY <1>1 DEF LogInv, Idle, Looking
<1>6. QED
  BY <1>3, <1>4, <1>5 DEF LogInv

LEMMA ReturnPreserves ==
  ASSUME LogInv, Return
  PROVE  LogInv'
<1>1. /\ from = Looking /\ (pos = Limit \/ pos = Len(filepath))
      /\ from' = IF pos - last_slash > width THEN pos - width ELSE last_slash + 1
      /\ filepath' = filepath /\ last_slash' = last_slash /\ pos' = pos
  BY DEF Return, AtEnd
<1>2. filepath \in Paths /\ pos \in 0 .. Len(filepath) /\ last_slash \in 0 .. pos /\ Len(filepath) \in Nat
  BY <1>1 DEF LogInv, LogTypeOK, Idle, Looking
<1>3. pos = Len(filepath)
  BY <1>1, <1>2, LogNameAssumption
<1>4. from' \in Nat
  BY <1>1, <1>2, LogNameAssumption
<1>5. LogTypeOK' /\ from' # Idle
  BY <1>1, <1>4 DEF LogInv, LogTypeOK, Idle
<1>6. LastSlashIsKept'
  BY <1>1 DEF LogInv, LastSlashIsKept
<1>7. QED
  BY <1>1, <1>2, <1>3, <1>5, <1>6 DEF LogInv

LEMMA LogInvHolds == LogSpec => []LogInv
<1>1. LogInv /\ UNCHANGED logVars => LogInv'
  BY DEF LogInv, LogTypeOK, LastSlashIsKept, logVars
<1>2. LogInv /\ [LogNext]_logVars => LogInv'
  BY <1>1, CallPreserves, StepPreserves, ReturnPreserves DEF LogNext
<1>3. QED
  BY <1>2, LogInvInit, PTL DEF LogSpec

LEMMA SuffixIs ==
  ASSUME NEW path \in Seq(STRING), NEW t \in Suffixes(path)
  PROVE  \E k \in 1 .. Len(path) + 1 :
           /\ t = SubSeq(path, k, Len(path))
           /\ Len(t) = Len(path) - k + 1
           /\ \A n \in 1 .. Len(t) : t[n] = path[k + n - 1]
<1>1. Len(path) \in Nat /\ \A n \in 1 .. Len(path) : path[n] \in STRING
  OBVIOUS
<1>2. PICK k \in 1 .. Len(path) + 1 : t = SubSeq(path, k, Len(path))
  <2>1. CASE t = <<>>
    <3>1. SubSeq(path, Len(path) + 1, Len(path)) = <<>>
      BY <1>1, SubSeqEmpty
    <3>2. QED
      BY <1>1, <2>1, <3>1
  <2>2. CASE t # <<>>
    <3>1. PICK k \in 1 .. Len(path) : t = SubSeq(path, k, Len(path))
      BY <2>2, Zenon DEF Suffixes
    <3>2. k \in 1 .. Len(path) + 1
      BY <1>1
    <3>3. QED
      BY <3>1, <3>2
  <2>3. QED
    BY <2>1, <2>2
<1>3. k \in Int /\ Len(path) \in Int /\ \A n \in k .. Len(path) : path[n] \in STRING
  BY <1>1
<1>4. /\ Len(t) = IF k <= Len(path) THEN Len(path) - k + 1 ELSE 0
      /\ \A n \in 1 .. Len(path) - k + 1 : t[n] = path[k + n - 1]
  BY <1>2, <1>3, SubSeqProperties
<1>5. QED
  BY <1>1, <1>2, <1>4

\* The name of a file is what is behind the last slash of its path.
LEMMA NameIsBehindSlash ==
  ASSUME NEW path \in Seq(STRING), NEW l \in 1 .. Len(path),
         path[l] = Slash, \A x \in l + 1 .. Len(path) : path[x] # Slash
  PROVE  FileName(path) = SubSeq(path, l + 1, Len(path))
<1> DEFINE IsName(t) == /\ \A n \in DOMAIN t : t[n] # Slash
                        /\ Len(t) = Len(path) \/ path[Len(path) - Len(t)] = Slash
           name == SubSeq(path, l + 1, Len(path))
<1>1. Len(path) \in Nat /\ \A n \in 1 .. Len(path) : path[n] \in STRING
  OBVIOUS
<1>2. name \in Suffixes(path)
  <2>1. CASE l = Len(path)
    <3>1. name = <<>>
      BY <1>1, <2>1, SubSeqEmpty
    <3>2. QED
      BY <3>1 DEF Suffixes
  <2>2. CASE l # Len(path)
    <3>1. l + 1 \in 1 .. Len(path)
      BY <1>1, <2>2
    <3>2. QED
      BY <3>1, Zenon DEF Suffixes
  <2>3. QED
    BY <2>1, <2>2
<1>3. name \in Seq(STRING) /\ Len(name) = Len(path) - l /\ \A n \in 1 .. Len(name) : name[n] = path[l + n]
  <2>1. l + 1 \in Int /\ Len(path) \in Int /\ \A n \in l + 1 .. Len(path) : path[n] \in STRING
    BY <1>1
  <2>2. /\ name \in Seq(STRING)
        /\ Len(name) = IF l + 1 <= Len(path) THEN Len(path) - (l + 1) + 1 ELSE 0
        /\ \A n \in 1 .. Len(path) - (l + 1) + 1 : name[n] = path[(l + 1) + n - 1]
    BY <2>1, SubSeqProperties
  <2> HIDE DEF name
  <2>3. Len(name) = Len(path) - l
    BY <1>1, <2>2
  <2>4. \A n \in 1 .. Len(name) : n \in 1 .. Len(path) - (l + 1) + 1 /\ (l + 1) + n - 1 = l + n
    BY <1>1, <2>3
  <2>5. QED
    BY <2>2, <2>3, <2>4
<1>4. IsName(name)
  <2> HIDE DEF name
  <2>1. DOMAIN name = 1 .. Len(name) /\ Len(path) - Len(name) = l
    BY <1>1, <1>3
  <2>2. \A n \in 1 .. Len(name) : l + n \in l + 1 .. Len(path)
    BY <1>1, <1>3
  <2>3. QED
    BY <1>3, <2>1, <2>2
<1>5. ASSUME NEW t \in Suffixes(path), IsName(t)
      PROVE  t = name
  <2>1. PICK k \in 1 .. Len(path) + 1 :
          /\ t = SubSeq(path, k, Len(path))
          /\ Len(t) = Len(path) - k + 1
          /\ \A n \in 1 .. Len(t) : t[n] = path[k + n - 1]
    BY SuffixIs
  <2>2. ~(k <= l)
    <3> SUFFICES ASSUME k <= l PROVE FALSE
      OBVIOUS
    <3>1. l - k + 1 \in 1 .. Len(t) /\ k + (l - k + 1) - 1 = l
      BY <1>1, <2>1
    <3>2. l - k + 1 \in DOMAIN t /\ t[l - k + 1] = Slash
      BY <2>1, <3>1
    <3>3. QED
      BY <1>5, <3>2
  <2>3. ~(k > l + 1)
    <3> SUFFICES ASSUME k > l + 1 PROVE FALSE
      OBVIOUS
    <3>1. Len(t) # Len(path) /\ Len(path) - Len(t) = k - 1 /\ k - 1 \in l + 1 .. Len(path)
      BY <1>1, <2>1
    <3>2. QED
      BY <1>5, <3>1
  <2>4. k = l + 1
    BY <1>1, <2>2, <2>3
  <2>5. QED
    BY <2>1, <2>4
<1>6. FileName(path) = CHOOSE t \in Suffixes(path) : IsName(t)
  BY DEF FileName
<1> HIDE DEF IsName, name
<1>7. QED
  BY <1>2, <1>4, <1>5, <1>6 DEF name

\* Of a path with a slash, as __FILE__ is with cmake, the log has the name of the
\* file or its last characters, whatever the width is (logger.cpp:27-44).
THEOREM LogHasFileName == LogSpec => []NameOfPathIsPrinted
<1>1. LogInv => NameOfPathIsPrinted
  <2> SUFFICES ASSUME LogInv, from \in Nat, Contains(filepath, Slash)
               PROVE  Returned = Promised(filepath)
    BY DEF NameOfPathIsPrinted
  <2> DEFINE path == filepath
             l == last_slash + 1
             name == SubSeq(path, l + 1, Len(path))
  <2>1. path \in Seq(STRING) /\ Len(path) \in Nat /\ width \in Nat /\ pos = Len(path)
    BY LogNameAssumption DEF LogInv, LogTypeOK
  <2>2. /\ l \in 1 .. Len(path) /\ path[l] = Slash
        /\ \A x \in l + 1 .. Len(path) : path[x] # Slash
        /\ from = IF Len(path) - last_slash > width THEN Len(path) - width ELSE last_slash + 1
    BY <2>1 DEF LogInv, LogTypeOK, LastSlashIsKept, Contains
  <2>3. FileName(path) = name
    BY <2>1, <2>2, NameIsBehindSlash
  <2>4. Len(name) = Len(path) - l
    <3>1. l + 1 \in Int /\ Len(path) \in Int /\ \A n \in l + 1 .. Len(path) : path[n] \in STRING
      BY <2>1, <2>2
    <3>2. Len(name) = IF l + 1 <= Len(path) THEN Len(path) - (l + 1) + 1 ELSE 0
      BY <3>1, SubSeqProperties
    <3> HIDE DEF name
    <3>3. QED
      BY <2>1, <2>2, <3>2
  <2>5. CASE Len(path) - l <= width
    <3>1. from = l
      <4> HIDE DEF name
      <4>1. Len(path) \in Nat /\ width \in Nat /\ last_slash \in Nat
        BY <2>1 DEF LogInv, LogTypeOK
      <4>2. Len(path) - last_slash > width => Len(path) - width = l
        BY <2>5, <4>1
      <4>3. QED
        BY <2>2, <4>2
    <3>2. Returned = name
      BY <3>1 DEF Returned
    <3>3. Promised(path) = name
      BY <2>3, <2>4, <2>5 DEF Promised
    <3>4. QED
      BY <3>2, <3>3
  <2>6. CASE ~(Len(path) - l <= width)
    <3>1. from = Len(path) - width
      <4> HIDE DEF name
      <4>1. Len(path) \in Nat /\ width \in Nat /\ last_slash \in Nat
        BY <2>1 DEF LogInv, LogTypeOK
      <4>2. Len(path) - last_slash > width
        BY <2>6, <4>1
      <4>3. QED
        BY <2>2, <4>2
    <3>2. Promised(path) = SubSeq(name, Len(path) - l - width + 1, Len(path) - l)
      <4> HIDE DEF name
      <4>1. QED
        BY <2>3, <2>4, <2>6 DEF Promised
    <3>3. Returned = SubSeq(path, Len(path) - width + 1, Len(path))
      BY <3>1 DEF Returned
    <3>4. CASE width = 0
      <4>1. SubSeq(path, Len(path) - width + 1, Len(path)) = <<>>
        BY <2>1, <3>4, SubSeqEmpty
      <4>2. SubSeq(name, Len(path) - l - width + 1, Len(path) - l) = <<>>
        <5> HIDE DEF name
        <5>1. QED
          BY <2>1, <2>2, <3>4, SubSeqEmpty
      <4>3. QED
        BY <3>2, <3>3, <4>1, <4>2
    <3>5. CASE width # 0
      <4> DEFINE b == l + 1
                 e == Len(path)
                 x == Len(path) - l - width + 1
                 y == Len(path) - l
      <4>1. /\ b \in 1 .. Len(path) /\ e \in 1 .. Len(path)
            /\ x \in 1 .. e - b + 1 /\ y \in 1 .. e - b + 1
            /\ b + x - 1 = Len(path) - width + 1 /\ b + y - 1 = Len(path)
        <5>1. l \in Nat /\ l >= 1 /\ l <= Len(path)
          BY <2>2
        <5> HIDE DEF l, name
        <5>2. QED
          BY <2>1, <2>6, <3>5, <5>1
      <4>2. SubSeq(SubSeq(path, b, e), x, y) = SubSeq(path, b + x - 1, b + y - 1)
        <5> HIDE DEF b, e, x, y
        <5>1. QED
          BY <2>1, <4>1, SubSeqOfSubSeq
      <4>3. QED
        BY <3>2, <3>3, <4>1, <4>2
    <3>6. QED
      BY <3>4, <3>5
  <2>7. QED
    BY <2>5, <2>6
<1>2. QED
  BY <1>1, LogInvHolds, PTL
=============================================================================
