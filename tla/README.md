# A verification of UMKO

UMKO loads relocatable object files (`.o`) into a process, relocates them and
runs them, as the kernel does with modules (`README.md` of the repository). This
directory holds TLA+ models of it, the TLC runs that check them, and theorems
that TLAPS checks. All paths below are relative to `src/`.

## The system

One thread does everything, in `main` (`main/umko.cpp`): for each object of the
command line it calls `load_module` (`module/module.cpp`), and in the end the
entry that the objects define. `load_module` calls eight functions one after the
other and looks at no return code.

| Component | State | Operations | Talks to |
|---|---|---|---|
| Layout of the image (`module.cpp:18-206, 361-371`) | `Module::layout`, `sec_layout`, the addresses of the ELFIO sections, the mapped image | `init_section_addr`, `layout_sections`, `move_module`, `mod_protect` | kernel (`mmap`, `mprotect`), ELFIO |
| Symbol resolution (`module.cpp:208-283`) | symbol values in ELFIO, `func.consruct_func`, the local `newValue` | `layout_symbol_addr`, `update_symbol_addr` | SysEnv, section addresses of the layout |
| SysEnv (`include/module.h:27-62`) | a map from names to addresses, for the whole process | `add_symbol`, `get_symbol`, `get_entry` | filled by symbol resolution and, before `main`, by `RegFunc` (`include/register.h`, `main/register.cpp`) |
| Relocation loop (`module.cpp:285-359`) | `mod.sym_sec_index` | `relocate_symbol`, `apply_relocate_add` | resolved symbols, `do_relocate_add` |
| AArch64 relocation (`arch/aarch64/reloc.cpp`) | the memory of the image | `do_relocate_add` | |
| x86_64 relocation (`arch/x86_64/reloc.cpp`) | the memory of the image | `do_relocate_add` | |
| Loader (`module.cpp:374-419`, `umko.cpp:70-96`) | how far `main` is | `load_module`, `mod_init_and_construct`, `main` | all of the above, and the loaded code |
| Logger (`pub/logger.cpp`) | the level | `log`, `process_name` | |
| Command line (`umko.cpp:42-66`) | `args`, `rel_objs` | `parser_args` | its result decides what `main` loads |
| C library of the example (`examples/aarch64/mylibc.c`) | `g_buff`, the cursor and the count of `simple_vsprintf`, the union of its arguments | `my_printf` | called by the other example objects after they were linked to it |

ELFIO is a submodule without content here, `arch/aarch64/insn.h` a table copied
from Linux. Nothing is persistent, nothing runs concurrently, nothing is sent.

What is hard in this code is not concurrency but order, partial failure and
arithmetic: overlapping passes over the sections that hand on `sh_addr`,
`st_value` and `sym_sec_index`, a table of names filled by objects in the order of
the command line, constructors that run before later objects exist, every step
going on after a failed one, local variables that keep their value from one symbol
or conversion to the next, and relocations with a dozen widths and shifts at the
ends of their ranges. PROJECT.json lists these hazards with the lines where they
bite and the properties that would show them.

## The modules

| Module | What it is |
|---|---|
| `Arena` | abstract: blocks are cut from an arena that grows and is sealed once |
| `Layout` | the four functions of the image; implements `Arena` |
| `Registry` | abstract: a name, once bound, keeps its address for all who ask |
| `Symbols` | symbol resolution over all objects, with SysEnv; implements `Registry` |
| `Relocate` | one object from `move_module` to `mod_protect`: which relocations are applied, where, with what value, and when |
| `Loader` | the whole program; its steps in `layout_symbol_addr` are those of `Symbols` |
| `Words` | 64-bit words as sets of bits: sum, difference, shifts, sign extension |
| `Aarch64Reloc`, `X86Reloc` | `do_relocate_add` of both architectures under the loop of `apply_relocate_add` |
| `Args` | `parser_args` and the head of `main` |
| `LogName` | `process_name` |
| `Printf` | `my_printf` of the example library |
| `MC*` | the instances TLC checks; `MCAbstract` puts `Arena` beside `Registry`, `MCFront` puts `LogName` behind `Args` |
| `LayoutProofs`, `LoaderProofs`, `RelocateProofs`, `WordsProofs`, `Aarch64RelocProofs`, `X86RelocProofs`, `FrontProofs`, `PrintfProofs` | theorems and proofs: `LayoutProofs` has those about `Arena`, too, `LoaderProofs` those about `Registry` and `Symbols`, `FrontProofs` those about `Args` and `LogName` |

Definitions called a *faulty variant* are in no specification. They are the
plausible mistakes that the properties were tried against: with the definition
behind them replaced by the variant, TLC finds the property violated.

### Layout

The state is the headers, `off` for `vsec[i].offset`, `layout` for
`Module::layout`, `addr` for the section addresses, and the loop counters `m` and
`i` of `layout_sections` and `move_module`. One action is one iteration of a loop
(`PlaceSection` or `SkipSection`, `CopySection` or `SkipCopy`) or what lies behind
a loop (`EndPass`, `EndMove`). Contents of sections are not modelled: `intact`
holds the sections whose bytes are where they belong, and a copy over another
section takes that section out. `mmap` and `mprotect` may fail, and `mmap` returns
any page boundary. `uint32_t` is kept (`% U32`), with the assumption that an image
stays below 2^32 bytes.

### Symbols

An address is the definition it belongs to: `<<object, index>>`, or
`<<0, name>>` for a function of the executable. So two different definitions never
have the same address by accident. One action is one branch of
`update_symbol_addr` for one symbol; `newValue` is part of the state because it
survives the iteration, and holds any garbage when the function starts.

### Relocate

Four functions share `sh_addr` (`addr`), the symbol values (`value`) and
`mod.sym_sec_index` (`symSec`), and run in the order `Following` gives, the one of
`load_module`. `addr` tells only whether a section is still in the mapped file or
in the image; a symbol is known by the section it is defined in. An import gets
what SysEnv has, nothing, or the address `newValue` holds from an earlier symbol,
the outcomes that `Symbols` tells apart. One action is one iteration: over the
sections, and over the entries of a SHT_RELA section. `calls` is the sequence of
the calls of `do_relocate_add` with what each was given; whether it accepts the
relocation is only logged. An object may have several symbol tables: then the last
one is used for all relocations, which is why `LinkedSymbolIsUsed` speaks of
objects with one.

### Loader

`LoaderInit` decides which files can be read; every later step that calls the
kernel may fail. `MoveModule` summarises the functions of `Layout`, of which only
the existence of an image matters here. `links` is what the relocations of an
object refer to after `RelocateSymbol`. A relocation has one of three outcomes, and
a symbol with several relocations any number of them: it reaches its symbol, it is
refused (`Refused`, which is logged and makes the object faulty), or it is accepted
although the distance does not fit (`Astray`, which leaves no trace: PC32 and PLT32
of x86_64, `ADR_PREL_PG_HI21_NC` of AArch64). An object has one symbol table; what
several do is in `Relocate`. It has any number of init arrays, which run in the
order of the section table (`a`, `n`). `sealed` says that its code writes to memory
`mod_protect` has made read-only.

Loaded code is external: a call returns, or it ends the program if no set of
objects around it is `Safe`, that is, executable, not `sealed`, and linked to
functions of the executable or of the set only (`MayCrash`). `ran` is the sequence
of the calls. `CrashHasCause` is about how far a fault reaches. Of an object that is
`Clean` no step failed, its symbols and imports are defined, no link is astray and it
is not sealed. When the program crashes, every set of objects that contains the one
that was called last and that no link leaves (`Closed`) has an object that is not
clean: a fault elsewhere in the program is no excuse, and one that the code gets to,
over however many others, is.

### Aarch64Reloc, X86Reloc

Words are the real 64 bits. A state is a piece of code with its relocations, some
of which have been applied. On AArch64 the pieces are single instructions and the
idioms that make one address together (`adrp` with `add` or a load, `movz` or
`movn` with `movk`), which `MakesAddress` tells from others (`Alone`,
`WithLowBits`, `WideMoves`); on x86_64 pairs of relocations, apart, overlapping or on the
same place, in a section that was empty or not (`before`). x86_64 refuses a place that
is not empty, by which it means one that was relocated already. The
test does not see a relocation that left zeros there: `AcceptedReadsBack` says that
such a one is the only kind a later relocation destroys, and `RefusedIsOverflow` speaks
of places in which the file had nothing. The properties read the patched code back as the processor does,
through definitions of their own, not through the tables of the model.

### Args, LogName

`Args` has one action for each branch of the loop of `parser_args`; `outcome` is
what `main` does with the result. `ArgumentsAreSorted` compares the two lists with
a definition of their own of which argument is a value and which an object.
`LogName` is the loop of `process_name`, character by character, for paths shorter
than the literal 1024; `Call` is the line of the log that passes its `__FILE__`.

### Printf

One action handles one character or one conversion of the format. Characters are
one-character strings, an argument is the bits `va_arg` gives with, for `%c` and
`%s`, the characters they stand for. `u` is the union the converted argument is
put into: `%hu` writes a short member and prints the whole, so its upper bits are
those of the conversion before. The widths of the types of C, the length of
`print_buf` and the length of `g_buff` are constants. `PrintfAssumption` says of
them what the code needs: `print_buf` has room for the bits of an `int` and for the
digits of a `long` with a sign. `status = "undefined"` is where C says nothing any
more: the format ends within a conversion, it asks for more arguments than the call
has (`MissingArgument`), a number is longer than `print_buf`, or the text longer
than the buffer. Its properties read the printed text back: what number it is, how
it is padded. `Divides` is a grammar of formats of its own; `ArgumentsInStep`
compares the scanning loop with it.

## The runs

| Run | Shows | Bounds, and why they are enough |
|---|---|---|
| `abstract` | `BlocksDisjoint`, `Agreement` | three blocks of up to two units, cut in units of two below a limit of six: an overlap needs two; two names, two addresses, two clients, in every interleaving of both specifications. Blocks and clients are symmetric |
| `layout` | `SectionsDisjoint`, `RegionsHold`, `ImageIntact`, `AddressesAligned`, `WritableStaysWritable`, `CodeRuns`, `ReachesConstructors`, `LayoutIsArena` | three sections of all 24 combinations of flags and shapes: every pass meets a section before and one behind; a page of 4 units with sections that misalign, are empty, or fill half of it. `U32` is 32, which no image reaches |
| `layout_big_page` | finding: `WritableStaysWritable` fails on pages larger than the literal 4096 | as above, page 16, split 4, two sections |
| `symbols` | `FirstDefinitionWins`, `ImportsHoldFirstDefinition`, `DefinitionsAreOwn`, `ConstructIsOwn`, `SysEnvIsRegistry` | three objects (definition, rival definition, import in every order), up to two symbols each behind the null symbol |
| `symbols_weak` | finding: `UndefinedAreSought` fails for weak symbols | as above |
| `relocate` | `AddressesAreFinal`, `CallsInOrder`, `AllApplied`, `WritesAreAllowed`, `LinkedSymbolIsUsed` | every order of four sections out of seven kinds: loaded or not, no, one or two symbol tables of different lengths, relocations for a loaded section, for one that is not, for one that does not exist, and with a symbol out of range |
| `loader` | `CallsInOrder`, `CallsComplete`, `LinkedIsInitialised`, `CrashHasCause`, `Ends` | three objects out of six kinds, with no, one or two init arrays, one of which writes to sealed memory; every file unreadable or not, every step failing or not, every relocation applied, refused or astray. Three objects are enough for a fault two links away from the code that is called; division by zero traps, as on x86_64 |
| `aarch64_reloc` | `AddressIsMade`, `OverflowIsExact`, `OthersKeep` | every supported type and one unsupported; values one below, at and four below ±2^15, 2^16, 2^20, 2^27, 2^31, 2^32, 2^47, 2^48, as distances and as addresses, which are both ends of every range; memory empty, full, or the break instruction that is left alone |
| `x86_reloc` | `AcceptedReadsBack`, `RefusedIsOverflow` | all pairs of types at all distances; values around 2^31, 2^32, whose low half is zeros, and -2^31; memory empty or with one byte that is not |
| `front` | `ArgumentsAreSorted`, `UsageHasCause`, `NameOfPathIsPrinted` | every command line of up to four arguments, two objects and both options: an option as the value of an option, at the end and behind it; all paths of slashes and one letter up to length 7, width 3: names shorter, as long and longer than the width |
| `log_name_plain` | finding: `NameIsPrinted` fails for names without a directory | as above |
| `printf` | `CountMissesReturns`, `ArgumentsInStep`, `UndefinedHasCause`, `FieldReadsBack`, `FieldIsPadded` | every pair of 89 texts and conversions, those that break off last, so that each finds what any other left in the union, the arguments and the buffer; char of 2 bits, short 3, int 4, long 6, which four different cuts need; `PRINT_BUF_LEN` 6 holds every long but a negative `%b`, a buffer of 9 is too small for two long texts |

Type invariants are in no run: they are theorems, or lemmas where a proof needs one
and it says no more than the assumptions do (`X86Reloc`). No run has a state constraint; the sets above bound the states.

Deadlock is not checked in any run: the program, and each function of it, ends.

**Fairness.** `layout` and `loader` assume weak fairness of the next-state relation
as a whole: one thread, which the operating system keeps scheduling. `Loader` takes
it that a function of a loaded object returns or crashes; an entry that runs
forever is the application's business.

### Findings

1. `layout_big_page`: `module.cpp:151-153` splits read-only from writable data at
   a multiple of 4096, while `mprotect` works on the pages of the kernel. AArch64
   kernels also have pages of 16 and 64 KiB.
2. `symbols_weak`: `module.cpp:251` says that undefined symbols are sought in
   previous objects; line 250 leaves out the weak ones, which then get the value of
   the symbol before them or an uninitialised one (line 217).
3. `log_name_plain`: `logger.cpp:27` says that the file name is returned; without a
   slash its first character is missing.

Observed, and not contradicted by anything the repository says:

- on x86_64 PC32 and PLT32 are not checked for overflow
  (`arch/x86_64/reloc.cpp:31-37`), although every object gets an `mmap` of its own;
  an overflowing value is written before it is reported. `CrashHasCause` counts
  a link that went astray so as a cause;
- on x86_64 a relocation that wrote zeros is overwritten by a later one on the same
  or an overlapping place (`arch/x86_64/reloc.cpp:13-15`), while any other is kept;
- a section that is writable and executable, or `SHF_RO_AFTER_INIT`, is read-only
  before its constructors run (`sealed`);
- of several symbol tables the last is used for all relocations;
- `my_printf` writes one character less for every line feed, which it prints as two
  characters and counts as one (`mylibc.c:505-525`): the end of what
  `examples/aarch64/app10.c` prints is lost. `CountMissesReturns` says exactly how much;
- `%hu`, `%hx` and `%hhu` print the whole union (`mylibc.c:412`);
- zeros of a left-justified number (`%-05d`) follow it (`mylibc.c:141`).

## The proofs

For every number of sections and objects, every header, table, base, page size,
address and value that satisfies the assumptions:

- `LayoutProofs`: of the abstract specification `ArenaDisjoint` and `ArenaSealed`
  (`ArenaInv` adds that everything cut lies below the break, without which the next
  cut could overlap); of the code `TypeCorrect`, `LayoutDisjoint`, `LayoutRegions`,
  `LayoutImplementsArena`. `SectionsDisjoint` is not inductive. `LayoutInv` adds
  that every placed section ends below `total_size`, that `total_size` is bounded
  by the number of placed sections times `MaxStep` plus one split (so that no
  `uint32_t` wraps, which is what makes `align_as` monotonic), and in which pass
  each section was placed. The lemma `AlignAsRoundsUp` carries the arithmetic. Its
  second half proves `ImageIsIntact`, `CodeIsProtected`, `AddressesAreAligned`, and
  `WritableIsWritable` under the assumption that the page size divides 4096, which
  is the exact condition that finding 1 lacks. `ImageInv` adds to `LayoutInv` what
  the copying loop has come past.
- `RelocateProofs`: `RelocateTypeCorrect`, `RelocatedIsFinal`, `RelocatedInOrder`,
  `RelocatedAll`, `RelocatedWhileWritable`, `RelocatedToLinked`. The properties
  speak of the end of a function, or of all calls; `RelocateInv` says what holds
  within the loops: the tables passed have final values, `symSec` is a table as soon
  as one was passed, every call was made from an entry the loops have come past, in
  their order (`CallsAreRight`, `Ordered`), and every such entry that can be applied
  was (`SeenAreApplied`).
- `LoaderProofs`, from the registry up: `ClientsAgree` of the abstract specification;
  of symbol resolution `SymbolsTypeCorrect`, `FirstWins`, `ImportsAreBound`,
  `DefinitionsOwn`, `ConstructOwn`, `SymbolsImplementRegistry`, `ImportersAgree`, by
  `SymbolsInv`, which ties SysEnv, the values and the constructors to the symbols met
  so far (`Done`); of the program `LoaderFirstWins`, which needs only that its steps are
  steps of `Symbols` or leave the symbols alone; `LoaderTypeCorrect`, `LoaderCallsInOrder`, `LoaderCallsComplete`,
  `LoaderLinkedIsInitialised`, `LoaderCrashHasCause`. `LoaderInv` says that all
  calls made precede the one that is next (`CallsPrecede`), and which calls have to be
  there at every point of the program (`InitsMade`, `ConstructsMade`, `EntryMade`). `LinkedIsInitialised` needs `ValuesBackward` and
  `LinksBackward`: values and links only go to objects loaded no later; its
  hypothesis is that the garbage `newValue` starts with is not by accident the
  address of a symbol. `CrashHasCause` needs `FaultlessLoaded`: an object for which no
  step failed is mapped, executable and linked to values of its symbols, or astray, as
  far as those steps have been taken. So of a closed set of clean objects those loaded
  so far are `Safe` (`CleanIsSafe`), and code of a clean object does not crash
  (`CleanDoesNotCrash`). The set is cut to the loaded ones because links only go
  backward; what is not yet loaded cannot be a cause.
- `WordsProofs`: the arithmetic of words as sets of bits. `SumBit` and `CarryStep`
  give a bit of a sum from its carry; from them, by the least bit in which two
  words differ, `SubThenAdd` (what the relocation subtracts the processor adds
  again), `AddCancels`, `SumWithMultiple`; from these, `DistanceFits`, `WideFits`
  and `InvertedFits`: a test of the upper bits of a value is the same as the
  question whether the field, read with its sign, leads to it.
- `Aarch64RelocProofs`: `Aarch64TypeCorrect`, `Aarch64OthersKeep`,
  `Aarch64OverflowIsExact`, `Aarch64AddressIsMade`. `PatchedInv` says that every place the loop has come
  past holds what its relocation made of some word, and has the result of its
  overflow test; exactness then follows without looking at steps, one lemma for each
  group of types, from how a field is read (`EncodeIsRead`) and the `...Fits` lemmas.
  Branches and literals also need that code is aligned (`PlacesAreAligned`). For the
  address that a piece of code makes, `MadeUnfolds` turns the function over its
  instructions into a register after each of them, of which there are at most four;
  then `AloneMakes`, `WithLowBitsMakes` and `WideMovesMake` follow the register
  through the three idioms: `adrp` adds whole pages to the page of the place, and the
  bits that a `movz` or `movn` leaves open are those the `movk` behind it fill.
- `FrontProofs`: `CommandLineIsSorted` and `UsageIsPrintedForCause`, by `ArgsInv`.
  Which argument is a value depends on whether an odd number of `--args` stands in front
  of it (`IsValue`); the loop carries no such number, so `ValueFollows` says how it
  goes on by one argument, and `ListsAppend` how the two lists grow. `LogHasFileName`, by
  `LogInv`: the loop remembers the character behind the last slash it has passed.
- `PrintfProofs`: `PrintfInvariant`, and from it `CountIsInStep`,
  `OnlyCausesUndefined`, `ArgumentsAreInStep`, `FieldsReadBack` and `FieldsArePadded`,
  for every format, any arguments and all widths of the types. `PrintfInv` adds
  `ConsumesAsked` to the two invariants: no more arguments were consumed than the
  format behind the pointer has `%` and `*`. Without it a `MissingArgument` could have
  no cause. It holds while the loop runs only: a conversion that is cut off behind its
  `*` may ask for one more. The functions of the model that recur over numbers (`Pow`,
  the division loop `Left`, the reading of digits `NumberOf`) are opened up by
  `Recursion`, which gives a function with a first value and a step; `Induction` is a
  set of numbers that has 0 and with n also n + 1, so that neither takes an operator as
  a parameter. `DigitsAreFew` bounds the loop of `simple_outputi`, which is why
  `print_buf` overflows for a negative `%b` only. `FieldIsShaped` divides a field into
  blanks, sign, zeros, digits and what follows; `FieldIsRead` reads it back.
  `PieceIsScanned` shows that the scanning loops end where the grammar does.
- `X86RelocProofs`: `X86OnlyItsPlace` (a relocation leaves the places of others alone),
  `X86AcceptedReadsBack`, `X86RefusedIsOverflow`. `HeldInv` says that of an accepted
  relocation no bit is ever taken back, and that its place holds nothing else unless a
  later one lies on zeros of it. `RefusedInv` says that a place of its own in which the
  file has nothing is empty until its relocation comes, and holds what that wrote
  afterwards; so it was refused for its value.

Assumptions: `LayoutAssumption` (headers well formed, image below 2^32 bytes),
`MappingAssumption` (`mmap` returns non-zero page boundaries),
`SymbolsAssumption` and `LoaderAssumption` (objects finite and of the declared
shape, `register.cpp` registers no entry), `RelocateAssumption` (sections well
formed, section 0 is null), `X86RelocAssumption` (every place lies in its section),
`Aarch64RelocAssumption` (code lies at a multiple of four), `PrintfAssumption` (see
there), `ArgsAssumption` and `LogNameAssumption` (a bound and a width are numbers),
`ArenaAssumption`, `RegistryAssumption`. TLC evaluates each of them on the instances.

Every invariant and action property of the runs, and both refinements, are theorems.
Model-checked only are the liveness properties `ReachesConstructors` and `Ends`, which
rest on fairness and are out of the prover's reach, and the three findings.

## What is not modelled

- ELFIO beyond the accessors, and objects it reads only in part: a file that
  cannot be loaded counts as one without sections.
- Images of 4 GiB and more (`align_as` and `sh_size` wrap at 32 bits).
- Relocations beyond the end of their section.
- The order of constructors by priority (`.init_array.00101`): the code takes the
  order of the section table, and nothing in the repository promises another.
- Widths of `my_printf` of 2^31 and more, which overflow its `int`.
- The wording of log messages, the usage text and the level filter, which is one
  comparison with a level that nothing changes.
- The `P32` relocation types, which take the branches of the 64-bit ones.
- The rest of the examples: system calls in assembler, and applications without a
  state of their own.
- `arch/aarch64/insn.h`, of which `reloc.cpp` uses one enumeration, and the build
  files.

## Plan

1. `Layout`, `Symbols`, `Loader`, both relocation modules, `LogName` (done).
2. `Relocate`, `Args`, `Printf`, several init arrays in `Loader` (done).
3. Proofs for every module (done).
4. Left: `Relocate` and `Layout` as refinements of the steps by which `Loader`
   summarises them (`MoveModule`, `RelocateSymbol`, `ModProtect`), and what makes the
   loops end without fairness: a measure that every step lowers.
