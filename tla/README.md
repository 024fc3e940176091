# CMatiria, specified

CMatiria (`src/Matiria`) is a small statically typed language: a scanner and a
parser build a syntax tree, a validator resolves names and types in it, a code
generator writes bytecode, and a stack machine runs it. This directory holds
TLA+ modules of that pipeline from the characters of a file to the exit code,
the TLC configurations that check them, and TLAPS proofs about the machine, its
stack, its hash tables, the type list, the scanner, the ownership of the syntax
tree and the launcher.

Contents: [the system](#the-system) · [the plan](#the-plan) ·
[modules](#modules-and-code) · [runs](#runs) · [proofs](#proofs) ·
[what the code does that it should not](#where-the-code-departs-from-itself) ·
[limits of the model](#what-is-not-modelled)

## The system

Paths are under `src/Matiria`. "Correct when" is what a property should say.

| component | state it keeps | operations | correct when |
|---|---|---|---|
| engine (`runtime/engine.c`) | value stack and `stack_top`; one C activation of `call()` per live call (`ip`, `frame`, captured block); list `objects` of everything allocated | one handler per opcode, `push`, `mtr_link_obj`, `mtr_execute` and its sweep | a program does what its source means; a call replaces callee and arguments by one result and touches no cell of its callers; pointers stay within the stack; every object is freed once |
| objects (`runtime/object.c`) | structs, strings, arrays, maps (open addressing with tombstones), functions, closures with their upvalue block | constructors, `mtr_map_*`, `hash_val`, `mtr_delete_object` | a map is a finite function; a closure reads what its creator captured |
| bytecode (`bytecode.c`) | a chunk per function, growing | `mtr_write_chunk` | operands are read as they were written; 16-bit words hold the jumps |
| code generator (`compiler.c`) | the chunk being written, the offsets still to be patched | `write_*`, `mtr_compile` | operands come in the order the engine pops them; jumps land where they should; every path leaves the stack height the validator counted on |
| package (`package.c`) | chunks and the addresses of global functions, the symbol of `main` | `mtr_load_package`, `mtr_package_insert_*` | an index the validator gave finds its function |
| validator (`validator/validator.c`) | the chain of validators (symbols, slot count, closure), upvalue lists, annotations in the tree | `load_global`, `analyze_*`, `resolve_upvalue`, `mtr_validate` | a name means the same slot, upvalue or global to validator, code generator and engine; what it accepts runs without a type confusion; it never crashes |
| symbol table (`validator/symbolTable.c`) | open-addressing table of symbols | insert, get, resize | it is a finite function |
| type rules, type list (`AST/type.c`, `AST/typeList.c`) | interned types in an open-addressing table | `mtr_type_match`, `mtr_register_type` | equal types are one pointer |
| syntax tree (`AST/AST.c`) | nodes, owned by their parents | `mtr_delete_*` | every node is freed once |
| parser (`parser/parser.c`) | current and previous token, panic flag, error flag | recursive descent, `synchronize` | it ends on every input; an error is reported and nothing is compiled |
| scanner (`scanner/scanner.c`) | two pointers into the text | `mtr_next_token` | it ends, and stays within the text |
| standard library (`stl/mtr_io.c`) | none | `print` | it returns one value |
| launcher (`launch.c`) | source, package, engine | `mtr_launch`, `mtr_compile` | each stage runs only when the one before succeeded; exit codes say which failed |
| core, debug | none | files, error reports, dumps | — |

**How they interact.** One thread, plain calls, no callbacks. The components are
coupled through *agreements* that no type or assertion enforces:

* validator ↔ engine: slots. The validator numbers locals; the engine has no
  locals, only pushes. The two agree only if every construct pushes and pops
  exactly what the validator counted.
* validator ↔ engine: captures. An upvalue is "local, slot *i*" or "upvalue
  *i*" of the function that *creates* the closure, at the moment it does.
* code generator ↔ engine: operand order. Arguments forwards, array elements
  and map pairs backwards, members by a popped count.
* code generator ↔ package ↔ engine: indices of globals, addresses of closure
  objects made at compile time.
* all run-time code ↔ sweep: whatever is allocated must be linked, once.

**What is hard here.** Not concurrency (there is none) and not persistence
(nothing is stored). Hard are *protocol sequences*: the stack discipline over
any nesting of calls, blocks, loops, early returns and failures; *stale state*:
slots, upvalues and relinked closures that refer to a frame that is gone;
*numeric edges*: 8- and 16-bit operands; *resource bounds*: value stack, C
stack, memory; *partial failure*: a type error that leaves half a tree; and
*liveness*: only its condition ends a loop. `PROJECT.json` lists each at its line.

## The plan

In this order; a module is written so that it can be proved about (parameters
as CONSTANTS with named assumptions, an action per operation, no RECURSIVE
operator in a module with theorems or below one).

1. **Done.** `Bytecode`, `Engine`: the machine, for arbitrary packages.
   `Validator`, `Compiler`, `Types`: source to package. `Meaning`: what a program
   means. `Pipeline` composes them. Theorems about types and the sweep.
2. **Done.** `Table` (symbols, run-time maps) shown to implement `FiniteMap` by a
   refinement mapping, checked and proved; `TypeList`.
3. **Done.** `Parser` with panic mode and recovery; `Text`, what a tree looks like
   written down; `Reading` composes them with the validator and the code generator.
4. **Done.** `Ownership` and `Launch`: who frees what, on every path through
   `mtr_launch`, with its exit codes; proved for every tree (`OwnershipProofs`, `LaunchProofs`).
5. **Done.** `Scanner`; that its tokens are longest matches that cover the text,
   proved for every text.
6. **Done.** The stack discipline, proved: `Stacks` annotates a chunk with the height
   before each instruction; for every package whose code has such heights the stack is divided
   among the calls (`StackProofs`), and the engine implements `CallStacks`, a
   machine with one stack per call (`StackProofs` too). `TypeList` proved, for every
   set of types and every hash (`TypeListProofs`); the sweep for programs with closures.
7. *Left.* A narrow width for the captures of a closure, as `JumpSpan` is for jumps.

Kept for TLC throughout: that compiled code does what its source means and that
the parser reads what was written (both sides are recursive over the tree), and
liveness.

## Modules and code

| module | models | shape |
|---|---|---|
| `Scanner` | `scanner/scanner.c` | state machine: a step is a call of `mtr_next_token` |
| `Parser` | `parser/parser.c`, but for the freeing functions; the types it registers | a step is a turn of the loop of `mtr_parse`; below it one operator per parsing function, each taking the parser and giving the parser and a node |
| `Ownership` | `mtr_free_expr`, `mtr_free_stmt`, `mtr_delete_ast`; the calls of `analyze_*`: what the validator frees, replaces and dereferences, and its verdict | state machine on a heap of nodes and a stack of the running calls: a step is a call, or what one does between two |
| `Validator` | `validator/validator.c` | `Validate(stmts)`: the annotated tree, whether it is accepted, and whether the code crashed on the way |
| `TypeTerms`, `Types` | `AST/type.c`: what a type is; what is asked of two types | operators |
| `TypeList` | `AST/typeList.c`, for any hash and any matching | state machine: a step is a registration |
| `TypeHash` | `hash_type` of `AST/typeList.c` | a recursive operator, apart from `TypeList` because nothing can be proved beside it |
| `Table` | `validator/symbolTable.c` and the maps of `runtime/object.c`, which are the same table | state machine: a step is one turn of a loop of `find_entry` or `resize_entries` |
| `Compiler` | `compiler.c`, `package.c` | `Compile(stmts)`: a package |
| `Launch` | `launch.c`, `mtr_compile`, `mtr_load_package` to `mtr_delete_package` | state machine: a step is a call of `mtr_launch` or `mtr_compile`, or one of `Ownership` below it |
| `Bytecode` | `bytecode.h`, widths from `debug/disassemble.c` and `engine.c` | operators: families of opcodes, a chunk as a sequence of cells (one per byte; an operand is kept whole in its first cell), `I16`/`U16`/`U8` |
| `Engine` | `runtime/engine.c`, `memory.c`, the parts of `object.c` it calls, `print` | state machine: one action per handler, one per way a run fails, one per step of the sweep |
| `Stacks` | how many cells a call has at each offset of its code: what validator, code generator and engine agree on and nobody writes down | operators on `Engine`'s state; the heights are a constant |
| `CallStacks` | nothing; abstract specification | a stack for every call: pop, push, store, call, return |
| `Meaning` | nothing; abstract specification | `Run(stmts)`: what a program prints and how it ends |
| `FiniteMap` | nothing; abstract specification | a call is made, and takes effect at once |
| `Text` | nothing; reference | `ProgramText(stmts)`: the tokens of a tree, parentheses where the operators need them |
| `Sources`, `Corpora` | the constructors of `parser.c` for trees; the programs of the runs, those of `src/Tests` among them | operators |
| `Pipeline` | composition: validate, compile, execute, compare with the meaning | all properties that need a source and an execution |
| `Reading` | composition: write down, damage, parse, validate, compile | all properties that need a text |
| `MC*` + `*.cfg` | — | the constants of the runs; `MCStacks` works out the heights of the compiled code, following every jump |
| `EngineProofs`, `SweepProofs`, `StackProofs`, `TableProofs`, `TypeListProofs`, `ScannerProofs`, `OwnershipProofs`, `LaunchProofs` | — | theorems; `OwnershipProofs` is the part about the tree that `LaunchProofs` builds on |

The modules meet in three compositions. `Pipeline` runs `Validator` and
`Compiler` on trees and gives `Engine` the packages. `Reading` starts earlier, with tokens,
and compares bytecode. `Launch` sees parser, validator, code generator and engine from
outside and follows only pointers and exit codes. What one composition takes as given
another shows: `Launch` takes from `Engine` that the sweep frees what is linked;
`Validator` takes a symbol table for the finite map that `Table` implements;
`Parser` takes from `Scanner` that tokens end with EOF.

**The engine's state.** `stack` is the whole array `engine->stack`, including
what was popped and not overwritten; `sp` is `stack_top`. `frames` are the live
C activations of `call()`: `chunk` and `ip`, `base` (`frame`), `closed` (the
captured block). `heap` is everything ever allocated, by address; a freed object
keeps its address with the kind `FREED`, so that using or freeing it again is
seen. `objects` is the list's head and `cursor` the sweep's position. `out` is
what was printed. `status` says whether the loop runs, the sweep runs, or how
the run ended: `done`, `no_main`, `overflow` (push on a full stack: `exit`),
`exit` (a bad index or key), `abort` (an assertion), `exhausted` (no memory,
no C stack), `wild`.

**`wild`** stands, in every module, for undefined behaviour. Before `Engine` runs
an instruction it asks whether the cells, members and pointers it is about to read mean
something (`Readied`); `Scanner` and `Parser` are wild when they read beyond the
text, `Ownership` when it meets a freed node, `TypeList` when it answers out of a
freed array (`Lost`). The run is then over; nothing is claimed
about what the build does next. A program whose meaning is itself undefined
(24 of the statements programs divide by zero) may end there, any other fails
`RunsAsWritten`. The build modelled is the
debug build (without `NDEBUG`), where `push` checks its limit and assertions stop.

**The parser's state.** `parser` is `struct mtr_parser` with its scanner: the
text, the position in it, the token, the panic and error flags, and
`current_function`; `ast` is the list of declarations read so far. A function
that dereferences NULL or calls `exit` puts the parser into `crash`, `exit` or `wild`
and shows EOF from then on, so that the recursion unwinds. A token carries
its type and, where that does not say it all, its value.

**The heap of `Launch`.** A node has an address and what it is (`program.node`), which stays,
and pointers to its parts (`parts`), first the statements, then the expressions. The C
recursion is the stack `calls`: what runs (`check` for `analyze_*`, `declare` for an
assignment that becomes a variable, `free` for `mtr_free_*`), on which node, which part's turn it
is, and whether all was right so far. So a node is freed, and a pointer overwritten, in the
middle of the calls above it, as in the code. What the validator allocates for
node *n* has the address *-n*; `freed` holds what was freed and keeps its pointers, so
that reading or freeing it again is seen (`wild`). What the validator's checks
look at is abstracted to a set `wrong` of nodes that fail theirs: so every
combination of errors is met, and also combinations no real check would give.
Messages are left out; exits, crashes and assertions are where they are in the code.

**The table.** A slot is free or holds a key and a value; `temp` is the table
being filled while the old one is copied, `index` where a probe is. `map` of
`FiniteMap` is, under the mapping, for each key the value in the slot that holds
it; `pending` the call while `find_entry` runs.

**The heights of `Stacks`.** `Height` is a constant, because it is a fact about
code: program, chunk, offset → number of cells of the call, its arguments among
them. `IsStacked` says what makes it one: an instruction finds the operands it pops and the
variables it names among these cells, and wherever the loop may go on from there,
the height is what the instruction has made it. So two ways to one offset, round a
loop, past a branch, past the right operand of `||`, must agree. The engine knows none of
this; `RunsStackedCode` checks that what the compiler writes has heights.

**What data is reduced to.** A string is a number that says which text it is.
A float is whatever `FloatOp` returns. What is printed of a value, its *leaf*,
is its tag and bits; of a string its text; of a container inside a container
its size. A map's keys are leaves: two keys are one entry when tag and bits
agree. (`compare_keys` compares only the bits of keys that are no objects; a
checked map has keys of one type, so the tag adds nothing there.) Signed
arithmetic wraps, as in the repository's build; division by zero and the
least integer by -1 are `wild`. Names and literals of `Parser` are model values.

**Why validator, compiler and parsing functions are operators.** They are single
passes that no one else can observe half-way; what matters is
their result. They keep the code's order, because state is threaded through:
the chain of validators, the upvalue lists, the objects made at
compile time, the parser.

## Runs

| run | instance | checks | shows |
|---|---|---|---|
| statements | 371 programs: all ordered pairs of 16 statements over an Int, an array and a map; 115 closures: which variable is changed, read, returned, two levels, creator gone or changed in between. 20155 states | `RunsAsWritten`, `EverythingFreedOnce`, `RunsStackedCode`, `OwnCellsOnly` | slots, scopes, loops, early return, wrap-around, failing indices and captures mean what they say; the sweep frees everything once; the code has one height at every offset, and names only cells its own call has |
| calls | all ordered pairs of 16 statements with recursion, nested calls, structs, unions, functions as values; the programs of `src/Tests`. 25898 states | `RunsAsWritten`, `RunsStackedCode`, `CalleesFit`, `StackIsDivided`, `CallsLeaveOneCell`, `CallersKeepTheirCells`, `CallsKeepApart`, `EveryRunEnds` | results and side effects in order; what is called gets the arguments it takes, nets one cell and writes none of its callers'; one stack does what a stack per call would; programs stop |
| limits | 28 recursions of depth 0–6 with 0–3 locals, 15 stack cells, 6 C frames, 5 objects; 49 loops stretched over half of `JumpSpan`. 6183 states | `RunsAsWritten`, `PrintsAPrefix` | wherever a limit strikes, what was printed is right so far; jumps land right while a chunk is under half the span |
| oddities | 577: ordered pairs of 24 legal statements with the constructs of the list of defects, and a package without `main`. 11634 states | `TypeOK` | whatever they do, the engine's state keeps its types; it says no more, a wrong slot or a cell never popped keeps them too |
| table | five keys with hashes 3, 3, 7, 15, 0, two values, capacity 4 growing to 8. 75663 states | `TypeOK`, `Reachable`, `CopiesFaithfully`, `NeverComesRound`, `CallsReturn`, `IsAMap` | probes wrap, collide, part and collide again in the larger table; no key is lost, no probe goes round, calls return, the table is a finite map |
| typelist | `[Int]`, `[[Int]]`, `[Any, Int]`, `[Int, Int]`, `(Any) -> Void`, `(Int) -> Void` and a struct with the hash of `[Int]`, in every order, through the growth at the twelfth entry; the two maps are one type to the list. 4671 states | `TypeOK`, `BasicsInPlace`, `OneAddressPerType`, `UserTypesFound` | one type has one address, but for types the list cannot tell apart; basic types keep their slots, struct names are found |
| reading | 1235 programs as they are written, and three samples of the whole grammar with up to two tokens missing and up to one of 17 put in, at every place: 8870 texts. 41614 states | `CompilesAsWritten`, `NothingIsLost`, `EveryTurnReadsOn` | what is written is what is compiled; what is accepted is what was written; the parser's loop always gets on |
| launch | 8111 programs with up to two things wrong, anywhere. 234613 states | `FreedTwiceOnlyByThree`, `WhatIsGivenUpIsFreed`, `NoOtherNodeLeaks`, `EveryObjectHasAnOwner`, `TreeIsWhole`, `VerdictIsRight`, `NoErrorIsExecuted`, `ExitCodeTells` | error paths free each node once, but for three shapes; what the validator gives up is freed, but for what three other shapes forget; no node of the tree the parser has left and no object leaks but what is named; the code generator meets no hole; the validator finds every error in a body and no other, none is executed, the exit code tells |
| scanner | every text of up to three of 14 characters, of four of nine, and four longer ones. 35828 states | `TypeOK`, `NothingIsSkipped`, `LongestMatch`, `EveryCallReadsOn` | tokens are longest matches, cover the text, stay within it, and end |
| misplaced | 1 program | `EveryCalleeIsInvokable`, **violated** | an accepted program reaches the assertion "Object is not invokable" |
| redefined | 1 program | `IndicesAreRight`, **violated** | an erroneous program reaches the assertion "Wrong index" |
| syntaxerror | 1 program | `ErrorsAreReported`, **violated** | a syntax error crashes where the tests expect `MTR_PARSER_ERROR` |

In the runs of `Pipeline`, `Reading`, `Launch` and `Scanner` the initial states
are the programs or texts, and what is explored is the *product* of constructs: pairs
of statements, choices of captures, places of damage, sets of errors. An
`ASSUME` of `Pipeline` checks that the validator accepts every program of its runs.
`Table` and `TypeList` are explored from one state under all sequences of calls.

**Bounds.** `MaxStack`, `MaxFrames`, `MaxHeap` are large enough in statements
and calls that no program is stopped by them, and small enough in limits and
oddities that each is met at several depths. `IntHalf` is 128 (2048
where recursion needs larger products), so that products wrap. `JumpSpan` is
65536, the code's, but 448 in limits, so that a
program of a few dozen statements passes it. `MaxArgs` and `MaxMembers` are the
code's, 255 and 65535: no text of the run is as long, see the defects. Table
starts at capacity 4, not 8, so that five keys force a copy: two of three keys with home 3
move apart and meet others in the copy, which is every kind of collision a copy can
meet; the proof covers all sizes. Two slips in a text and two errors in a program are
enough for one to hide another: a panic that swallows the second, an error
on the path that handles the first.
Every counter is bounded by the programs; there is no state constraint and no symmetry.
Deadlock is checked: what is over stutters (`Terminated`, `Over`), so a deadlock
would be a state for which the model has no step. Only typelist switches it
off: it stops after an answer out of the freed array, as the program's
behaviour is anything from there.

**Fairness.** `WF_vars(Next)` of the engine and `WF_vars(Serve)` of the table: one thread,
which takes its next step whenever it has one. `Serve` leaves out the call: a caller need
never call. `EveryRunEnds` and `CallsReturn` use it; the first only on programs that
should end, programs need not in general. Parser and scanner need no fairness: that they end is
the action property that every turn reads on, in a text that is finite.

**Left out of `RunsAsWritten`.** `Meaning` records as a *quirk* that a run used
one of six constructs the code gives another meaning (`void`, `operator`,
`branch`, `again`, `capture`, `global`; the module's header explains each). Runs with a
quirk are not compared; they are what oddities is made of, and they are listed
below as what they are, defects. No program of statements, calls or limits
has one, so nothing is left out there; of the 49 stretched loops the 21 that
outgrow half of `JumpSpan` are left out by `Fits` (3 of them go wild). Runs stopped by a limit are compared by
`PrintsAPrefix` instead.

**Mutants.** Each property has a mutated definition of the code, kept beside
the original (a comment `Mutant:`), under which the property fails: captures
always taken for locals, arguments written backwards, a loop that jumps to its
end, a return that leaves its locals, a call whose frame begins a cell too high, a
block that keeps its variables, equal hashes taken for equal types, an object linked behind the head, an entry
copied to its old home, a lookup without a probe, an operator that binds like its neighbour, a dropped
token that sets no error, a recovery that stays where it is, an analysis whose NULL is not
stored, an assignment that is not freed with its target, a verdict that only the last statement decides, a package
loaded unchecked, an object of the package that is not freed, an error whose code is
forgotten, a dot that is always a decimal point.

## Proofs

### The engine

These theorems hold for every sequence of packages (`IsPackage`: chunks of any
cells, functions and closures of any contents whose code exists), so also for code no
compiler would write; and for every `MaxStack`, `MaxFrames`, `MaxHeap`, `IntHalf` and `JumpSpan`.

**`TypeCorrect`** (`EngineProofs`): `Spec => []TypeOK`. From
`EngineAssumption`, `JumpSpanAssumption` and `FloatsAreWords` (what the FPU
returns is a word). `TypeOK` says that the stack holds values and `sp` is
within it, that every frame has code and a base on the stack, that every link
and every captured block is an address of the heap, that every callee has code.
It is inductive as it stands, because `Readied` asks for what a handler reads
and the heap never shrinks. The proof has one lemma per shape of instruction
(`PushStep`, `ObjectStep`, `MoveStep`, `StoreStep`), one per instruction that shows its
shape, and lemmas about appending to and updating the heap.

**`SweepsClean`** (`SweepProofs`): `Spec /\ []CreatedOnce => []EverythingFreedOnce`: the
sweep meets no freed object, and at the end exactly the objects made during the run and
the closures that were created are freed. `CreatedOnce` says that a `CLOSURE` instruction finds its
closure outside the list; without it the theorem is false (5 in the list below), and
it is up to the program: those of the run statements, 115 of them with closures, create each one
once. **`SweepsCleanWithoutClosures`** needs no such
hypothesis, of packages without that instruction. The property is not inductive: that the sweep
ends everywhere depends on the list's shape. The strengthening `SweepOK` says that the list
runs *down the addresses of the run* (`ListOK`). A closure is older than the run, but
creating it makes its upvalue block, so it stands in the list where its
block's address would (`Linked`); that is also why freeing the two together leaves no gap.
During the sweep the freed objects are those that came into the list
after the one at the cursor (`FreedOK`, `Birth`). Its steps are: an instruction that makes no
object keeps the list (`KeptList`, `StoredList`), one that makes one, or a
closure's block, adds the next address at its head (`GrownList`), and a step of the sweep goes one
address down (`FreeObjectSweep`).

### The calls on the stack

For every package, `Height`, `MaxStack`, `MaxFrames` and `MaxHeap`, under two
hypotheses. `AllStacked`: `Height` are heights of the code of every package
(`IsStacked`). `[]CalleesFit`: what a `CALL` pops takes as many arguments as it is given, and
leaves one cell also where it falls off its code. The validator is there to make
both true, and no code looks at them again; for compiled code the runs statements and calls check
them (`RunsStackedCode`, `CalleesFit`), and defect 1 is a program that breaks the second.

* **`CallsDivideTheStack`** (`StackProofs`): `StackIsDivided`. The cells of the calls follow each
  other without gap or overlap: those of the innermost end at `sp`, and the
  base of every call is where its caller will find the result.
* **`CodeUsesItsOwnCells`**: `OwnCellsOnly`. Nothing is popped from a caller, and
  `GET`, `SET` and `CLOSURE` name cells of the call.
* **`CallersCellsStay`**: `CallersKeepTheirCells`, and **`CallsAreWorthOneCell`**: `CallsLeaveOneCell`.
* **`OneStackIsEnough`**: `CallsKeepApart`, that is `CallStacks!Spec` with
  `calls` the stack cut at the bases of the frames (`Cells`).

The invariant is `TypeOK`, that the program's heights are those of its code (`Annotated`), that a
closure's count of captures is the package's (`CountsKept`), that every frame is at an offset its code
has a height for and runs code that leaves one cell (`FramesPlaced`), and `StackIsDivided`.
None of the properties is inductive without it: that `RETURN` leaves one cell where the arguments were says nothing of the caller unless the caller's height
behind the call is known, and that is a fact about another frame. The proof has
one lemma for each way an instruction goes on (`Keeps`), and for `CALL` and the two returns one
each; the others reduce to those.

For the refinement a step of the engine has one of four shapes on the last slice of the
stack: it pops, it pops and pushes, it stores into a cell of the frame, or it begins or ends a call. For
slices to be cut at all, bases must rise from caller to callee (`BasesRise`), one invariant more.
Lemmas about slices (`SliceIs`, `SameSlice`, `PartOfSlice`, ...) carry each shape to an
action of `CallStacks`; a failing step and the end of main map to `Stop`, the sweep to stutters.

### The table

For every set of keys and values, every `Hash` and every `InitialCapacity` above 0
(`TableProofs`).

**`TypeCorrect`**: `Spec => []TypeOK`. **`TableIsAMap`**: `Spec => IsAMap`, the refinement: `Init` maps to `FiniteMap`'s, and
each step to a step or a stutter. The turns of a copy map to stutters, which is
the theorem's point: growing must not be visible. **`ProbesEnd`**, **`AlwaysReachable`**,
**`AlwaysCopiesFaithfully`**: the three other properties of the run.

The inductive invariant `IInv` holds all of them together, because none is inductive alone:

* A probe finds a key only if no free slot lies between its home and its entry
  (`Chained`). Storing at the first free slot keeps this; so a probe must have seen only
  used slots with other keys on its way (`Searched`), and that is kept turn by turn.
* Chains count modulo the capacity. `Searched` is stated with distances from home, not with positions.
* A probe ends because some slot is free: size is the number of used slots, and
  between two calls below three quarters of the capacity. If the probe came round to
  its home, `Searched` would make every slot used.
* During a copy, the new table holds exactly the keys of the slots before `turn`
  (`Copied`), so that it too has a free slot, and at the end has the same map.

That calls return (`CallsReturn`) is liveness, and checked.

### The type list

For every set of compound types, every `Hash`, every reflexive and symmetric `Matches`, and every
`InitialCapacity` with room for the basic types (`TypeListProofs`). That a user type has the hash of its name and
that names are unique is assumed too, as `hash_type` and the parser have it.

**`TypeCorrect`**: among the rest, a slot is always free, so the unbounded probes end.
**`BasicsStay`**: `BasicsInPlace`, what `find_entry` asserts. **`AddressesAreTypes`**:
`OneAddressPerType`, and **`NamesFindTypes`**: `UserTypesFound`. The last two leave out
`Confusable` types: those that match another one with the same hash, which the
list takes for one type (17 in the list below); that they disturb no other is part of the theorem.

The invariant is about probes, as for the table: every entry is reached from its home over used slots
(`Chained`), and no two entries are alike to the list (`Distinct`). What is new is that matching is no equivalence
(`[Any]` matches `[Int]` and `[Bool]`, which do not match each other), so that
`Distinct` must speak of the pairs the list itself compares; and that basic types are stored without
a probe. In a growing list they are copied in the first seven turns, before a probe
can take their slots; the invariant of a copy (`CopyOf`) says so, and the mutant
that copies from behind shows it is needed.

### The scanner

For every set of texts without a NUL inside (`TextsAssumption`: a C string), of any
length and over any characters.

**`TypeCorrect`**, **`TokensCoverTheText`**, **`CallsReadOn`** (`ScannerProofs`). Each
loop of the scanner is a least position (`PastIs`, `FindIs`), which exists because the numbers are
well-founded and the NUL is in no class of characters. The covering needs one
strengthening, `Behind`: every token ends before the next call begins. One lemma
(`AnswerStep`) covers every way a call can answer: with a token from `Start` to where it stopped, or with
`invalid_token` for an `&` or two dots.

**`TokensAreLongest`**: every token is the longest match, and of the right
type, by a definition of the tokens that mentions no scanner (`HasType`). The first
character decides the class (`FirstDecides`); for each class there is one lemma
(`WordIsLongest`, `FloatIsLongest`, ...) that what was read has the type and
no other of its class, and that anything longer holds the character the loop stopped at in a
place where no token of the class may have it.

### The tree and the launcher

For every set of programs (`ProgramsAssumption`): what the parser leaves is a tree
of any size (`IsTree`); when it has reported no error every statement has the parts its kind has
and only declarations stand at the top (`IsProgram`), as the constructors of `parser.c` make them. Of an
erroneous tree no more is assumed than that it is one. Any set of nodes may be `wrong`.

`LaunchProofs` proves the eight properties of the run launch, from one inductive invariant:

* **`FreesOnce`**: `FreedTwiceOnlyByThree`. **`FreesWhatItGivesUp`**: `WhatIsGivenUpIsFreed`, of every
  state, those after a crash included. **`FreesEveryNode`**: `NoOtherNodeLeaks`, of the tree the parser
  has left and of the launches that return. **`GeneratorFindsTheTree`**: `TreeIsWhole`.
* **`ValidatorIsRight`**: `VerdictIsRight`. **`OnlyRightProgramsRun`**: `NoErrorIsExecuted`.
* **`ObjectsHaveOwners`**: `EveryObjectHasAnOwner`. **`ExitCodeIsRight`**: `ExitCodeTells`.

The invariant `IInv` says what is known before each call of `mtr_launch` and `mtr_compile`
(`AtStage`), and that a process that has gone `wild` had one of the three shapes. While the tree is
walked it holds three invariants about the walk (`OwnershipProofs` defines them):

* `TreeInv`: where each pointer may lead now (`Pointers`): to what the parser put there, to nothing, or to the
  variable an assignment became; and how the running calls follow each other down the tree
  (`Walks`). A call's node is the part whose turn it is in its caller; what lies ahead of every call is
  untouched (`Fresh`); what lies behind a call that frees is freed. None of this is
  inductive without the rest: that a part may be freed rests on nobody else pointing to it, which rests on the
  tree being one, which an analysis may change only behind the calls.
* `DeadInv`: where an analysis has left NULL, and behind a call that frees, everything is freed, the nodes
  the validator allocated for it included, but for what is forgotten (`Forgotten`): functions that lack
  their return, statements `TYPE_CHECK` gives up (`Untyped`), and a then branch that the NULL of an
  `else` branch overwrites (`Overwritten`).
* `VerdictInv`: a call that is still right has nothing wrong behind it (`Judged`), and one that is not has
  met an error. This is needed for memory too: that a body without NULL in it goes to the code generator is the
  verdict.

The argument has three layers. Every step of `Ownership` has one of six effects on the
state (`Effect`: begin a call, go on, construct, declare, hand a pointer back, end); one lemma per action shows
which (`StepGoes`), or that the process ends and why it may. For each effect and each invariant there is a
lemma that it is preserved (`HandingBackPreservesTree`, `DeclarationPreservesDead`, ...).
`AnalysisEnds` and `RootIsSwept` say what the invariants come to when the last
call returns, and the lemmas of the stages carry that from the parser to the exit
code. `RootIsTyped` is the part of the invariant by which a launch that returns leaks less than the
validator forgets: `mtr_validate` gets past no declaration in which `TYPE_CHECK` gave a statement up,
for it reads the type of the body that is missing (11). That a redefinition the validator forgets is stopped by the assertion rests on
counting (`RightIndicesAreUnique`): if every index is its place, no name was taken.

### Only model-checked

What relates two recursive functions over a tree: that compiled code does what its source
means (`RunsAsWritten`, `PrintsAPrefix`), has heights and calls what takes the arguments it is given
(`RunsStackedCode`, `CalleesFit`: the two hypotheses of the theorems about the stack), and
that parsing gives back what was written and loses nothing (`CompilesAsWritten`, `NothingIsLost`,
`EveryTurnReadsOn`). `Validator`, `Compiler`, `Meaning`, `Parser` and `Text` use RECURSIVE operators and
the proofs need induction over trees, both out of TLAPS's reach. What `hash_type` computes is recursive too; the theorems about the
list hold whatever it is. Liveness under fairness (`EveryRunEnds`, `CallsReturn`) is out of the
prover's reach.

## Where the code departs from itself

Met while modelling. Numbers 1, 12 and 19 are shown by a run that is violated; the models follow
the others: oddities keeps its types on 2–9, launch stops at 11 and names 10, 20–22 and 28 in its properties.

*Validator, code generator, engine*

1. A function of type Void ends by falling off its chunk and pushes nothing;
   the call statement pops anyway (`compiler.c:467`). With no parameter the
   caller loses a variable, with two or more it keeps arguments. Run misplaced.
2. A name of a scope inside a closure may be taken for a variable of the
   creating function (`resolve_upvalue`): the closure reads an unrelated cell, or
   a function that is no closure reads a captured block it does not have.
3. A declaration that is itself the body of an `if` or a `while` is never popped.
4. An operator between Bools or Strings passes the validator and has no instruction.
5. A closure created twice is one object linked twice: earlier copies change
   their captures, and the sweep may free it twice or lose what was between.
6. An assignment to a global function's name writes a local slot.
7. `!x` with an unknown `x` passes the validator.
8. `String s;` asserts "Think about this" in the engine.
9. A native function other than `print` is called through NULL.
10. A checked `else` replaces the `then` branch (`validator.c:693`): the else would run in
    both cases, and the tree owns it twice. When the else branch was an assignment that became a
    variable, `otherwise` still points to the assignment, which is freed, and the code generator reads it.
11. A type error in a function's body leaves a NULL body whose type is read
    (`validator.c:601`), instead of `MTR_TYPE_ERROR`.
12. `mtr_validate` overwrites the verdict of an earlier global, and
    `package.c:60` then asserts on its index. Run redefined.
13. A closure counts its captures in a u8, the validator in a u16; jumps and the
    offsets of their patches are i16. (limits stays below half the span.)
14. `a.b.c` is read as `a.(b.c)`, which the validator then rejects.
15. `mtr_execute` says false when there is no `main`; `mtr_launch` does not look, and the exit code is OK.

*Types and tables*

16. `typeList.c:180`: `insert` answers with a field of the entry in the array that `resize` has
    just freed. The twelfth type of a program may get any address.
17. Maps from a basic type lose the key in their hash, and `mtr_type_match` answers
    for `[Any, V]` what it answers for `[K, V]`.
18. `Any` is rejected by name (`parser.c:807`) and accepted inside other types (`parser.c:419`).

*Parser and scanner*

19. `mtr_free_expr(NULL)` crashes (`parser.c:1085`), and the parser leaves NULL for every missing
    operand: `MTR_PARSER_ERROR` is set and seldom returned. Run syntaxerror.
20. A parameter that fails is freed although it lies inside the array of its function.
21. A function that lacks its return is forgotten, not freed, with all that is below it
    (`validator.c:609`). To see whether it is there the last statement is read, which of an empty body, of a Void function too,
    is `statements[-1]` (`validator.c:603`).
22. The object of `print` is not freed when the program does not declare it.
23. `return;` leaves its semicolon behind and so always crashes the parser (`parser.c:464`). If it did not, the
    validator would crash on it: it has no value, and the function it belongs to is not set (`parser.c:554`).
24. An expression missing at the end of the text is skipped past the end; so is a quote that is
    not closed and a comment in a last line without an end (`scanner.c:220`, `:258`). EOF itself
    reads one character behind the NUL (`scanner.c:66`).
25. A single `&`, or two dots, outside panic mode gives a token without a place, and
    the error report dereferences it (`core/report.c:18`).
26. A list stops at its 255th element without asking for the closing token
    (`parser.c:272`, `:400`, `:637`); the checks for more cannot fail. The members of a struct, too, are counted and freed by
    a u8.
27. A comment between a type's name and a variable's name makes the declaration a
    statement. A statement that begins with `(` or `[` is read as a declaration.

*Leaks*

28. `TYPE_CHECK` (`validator.c:117`) returns NULL without `sanitize_stmt`: an assignment, a condition or a
    return whose expression has no type is forgotten with all that is below it (`validator.c:650`, `:658`, `:671`,
    `:703`, `:725`), while the checks next to these lines free. A then branch is forgotten when its `else` branch fails, for the
    NULL overwrites it (`validator.c:693`). A launch never returns with such a leak, because 11 crashes first;
    once 11 is mended it will.
29. `expr_stmt` reports "Expression has no effect" and drops the expression it has read (`parser.c:481`):
    `fn main() { 5; }` ends with `MTR_PARSER_ERROR` and one node that nothing points to. `mtr_delete_ast` cannot free it, and
    it is not part of the tree `Launch` begins with.

## What is not modelled

* `debug/` and `core/`: output for developers, the text and place of messages, reading a file. What the
  file functions answer is an action of `Launch`; `disassemble.c` served as the list of operand widths.
* The removing functions of both tables (`mtr_map_remove`, `mtr_symbol_table_remove`) and the
  tombstones only they make: nothing calls them. As written a key can be stored twice
  behind a tombstone.
* Reading numbers out of tokens (`evaluate_int`, `evaluate_float`), `mtr_token_compare`, printing
  and deleting types, deleting the type list.
* The expression that `expr_stmt` drops (29): `Launch` begins with the tree, and `NoOtherNodeLeaks` says nothing of
  what the parser has lost before.
* Casts (no syntax makes one), unary minus (the validator dereferences NULL) and
  `return;` beyond its crash.
* The release build's unchecked `push`.
* Lists of 255 elements and closures of 256 captures: the code for them is in
  `Parser` and `Compiler`, the runs have no program that long.
* What a branch whose `then` was replaced prints (10): memory is freed twice before it runs.
