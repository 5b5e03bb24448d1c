# HwarangDo: a TLA+ model of the runtime and the compiler

HwarangDo is a small language for frame-driven programs: a compiler (lexer,
parser, semantic analysis, HIR, MIR, LLVM) and a runtime with which the
compiled program links. This directory holds the specifications of both, the
TLC runs that check them and the TLAPS proofs about them.

## 1. Inventory

### Runtime

| Component | State | Operations | Interaction |
|---|---|---|---|
| Entity world (`runtime/world`) | slots with a pointer, two flags and a generation; free list; destroy queue; running flag | create, running, quit, destroy, `spawn_raw`, `view_raw`, `destroy_entity_raw`, `flush_destroy` | called by compiled methods; the flush calls back into an entity's `onDestroy` |
| Strings (`runtime/string`) | heap buffers, each with one owner | literal, copy, move, add, compare, destroy | called by compiled code, which decides who owns what |
| Log (`runtime/log`) | none | print | called by compiled code |
| Entry function (`generateMain.cpp`) | position in the frame loop | Main.init, Main.update, flush, exit | the only caller of the flush |

### Compiler

| Component | State | Operations | What makes it correct |
|---|---|---|---|
| Lexer | position, current token | scan, peek, get | always ends; every accepted text has one token sequence |
| Parser | token cursor | recursive descent | consumes what it accepts |
| Symbol table | tree of scopes, tables of types, values, methods | enter, exit, add, get | lookup finds the nearest declaration; no name twice in a chain |
| Builder, linker, declaration verifier, layout | the symbol table | register, link bases and methods, order fields | overrides replace what they should; cyclic structs are refused |
| Resolver | the current type, method and choice; the type and meaning of every expression | types every expression, chooses overloads, infers the types of variables and returns | a conversion by itself loses no value; the answer does not depend on the order of declarations |
| HIR builder and linker | tree | structural translation | preserves the meaning |
| HIR verifier | what is initialised at this point | one rule per statement and expression | accepts no program that reads an uninitialised variable or falls off the end of a method |
| MIR builder | basic blocks, stack of scopes | one rule per statement | a path through the blocks is a path through the statements; every scope left is cleaned up once |
| LLVM generation | temporaries, cancelled cleanups | copy, move, destroy | every buffer is freed once, by its owner, after its last use |

### What is hard

The compiled program has one thread. What is hard to test is the order of
things: the flush calls user code that calls back into the world while the
flush stands in the middle of a loop over two vectors; entities die later than
they are destroyed, and slots are reused; ownership moves along paths that the
compiler cuts in pieces; the verifier reasons about all paths at once.
`PROJECT.json` lists each such hazard at its line.

## 2. Modules

| Module | What it is |
|---|---|
| `HrdWorld` | the runtime's world: one action per function of `hrd_runtime_world.cpp`, the flush cut where it calls `onDestroy` |
| `GameLoop` | the entry function and everything a program's methods can do to the world; the properties |
| `EntityRegistry` | the abstract specification: what the world promises, without slots |
| `GameLoopProofs` | theorems and proofs: the invariants, and that the runtime implements the registry |
| `MCGameLoop` | the module the runs of the world instantiate |
| `HIR` | statements, expressions, methods and classes of the HIR as records |
| `HIRVerifier` | the check of definite initialisation and definite return, as a function of the tree |
| `MIRBuilder` | the lowering to basic blocks, with the builder as a record that each operator takes and returns |
| `HIRSemantics` | what a method means: the reference for the lowering |
| `MIRExecution` | the execution of compiled classes, block by block, whoever verified and lowered them; the properties of lifetimes, and the certificate that implies them |
| `MIRExecutionProofs` | theorems and proofs: a certified class never goes wrong |
| `CompiledClass` | all of it put together: a class is verified, lowered and run, and compared with what it means; the facts that certify it |
| `MCCompiledClass` | the families of classes the runs of the compiler instantiate |
| `HrdString` | the string runtime on a heap of blocks, and the assignment of one string |
| `Heap` | the memory of compiled code: where values are and who owns what; three of the properties |
| `MIRValue` | types, places and values of the MIR as records |
| `Ownership` | what is emitted for every kind of value, statement and type, executed on the heap; the properties |
| `ValueStore` | the abstract specification: variables hold values, assignment copies, there is no heap |
| `HeapProgram` | the code emitted for strings and for enums with string payloads, one step for each kind, in any order |
| `CopyStore` | its abstract specification: strings and enums are values |
| `HeapProofs` | theorems about string assignment, sums, literals and equality for every heap, and what the operators do to memory |
| `HeapProgramProofs` | theorems and proofs: `HeapProgram` keeps the heap sound and implements `CopyStore` |
| `MCOwnership` | the families of variables and statements that the runs of `Ownership` instantiate, and `HeapProgram` next to them |
| `Lexer` | a text to tokens, one turn of a loop of `lexer.cpp` at a time |
| `LexerProofs` | theorems and proofs about the scan of every text |
| `Minimality` | least numbers and minimal elements, which the proofs use where an induction would stand |
| `Parser` | one operator for each rule of the recursive descent |
| `AST`, `Visitor` | trees, the paths to their nodes, and the walk the passes share |
| `SymbolTable` | scopes, types, values, methods |
| `Builder`, `Linker`, `Resolver`, `Verifier` | the passes, as functions of a declaration and the table |
| `Layout` | the numbering of fields, one call or one type at a time, with the recursive calls as a stack |
| `LayoutProofs` | theorems and proofs: every graph of bases is laid out soundly or refused for a cycle |
| `Conversions` | which type turns into which, what a literal's type is, how well a method takes an argument |
| `Overloads`, `OverloadsProofs` | the choice among the methods that take the arguments of a call, and theorems about it |
| `Frontend` | the phases of `main.cpp` one after another; the properties up to the layout, and of loops |
| `Typing` | the properties of what the Resolver has decided |
| `Unparse` | the reference for the parser: a tree to its text, with the fewest parentheses |
| `MCFrontend` | the families of programs and fragments the run of the front end instantiates |

`GameLoop` extends `HrdWorld`; `CompiledClass` extends `HIRVerifier`,
`MIRBuilder`, `HIRSemantics` and `MIRExecution`, which extend `HIR`; `Heap` extends
`HrdString`, `HeapProgram` extends `Heap`, `Ownership` extends `Heap` and `MIRValue`; `Frontend` composes `Lexer`, `Parser`, the
passes and `Layout`; `Typing` extends it. They meet as the phases do: a *frame* of `GameLoop` is a call of
`CompiledClass`; a scope's cleanup in `MIRBuilder` (which variables, in which
order, on which way out) is the statement `CleanupOf` of `Ownership` (what it
does to the heap).

### How the state and the actions correspond to the code

`entities`, `freeSlots`, `destroyQueue` and `running` are the members of
`HrdWorld`. `entities` is a function on all indices of which the first `size`
exist; `capacity` is the vector's, growing by doubling. `cursor` and `cur` are
the flush's locals `cursor` and `index`. A handle is a record of its index and
generation (the packing into 64 bits loses nothing). An object is a number,
given in the order of the spawns; `life` says what became of its memory.

The flush takes `auto &slot = world->entities[index]` and uses it after
`onDestroy` has returned. `stale` records that a `push_back` has moved the
slots in between. `Retire` is the rest of the loop body through a good
reference. Through a stale one the behaviour is undefined: `RetireLost` is the
build's usual outcome (the released block still holds the old contents, the
object is freed, the writes never reach the slot), `RetireCrashes` the outcome
when the allocator has overwritten the pointers. A released block that already
belongs to another allocation could also be damaged by the writes; the model
does not follow the program beyond that and counts it as a crash.

A *frame* is Main.init, Main.update with every method it calls, or one
onDestroy. In a frame the program may do any sequence of spawns, views,
destroys and quits with any handle it was ever given, so the model covers every
program with these operations; an `observer` (the result of a view) lives in a
local variable only, which the language enforces, and is gone when its frame
ends. Object 0 stands for a handle variable that was never assigned: memory is
zeroed, and the verifier's hole for if/else (`HIRVerifier.cpp:257`) lets such a
read through. Two switches select kinds of programs: `OnDestroySpawns` and
`UninitHandles`.

`view_raw` tests the index before it uses it and panics; `destroy_entity_raw`
does not test it. Handles always come from a spawn except object 0's, so only
the latter can be out of bounds, and only while there is no slot at all:
`DestroyCrashes`.

A class of `CompiledClass` passes the phases of `main.cpp`: the verifier
rejects it, code generation fails, or it is ready to run. Code generation fails
(`phase = "internalError"`) with an internal error at a block without a terminator
(`llvmCodegen.cpp:58`), and in `llvm::verifyModule` (`main.cpp:524`) at a block
that returns nothing from a method with a result, or something from one without,
be it reached or not; of what else LLVM's verifier asks nothing is modelled. Its object is constructed (`setDefaultInit`'s block, then one
constructor), its methods are called in any order and `onDestroy` last. A call
has fresh parameters and no locals (`emitFuncBody`), and executes the blocks
`LowerMethod` made: one action for each kind of statement and terminator of
`llvmCodegen`. `slots` says for each place whether it holds nothing yet, a
value, or what a destruction leaves. What a place holds is not modelled, so a
condition may go either way, and a method stands for all of its runs; `trace`
records reads, writes and the ways taken, which `HIRSemantics` replays on the
statements. The state and the actions are those of `MIRExecution`, in which the
verifier, the lowering and the facts about the blocks are parameters
(`Verified`, `CodeOf`, `FactsOf`): the configurations put the compiler's own
there, `Accepted`, `LowerMethod` and `Dataflow` of `CompiledClass`. A MIR value is the sequence of places it loads, since loads are
evaluated where the instruction stands that uses the value, not where the
expression was lowered; that is how a returned local comes to be read after its
cleanup.

A state of `Ownership` is the memory between two blocks of statements:
`mem.cell` maps the addresses that exist to what they hold, `mem.block` and
`mem.text` are the heap, `declared` the locals in scope. A value in registers
is a function of the paths of its cells, and carries the category
(`OwnedTemp`, `Borrowed`, `Plain`) from which the generated code decides
whether to move, to copy or to do nothing. `Destroy`, `Assign`, `Lower`,
`Call` and `Exec` have one alternative for each alternative of the code
generator. A *scenario* gives the types of some locals and of the fields of one
object, and blocks of statements; a program is any sequence of blocks that is in
order (a variable is declared before it is used and cleaned up when its scope is
left). `malloc` fails when there is no block left, as the runtime's functions
test for; freed blocks are not handed out again until the statement ends, so
that every use of one shows.

`HeapProgram` has no program but any order of single steps: a string or an enum
is declared, a literal, a sum or a variant is made in a temporary, a string or an
enum is assigned, two strings are compared, an owner is destroyed or leaves its
scope, the statement ends. Its `mem` and `lost` are those of `Heap`; `strings`
and `enums` are the addresses in scope. An enum's first variant carries nothing,
the others (`Tags`) a string. Here an operand is any string that can be read, the
payload of an enum included, so that what the blocks of `Ownership` do with
strings and such enums is a sequence of these steps; calls, structs, arrays,
parameters and other payloads are left to `Ownership`. Three more differences:
here leaked blocks stay live, as they do in the program; whether an assignment is
to its own source is decided by the addresses being one local variable, which is
when the compiler sees one value; and `MCOwnership` bounds the temporaries, the
blocks in use and the texts, which `HeapProgram` does not.

The front end's state is the state of its phases: `text`, `pos`, `mode` and
`tokens` of the lexer, `current` and `decls` of the parser, and `table`, which
holds the symbol table with what the passes keep in their own members (the
current scope, the owner, the depth of loops, the error). When the declarations
are linked their types are handed to `Layout` (`symbols`, `registered`); its
`visiting` is the stack of the calls of `fieldIndexing` that have not returned,
`layoutState` and `fieldCount` are the members of these names, `fieldIndex` the
`index` of each field. A symbol is named by
the path of its declaration in the tree, which is what the C++ keeps a pointer
for. A text is a sequence of characters, in which a run of letters is one
piece. `Parse` and the passes are recursive operators that take and return the
cursor or the table as the C++ functions change their object. An exception is
the field `error`: after it nothing happens any more, as in `main.cpp`, and it
tells a diagnostic from an internal error and from the use of a null pointer.

The Resolver writes into the tree: `resolvedType` and `resolved` of an
expression are `table.typed` and `table.meaning` at its path. Its members
(`currentMethod`, `currentSwitch` and what it has used, the result type a
method has so far) are fields of the table. Numbers are their
family and width; a literal is one of a few values on either side of a limit of
a width, and a character or string stands for all of its kind.

### Properties of the world

* `TypeOK`.
* `SlotDiscipline`, in three parts. `SlotPartition`: every slot that exists is
  occupied, being retired, or on the free list once. `QueueDiscipline`: a slot
  is pending exactly while it waits in the unprocessed queue, where it stands
  once. `OccupantAgrees`: slot, object and issued handle name one another.
* `ViewFidelity`: a view returns the object of its handle, except in a slot
  that is *tainted*: its generation was not advanced (stale reference) or has
  wrapped.
* `ObserversAlive`: no frame holds a pointer to freed memory.
* `ExitDrained`: a program that leaves through the loop has no destroy
  outstanding, the destroys of the frame that quits included.
* `RegistrySpec`: the refinement of `EntityRegistry` (a handle is the entity;
  destroys happen once each, in order; a misuse stops the program).
* `DestroyCompletes`: an accepted destroy is carried out.

### Properties of the compiler

* `TypeOK`.
* `FollowsSource`: at every point of a call the reads, writes and ways taken
  are a beginning of what the statements do given the same ways, and all of it
  at the return.
* `ReadsInitialised`: an accepted class never reads a place without a value or
  one that has been destroyed, from whichever constructor its object came.
* `OwnedCleanedOnce`: a local that owns a buffer is destroyed once on every way
  out of its scope, and is declared again only after that.
* `ReturnsValue`: in an accepted class no way through the statements of a method
  with a result ends without a return. It is about the statements; that the blocks
  return a value too is part of the next one. A way is the outcome of three
  conditions (`MaxWay`); those methods of the run meet at most two, in no loop.
* `AcceptedIsGenerated`: the lowering of an accepted class leaves no block
  without a terminator, and none that returns nothing from a method with a result.
  The methods of the run with a result end in a return, or in a choice with a
  branch that does not return; those that end in a choice all of whose branches
  return are accepted and not generated, which is the run `ungenerated`.
* `CodeCertified`: the blocks of a class that is ready to run pass a check of
  each statement by itself (section 4), from which `TypeOK`, `ReadsInitialised` and
  `OwnedCleanedOnce` follow for runs of every length.
* `EvaluatedAsOften`: a call has read each place as often as its statements say.
  Violated by the run `loop_conditions`.

### Properties of ownership

* `TypesOK`: `Ownership`'s `TypeOK`, in its scenarios.
* `NoCorruption`: no program frees a block twice, reads a freed one or follows
  a pointer that leads nowhere, during any statement.
* `SingleOwner`: between statements every buffer and every payload that is in
  use has one owner, and every owner's block is live.
* `OnlyTemporariesLeak`: what a variable or field owned is owned still or has
  been freed; what leaks are temporaries only (see section 5).
* `AreValues`: `ValueSemantics`, the refinement of `ValueStore` (every block of
  statements has the effect it has on variables that hold values), and the
  refinement of `CopyStore` by `HeapProgram`. The latter says what a value is not
  here: a temporary is empty once its value has been taken, and what is no local
  variable is lost when it is assigned to itself.

### Properties of the front end

* `TypeOK`; in it, that the depth of loops is zero between declarations.
* `MaximalMunch`: an operator is the longest token that stands there.
* `NothingLost`: the tokens stand in the order of the text without overlap, and
  every piece that has been read is in one of them, is blank or is in a comment.
* `ScanAdvances`: each turn of the lexer's loops leaves less to do, but the one
  that waits in a comment that is not closed.
* `RoundTrip`: the text of a tree, written with the fewest parentheses, parses
  to that tree.
* `ScopesMatched`: a pass leaves the table in the scope in which it found it,
  and the linker enters the scopes that the builder made.
* `OnlyDiagnostics`: a program is compiled or refused with a message; the
  exceptions are listed in the property.
* `NearestType`: a type's name means the declaration nearest around it,
  independently of the order of the declarations.
* `MethodsFiled`, `MethodsDistinct`: the methods of a type, those of its impls
  included, stand once each under their names, and no two are the same.
* `LayoutByInheritance`: when a type is numbered, its fields and those of its
  bases have the numbers from 0 on without gap or overlap; they keep them, and no
  numbered type is its own base.
* `RefusedForCycles`: the layout refuses a program only if a type is its own base,
  and leaves no class or struct of another without numbers.
* `LoopControl`: in an accepted program no break or continue stands outside of all
  loops, with the exceptions the property lists: what the tests
  `break_outside_of_loop.hrd` and `continue_outside_of_loop.hrd` and
  `docs/grammar.md:1178` ask. That they may not stand in a switch or match inside of
  the loop, which the documentation asks as well, it does not say and the code
  does not check: `AcceptedIsLegal`.
* `EveryScanEnds`: the scan of every text ends, unless a comment is not closed.
* `UsesHaveFinalType`: what reads a variable after its declaration has the type
  that the initial value gave it, fields read by methods included.
* `ChosenOverload`: the method that is called takes each argument at least as
  well as every other that could be called, and some argument better.
* `Exhaustive`: an accepted switch or match over an enum names every variant or
  has a clause for the rest, also when one stands in a clause of another.
* `OverridesMarked`: a method is marked override exactly if the direct base has
  one of its signature, with one exception; a class has what its traits ask for.
* `ObserversInMethods`: an object is seen only by locals that begin with a view.
* `WidthKept`: a variable keeps the width that was written, with one exception.
* `ValuesKept`: an operand, an argument or an initial value gets another type
  without a cast only if that type holds all its values, or, for a number that is
  written out, that number. It is what the code promises, which is less than the
  documentation: excepted are two types of one width (`u32` to `i32`, `i32` to
  `f32`) and a number as the initial value of an integer variable, which is not
  looked at. Assignments, results and payloads are not asked.
* `AcceptedIsLegal`: what the documentation and the tests ask instead. A variable
  begins with a value of its type and is assigned values of its type, and the
  innermost loop, switch or match around a break or continue is a loop. Violated by
  the run `should_refuse`.

## 3. Runs

| Run | Configuration | Shows |
|---|---|---|
| `world` | 4 objects, generations modulo 3, onDestroy spawns, uninitialised handles | the five invariants |
| `registry` | 3 objects, generations modulo 5 (never wrap), no spawn in onDestroy | `RegistrySpec`, `DestroyCompletes` |
| `stale_reference` | 3 objects, onDestroy spawns | violates `RemovedHandlesInvalid`: a handle to a removed entity is accepted again |
| `init_quit` | 2 objects | violates `OnDestroyAlwaysRuns`: Main.init destroys and quits |
| `lowering` | `Ordinary`: about 2,500 classes, of which the verifier accepts somewhat over a third | the compiler's properties above but `EvaluatedAsOften` |
| `loop_conditions` | a while on a ternary, a range whose end the body changes | violates `EvaluatedAsOften`, by either: the condition is not evaluated again, the end is |
| `uninitialised` | four classes with reads of nothing | violates `ReadsInitialised`, by each of the four |
| `ungenerated` | a match without `_`, a last if and a last switch that always return | violates `AcceptedIsGenerated`, by each of the three |
| `ownership` | strings, structs, enums and arrays; 5 blocks, texts of up to 2 letters; and `HeapProgram`, the scenario `any` | the five properties above |
| `struct_copy` | a struct with an enum assigned to another | violates `SingleOwner` |
| `frontend` | about 750 programs and 400 fragments of text, 50,000 states | the front end's properties above but `AcceptedIsLegal` |
| `should_refuse` | five programs that are to be refused | violates `AcceptedIsLegal`, by each of the five |

**Bounds.** `MaxEntities` bounds the objects spawned in a run, and with them
the slots. Four objects give a growth from capacity 1 to 2 to 4 inside a
callback, a slot reused twice, and a queue of several entries that grows while
it is processed. `GenMod = 3` makes the 32-bit generation (1, 2, 0, ...) wrap
within the bound; `GenMod = MaxEntities + 2` never wraps, as the real counter
does not in fewer than 2^32 reuses of one slot. The number of operations in a
frame is not bounded.

`MaxPicks = 5` lets a loop turn four times, or two nested ones twice each: the
second turn is where a missing cleanup, a skipped step or a state carried over
shows. `MaxCalls = 3` is the default constructor, a constructor and a method;
with no constructor, two methods. The families put every kind of exit (end of
the block, return, break, continue, value transfer) under every kind of scope,
with owners declared before, inside and outside of it. Accepted and rejected
programs stand side by side, so a verifier that accepts too much lets a program
run that violates a property. One local for each role is enough because the
code treats locals independently of one another.

Five blocks are what two variables and a field of the largest kind own (a
payload block with a buffer inside counts two), with enough over for the
temporaries of one statement, so that both the statements that succeed and
those in which `malloc` fails occur. Two letters are enough to tell a copy from
the original after either has changed. The number of blocks of statements a
program runs is not bounded: a variable is declared, assigned, cleaned up and
declared again in any order. `struct_copy` has two more blocks.

`HeapProgram` runs with a local and a field, one variant with a text, texts of at
most one letter, two temporaries and four temporaries and blocks in use together:
two enums with a text each and the copy of one to the other, or an enum and a
string with the temporary that is moved into it. It has no bound in the theorems.

The programs of `frontend` are families, each closed under what the code it is
about distinguishes: every two binary operators grouped either way
(`OperatorPairs`), the other expressions next to them, every statement inside
every statement two deep with a break at the bottom (`Nested`), every graph of
bases among three classes (`Inheritance`), types within types under the same
names in each order (`Shadowing`), every two of four signatures in a class, in
one impl and in two (`Overloads`), the variations of Main and of declarations
that the passes refuse. For the Resolver: every two of six numeric types and
bool under a `+` (`Operands`; the other operators stand in `OperatorPairs`, whose
names are declared nowhere, so that the Resolver refuses them); every two of them and of `int`
and `float` with their width written, as the types of a local and of the field it
begins with (`Initials`); three numbers on either side of the limits of f32 and
i32 as the initial value of an int, a float and an f64 field that other methods
read (`Widening`); reads before and after a declaration that
infers (`ReadEarly`); every two of a few parameter lists, in either order,
under calls with each argument (`Calls`); results of every kind on one and two
ways out (`ReturnTypes`); choices with each set of clauses, and one in another
(`Selects`); base and derived class in either order with each signature and
mark (`Overriding`), traits (`Contracts`), and views in every place
(`Observing`). About 530 of the programs are accepted. The fragments are all runs of up to three of the
characters `* < = & > / .`, which is the length of the longest operator.

**Fairness.** The front end has `WF_vars(Lex)`: the one process goes on while
the scan has a step. The other phases count their turns and need none.

`FairSpec` is weak fairness of the whole next-state relation:
the one thread keeps running. Because it demands no particular choice of the
program, `DestroyCompletes` is checked with frames that could loop; the model's
frames can always repeat a view that changes nothing, which is a stutter and no
step, so weak fairness makes a frame end once it can do nothing new. That is
the assumption that the program's methods return. An onDestroy that spawns and
destroys for ever would keep one flush alive for ever; the bound on objects
hides that, and the run excludes it with `OnDestroySpawns = FALSE`.

Deadlock is checked in the runs of the world: a program that has exited or been
killed takes `Stopped`. In those of the compiler it is not, as a class that is
rejected, or has used up its calls or its conditions, stops, and so does the
compilation that is finished; nor in `ownership`, where the object's
destruction is the end.

## 4. Proofs

`GameLoopProofs` proves for every `MaxEntities`, every `GenMod` of at least 2
and both switches (the assumptions `WorldAssumption` and `ProgramAssumption`):
`TypeCorrect`, `SlotsSound`, `ViewsFaithful`, `ObserversSafe` and
`DrainedAtExit`, one for each invariant of the run `world`. From the last
follows `OnDestroyRunsOnceEntered`: what the run `init_quit` violates holds of
every program whose main loop was entered.

None of these is inductive. A spawn may reuse a slot because it is on the free
list, hence dead and not the flush's (`SlotPartition`); the flush may retire
the next entry because it is in the queue, hence pending and occupied
(`QueueDiscipline`, `OccupantAgrees`); the frame that ends leaves nobody with a
pointer because only frames hold observers (`Position`); the loop's test
follows either the initial frame or a flush that emptied the queue
(`LoopDrained`); and a view is faithful because in an untainted slot no handle
is newer than the slot and a handle of the current generation is the
occupant's (`HandlesIssued`). `IInv` is the conjunction. There is one lemma for
each action that changes the world (`SpawnIInv`, `ViewIInv`, `DestroyIInv`,
`FlushStepIInv`, `RetireStepIInv`, `FlushEndIInv`) and one for all the others
(`WalkIInv`).

The second part of the module proves the refinement, for every `MaxEntities`: under
`Wide` (`GenMod > MaxEntities + 1`, and no onDestroy spawns) `Spec` implies
`RegistrySpec` (`ImplementsRegistry`). Both conditions are needed: without
either a handle can come to mean another entity, which `stale_reference` shows
for the second. What has to be added to `IInv` is `Unwrapped`: no slot is
tainted, because no reference of the flush goes stale, and because a vacant slot
is at most of generation `born + 1` and one in use at most of generation `born`.
(Each generation of a slot was used up by a spawn; the bound is inductive
without counting.) With it a handle that passes the tests of the runtime is that
of the entity in the slot (`HandleMeansItsEntity`), one that is refused belongs
to no live entity (`RefusedIsMisuse`), and there is one lemma for each step of
the registry: `SpawnRefines`, `ViewRefines`, `DestroyRefines`, `FlushRefines`,
`RetireRefines`, `MisuseRefines`, `FrameEndRefines`, and `UnseenRefines` for the
entry function's own steps, which stutter. From the same invariant,
`HandlesInvalidOnceRemoved`: under `Wide` no handle to a removed entity is valid
again, which is what the run `stale_reference` violates without it.

`MIRExecutionProofs` is about the execution of every class, by any verifier and
any lowering, for every number of calls and of turns of loops. A class is
*certified* (`Certified`) if for each position in each block there is a *fact*
(the places that surely have a value, the owners that may be live) such that
each statement is allowed by the fact before it and leads to the fact after it,
each terminator leads to the facts of the blocks it names, a return reads only
what has a value and leaves no owner live, and the fields a function is entered
with are kept by whatever may be called before it. It asks something of one
statement at a time, as the stack maps of bytecode verifiers do, and says nothing
of runs. The theorems `TypeCorrect`, `ReadsFindValues` and `OwnersCleanedOnce`
say that it is enough:
`Spec /\ CodeCertified => []P` for three of the invariants of the run `lowering`.
`IInv` carries the certificate along: the slots agree with the fact of the
position reached, and the fields known between two calls keep their values.
`AdvanceInv` is the step over a statement (with `DeclAgrees`, `AssignAgrees` and
`CleanupAgrees` for what each statement does), `JumpInv` the way to another
block, `CallInv` and `ReturnInv` what a call may count on and leaves behind. The
assumption is `MIRExecutionAssumption`: a field is no owner that a scope cleans
up. The hypothesis `CodeCertified` is a statement about the state after `Init`
only, and the run `lowering` checks it of every class that the modelled verifier
accepts and the modelled builder lowers, with the facts `Dataflow` finds. So the
bounds `MaxCalls` and `MaxPicks` of that run do not matter to these three
properties, and what is left to TLC is the certificate of each class in the
families. The classes of the run `uninitialised` violate `ReadsInitialised`, so
no facts can certify them.

`LexerProofs` is about every text, of every length: `LongestOperators`
(`MaximalMunch`), `NoPieceLost` (`NothingLost`) and `ScanAlwaysAdvances`
(`ScanAdvances`; a scan of n pieces changes the state at most 3 n + 1 times).
The first half is about `Scan`, the token at one place: it ends behind its start
and in the text (`ScanSpan`, one lemma for each kind of token), and an operator
is the longest (`OperatorLongest`, from the table of the operators and the
pieces each is made of). The second is the invariant `IInv`: the tokens are what
`Scan` finds where they start, none starts where a comment opens, they stand in
order before `pos`, every piece before `pos` is accounted for, and in a comment
there is its opening. The loops that skip (`Skip`) are defined as the least
place that is not skipped, which `LeastNumber` of `Minimality` says exists; that
fact, from the well-foundedness of the order on numbers, takes the place of an
induction.

`LayoutProofs` is about every set of classes and structs, every graph of bases and
every order of registration, as the Linker hands them over (`Linked`: all are
registered, a base is a class or struct, a field stands in one type once; the run
`frontend` checks it of every program, in `TypeOK`). `ObjectsBeginWithBase` states
`LayoutByInheritance`, `OnlyCyclesRefused` states `RefusedForCycles`; together,
the programs that are refused are exactly those with a cycle. `Family`, a type
with all its bases, is the least set that is closed under bases, so that no
recursion is needed. The argument: the types that are Done are closed under bases
(`Layered`), so the family of the type on top is the type and the family of its
base (`FamilyOfDerived`), whose numbers are there already, and the type's own
follow them (`NumberedTogether`, `NumbersFollow`); other types' fields are other
fields and keep their numbers. The types being visited are a chain of bases
(`Chain`), so that a base among them is a cycle: each of the chain is in every
closed set that has the one before it, by the least that would not be
(`CycleFound`).

`OverloadsProofs` is about the choice among any number of candidates for any
number of arguments. To be better is a strict order (`BetterIsStrict`,
`BetterIsTransitive`), so in a finite set each candidate is unbeaten or has an
unbeaten one that is better (`UnbeatenBelow`, by `MinimalBefore`). Hence the
message for a call without a best candidate is given only if nothing takes the
arguments (`SomeUnbeaten`), and the only unbeaten candidate, which the code takes
after comparing for being beaten only, is better than each other
(`ChosenBeatsAll`).

`HeapProofs` is about what a statement does with strings, on every heap and
among every set of strings that own their buffers (`StringsOwn`: each owns a live
buffer of its own, or is empty). `AssignmentKeepsOwners`: after the assignment of
one string of the set to another this is still so, nothing freed was read, the
target holds the source's text, every third string is as it was, and no block is
live that no string owns and was not so before (`Strays`); this for a copy as
for a move, unless the process aborts because there is no memory. `SumAssigned`
says it of `dst = a + b`, where `dst` may be `a` or `b`: the sum is made in a
temporary and moved out of it. `LiteralAssigned` says it of a literal, and
`EqualityIsOfTexts` that two strings compare equal exactly if their texts are.
They are the steps that `SingleOwner`, `NoCorruption` and `OnlyTemporariesLeak`
rest on for strings, and `AreValues` in small. `AssignedToItselfIsLost` says
why the two strings must be different: a field assigned to itself is empty
afterwards. The lemmas follow the code: `DestroyKeepsOwners` (the freed buffer
was the target's alone), then `CopyKeepsOwners` (the source still has its text,
because it is another string and so owns another buffer), `MoveKeepsOwners`,
`LiteralKeepsOwners` or `SumKeepsOwners`, and `TemporaryMoved`; all rest on what
`Malloc` and `Free` change. The assumption is `HeapAssumption`: a null pointer is
no block, and a block is not the stack's temporaries.

`HeapProgramProofs` is about every sequence of the steps of `HeapProgram`, for any
number of blocks, variables, literals and variants, under `HeapAssumption` alone.
`SpecNoCorruption`, `SpecSingleOwner` and `SpecOnlyTemporariesLeak` state three of
the invariants of the run `ownership`. They are not inductive. That a destroy
frees only its own requires that no other string points to the same buffer; that
the destruction of an enum frees a payload and the buffer in it requires that the
payload is there exactly if the variant carries one and that no other enum points
to it; that the block `malloc` gives can be written requires that nothing in use
still has it. The inductive invariant `Sane` (`SpecSane`) says so with `Whole`:
the strings, with the payloads that are strings, own their buffers (`Owns`,
`StringsOwn`), each enum with a payload owns its block, what is in a block is the
payload of an enum, no string is at once a variable and a payload, and the
temporaries are those that have been made. A live block without an owner is
*abandoned*: `Keeps` says that a step abandons none, and holds for each step but
the end of a statement, which abandons what the temporaries still own and nothing
of a variable's (`NothingLostAtEnd`). Each operator has a lemma about any memory
that is `Whole` (`WordWritten`, `EnumAssignmentKeeps`, `EndKeeps` and so on), each step
one that it keeps the invariant (`AssignStringSane`, `AssignEnumSane`,
`MakeWordSane`, ...), and one that it is a step of the values
(`AssignStringCopies`, ...), of which `NextCopies` and `SpecCopies` are the sum:
`Spec => Copies!Spec`. The refinement maps a string to its text and an enum to
its tag and text; both are empty once the process has aborted. It rests on the
lemmas that a step changes the text of no other name, which is where an alias
would show. The scenario `any` of the run `ownership` checks the three
invariants and the refinement on a small instance. These theorems are about
`HeapProgram`, one level of types; those of all types, with calls, stay with the
scenarios of `Ownership`, whose string operators are the same definitions
(`HrdString`, `Heap`) and whose operators for enums do for any payload what
those of `HeapProgram` do for a string.

Model-checked only:

* the liveness properties `DestroyCompletes` and `EveryScanEnds` (fairness is out
  of the prover's reach);
* `FollowsSource`, `ReturnsValue`, `AcceptedIsGenerated` and `CodeCertified`, and of the front end
  `RoundTrip`, the passes and what `Typing` says: `VerifyStmt`, `LowerStmt`,
  `RunStmt`, `Carry`, `Parse` and the passes are RECURSIVE operators on trees, and
  what they compute for every tree is an induction over data;
* `TypesOK`, and the invariants and the refinement `ValueSemantics` in the
  scenarios of `Ownership`: `Lower`, `Assign` and `Destroy` recurse on types. The
  theorems of `HeapProgramProofs` are the case of types without parts and of
  enums with a string.

## 5. Disagreements between code and documentation

* `stale_reference`: `hrd_runtime_world.cpp:112` against `docs/grammar.md:1285`.
  A slot retired through a dangling reference keeps its generation.
* `init_quit`: `generateMain.cpp:64` against `docs/grammar.md:714`. The only
  flush is at the end of a turn of the loop.

* `loop_conditions`: `MIRStmtBuilder.cpp:163` against `docs/grammar.md:1139`.
  The block the loop returns to is the one the condition ended in. If the
  condition made blocks of its own they are not run again; if it did not, the
  statements that stand before the loop in the same block are run again. And
  `MIRStmtBuilder.cpp:208` against `docs/grammar.md:1160`: the end and the step of
  a range are evaluated on every turn.
* `uninitialised`: `HIRVerifier.cpp:267` and others against
  `docs/grammar.md:691` and `705`. The else branch is walked on what the then
  branch left; a compound assignment does not check its target; methods hand
  what they initialise to the methods after them; onDestroy is not walked.
* `ungenerated`: `MIRUtil.cpp:105` against
  `test/ok/control_flow/match/match_with_enum` and `docs/grammar.md:1218`. The
  block of the missing default is left open. And `MIRBuilder.cpp:52` against
  `test/ok/declare/method/method_with_multiple_return.hrd` and
  `docs/grammar.md:1172`: the block after an if or a switch that returns on every
  branch is closed by a return of nothing, and the module is refused.
* `should_refuse`: `ResolverDecl.cpp:202` against
  `test/fail/type/16bit_int_overflow.hrd` (and `test/ok/type/inference_int_type.hrd:8`):
  whether a number fits the integer it begins is not asked. `ResolverUtil.cpp:285`
  against `test/fail/type/casting/unsafe_implict_cast.hrd` and
  `docs/grammar.md:255`: an `i32` begins an `f32`. `Verifier.cpp:236` against
  `docs/grammar.md:1050`, `1179`, `1184` and `1215`: break and continue leave a
  switch or match that stands in a loop. `ResolverExpr.cpp:178` against
  `docs/grammar.md:253`: an `i64` is assigned to an `i32`.

The run `lowering` is of the programs outside of these, and outside of what
follows, which the model shows too and no run of its own is about:

* what the body of a range loop, or a case, initialises counts as initialised
  after it, though it may not run (`HIRVerifier.cpp:320`, `351`);
* an assignment, and a declaration with a value, mark their target before the
  right-hand side is checked (`HIRVerifier.cpp:437`, `411`);
* a ternary or match as an operand of a ternary, as a bound of a range or as
  the value of a switch or match leaves a block open or overwrites the wrong
  terminator (`MIRExprBuilder.cpp:102`, `MIRStmtBuilder.cpp:203`,
  `MIRUtil.cpp:109`): the numbers of the blocks are taken before the operand
  has moved the builder on;
* a returned local that owns a buffer is destroyed before it is read
  (`MIRStmtBuilder.cpp:285`);
* a value transfer cleans up none of the scopes it leaves
  (`MIRStmtBuilder.cpp:308`), and nobody cleans up the temporary of a ternary
  (`MIRExprBuilder.cpp:86`).

The run `struct_copy` is `assign.cpp:183` against `docs/grammar.md:440`: the
assignment of a struct copies the pointer to the payload of an enum in it. The
run `ownership` is of the programs outside of it, and outside of the following:

* a field, or an element, assigned to itself loses its value
  (`assign.cpp:214`; `AssignedToItselfIsLost`);
* a whole array assigned to another shares its strings (`assign.cpp:39`);
* a method that assigns to a parameter of its own that is a struct or an enum
  frees what the caller's variable owns (`emits.cpp:64`);
* `this.s == this.m()` where `m` assigns to `this.s` compares a buffer that has
  been freed (`lowerValue.cpp:107`, `219`);
* a call whose result is an enum has no address to be copied from, and the
  compiler stops;
* a string parameter of a method makes invalid IR (`lowerFunc.cpp:27` takes a
  value where the call passes an address), and a returned local string is
  always empty (`MIRStmtBuilder.cpp:279`).

Temporaries that no consumer destroys leak: `cleanupStack` is filled and never
emitted (`llvmCodegen.cpp:73`). Those of a struct's initialisation are of the
category `Plain`, so what their strings own is lost with them. Temporaries in a
loop take new stack on every turn (`lowerValue.cpp:482`).

In the front end:

* two of the repository's own programs are refused:
  `test/ok/control_flow/match/match_with_literal.hrd` (a value transfer without
  `;`) and `test/ok/declare/class_with_accessModifier.hrd` (`public` before a
  class, `Parser.cpp:31` against `docs/grammar.md:1405`);
* `a = b = c` is refused, `docs/grammar.md:910` calls assignment
  right-associative; a ternary whose branch is a cast is refused, as are a local
  of an array type with `Type[3] x` and functions that return arrays or Handles;
* a field `Handle<A> h` with any modifier before it is refused
  (`parserDecl.cpp:413`), while the same without one is accepted at the top level;
* `break` in a match that is an initial value or a returned value is not
  noticed outside of loops (`Verifier.cpp:229`, `263`, `304`, against
  `docs/grammar.md:1178`);
* a match in a range, or as another match's value, is an internal error
  (`Builder.cpp` does not visit it, `Linker.cpp:83`);
* a class that extends a built-in type or `Main`, and an impl of a trait that
  does not exist, use a null pointer (`Linker.cpp:161`, `242`);
* overloads are refused in one order of declaration and accepted in the other
  (`Linker.cpp:265`, `307`): a method is compared with others of its name that
  have no parameters yet. Two that differ only in their return type are accepted;
* Main's `update` is overwritten in the table of methods by its inits
  (`Linker.cpp:142`);
* `verifyCycledInherit` never fires, since the layout refuses cycles before it;
* a line comment at the end of the file without a newline never ends
  (`lexer.cpp:153`); `/*/` is a whole comment.

In the Resolver:

* assignment, the results of a method and of a match, and payloads ask whether
  the target's type turns into the value's, not the reverse: `i32 = i64` is
  accepted (run `should_refuse`) and `i64 = i32` refused, and `return 1;` in a method with result
  `float` is refused (`ResolverExpr.cpp:175`, `ResolverDecl.cpp:86`, against
  `docs/grammar.md:250`);
* u32 turns into i32 and i32 into f32 by itself, though values are lost
  (`ResolverUtil.cpp:254-285`, `docs/grammar.md:250-255`), as an operand, an argument
  or an initial value; only an operation of an int and a float warns of the lost
  precision (`ResolverExpr.cpp:81`);
* a whole number as the initial value of a float replaces the width that was
  written (`ResolverDecl.cpp:203`, `ResolverUtil.cpp:538`), and that of an int is not
  compared with the width, nor widens it (run `should_refuse`);
* the type of a case's literal is not compared with that of the value chosen
  by, and a name as the case of anything but an enum uses a null pointer
  (`ResolverExpr.cpp:478`);
* operands without a common type, two cases of one key and a trait method that
  is missing are internal errors, where a message is due;
* a call of a method whose result is inferred, and a right override of one, are
  refused if they stand before it (`ResolveCall.cpp:257`, `ResolverDecl.cpp:137`);
  a class's method may fulfil a trait with another result type;
* a declaration inside of a cast is never linked, so its use is an internal
  error; a result with a width, `int:i64 f()`, does not parse as a method;
* a local used before its declaration is accepted, with the type written there.

Also seen, and left as the code has it: entities alive at exit are leaked and
their onDestroy does not run (`hrd_runtime_world.cpp:34`).

## 6. Not modelled

The values of fields in the model of control flow and of numbers in that of
ownership, and the trace output on stderr. Of the verifier and the MIR builder: operators,
casts, calls, spawn and view as expressions (they evaluate their operands in
order, and what is said of a load holds of each operand), arrays and their
indices, payload bindings, base classes and root variables. Of code generation:
arithmetic, numeric types and casts, strings of 16 and 32 bits (they have no
destroy function), and the building of IR instructions as such. Of the front
end: the table of runtime functions (`PrepareRuntime.cpp`, constant) and
the calls of them, the decoding of characters and strings, the range of float
literals, `Option` and `Result`, and the wording and positions of messages. Of the driver: options, files, the call of the linker.
The HIR builder translates trees to trees and keeps no state but a map of
symbols. The debug printers only print, and `magic_enum` is vendored.

## 7. Plan

In order of importance. Each entry is a module with its MC module,
configuration and, where the argument is not an induction over trees, proofs.

1. *World* (`HrdWorld`, `GameLoop`, `EntityRegistry`): done, invariants and
   refinement proved.
2. *Definite initialisation* (`HIRVerifier`, `CompiledClass`): done for scalars
   in a class without a base. Left: base classes, arrays (element by element,
   constant and other indices), payload bindings.
3. *MIR lowering and execution* (`MIRBuilder`, `HIRSemantics`, `MIRExecution`,
   `CompiledClass`): done for statements and branching expressions; that a
   certified class never goes wrong is proved. Left: payload bindings, calls.
4. *Ownership* (`HrdString`, `Heap`, `Ownership`, `ValueStore`): done; for any
   sequence of steps over strings and over enums with strings (`HeapProgram`,
   `CopyStore`) the invariants and the refinement are proved. Left to prove: the
   same for structs and for payloads of other types, which needs a form of `Lower`
   and `Assign` without recursion, one level of a type at a time.
5. *Front end* (`Lexer`, `Parser`, `Builder`, `Linker`, `Resolver`, `Verifier`,
   `Layout`, `Frontend`, `Typing`): done; the lexer, the layout and the choice of
   overloads are proved. Left to model: decoded literals and the runtime's
   functions.
6. *HIR builder*: from the tree of the front end to that of `HIR`, so that a
   program passes from its text to its run.
