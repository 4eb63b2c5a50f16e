# minipy, specified

TLA+ modules, model-checking runs and machine-checked proofs for
[minipy](../src/README.md), a compiler of a statically checked subset of Python
to minivm bytecode. Everything here was translated from the Go sources under
`src/`; the documents under `src/docs` are used only where the text says that
the code disagrees with them.

## The system

A compilation is one pass of one thread through

    source -> lexer -> parser -> loader -> checker -> lowerer -> minivm (optimize, verify, run)

and a run calls back into *host functions*, Go code that reads and builds the
interpreter's reference-counted values. There are no threads, messages or
persisted files. What is hard is of five kinds:

- **Emission at a distance.** The lowerer emits code in the order of the source
  and takes back resources (scratch slots, labels, pending finalizers) when a
  statement *ends in the source*, while the code it emitted lives on and runs in
  another order.
- **Depth-first walks that meet themselves.** Loader, checker and lowerer each
  walk the imports; a module may be met again while its own walk is unfinished,
  and the three walks do not see the same imports.
- **Paths nobody ran.** Exceptions, early exits, finalizers and branches multiply;
  the checker decides on all of them with a few rules about blocks.
- **Decisions taken twice.** What a name's type is where it is used, which guard
  can hold, which expression a parameter is bound to, how operands are promoted:
  the checker decides it, the lowerer decides it again or relies on it, and the
  operators have a static and a dynamic implementation each.
- **Ownership across a boundary.** Each host function takes, lends, stores and
  gives back references by a written rule which no type enforces.

### Components

| component | code | state | operations | correct when | modules |
|---|---|---|---|---|---|
| scratch slots and regions | `compiler/lower.go`, `dynamic.go` | slots of the frame, free lists, marks of open scopes, buffered regions | `tmp`, `reuse`, `enterScratch`, `leaveScratch`, `tryRegion`, `flushTries`, `child`, `adopt` | a slot has one holder; guarded frames never reuse; regions guard the bodies they were recorded for, from above every local | `ScratchPool`, `SlotLease` |
| control flow, exceptions | `compiler/lower_stmt.go` | labels, loops, pending finalizers, handlers | one per statement; `inlineFinalizers` | the code runs as Python says | `TryLowering`, `TryMachine`, `PyStmts` |
| flow checks | `compiler/check*.go` | initialized names; loop and handler depth | `snapshotInits`, `restoreInits`, `mergeInits`, `blockReturns` | accepted bodies read only initialized names and return when they must | `FlowChecks` |
| module loader | `compiler/module.go` | modules by name, stack of names loading, errors | `loadModule`, `loadSpec`, `scan`, `resolveFrom` | circles and nothing else reported; all that is needed loaded; ends | `ModuleLoader`, `ModuleNames` |
| phases of imports | `compiler.go`, `check_stmt.go`, `lower.go` | modules checked, modules emitted | `checkModule`, `importStmt`, `importFromStmt`, `emitModule`, `emitImportChain` | what is emitted was checked; bodies precede uses, in Python's order | `ImportPhases` |
| lexer | `lexer/lexer.go` | offset and position, indent stack, brackets, literal | `step` and what it calls | blocks and positions follow the source; ends | `Lexer` |
| host references | `hostabi`, `compiler/runtime.go`, `builtins/host.go`, `operator/*.go` | counts of references | list, dict and set functions | nothing freed while owned; nothing kept without owner | `HostRefs` |
| parser | `parser/parser.go` | next token, errors | one rule for each construct; `skipStatement` | what the grammar writes comes back as written; nothing dropped; recovers | `SyntaxTrees`, `ParseExprs`, `Parser` |
| call binding | `check_expr.go`, `lower_expr.go` | expression bound to each parameter | `resolveFunctionArgs`, `call`, `construct`, `methodCall` | accepted, bound, evaluated and converted as in Python | `CallBinding` |
| specialization | `check_decl.go`, `lower_stmt.go` | instances of each function, stack of bodies, errors | `specialize`, `buildSpec` | instances ordered, built before use, typed as they run; failures leave nothing | `Specialization`, `SpecializedRuns` |
| type checker: flow of types | `check.go`, `check_stmt.go`, `lower.go` | narrowed types of names | `narrowings`, `withNarrow`, `fold`, assignments, `narrow`, `promoteIntToFloat` | every use finds a value of its type | `TypedFlow`, `TypedRuns` |
| operators | `operator/*.go` | none; operands and result on the stack | `BinaryType`, `EmitBinary` and the other rules; host functions | code fits its operands and gives Python's value | `OperatorTypes`, `OperatorHosts`, `PythonOperators`, `Operators` |
| class intervals, captured variables, comprehensions, REPL | see `PROJECT.json` | | | | planned |

`PROJECT.json` lists every part of the repository with its status and, under
`hazards`, each place where a mistake would be hard to test for, with the
properties that would show it.

### How they interact

The compilation calls the loader, then the checker, then the lowerer; the checker
calls the loader again, for names imported from packages (`ImportPhases` EXTENDS
`ModuleLoader` for this). The lowerer's statements reserve scratch slots and
buffer regions (`ScratchPool` abstracts the statements to their nesting;
`TryLowering` abstracts the slots to numbers). The checker's verdicts are what
lowering relies on (`TryMachine` runs only bodies that `FlowChecks` accepts, `TypedRuns`
only those `TypedFlow` does). A call reaches `CallBinding` for its arguments and
`Specialization` for its callee; these two and `TypedFlow` are models of the same walk of
the checker, each with what the other two decide reduced to a choice: argument types,
whether a specialization applies, the type of what is stored.

## The modules

- **`SlotLease`**: what a lowerer promises about slots: leased to one reservation
  at a time, returned when the statement that took it ends, frames nested in
  others leave them alone. No free list, no marks.
- **`ScratchPool`**: the pool as it is. `frames` holds one record per lowerer at
  work (`child`/`adopt` nest them); `Tmp` is `tmp` with `reuse`, `EnterScratch`
  and `LeaveScratch` are those functions under `reusable`. `EnterTry`, `LeaveBody` and
  `TryRegion` are the places where `emitTry` and `emitTryFinally` bind the labels of a body
  and record its region; `FlushTries` declares the regions. In guarded frames `code`
  remembers, for each use of a slot, in whose body it was lowered. The property
  `ImplementsLeases` is the refinement to `SlotLease`.
- **`PyStmts`**: statements (`ast.go`) as records, expressions reduced to events
  that return, raise or decide; and *Meaning*, which replays a sequence of events
  against a body and says what Python does next. This is the reference.
- **`TryLowering`**: `lower_stmt.go` from statements to instructions, labels and
  regions, one operator for each function of the lowerer.
- **`FlowChecks`**: what the checker accepts.
- **`TryMachine`**: checks and lowers a body, then executes its code one
  instruction a step, every event free to come out in every way. minivm is not
  part of the repository: its instructions are modelled from their use.
- **`ModuleNames`**: dotted names and `relativeBase`.
- **`ModuleLoader`**: the recursion of `loadModule`, `loadSpec` and `scan` as a
  stack of calls. A *world* says what is found under every name and which imports
  each file holds; `Init` picks any of them.
- **`ImportPhases`**: the loader's scan, then checking, then emission, over one
  world.
- **`Lexer`**: one action for each outcome of `step`; `escaped` is history, the line breaks that
  `decodeEscape` took for characters.
- **`HostRefs`**: a heap of counted cells; an action pushes arguments (named by a
  variable, or temporaries that die with the call), runs the body of a host
  function, releases the arguments and assigns the result. Allocation fails when
  the heap is full, which drives the error paths.
- **`SyntaxTrees`**: trees of expressions, patterns and statements (`ast.go`), and the
  text the grammar writes for each, with the parentheses it needs and no others.
- **`ParseExprs`**, **`Parser`**: `parser.go` over sequences of tokens. A state of the parser
  (its place, its errors, whether it speculates) is a record passed from rule to rule;
  one operator stands for each parsing function, and the module's loop has an action for
  each of its branches. A file is either the text of a tree (`written`) or any tokens.
- **`CallBinding`**: a call's items are filed by form as the parser does it, then bound
  one item a step as `resolveFunctionArgs` does, then evaluated one expression a step. A
  value is the place in the call it comes from, so that a value bound twice, dropped or
  taken from another scope is visible. `PyAccepts`, `PyFrame` and `PyEvaluated` say what
  Python does.
- **`Specialization`**: a stack of bodies being checked. `Specialize` pushes the clone of a
  function for the type of an argument; `Keep` and `Discard` are the two ways out of
  `specialize`; `BuildCallee`, `Build` and `BuildNext` are `buildSpec`.
  **`SpecializedRuns`** adds what the functions return, as the limit of ever deeper runs.
- **`TypedFlow`** checks a body statement by statement and records the type of each
  operand and what was narrowed there; **`TypedRuns`** lowers it with those records and
  runs it on values. A body is a table of blocks that hold one another
  (`ProgramsAssumption`); `blockReturns` is the largest set of blocks that each have a
  statement nothing goes on after, which for such a table is what its recursion finds.
- **`OperatorTypes`**: what the rules accept (`types.go`) and the instructions emitted
  (`emit.go`). **`OperatorHosts`**: the machine's arithmetic and the host functions
  (`host.go`, `dynamic.go`) on ints of `Width` bits, of which a dynamic value holds
  `Inline` bits. **`PythonOperators`**: the reference. **`Operators`**: an expression
  checked, emitted and run, one instruction a step.
- **`ScratchPoolProofs`**, **`ModuleLoaderProofs`**, **`LoaderResultsProofs`**,
  **`SpecializationProofs`**, **`TypedRunsProofs`**, **`LexerProofs`**,
  **`CallBindingProofs`**, **`CallResultsProofs`**: theorems.
- **`MC*`**: values of the constants for TLC, one module per model, one `.cfg` per
  run.

## The runs

| run | question | bounds | why they are enough |
|---|---|---|---|
| `scratch_pool` | Are slots exclusive, frames bounded, each use of a slot guarded by its own handlers from above its locals; is it a `SlotLease`? | 2 kinds, 2 nested functions, 2 nested statements, 2 slots, 2 `try` statements and slots reserved up to 4 instructions in a guarded frame, entry frames of a program and of eval | sharing a slot needs two statements and one slot; a wrong frame needs one function inside another; regions in the wrong order need one body inside another, a depth read too early a slot reserved after the region |
| `try_machine` | Does lowered code do what Python says, on every path? | bodies of `MCTryMachine` up to three nested compounds, 8 events, 2 exception classes | a finalizer duplicated, lost or misplaced shows with one exit through two statements |
| `module_loader` | Are circles reported exactly, is what is needed loaded, does loading end? | all graphs of 3 modules with 2 imports each; worlds with packages, natives, missing and unreadable files, and imports of the entry itself | circles of length 1, 2, 3, with tails; every outcome of `findSpec`; the hypotheses of the theorems hold of these worlds (`ResultsAssumption`) |
| `import_phases` | Is what is emitted checked, and in order? | graphs of plain modules and one package, imports under `if` | the walks differ on submodules, branches and repeated imports |
| `lexer` | Do blocks and positions follow the source? | all short sources over the characters of structure; literals over several lines, line breaks escaped in them and joined after them; programs of up to 4 lines of 8 kinds | a dedent needs three lines, one of them blank, joined or bracketed; a position is off after one break of two characters or one escaped |
| `host_refs` | Do counts cover owners, and do calls keep to their receiver? | 2 variables, 4 cells, lists and maps of up to 2, counts up to 3, a run ends at the first losing call | an element, its container, a fresh container and its row; the arguments may be the same value |
| `parser` | Is what the grammar writes parsed back, is nothing dropped, does the parser recover? | every construct in every place of every other, statements to depth 3; all short texts of brackets, stars, commas and colons; broken lines before a good one | regrouping needs two operators, a loss needs two elements, recovery one block inside another |
| `call_binding` | Are calls accepted, bound, evaluated and converted as in Python? | up to 3 parameters of 5 kinds, up to 3 items, ten kinds of callee, starred tuples of 0 to 2 elements | a clash needs one parameter and two items, an order three items |
| `specialization` | Are instances ordered, built in time, typed as they run, undone as a whole? | 2 functions with bodies of 2 statements that call each other or themselves, 2 instances each (the code: 8), 8 bodies deep, lists nested once | mutual recursion through two types reaches the cap, a failure inside an instance and a discarded callee of a kept caller |
| `typed_flow` | Does each use find a value of its type? | 2 names of 7 and 4 types, guards of 5 kinds around assignments, early exits and loops, bodies of up to 5 statements in 4 blocks | an overlay that outlives its guard shows with one store and one use |
| `operators` | Does each operator's code fit its operands, give Python's value and evaluate in order? | ints of 4 bits, 3 inline; floats by halves; strings of 2 characters; containers of containers; every form, operator and pair of types | both ends of the range, all signs, equal containers that are not one, ints behind references |
| `host_list_iterator` | one disagreement | the least that shows it | see *Findings* |

Deadlock is not checked where a behaviour ends: a body that returned, a source at
its end, a compilation that is done, an operator's value, a pool at its bounds, a heap
that is full.

Where the code is known to differ from Python or from its documents, the property says
so with a named condition and nothing else is excused. Most conditions stand in an
equivalence: in `NothingDropped`, `BindsAsPython`, `EvaluatesAsWritten` and
`ConvertsArguments` the result is Python's *exactly when* the condition is false, so that a
repair of the code would show as well. `ReadsAsTyped` and `HoldsDeclared` stop judging a
run after the store or the guard known to be wrong (`sound`, `loose`), `TypedAsItRuns` a
program whose check used a result before it was inferred (`early`) or took a name for a
comprehension's (`misread`). `ResultsAsPython` has the exemptions of `Exempt`, each of
which the run needs:

| condition | what the code does there |
|---|---|
| `UnemittedContains` | `operator.contains` on a dynamic container emits nothing (`operator.go:124`) |
| `AcrossKinds` | a needle is looked up by the type of the needle (`host.go:71`), so `1 in [1.0]` is false |
| `RemainderOverflows` | `((l rem d) + d) rem d` overflows at the ends of the range (`emit.go:580`) |
| `PastInline`, `HoldsLarge` | dynamic ints of 49 bits and more are cut, or raise, or differ from themselves (`dynamic.go:296`, `hostabi.go:240`) |
| `ByIdentity` | dynamic containers are equal only to themselves |
| `FloatPole` | dividing by 0.0 is left to the machine |
| `Unspecified` | `is` on numbers and strings, shifts past the width, `{1}[1]` |

In `host_refs` a call known to lose a reference (`Loses`) ends the run: what
follows would be hidden by counts that are too high, and everything before it is
exact. `NothingElseLost` therefore says two things, that the list of losing calls
is complete and that every other call balances.

### Fairness

The loader, the compilation, the lexer and a lowered body are sequential programs:
each step is taken by the only thread there is. Their liveness properties
(`LoadingEnds`, `CompilationEnds`, `LexingEnds`, `RunsEnd`) assume weak fairness of
the next-state relation, that the thread keeps running, and nothing else. A loop
of the program itself is bounded by `MaxTrace`.

## What is proved

With TLAPS, for every value of the constants:

- `ScratchPoolProofs!PoolTypeCorrect`: `Spec => []TypeOK`.
- `ScratchPoolProofs!SlotsExclusive`: `Spec => []HeldSlotsAreExclusive`, for any
  kinds, any number of nested functions, statements, slots and regions. Exclusive
  holding (`HoldersDistinct`, and `FreeNotHeld`: nothing on a free list is held, and
  each slot is listed under its kind) is not inductive alone. `leaveScratch` splits
  the reservations by position, at the mark of the scope it leaves, so the marks of the open scopes have
  to ascend and to lie within the reservations (`ScopesNest`); and a slot that grows
  the frame is new only because every reservation is of a declared slot
  (`HeldDeclared`). `FrameOK` is their conjunction with the type; there is one lemma
  for each operation on a frame and one step for each action.
- `ScratchPoolProofs!GuardedFramesKeepSlots`: `GuardedFramesKeepOneSlotPerSite` always
  holds of the units whose entry frame is flagged from all the code it lowers
  (`FlaggedUnits`; the two it excludes are findings). A slot declared is held or free
  (`NothingLost`), the peak of a kind is the number of its slots (`PeakIsSlots`), and a
  frame that protects frees none (`ProtectedKeeps`).
- `ScratchPoolProofs!RegionsGuard`: `RegionsGuardTheirBodies` always holds outside the
  sources of `exec()`: in the code of a frame that closes, each instruction meets the
  handler of the innermost `try` or `with` in whose body it was lowered, or none, through
  the regions in the order they were recorded; and that handler is entered above every
  local the code uses. At any time an instruction's handler is that of the first region
  recorded that covers it or, when none does, that of the innermost statement still to be
  recorded in whose body it is (`HandledBy`); recording the innermost statement changes
  neither. Bodies lie within the code that is there (`WithinCode`), and every local used
  is declared (`UsesLocals`). Only guarded frames have regions, and the entry frame of
  `eval()`, which closes without declaring any, is never guarded (`RegionsInv`).
- `ScratchPoolProofs!PoolImplementsLeases`: `Spec => ImplementsLeases`, the refinement
  of `SlotLease`. The owner of a slot is nowhere in the code: it is where the
  reservation stands among the marks (`OwnerOf`). With the marks in order, a scope that
  closes ends the leases of its own statement and no mark changes an owner.
- `ModuleLoaderProofs!StackAlwaysIsLoading`: `Spec => []StackIsLoading`, for every
  world: the names on the loading stack are exactly those marked as loading, each
  once. The induction carries the stack of calls: the first frame is the entry and no
  other scans it (`EntryFirst`, `EntryOnce`), each frame's depth counts the frames
  that scan below it (`Depths`, `Deepen`), the frames that scan are, in order, what
  is on the loading stack (`FramesPlaced`), so that the name popped is the one that
  finished; and a frame that waits for its parent package is not on the stack yet
  at its depth (`WaitingNotLoading`): `loadModule` looks at `ld.modules` before it
  loads the parent and not after it, and what the parent's body pushed is popped by
  then.
- `LoaderResultsProofs!NeededModulesLoaded` and `CircularImportsReported`: `LoadsWhatIsNeeded`
  and `CyclesAreReported` always hold, for every set of names and every set of worlds with
  `AnchoredImports` and, for the second, `NoOwnImports`: the two that fail without are
  findings. The invariant has four layers on top of the one above. `LinkInv`: what a frame
  waits for is what the import below it asks for. `WaitInv`: a frame that waits for a
  parent package names a module not yet there, whose packages are there or on the
  stack. `LoadedInv`: as long as nothing was reported, the stack is a chain of needs
  (`StackNeeded`), so that meeting a module that is loading closes a circle; what is
  scanned up to an import has loaded what it needs up to there (`Scanned`), so that what
  is finished needs only what is finished (`Closed`) and no circle is among it, since the last of a
  circle to finish would have met the first one loading (`NoCircleSettled`); and nothing
  is loaded that the entry does not need (`OnlyNeeded`). `CycleFound`: where a circle was
  reported there is one.
- `SpecializationProofs!Ordered`, `CalleesFirst`, `RolledBack`: `Spec => []InstancesAreOrdered`,
  `Spec => []CalleesBuiltFirst` and `Spec => ErrorsRolledBack`, for any functions, programs,
  caps and depths of nesting. One invariant, `IInv`, carries all three. Every call a body on
  the stack recorded is of an instance already made (`FramesOK`), so that an instance,
  appended when its body is finished, refers to earlier ones only (`MadeOK`); a clone in
  progress differs from every instance and every other clone of its function, which is
  what keeps types distinct. The errors on record are, clone by clone, above the mark that
  each clone took when it was pushed (`ErrsOK`), so that cutting the list at the mark
  takes away errors of that clone alone. In the lowering phase the instances being built
  form a chain in which each is called by the one before: with `MadeOK` it decreases, so an
  instance is never needed while it is being built (`BuildOK`).
- `TypedRunsProofs!ReadsTyped`, `DeclaredHeld`, `OnlyCheckedRun`: flow narrowing is sound.
  `ReadsAsTyped`, `HoldsDeclared` and `RunsOnlyChecked` always hold, for any names, any
  declared types and any body of guards, loops, assignments and early exits, nested as
  deep as one likes. The invariant joins what checking leaves with what a run keeps.
  Of the checker: what it goes on to after a statement it has checked, it has checked with
  that overlay, or has it on its stack (`Closed`), and no statement is checked twice
  (`Fresh`, from blocks being held once), so that the record of one stays. Of the run:
  every block on the stack that it can come back to (`Live`: no block above it ends in a
  way that never falls through) goes on at a checked statement whose overlay holds of the
  values (`Agrees`), and narrows no name that the blocks above do not narrow
  (`Inherits`); so a store to a name that is not narrowed here is to one that is not narrowed
  below. At a guard, the checker knows as much as the lowerer or more: a
  name of a single type is never narrowed (`DecidedAlike`). The rest of a block after an early
  exit is checked with the negative overlay, or not at all; it is reached only if the exit
  was not taken, as a block in `BlockReturns` leaves (`Leaves`).

- `LexerProofs!PositionsAlwaysTrack`: `PositionsTrackSource` always holds, for every
  source: a token is as many lines down as line breaks come before it, without those that
  literals escaped (`escaped` remembers these, and nothing else is excused). Where the lexer
  is and where its tokens stand agrees with those line breaks (`Stands`): every step either passes
  characters that break no line, or ends one at a break, `\r\n` whole, or passes an
  escape. What an escape takes lies ahead of every token queued, so the breaks before
  those stay what they were (`GoesForward`, `EarlierStands`).
- `LexerProofs!BlocksAlwaysNest`: `BlocksNest`, the first part of `BlocksAsIndented`, always
  holds, for every source. The DEDENTs among the tokens are, in every prefix, no more than
  the INDENTs, and those not closed are as many as the widths on the stack above the
  outermost (`Balanced`, `BlockInv`); a line closes fewer than there are because the
  outermost, 0, is never wider than it (`OpenPrefix`).
- `CallBindingProofs!ArgumentsConverted`: `ConvertsArguments` always holds, for every set
  of call sites: any number of parameters and items, starred tuples of any length, any
  types. The invariant (`BindInv`) follows the expressions through the phases of a call:
  what is queued, collected and bound are the call's own items, a collecting parameter is bound to a
  display and no other is, and only of a default does a parameter hold its own
  (`Bindable`); an argument that is bound whole was found to fit its parameter before it is
  lowered, so that promoting it, which `Op` does of whole arguments of three kinds of
  callee, always reaches the type declared (`GoodOps`). Two lemmas stand for the operators the
  model is built from: `InOrderLists` (the members of a set of numbers in order) and
  `FlattenedOver` (sequences joined).
- `CallResultsProofs!AcceptedAsPython`: `AcceptsAsPython` always holds, for every set of
  call sites: a well typed call that reaches the end of the checks is entered exactly when
  Python accepts it and its form is supported. `ResultInv` says, phase by phase, what the
  loops of `resolveFunctionArgs` have done of what Python asks: the positional expressions
  queued are the items with one value each, then the elements of the starred ones that were
  expanded (`Expandable`, `Lists`); the first of them are at the parameters of their rank
  and the rest collected (`Ranked`, `Rest`); a keyword taken is at the parameter it names, or
  collected; what is left unset has a default once the defaults are filled (`Resolved`).
  That a call was refused is itself part of the invariant (`RefusedOk`): each of the
  places that refuse does so of a call that Python refuses, or of a form that is not
  supported. The converse needs both directions of `Lists`: a parameter that Python fills
  twice would hold one of the two and the other would be missing from what was bound.
- `CallResultsProofs!BoundAsPython`: `BindsAsPython` always holds: every parameter of an
  accepted call receives the values Python gives it, unless a positional argument follows a
  starred one or a default names something else where the call is (both findings below),
  and then it does not. The instructions of an argument lie together in the code of the
  call (`Blocks`), so a parameter has the values of those of its block that have run, in
  their order (`FrameInv`), and at the end all of them. The values of the collecting
  parameters are in the order of `Taken` and Python's in that of `Written`; lists of the
  same members in the same order are equal (`ListsOnce`), and the two orders agree on a
  call's values exactly when nothing follows a starred item (`TakenAsWritten`).
- `CallResultsProofs!EvaluatedAsWritten`: `EvaluatesAsWritten` always holds, for every set
  of call sites in which no keyword-only parameter comes before `*args`
  (`VarBeforeKeywordOnly`; `parseParams` takes `(*, a, *rest)`, which is no Python). The trace is the
  part of the code that is done (`TraceInv`), and what counts in it are the items' expressions
  and the callee, before them or after them (`TraceLies`). The parts of what the
  parameters are bound to are those expressions, each once (`PartsAll`), and the order of the
  parameters puts the values first, as `Taken` does, and then the keywords by `Slot`
  (`PartsOrdered`, from the order of the declarations, `ParamsOrdered`). Python's
  order is one on the items (`InTurn`). Where the conditions hold, what is evaluated is a
  list of the items in that order too, so the same list (`EvaluatedInTurn`); where it is the same,
  each condition follows, as no item comes twice and none is missing (`InTurnNeeds`).

Assumed are the named ASSUMEs of the modules proved about, which TLC evaluates on every
run: `BoundsAssumption` of ScratchPool, `CapAssumption` of Specialization,
`NamesAssumption` and `WorldsAssumption` of ModuleLoader (what a search path holds),
`ProgramsAssumption` of TypedFlow (the shapes that the parser gives programs),
`SourcesAssumption` of Lexer and `NamesAssumption`, `TypesAssumption` and
`CallsAssumption` of CallBinding (the names and types the code itself mentions; that
parameters and items are lists; and what `check_decl.go` accepts of a declaration: names
that differ, `:909`, defaults assignable to the types declared, `:888`, and one `*args`, `:893`,
of parameters that `parseParams` of `parser.go` puts in order: after a `*` they are
keyword-only, and nothing follows `**kwargs`; while callable values and what the host
provides have positional parameters without defaults); and the hypotheses named above,
which the instances checked satisfy (`ResultsAssumption` of MCModuleLoader,
`DeclarationsAssumption` of MCCallBinding).

Only model-checked: all liveness, which is beyond the provers here; everything about
`PyStmts`, `TryLowering`, `FlowChecks`, `HostRefs`, `Parser`, `Operators`,
`SpecializedRuns` and `ImportPhases`, whose definitions recurse over statements, heaps,
trees, values and imports; and that blocks are those the indentation asks for (the rest of
`BlocksAsIndented`): its proof needs an invariant that relates the lexer's state to the lines,
brackets and comments before it, which is not written yet. In
modules proved about, the guards of a CASE exclude one another; in the others its arms
are tried in order, as TLC does.


## Findings

`host_list_iterator` reproduces a disagreement of the code with what the repository says:
`builtins/host.go:244` makes an iterator over a list that owns none of its elements, against
`docs/spec/05-codegen.md:489-492`.

Others show by giving a constant of the module named another value and checking the
property named:

| module, constant, property | code | says, or effect |
|---|---|---|
| `MCScratchPool`, `Units = {"exec"}`, `RegionsGuardTheirBodies` | `dynamic.go:61` closes the frame of `exec` source without `flushTries`: its regions are never declared | `docs/spec/05-codegen.md:87-89` |
| the same, `GuardedFramesKeepOneSlotPerSite` | `dynamic.go:57` never sets `protected` | slots are reused under a handler |
| `Units = {"importing"}`, the same | `lower.go:218` looks only at the entry's body | the same, for a `try` in an imported module |
| `MCTryMachine`, `Bodies <- LeavesInnerLoop`, `RunsAsWritten` | `lower_stmt.go:121`: `break` and `continue` run the finalizers around the loop too | `compiler_test.go:1841`, `docs/compatibility.md:86` |
| `RaisesAfterBody`, the same | `lower_stmt.go:344`: an exception in a handler or in `else` skips `finally` | `exception_finally_always_runs.py:2-3` |
| `RaisesInlined`, the same | `lower_stmt.go:381` emits finalizers still pending | an exception in an inlined finalizer runs it again |
| `ReturnsInFinally`, `AcceptedBodiesLower` | `lower_stmt.go:380` | `return` in a `finally` that a `return` inlines: lowering does not end |
| `NestedFunctions`, the same | `check_decl.go:899` keeps the counts of loops and handlers | `break` in a function defined in a loop reaches lowering |
| `SwallowedInside`, `ReadsAreInitialized` | `check_decl.go:1113` | a body that may fall off its end counts as returning |
| `AssignedInLoop`, `AssignedInTry`, `DeletedInBranch`, the same | `check_stmt.go:617`, `205`, `312` | reads of names without a value |
| `MCModuleLoader`, `Worlds <- OwnModules`, `CyclesAreReported` | `module.go:153`: a package importing its own module is a "circular import" (the theorem assumes `NoOwnImports`) | `docs/spec/04-static-semantics.md:45-46` |
| `NoPackage`, `LoadsWhatIsNeeded` | `module.go:294`: the parent of a top-level module is `""`, which splits into one part (the theorems assume `AnchoredImports`) | a relative import in it is not refused |
| `MCImportPhases`, `Worlds <- OnlyTheModule`, `EmittedAreChecked` | `check_stmt.go:92`: `import p.q` emits `p`, which nobody checked | `docs/spec/05-codegen.md:107` |
| `NestedPackage`, `AcceptedImportsLoad` | `check.go:334`: after `import p.q.r`, `from p import q` finds `q` among the modules loaded and does not check it | the same |
| `OnBothBranches`, `BodiesBeforeUses` | `lower.go:558`: a body is emitted once, in the branch lowered first | the other branch uses a module that did not run |
| `Unreadable`, `NeverPanics` | `module.go:204` keeps a module without a syntax tree | the lowerer dereferences it |
| `MCParser`, `Files <- MCPositionalOnly`, `RoundTrip` | `parser.go:415`: `def f(a, /):` is rejected | `docs/spec/03-grammar.md:164` |
| `HostRefs!Loses` | `listClear`, `listRemove`, `dictClear`, removal of boxed keys, copies of text-keyed maps | references lost for good |

Found by reading along while modelling, and part of the models or their exemptions:

- *Parser.* `{1: 2, 3}` and `{**a, b}` are accepted as sets, `[x, y for y in z]` drops `x`
  (`DropsElements`); `f(*t, 1)` is parsed as `f(1, *t)` (`RearrangesArguments`); an indented
  line inside a block loses blocks (`LosesBlocks`, which also leaves aside blocks that
  `match` and `case` open inside others); `def f(*args, ):`, `for x in 1,:` and `x, = 1` are
  rejected, and a bare `yield` before a bracket (`[yield]`, `a[yield]`; `parser.go:1404`
  knows `)` alone, against `03-grammar.md:223`): no tree here has one; `xs[]` and `f(a, x
  for x in y)` are accepted; `await x + 1` ends at `x`.
- *Calls.* Keywords are evaluated in the order of the parameters, a starred tuple once for
  each of its elements, a callable value after its arguments; a default's expression is
  resolved where the call is; a keyword repeated in `**kwargs` is accepted; a class without
  an `__init__` of its own takes no arguments and does not run its base's; `*args` and
  `**kwargs` of methods are always mistyped; an int given for a float is converted in calls
  of functions, `__init__` and dataclasses only (`docs/spec/02-types.md:133`).
- *Specialization.* The overlay of comprehension names is not saved (`misread`); calls of
  functions whose body comes later are typed None (`early`); the guard against recursion
  is by type, so `def f(x): f([x])` is checked without end (`MaxFrames`); the cap is tested
  before the body only, so instances finished meanwhile pass it. A parameter with a
  default and no annotation is Any (`check_decl.go:490`), where `02-types.md:105` gives it
  the default's type.
- *Flow of types.* An assignment under a guard keeps the guard's narrowing; an int stored
  in a union with float stays an int; Any stored in a union is not checked though
  `02-types.md:128-130` says it traps; a guard tested again on a narrowed name is folded by
  the checker and not by the lowerer (`lower.go:587`, against the comment at 583).
- *Captured variables* (not modelled). Only names a closure assigns are put in cells; the
  first assignment lowered makes the cell and the others write it, so that another branch
  dereferences nothing and each turn of a loop makes a cell of its own
  (`lower_stmt.go:1138`; `docs/spec/05-codegen.md:134`).
- *Operators.* The table above; `%` of ints evaluates its divisor first
  (`EvaluatedInOrder`); a dynamic `+` or `*` on lists raises TypeError; `a.x += e`
  evaluates `a` twice (`lower_stmt.go:958`).

In the lexer: a line break escaped inside a literal is not counted (`lexer.go:465`), so later
positions are a line early, which is the one exception of `PositionsTrackSource`
(`LineBreaks`). And in sources that `MCLexer` or `Plain` leaves out: a form feed counts as
indentation (`lexer.go:238`; `docs/spec/01-lexical.md` says it is skipped); a line of blanks
and a backslash joined to a blank line opens a block without statements; and `010` is read as
octal (`lexer.go:699`).

## Not modelled, and why

minivm (interpreter, optimizer, verifier) is another repository: only what its callers
rely on is modelled. Floating point, formatting, string methods and random numbers are
pure functions of values outside what a model checker tells apart. Terminal and file
handling of `cmd/minipy`, and the test drivers, keep no state worth a model. Of the type
checker, classes with their attributes, protocols and interval numbering are missing, of
the expressions comprehensions, generators, f-strings, subscripts and slices; of the
statements, `for` is a `while`. Fields of f-strings are parsed by a parser of their own
(`fstring.go`), which is not modelled.

## Plan

1. *Done*: scratch slots; control flow and exceptions with flow checks; loader; phases
   of imports; lexer; references of host functions; parser; call binding;
   specialization; flow of types; operators; the theorems above.
2. Proofs: the rest of `BlocksAsIndented`.
3. `ClassIntervals`: intervals nest as the classes do, proved for every tree.
4. `ClosureCells`: locals shared by closures keep one value.
5. `ListCode` (index normalization, slices, insert, `range`) at a scaled width, for the
   two numeric hazards no property covers.
