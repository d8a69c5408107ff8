# A TLA+ specification of qk

qk is a compiler, `qkc`, for a small systems language: about 34,800 lines of Go (not
counting its tests), a standard library written in QK, no goroutines. What is concurrent about it is that
any number of `qkc` processes share one cache directory; what is hard about the rest is
order: of modules, of initializers, of generic specializations, of compile-time evaluation.
Every definition here is read off the Go code. `PROJECT.json` maps each definition to the
lines it stands for.

## Inventory

| part | source | state it keeps | operations | what makes it correct |
|---|---|---|---|---|
| build driver | `cmd/qkc/main.go` | the units, their hashes, artifacts and object files of one build | replay or front end, load, compile, store, link, hosted retry, snapshot | the image is that of a build without a cache; every build ends |
| artifact cache | `artifact_cache.go`, `build_snapshot.go`, `cached_snapshot.go` | files: an artifact per path, a snapshot per input hash | load, store by rename, validate, materialize | an artifact found is the one meant; a snapshot replays |
| source discovery | `source.go`, `project.go`, `library_root.go` | request queue, seen packages, resolutions, directory of each module | resolve through mounts and search roots, inspect | each import means one directory, whatever the queue order |
| incremental front end | `incremental_frontend.go` | modules, order, IR, templates, interfaces | scan imports, order, select, declare, analyse, generate | a module is analysed after its imports |
| module order | `loader/dependency.go`, `moduleinfo.go` | marks, path, order | visit | topological, complete, cycles found |
| initializers | `codegen/irgen/irgen.go` (367-410), `freestanding_runtime.go` | guard per module, globals | call dependencies, assign | globals are assigned before they are used, once |
| compile-time selection | `loader/staging.go` | bindings, replacements | prime, select, evaluate | branches agree with the bindings, in any order |
| specialization | `loader/specializations.go` | request worklist | queue, instantiate, rename | each request is instantiated once; no call to a removed body is left |
| demand propagation | `loader/pipeline.go`, `sema/validator.go`, `codegen/irgen` | demanded literals and arities, wrappers | record, least fixpoints, choose wrappers | caller and callee agree on the wrapper, in any order |
| evaluator | `ir/eval.go` | frames, slots, values, globals | run, load, store, call | agrees with the run-time semantics of the IR |
| sema | `sema/*.go` (10,700 lines) | scopes, symbols, types | declare, attribute, validate | accepted programs are well typed, matches exhaustive |
| tokeniser, parser | `tokeniser`, `parser` | position, lookahead | tokenise, parse, scan header | trees as the grammar groups them; an error costs one declaration; the header scan finds every import |
| types | `types/type.go` | - | identity, layout, assignability | layout agrees with LLVM |
| IR generation | `codegen/irgen` | environment, defer scopes, blocks | lower functions | deferred code runs on every exit, once |
| LLVM generation, ABI | `codegen/llvm`, `codegen/llvmbackend` | - | print, classify, compile | foreign calls follow the ABI |
| linking | `link.go`, `compile.go` | - | links in use, linker arguments | no used foreign symbol lacks its library |
| standard library | `libs/std` | allocators, buffers, collections | ... | the usual ones |

How they interact: `main` calls discovery once, which reads every source; the input hash and
the front end both use that copy. The front end returns modules in dependency order with
their IR; specialization adds units after them; each unit becomes LLVM text, an object file and
an artifact. All of this is one sequential process; the file system is the only thing shared.

What is hard: builds that interleave on the shared cache, are killed, fail to store, or find that
files went; a cached snapshot whose inputs are not all in its hash; the retry of the link with another
runtime; graphs with diamonds, cycles and modules without globals of their own; fixpoints over
maps in random order; worklists that may not drain; deferred code on every way out of nested scopes; the alternation of
selection and evaluation at compile time; a parser that goes on after errors and tries things out. `PROJECT.json` lists each as a hazard at its
line, with the properties that cover it.

## Modules

**BuildCache** is the driver and the cache, for any set of processes. `store` maps each path to the
artifact there (or none that loads), `builds` each input hash to its snapshot, `proc` each process to its
program counter and locals, `outside` is the content of files `@embed` reads. One action per step that
another process can see or that can fail: `Start` (discovery), `Lookup`, `ValidateEntry` (one per entry of
the snapshot), `Replay`, `Materialize` (one per entry), `LinkCached`; `Frontend` (with the warning
policy and lowering), `LoadArtifact` (modules in map order, the runtime last), `Loaded` (`-no-emit`),
`CompileUnit` (reuse, or compile and store), `LinkFresh` (the libc-free probe), `RetryHosted`,
`StoreSnapshot`; `Crash`, `Retire`, `LoseArtifact`, `LoseSnapshot`, `EditOutside` around them. What lies
between two such steps touches only the process. A file that is installed by rename appears in one step,
because nobody opens the temporary name. A hash is the value it is taken of: the model assumes SHA-256 does
not collide. What the front end makes of a source is the constant `Program[source][outside]`: units in link
order, their texts, whether libc is asked for and kept. An object is the text it was compiled from.
`Fault` says which faults may happen.

**BuildPromise** is the abstract specification: a process is asked, answers at most once, with an answer a
compiler with an empty cache may give (or gives up because an artifact is gone), and leaves. `KeepsPromise`
is the refinement.

**ModuleGraph** goes from imports to initialised globals. `Imports` is what `sourceModuleGraph` finds by
scanning tokens (all branches, then the built-in package, then `std`); `Selected` is what is left after
compile-time selection. `VisitPrimary`, `VisitImport` (`Enter`, `Skip` or `Fail`) and `Visited` are the
recursive `visit` with its stack made explicit; `Generate` gives a module its initializer or none; `CallRoot`,
`TestGuard`, `CallDependency`, `AssignGlobals` run the initializers as the generated code does, from the
runtime (executables) or as constructors (other outputs), and `CallMain` ends it. A loader may run constructors in any order, which
the code does not fix; `CallRoot` runs them in the order of the graph. Since an initializer sets its guard and calls those of its imports before it
assigns, every module is still assigned once and after what it imports in any other order.

**Discovery** goes from the package on the command line to the packages it needs. `queue`, `seen`, `directories`,
`packages` and `resolutions` are the variables of `discoverSourcePackages`; the disk, the mounts of `qk.mod` and the
search roots are the constant `Workspace`. `Locate` is `resolvePackageLocation`: `FromOrigin` (the library an import comes
from, with the collections merged with it), then `FromMounts`, then `FromRoots`. `Begin` or `RejectRoot` inspects the first
package; `Take` is one turn of the loop, ending in an ambiguity, a conflict, a repeated or missing module, an unacceptable
package, or `Load`, which looks up and queues the package's imports; `Finish` ends it. Import paths and
directories are sequences of names, and a file is what its header declares and imports. A mount is a number:
the position of its line, the installed vendor tree first.

**Demands** goes from the calls of a program to the wrappers they reach. `ValidateCall` records what a call demands of
its callee (literals, numbers of variadic arguments) and what it passes on (`forwards`, `spreads`); `ForwardConstants`,
`ConstantsRound`, `ForwardArities` and `AritiesRound` are the two fixed points of `PropagateSpecializationDemands`, whose rounds
go through maps in any order. `Generate` gives each function its `Versions` and each version the calls of its `Body`, with the
wrapper that `generateFunctionCallExpr` chooses (`Target`) and the arguments it leaves in (`Emitted`). `Invoke` and
`Assign` then run the generated calls beside the source: `frame.sees` is what the parameters hold in the wrapper that runs,
`frame.means` what they hold in the function as written. Functions are not generic (generic instances are
not validated, so they record nothing, and templates get no wrappers) and are called by name.

**Specialize** goes from the calls of generic functions to the objects that hold their instances. A template is instantiated
twice: `Attribute` is what semantic analysis does for every list of arguments it meets (`specializeGenericFunction`: the
instance joins the template's module), and `Instantiate` is what the loader does with the template's symbolic code for every
request in its queue, in a unit of its own. Between the two lies `Generate`, after which every module declares what it calls
elsewhere. The loader looks at one call at a time: `SkipCall`, `CallMethod` (a trait's requirement becomes the method of its
receiver's type), `RequestTemplate` (rename, and queue unless queued) or `Unavailable`. `Finish` takes the first copies out of
the modules and adds the declarations of what they and the units call. Code is the functions it refers to (`sites`), an object a
module or a request; names are sequences of words, since the loader renames calls by comparing prefixes of
strings (`Rename`), and the word of a type stands for the hash of its identity. The modules' functions are looked at in the order of the
program's sites and before all units, as in the code; across modules the code's order is alphabetic, and nothing checked depends on it.
`Accepts` says what semantic analysis has accepted; it asks that all types of an instance have what templates require.
`Replaceable` describes the programs in which the loader does not go wrong; it is used in theorems and not in the model. Its
conditions are what semantic analysis guarantees of names and visibility, hashes that do not collide, and the negations of the
findings' cases. `MCSpecialize` evaluates it: all programs of the
run `specialize` satisfy it, and none of `specialize_replaced`.

**IR** is the intermediate representation of `ir.go` as data: types, operands, instructions, and what each
instruction needs, defines and leads to. It says what *well formed* code is: every block ends in its only terminator and leads
to blocks that exist (`Closed`), a value or slot is defined on every way to where it is used (`DefinesFirst`), and calls name a
function with as many parameters (`CallsMatch`). Neither `irgen.go` nor `eval.go` checks this; LLVM does, much later.

**Lowering** goes from the syntax of a function body to basic blocks, as `irgen.go` does it, and holds the checks of the
validator and of `parser/control_flow.go` on which that relies (`Accepted`, `FallsThrough`, `Exhaustive`). The generator is
a record that every operator takes and returns: blocks, the block being filled, fresh values and slots, the stack of
scopes with their deferred actions, the labels of the loops. A panic of the generator is its field `bad`. What is
lowered is blocks, conditionals, both kinds of loop, matches on several subjects with guards and alternatives, `defer`, `break`,
`continue`, `return`, short circuits, declarations and assignments of one or several values, compound assignments, structs,
untagged unions, pointers, dereferences, calls, `panic` and the module initializer. It has `RECURSIVE` operators, as a
generator that walks a tree must, so no theorem is about it; what it makes is checked to be well formed on the instances.

**Evaluator** runs lowered code, one instruction a step: `frames`, `cells` (slots and globals) and `outcome` on two machines.
The *evaluator* is `ir/eval.go`: integers without a width, aggregates that are Go slices (entries of `heap`) shared by the values
that were loaded from them, a bound on the depth of calls, and no bound on steps. The *native* machine stands for what LLVM makes of the
same code: integers wrap and aggregates are values. Arithmetic, comparison, loads and stores through paths, insertion and
extraction, calls, jumps and returns are an action each; `Failure` and `Stop` list the errors of `run`. The zero value of a type, which walks
the type, is the constant `Zero`: the runs give it `ZeroValue` of **Zeros** (`zeroEvalValue`), the theorem holds for any.

**Meaning** is the reference for both: what a syntax tree means by the language guide, without blocks, slots or jumps. It
translates no code and is not in the map.

**Staging** is `selectCompileTime` for one module. `remaining` are the bindings that `primeBindings` has not resolved, taken in any order, as
the loop goes through a map; `todo` and `out` are the walk of `selectBody`, which replaces every `when` it can decide; `sel` are the
bindings, the expressions left unresolved and the error. `EvaluateCode` is `evaluateUnresolved`: it analyses the declarations left so
far with the functions that the unresolved expressions can reach (`ReachableFunctions`), runs the module's initializer and then the expressions, and the
walk begins once more. Types are analysed too, so a length that is still a name is an error (`Lengths`, `HasLength`). What was evaluated is found
again by the node of the syntax tree, as in the maps of `stageSelector`: every expression has an `id`, its place in the
module as parsed. A failure stands for an error that is reported and for a panic of semantic analysis.

**Syntax** holds the productions of the parser as data, one definition per method of `src/parser`: what it consumes, what it
asks of the tokens ahead and of the nodes made so far, where it goes back and where it resumes after an error. **Parser**
interprets them: the cursor, the stack of positions, `Consume` (which moves on whether or not the token is the
expected one), speculation, `SynchroniseStatement` and `SynchroniseTopLevel`, and the scanner of headers that
discovery uses. `ParseTopLevel` makes one declaration (`Declare`) or reports one error (`Report`); `Finish` ends the file. A
token is its kind, its text and whether the next one touches it; a node is its kind, a name and its parts.

The instances are in the modules `MC...`: `MCPrograms` holds the programs that `MCEvaluation` and `MCDifferences` run,
`MCLimits` composes `BuildCache`, `Demands` and `Staging` with scripts for what they get wrong. `BuildCacheProofs`,
`ReplayProofs`, `ModuleGraphProofs`, `DiscoveryProofs`, `DemandsProofs`, `SpecializeProofs`, `SpecializeLinks` and
`EvaluatorProofs` hold the proofs.

## What is checked

| run | instance | shows |
|---|---|---|
| `cache_shared` | two symmetric processes; four sources (one that retries hosted and hides its warnings, one that shares all its objects without retrying and shows them, one whose warnings are errors, one rejected); two contents outside; crashes and edits | types, `OutputIsCleanBuild`, `SnapshotsReplay`, `WarningModeHonoured`, `KeepsPromise` |
| `cache_lossy` | two processes, one source of one module and a runtime that warns and retries hosted, builds, checks and dumps; stores fail, artifacts and snapshots disappear | `FailsOnlyAfterLoss`, `BuildsEnd` |
| `module_graph` | some 20,500 programs over main, two libraries, std and the built-in package | `ImportsFirst`, `OrderIsReach`, `RejectsCycles`, `NeedsFirst`, `InitialisedOnce`, `EndsOrRuns` |
| `discovery` | 2,745 workspaces: a project beside two collections and the installed library, up to two mounts in any order | `OneDirectory`, `LoadsImports`, `LoadsOnlyImports`, `ResolutionsStable`, `Ends` |
| `demands` | 312 programs: a main function calls one library, which calls functions of another and is called by them; literals, defaults, `mut` and variadic parameters | `LeastConstants`, `LeastArities`, `CallsDefined`, `SeesArguments`, `Generates` |
| `evaluation` | every two statements of a set that leaves scopes (deferred actions, jumps, returns, conditionals) in each of five loops, twelve programs for values, calls, matches, structs, pointers and initializers, and every two endings of a function; on small arguments, at compile time and natively | `SameAsMeant`, `FailsWithTheSource`, `AcceptedLowers`, `NeverUndefined`, `Ends` |
| `staging` | modules of five items and up to two more out of fifteen, in every order that declares code before what reads it; every order of resolution | `SelectedAsWritten`, `FailsAsWritten`, `ValuesKeep` |
| `syntax` | 5,370 files: expressions of two and three operators from all levels, prefixes and postfixes, printed with the fewest parentheses; 23 declarations, each token replaced by each of nine others, between sound ones; three lines each of eight that name modules | `ParsesBack`, `Recovers`, `HeaderAgrees` |
| `limits` | a script of seven builds and an edit on one cache, two programs with wrappers, and three modules to select | **violates** `AsDocumented` |
| `differences` | eight accepted programs | **violates** `RunsAsDocumented` |
| `specialize` | 272 programs: a main module and a library, two templates that call each other with equal, exchanged and fixed arguments, with a default wrapper, and with requirements | `OnlyDemanded`, `AllDemanded`, `CallsMeanOne`, `SameCallees`, `BaseUnvarying`, `Extracted` |
| `specialize_replaced` | one template that refers to everything the passing programs leave out | **violates** `Replaced` |

The violations are real disagreements. Each run ends in a state that has a verdict for every case it tries, and the false ones
are the findings. Seven are in `limits`. A specialization is stored at a path made of its owner's hash
and a key that names types without their layout, and only files called `blob` are compared with their hash
when a snapshot is loaded, so a snapshot may link another program's object. The input hash leaves out the
warning modes, so a replay shows, hides or forgives what another build was asked to. The hash leaves out
embedded files, so a build after an edit of one links the old contents. A call of a variadic function with an expanded slice and the only literal the function is
ever given is emitted to a constant wrapper, which variadic functions do not get. And a wrapper takes a
parameter for the literal it was made for even after it was assigned, so the value assigned is lost when the parameter is
passed on. The passing runs of the cache use instances where the first three do not arise (request bodies determined by owner, each program under one warning mode, embedding without effect):
they say that nothing else goes wrong. So does `demands`, whose programs expand slices only beside arguments no wrapper knows and
do not pass on parameters that may be assigned.

The last two are in compile-time selection. Files are selected together so that their order does not matter, but the length of a type is looked up
when the walk reaches it: a length that a `when` of a later file binds stays a name, which semantic analysis refuses; with the files the other way round it
is known. A binding whose value is a `when` is taken for one that needs code before the `when` is replaced, and the staged module then holds a `when`, on
which semantic analysis panics. The instances of `staging` have neither, and `SelectedAsWritten` and `FailsAsWritten` except by name
(`LengthNeedsCode`) the lengths that need code.

Five more are in the extraction of specializations (`specialize_replaced`). The
loader makes each instance again, in an object of its own, from the template's code, and what held for the copy inside the module
need not hold there: a function private to the module cannot be called, a function whose address is kept is not
declared, the lambda of a template is never generated. Calls are renamed by prefix, so a callee whose name starts with the template's
own becomes a name nobody defines, as does a recursive call with exchanged arguments; `std.alloc.Arena.allocate`, which calls
`Arena.allocate_bytes`, is such a template. Methods are looked up again, for C strings among those of `u8`. The templates of `specialize` call public functions,
whose names start otherwise, or themselves with the same arguments. Two limits of the code are in the model without a run of their own: the
loader gives up (`Unavailable`) on a requirement that a type inherits from the trait or that has type parameters, and the lambdas of an
instance stay in the template's module, so that `BaseUnvarying` is a property of templates without them. In **Discovery**, when a collection and an exact mount lead to one
library, the later line decides to which of them it belongs, and so which neighbours its imports find.

Eight are in generated code (`differences`). At compile time a copy of a struct shares its fields with the original, a field of a member
of a union overwrites the union, and patterns are joined with operators the evaluator has for integers only. In the generator,
a function that ends in an `if` whose branches both return panics, a deferred action that returns runs the deferred actions of
the scopes inside once more, a literal assigned to a variable it reads finds zero, and a closed range up to the last
value of its type does not end. The validator accepts a bare `return` in a function with a result. The programs of `evaluation` leave these out, and at
compile time a run may also stop at a named limit of the evaluator (`Limits`): it says that nothing else goes wrong, and that what does fail,
fails as the source does.

`Recovers` says how far recovery reaches: an error costs the broken declaration and at most the one right behind it. It is stated for replaced tokens that are no
braces, nor the last before a closing brace, since a token that was expected and not found has been consumed, and with a brace the rest of the file goes.
For the same reason nothing is replaced by an opening parenthesis, nor by `@`, which at the start of a line continues
the declaration before. A broken declaration in a `when` takes the closing brace with it, so `when` is parsed whole only.

Bounds. Two processes are enough for every race on one path, since a path holds one artifact and no step reads
two files; three units (module, specialization, runtime) put one of each kind of path in
each build of `cache_shared`, two (module, runtime) suffice for the faults of `cache_lossy`; two
sources with equal texts and one with others make sharing, overwriting and stale reads happen. Processes start
again without limit. Each warning mode has a program with warnings in
`cache_shared`; that a program without warnings shares its snapshots among the modes is only proved (`WarningsHonoured`), since one more source that links triples the states of the run. Graphs have at most two imports per package: every diamond, self-import and cycle
through up to four packages occurs. In the
workspaces two mounts are enough for every pair that can agree, conflict or merge (collection and collection, collection
and exact, exact and exact), and the libraries import themselves, each other, a visible path of their own and a
module the project also has, in the orders that make one lookup come before another. In `demands` three functions are the
least for which a round is not enough in some order, two literals make a parameter ambiguous, and three parameters are one more than a wrapper
takes literals for; arguments are at most two variadic ones.
In `specialize` two templates that may call each other in both directions, with two parameters that can be kept, exchanged, joined or fixed over
two types that are asked for, reach lists of arguments by one, two and three instantiations, and some of them only through a unit. In `evaluation` loops turn at most twice, calls nest three deep (`MaxDepth`) and every statement that leaves a scope stands inside
and after each other: a deferred action, its scope and the loop around it are left in every way. The integers of the programs fit
both widths; `differences` has integers of 16 values, where they do not, and `Fuel`, which bounds the steps of the one program that does not end. In
`staging` types stand where their lengths are known when they are reached or need code; two bindings need no code and one or more do, which is what makes the second walk differ from the first. In `syntax` each operator
is an operand, on either side, of each other one. In the other modules no counter grows without bound, so no bound sits in a guard.

Deadlock checking is on for the cache (a finished process can always be started again) and off for
`module_graph`, `discovery`, `demands`, `syntax` and the two scripts, which stop when they are done or have failed (Specialize, Evaluator and Staging
say so with a step of their own).

Fairness. `BuildsEnd` assumes weak fairness of each process's own steps: the operating system schedules it and
the tools it calls return. It does not assume that crashes, losses or other processes stop. `EndsOrRuns`,
`Ends`, `Generates` and `Extracted` assume that the compiler, a single thread, takes its next step; so does `Ends` of `evaluation`, for the
program that runs. Crashes are not enabled in `cache_lossy`, since
a killed build does not end.

## What is proved

`BuildCacheProofs`, for all processes, sources, units, texts and programs:

- `TypeCorrect`: `Spec => []TypeOK`.
- `Soundness`: `Spec => []OutputIsCleanBuild`, from three assumptions that are the negations of what can go wrong
  and that the theorem states in its `ASSUME`: `SpecializationsAddressed` (two builds that store a specialization at
  one path store the same text), `HashCoversInputs` (what lowering makes of a source does not depend on outside
  files), `HostedStoreReliable` (the store of the hosted runtime does not fail). Crashes, losses, failed stores and
  any interleaving are allowed. The invariant alone is not inductive; the strengthening `Inv` adds
  `StoreSound` (what lies at a path is what every program that names that path compiles to), `BuildsSound` (a
  snapshot names, position by position, the paths of a clean build, with its libc choice) and `ProcessesSound` (per program
  counter: what the locals hold is a prefix of the clean build). One lemma per action.

- `WarningsHonoured`: `Spec => []WarningModeHonoured`, from `HashCoversInputs` and `WarningModesAgree` (a program that has warnings is built
  under one mode; the hash leaves the mode out, and the run `limits` shows what a replay then does). `ShowInv` says that a snapshot
  showed what every build of its source is to show (`ShownSound`), and what each process has shown and answered at each point of its
  run (`ProcessesShow`): nothing before the replay or the front end, and no image unless it linked.
- `PromiseKept`: `Spec => KeepsPromise`, the refinement of `BuildPromise` (the compiler without a cache) under the assumptions of both theorems. `Start`
  is `Ask`, the step that sets the verdict is `Respond`, `Crash` and `Retire` are `Leave`, and every other step, those of the
  environment included, is a stutter. That the answer is the right one is `Inv` and `ShowInv`: an image is that of a clean build, and
  a process that answers without one was refused by the front end or by its warning mode, or gave up. `BuildPromise` has no fairness, so
  the refinement is a matter of steps.

`ReplayProofs`, for the same constants:

- `ReplaysUnlessLost`: `Spec => []FailsOnlyAfterLoss`, with all faults enabled. The invariant `Kept` says that the entries a process has
  checked are there, or something was lost since it started; only a loss takes an entry away (`Grows`).
- `SnapshotsAreComplete`: `Spec => []SnapshotsReplay`, from `NothingLost`: no file of the cache is lost and no store of an artifact fails. Crashes,
  edits and a failing store of the hosted runtime are allowed. `StoredInv` relates three things: a file "blob" holds what its
  directory is named for, what a snapshot names is there, and a process that uses the cache has loaded or stored each unit it went
  past, so that it has all of them when it records the snapshot.

`ModuleGraphProofs`, for every set of packages and every graph:

- `TypeCorrect`, `ImportsComeFirst`, `OrderComplete` and `CyclesRejected`: `Spec => []` of `TypeOK`, `ImportsFirst`,
  `OrderIsReach` and `RejectsCycles`. The strengthening is `WalkInv`: the stack is a path of distinct modules under visit,
  each imported by the one below, starting at main (`StackInv`); a module has gone past only imports that are done, or the
  one it waits for (`StackPassed`); the modules done are those ordered, each after its imports (`OrderInv`); what was
  seen is reached through packages with sources (`SeenReached`). Reachability is the smallest set closed under imports, so
  "the order is complete" and "no accepted module is on a cycle" follow from closed sets, without induction on paths:
  the order is closed, and so is each of its prefixes.

and, on initializers, for every selection of the imports too:

- `NeedsComeFirst` and `InitialisedBeforeMain`: `Spec => []` of `NeedsFirst` and `InitialisedOnce`. The invariant has two parts over
  `WalkInv`. `GenerateInv` is what the generator leaves: a module has an initializer exactly if it has dynamic globals or an import kept that has
  one, so with a module every module that imports it has one. `RunInv` is what the running initializers keep: the calls
  on the stack descend in the order, so no module is called while it runs (`CallsDescend`); a call has gone past only
  dependencies that ran, or the one it waits for (`CallsPassed`); the guards that are set are those of the modules that ran or run
  (`GuardsInv`), so a call that finds its guard set finds a module that ran; every module that ran, ran once and after its dependencies
  (`RanInv`). The modules that ran up to a point are closed under needs that have initializers, and `NeedsAmong` carries this
  to all needs, since a module without initializer needs none with one.
- `GraphShrinks`: `Spec => Shrinks`. A step leaves its phase or shrinks what is left of it: the walk begins with a module, ends with one or goes past an
  import; the generator goes on in the order; the run calls one more root, sets one more guard, assigns the globals of one more module,
  goes past one more dependency, or returns for a guard that was set.

`DiscoveryProofs`, for every tree of directories and all mounts and search roots that `WorkspaceAssumption` admits
(what the manifest parser accepts; the names `main`, `std` and `vendor` exist):

- `OneDirectoryEach`, `ImportsLoaded`, `OnlyImportsLoaded` and `ResolutionsNeverChange`: `Spec =>` `[]OneDirectory`, `[]LoadsImports`,
  `[]LoadsOnlyImports` and `ResolutionsStable`. The key lemma is `SameLocation`: an import looked up again by the module path its first lookup gave
  is found at the same place, because the module path only matters in the search roots, and there it is the import or what the first lookup gave. The
  invariant `Inv` says what the loop keeps: the requests in the queue are imports of loaded packages with the meaning
  recorded for them (`QueueAsked`), every recorded resolution is that meaning (`Resolved`), and every import of a loaded
  package is settled or still in the queue (`Covered`); so when the queue is empty everything is settled.
  For `LoadsOnlyImports`, each request comes from an import of a loaded package or is the implicit one for std, which no mount can take over.
- `DiscoveryShrinks`: `Spec => Shrinks`. A step ends its phase, loads a directory that no package was loaded from, or takes a request
  and adds none. A directory cannot be loaded for two requests, because it declares one module (`LoadsDeclared`).

`DemandsProofs`, for all functions, literals and programs:

- `TypeCorrect`, `ConstantsAreLeast` and `AritiesAreLeast`: `Spec => []` of `TypeOK`, `LeastConstants` and `LeastArities`. The invariant
  `FixedPointInv` bounds what is recorded from both sides: it holds what the calls demand (`Collected`), it lies in every closed set that
  does (`Needed`), and a round that found nothing leaves the entries it went past closed (`Settled`).
- `CallsAreDefined`: `Spec => []CallsDefined`, if `ExpandedUnknown`: beside a slice that is expanded stands no literal and, unless it is the
  caller's own variadic parameter, no parameter. This excludes the first finding and nothing else. The lemma that carries it,
  `VariadicWrapped`, says that a variadic call that matches the literals has a wrapper of its length, because the arities are closed.
- `ArgumentsSeen`: `Spec => []SeesArguments`, if `MutableKept`: parameters declared `mut` are not passed on (the second
  finding). `FrameInv` adds that the parameters a wrapper is for hold its literals unless they are `mut`.
- `DemandsShrink`: `Spec => Shrinks`. Until the code is generated a step leaves its phase, or finds something new, forgets that
  something was found, or goes past an entry of the round. What can be found is bounded by the program (`DemandsConfined`): its literals and numbers of
  arguments, given to any function, are a closed set.

`SpecializeProofs`, for all words, types, parameters and programs that `ProgramAssumption` admits:

- `TypeCorrect`, `InstantiatedOnce`, `NothingElseDemanded` and `EverythingDemanded`: `Spec => []` of `TypeOK`, `RequestsOnce`, `OnlyDemanded` and
  `AllDemanded`. `TypeInv` adds that every site fits its template, so that an instance of an instance has concrete arguments. `RequestInv` adds that
  units belong to requests. `DemandInv` relates the requests to the sites: those of the modules are there from the start and those of a unit are
  exactly what its template asks for (`OfModules`, `Expanded`); each site that was looked at has its request (`LookedAt`); each request is in every closed
  set (`Confined`). At the end nothing waits and every site was looked at, so the requests are closed. What is demanded is a least closed set of
  instances, as for the demands and for reachability in the graph.

`SpecializeLinks`, for the same constants and all programs that are `Replaceable`:

- `CalleesDefinedOnce`, `UnitsAgree` and `ModulesUnvarying`: `Spec => [](Replaceable(program) => P)` for `CallsMeanOne`, `SameCallees` and
  `BaseUnvarying`. None of the three is inductive: at the end they speak of sites whose names were replaced many steps before. `LinkInv`
  says where everything comes from. The sites of modules are those of the program and of instances, and each reference to a template in them
  was instantiated because a module calls it (`SourceInv`). The sites of a unit are those of its template, as `UnitSite`
  makes them until they are looked at, and from then on with the name that the instance's site has (`FromUnits`, `HasUnitSites`). Functions are those
  given, those of the instances until extraction ends, and those of the units (`HasFunctions`); what modules and units
  take from elsewhere is declared (`ModulesDeclare`, `UnitsDeclare`).
- Three lemmas carry the argument. `UnitNames`: comparing prefixes and replacing them twice, once when the unit is made and
  once when the call is looked at, comes to the name the instance has, if nothing a template calls begins with its own name, itself
  with its own arguments excepted. `RequireNames`: the method that the loader finds is the one semantic analysis chose, for types that
  are no strings. `Distinct`: two functions of instances have different names, so that taking functions out of the modules by
  name takes the instances and nothing else (`KeptFunctions`). With `DemandInv`, the requests, the instances and the units are the same
  set at the end.
- `InstantiationShrinks`: `Spec => Shrinks`. In those programs attribution makes an instance for types the program writes or goes past a reference;
  extraction makes a request for one of the instances (`QueuedInstances`), takes one off the queue, or goes past a call. Types
  are not made of parameters in the model, so a template that calls itself for ever larger types is not covered.

`EvaluatorProofs`, for every program, argument and machine, any width of integers, depth of calls and zero values:

- `RunsDefined`: `Spec => []((\E known : WellFormed(known)) => NeverUndefined)`. A run of well formed code never fails with the errors
  of `run` that only a bug in the generator causes: an undefined value, a slot that is not allocated, a missing block, a block without
  end, a missing callee, a wrong number of arguments. `known` gives, for each block that control may reach, the names that
  are defined on every way there; it is quantified, so the theorem asks that such names exist and not how they are found. The invariant
  `Standing` says that every frame stands at an instruction and holds the names that are known there (`Placed`), and that all frames but
  the last stand at the call that the next one answers; `NeverUndefined` alone is not inductive, because the value that an
  instruction needs was defined many steps, calls and returns before. A frame moves in four ways, a lemma each: to the next
  instruction (`Advanced`), to a block (`Jumped`), into a function (`Entered`) and back to a caller, which then has the
  result (`RestMoves`). The constants are under no assumption. That the hypothesis is what the generator provides is checked by
  TLC: `AcceptedLowers` of the run `evaluation` computes `known` from the control flow and
  evaluates `WellFormed` for every program of the run. There each error is also found not to happen
  (`FailsWithTheSource`); the theorem says that for this no more than well formed code is needed.

Only model-checked: the liveness properties `BuildsEnd`, `EndsOrRuns`, `Ends`, `Generates` and `Extracted` (temporal reasoning with `ENABLED` is out
of the prover's reach). For four of the components one half of them is proved: by `GraphShrinks`, `DiscoveryShrinks`, `DemandsShrink` and
`InstantiationShrinks` no behaviour has infinitely many steps before the end, given finitely many packages, directories, functions and types. The
argument from there, that a lexicographic order of finite sets and bounded counters has no infinite descent, is not part of the
theorems; that some step is possible until the end, and that the compiler takes it, is what TLC checks.

Only model-checked is also what `Lowering`, `Staging` and `Parser` make of syntax trees, which takes recursive
operators and induction over the trees, neither of which the prover supports: `SameAsMeant`, `FailsWithTheSource`, `AcceptedLowers`,
`SelectedAsWritten`, `FailsAsWritten`, `ValuesKeep`, `ParsesBack`, `Recovers` and `HeaderAgrees`. The other way round, `TypeOK` of ModuleGraph, Demands and
Specialize and `RequestsOnce` are checked by the prover only.

## Plan

In order of importance; each composes with what is there through the constants it replaces.

1. **Specialize** continued: addresses of instances and generic references in globals, its requests as those of `BuildCache`. Demands of
   lambdas and of calls through methods join **Demands**.
2. **Frontend** (`incremental_frontend.go`, `sema/interface.go`, `pipeline.go`): declare and analyse per module, the
   snapshot of earlier modules that staging sees; it composes Discovery, whose packages are the `known` of ModuleGraph, with it.
3. **Lowering** and **Evaluator** continued: slices and `for` over values, tagged unions, dynamic traits, conversions and flags.
4. **Staging** continued: parameterized bindings, types as values, enum values.
5. **Links** (`link.go`): reachability of foreign symbols, the libc decision.
6. Algorithms against reference definitions: numeric tokens, type layout, ABI classification, `types.Identity`.
7. The allocators, buffers and collections of `libs/std`.

The first theorem worth proving there: a module that is analysed with the interfaces of earlier modules is analysed as it would be with all of them.

## Not modelled

Beside what the plan lists: wording, formatting and dumps; parsing of the command line (its results are constants);
the arguments of external tools; the byte formats of cache files (a damaged file is one that does not load); the QK
programs under `libs/vendor`, `examples` and `tests`; scripts and editor support; LLVM itself. In `BuildCache`: the link
roots and the links other than libc (a snapshot stores and replays both as they are), output paths, two processes
writing one output, and failures of temporary files in the build directory, which end the process as `Crash` does. A replay
that a failed libc-free link would break is possible only with the fault `"hosted"`, which no run enables. In
`Demands`: generic functions, lambdas, calls through function values, symbol names and linkage; `trait_flow.go` is called by nothing. In
`Specialize`: globals, vtables, foreign functions, and types built from other types, so a template that asks for ever larger types (for
which the compiler does not end) is outside the model. In
`ModuleGraph`: several source files per package (merged before the walk) and the errors of scanning.

In `Evaluator` and `Lowering`: floats, strings, flags, conversions, slices, tagged unions, dynamic traits, builtins and the checks of
`validator.go` other than those on control and matches. In `Parser`: the tokeniser (its tokens are given), locations, copies of nodes and
the values of literals; two operators that touch (`a++b`) are in the model and in no file of the run. As a check of the
translation, the 99 QK files of the repository were tokenised and given to the model, which accepts them all but the four
that are meant to be refused.

Some behaviours of the code are left out of the instances because what the program should mean is not clear, or because it stops there.
They are known limits, with no property of their own (the first is what `SelectedAsWritten` and `FailsAsWritten` except):

- *Staging.* A type that is selected and has a length that needs code fails the selection, because the staged module is analysed with its types before its code has
  run (`LengthNeedsCode`; staging.go:928-929, 948-950). A `when` as the value of a global variable whose condition needs code is the panic in `limits`. A binding that needs code and is read before it is declared reads zero. A binding under a `when` that needs code, read by
  another `when`, is undefined; so is a local binding that needs another local one. A chain of `else when` that needs code in more than
  one place leaves an unresolved condition. Locals share one flat map with the module's bindings (guide.md:1165). A `when` under a field
  access or as the target of an assignment is not selected. `&&` and `||` evaluate both sides at compile time.
- *Parser.* With two unclosed braces at the end of a file the cursor runs past the last token and looking behind it faults
  (`Faults`, status `crashed`). An error that resynchronises inside a speculative parse forgets the saved position. `return }` on one line is an
  error. A line of a struct's or function's header that ends in `(` or `.` takes the next `let` for its own. `let name() = "type"` is taken for a
  type. Patterns have no floats, struct literals take no postfix, and each statement of a block expression is parsed twice, so nesting costs exponentially.
- *Tokeniser.* A `//` comment without a final newline and a string without an end do not end; `'\''` is no character; `a -1` is a name and a number.
- *Discovery.* A package is marked as seen even when the importer that comes first resolves it to no directory (`source.go:204`); of two
  mounts that lead to one package the last decides its library (`source.go:280`).
- *Others.* When the store of the hosted runtime fails the snapshot keeps the freestanding one (`main.go:432`, the fault `"hosted"`). A generic
  that instantiates itself at a larger type has no end of instances (`generics.go:361`). Dynamic globals that read later ones read zero
  (`irgen.go:400`; the initializers of `evaluation` have the case, with that meaning).
