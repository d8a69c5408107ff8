----------------------------- MODULE ModuleGraph -----------------------------
(***************************************************************************)
(* From the imports of a program to its initialised globals: the module    *)
(* graph (cmd/qkc/incremental_frontend.go, sourceModuleGraph), the order   *)
(* modules are compiled in (loader/dependency.go, ModuleDependencyOrder),  *)
(* the initializer each module gets (irgen.go, generateModuleInitializer)  *)
(* and the run of those initializers before main.                          *)
(*                                                                         *)
(* The graph is made of the imports a scan of the tokens finds, whatever   *)
(* compile-time branch they are in; initializers call the initializers of  *)
(* the imports that compile-time selection kept.                           *)
(***************************************************************************)
EXTENDS Naturals, Sequences

CONSTANTS
    Package,    \* canonical package paths
    Main,       \* the package qkc is asked to build
    Builtin,    \* the compiler's own package
    Std,        \* the package "std"
    StdTree,    \* "std" and the packages below it
    Program     \* the programs

Members(s) == {s[i] : i \in 1..Len(s)}

\* known: the packages with sources; written: the imports in their sources, in
\* lexical order, without repetition; kept: those that selection kept; dynamic:
\* the packages with globals that are not constants; noStdlib and executable:
\* the flags of the build.
Programs == [known : SUBSET Package, written : [Package -> Seq(Package)],
             kept : [Package -> Seq(Package)], dynamic : SUBSET Package,
             noStdlib : BOOLEAN, executable : BOOLEAN]

ASSUME GraphAssumption ==
    /\ Main \in Package /\ Builtin \in Package
    /\ Std \in StdTree /\ StdTree \subseteq Package
    /\ Program \subseteq Programs
    /\ \A g \in Program, m \in Package : Members(g.kept[m]) \subseteq Members(g.written[m])

With(s, e, wanted) == IF wanted /\ e \notin Members(s) THEN Append(s, e) ELSE s

ImplicitStd(g, m) == ~g.noStdlib /\ m # Builtin /\ m \notin StdTree

\* ModuleInfo.Imports of sourceModuleGraph, and of BuildModules after selection.
Imports(g, m) == With(With(g.written[m], Builtin, m # Builtin), Std, ImplicitStd(g, m))
Selected(g, m) == With(g.kept[m], Std, ImplicitStd(g, m))

\* What a package reaches by zero or more imports (the smallest closed set).
Reach(imports, m) ==
    {x \in Package : \A C \in SUBSET Package :
        (m \in C /\ \A c \in C : Members(imports[c]) \subseteq C) => x \in C}
-----------------------------------------------------------------------------
VARIABLES
    program,        \* the program, given
    pc,             \* "order", "generate", "run", "main" or "failed"
    visited,        \* visited[m]: "unseen", "visiting" or "done"
    stack,          \* the calls of visit: the module and its next import
    order,          \* the modules in dependency order
    error,          \* what visit reports and where
    initializers,   \* initializers[m]: the imports whose initializers m calls
    initialised,    \* the modules that have an initializer
    at,             \* the position of the next module to generate
    root,           \* the position of the next module to initialise
    calls,          \* the calls of initializers: the module and its next call
    guards,         \* the modules whose __module_initialized is set
    ran             \* the modules whose globals were assigned, in that order

orderVars == <<visited, stack, order, error>>
generateVars == <<initializers, initialised, at>>
runVars == <<root, calls, guards, ran>>
vars == <<program, pc, visited, stack, order, error, initializers, initialised, at,
          root, calls, guards, ran>>

Frame == [name : Package, next : Nat]
NoError == [kind |-> "none", name |-> Main]

Init ==
    /\ program \in Program
    /\ pc = "order"
    /\ visited = [m \in Package |-> "unseen"]
    /\ stack = <<>>
    /\ order = <<>>
    /\ error = NoError
    /\ initializers = [m \in Package |-> {}]
    /\ initialised = {}
    /\ at = 1
    /\ root = 1
    /\ calls = <<>>
    /\ guards = {}
    /\ ran = <<>>

Top(s) == s[Len(s)]
Pop(s) == SubSeq(s, 1, Len(s) - 1)
\* The caller goes on with its next import, or call, when the callee returns.
Advance(s) == [s EXCEPT ![Len(s)].next = @ + 1]
-----------------------------------------------------------------------------
Fail(kind, name) ==
    /\ pc' = "failed"
    /\ error' = [kind |-> kind, name |-> name]
    /\ UNCHANGED <<program, visited, stack, order, generateVars, runVars>>

\* visit marks the module and goes through its imports.
Enter(s, m) ==
    /\ visited' = [visited EXCEPT ![m] = "visiting"]
    /\ stack' = Append(s, [name |-> m, next |-> 1])
    /\ UNCHANGED <<program, pc, order, error, generateVars, runVars>>

VisitPrimary ==
    /\ pc = "order"
    /\ stack = <<>>
    /\ order = <<>>
    /\ IF Main \notin program.known THEN Fail("unknown", Main) ELSE Enter(stack, Main)

\* Mutant: the caller does not go on.
SkipStuck == UNCHANGED vars
Skip ==
    /\ stack' = Advance(stack)
    /\ UNCHANGED <<program, pc, visited, order, error, generateVars, runVars>>

\* Mutant: a module that is being visited passes for one that is done.
VisitLenient(d) ==
    \/ visited[d] # "unseen" /\ Skip
    \/ visited[d] = "unseen" /\ Enter(Advance(stack), d)
Visit(d) ==
    \/ visited[d] = "visiting" /\ Fail("circular", d)
    \/ visited[d] = "done" /\ Skip
    \/ visited[d] = "unseen" /\ Enter(Advance(stack), d)

VisitImport ==
    /\ pc = "order"
    /\ stack # <<>>
    /\ LET imports == Imports(program, Top(stack).name)
           k == Top(stack).next
       IN  /\ k <= Len(imports)
           /\ IF imports[k] \in program.known THEN Visit(imports[k]) ELSE Fail("unknown", imports[k])

\* Mutants: a module is put before its imports; a module is ordered but not
\* marked as done.
VisitedImportsLast ==
    /\ pc = "order"
    /\ stack # <<>>
    /\ LET m == Top(stack).name IN
       /\ Top(stack).next > Len(Imports(program, m))
       /\ visited' = [visited EXCEPT ![m] = "done"]
       /\ order' = <<m>> \o order
       /\ stack' = Pop(stack)
       /\ pc' = IF Len(stack) = 1 THEN "generate" ELSE pc
    /\ UNCHANGED <<program, error, generateVars, runVars>>
VisitedForgotten ==
    /\ pc = "order"
    /\ stack # <<>>
    /\ LET m == Top(stack).name IN
       /\ Top(stack).next > Len(Imports(program, m))
       /\ visited' = [visited EXCEPT ![m] = "unseen"]
       /\ order' = Append(order, m)
       /\ stack' = Pop(stack)
       /\ pc' = IF Len(stack) = 1 THEN "generate" ELSE pc
    /\ UNCHANGED <<program, error, generateVars, runVars>>
Visited ==
    /\ pc = "order"
    /\ stack # <<>>
    /\ LET m == Top(stack).name IN
       /\ Top(stack).next > Len(Imports(program, m))
       /\ visited' = [visited EXCEPT ![m] = "done"]
       /\ order' = Append(order, m)
       /\ stack' = Pop(stack)
       /\ pc' = IF Len(stack) = 1 THEN "generate" ELSE pc
    /\ UNCHANGED <<program, error, generateVars, runVars>>
-----------------------------------------------------------------------------
\* runFrontend generates the modules in order: a module calls the initializers
\* of the imports that have one by then.
\* Mutant: an import without globals of its own is passed over.
InitializersOfDynamic(m) == Members(Selected(program, m)) \cap initialised \cap program.dynamic
InitializersOf(m) == Members(Selected(program, m)) \cap initialised

\* A module has an initializer when it has dynamic globals or calls one.
HasInitializer(m) == m \in program.dynamic \/ InitializersOf(m) # {}

Generate ==
    /\ pc = "generate"
    /\ at <= Len(order)
    /\ LET m == order[at] IN
       /\ initializers' = [initializers EXCEPT ![m] = InitializersOf(m)]
       /\ initialised' = IF HasInitializer(m) THEN initialised \cup {m} ELSE initialised
    /\ at' = at + 1
    /\ UNCHANGED <<program, pc, orderVars, runVars>>

Link ==
    /\ pc = "generate"
    /\ at > Len(order)
    /\ pc' = "run"
    /\ UNCHANGED <<program, orderVars, generateVars, runVars>>
-----------------------------------------------------------------------------
Call(s, m) == Append(s, [name |-> m, next |-> 0])

\* The runtime of an executable calls the initializer of the main module; in
\* other outputs every initializer is a constructor (llvm.global_ctors).  A
\* loader may run those in any order; here they run in the order of the graph.
\* An initializer calls those of its imports first and its guard stops the
\* second call, so in any other order a module still follows what it imports.
CallRoot ==
    /\ pc = "run"
    /\ calls = <<>>
    /\ root <= Len(order)
    /\ root' = root + 1
    /\ calls' = IF order[root] \in initialised /\ (program.executable => order[root] = Main)
                THEN Call(calls, order[root]) ELSE calls
    /\ UNCHANGED <<program, pc, orderVars, generateVars, guards, ran>>

\* The entry block: return at once when the guard is set, else set it.
\* Mutant: the guard is tested and never set.
TestGuardOnly ==
    /\ pc = "run"
    /\ calls # <<>>
    /\ Top(calls).next = 0
    /\ calls' = IF Top(calls).name \in guards THEN Pop(calls) ELSE Advance(calls)
    /\ UNCHANGED <<program, pc, orderVars, generateVars, root, guards, ran>>
TestGuard ==
    /\ pc = "run"
    /\ calls # <<>>
    /\ Top(calls).next = 0
    /\ IF Top(calls).name \in guards
       THEN calls' = Pop(calls) /\ guards' = guards
       ELSE calls' = Advance(calls) /\ guards' = guards \cup {Top(calls).name}
    /\ UNCHANGED <<program, pc, orderVars, generateVars, root, ran>>

\* The calls of the initializers of the imports, in their order.
CallDependency ==
    /\ pc = "run"
    /\ calls # <<>>
    /\ LET m == Top(calls).name
           k == Top(calls).next
           imports == Selected(program, m)
       IN  /\ k \in 1..Len(imports)
           /\ calls' = IF imports[k] \in initializers[m] THEN Call(Advance(calls), imports[k])
                                                        ELSE Advance(calls)
    /\ UNCHANGED <<program, pc, orderVars, generateVars, root, guards, ran>>

\* The expressions of the dynamic globals are evaluated and stored.
AssignGlobals ==
    /\ pc = "run"
    /\ calls # <<>>
    /\ Top(calls).next > Len(Selected(program, Top(calls).name))
    /\ Top(calls).next > 0
    /\ ran' = Append(ran, Top(calls).name)
    /\ calls' = Pop(calls)
    /\ UNCHANGED <<program, pc, orderVars, generateVars, root, guards>>

CallMain ==
    /\ pc = "run"
    /\ calls = <<>>
    /\ root > Len(order)
    /\ pc' = "main"
    /\ UNCHANGED <<program, orderVars, generateVars, runVars>>

Next ==
    \/ VisitPrimary \/ VisitImport \/ Visited
    \/ Generate \/ Link
    \/ CallRoot \/ TestGuard \/ CallDependency \/ AssignGlobals \/ CallMain

Spec == Init /\ [][Next]_vars
FairSpec == Spec /\ WF_vars(Next)
-----------------------------------------------------------------------------
TypeOK ==
    /\ program \in Programs
    /\ pc \in {"order", "generate", "run", "main", "failed"}
    /\ visited \in [Package -> {"unseen", "visiting", "done"}]
    /\ stack \in Seq(Frame)
    /\ order \in Seq(Package)
    /\ error \in [kind : {"none", "unknown", "circular"}, name : Package]
    /\ initializers \in [Package -> SUBSET Package]
    /\ initialised \subseteq Package
    /\ at \in Nat \ {0}
    /\ root \in Nat \ {0}
    /\ calls \in Seq(Frame)
    /\ guards \subseteq Package
    /\ ran \in Seq(Package)

\* The imports of the program by package: as scanned, as scanned in the packages
\* that have sources, and as selected.
ImportGraph == [c \in Package |-> Imports(program, c)]
KnownGraph == [c \in Package |-> IF c \in program.known THEN Imports(program, c) ELSE <<>>]
SelectedGraph == [c \in Package |-> Selected(program, c)]

\* A module is compiled after every module it imports, in any branch: the
\* front end finds the declarations of an import when it analyses a module
\* (dependency.go:26-35, incremental_frontend.go:62-116).
ImportsFirst ==
    \A i \in 1..Len(order) : \A d \in Members(Imports(program, order[i])) :
        \E k \in 1..(i - 1) : order[k] = d

\* The modules that are compiled and linked are those the primary module
\* reaches, each once (dependency.go:5-43, main.go:147).
OrderIsReach ==
    pc \in {"generate", "run", "main"} =>
        /\ Members(order) = Reach(ImportGraph, Main)
        /\ \A i, k \in 1..Len(order) : order[i] = order[k] => i = k

\* A program is rejected for a cycle only when the module named is on one that
\* the primary module reaches, and for an unknown import only when a module it
\* reaches imports it; a program that is accepted has neither
\* (dependency.go:15-31).
Cyclic(m) == \E d \in Members(Imports(program, m)) : m \in Reach(ImportGraph, d)
Reached == Reach(KnownGraph, Main)
RejectsCycles ==
    /\ error.kind = "circular" => error.name \in Reached /\ Cyclic(error.name)
    /\ error.kind = "unknown" => error.name \in Reached \ program.known
    /\ pc \in {"generate", "run", "main"} =>
          Reached \subseteq program.known /\ \A m \in Reached : ~Cyclic(m)

\* When the globals of a module are assigned, the globals of every module it
\* reaches by the imports that were kept are assigned already: no initial value
\* is computed from one that is not there yet, even through modules that have
\* no globals of their own (irgen.go:393-405, incremental_frontend.go:126-131).
Needs(m) == Reach(SelectedGraph, m) \cap program.dynamic
NeedsFirst ==
    \A i \in 1..Len(ran) : \A d \in Needs(ran[i]) \ {ran[i]} : \E k \in 1..(i - 1) : ran[k] = d

\* main runs after the globals of every module it reaches were assigned, each
\* exactly once; in a library those of every module of the library
\* (irgen.go:389-394, llvmgen.go:56-58, freestanding_runtime.go:29-32).
InitialisedOnce ==
    /\ \A i, k \in 1..Len(ran) : ran[i] = ran[k] => i = k
    /\ pc = "main" =>
          IF program.executable THEN Needs(Main) \subseteq Members(ran)
          ELSE Members(order) \cap program.dynamic \subseteq Members(ran)

\* Whatever the graph, the compiler reports an error or the program gets to main.
EndsOrRuns == <>(pc \in {"main", "failed"})
=============================================================================
