----------------------------- MODULE BuildCache -----------------------------
(***************************************************************************)
(* The qkc build driver (cmd/qkc/main.go) and the artifact cache it shares *)
(* with every other qkc process of the same configuration                  *)
(* (cmd/qkc/artifact_cache.go, build_snapshot.go, cached_snapshot.go).     *)
(*                                                                         *)
(* A build either replays a snapshot of an earlier build with the same     *)
(* input hash, or runs the front end, loads the objects the cache has,     *)
(* compiles and stores the others, links (on Linux first without libc,     *)
(* then again with the hosted runtime) and stores a snapshot.              *)
(*                                                                         *)
(* Hashes are the values they are taken of (SHA-256 is collision free).    *)
(* A file that is installed by rename is installed in one step: nobody     *)
(* reads the temporary file it is written to first.                        *)
(***************************************************************************)
EXTENDS Naturals, Sequences, FiniteSets

CONSTANTS
    Proc,       \* the qkc processes that share the cache root
    Source,     \* what buildInputHash covers: arguments, manifest, source texts
    Outside,    \* contents of the files read during lowering only (@embed)
    Runtime,    \* the name of the freestanding runtime unit
    Request,    \* keys of generic specialization requests
    Module,     \* names of modules
    Owner,      \* Owner[u]: the module that defines the template of request u
    Text,       \* the LLVM texts
    Program,    \* Program[s][o]: what the front end makes of s when it reads o
    Probing,    \* Linux x86-64 executables: try to link without libc first
    Mode,       \* Mode[s]: the warning modes somebody builds s in
    Command,    \* the ways qkc is invoked
    Fault       \* the faults that may happen

Unit == Module \cup Request \cup {Runtime}
Implementation == [unit : Unit, text : Text]

(***************************************************************************)
(* What the front end, specialization and LLVM generation produce: the     *)
(* units in link order (modules in dependency order, specializations, then *)
(* the runtime), their texts, whether the program asks for libc, whether   *)
(* its objects still refer to libc after section garbage collection, and   *)
(* whether it has warnings.  runtime[b] is the text of the runtime for a   *)
(* link with (b) or without libc.                                          *)
(***************************************************************************)
Lowering == [accepted : BOOLEAN, warns : BOOLEAN,
             order : Seq(Unit), text : [Module \cup Request -> Text],
             runtime : [BOOLEAN -> Text],
             requested : BOOLEAN, retained : BOOLEAN]

ASSUME BuildAssumption ==
    /\ Runtime \notin Module \cup Request
    /\ "blob" \notin Request
    /\ Source # {} /\ Outside # {}
    /\ Module \cap Request = {}
    /\ Owner \in [Request -> Module]
    /\ Program \in [Source -> [Outside -> Lowering]]
    /\ Probing \in BOOLEAN
    /\ Mode \in [Source -> SUBSET {"show", "off", "error"}]
    /\ Command \subseteq {"build", "check", "run", "dump"}
    /\ Fault \subseteq {"crash", "lose", "store", "hosted", "edit"}
    /\ \A s \in Source, o \in Outside :
          LET order == Program[s][o].order
          IN  /\ Len(order) > 0
              /\ \A k \in 1..Len(order) : order[k] = Runtime <=> k = Len(order)

Size(g) == Len(g.order)

\* moduleLinks of the first link: without libc while the probe is undecided.
LinksLibc(g) == g.requested /\ ~Probing
Retries(g) == g.requested /\ Probing /\ g.retained
FinalLibc(g) == LinksLibc(g) \/ Retries(g)

RuntimeFor(g, libc) == [unit |-> Runtime, text |-> g.runtime[libc]]
ImplementationHash(g, k) ==
    IF g.order[k] = Runtime
    THEN RuntimeFor(g, LinksLibc(g))
    ELSE [unit |-> g.order[k], text |-> g.text[g.order[k]]]

ModulePath(hash) == [dir |-> {hash}, file |-> "blob"]

\* The directory of a specialization is the hash of its owner, or of all the
\* program's modules when the owner is not one of them.
OwnerHash(g, u) ==
    LET modules == {ImplementationHash(g, k) : k \in {j \in 1..Size(g) : g.order[j] \in Module}}
        owners == {h \in modules : h.unit = Owner[u]}
    IN  IF owners # {} THEN owners ELSE modules
\* Mutant: the path forgets the owner.
SpecializationPathUnowned(g, u) == [dir |-> {}, file |-> u]
SpecializationPath(g, u) == [dir |-> OwnerHash(g, u), file |-> u]

ArtifactPath(g, k) ==
    IF g.order[k] \in Request
    THEN SpecializationPath(g, g.order[k])
    ELSE ModulePath(ImplementationHash(g, k))
HostedPath(g) == ModulePath(RuntimeFor(g, TRUE))

Lowered == {Program[s][o] : s \in Source, o \in Outside}
Path == UNION {{ArtifactPath(g, k) : k \in 1..Size(g)} \cup {HostedPath(g)} : g \in Lowered}
Snapshot == [paths : Seq(Path), libc : BOOLEAN, shown : BOOLEAN]

\* An executable (or library): the objects in link order and whether libc is
\* among the links.  An object is identified with the text it was compiled from.
Image == [objects : Seq(Implementation), libc : BOOLEAN]

\* What a compiler with an empty cache links for g, and where it stores it.
CleanObjects(g) ==
    [k \in 1..Size(g) |-> IF k = Size(g) /\ Retries(g) THEN RuntimeFor(g, TRUE)
                                                       ELSE ImplementationHash(g, k)]
CleanPaths(g) ==
    [k \in 1..Size(g) |-> IF k = Size(g) /\ Retries(g) THEN HostedPath(g)
                                                       ELSE ArtifactPath(g, k)]
Clean(g) == [objects |-> CleanObjects(g), libc |-> FinalLibc(g)]
-----------------------------------------------------------------------------
VARIABLES
    store,      \* store[path]: the artifact installed at path, {} when none loads
    builds,     \* builds[s]: the snapshot installed for the input hash of s, or {}
    outside,    \* the contents the embedded files have now
    proc        \* proc[p]: the state of process p

vars == <<store, builds, outside, proc>>

NoImage == [objects |-> <<>>, libc |-> FALSE]

\* pc, the request (src, cmd, mode), the entries to load or link (paths, libc),
\* whether warnings were shown, the units loaded from the cache, the position
\* in the unit loop, the object files, the content lowering read (from), the
\* contents there were since the start (seen), whether an artifact was lost
\* since the start, and the verdict with the image linked.
Idle == [pc |-> "idle", src |-> CHOOSE s \in Source : TRUE, cmd |-> "build", mode |-> "show",
         from |-> CHOOSE o \in Outside : TRUE, seen |-> {}, lost |-> FALSE,
         paths |-> <<>>, libc |-> FALSE, shown |-> FALSE, left |-> {}, cached |-> {},
         n |-> 0, objs |-> <<>>, verdict |-> "none", image |-> NoImage]

Pc == {"idle", "lookup", "validate", "materialize", "frontend", "load", "compile",
       "retry", "snapshot", "done"}
Verdict == {"none", "linked", "checked", "rejected", "unavailable"}

Process == [pc : Pc, src : Source, cmd : {"build", "check", "run", "dump"},
            mode : {"show", "off", "error"}, from : Outside, seen : SUBSET Outside,
            lost : BOOLEAN, paths : Seq(Path), libc : BOOLEAN, shown : BOOLEAN,
            left : SUBSET Nat, cached : SUBSET Nat, n : Nat,
            objs : Seq(Implementation), verdict : Verdict, image : Image]

Init ==
    /\ store = [path \in Path |-> {}]
    /\ builds = [s \in Source |-> {}]
    /\ outside \in Outside
    /\ proc = [p \in Proc |-> Idle]

Become(p, r) == proc' = [proc EXCEPT ![p] = r]
\* The process exits; what it was asked and what came of it are remembered.
Exit(p, r, verdict, image) ==
    Become(p, [Idle EXCEPT !.pc = "done", !.src = r.src, !.cmd = r.cmd, !.mode = r.mode,
                           !.seen = r.seen, !.lost = r.lost, !.shown = r.shown,
                           !.verdict = verdict, !.image = image])
Lowers(r) == Program[r.src][r.from]
UsesCache(r) == r.cmd # "dump"
-----------------------------------------------------------------------------
\* discoverSourcePackages reads every source once; both the input hash and the
\* front end use that copy.
Start(p) ==
    /\ proc[p].pc = "idle"
    /\ \E s \in Source, c \in Command : \E m \in Mode[s] :
          Become(p, [Idle EXCEPT !.pc = "lookup", !.src = s, !.cmd = c, !.mode = m,
                                 !.seen = {outside}])
    /\ UNCHANGED <<store, builds, outside>>

\* qkc run and the dump flags do not look for a snapshot.
Lookup(p) ==
    LET r == proc[p] IN
    /\ r.pc = "lookup"
    /\ \/ /\ r.cmd \in {"run", "dump"} \/ builds[r.src] = {}
          /\ Become(p, [r EXCEPT !.pc = "frontend"])
       \/ /\ r.cmd \notin {"run", "dump"}
          /\ \E snapshot \in builds[r.src] :
                Become(p, [r EXCEPT !.pc = "validate", !.paths = snapshot.paths,
                                    !.libc = snapshot.libc, !.shown = snapshot.shown])
    /\ UNCHANGED <<store, builds, outside>>

\* loadBuildSnapshot: an entry must load; a module's entry (not the runtime's,
\* the last) in a file named "blob" must hold the hash its directory names.
\* Mutant: the runtime entry is not looked at.
EntryLoadsButRuntime(r) ==
    r.n + 1 < Len(r.paths) => store[r.paths[r.n + 1]] # {}
EntryLoads(r) ==
    LET path == r.paths[r.n + 1] IN
    /\ store[path] # {}
    /\ path.file = "blob" /\ r.n + 1 < Len(r.paths) => store[path] = path.dir

\* Mutant: a broken snapshot is read again instead of being a miss.
ValidateEntryAgain(p) ==
    LET r == proc[p] IN
    /\ r.pc = "validate"
    /\ r.n < Len(r.paths)
    /\ Become(p, [r EXCEPT !.n = IF EntryLoads(r) THEN @ + 1 ELSE 0])
    /\ UNCHANGED <<store, builds, outside>>
ValidateEntry(p) ==
    LET r == proc[p] IN
    /\ r.pc = "validate"
    /\ r.n < Len(r.paths)
    /\ IF EntryLoads(r)
       THEN Become(p, [r EXCEPT !.n = @ + 1])
       ELSE Become(p, [r EXCEPT !.pc = "frontend", !.n = 0, !.paths = <<>>,
                                !.libc = FALSE, !.shown = FALSE])
    /\ UNCHANGED <<store, builds, outside>>

\* runCachedBuildSnapshot prints the stored warnings; -no-emit ends there.
Replay(p) ==
    LET r == proc[p] IN
    /\ r.pc = "validate"
    /\ r.n = Len(r.paths)
    /\ IF r.cmd = "check"
       THEN Exit(p, r, "checked", NoImage)
       ELSE Become(p, [r EXCEPT !.pc = "materialize", !.n = 0])
    /\ UNCHANGED <<store, builds, outside>>

\* materialize reads an entry again; if it is gone by now the build fails.
Materialize(p) ==
    LET r == proc[p] IN
    /\ r.pc = "materialize"
    /\ r.n < Len(r.paths)
    /\ \/ /\ store[r.paths[r.n + 1]] = {}
          /\ Exit(p, r, "unavailable", NoImage)
       \/ \E artifact \in store[r.paths[r.n + 1]] :
             Become(p, [r EXCEPT !.n = @ + 1, !.objs = Append(@, artifact)])
    /\ UNCHANGED <<store, builds, outside>>

LinkCached(p) ==
    LET r == proc[p] IN
    /\ r.pc = "materialize"
    /\ r.n = Len(r.paths)
    /\ Exit(p, r, "linked", [objects |-> r.objs, libc |-> r.libc])
    /\ UNCHANGED <<store, builds, outside>>
-----------------------------------------------------------------------------
\* The front end (which reads the embedded files), the warning policy and the
\* lowering to LLVM.
Frontend(p) ==
    LET r == proc[p]
        g == Program[r.src][outside]
    IN
    /\ r.pc = "frontend"
    /\ IF ~g.accepted \/ (g.warns /\ r.mode = "error")
       THEN Exit(p, r, "rejected", NoImage)
       ELSE Become(p, [r EXCEPT !.pc = "load", !.from = outside,
                                !.shown = g.warns /\ r.mode = "show",
                                !.libc = LinksLibc(g),
                                !.paths = [k \in 1..Size(g) |-> ArtifactPath(g, k)],
                                !.left = IF UsesCache(r) THEN 1..Size(g) ELSE {}])
    /\ UNCHANGED <<store, builds, outside>>

\* The modules and specializations are loaded in map order, the runtime last.
LoadArtifact(p) ==
    LET r == proc[p]
        g == Lowers(r)
    IN
    /\ r.pc = "load"
    /\ \E k \in r.left :
          /\ k = Size(g) => r.left = {k}
          /\ Become(p, [r EXCEPT !.left = @ \ {k},
                                 !.cached = IF ImplementationHash(g, k) \in store[r.paths[k]]
                                            THEN @ \cup {k} ELSE @])
    /\ UNCHANGED <<store, builds, outside>>

\* Mutant: the unit loop starts one short.
LoadedOffByOne(p) ==
    LET r == proc[p] IN
    /\ r.pc = "load"
    /\ r.left = {}
    /\ Become(p, [r EXCEPT !.pc = "compile", !.n = @ - 1])
    /\ UNCHANGED <<store, builds, outside>>

Loaded(p) ==
    LET r == proc[p] IN
    /\ r.pc = "load"
    /\ r.left = {}
    /\ IF r.cmd = "check"
       THEN Exit(p, r, "checked", NoImage)
       ELSE Become(p, [r EXCEPT !.pc = "compile"])
    /\ UNCHANGED <<store, builds, outside>>

\* storeCachedArtifact installs by rename; its failure is only a warning.
Install(r, path, artifact, fault) ==
    \/ UsesCache(r) /\ store' = [store EXCEPT ![path] = {artifact}]
    \/ (~UsesCache(r) \/ fault \in Fault) /\ store' = store

CompileUnit(p) ==
    LET r == proc[p]
        g == Lowers(r)
        k == r.n + 1
    IN
    /\ r.pc = "compile"
    /\ r.n < Size(g)
    /\ Become(p, [r EXCEPT !.n = k, !.objs = Append(@, ImplementationHash(g, k))])
    /\ IF k \in r.cached THEN store' = store
                         ELSE Install(r, r.paths[k], ImplementationHash(g, k), "store")
    /\ UNCHANGED <<builds, outside>>

\* The libc-free link fails exactly when live libc references are left.
LinkFresh(p) ==
    LET r == proc[p] IN
    /\ r.pc = "compile"
    /\ r.n = Size(Lowers(r))
    /\ IF Retries(Lowers(r))
       THEN Become(p, [r EXCEPT !.pc = "retry"])
       ELSE Become(p, [r EXCEPT !.pc = "snapshot", !.verdict = "linked",
                                !.image = [objects |-> r.objs, libc |-> r.libc]])
    /\ UNCHANGED <<store, builds, outside>>

\* Mutants: the freestanding runtime stays in the list of objects; the hosted
\* runtime is recorded but not stored.
RetryHostedKeepsRuntime(p) ==
    LET r == proc[p]
        g == Lowers(r)
    IN
    /\ r.pc = "retry"
    /\ store' = [store EXCEPT ![HostedPath(g)] = {RuntimeFor(g, TRUE)}]
    /\ Become(p, [r EXCEPT !.pc = "snapshot", !.verdict = "linked", !.libc = TRUE,
                           !.paths[Size(g)] = HostedPath(g),
                           !.image = [objects |-> r.objs, libc |-> TRUE]])
    /\ UNCHANGED <<builds, outside>>
RetryHostedUnstored(p) ==
    LET r == proc[p]
        g == Lowers(r)
        objects == [r.objs EXCEPT ![Len(r.objs)] = RuntimeFor(g, TRUE)]
    IN
    /\ r.pc = "retry"
    /\ Become(p, [r EXCEPT !.pc = "snapshot", !.verdict = "linked", !.libc = TRUE,
                           !.paths[Size(g)] = HostedPath(g),
                           !.image = [objects |-> objects, libc |-> TRUE]])
    /\ UNCHANGED <<store, builds, outside>>

\* The hosted runtime replaces the last object; the path recorded for the
\* runtime follows it only when the store succeeded.
RetryHosted(p) ==
    LET r == proc[p]
        g == Lowers(r)
        objects == [r.objs EXCEPT ![Len(r.objs)] = RuntimeFor(g, TRUE)]
        linked == [r EXCEPT !.pc = "snapshot", !.verdict = "linked", !.objs = objects,
                            !.libc = TRUE, !.image = [objects |-> objects, libc |-> TRUE]]
    IN
    /\ r.pc = "retry"
    /\ \/ /\ UsesCache(r)
          /\ store' = [store EXCEPT ![HostedPath(g)] = {RuntimeFor(g, TRUE)}]
          /\ Become(p, [linked EXCEPT !.paths[Size(g)] = HostedPath(g)])
       \/ /\ ~UsesCache(r) \/ "hosted" \in Fault
          /\ store' = store
          /\ Become(p, linked)
    /\ UNCHANGED <<builds, outside>>

\* Mutant: the warnings are recorded whether or not they were shown.
StoreSnapshotLoud(p) ==
    LET r == proc[p] IN
    /\ r.pc = "snapshot"
    /\ builds' = IF UsesCache(r)
                 THEN [builds EXCEPT ![r.src] =
                          {[paths |-> r.paths, libc |-> r.libc, shown |-> Lowers(r).warns]}]
                 ELSE builds
    /\ Exit(p, r, r.verdict, r.image)
    /\ UNCHANGED <<store, outside>>

\* storeSuccessfulBuildSnapshot runs after the link; its failure is ignored.
StoreSnapshot(p) ==
    LET r == proc[p] IN
    /\ r.pc = "snapshot"
    /\ \/ /\ UsesCache(r)
          /\ builds' = [builds EXCEPT ![r.src] =
                           {[paths |-> r.paths, libc |-> r.libc, shown |-> r.shown]}]
       \/ /\ ~UsesCache(r) \/ "store" \in Fault
          /\ builds' = builds
    /\ Exit(p, r, r.verdict, r.image)
    /\ UNCHANGED <<store, outside>>
-----------------------------------------------------------------------------
\* The process is killed, or a tool it calls fails and check() exits: what it
\* installed stays, what it knew is gone.
Crash(p) ==
    /\ "crash" \in Fault
    /\ proc[p].pc \notin {"idle", "done"}
    /\ Become(p, Idle)
    /\ UNCHANGED <<store, builds, outside>>

\* The shell invokes qkc again.
Retire(p) ==
    /\ proc[p].pc = "done"
    /\ Become(p, Idle)
    /\ UNCHANGED <<store, builds, outside>>

\* A file of the cache is deleted or truncated: it no longer loads.
LoseArtifact(path) ==
    /\ "lose" \in Fault
    /\ store[path] # {}
    /\ store' = [store EXCEPT ![path] = {}]
    /\ proc' = [p \in Proc |-> [proc[p] EXCEPT !.lost = proc[p].pc # "idle"]]
    /\ UNCHANGED <<builds, outside>>

LoseSnapshot(s) ==
    /\ "lose" \in Fault
    /\ builds[s] # {}
    /\ builds' = [builds EXCEPT ![s] = {}]
    /\ UNCHANGED <<store, outside, proc>>

\* Somebody writes an embedded file.
EditOutside(o) ==
    /\ "edit" \in Fault
    /\ o # outside
    /\ outside' = o
    /\ proc' = [p \in Proc |-> [proc[p] EXCEPT !.seen = IF proc[p].pc = "idle" THEN @ ELSE @ \cup {o}]]
    /\ UNCHANGED <<store, builds>>

Step(p) ==
    \/ Lookup(p) \/ ValidateEntry(p) \/ Replay(p) \/ Materialize(p) \/ LinkCached(p)
    \/ Frontend(p) \/ LoadArtifact(p) \/ Loaded(p) \/ CompileUnit(p) \/ LinkFresh(p)
    \/ RetryHosted(p) \/ StoreSnapshot(p)

Next ==
    \/ \E p \in Proc : Start(p) \/ Step(p) \/ Crash(p) \/ Retire(p)
    \/ \E path \in Path : LoseArtifact(path)
    \/ \E s \in Source : LoseSnapshot(s)
    \/ \E o \in Outside : EditOutside(o)

Spec == Init /\ [][Next]_vars
FairSpec == Spec /\ \A p \in Proc : WF_vars(Step(p))
-----------------------------------------------------------------------------
\* Every file and every process state has its type (the types of the data
\* that artifact_cache.go and main.go keep).
TypeOK ==
    /\ store \in [Path -> SUBSET Implementation]
    /\ builds \in [Source -> SUBSET Snapshot]
    /\ outside \in Outside
    /\ proc \in [Proc -> Process]

Done(p) == proc[p].pc = "done"
Lowerings(p) == {Program[proc[p].src][o] : o \in proc[p].seen}

\* What a build links is, object for object, what a compiler with an empty
\* cache links for the sources the build read and for some content the
\* embedded files had while it ran: whatever other builds stored, overwrote,
\* lost or left half done in the cache (main.go:163-186, 305-346 and
\* cached_snapshot.go:12-78 against artifact_cache.go:233-374).
OutputIsCleanBuild ==
    \A p \in Proc : proc[p].verdict = "linked" =>
        \E g \in Lowerings(p) : g.accepted /\ proc[p].image = Clean(g)

\* A replayed build stops for a missing artifact only when one disappeared
\* while it ran: a snapshot whose entries do not load is a miss, and a rename
\* by another compiler never takes an entry away (cached_snapshot.go:22-25
\* against artifact_cache.go:273-289).
FailsOnlyAfterLoss ==
    \A p \in Proc : proc[p].verdict = "unavailable" => proc[p].lost

\* The warning policy is applied to every build, replayed or not: "show" shows
\* the warnings of the program, "off" none, and under "error" a program with
\* warnings does not build (main.go:102-121 and cached_snapshot.go:13-15).
WarningModeHonoured ==
    \A p \in Proc : proc[p].verdict \in {"linked", "checked"} =>
        \E g \in Lowerings(p) :
            /\ proc[p].shown = (g.warns /\ proc[p].mode = "show")
            /\ ~(g.warns /\ proc[p].mode = "error")

\* Without faults every snapshot replays: each artifact it names was stored
\* before it, at the path it names, and nothing takes it away again
\* (main.go:337-346, 426-449, build_snapshot.go:31-45).
SnapshotsReplay ==
    \A s \in Source : \A snapshot \in builds[s] :
        \A k \in 1..Len(snapshot.paths) :
            /\ store[snapshot.paths[k]] # {}
            /\ snapshot.paths[k].file = "blob" => store[snapshot.paths[k]] = snapshot.paths[k].dir

\* Every build that is started ends, by a link, a diagnostic or a failure:
\* no two compilers wait for each other or undo each other's work for ever.
BuildsEnd == \A p \in Proc : proc[p].pc = "lookup" ~> proc[p].pc = "done"
-----------------------------------------------------------------------------
\* The refinement mapping: what the invoker of each process sees.
Invocation ==
    {a \in [src : Source, cmd : Command, mode : {"show", "off", "error"}] : a.mode \in Mode[a.src]}
RequestOf(r) == [src |-> r.src, cmd |-> r.cmd, mode |-> r.mode]
AnswerOf(r) == [kind |-> r.verdict, image |-> r.image, shown |-> r.shown]

CleanAnswer(a, g) ==
    IF ~g.accepted \/ (g.warns /\ a.mode = "error")
    THEN [kind |-> "rejected", image |-> NoImage, shown |-> FALSE]
    ELSE IF a.cmd = "check"
    THEN [kind |-> "checked", image |-> NoImage, shown |-> g.warns /\ a.mode = "show"]
    ELSE [kind |-> "linked", image |-> Clean(g), shown |-> g.warns /\ a.mode = "show"]
GivesUp == [kind : {"unavailable"}, image : {NoImage}, shown : BOOLEAN]

Promise == INSTANCE BuildPromise WITH
    Asked <- Invocation,
    Answers <- [a \in Invocation |-> GivesUp \cup {CleanAnswer(a, Program[a.src][o]) : o \in Outside}],
    asked <- [p \in Proc |-> IF proc[p].pc = "idle" THEN {} ELSE {RequestOf(proc[p])}],
    answer <- [p \in Proc |-> IF proc[p].verdict = "none" THEN {} ELSE {AnswerOf(proc[p])}]

\* Whatever the cache holds and whoever else uses it, a process answers like
\* a compiler with an empty cache, once, or gives up (all of main.go).
KeepsPromise == Promise!Spec
=============================================================================
