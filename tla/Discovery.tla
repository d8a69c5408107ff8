------------------------------ MODULE Discovery ------------------------------
(***************************************************************************)
(* Source discovery (cmd/qkc/source.go): from the package on the command   *)
(* line to the packages it needs, each in the directory its import means.  *)
(* Imports are resolved in the library they come from, then through the    *)
(* mounts of qk.mod, then in the search roots.                             *)
(*                                                                         *)
(* Import paths, module paths and directories are sequences of names; the  *)
(* empty path stands for "".                                               *)
(***************************************************************************)
EXTENDS Naturals, Sequences

CONSTANTS
    Name,       \* the components of paths
    Workspace   \* the projects and libraries on disk

Path == Seq(Name)
NoPath == <<>>
MainModule == <<"main">>
StdModule == <<"std">>

Members(s) == {s[i] : i \in 1..Len(s)}
Under(path, base) == Len(base) <= Len(path) /\ SubSeq(path, 1, Len(base)) = base
Below(path, base) == SubSeq(path, Len(base) + 1, Len(path))
IsStd(module) == Under(module, StdModule)

\* A line of qk.mod. "sources" mounts a collection of libraries, "source" the
\* library `base` at exactly `prefix`; `keep` is the installed vendor tree, whose
\* modules keep the prefix.
Mount == [kind : {"collection", "exact"}, prefix : Path, dir : Path, base : Path, keep : BOOLEAN]

\* parseProjectManifest: std and main are reserved, an exact mount is named for the
\* last component of its prefix, and only the installed tree keeps a prefix.
Permitted(mount) ==
    /\ mount.prefix \notin {NoPath, MainModule} /\ ~IsStd(mount.prefix) /\ ~mount.keep
    /\ mount.base = IF mount.kind = "exact" THEN <<mount.prefix[Len(mount.prefix)]>> ELSE NoPath

\* An exact mount may be repeated, not moved.
Consistent(mounts) ==
    \A j, k \in DOMAIN mounts :
        (mounts[j].kind = "exact" /\ mounts[k].kind = "exact" /\ mounts[j].prefix = mounts[k].prefix)
            => mounts[j].dir = mounts[k].dir

\* The .qk files of a directory: the modules they declare (none when there is no
\* file, NoPath for a file that declares none) and their imports in file order.
Sources == [declared : SUBSET Path, imports : Seq(Path)]
NoSources == [declared |-> {}, imports |-> <<>>]

\* main: the package to build, in directory `dir` (`single`: only one file of it);
\* library: the installed library root, if any; vendor: it has a directory vendor.
Workspaces ==
    [main : Path, dir : Path, root : Sources, single : BOOLEAN, implicitStd : BOOLEAN,
     tree : UNION {[D -> Sources] : D \in SUBSET Path},
     mounts : Seq(Mount), roots : Seq(Path), library : Path, vendor : BOOLEAN]

ASSUME WorkspaceAssumption ==
    /\ {"main", "std", "vendor"} \subseteq Name
    /\ \A w \in Workspace :
        /\ w.main \in Path \ {NoPath}
        /\ w.dir \in Path /\ w.library \in Path
        /\ w.root.declared \subseteq Path /\ w.root.imports \in Seq(Path)
        /\ w.single \in BOOLEAN /\ w.implicitStd \in BOOLEAN /\ w.vendor \in BOOLEAN
        /\ \A d \in DOMAIN w.tree :
              /\ d \in Path
              /\ w.tree[d].declared \subseteq Path /\ w.tree[d].imports \in Seq(Path)
        /\ w.mounts \in Seq(Mount) /\ w.roots \in Seq(Path)
        /\ \A k \in DOMAIN w.mounts : Permitted(w.mounts[k])
        /\ Consistent(w.mounts)
        /\ w.single \/ w.root = (IF w.dir \in DOMAIN w.tree THEN w.tree[w.dir] ELSE NoSources)

FilesIn(w, dir) == IF dir \in DOMAIN w.tree THEN w.tree[dir] ELSE NoSources
HasFiles(w, dir) == FilesIn(w, dir).declared # {}
-----------------------------------------------------------------------------
(***************************************************************************)
(* Where an import is found.                                               *)
(***************************************************************************)
VendorMount(w) == [kind |-> "collection", prefix |-> <<"vendor">>,
                   dir |-> w.library \o <<"vendor">>, base |-> NoPath, keep |-> TRUE]
Mounts(w) == IF w.vendor THEN <<VendorMount(w)>> \o w.mounts ELSE w.mounts

Located(dir, module, mount) ==
    [kind |-> "found", dir |-> dir, module |-> module, mount |-> mount]
Missing == [kind |-> "missing", dir |-> NoPath, module |-> NoPath, mount |-> 0]
Ambiguous == [kind |-> "ambiguous", dir |-> NoPath, module |-> NoPath, mount |-> 0]

\* resolveMountedImport: the import under the visible prefix of mount k.
Mounted(w, k, import) ==
    LET mount == Mounts(w)[k]
        suffix == Below(import, mount.prefix)
        dir == mount.dir \o suffix
        module == IF mount.kind = "exact" THEN mount.base \o suffix
                  ELSE IF mount.keep THEN import ELSE suffix
    IN  IF Under(import, mount.prefix) /\ HasFiles(w, dir)
        THEN Located(dir, module, k) ELSE Missing

\* resolveWithinMount: the import by module path, from a package of mount k.
Within(w, k, import) ==
    LET mount == Mounts(w)[k]
        base == IF mount.kind = "collection" /\ mount.keep THEN mount.prefix ELSE mount.base
        inCollection == mount.kind = "collection" /\ ~mount.keep
        dir == mount.dir \o IF inCollection THEN import ELSE Below(import, base)
    IN  IF (inCollection \/ Under(import, base)) /\ HasFiles(w, dir)
        THEN Located(dir, import, k) ELSE Missing

\* Mounts that lead to one directory and module agree; the last one is kept.
Agree(locations) ==
    LET found == locations \ {Missing}
    IN  IF found = {} THEN Missing
        ELSE IF \E x, y \in found : x.dir # y.dir \/ x.module # y.module THEN Ambiguous
        ELSE CHOOSE x \in found : \A y \in found : y.mount <= x.mount

\* A library of a collection sees the collections merged under the same prefix.
Peers(w, k) ==
    LET mount == Mounts(w)[k] IN
    IF mount.kind = "collection" /\ ~mount.keep
    THEN {j \in DOMAIN Mounts(w) : /\ Mounts(w)[j].kind = "collection" /\ ~Mounts(w)[j].keep
                                   /\ Mounts(w)[j].prefix = mount.prefix}
    ELSE {k}

FromOrigin(w, r) ==
    IF r.origin = 0 THEN Missing ELSE Agree({Within(w, k, r.import) : k \in Peers(w, r.origin)})
FromMounts(w, r) == Agree({Mounted(w, k, r.import) : k \in DOMAIN Mounts(w)})

\* The first search root that has the module.
Sought(r) == IF r.module = NoPath THEN r.import ELSE r.module
FromRoots(w, module) ==
    LET having == {i \in DOMAIN w.roots : HasFiles(w, w.roots[i] \o module)}
        first == CHOOSE i \in having : \A j \in having : i <= j
    IN  IF having = {} THEN Missing ELSE Located(w.roots[first] \o module, module, 0)

\* resolvePackageLocation.
Locate(w, r) ==
    LET near == FromOrigin(w, r)
        visible == FromMounts(w, r)
    IN  IF near # Missing THEN near
        ELSE IF visible # Missing THEN visible ELSE FromRoots(w, Sought(r))

\* The module an import stands for.
Target(r, location) ==
    LET module == IF location = Missing THEN r.module ELSE location.module
    IN  IF module = NoPath THEN r.import ELSE module

Request(importer, import, origin) ==
    [import |-> import, module |-> NoPath, importer |-> importer, origin |-> origin]
\* Mutant: the request forgets which library it comes from.
ChildForgetful(w, r) == [r EXCEPT !.module = Target(r, Locate(w, r)), !.origin = 0]
\* An import of a loaded package is asked for by the module a first lookup gave.
Child(w, r) == [r EXCEPT !.module = Target(r, Locate(w, r))]
-----------------------------------------------------------------------------
VARIABLES
    workspace,      \* what is on disk, given
    pc,             \* "begin", "resolve", "done" or "failed"
    error,          \* why discovery failed
    queue,          \* the requests, first come first served
    seen,           \* the modules that were asked for
    directories,    \* where each module was found
    packages,       \* the packages loaded, in that order
    resolutions     \* the module of each import of each package

vars == <<workspace, pc, error, queue, seen, directories, packages, resolutions>>

Put(f, k, v) == [x \in DOMAIN f \cup {k} |-> IF x = k THEN v ELSE f[x]]
Package(module, dir, origin, files) ==
    [module |-> module, dir |-> dir, origin |-> origin, imports |-> files.imports]
Loaded == {packages[i].module : i \in 1..Len(packages)}

Init ==
    /\ workspace \in Workspace
    /\ pc = "begin"
    /\ error = "none"
    /\ queue = <<>>
    /\ seen = {}
    /\ directories = <<>>
    /\ packages = <<>>
    /\ resolutions = <<>>

Fail(why) ==
    /\ pc' = "failed"
    /\ error' = why
    /\ UNCHANGED <<workspace, queue, seen, directories, packages, resolutions>>

\* inspectPackage: all files declare the one module.
Declares(files, module) == files.declared = {module} /\ module # NoPath

\* The package on the command line: a directory is main or its own path.
RootDeclares(w, module) ==
    /\ Declares(w.root, module)
    /\ w.single \/ w.main = <<".">> \/ module \in {MainModule, w.main}

RejectRoot ==
    /\ pc = "begin"
    /\ ~\E module \in workspace.root.declared : RootDeclares(workspace, module)
    /\ Fail("root")

Begin ==
    /\ pc = "begin"
    /\ \E module \in workspace.root.declared :
        LET w == workspace
            requests == [i \in 1..Len(w.root.imports) |-> Request(w.main, w.root.imports[i], 0)]
            std == [Request(w.main, StdModule, 0) EXCEPT !.module = StdModule]
        IN  /\ RootDeclares(w, module)
            /\ queue' = IF w.implicitStd /\ ~IsStd(module) THEN Append(requests, std) ELSE requests
            /\ seen' = {w.main}
            /\ directories' = Put(<<>>, w.main, w.dir)
            /\ packages' = <<Package(w.main, w.dir, 0, w.root)>>
    /\ pc' = "resolve"
    /\ UNCHANGED <<workspace, error, resolutions>>
-----------------------------------------------------------------------------
(***************************************************************************)
(* One request: `at` is where its import was found.                        *)
(***************************************************************************)
\* Mutant: what was found first is kept without a word.
ConflictIgnored(r, at) == FALSE
Conflict(r, at) ==
    LET module == Target(r, at) IN
    at # Missing /\ module \in DOMAIN directories /\ directories[module] # at.dir

\* Mutant: the request stays in the queue.
RecordAgain(r, at) ==
    LET module == Target(r, at) IN
    /\ queue' = queue
    /\ directories' = IF at = Missing THEN directories ELSE Put(directories, module, at.dir)
Record(r, at) ==
    LET module == Target(r, at) IN
    /\ queue' = Tail(queue)
    /\ directories' = IF at = Missing THEN directories ELSE Put(directories, module, at.dir)

RejectAmbiguous(r, at) ==
    /\ at = Ambiguous
    /\ Fail("ambiguous")

RejectConflict(r, at) ==
    /\ at # Ambiguous
    /\ Conflict(r, at)
    /\ Fail("conflict")

\* The module was asked for before, and loaded unless it was not found.
Repeat(r, at) ==
    /\ at # Ambiguous /\ ~Conflict(r, at)
    /\ Target(r, at) \in seen
    /\ Record(r, at)
    /\ resolutions' = Put(resolutions, <<r.importer, r.import>>, Target(r, at))
    /\ UNCHANGED <<workspace, pc, error, seen, packages>>

\* Left for the module graph to report.
NotFound(r, at) ==
    /\ at = Missing
    /\ Target(r, at) \notin seen
    /\ Record(r, at)
    /\ seen' = seen \cup {Target(r, at)}
    /\ resolutions' = Put(resolutions, <<r.importer, r.import>>, Target(r, at))
    /\ UNCHANGED <<workspace, pc, error, packages>>

\* Mutant: a module that was asked for before is loaded once more.
NewAgain(r, at) == at.kind = "found" /\ ~Conflict(r, at)
New(r, at) == at.kind = "found" /\ ~Conflict(r, at) /\ Target(r, at) \notin seen
Acceptable(module, files) == Declares(files, module) /\ module # MainModule

RejectPackage(r, at) ==
    /\ New(r, at)
    /\ ~Acceptable(Target(r, at), FilesIn(workspace, at.dir))
    /\ Fail("package")

\* Mutant: a library looks its imports up as the project does.
ChildrenUnrooted(r, at) ==
    LET imports == FilesIn(workspace, at.dir).imports IN
    [i \in 1..Len(imports) |-> Request(Target(r, at), imports[i], 0)]
Children(r, at) ==
    LET imports == FilesIn(workspace, at.dir).imports IN
    [i \in 1..Len(imports) |-> Request(Target(r, at), imports[i], at.mount)]

RejectImport(r, at) ==
    /\ New(r, at)
    /\ Acceptable(Target(r, at), FilesIn(workspace, at.dir))
    /\ \E c \in Members(Children(r, at)) : Locate(workspace, c) = Ambiguous
    /\ Fail("ambiguous")

Load(r, at) ==
    LET module == Target(r, at)
        files == FilesIn(workspace, at.dir)
        recorded == Put(resolutions, <<r.importer, r.import>>, module)
        kept == {x \in DOMAIN recorded : x[1] # module}
    IN  /\ New(r, at)
        /\ Acceptable(module, files)
        /\ \A c \in Members(Children(r, at)) : Locate(workspace, c) # Ambiguous
        /\ seen' = seen \cup {module}
        /\ directories' = Put(directories, module, at.dir)
        /\ packages' = Append(packages, Package(module, at.dir, at.mount, files))
        /\ \E children \in {[i \in 1..Len(files.imports) |-> Child(workspace, Children(r, at)[i])]} :
            /\ queue' = Tail(queue) \o children
            /\ resolutions' =
                  [x \in kept \cup {<<module, c.import>> : c \in Members(children)} |->
                      IF x \in kept THEN recorded[x]
                      ELSE (CHOOSE c \in Members(children) : c.import = x[2]).module]
        /\ UNCHANGED <<workspace, pc, error>>

Take ==
    /\ pc = "resolve"
    /\ queue # <<>>
    /\ \E r \in {Head(queue)} : \E at \in {Locate(workspace, r)} :
        \/ RejectAmbiguous(r, at)
        \/ RejectConflict(r, at)
        \/ Repeat(r, at)
        \/ NotFound(r, at)
        \/ RejectPackage(r, at)
        \/ RejectImport(r, at)
        \/ Load(r, at)

Finish ==
    /\ pc = "resolve"
    /\ queue = <<>>
    /\ pc' = "done"
    /\ UNCHANGED <<workspace, error, queue, seen, directories, packages, resolutions>>

Next == RejectRoot \/ Begin \/ Take \/ Finish

Spec == Init /\ [][Next]_vars
FairSpec == Spec /\ WF_vars(Next)
-----------------------------------------------------------------------------
\* What an import of a loaded package means, from the disk alone.
Meaning(p, import) == Locate(workspace, Request(p.module, import, p.origin))
Meant(p, import) == Target(Request(p.module, import, p.origin), Meaning(p, import))

\* When discovery ends well no import is ambiguous and no two packages find one
\* module in two directories, whichever was asked for first (source.go:192-199,
\* 283-290; docs/guide.md:1345).
OneDirectory ==
    pc = "done" =>
        \A p, q \in Members(packages) :
            \A x \in Members(p.imports), y \in Members(q.imports) :
                /\ Meaning(p, x) # Ambiguous
                /\ (Meaning(p, x) # Missing /\ Meaning(q, y) # Missing /\ Meant(p, x) = Meant(q, y))
                       => Meaning(p, x).dir = Meaning(q, y).dir

\* The module graph knows every import: discovery did not fail, nor will the
\* walk of the graph find an unknown package.
Accepted == pc = "done" /\ \A x \in DOMAIN resolutions : resolutions[x] \in Loaded

\* Every import of an accepted program is resolved to what it means in the
\* library it comes from, and loaded from the directory it means, although each
\* is looked up twice and most share a queue (source.go:191, 229-243).
LoadsImports ==
    Accepted =>
        \A p \in Members(packages) : \A x \in Members(p.imports) :
            /\ <<p.module, x>> \in DOMAIN resolutions
            /\ resolutions[<<p.module, x>>] = Meant(p, x)
            /\ Meaning(p, x) # Missing =>
                  \E q \in Members(packages) : q.module = Meant(p, x) /\ q.dir = Meaning(p, x).dir

\* A package is loaded once and, main and std apart, because a package loaded
\* before it imports it (source.go:201-204, 229-243; docs/guide.md:1321).
LoadsOnlyImports ==
    \A i \in 2..Len(packages) :
        /\ \A j \in 1..(i - 1) : packages[j].module # packages[i].module
        /\ packages[i].module # StdModule =>
              \E j \in 1..(i - 1) : \E x \in Members(packages[j].imports) :
                  /\ <<packages[j].module, x>> \in DOMAIN resolutions
                  /\ resolutions[<<packages[j].module, x>>] = packages[i].module

\* An import that was resolved is never resolved to something else: the lookup
\* that queues it and the one that takes it agree (source.go:191, 228, 241).
ResolutionsStable ==
    [][\A x \in DOMAIN resolutions : x \in DOMAIN resolutions' /\ resolutions'[x] = resolutions[x]]_vars

\* Discovery ends, also when packages import each other (source.go:201-204).
Ends == <>(pc \in {"done", "failed"})
=============================================================================
