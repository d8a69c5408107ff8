---------------------------- MODULE ReplayProofs ----------------------------
(***************************************************************************)
(* Theorems about what a snapshot names: it can be replayed, and a replay  *)
(* that fails has lost a file meanwhile. For all processes, programs and   *)
(* orders of their steps.                                                  *)
(***************************************************************************)
EXTENDS BuildCacheProofs

\* Nothing takes an entry of the cache away but the loss of a file.
Grows(before, after) == \A path \in Path : before[path] # {} => after[path] # {}

LEMMA InstallGrows ==
    ASSUME TypeOK, NEW path \in Path, NEW artifact,
           store' = store \/ store' = [store EXCEPT ![path] = {artifact}]
    PROVE  Grows(store, store')
  BY DEF TypeOK, Grows

LEMMA HostedPathType ==
    ASSUME TypeOK, NEW p \in Proc
    PROVE  HostedPath(Lowers(proc[p])) \in Path /\ Lowers(proc[p]) \in Lowered
<1>1. proc[p].src \in Source /\ proc[p].from \in Outside
  BY DEF TypeOK, Process
<1>2. Lowers(proc[p]) \in Lowered
  BY <1>1, LoweringFacts DEF Lowers
<1>. QED
  BY <1>2, PathType
-----------------------------------------------------------------------------
(* Entries are checked before they are read.                                *)

\* What was checked is there, unless something was lost since the start.
Kept(r, files) ==
    /\ r.pc = "idle" => r.verdict = "none"
    /\ r.pc = "lookup" => r.n = 0
    /\ r.pc = "validate" =>
          r.n \in 0..Len(r.paths) /\ (r.lost \/ \A k \in 1..r.n : files[r.paths[k]] # {})
    /\ r.pc = "materialize" => r.lost \/ \A k \in 1..Len(r.paths) : files[r.paths[k]] # {}
    /\ r.verdict = "unavailable" => r.lost
ProcessesKept == \A p \in Proc : Kept(proc[p], store)

LEMMA GrowsKept ==
    ASSUME NEW r \in Process, NEW before, NEW after, Grows(before, after), Kept(r, before)
    PROVE  Kept(r, after)
<1>1. r.paths \in Seq(Path) /\ r.n \in Nat
  BY DEF Process
<1>2. \A k \in 1..Len(r.paths) : r.paths[k] \in Path
  BY <1>1
<1>3. r.pc = "validate" => 1..r.n \subseteq 1..Len(r.paths)
  BY <1>1 DEF Kept
<1>. QED
  BY <1>2, <1>3 DEF Kept, Grows

LEMMA BecomeKept ==
    ASSUME TypeOK, ProcessesKept, Grows(store, store'), NEW p \in Proc, NEW x, Become(p, x), Kept(x, store')
    PROVE  ProcessesKept'
<1>. SUFFICES ASSUME NEW q \in Proc PROVE Kept(proc'[q], store')
  BY DEF ProcessesKept
<1>1. CASE q = p
  BY <1>1 DEF Become, TypeOK
<1>2. CASE q # p
  <2>1. proc'[q] = proc[q] /\ proc[q] \in Process /\ Kept(proc[q], store)
    BY <1>2 DEF Become, TypeOK, ProcessesKept
  <2>. QED
    BY <2>1, GrowsKept
<1>. QED
  BY <1>1, <1>2

\* A process that neither checks nor replays a snapshot.
LEMMA ElsewhereKept ==
    ASSUME TypeOK, ProcessesKept, Grows(store, store'), NEW p \in Proc, NEW x, Become(p, x),
           x.pc \notin {"idle", "lookup", "validate", "materialize"},
           x.verdict = "unavailable" => x.lost
    PROVE  ProcessesKept'
<1>1. Kept(x, store')
  BY DEF Kept
<1>. QED
  BY <1>1, BecomeKept

LEMMA ExitKept ==
    ASSUME TypeOK, ProcessesKept, Grows(store, store'), NEW p \in Proc, NEW verdict, NEW image,
           Exit(p, proc[p], verdict, image), verdict = "unavailable" => proc[p].lost
    PROVE  ProcessesKept'
<1> DEFINE r == proc[p]
           x == [Idle EXCEPT !.pc = "done", !.src = r.src, !.cmd = r.cmd, !.mode = r.mode,
                             !.seen = r.seen, !.lost = r.lost, !.shown = r.shown,
                             !.verdict = verdict, !.image = image]
<1>1. x.pc = "done" /\ x.verdict = verdict /\ x.lost = r.lost
  BY DEF Idle
<1>2. Become(p, x)
  BY DEF Exit
<1>. HIDE DEF x
<1>. QED
  BY <1>1, <1>2, ElsewhereKept

\* The entries are checked one by one and then all read.
LEMMA ReplayKept ==
    ASSUME TypeOK, ProcessesKept, NEW p \in Proc,
           Start(p) \/ Lookup(p) \/ ValidateEntry(p) \/ Replay(p) \/ Materialize(p) \/ LinkCached(p)
    PROVE  ProcessesKept'
<1> DEFINE r == proc[p]
<1>1. store' = store
  BY DEF Start, Lookup, ValidateEntry, Replay, Materialize, LinkCached
<1>2. /\ r \in Process /\ Kept(r, store) /\ Grows(store, store')
      /\ r.paths \in Seq(Path) /\ r.n \in Nat /\ Len(r.paths) \in Nat
  <2>1. r \in Process /\ Kept(r, store) /\ Grows(store, store')
    BY <1>1 DEF TypeOK, ProcessesKept, Grows
  <2>. QED
    BY <2>1 DEF Process
<1>3. CASE Start(p)
  <2>0. PICK s \in Source, c \in Command :
           \E m \in Mode[s] :
              Become(p, [Idle EXCEPT !.pc = "lookup", !.src = s, !.cmd = c, !.mode = m, !.seen = {outside}])
    BY <1>3 DEF Start
  <2>1. PICK m \in Mode[s] :
           Become(p, [Idle EXCEPT !.pc = "lookup", !.src = s, !.cmd = c, !.mode = m, !.seen = {outside}])
    BY <2>0
  <2> DEFINE x == [Idle EXCEPT !.pc = "lookup", !.src = s, !.cmd = c, !.mode = m, !.seen = {outside}]
  <2>2. x.pc = "lookup" /\ x.n = 0 /\ x.verdict = "none"
    BY DEF Idle
  <2>3. Kept(x, store')
    <3>. HIDE DEF x
    <3>. QED
      BY <2>2 DEF Kept
  <2>. QED
    BY <1>2, <2>1, <2>3, BecomeKept
<1>4. CASE Lookup(p)
  <2>1. r.pc = "lookup" /\ r.n = 0
    BY <1>2, <1>4 DEF Lookup, Kept
  <2>2. ASSUME Become(p, [r EXCEPT !.pc = "frontend"]) PROVE ProcessesKept'
    <3> DEFINE x == [r EXCEPT !.pc = "frontend"]
    <3>1. x.pc = "frontend" /\ x.verdict = r.verdict /\ x.lost = r.lost
      BY <1>2 DEF Process
    <3>. HIDE DEF x
    <3>2. Become(p, x)
      BY <2>2 DEF x
    <3>. QED
      BY <1>2, <3>1, <3>2, ElsewhereKept DEF Kept
  <2>3. ASSUME NEW t \in builds[r.src],
               Become(p, [r EXCEPT !.pc = "validate", !.paths = t.paths, !.libc = t.libc, !.shown = t.shown])
        PROVE  ProcessesKept'
    <3> DEFINE x == [r EXCEPT !.pc = "validate", !.paths = t.paths, !.libc = t.libc, !.shown = t.shown]
    <3>1. /\ x.pc = "validate" /\ x.verdict = r.verdict /\ x.lost = r.lost /\ x.n = 0 /\ x.paths = t.paths
      BY <1>2, <2>1 DEF Process
    <3>2. t.paths \in Seq(Path)
      BY <1>2 DEF TypeOK, Process, Snapshot
    <3>3. Kept(x, store')
      <4>1. 0 \in 0..Len(x.paths) /\ 1..0 = {}
        BY <3>1, <3>2
      <4>. HIDE DEF x
      <4>. QED
        BY <1>2, <3>1, <4>1 DEF Kept
    <3>. QED
      BY <1>2, <2>3, <3>3, BecomeKept
  <2>. QED
    BY <1>4, <2>2, <2>3 DEF Lookup
<1>5. CASE ValidateEntry(p)
  <2>1. r.pc = "validate" /\ r.n < Len(r.paths) /\ (r.lost \/ \A k \in 1..r.n : store[r.paths[k]] # {})
    BY <1>2, <1>5 DEF ValidateEntry, Kept
  <2>2. ASSUME EntryLoads(r), Become(p, [r EXCEPT !.n = @ + 1]) PROVE ProcessesKept'
    <3> DEFINE x == [r EXCEPT !.n = @ + 1]
    <3>1. /\ x.pc = "validate" /\ x.verdict = r.verdict /\ x.lost = r.lost
          /\ x.n = r.n + 1 /\ x.paths = r.paths
      BY <1>2, <2>1 DEF Process
    <3>2. store[r.paths[r.n + 1]] # {}
      BY <2>2 DEF EntryLoads
    <3>3. r.n + 1 \in 0..Len(r.paths) /\ \A k \in 1..(r.n + 1) : k \in 1..r.n \/ k = r.n + 1
      BY <1>2, <2>1
    <3>4. Kept(x, store')
      <4>. HIDE DEF x, r
      <4>. QED
        BY <1>2, <1>1, <2>1, <3>1, <3>2, <3>3 DEF Kept
    <3>. QED
      BY <1>2, <2>2, <3>4, BecomeKept
  <2>3. ASSUME Become(p, [r EXCEPT !.pc = "frontend", !.n = 0, !.paths = <<>>, !.libc = FALSE, !.shown = FALSE])
        PROVE  ProcessesKept'
    <3> DEFINE x == [r EXCEPT !.pc = "frontend", !.n = 0, !.paths = <<>>, !.libc = FALSE, !.shown = FALSE]
    <3>1. x.pc = "frontend" /\ x.verdict = r.verdict /\ x.lost = r.lost
      BY <1>2 DEF Process
    <3>2. Become(p, x)
      BY <2>3
    <3>. HIDE DEF x
    <3>. QED
      BY <1>2, <3>1, <3>2, ElsewhereKept DEF Kept
  <2>. QED
    BY <1>5, <2>2, <2>3 DEF ValidateEntry
<1>6. CASE Replay(p)
  <2>1. r.pc = "validate" /\ r.n = Len(r.paths) /\ (r.lost \/ \A k \in 1..Len(r.paths) : store[r.paths[k]] # {})
    BY <1>2, <1>6 DEF Replay, Kept
  <2>2. ASSUME Exit(p, r, "checked", NoImage) PROVE ProcessesKept'
    BY <1>2, <2>2, ExitKept
  <2>3. ASSUME Become(p, [r EXCEPT !.pc = "materialize", !.n = 0]) PROVE ProcessesKept'
    <3> DEFINE x == [r EXCEPT !.pc = "materialize", !.n = 0]
    <3>1. x.pc = "materialize" /\ x.verdict = r.verdict /\ x.lost = r.lost /\ x.paths = r.paths
      BY <1>2 DEF Process
    <3>2. Kept(x, store')
      <4>. HIDE DEF x, r
      <4>. QED
        BY <1>2, <1>1, <2>1, <3>1 DEF Kept
    <3>. QED
      BY <1>2, <2>3, <3>2, BecomeKept
  <2>. QED
    BY <1>6, <2>2, <2>3 DEF Replay
<1>7. CASE Materialize(p)
  <2>1. /\ r.pc = "materialize" /\ r.n < Len(r.paths)
        /\ r.lost \/ \A k \in 1..Len(r.paths) : store[r.paths[k]] # {}
    BY <1>2, <1>7 DEF Materialize, Kept
  <2>2. r.n + 1 \in 1..Len(r.paths)
    BY <1>2, <2>1
  <2>3. ASSUME store[r.paths[r.n + 1]] = {}, Exit(p, r, "unavailable", NoImage) PROVE ProcessesKept'
    <3>1. r.lost
      BY <2>1, <2>2, <2>3
    <3>. QED
      BY <1>2, <2>3, <3>1, ExitKept
  <2>4. ASSUME NEW a, Become(p, [r EXCEPT !.n = @ + 1, !.objs = Append(@, a)]) PROVE ProcessesKept'
    <3> DEFINE x == [r EXCEPT !.n = @ + 1, !.objs = Append(@, a)]
    <3>1. x.pc = "materialize" /\ x.verdict = r.verdict /\ x.lost = r.lost /\ x.paths = r.paths
      BY <1>2, <2>1 DEF Process
    <3>2. Kept(x, store')
      <4>. HIDE DEF x, r
      <4>. QED
        BY <1>2, <1>1, <2>1, <3>1 DEF Kept
    <3>. QED
      BY <1>2, <2>4, <3>2, BecomeKept
  <2>. QED
    BY <1>7, <2>3, <2>4 DEF Materialize
<1>8. CASE LinkCached(p)
  <2> DEFINE image == [objects |-> r.objs, libc |-> r.libc]
  <2>1. Exit(p, r, "linked", image) /\ "linked" # "unavailable"
    BY <1>8 DEF LinkCached
  <2>. HIDE DEF image
  <2>. QED
    BY <1>2, <2>1, ExitKept
<1>. QED
  BY <1>3, <1>4, <1>5, <1>6, <1>7, <1>8

\* A build by the front end adds to the cache and never replays.
LEMMA BuildKept ==
    ASSUME TypeOK, ProcessesKept, NEW p \in Proc,
           Frontend(p) \/ LoadArtifact(p) \/ Loaded(p) \/ CompileUnit(p) \/ LinkFresh(p) \/ RetryHosted(p) \/ StoreSnapshot(p)
    PROVE  Grows(store, store') /\ ProcessesKept'
<1> DEFINE r == proc[p]
<1>1. r \in Process /\ Kept(r, store) /\ r.paths \in Seq(Path) /\ r.n \in Nat
  BY DEF TypeOK, ProcessesKept, Process
<1>2. Grows(store, store')
  <2>1. CASE CompileUnit(p)
    <3>1. \/ store' = store
          \/ store' = [store EXCEPT ![r.paths[r.n + 1]] = {ImplementationHash(Lowers(r), r.n + 1)}]
      BY <2>1 DEF CompileUnit, Install
    <3>. QED
      BY <3>1 DEF TypeOK, Grows
  <2>2. CASE RetryHosted(p)
    <3>1. store' = store \/ store' = [store EXCEPT ![HostedPath(Lowers(r))] = {RuntimeFor(Lowers(r), TRUE)}]
      BY <2>2 DEF RetryHosted
    <3>. QED
      BY <3>1 DEF TypeOK, Grows
  <2>. QED
    BY <2>1, <2>2 DEF Frontend, LoadArtifact, Loaded, LinkFresh, StoreSnapshot, Grows
<1>3. ASSUME NEW x, Become(p, x), x.pc \in {"load", "compile", "retry", "snapshot"},
             x.lost = r.lost, x.verdict \in {r.verdict, "linked"}
      PROVE  ProcessesKept'
  BY <1>1, <1>2, <1>3, ElsewhereKept DEF Kept
<1>4. ASSUME NEW verdict \in {"rejected", "checked", r.verdict}, NEW image, Exit(p, r, verdict, image) PROVE ProcessesKept'
  BY <1>1, <1>2, <1>4, ExitKept DEF Kept
<1>5. CASE Frontend(p)
  <2> DEFINE h == Program[r.src][outside]
             left == IF UsesCache(r) THEN 1..Size(h) ELSE {}
             paths == [k \in 1..Size(h) |-> ArtifactPath(h, k)]
             x == [r EXCEPT !.pc = "load", !.from = outside, !.shown = h.warns /\ r.mode = "show",
                            !.libc = LinksLibc(h), !.paths = paths, !.left = left]
  <2>1. x.pc = "load" /\ x.lost = r.lost /\ x.verdict = r.verdict
    <3>. HIDE DEF h, left, paths
    <3>. QED
      BY <1>1 DEF Process
  <2>2. Become(p, x) \/ Exit(p, r, "rejected", NoImage)
    BY <1>5 DEF Frontend
  <2>. HIDE DEF x
  <2>. QED
    BY <1>2, <1>3, <1>4, <2>1, <2>2
<1>6. CASE LoadArtifact(p)
  <2>1. PICK k \in r.left :
            Become(p, [r EXCEPT !.left = @ \ {k},
                                !.cached = IF ImplementationHash(Lowers(r), k) \in store[r.paths[k]] THEN @ \cup {k} ELSE @])
    BY <1>6 DEF LoadArtifact
  <2> DEFINE x == [r EXCEPT !.left = @ \ {k},
                            !.cached = IF ImplementationHash(Lowers(r), k) \in store[r.paths[k]] THEN @ \cup {k} ELSE @]
  <2>2. x.pc = "load" /\ x.lost = r.lost /\ x.verdict = r.verdict
    BY <1>1, <1>6 DEF Process, LoadArtifact
  <2>3. Become(p, x)
    BY <2>1
  <2>. HIDE DEF x
  <2>. QED
    BY <1>2, <1>3, <2>2, <2>3
<1>7. CASE Loaded(p)
  <2> DEFINE x == [r EXCEPT !.pc = "compile"]
  <2>1. x.pc = "compile" /\ x.lost = r.lost /\ x.verdict = r.verdict
    BY <1>1 DEF Process
  <2>2. Become(p, x) \/ Exit(p, r, "checked", NoImage)
    BY <1>7 DEF Loaded
  <2>. HIDE DEF x
  <2>. QED
    BY <1>2, <1>3, <1>4, <2>1, <2>2
<1>8. CASE CompileUnit(p)
  <2> DEFINE n == r.n + 1
             objs == Append(r.objs, ImplementationHash(Lowers(r), n))
             x == [r EXCEPT !.n = n, !.objs = objs]
  <2>1. x.pc = "compile" /\ x.lost = r.lost /\ x.verdict = r.verdict
    <3>. HIDE DEF n, objs
    <3>. QED
      BY <1>1, <1>8 DEF Process, CompileUnit
  <2>2. Become(p, x)
    BY <1>8 DEF CompileUnit
  <2>. HIDE DEF x
  <2>. QED
    BY <1>2, <1>3, <2>1, <2>2
<1>9. CASE LinkFresh(p)
  <2> DEFINE image == [objects |-> r.objs, libc |-> r.libc]
             x == [r EXCEPT !.pc = "retry"]
             y == [r EXCEPT !.pc = "snapshot", !.verdict = "linked", !.image = image]
  <2>1. x.pc = "retry" /\ x.lost = r.lost /\ x.verdict = r.verdict
    BY <1>1 DEF Process
  <2>2. y.pc = "snapshot" /\ y.lost = r.lost /\ y.verdict = "linked"
    BY <1>1 DEF Process
  <2>3. Become(p, x) \/ Become(p, y)
    BY <1>9 DEF LinkFresh
  <2>. HIDE DEF x, y
  <2>. QED
    BY <1>2, <1>3, <2>1, <2>2, <2>3
<1>10. CASE RetryHosted(p)
  <2> DEFINE g == Lowers(r)
             objects == [r.objs EXCEPT ![Len(r.objs)] = RuntimeFor(g, TRUE)]
             linked == [r EXCEPT !.pc = "snapshot", !.verdict = "linked", !.objs = objects,
                                 !.libc = TRUE, !.image = [objects |-> objects, libc |-> TRUE]]
             x == [linked EXCEPT !.paths[Size(g)] = HostedPath(g)]
  <2>1. linked.pc = "snapshot" /\ linked.lost = r.lost /\ linked.verdict = "linked"
    <3>. HIDE DEF objects
    <3>. QED
      BY <1>1 DEF Process
  <2>2. x.pc = linked.pc /\ x.lost = linked.lost /\ x.verdict = linked.verdict
    <3>. HIDE DEF objects
    <3>. QED
      BY <1>1 DEF Process
  <2>3. Become(p, x) \/ Become(p, linked)
    BY <1>10 DEF RetryHosted
  <2>. HIDE DEF x, linked
  <2>. QED
    BY <1>2, <1>3, <2>1, <2>2, <2>3
<1>11. CASE StoreSnapshot(p)
  BY <1>2, <1>4, <1>11 DEF StoreSnapshot
<1>. QED
  BY <1>2, <1>5, <1>6, <1>7, <1>8, <1>9, <1>10, <1>11

LEMMA IdleKept == \A files : Kept(Idle, files)
  BY DEF Idle, Kept

LEMMA EnvironmentKept ==
    ASSUME TypeOK, ProcessesKept,
           \/ \E p \in Proc : Crash(p) \/ Retire(p)
           \/ \E path \in Path : LoseArtifact(path)
           \/ \E s \in Source : LoseSnapshot(s)
           \/ \E o \in Outside : EditOutside(o)
    PROVE  ProcessesKept'
<1>1. ASSUME NEW p \in Proc, Crash(p) \/ Retire(p) PROVE ProcessesKept'
  <2>1. Become(p, Idle) /\ Grows(store, store')
    BY <1>1 DEF Crash, Retire, Grows
  <2>. QED
    BY <2>1, IdleKept, BecomeKept
<1>2. ASSUME NEW path \in Path, LoseArtifact(path), NEW p \in Proc PROVE Kept(proc'[p], store')
  <2> DEFINE r == proc[p]
             x == [r EXCEPT !.lost = r.pc # "idle"]
  <2>1. r \in Process /\ Kept(r, store) /\ proc'[p] = x
    BY <1>2 DEF TypeOK, ProcessesKept, LoseArtifact
  <2>2. /\ x.pc = r.pc /\ x.paths = r.paths /\ x.n = r.n /\ x.verdict = r.verdict
        /\ x.lost = (r.pc # "idle")
    BY <2>1 DEF Process
  <2>. HIDE DEF r, x
  <2>. QED
    BY <2>1, <2>2 DEF Kept
<1>3. ASSUME NEW s \in Source, LoseSnapshot(s) PROVE ProcessesKept'
  BY <1>3 DEF LoseSnapshot, ProcessesKept
<1>4. ASSUME NEW o \in Outside, EditOutside(o), NEW p \in Proc PROVE Kept(proc'[p], store')
  <2> DEFINE r == proc[p]
             x == [r EXCEPT !.seen = IF r.pc = "idle" THEN @ ELSE @ \cup {o}]
  <2>1. r \in Process /\ Kept(r, store) /\ proc'[p] = x /\ store' = store
    BY <1>4 DEF TypeOK, ProcessesKept, EditOutside
  <2>2. x.pc = r.pc /\ x.paths = r.paths /\ x.n = r.n /\ x.verdict = r.verdict /\ x.lost = r.lost
    BY <2>1 DEF Process
  <2>. HIDE DEF r, x
  <2>. QED
    BY <2>1, <2>2 DEF Kept
<1>. QED
  BY <1>1, <1>2, <1>3, <1>4 DEF ProcessesKept

LEMMA NextKept == TypeOK /\ ProcessesKept /\ [Next]_vars => ProcessesKept'
<1>. SUFFICES ASSUME TypeOK, ProcessesKept, [Next]_vars PROVE ProcessesKept'
  OBVIOUS
<1>1. CASE UNCHANGED vars
  BY <1>1 DEF vars, ProcessesKept
<1>. QED
  BY <1>1, ReplayKept, BuildKept, EnvironmentKept DEF Next, Step

\* A replayed build stops for a missing artifact only when one disappeared while it
\* ran, however many compilers store into the cache meanwhile, and whatever fails
\* (cached_snapshot.go:22-25 against artifact_cache.go:273-289).
THEOREM ReplaysUnlessLost == Spec => []FailsOnlyAfterLoss
<1>1. Init => TypeOK /\ ProcessesKept
  BY IdleType, IdleKept DEF Init, TypeOK, ProcessesKept
<1>2. ProcessesKept => FailsOnlyAfterLoss
  BY DEF ProcessesKept, Kept, FailsOnlyAfterLoss
<1>. QED
  BY <1>1, <1>2, TypeStep, NextKept, PTL DEF Spec

-----------------------------------------------------------------------------
(* What a snapshot names is there.                                          *)

\* What the theorem assumes of the environment: no file of the cache is lost and
\* no store of an artifact fails. Crashes, edits and a failing store of the hosted
\* runtime are allowed.
NothingLost == "lose" \notin Fault /\ "store" \notin Fault

\* The artifact in a file "blob" is the one its directory is named for.
BlobsNamed == \A path \in Path : path.file = "blob" => store[path] = {} \/ store[path] = path.dir
SnapshotsStored ==
    \A s \in Source : \A snapshot \in builds[s] : \A k \in 1..Len(snapshot.paths) : store[snapshot.paths[k]] # {}

\* What a process that uses the cache has loaded or stored.
Stored(r, files) ==
    LET g == Lowers(r) IN
    /\ r.pc \in {"lookup", "validate", "frontend"} => r.cached = {}
    /\ r.pc \in {"lookup", "frontend", "load"} => r.n = 0
    /\ r.pc \in {"load", "compile"} =>
          /\ r.paths = FirstPaths(g)
          /\ r.cached \subseteq 1..Size(g)
          /\ \A k \in r.cached : files[ArtifactPath(g, k)] # {}
    /\ r.pc = "load" => r.left \subseteq 1..Size(g)
    /\ r.pc = "compile" =>
          r.n \in 0..Size(g) /\ (UsesCache(r) => \A k \in 1..r.n : files[ArtifactPath(g, k)] # {})
    /\ r.pc \in {"retry", "snapshot"} /\ UsesCache(r) =>
          \A k \in 1..Len(r.paths) : files[r.paths[k]] # {}
ProcessesStored == \A p \in Proc : Stored(proc[p], store)

StoredInv == BlobsNamed /\ SnapshotsStored /\ ProcessesStored

LEMMA ProgramFacts ==
    ASSUME NEW r \in Process
    PROVE  /\ Lowers(r) \in Lowered /\ Size(Lowers(r)) \in Nat \ {0}
           /\ r.paths \in Seq(Path) /\ r.n \in Nat /\ r.src \in Source /\ r.from \in Outside
           /\ \A k \in 1..Len(r.paths) : r.paths[k] \in Path
<1>1. r.src \in Source /\ r.from \in Outside /\ r.paths \in Seq(Path) /\ r.n \in Nat
  BY DEF Process
<1>. QED
  BY <1>1, LoweringFacts DEF Lowers

LEMMA GrowsStored ==
    ASSUME NEW r \in Process, NEW before, NEW after, Grows(before, after), Stored(r, before)
    PROVE  Stored(r, after)
<1> DEFINE g == Lowers(r)
<1>1. /\ g \in Lowered /\ Size(g) \in Nat /\ r.n \in Nat
      /\ \A k \in 1..Len(r.paths) : r.paths[k] \in Path
  BY ProgramFacts
<1>2. \A k \in 1..Size(g) : ArtifactPath(g, k) \in Path
  BY <1>1, PathType
<1>3. r.pc = "compile" => 1..r.n \subseteq 1..Size(g)
  BY <1>1 DEF Stored
<1>4. r.pc \in {"load", "compile"} => r.cached \subseteq 1..Size(g)
  BY DEF Stored
<1>. HIDE DEF g
<1>5. \A k \in 1..Size(g) : before[ArtifactPath(g, k)] # {} => after[ArtifactPath(g, k)] # {}
  BY <1>2 DEF Grows
<1>6. r.pc \in {"load", "compile"} => \A k \in r.cached : after[ArtifactPath(g, k)] # {}
  BY <1>4, <1>5 DEF Stored, g
<1>7. r.pc = "compile" /\ UsesCache(r) => \A k \in 1..r.n : after[ArtifactPath(g, k)] # {}
  BY <1>3, <1>5 DEF Stored, g
<1>8. r.pc \in {"retry", "snapshot"} /\ UsesCache(r) => \A k \in 1..Len(r.paths) : after[r.paths[k]] # {}
  BY <1>1 DEF Stored, Grows
<1>. QED
  BY <1>6, <1>7, <1>8 DEF Stored, g

LEMMA BecomeStored ==
    ASSUME TypeOK, ProcessesStored, Grows(store, store'), NEW p \in Proc, NEW x, Become(p, x), Stored(x, store')
    PROVE  ProcessesStored'
<1>. SUFFICES ASSUME NEW q \in Proc PROVE Stored(proc'[q], store')
  BY DEF ProcessesStored
<1>1. CASE q = p
  BY <1>1 DEF Become, TypeOK
<1>2. CASE q # p
  <2>1. proc'[q] = proc[q] /\ proc[q] \in Process /\ Stored(proc[q], store)
    BY <1>2 DEF Become, TypeOK, ProcessesStored
  <2>. QED
    BY <2>1, GrowsStored
<1>. QED
  BY <1>1, <1>2

\* A process that neither looks up, builds nor records anything.
LEMMA QuietStored ==
    ASSUME TypeOK, ProcessesStored, Grows(store, store'), NEW p \in Proc, NEW x, Become(p, x),
           x.pc \in {"idle", "materialize", "done"}
    PROVE  ProcessesStored'
<1>1. Stored(x, store')
  BY DEF Stored
<1>. QED
  BY <1>1, BecomeStored

LEMMA ExitStored ==
    ASSUME TypeOK, ProcessesStored, Grows(store, store'), NEW p \in Proc, NEW verdict, NEW image,
           Exit(p, proc[p], verdict, image)
    PROVE  ProcessesStored'
<1> DEFINE r == proc[p]
           x == [Idle EXCEPT !.pc = "done", !.src = r.src, !.cmd = r.cmd, !.mode = r.mode,
                             !.seen = r.seen, !.lost = r.lost, !.shown = r.shown,
                             !.verdict = verdict, !.image = image]
<1>1. x.pc = "done" /\ Become(p, x)
  BY DEF Idle, Exit
<1>. HIDE DEF x
<1>. QED
  BY <1>1, QuietStored

\* Up to the front end nothing is loaded.
LEMMA SearchStored ==
    ASSUME TypeOK, ProcessesStored, NEW p \in Proc,
           Start(p) \/ Lookup(p) \/ ValidateEntry(p) \/ Replay(p) \/ Materialize(p) \/ LinkCached(p)
    PROVE  ProcessesStored'
<1> DEFINE r == proc[p]
<1>1. store' = store
  BY DEF Start, Lookup, ValidateEntry, Replay, Materialize, LinkCached
<1>2. r \in Process /\ Stored(r, store) /\ Grows(store, store')
  BY <1>1 DEF TypeOK, ProcessesStored, Grows
<1>3. ASSUME NEW x, Become(p, x), x.pc \in {"lookup", "validate", "frontend"}, x.cached = {},
             x.pc # "validate" => x.n = 0
      PROVE  ProcessesStored'
  <2>1. Stored(x, store')
    BY <1>3 DEF Stored
  <2>. QED
    BY <1>2, <1>3, <2>1, BecomeStored
<1>4. CASE Start(p)
  <2>0. PICK s \in Source, c \in Command :
           \E m \in Mode[s] :
              Become(p, [Idle EXCEPT !.pc = "lookup", !.src = s, !.cmd = c, !.mode = m, !.seen = {outside}])
    BY <1>4 DEF Start
  <2>1. PICK m \in Mode[s] :
           Become(p, [Idle EXCEPT !.pc = "lookup", !.src = s, !.cmd = c, !.mode = m, !.seen = {outside}])
    BY <2>0
  <2> DEFINE x == [Idle EXCEPT !.pc = "lookup", !.src = s, !.cmd = c, !.mode = m, !.seen = {outside}]
  <2>2. x.pc = "lookup" /\ x.n = 0 /\ x.cached = {} /\ Become(p, x)
    BY <2>1 DEF Idle
  <2>. HIDE DEF x
  <2>. QED
    BY <1>3, <2>2
<1>5. CASE Lookup(p)
  <2>1. r.pc = "lookup" /\ r.n = 0 /\ r.cached = {}
    BY <1>2, <1>5 DEF Lookup, Stored
  <2>2. ASSUME Become(p, [r EXCEPT !.pc = "frontend"]) PROVE ProcessesStored'
    <3> DEFINE x == [r EXCEPT !.pc = "frontend"]
    <3>1. x.pc = "frontend" /\ x.n = 0 /\ x.cached = {}
      BY <1>2, <2>1 DEF Process
    <3>2. Become(p, x)
      BY <2>2
    <3>. HIDE DEF x
    <3>. QED
      BY <1>3, <3>1, <3>2
  <2>3. ASSUME NEW t, Become(p, [r EXCEPT !.pc = "validate", !.paths = t.paths, !.libc = t.libc, !.shown = t.shown])
        PROVE  ProcessesStored'
    <3> DEFINE x == [r EXCEPT !.pc = "validate", !.paths = t.paths, !.libc = t.libc, !.shown = t.shown]
    <3>1. x.pc = "validate" /\ x.cached = {}
      BY <1>2, <2>1 DEF Process
    <3>2. Become(p, x)
      BY <2>3
    <3>. HIDE DEF x
    <3>. QED
      BY <1>3, <3>1, <3>2
  <2>. QED
    BY <1>5, <2>2, <2>3 DEF Lookup
<1>6. CASE ValidateEntry(p)
  <2>1. r.pc = "validate" /\ r.cached = {}
    BY <1>2, <1>6 DEF ValidateEntry, Stored
  <2> DEFINE x == [r EXCEPT !.n = @ + 1]
             y == [r EXCEPT !.pc = "frontend", !.n = 0, !.paths = <<>>, !.libc = FALSE, !.shown = FALSE]
  <2>2. x.pc = "validate" /\ x.cached = {}
    BY <1>2, <2>1 DEF Process
  <2>3. y.pc = "frontend" /\ y.n = 0 /\ y.cached = {}
    BY <1>2, <2>1 DEF Process
  <2>4. Become(p, x) \/ Become(p, y)
    BY <1>6 DEF ValidateEntry
  <2>. HIDE DEF x, y
  <2>. QED
    BY <1>3, <2>2, <2>3, <2>4
<1>7. CASE Replay(p)
  <2> DEFINE x == [r EXCEPT !.pc = "materialize", !.n = 0]
  <2>1. x.pc = "materialize"
    BY <1>2 DEF Process
  <2>2. Become(p, x) \/ Exit(p, r, "checked", NoImage)
    BY <1>7 DEF Replay
  <2>. HIDE DEF x
  <2>. QED
    BY <1>2, <2>1, <2>2, QuietStored, ExitStored
<1>8. CASE Materialize(p)
  <2>1. ASSUME NEW a, Become(p, [r EXCEPT !.n = @ + 1, !.objs = Append(@, a)]) PROVE ProcessesStored'
    <3> DEFINE x == [r EXCEPT !.n = @ + 1, !.objs = Append(@, a)]
    <3>1. x.pc = "materialize"
      BY <1>2, <1>8 DEF Process, Materialize
    <3>2. Become(p, x)
      BY <2>1
    <3>. HIDE DEF x
    <3>. QED
      BY <1>2, <3>1, <3>2, QuietStored
  <2>2. ASSUME Exit(p, r, "unavailable", NoImage) PROVE ProcessesStored'
    BY <1>2, <2>2, ExitStored
  <2>. QED
    BY <1>8, <2>1, <2>2 DEF Materialize
<1>9. CASE LinkCached(p)
  <2> DEFINE image == [objects |-> r.objs, libc |-> r.libc]
  <2>1. Exit(p, r, "linked", image)
    BY <1>9 DEF LinkCached
  <2>. HIDE DEF image
  <2>. QED
    BY <1>2, <2>1, ExitStored
<1>. QED
  BY <1>4, <1>5, <1>6, <1>7, <1>8, <1>9

\* A unit is loaded only from a file that is there.
LEMMA LowerStored ==
    ASSUME TypeOK, ProcessesStored, NEW p \in Proc, Frontend(p) \/ LoadArtifact(p) \/ Loaded(p) \/ LinkFresh(p)
    PROVE  ProcessesStored'
<1> DEFINE r == proc[p]
           g == Lowers(r)
<1>1. store' = store
  BY DEF Frontend, LoadArtifact, Loaded, LinkFresh
<1>2. r \in Process /\ Stored(r, store) /\ Grows(store, store') /\ Size(g) \in Nat \ {0} /\ g \in Lowered
  BY <1>1, ProgramFacts DEF TypeOK, ProcessesStored, Grows
<1>3. CASE Frontend(p)
  <2>1. r.pc = "frontend" /\ r.n = 0 /\ r.cached = {}
    BY <1>2, <1>3 DEF Frontend, Stored
  <2> DEFINE h == Program[r.src][outside]
             left == IF UsesCache(r) THEN 1..Size(h) ELSE {}
             paths == [k \in 1..Size(h) |-> ArtifactPath(h, k)]
             x == [r EXCEPT !.pc = "load", !.from = outside, !.shown = h.warns /\ r.mode = "show",
                            !.libc = LinksLibc(h), !.paths = paths, !.left = left]
  <2>2. /\ x.pc = "load" /\ x.n = 0 /\ x.cached = {} /\ x.src = r.src /\ x.from = outside
        /\ x.paths = paths /\ x.left = left
    <3>. HIDE DEF h, left, paths
    <3>. QED
      BY <1>2, <2>1 DEF Process
  <2>3. Lowers(x) = h
    BY <2>2 DEF Lowers
  <2>4. paths = FirstPaths(h) /\ left \subseteq 1..Size(h)
    BY DEF FirstPaths
  <2>5. Become(p, x) \/ Exit(p, r, "rejected", NoImage)
    BY <1>3 DEF Frontend
  <2>. HIDE DEF x, h, paths, left
  <2>6. Stored(x, store')
    BY <2>2, <2>3, <2>4 DEF Stored
  <2>. QED
    BY <1>2, <2>5, <2>6, BecomeStored, ExitStored
<1>4. CASE LoadArtifact(p)
  <2>1. PICK k \in r.left :
            Become(p, [r EXCEPT !.left = @ \ {k},
                                !.cached = IF ImplementationHash(g, k) \in store[r.paths[k]] THEN @ \cup {k} ELSE @])
    BY <1>4 DEF LoadArtifact
  <2>2. /\ r.pc = "load" /\ r.n = 0 /\ r.paths = FirstPaths(g) /\ r.left \subseteq 1..Size(g)
        /\ r.cached \subseteq 1..Size(g) /\ \A j \in r.cached : store[ArtifactPath(g, j)] # {}
    BY <1>2, <1>4 DEF LoadArtifact, Stored
  <2>3. k \in 1..Size(g) /\ r.paths[k] = ArtifactPath(g, k)
    BY <2>2 DEF FirstPaths
  <2> DEFINE cached == IF ImplementationHash(g, k) \in store[r.paths[k]] THEN r.cached \cup {k} ELSE r.cached
             left == r.left \ {k}
             x == [r EXCEPT !.left = left, !.cached = cached]
  <2>4. /\ x.pc = "load" /\ x.n = 0 /\ x.cached = cached /\ x.src = r.src /\ x.from = r.from
        /\ x.paths = r.paths /\ x.left = left
    <3>. HIDE DEF cached, left, g
    <3>. QED
      BY <1>2, <2>2 DEF Process
  <2>5. Lowers(x) = g
    BY <2>4 DEF Lowers
  <2>6. cached \subseteq 1..Size(g) /\ left \subseteq 1..Size(g)
    BY <2>2, <2>3
  <2>7. \A j \in cached : store[ArtifactPath(g, j)] # {}
    <3>. HIDE DEF g, r
    <3>. QED
      BY <2>2, <2>3
  <2>8. Become(p, x)
    BY <2>1
  <2>. HIDE DEF x, cached, left, g, r
  <2>9. Stored(x, store')
    BY <1>1, <2>2, <2>4, <2>5, <2>6, <2>7 DEF Stored
  <2>. QED
    BY <1>2, <2>8, <2>9, BecomeStored
<1>5. CASE Loaded(p)
  <2>1. /\ r.pc = "load" /\ r.n = 0 /\ r.paths = FirstPaths(g)
        /\ r.cached \subseteq 1..Size(g) /\ \A j \in r.cached : store[ArtifactPath(g, j)] # {}
    BY <1>2, <1>5 DEF Loaded, Stored
  <2> DEFINE x == [r EXCEPT !.pc = "compile"]
  <2>2. /\ x.pc = "compile" /\ x.n = 0 /\ x.cached = r.cached /\ x.src = r.src /\ x.from = r.from
        /\ x.paths = r.paths
    BY <1>2, <2>1 DEF Process
  <2>3. Lowers(x) = g
    BY <2>2 DEF Lowers
  <2>4. Become(p, x) \/ Exit(p, r, "checked", NoImage)
    BY <1>5 DEF Loaded
  <2>5. 0 \in 0..Size(g) /\ 1..0 = {}
    BY <1>2
  <2>. HIDE DEF x, g, r
  <2>6. Stored(x, store')
    BY <1>1, <2>1, <2>2, <2>3, <2>5 DEF Stored
  <2>. QED
    BY <1>2, <2>4, <2>6, BecomeStored, ExitStored DEF r
<1>6. CASE LinkFresh(p)
  <2>1. /\ r.pc = "compile" /\ r.n = Size(g) /\ r.paths = FirstPaths(g)
        /\ UsesCache(r) => \A k \in 1..r.n : store[ArtifactPath(g, k)] # {}
    BY <1>2, <1>6 DEF LinkFresh, Stored
  <2>2. Len(r.paths) = Size(g) /\ \A k \in 1..Size(g) : r.paths[k] = ArtifactPath(g, k)
    BY <1>2, <2>1 DEF FirstPaths
  <2>3. UsesCache(r) => \A k \in 1..Len(r.paths) : store[r.paths[k]] # {}
    <3>. HIDE DEF g, r
    <3>. QED
      BY <2>1, <2>2
  <2> DEFINE image == [objects |-> r.objs, libc |-> r.libc]
             x == [r EXCEPT !.pc = "retry"]
             y == [r EXCEPT !.pc = "snapshot", !.verdict = "linked", !.image = image]
  <2>4. x.pc = "retry" /\ x.paths = r.paths /\ x.cmd = r.cmd
    BY <1>2 DEF Process
  <2>5. y.pc = "snapshot" /\ y.paths = r.paths /\ y.cmd = r.cmd
    BY <1>2 DEF Process
  <2>6. Become(p, x) \/ Become(p, y)
    BY <1>6 DEF LinkFresh
  <2>. HIDE DEF x, y, r, g
  <2>7. Stored(x, store') /\ Stored(y, store')
    BY <1>1, <2>3, <2>4, <2>5 DEF Stored, UsesCache
  <2>. QED
    BY <1>2, <2>6, <2>7, BecomeStored
<1>. QED
  BY <1>3, <1>4, <1>5, <1>6

\* The path of a file "blob" names what is stored there.
LEMMA PathsNamed ==
    ASSUME NEW g \in Lowered
    PROVE  /\ \A k \in 1..Size(g) : ArtifactPath(g, k).file = "blob" => ArtifactPath(g, k).dir = {ImplementationHash(g, k)}
           /\ HostedPath(g).dir = {RuntimeFor(g, TRUE)}
  BY BuildAssumption DEF ArtifactPath, SpecializationPath, ModulePath, HostedPath

LEMMA BlobsKept ==
    ASSUME TypeOK, BlobsNamed, NEW path \in Path, NEW artifact, path.file = "blob" => path.dir = {artifact},
           store' = store \/ store' = [store EXCEPT ![path] = {artifact}]
    PROVE  BlobsNamed' /\ Grows(store, store')
  BY DEF TypeOK, BlobsNamed, Grows

\* Each unit is stored before the next one is compiled.
LEMMA CompileStored ==
    ASSUME NothingLost, TypeOK, BlobsNamed, ProcessesStored, NEW p \in Proc, CompileUnit(p)
    PROVE  BlobsNamed' /\ Grows(store, store') /\ ProcessesStored'
<1> DEFINE r == proc[p]
           g == Lowers(r)
           n == r.n + 1
           e == ImplementationHash(g, n)
           path == ArtifactPath(g, n)
           objs == Append(r.objs, e)
           x == [r EXCEPT !.n = n, !.objs = objs]
<1>1. /\ r \in Process /\ Stored(r, store) /\ g \in Lowered /\ Size(g) \in Nat \ {0} /\ r.n \in Nat
      /\ r.pc = "compile" /\ r.n < Size(g)
  BY ProgramFacts DEF TypeOK, ProcessesStored, CompileUnit
<1>2. /\ r.paths = FirstPaths(g) /\ r.cached \subseteq 1..Size(g) /\ \A k \in r.cached : store[ArtifactPath(g, k)] # {}
      /\ UsesCache(r) => \A k \in 1..r.n : store[ArtifactPath(g, k)] # {}
  BY <1>1 DEF Stored
<1>3. n \in 1..Size(g) /\ n \in 0..Size(g) /\ \A k \in 1..n : k \in 1..r.n \/ k = n
  BY <1>1
<1>4. r.paths[n] = path /\ path \in Path /\ (path.file = "blob" => path.dir = {e})
  BY <1>1, <1>2, <1>3, PathType, PathsNamed DEF FirstPaths
<1>5. /\ n \in r.cached => store' = store
      /\ n \notin r.cached => (UsesCache(r) /\ store' = [store EXCEPT ![path] = {e}]) \/ (~UsesCache(r) /\ store' = store)
  BY <1>4 DEF CompileUnit, Install, NothingLost
<1>6. BlobsNamed' /\ Grows(store, store')
  <2>. HIDE DEF path, e, r
  <2>. QED
    BY <1>4, <1>5, BlobsKept
<1>7. UsesCache(r) => store'[path] # {}
  <2>1. CASE n \in r.cached
    BY <1>2, <1>5, <2>1
  <2>2. CASE n \notin r.cached
    <3>. HIDE DEF path, e, r, n
    <3>. QED
      BY <1>4, <1>5, <2>2 DEF TypeOK
  <2>. QED
    BY <2>1, <2>2
<1>8. Stored(r, store')
  BY <1>1, <1>6, GrowsStored
<1>9. /\ x.pc = "compile" /\ x.n = n /\ x.cached = r.cached /\ x.src = r.src /\ x.from = r.from
      /\ x.paths = r.paths /\ x.cmd = r.cmd
  <2>. HIDE DEF n, objs
  <2>. QED
    BY <1>1 DEF Process
<1>10. Lowers(x) = g /\ (UsesCache(x) <=> UsesCache(r))
  BY <1>9 DEF Lowers, UsesCache
<1>11. UsesCache(r) => \A k \in 1..n : store'[ArtifactPath(g, k)] # {}
  BY <1>1, <1>3, <1>7, <1>8 DEF Stored
<1>12. Become(p, x)
  BY DEF CompileUnit
<1>13. \A k \in r.cached : store'[ArtifactPath(g, k)] # {}
  BY <1>1, <1>8 DEF Stored
<1>. HIDE DEF x, n, g, r, path, e
<1>14. Stored(x, store')
  BY <1>2, <1>3, <1>9, <1>10, <1>11, <1>13 DEF Stored
<1>. QED
  BY <1>6, <1>12, <1>14, BecomeStored

\* The path of the hosted runtime is recorded only if it was stored.
LEMMA RetryStored ==
    ASSUME TypeOK, BlobsNamed, ProcessesStored, NEW p \in Proc, RetryHosted(p)
    PROVE  BlobsNamed' /\ Grows(store, store') /\ ProcessesStored'
<1> DEFINE r == proc[p]
           g == Lowers(r)
           e == RuntimeFor(g, TRUE)
           objects == [r.objs EXCEPT ![Len(r.objs)] = e]
           linked == [r EXCEPT !.pc = "snapshot", !.verdict = "linked", !.objs = objects,
                               !.libc = TRUE, !.image = [objects |-> objects, libc |-> TRUE]]
           x == [linked EXCEPT !.paths[Size(g)] = HostedPath(g)]
<1>1. /\ r \in Process /\ Stored(r, store) /\ g \in Lowered /\ r.pc = "retry" /\ r.paths \in Seq(Path)
      /\ \A k \in 1..Len(r.paths) : r.paths[k] \in Path
  BY ProgramFacts DEF TypeOK, ProcessesStored, RetryHosted
<1>2. HostedPath(g) \in Path /\ HostedPath(g).dir = {e}
  BY <1>1, PathType, PathsNamed
<1>3. store' = store \/ store' = [store EXCEPT ![HostedPath(g)] = {e}]
  BY DEF RetryHosted
<1>4. BlobsNamed' /\ Grows(store, store')
  <2>. HIDE DEF e, g
  <2>. QED
    BY <1>2, <1>3, BlobsKept
<1>5. UsesCache(r) => \A k \in 1..Len(r.paths) : store'[r.paths[k]] # {}
  BY <1>1, <1>4 DEF Stored, Grows
<1>6. linked.pc = "snapshot" /\ linked.paths = r.paths /\ linked.cmd = r.cmd
  <2>. HIDE DEF objects
  <2>. QED
    BY <1>1 DEF Process
<1>7. x.pc = linked.pc /\ x.cmd = linked.cmd /\ x.paths = [r.paths EXCEPT ![Size(g)] = HostedPath(g)]
  <2>1. x.paths = [linked.paths EXCEPT ![Size(g)] = HostedPath(g)]
    <3>. HIDE DEF objects
    <3>. QED
      BY <1>1 DEF Process
  <2>2. x.pc = linked.pc /\ x.cmd = linked.cmd
    <3>. HIDE DEF objects
    <3>. QED
      BY <1>1 DEF Process
  <2>. HIDE DEF linked, x
  <2>. QED
    BY <1>6, <2>1, <2>2
<1>8. ASSUME Become(p, linked) PROVE ProcessesStored'
  <2>1. Stored(linked, store')
    <3>. HIDE DEF linked, r
    <3>. QED
      BY <1>5, <1>6 DEF Stored, UsesCache
  <2>. QED
    BY <1>4, <1>8, <2>1, BecomeStored
<1>9. ASSUME Become(p, x), store' = [store EXCEPT ![HostedPath(g)] = {e}] PROVE ProcessesStored'
  <2>1. store'[HostedPath(g)] # {}
    <3>. HIDE DEF e, g
    <3>. QED
      BY <1>2, <1>9 DEF TypeOK
  <2>2. Len(x.paths) = Len(r.paths) /\ \A k \in 1..Len(r.paths) : x.paths[k] = IF k = Size(g) THEN HostedPath(g) ELSE r.paths[k]
    <3>. HIDE DEF x, g, r
    <3>. QED
      BY <1>1, <1>7
  <2>3. UsesCache(r) => \A k \in 1..Len(x.paths) : store'[x.paths[k]] # {}
    <3>. HIDE DEF x, g, r
    <3>. QED
      BY <1>5, <2>1, <2>2
  <2>4. Stored(x, store')
    <3>. HIDE DEF x, linked, r
    <3>. QED
      BY <1>6, <1>7, <2>3 DEF Stored, UsesCache
  <2>. QED
    BY <1>4, <1>9, <2>4, BecomeStored
<1>10. (Become(p, x) /\ store' = [store EXCEPT ![HostedPath(g)] = {e}]) \/ Become(p, linked)
  BY DEF RetryHosted
<1>. QED
  BY <1>4, <1>8, <1>9, <1>10

LEMMA SnapshotsGrow ==
    ASSUME TypeOK, SnapshotsStored, Grows(store, store'), builds' = builds
    PROVE  SnapshotsStored'
<1>. SUFFICES ASSUME NEW s \in Source, NEW t \in builds[s], NEW k \in 1..Len(t.paths) PROVE store'[t.paths[k]] # {}
  BY DEF SnapshotsStored
<1>1. t.paths \in Seq(Path)
  BY DEF TypeOK, Snapshot
<1>2. t.paths[k] \in Path
  BY <1>1
<1>. QED
  BY <1>2 DEF SnapshotsStored, Grows

\* A snapshot is written by a process whose artifacts are all there.
LEMMA RecordStored ==
    ASSUME TypeOK, StoredInv, NEW p \in Proc, StoreSnapshot(p)
    PROVE  StoredInv'
<1> DEFINE r == proc[p]
           snapshot == [paths |-> r.paths, libc |-> r.libc, shown |-> r.shown]
<1>1. /\ r \in Process /\ Stored(r, store) /\ r.pc = "snapshot" /\ store' = store /\ Grows(store, store')
      /\ BlobsNamed /\ SnapshotsStored /\ ProcessesStored /\ r.src \in Source
  BY ProgramFacts DEF TypeOK, StoredInv, ProcessesStored, StoreSnapshot, Grows
<1>2. BlobsNamed'
  BY <1>1 DEF BlobsNamed
<1>3. SnapshotsStored'
  <2>1. CASE builds' = builds
    BY <1>1, <2>1, SnapshotsGrow
  <2>2. CASE UsesCache(r) /\ builds' = [builds EXCEPT ![r.src] = {snapshot}]
    <3>1. \A k \in 1..Len(snapshot.paths) : store[snapshot.paths[k]] # {}
      BY <1>1, <2>2 DEF Stored
    <3>2. ASSUME NEW s \in Source, NEW t \in builds'[s] PROVE t = snapshot \/ t \in builds[s]
      <4>. HIDE DEF snapshot, r
      <4>. QED
        BY <1>1, <2>2, <3>2 DEF TypeOK
    <3>. HIDE DEF snapshot, r
    <3>. QED
      BY <1>1, <3>1, <3>2 DEF SnapshotsStored
  <2>. QED
    BY <2>1, <2>2 DEF StoreSnapshot
<1>4. ProcessesStored'
  BY <1>1, ExitStored DEF StoreSnapshot
<1>. QED
  BY <1>2, <1>3, <1>4 DEF StoredInv

LEMMA IdleStored == \A files : Stored(Idle, files)
  BY DEF Idle, Stored

LEMMA EnvironmentStored ==
    ASSUME NothingLost, TypeOK, ProcessesStored,
           \/ \E p \in Proc : Crash(p) \/ Retire(p)
           \/ \E path \in Path : LoseArtifact(path)
           \/ \E s \in Source : LoseSnapshot(s)
           \/ \E o \in Outside : EditOutside(o)
    PROVE  store' = store /\ builds' = builds /\ ProcessesStored'
<1>1. ASSUME NEW p \in Proc, Crash(p) \/ Retire(p) PROVE store' = store /\ builds' = builds /\ ProcessesStored'
  <2>1. Become(p, Idle) /\ Grows(store, store') /\ store' = store /\ builds' = builds
    BY <1>1 DEF Crash, Retire, Grows
  <2>. QED
    BY <2>1, IdleStored, BecomeStored
<1>2. ASSUME NEW o \in Outside, EditOutside(o), NEW p \in Proc PROVE Stored(proc'[p], store')
  <2> DEFINE r == proc[p]
             x == [r EXCEPT !.seen = IF r.pc = "idle" THEN @ ELSE @ \cup {o}]
  <2>1. r \in Process /\ Stored(r, store) /\ proc'[p] = x /\ store' = store
    BY <1>2 DEF TypeOK, ProcessesStored, EditOutside
  <2>2. /\ x.pc = r.pc /\ x.paths = r.paths /\ x.n = r.n /\ x.src = r.src /\ x.from = r.from /\ x.cmd = r.cmd
        /\ x.cached = r.cached /\ x.left = r.left
    BY <2>1 DEF Process
  <2>. HIDE DEF r, x
  <2>. QED
    BY <2>1, <2>2 DEF Stored, Lowers, UsesCache
<1>. QED
  BY <1>1, <1>2 DEF ProcessesStored, NothingLost, LoseArtifact, LoseSnapshot, EditOutside

LEMMA NextStored ==
    ASSUME NothingLost, TypeOK, StoredInv, [Next]_vars
    PROVE  StoredInv'
<1>1. BlobsNamed /\ SnapshotsStored /\ ProcessesStored
  BY DEF StoredInv
<1>2. ASSUME store' = store, builds' = builds, ProcessesStored' PROVE StoredInv'
  BY <1>1, <1>2 DEF StoredInv, BlobsNamed, SnapshotsStored
<1>3. ASSUME NEW p \in Proc,
             Start(p) \/ Lookup(p) \/ ValidateEntry(p) \/ Replay(p) \/ Materialize(p) \/ LinkCached(p)
      PROVE  StoredInv'
  <2>1. store' = store /\ builds' = builds
    BY <1>3 DEF Start, Lookup, ValidateEntry, Replay, Materialize, LinkCached
  <2>. QED
    BY <1>1, <1>2, <1>3, <2>1, SearchStored
<1>4. ASSUME NEW p \in Proc, Frontend(p) \/ LoadArtifact(p) \/ Loaded(p) \/ LinkFresh(p) PROVE StoredInv'
  <2>1. store' = store /\ builds' = builds
    BY <1>4 DEF Frontend, LoadArtifact, Loaded, LinkFresh
  <2>. QED
    BY <1>1, <1>2, <1>4, <2>1, LowerStored
<1>5. ASSUME NEW p \in Proc, CompileUnit(p) \/ RetryHosted(p) PROVE StoredInv'
  <2>1. builds' = builds
    BY <1>5 DEF CompileUnit, RetryHosted
  <2>2. BlobsNamed' /\ Grows(store, store') /\ ProcessesStored'
    BY <1>1, <1>5, CompileStored, RetryStored
  <2>. QED
    BY <1>1, <2>1, <2>2, SnapshotsGrow DEF StoredInv
<1>6. CASE UNCHANGED vars
  BY <1>1, <1>2, <1>6 DEF vars, ProcessesStored
<1>. QED
  BY <1>1, <1>2, <1>3, <1>4, <1>5, <1>6, RecordStored, EnvironmentStored DEF Next, Step

\* While no file is lost and no store of an artifact fails, every snapshot replays:
\* what it names was stored before it and is never taken away, whichever compilers
\* crash between two stores (main.go:337-346, 426-449, build_snapshot.go:31-45).
THEOREM SnapshotsAreComplete == ASSUME NothingLost PROVE Spec => []SnapshotsReplay
<1>1. Init => TypeOK /\ StoredInv
  <2>. SUFFICES ASSUME Init PROVE TypeOK /\ StoredInv
    OBVIOUS
  <2>1. TypeOK
    BY IdleType DEF Init, TypeOK
  <2>2. BlobsNamed /\ SnapshotsStored /\ ProcessesStored
    BY IdleStored DEF Init, BlobsNamed, SnapshotsStored, ProcessesStored
  <2>. QED
    BY <2>1, <2>2 DEF StoredInv
<1>2. TypeOK /\ StoredInv => SnapshotsReplay
  <2>. SUFFICES ASSUME TypeOK, StoredInv, NEW s \in Source, NEW t \in builds[s], NEW k \in 1..Len(t.paths)
                PROVE  store[t.paths[k]] # {} /\ (t.paths[k].file = "blob" => store[t.paths[k]] = t.paths[k].dir)
    BY DEF SnapshotsReplay
  <2>1. t.paths \in Seq(Path)
    BY DEF TypeOK, Snapshot
  <2>2. t.paths[k] \in Path /\ store[t.paths[k]] # {}
    BY <2>1 DEF StoredInv, SnapshotsStored
  <2>. QED
    BY <2>2 DEF StoredInv, BlobsNamed
<1>3. TypeOK /\ StoredInv /\ [Next]_vars => (TypeOK /\ StoredInv)'
  BY TypeStep, NextStored
<1>. QED
  BY <1>1, <1>2, <1>3, PTL DEF Spec
=============================================================================
