-------------------------- MODULE BuildCacheProofs --------------------------
(***************************************************************************)
(* Theorems about the build cache, for every number of processes, every    *)
(* set of programs and every order of their steps.                         *)
(***************************************************************************)
EXTENDS BuildCache, SequenceTheorems, TLAPS

\* What the soundness theorem assumes beyond BuildAssumption: a specialization's
\* path determines its text, lowering reads nothing the input hash leaves out,
\* and the hosted runtime is always stored.  The first two do not always hold
\* (run limits), and neither does the theorem then.
SpecializationsAddressed ==
    \A g, h \in Lowered : \A j \in 1..Size(g), k \in 1..Size(h) :
        (g.order[j] \in Request /\ ArtifactPath(g, j) = ArtifactPath(h, k))
            => ImplementationHash(g, j) = ImplementationHash(h, k)
HashCoversInputs ==
    \A s \in Source : \A o1, o2 \in Outside : Program[s][o1] = Program[s][o2]
HostedStoreReliable == "hosted" \notin Fault
-----------------------------------------------------------------------------
LEMMA LoweringFacts ==
    ASSUME NEW s \in Source, NEW o \in Outside
    PROVE  /\ Program[s][o] \in Lowering
           /\ Program[s][o] \in Lowered
           /\ Size(Program[s][o]) \in Nat \ {0}
           /\ \A k \in 1..Size(Program[s][o]) :
                 /\ Program[s][o].order[k] \in Unit
                 /\ Program[s][o].order[k] = Runtime <=> k = Size(Program[s][o])
<1> DEFINE g == Program[s][o]
<1>1. g \in Lowering
  BY BuildAssumption
<1>2. g \in Lowered
  BY DEF Lowered
<1>3. g.order \in Seq(Unit)
  BY <1>1 DEF Lowering
<1>4. Len(g.order) > 0 /\ \A k \in 1..Len(g.order) : g.order[k] = Runtime <=> k = Len(g.order)
  BY BuildAssumption
<1>. QED
  BY <1>1, <1>2, <1>3, <1>4 DEF Size

LEMMA HashType ==
    ASSUME NEW g \in Lowered, NEW k \in 1..Size(g)
    PROVE  ImplementationHash(g, k) \in Implementation
<1>1. PICK s \in Source, o \in Outside : g = Program[s][o]
  BY DEF Lowered
<1>2. g.order[k] \in Unit /\ g \in Lowering
  BY <1>1, LoweringFacts
<1>3. LinksLibc(g) \in BOOLEAN
  BY DEF LinksLibc
<1>. QED
  BY <1>2, <1>3 DEF ImplementationHash, RuntimeFor, Implementation, Unit, Lowering

LEMMA RuntimeType ==
    ASSUME NEW g \in Lowered
    PROVE  RuntimeFor(g, TRUE) \in Implementation
<1>1. PICK s \in Source, o \in Outside : g = Program[s][o]
  BY DEF Lowered
<1>2. g \in Lowering
  BY <1>1, LoweringFacts
<1>. QED
  BY <1>2 DEF RuntimeFor, Implementation, Unit, Lowering

LEMMA PathType ==
    ASSUME NEW g \in Lowered
    PROVE  /\ \A k \in 1..Size(g) : ArtifactPath(g, k) \in Path
           /\ HostedPath(g) \in Path
  BY DEF Path

\* Whoever's path it is, a file holds that owner's object: two units of two
\* programs share a path only when they share the text.
Belongs(path, artifact) ==
    \A g \in Lowered :
        /\ \A k \in 1..Size(g) : path = ArtifactPath(g, k) => artifact = ImplementationHash(g, k)
        /\ path = HostedPath(g) => artifact = RuntimeFor(g, TRUE)

LEMMA PathsBelong ==
    ASSUME SpecializationsAddressed, NEW g \in Lowered
    PROVE  /\ \A k \in 1..Size(g) : Belongs(ArtifactPath(g, k), ImplementationHash(g, k))
           /\ Belongs(HostedPath(g), RuntimeFor(g, TRUE))
<1>. USE DEF ArtifactPath, SpecializationPath, ModulePath, HostedPath
<1>1. "blob" \notin Request
  BY BuildAssumption
<1>2. ASSUME NEW k \in 1..Size(g)
      PROVE  Belongs(ArtifactPath(g, k), ImplementationHash(g, k))
  <2>. SUFFICES ASSUME NEW h \in Lowered
                PROVE  /\ \A j \in 1..Size(h) : ArtifactPath(g, k) = ArtifactPath(h, j)
                              => ImplementationHash(g, k) = ImplementationHash(h, j)
                       /\ ArtifactPath(g, k) = HostedPath(h)
                              => ImplementationHash(g, k) = RuntimeFor(h, TRUE)
    BY DEF Belongs
  <2>1. ASSUME NEW j \in 1..Size(h), ArtifactPath(g, k) = ArtifactPath(h, j)
        PROVE  ImplementationHash(g, k) = ImplementationHash(h, j)
    <3>1. CASE g.order[k] \in Request
      BY <2>1, <3>1 DEF SpecializationsAddressed
    <3>2. CASE g.order[k] \notin Request /\ h.order[j] \in Request
      BY <2>1, <3>2, <1>1
    <3>3. CASE g.order[k] \notin Request /\ h.order[j] \notin Request
      BY <2>1, <3>3
    <3>. QED
      BY <3>1, <3>2, <3>3
  <2>2. ASSUME ArtifactPath(g, k) = HostedPath(h)
        PROVE  ImplementationHash(g, k) = RuntimeFor(h, TRUE)
    BY <2>2, <1>1
  <2>. QED
    BY <2>1, <2>2
<1>3. Belongs(HostedPath(g), RuntimeFor(g, TRUE))
  BY <1>1 DEF Belongs
<1>. QED
  BY <1>2, <1>3
-----------------------------------------------------------------------------
\* The inductive invariant.  What the cache holds belongs where it is.
StoreSound ==
    \A path \in Path : \A artifact \in store[path] : Belongs(path, artifact)

\* A snapshot names the artifacts of a clean build of its source.
Replays(s, paths, libc) ==
    \A o \in Outside :
        /\ Program[s][o].accepted
        /\ paths = CleanPaths(Program[s][o])
        /\ libc = FinalLibc(Program[s][o])
BuildsSound ==
    \A s \in Source : \A snapshot \in builds[s] : Replays(s, snapshot.paths, snapshot.libc)

\* What a process holds at each point of its run.
FirstObjects(g, n) == [k \in 1..n |-> ImplementationHash(g, k)]
FirstClean(g, n) == [k \in 1..n |-> CleanObjects(g)[k]]
FirstPaths(g) == [k \in 1..Size(g) |-> ArtifactPath(g, k)]

ProcessSound(r) ==
    LET g == Lowers(r) IN
    /\ r.src \in Source
    /\ r.from \in Outside
    /\ r.pc \in Pc
    /\ r.pc # "idle" => r.seen # {} /\ r.seen \subseteq Outside
    /\ r.pc = "idle" => r.verdict = "none"
    /\ r.verdict = "linked" =>
          /\ r.pc \in {"snapshot", "done"}
          /\ g.accepted
          /\ r.image = Clean(g)
    /\ r.pc \in {"lookup", "validate", "frontend", "load"} => r.n \in Nat /\ r.objs = <<>>
    /\ r.pc \in {"lookup", "frontend"} => r.n = 0
    /\ r.pc \in {"validate", "materialize"} =>
          Replays(r.src, r.paths, r.libc) /\ r.n \in 0..Size(g)
    /\ r.pc = "materialize" => r.objs = FirstClean(g, r.n)
    /\ r.pc \in {"load", "compile", "retry"} =>
          g.accepted /\ r.paths = FirstPaths(g) /\ r.libc = LinksLibc(g)
    /\ r.pc = "load" => r.n = 0 /\ r.left \subseteq 1..Size(g)
    /\ r.pc \in {"compile", "retry"} => r.n \in 0..Size(g) /\ r.objs = FirstObjects(g, r.n)
    /\ r.pc = "retry" => r.n = Size(g) /\ Retries(g)
    /\ r.pc = "snapshot" =>
          /\ g.accepted
          /\ r.verdict = "linked"
          /\ UsesCache(r) => r.paths = CleanPaths(g) /\ r.libc = FinalLibc(g)
ProcessesSound ==
    \A p \in Proc : ProcessSound(proc[p])

Inv ==
    /\ TypeOK
    /\ StoreSound
    /\ BuildsSound
    /\ ProcessesSound

LEMMA IdleType == Idle \in Process
<1>1. (CHOOSE s \in Source : TRUE) \in Source /\ (CHOOSE o \in Outside : TRUE) \in Outside
  BY BuildAssumption
<1>2. NoImage \in Image
  BY DEF NoImage, Image
<1>. QED
  BY <1>1, <1>2 DEF Idle, Process, Pc, Verdict

LEMMA PathsType ==
    ASSUME NEW g \in Lowered
    PROVE  [k \in 1..Size(g) |-> ArtifactPath(g, k)] \in Seq(Path)
<1>1. Size(g) \in Nat
  BY LoweringFacts DEF Lowered
<1>. QED
  BY <1>1, PathType

LEMMA ExitType ==
    ASSUME TypeOK, NEW p \in Proc, NEW r \in Process, NEW verdict \in Verdict, NEW image \in Image,
           Exit(p, r, verdict, image)
    PROVE  proc' \in [Proc -> Process]
<1>1. [Idle EXCEPT !.pc = "done", !.src = r.src, !.cmd = r.cmd, !.mode = r.mode,
                   !.seen = r.seen, !.lost = r.lost, !.shown = r.shown,
                   !.verdict = verdict, !.image = image] \in Process
  BY IdleType DEF Process, Pc
<1>. QED
  BY <1>1 DEF Exit, Become, TypeOK

\* Replacing an element of a sequence leaves a sequence, even where there is none.
LEMMA ReplaceType ==
    ASSUME NEW S, NEW seq \in Seq(S), NEW i, NEW e \in S
    PROVE  [seq EXCEPT ![i] = e] \in Seq(S)
<1>1. Len(seq) \in Nat /\ seq \in [1..Len(seq) -> S]
  OBVIOUS
<1>2. [seq EXCEPT ![i] = e] \in [1..Len(seq) -> S]
  BY <1>1
<1>. QED
  BY <1>1, <1>2

LEMMA BecomeType ==
    ASSUME TypeOK, NEW p \in Proc, NEW r \in Process, Become(p, r)
    PROVE  proc' \in [Proc -> Process]
  BY DEF Become, TypeOK

LEMMA TypeStep == TypeOK /\ [Next]_vars => TypeOK'
<1>. SUFFICES ASSUME TypeOK, [Next]_vars PROVE TypeOK'
  OBVIOUS
<1>1. ASSUME NEW p \in Proc, Start(p) PROVE TypeOK'
  <2>0. PICK s \in Source, c \in Command :
           \E m \in Mode[s] :
              Become(p, [Idle EXCEPT !.pc = "lookup", !.src = s, !.cmd = c, !.mode = m,
                                     !.seen = {outside}])
    BY <1>1 DEF Start
  <2>1. PICK m \in Mode[s] :
           Become(p, [Idle EXCEPT !.pc = "lookup", !.src = s, !.cmd = c, !.mode = m,
                                  !.seen = {outside}])
    BY <2>0
  <2>2. c \in {"build", "check", "run", "dump"} /\ m \in {"show", "off", "error"}
    BY BuildAssumption, <2>0
  <2>3. [Idle EXCEPT !.pc = "lookup", !.src = s, !.cmd = c, !.mode = m,
                     !.seen = {outside}] \in Process
    BY <2>2, IdleType DEF TypeOK, Process, Pc
  <2>. QED
    BY <2>1, <2>3, <1>1, BecomeType DEF Start, TypeOK
<1>2. ASSUME NEW p \in Proc, Lookup(p) PROVE TypeOK'
  <2>1. proc[p] \in Process
    BY DEF TypeOK
  <2>2. [proc[p] EXCEPT !.pc = "frontend"] \in Process
    BY <2>1 DEF Process, Pc
  <2>3. ASSUME NEW s \in builds[proc[p].src]
        PROVE  [proc[p] EXCEPT !.pc = "validate", !.paths = s.paths,
                               !.libc = s.libc, !.shown = s.shown] \in Process
    <3>1. s \in Snapshot
      BY <2>1 DEF TypeOK, Process
    <3>. QED
      BY <3>1, <2>1 DEF Process, Pc, Snapshot
  <2>4. proc' \in [Proc -> Process]
    BY <1>2, <2>2, <2>3, BecomeType DEF Lookup
  <2>. QED
    BY <1>2, <2>4 DEF Lookup, TypeOK
<1>3. ASSUME NEW p \in Proc, ValidateEntry(p) PROVE TypeOK'
  <2>1. proc[p] \in Process
    BY DEF TypeOK
  <2>2. [proc[p] EXCEPT !.n = @ + 1] \in Process
    <3> DEFINE m == proc[p].n + 1
    <3>1. m \in Nat
      BY <2>1 DEF Process
    <3>2. [proc[p] EXCEPT !.n = m] \in Process
      <4>. HIDE DEF m
      <4>. QED
        BY <3>1, <2>1 DEF Process
    <3>. QED
      BY <3>2
  <2>3. [proc[p] EXCEPT !.pc = "frontend", !.n = 0, !.paths = <<>>,
                        !.libc = FALSE, !.shown = FALSE] \in Process
    <3> DEFINE none == <<>>
    <3>1. none \in Seq(Path)
      OBVIOUS
    <3>2. [proc[p] EXCEPT !.pc = "frontend", !.n = 0, !.paths = none,
                          !.libc = FALSE, !.shown = FALSE] \in Process
      <4>. HIDE DEF none
      <4>. QED
        BY <3>1, <2>1 DEF Process, Pc
    <3>. QED
      BY <3>2
  <2>4. proc' \in [Proc -> Process]
    BY <1>3, <2>2, <2>3, BecomeType DEF ValidateEntry
  <2>. QED
    BY <1>3, <2>4 DEF ValidateEntry, TypeOK
<1>4. ASSUME NEW p \in Proc, Replay(p) PROVE TypeOK'
  <2>1. proc[p] \in Process
    BY DEF TypeOK
  <2>2. [proc[p] EXCEPT !.pc = "materialize", !.n = 0] \in Process
    BY <2>1 DEF Process, Pc
  <2>3. "checked" \in Verdict /\ NoImage \in Image
    BY DEF Verdict, NoImage, Image
  <2>4. proc' \in [Proc -> Process]
    BY <1>4, <2>1, <2>2, <2>3, BecomeType, ExitType DEF Replay
  <2>. QED
    BY <1>4, <2>4 DEF Replay, TypeOK
<1>5. ASSUME NEW p \in Proc, Materialize(p) PROVE TypeOK'
  <2>1. proc[p] \in Process
    BY DEF TypeOK
  <2>2. ASSUME proc[p].n < Len(proc[p].paths), NEW a \in store[proc[p].paths[proc[p].n + 1]]
        PROVE  [proc[p] EXCEPT !.n = @ + 1, !.objs = Append(@, a)] \in Process
    <3>1. proc[p].paths \in Seq(Path) /\ proc[p].n \in Nat
      BY <2>1 DEF Process
    <3>2. proc[p].paths[proc[p].n + 1] \in Path
      BY <3>1, <2>2
    <3>3. a \in Implementation
      BY <3>2, <2>2 DEF TypeOK
    <3> DEFINE m == proc[p].n + 1
               objects == Append(proc[p].objs, a)
    <3>4. objects \in Seq(Implementation) /\ m \in Nat
      BY <3>1, <3>3, <2>1 DEF Process
    <3>5. [proc[p] EXCEPT !.n = m, !.objs = objects] \in Process
      <4>. HIDE DEF m, objects
      <4>. QED
        BY <3>4, <2>1 DEF Process
    <3>. QED
      BY <3>5
  <2>3. "unavailable" \in Verdict /\ NoImage \in Image
    BY DEF Verdict, NoImage, Image
  <2>4. proc' \in [Proc -> Process]
    BY <1>5, <2>1, <2>2, <2>3, BecomeType, ExitType DEF Materialize
  <2>. QED
    BY <1>5, <2>4 DEF Materialize, TypeOK
<1>6. ASSUME NEW p \in Proc, LinkCached(p) PROVE TypeOK'
  <2>1. proc[p] \in Process
    BY DEF TypeOK
  <2>2. "linked" \in Verdict /\ [objects |-> proc[p].objs, libc |-> proc[p].libc] \in Image
    BY <2>1 DEF Verdict, Image, Process
  <2>3. proc' \in [Proc -> Process]
    BY <1>6, <2>1, <2>2, ExitType DEF LinkCached
  <2>. QED
    BY <1>6, <2>3 DEF LinkCached, TypeOK
<1>7. ASSUME NEW p \in Proc, Frontend(p) PROVE TypeOK'
  <2> DEFINE g == Program[proc[p].src][outside]
             r == [proc[p] EXCEPT !.pc = "load", !.from = outside,
                                !.shown = g.warns /\ proc[p].mode = "show",
                                !.libc = LinksLibc(g),
                                !.paths = [k \in 1..Size(g) |-> ArtifactPath(g, k)],
                                !.left = IF UsesCache(proc[p]) THEN 1..Size(g) ELSE {}]
  <2>1. proc[p] \in Process /\ outside \in Outside
    BY DEF TypeOK
  <2>2. g \in Lowered /\ g \in Lowering /\ Size(g) \in Nat
    BY <2>1, LoweringFacts DEF Process
  <2>3. [k \in 1..Size(g) |-> ArtifactPath(g, k)] \in Seq(Path)
    BY <2>2, PathsType
  <2>4. LinksLibc(g) \in BOOLEAN /\ (g.warns /\ proc[p].mode = "show") \in BOOLEAN
    BY DEF LinksLibc
  <2>5. (IF UsesCache(proc[p]) THEN 1..Size(g) ELSE {}) \in SUBSET Nat
    BY <2>2
  <2>6. r \in Process
    <3>. HIDE DEF g
    <3>. QED
      BY <2>1, <2>3, <2>4, <2>5 DEF Process, Pc
  <2>7. "rejected" \in Verdict /\ NoImage \in Image
    BY DEF Verdict, NoImage, Image
  <2>8. proc' \in [Proc -> Process]
    <3>1. CASE Exit(p, proc[p], "rejected", NoImage)
      BY <3>1, <2>1, <2>7, ExitType
    <3>2. CASE Become(p, r)
      <4>. HIDE DEF r
      <4>. QED
        BY <3>2, <2>6, BecomeType
    <3>. QED
      BY <1>7, <3>1, <3>2 DEF Frontend
  <2>. QED
    BY <1>7, <2>8 DEF Frontend, TypeOK
<1>8. ASSUME NEW p \in Proc, LoadArtifact(p) PROVE TypeOK'
  <2>1. proc[p] \in Process
    BY DEF TypeOK
  <2> DEFINE hit(k) == ImplementationHash(Lowers(proc[p]), k) \in store[proc[p].paths[k]]
  <2>2. ASSUME NEW k \in proc[p].left
        PROVE  [proc[p] EXCEPT !.left = @ \ {k},
                               !.cached = IF hit(k) THEN @ \cup {k} ELSE @] \in Process
    <3>. HIDE DEF hit
    <3>. QED
      BY <2>1, <2>2 DEF Process
  <2>3. proc' \in [Proc -> Process]
    BY <1>8, <2>2, BecomeType DEF LoadArtifact
  <2>. QED
    BY <1>8, <2>3 DEF LoadArtifact, TypeOK
<1>9. ASSUME NEW p \in Proc, Loaded(p) PROVE TypeOK'
  <2>1. proc[p] \in Process
    BY DEF TypeOK
  <2>2. [proc[p] EXCEPT !.pc = "compile"] \in Process
    BY <2>1 DEF Process, Pc
  <2>3. "checked" \in Verdict /\ NoImage \in Image
    BY DEF Verdict, NoImage, Image
  <2>4. proc' \in [Proc -> Process]
    BY <1>9, <2>1, <2>2, <2>3, BecomeType, ExitType DEF Loaded
  <2>. QED
    BY <1>9, <2>4 DEF Loaded, TypeOK
<1>10. ASSUME NEW p \in Proc, CompileUnit(p) PROVE TypeOK'
  <2> DEFINE g == Lowers(proc[p])
             m == proc[p].n + 1
             a == ImplementationHash(g, m)
             objects == Append(proc[p].objs, a)
  <2>1. proc[p] \in Process
    BY DEF TypeOK
  <2>2. g \in Lowered /\ Size(g) \in Nat
    BY <2>1, LoweringFacts DEF Lowers, Process
  <2>3. m \in 1..Size(g)
    BY <1>10, <2>1, <2>2 DEF CompileUnit, Process
  <2>4. a \in Implementation
    BY <2>2, <2>3, HashType
  <2>5. objects \in Seq(Implementation) /\ m \in Nat
    BY <2>1, <2>3, <2>4 DEF Process
  <2>6. [proc[p] EXCEPT !.n = m, !.objs = objects] \in Process
    <3>. HIDE DEF m, objects
    <3>. QED
      BY <2>5, <2>1 DEF Process
  <2>7. proc' \in [Proc -> Process]
    BY <1>10, <2>6, BecomeType DEF CompileUnit
  <2>8. store' = store \/ store' = [store EXCEPT ![proc[p].paths[m]] = {a}]
    BY <1>10 DEF CompileUnit, Install
  <2>9. store' \in [Path -> SUBSET Implementation]
    BY <2>4, <2>8 DEF TypeOK
  <2>. QED
    BY <1>10, <2>7, <2>9 DEF CompileUnit, TypeOK
<1>11. ASSUME NEW p \in Proc, LinkFresh(p) PROVE TypeOK'
  <2>1. proc[p] \in Process
    BY DEF TypeOK
  <2>2. [proc[p] EXCEPT !.pc = "retry"] \in Process
    BY <2>1 DEF Process, Pc
  <2>3. [objects |-> proc[p].objs, libc |-> proc[p].libc] \in Image
    BY <2>1 DEF Image, Process
  <2>4. [proc[p] EXCEPT !.pc = "snapshot", !.verdict = "linked",
                        !.image = [objects |-> proc[p].objs, libc |-> proc[p].libc]] \in Process
    BY <2>1, <2>3 DEF Process, Pc, Verdict
  <2>5. proc' \in [Proc -> Process]
    BY <1>11, <2>2, <2>4, BecomeType DEF LinkFresh
  <2>. QED
    BY <1>11, <2>5 DEF LinkFresh, TypeOK
<1>12. ASSUME NEW p \in Proc, RetryHosted(p) PROVE TypeOK'
  <2> DEFINE g == Lowers(proc[p])
             runtime == RuntimeFor(g, TRUE)
             objects == [proc[p].objs EXCEPT ![Len(proc[p].objs)] = runtime]
             image == [objects |-> objects, libc |-> TRUE]
             linked == [proc[p] EXCEPT !.pc = "snapshot", !.verdict = "linked",
                            !.objs = objects, !.libc = TRUE, !.image = image]
             paths == [proc[p].paths EXCEPT ![Size(g)] = HostedPath(g)]
  <2>1. proc[p] \in Process
    BY DEF TypeOK
  <2>2. g \in Lowered
    BY <2>1, LoweringFacts DEF Lowers, Process
  <2>3. runtime \in Implementation /\ HostedPath(g) \in Path
    BY <2>2, RuntimeType, PathType
  <2>4. objects \in Seq(Implementation)
    <3>1. proc[p].objs \in Seq(Implementation)
      BY <2>1 DEF Process
    <3>. HIDE DEF runtime
    <3>. QED
      BY <2>3, <3>1, ReplaceType
  <2>5. paths \in Seq(Path)
    <3>1. proc[p].paths \in Seq(Path)
      BY <2>1 DEF Process
    <3>. HIDE DEF g
    <3>. QED
      BY <2>3, <3>1, ReplaceType
  <2>6. image \in Image
    <3>. HIDE DEF objects
    <3>. QED
      BY <2>4 DEF Image
  <2>7. linked \in Process
    <3>. HIDE DEF objects, image
    <3>. QED
      BY <2>1, <2>4, <2>6 DEF Process, Pc, Verdict
  <2>8. [linked EXCEPT !.paths = paths] \in Process
    <3>. HIDE DEF paths, linked
    <3>. QED
      BY <2>5, <2>7 DEF Process
  <2>9. [linked EXCEPT !.paths[Size(g)] = HostedPath(g)] = [linked EXCEPT !.paths = paths]
    <3>1. linked.paths = proc[p].paths
      BY <2>1 DEF Process
    <3>. HIDE DEF linked
    <3>. QED
      BY <3>1
  <2>10. proc' \in [Proc -> Process]
    <3>1. \/ Become(p, [linked EXCEPT !.paths[Size(g)] = HostedPath(g)])
          \/ Become(p, linked)
      BY <1>12 DEF RetryHosted
    <3>. HIDE DEF linked
    <3>. QED
      BY <3>1, <2>7, <2>8, <2>9, BecomeType
  <2>11. store' \in [Path -> SUBSET Implementation]
    BY <1>12, <2>3 DEF RetryHosted, TypeOK
  <2>. QED
    BY <1>12, <2>10, <2>11 DEF RetryHosted, TypeOK
<1>13. ASSUME NEW p \in Proc, StoreSnapshot(p) PROVE TypeOK'
  <2> DEFINE snapshot == [paths |-> proc[p].paths, libc |-> proc[p].libc, shown |-> proc[p].shown]
  <2>1. proc[p] \in Process
    BY DEF TypeOK
  <2>2. snapshot \in Snapshot /\ proc[p].verdict \in Verdict /\ proc[p].image \in Image
    BY <2>1 DEF Process, Snapshot
  <2>3. proc' \in [Proc -> Process]
    BY <1>13, <2>1, <2>2, ExitType DEF StoreSnapshot
  <2>4. builds' \in [Source -> SUBSET Snapshot]
    <3>. HIDE DEF snapshot
    <3>1. builds' = builds \/ builds' = [builds EXCEPT ![proc[p].src] = {snapshot}]
      BY <1>13 DEF StoreSnapshot, snapshot
    <3>. QED
      BY <2>2, <3>1 DEF TypeOK
  <2>. QED
    BY <1>13, <2>3, <2>4 DEF StoreSnapshot, TypeOK
<1>14. ASSUME NEW p \in Proc, Crash(p) \/ Retire(p) PROVE TypeOK'
  <2>1. proc' \in [Proc -> Process]
    BY <1>14, IdleType, BecomeType DEF Crash, Retire
  <2>. QED
    BY <1>14, <2>1 DEF Crash, Retire, TypeOK
<1>15. ASSUME NEW path \in Path, LoseArtifact(path) PROVE TypeOK'
  <2>1. ASSUME NEW p \in Proc
        PROVE  [proc[p] EXCEPT !.lost = proc[p].pc # "idle"] \in Process
    <3>1. proc[p] \in Process
      BY DEF TypeOK
    <3>. QED
      BY <3>1 DEF Process
  <2>2. proc' \in [Proc -> Process]
    BY <1>15, <2>1 DEF LoseArtifact
  <2>. QED
    BY <1>15, <2>2 DEF LoseArtifact, TypeOK
<1>16. ASSUME NEW s \in Source, LoseSnapshot(s) PROVE TypeOK'
  BY <1>16 DEF LoseSnapshot, TypeOK
<1>17. ASSUME NEW o \in Outside, EditOutside(o) PROVE TypeOK'
  <2>1. ASSUME NEW p \in Proc
        PROVE  [proc[p] EXCEPT !.seen = IF proc[p].pc = "idle" THEN @ ELSE @ \cup {o}] \in Process
    <3>1. proc[p] \in Process
      BY DEF TypeOK
    <3>. QED
      BY <3>1 DEF Process
  <2>2. proc' \in [Proc -> Process]
    BY <1>17, <2>1 DEF EditOutside
  <2>. QED
    BY <1>17, <2>2 DEF EditOutside, TypeOK
<1>18. CASE UNCHANGED vars
  BY <1>18 DEF vars, TypeOK
<1>. QED
  BY <1>1, <1>2, <1>3, <1>4, <1>5, <1>6, <1>7, <1>8, <1>9, <1>10, <1>11, <1>12, <1>13,
     <1>14, <1>15, <1>16, <1>17, <1>18 DEF Next, Step

\* The files of the cache and the state of every process keep their types: no
\* step stores a path, an index or an object where another kind is expected
\* (main.go:163-449).
THEOREM TypeCorrect == Spec => []TypeOK
<1>1. Init => TypeOK
  BY IdleType DEF Init, TypeOK
<1>. QED
  BY <1>1, TypeStep, PTL DEF Spec
-----------------------------------------------------------------------------
\* A prefix of a list grows by its next element.
LEMMA PrefixAppend ==
    ASSUME NEW F, NEW n \in Nat
    PROVE  Append([k \in 1..n |-> F[k]], F[n + 1]) = [k \in 1..(n + 1) |-> F[k]]
<1> DEFINE s == [k \in 1..n |-> F[k]]
           t == [k \in 1..(n + 1) |-> F[k]]
           S == {F[k] : k \in 1..(n + 1)}
<1>1. s \in Seq(S) /\ Len(s) = n
  OBVIOUS
<1>2. t \in Seq(S) /\ Len(t) = n + 1
  OBVIOUS
<1>3. F[n + 1] \in S
  OBVIOUS
<1>4. Append(s, F[n + 1]) \in Seq(S) /\ Len(Append(s, F[n + 1])) = n + 1
  BY <1>1, <1>3
<1>5. \A i \in 1..(n + 1) : Append(s, F[n + 1])[i] = t[i]
  BY <1>1
<1>. HIDE DEF s, t, S
<1>. QED
  BY <1>2, <1>4, <1>5, SeqEqual

LEMMA EmptyPrefix == ASSUME NEW F PROVE [k \in 1..0 |-> F[k]] = <<>>
  OBVIOUS

LEMMA CleanShape ==
    ASSUME NEW g \in Lowered
    PROVE  /\ Size(g) \in Nat \ {0}
           /\ Len(CleanPaths(g)) = Size(g)
           /\ FirstClean(g, Size(g)) = CleanObjects(g)
           /\ ~Retries(g) => /\ FirstObjects(g, Size(g)) = CleanObjects(g)
                             /\ FirstPaths(g) = CleanPaths(g)
                             /\ FinalLibc(g) = LinksLibc(g)
           /\ Retries(g) => FinalLibc(g) = TRUE
<1>1. Size(g) \in Nat \ {0}
  BY LoweringFacts DEF Lowered
<1>2. Len(CleanPaths(g)) = Size(g)
  BY <1>1 DEF CleanPaths
<1>3. FirstClean(g, Size(g)) = CleanObjects(g)
  BY DEF FirstClean, CleanObjects
<1>4. ASSUME ~Retries(g) PROVE FirstObjects(g, Size(g)) = CleanObjects(g)
  BY <1>4 DEF FirstObjects, CleanObjects
<1>5. ASSUME ~Retries(g) PROVE FirstPaths(g) = CleanPaths(g)
  BY <1>5 DEF FirstPaths, CleanPaths
<1>6. /\ ~Retries(g) => FinalLibc(g) = LinksLibc(g)
      /\ Retries(g) => FinalLibc(g) = TRUE
  BY DEF FinalLibc, LinksLibc
<1>. QED
  BY <1>1, <1>2, <1>3, <1>4, <1>5, <1>6

LEMMA SameProgram ==
    ASSUME HashCoversInputs, NEW s \in Source, NEW o1 \in Outside, NEW o2 \in Outside
    PROVE  Program[s][o1] = Program[s][o2]
  BY DEF HashCoversInputs

\* The replayed entry is the object a clean build links at that place.
LEMMA ReplayedObject ==
    ASSUME StoreSound, NEW g \in Lowered, NEW k \in 1..Size(g),
           NEW artifact \in store[CleanPaths(g)[k]]
    PROVE  artifact = CleanObjects(g)[k]
<1>1. CASE k = Size(g) /\ Retries(g)
  <2>1. CleanPaths(g)[k] = HostedPath(g) /\ CleanObjects(g)[k] = RuntimeFor(g, TRUE)
    BY <1>1 DEF CleanPaths, CleanObjects
  <2>. QED
    BY <2>1, PathType DEF StoreSound, Belongs
<1>2. CASE ~(k = Size(g) /\ Retries(g))
  <2>1. CleanPaths(g)[k] = ArtifactPath(g, k) /\ CleanObjects(g)[k] = ImplementationHash(g, k)
    BY <1>2 DEF CleanPaths, CleanObjects
  <2>2. ArtifactPath(g, k) \in Path
    BY PathType
  <2>3. Belongs(ArtifactPath(g, k), artifact)
    BY <2>1, <2>2 DEF StoreSound
  <2>. QED
    BY <2>1, <2>3 DEF Belongs
<1>. QED
  BY <1>1, <1>2

LEMMA BecomeSound ==
    ASSUME TypeOK, ProcessesSound, NEW p \in Proc, NEW r, ProcessSound(r), Become(p, r)
    PROVE  ProcessesSound'
  BY DEF TypeOK, ProcessesSound, Become

LEMMA IdleSound == ProcessSound(Idle)
<1>1. (CHOOSE s \in Source : TRUE) \in Source /\ (CHOOSE o \in Outside : TRUE) \in Outside
  BY BuildAssumption
<1>. QED
  BY <1>1 DEF Idle, ProcessSound, Pc

LEMMA ExitSound ==
    ASSUME HashCoversInputs, TypeOK, ProcessesSound, NEW p \in Proc, NEW verdict, NEW image,
           proc[p].pc # "idle",
           Exit(p, proc[p], verdict, image),
           verdict = "linked" =>
               Lowers(proc[p]).accepted /\ image = Clean(Lowers(proc[p]))
    PROVE  ProcessesSound'
<1> DEFINE r == [Idle EXCEPT !.pc = "done", !.src = proc[p].src, !.cmd = proc[p].cmd,
                             !.mode = proc[p].mode, !.seen = proc[p].seen,
                             !.lost = proc[p].lost, !.shown = proc[p].shown,
                             !.verdict = verdict, !.image = image]
<1>1. ProcessSound(proc[p])
  BY DEF ProcessesSound
<1>2. /\ r.pc = "done" /\ r.src = proc[p].src /\ r.seen = proc[p].seen
      /\ r.verdict = verdict /\ r.image = image /\ r.from \in Outside
  BY BuildAssumption DEF Idle
<1>3. r.src \in Source /\ r.seen # {} /\ r.seen \subseteq Outside /\ proc[p].from \in Outside
  BY <1>1, <1>2 DEF ProcessSound
<1>4. Lowers(r) = Lowers(proc[p])
  BY <1>2, <1>3, SameProgram DEF Lowers
<1>5. ProcessSound(r)
  <2>. HIDE DEF r
  <2>1. ASSUME r.verdict = "linked" PROVE Lowers(r).accepted /\ r.image = Clean(Lowers(r))
    <3>1. Lowers(proc[p]).accepted /\ image = Clean(Lowers(proc[p]))
      BY <1>2, <2>1
    <3>. QED
      BY <1>2, <1>4, <3>1
  <2>2. r.pc \in Pc
    BY <1>2 DEF Pc
  <2>. QED
    BY <1>2, <1>3, <2>1, <2>2 DEF ProcessSound
<1>. QED
  BY <1>5, BecomeSound DEF Exit
-----------------------------------------------------------------------------
\* The facts every step of the soundness proof starts from.
Started(r) ==
    /\ r.src \in Source
    /\ r.from \in Outside
    /\ r.seen # {} /\ r.seen \subseteq Outside

LEMMA ProcessFacts ==
    ASSUME TypeOK, ProcessesSound, NEW p \in Proc
    PROVE  /\ proc[p] \in Process
           /\ ProcessSound(proc[p])
           /\ Lowers(proc[p]) \in Lowered
           /\ Size(Lowers(proc[p])) \in Nat \ {0}
           /\ proc[p].pc # "idle" => Started(proc[p])
<1>1. proc[p] \in Process /\ ProcessSound(proc[p])
  BY DEF TypeOK, ProcessesSound
<1>2. proc[p].src \in Source /\ proc[p].from \in Outside
  BY <1>1 DEF Process
<1>3. proc[p].pc # "idle" => Started(proc[p])
  BY <1>1 DEF ProcessSound, Started
<1>. QED
  BY <1>1, <1>2, <1>3, LoweringFacts DEF Lowers

\* The steps before the replay or the front end.
LEMMA SearchSound ==
    ASSUME HashCoversInputs, Inv, NEW p \in Proc,
           Start(p) \/ Lookup(p) \/ ValidateEntry(p) \/ Replay(p)
    PROVE  ProcessesSound'
<1> DEFINE r == proc[p]
           g == Lowers(r)
<1>1. /\ TypeOK /\ ProcessesSound /\ BuildsSound
      /\ r \in Process /\ ProcessSound(r) /\ g \in Lowered /\ Size(g) \in Nat \ {0}
  BY ProcessFacts DEF Inv
<1>2. r.src \in Source /\ r.from \in Outside
  BY <1>1 DEF ProcessSound
<1>3. CASE Start(p)
  <2>0. PICK s \in Source, c \in Command :
           \E m \in Mode[s] :
              Become(p, [Idle EXCEPT !.pc = "lookup", !.src = s, !.cmd = c, !.mode = m,
                                     !.seen = {outside}])
    BY <1>3 DEF Start
  <2>1. PICK m \in Mode[s] :
           Become(p, [Idle EXCEPT !.pc = "lookup", !.src = s, !.cmd = c, !.mode = m,
                                  !.seen = {outside}])
    BY <2>0
  <2> DEFINE x == [Idle EXCEPT !.pc = "lookup", !.src = s, !.cmd = c, !.mode = m,
                               !.seen = {outside}]
  <2>2. /\ x.pc = "lookup" /\ x.src = s /\ x.seen = {outside} /\ x.n = 0 /\ x.objs = <<>>
        /\ x.from \in Outside /\ x.verdict = "none"
    BY BuildAssumption DEF Idle
  <2>3. outside \in Outside
    BY <1>1 DEF TypeOK
  <2>4. ProcessSound(x)
    <3>. HIDE DEF x
    <3>. QED
      BY <2>2, <2>3 DEF ProcessSound, Pc
  <2>. QED
    BY <1>1, <2>1, <2>4, BecomeSound
<1>4. CASE Lookup(p)
  <2>1. r.pc = "lookup" /\ r.n = 0 /\ r.objs = <<>>
    BY <1>1, <1>4 DEF Lookup, ProcessSound
  <2>2. ASSUME Become(p, [r EXCEPT !.pc = "frontend"]) PROVE ProcessesSound'
    <3> DEFINE x == [r EXCEPT !.pc = "frontend"]
    <3>1. /\ x.pc = "frontend" /\ x.src = r.src /\ x.from = r.from /\ x.seen = r.seen
          /\ x.n = r.n /\ x.objs = r.objs /\ x.verdict = r.verdict
      BY <1>1 DEF Process
    <3>2. ProcessSound(x)
      <4>. HIDE DEF x
      <4>. QED
        BY <1>1, <2>1, <3>1 DEF ProcessSound, Pc
    <3>. QED
      BY <1>1, <2>2, <3>2, BecomeSound
  <2>3. ASSUME NEW t \in builds[r.src],
               Become(p, [r EXCEPT !.pc = "validate", !.paths = t.paths,
                                   !.libc = t.libc, !.shown = t.shown])
        PROVE  ProcessesSound'
    <3> DEFINE x == [r EXCEPT !.pc = "validate", !.paths = t.paths,
                              !.libc = t.libc, !.shown = t.shown]
    <3>1. /\ x.pc = "validate" /\ x.src = r.src /\ x.from = r.from /\ x.seen = r.seen
          /\ x.n = r.n /\ x.objs = r.objs /\ x.verdict = r.verdict
          /\ x.paths = t.paths /\ x.libc = t.libc
      BY <1>1 DEF Process
    <3>2. Replays(x.src, x.paths, x.libc)
      BY <1>1, <1>2, <3>1 DEF BuildsSound
    <3>3. Lowers(x) = g
      BY <3>1 DEF Lowers
    <3>4. x.n \in 0..Size(Lowers(x))
      BY <1>1, <2>1, <3>1, <3>3
    <3>5. ProcessSound(x)
      <4>. HIDE DEF x, g
      <4>. QED
        BY <1>1, <2>1, <3>1, <3>2, <3>4 DEF ProcessSound, Pc
    <3>. QED
      BY <1>1, <2>3, <3>5, BecomeSound
  <2>. QED
    BY <1>4, <2>2, <2>3 DEF Lookup
<1>5. CASE ValidateEntry(p)
  <2>1. /\ r.pc = "validate" /\ r.objs = <<>> /\ Replays(r.src, r.paths, r.libc)
        /\ r.n \in Nat /\ r.verdict # "linked" /\ r.n < Len(r.paths)
    BY <1>1, <1>5 DEF ValidateEntry, ProcessSound
  <2>2. r.n + 1 \in 0..Size(g)
    <3>1. Len(r.paths) = Size(g)
      BY <1>1, <1>2, <2>1, CleanShape DEF Replays, Lowers
    <3>. QED
      BY <1>1, <2>1, <3>1
  <2>3. ASSUME Become(p, [r EXCEPT !.n = @ + 1]) PROVE ProcessesSound'
    <3> DEFINE x == [r EXCEPT !.n = @ + 1]
    <3>1. /\ x.pc = r.pc /\ x.src = r.src /\ x.from = r.from /\ x.seen = r.seen
          /\ x.n = r.n + 1 /\ x.objs = r.objs /\ x.verdict = r.verdict
          /\ x.paths = r.paths /\ x.libc = r.libc
      BY <1>1 DEF Process
    <3>2. Lowers(x) = g
      BY <3>1 DEF Lowers
    <3>3. x.n \in 0..Size(Lowers(x)) /\ x.n \in Nat
      BY <2>1, <2>2, <3>1, <3>2
    <3>4. ProcessSound(x)
      <4>. HIDE DEF x, g
      <4>. QED
        BY <1>1, <2>1, <3>1, <3>3 DEF ProcessSound, Pc
    <3>. QED
      BY <1>1, <2>3, <3>4, BecomeSound
  <2>4. ASSUME Become(p, [r EXCEPT !.pc = "frontend", !.n = 0, !.paths = <<>>,
                                   !.libc = FALSE, !.shown = FALSE])
        PROVE ProcessesSound'
    <3> DEFINE x == [r EXCEPT !.pc = "frontend", !.n = 0, !.paths = <<>>,
                              !.libc = FALSE, !.shown = FALSE]
    <3>1. /\ x.pc = "frontend" /\ x.src = r.src /\ x.from = r.from /\ x.seen = r.seen
          /\ x.n = 0 /\ x.objs = r.objs /\ x.verdict = r.verdict
      BY <1>1 DEF Process
    <3>2. ProcessSound(x)
      <4>. HIDE DEF x
      <4>. QED
        BY <1>1, <2>1, <3>1 DEF ProcessSound, Pc
    <3>. QED
      BY <1>1, <2>4, <3>2, BecomeSound
  <2>. QED
    BY <1>5, <2>3, <2>4 DEF ValidateEntry
<1>6. CASE Replay(p)
  <2>1. /\ r.pc = "validate" /\ r.objs = <<>> /\ Replays(r.src, r.paths, r.libc)
        /\ r.verdict # "linked"
    BY <1>1, <1>6 DEF Replay, ProcessSound
  <2>2. ASSUME Exit(p, r, "checked", NoImage) PROVE ProcessesSound'
    BY <1>1, <2>1, <2>2, ExitSound
  <2>3. ASSUME Become(p, [r EXCEPT !.pc = "materialize", !.n = 0]) PROVE ProcessesSound'
    <3> DEFINE x == [r EXCEPT !.pc = "materialize", !.n = 0]
    <3>1. /\ x.pc = "materialize" /\ x.src = r.src /\ x.from = r.from /\ x.seen = r.seen
          /\ x.n = 0 /\ x.objs = r.objs /\ x.verdict = r.verdict
          /\ x.paths = r.paths /\ x.libc = r.libc
      BY <1>1 DEF Process
    <3>2. Lowers(x) = g
      BY <3>1 DEF Lowers
    <3>3. x.n \in 0..Size(Lowers(x)) /\ x.objs = FirstClean(Lowers(x), x.n)
      BY <1>1, <2>1, <3>1, <3>2 DEF FirstClean
    <3>4. ProcessSound(x)
      <4>. HIDE DEF x, g
      <4>. QED
        BY <1>1, <2>1, <3>1, <3>3 DEF ProcessSound, Pc
    <3>. QED
      BY <1>1, <2>3, <3>4, BecomeSound
  <2>. QED
    BY <1>6, <2>2, <2>3 DEF Replay
<1>. QED
  BY <1>3, <1>4, <1>5, <1>6

\* The steps that replay a snapshot.
LEMMA ReplaySound ==
    ASSUME HashCoversInputs, Inv, NEW p \in Proc, Materialize(p) \/ LinkCached(p)
    PROVE  ProcessesSound'
<1> DEFINE r == proc[p]
           g == Lowers(r)
<1>1. /\ TypeOK /\ ProcessesSound /\ StoreSound
      /\ r \in Process /\ ProcessSound(r) /\ g \in Lowered /\ Size(g) \in Nat \ {0}
  BY ProcessFacts DEF Inv
<1>2. /\ r.pc = "materialize" /\ Replays(r.src, r.paths, r.libc) /\ r.n \in 0..Size(g)
      /\ r.objs = FirstClean(g, r.n) /\ r.verdict # "linked"
  BY <1>1 DEF ProcessSound, Materialize, LinkCached
<1>3. r.src \in Source /\ r.from \in Outside
  BY <1>1 DEF ProcessSound
<1>4. g.accepted /\ r.paths = CleanPaths(g) /\ r.libc = FinalLibc(g)
  BY <1>2, <1>3 DEF Replays, Lowers
<1>5. Len(r.paths) = Size(g)
  BY <1>1, <1>4, CleanShape
<1>6. CASE Materialize(p)
  <2>1. ASSUME Exit(p, r, "unavailable", NoImage) PROVE ProcessesSound'
    BY <1>1, <1>2, <2>1, ExitSound
  <2>2. ASSUME r.n < Len(r.paths), NEW artifact \in store[r.paths[r.n + 1]],
               Become(p, [r EXCEPT !.n = @ + 1, !.objs = Append(@, artifact)])
        PROVE  ProcessesSound'
    <3> DEFINE x == [r EXCEPT !.n = @ + 1, !.objs = Append(@, artifact)]
    <3>1. r.n + 1 \in 1..Size(g) /\ r.n \in Nat
      BY <1>1, <1>2, <1>5, <2>2
    <3>2. artifact = CleanObjects(g)[r.n + 1]
      BY <1>1, <1>4, <2>2, <3>1, ReplayedObject
    <3>3. Append(r.objs, artifact) = FirstClean(g, r.n + 1)
      BY <1>2, <3>1, <3>2, PrefixAppend DEF FirstClean
    <3>4. /\ x.pc = "materialize" /\ x.src = r.src /\ x.from = r.from /\ x.seen = r.seen
          /\ x.n = r.n + 1 /\ x.objs = FirstClean(g, r.n + 1) /\ x.verdict = r.verdict
          /\ x.paths = r.paths /\ x.libc = r.libc
      BY <1>1, <1>2, <3>3 DEF Process
    <3>5. Lowers(x) = g
      BY <3>4 DEF Lowers
    <3>6. r.n + 1 \in 0..Size(g)
      BY <1>1, <3>1
    <3>7. x.n \in 0..Size(Lowers(x)) /\ x.objs = FirstClean(Lowers(x), x.n)
      <4>. HIDE DEF x, g
      <4>. QED
        BY <3>4, <3>5, <3>6
    <3>8. ProcessSound(x)
      <4>. HIDE DEF x, g
      <4>. QED
        BY <1>1, <1>2, <3>4, <3>7 DEF ProcessSound, Pc
    <3>. QED
      BY <1>1, <2>2, <3>8, BecomeSound
  <2>. QED
    BY <1>6, <2>1, <2>2 DEF Materialize
<1>7. CASE LinkCached(p)
  <2>1. r.n = Size(g) /\ Exit(p, r, "linked", [objects |-> r.objs, libc |-> r.libc])
    BY <1>5, <1>7 DEF LinkCached
  <2>2. [objects |-> r.objs, libc |-> r.libc] = Clean(g)
    BY <1>1, <1>2, <1>4, <2>1, CleanShape DEF Clean
  <2>. QED
    BY <1>1, <1>2, <1>4, <2>1, <2>2, ExitSound
<1>. QED
  BY <1>6, <1>7

\* The front end and the loads.
LEMMA LowerSound ==
    ASSUME HashCoversInputs, Inv, NEW p \in Proc,
           Frontend(p) \/ LoadArtifact(p) \/ Loaded(p)
    PROVE  ProcessesSound'
<1> DEFINE r == proc[p]
           g == Lowers(r)
<1>1. /\ TypeOK /\ ProcessesSound
      /\ r \in Process /\ ProcessSound(r) /\ g \in Lowered /\ Size(g) \in Nat \ {0}
  BY ProcessFacts DEF Inv
<1>2. CASE Frontend(p)
  <2>1. /\ r.pc = "frontend" /\ r.n = 0 /\ r.objs = <<>> /\ r.verdict # "linked"
        /\ r.src \in Source /\ outside \in Outside
    BY <1>1, <1>2 DEF Frontend, ProcessSound, TypeOK
  <2> DEFINE h == Program[r.src][outside]
             x == [r EXCEPT !.pc = "load", !.from = outside,
                                !.shown = h.warns /\ r.mode = "show",
                                !.libc = LinksLibc(h),
                                !.paths = [k \in 1..Size(h) |-> ArtifactPath(h, k)],
                                !.left = IF UsesCache(r) THEN 1..Size(h) ELSE {}]
  <2>2. ASSUME Exit(p, r, "rejected", NoImage) PROVE ProcessesSound'
    BY <1>1, <2>1, <2>2, ExitSound
  <2>3. ASSUME h.accepted, Become(p, x) PROVE ProcessesSound'
    <3>1. /\ x.pc = "load" /\ x.src = r.src /\ x.from = outside /\ x.seen = r.seen
          /\ x.n = 0 /\ x.objs = <<>> /\ x.verdict = r.verdict
          /\ x.paths = FirstPaths(h) /\ x.libc = LinksLibc(h) /\ x.left \subseteq 1..Size(h)
      BY <1>1, <2>1 DEF Process, FirstPaths
    <3>2. Lowers(x) = h
      BY <3>1 DEF Lowers
    <3>3. /\ Lowers(x).accepted /\ x.paths = FirstPaths(Lowers(x))
          /\ x.libc = LinksLibc(Lowers(x)) /\ x.left \subseteq 1..Size(Lowers(x))
      BY <2>3, <3>1, <3>2
    <3>4. ProcessSound(x)
      <4>. HIDE DEF x, h, g
      <4>. QED
        BY <1>1, <2>1, <3>1, <3>3 DEF ProcessSound, Pc
    <3>. QED
      BY <1>1, <2>3, <3>4, BecomeSound
  <2>. QED
    BY <1>2, <2>2, <2>3 DEF Frontend
<1>3. CASE LoadArtifact(p)
  <2>1. /\ r.pc = "load" /\ r.n = 0 /\ r.objs = <<>> /\ r.verdict # "linked"
        /\ g.accepted /\ r.paths = FirstPaths(g) /\ r.libc = LinksLibc(g)
        /\ r.left \subseteq 1..Size(g)
    BY <1>1, <1>3 DEF LoadArtifact, ProcessSound
  <2>2. PICK k \in r.left :
           Become(p, [r EXCEPT !.left = @ \ {k},
                               !.cached = IF ImplementationHash(g, k) \in store[r.paths[k]]
                                          THEN @ \cup {k} ELSE @])
    BY <1>3 DEF LoadArtifact
  <2> DEFINE c == IF ImplementationHash(g, k) \in store[r.paths[k]]
                  THEN r.cached \cup {k} ELSE r.cached
             x == [r EXCEPT !.left = r.left \ {k}, !.cached = c]
  <2>3. /\ x.pc = "load" /\ x.src = r.src /\ x.from = r.from /\ x.seen = r.seen
        /\ x.n = 0 /\ x.objs = <<>> /\ x.verdict = r.verdict
        /\ x.paths = r.paths /\ x.libc = r.libc /\ x.left = r.left \ {k}
    <3>. HIDE DEF c
    <3>. QED
      BY <1>1, <2>1 DEF Process
  <2>4. Lowers(x) = g
    BY <2>3 DEF Lowers
  <2>5. /\ Lowers(x).accepted /\ x.paths = FirstPaths(Lowers(x))
        /\ x.libc = LinksLibc(Lowers(x)) /\ x.left \subseteq 1..Size(Lowers(x))
    BY <2>1, <2>3, <2>4
  <2>6. ProcessSound(x)
    <3>. HIDE DEF x, g
    <3>. QED
      BY <1>1, <2>1, <2>3, <2>5 DEF ProcessSound, Pc
  <2>7. Become(p, x)
    BY <2>2
  <2>. QED
    BY <1>1, <2>6, <2>7, BecomeSound
<1>4. CASE Loaded(p)
  <2>1. /\ r.pc = "load" /\ r.n = 0 /\ r.objs = <<>> /\ r.verdict # "linked"
        /\ g.accepted /\ r.paths = FirstPaths(g) /\ r.libc = LinksLibc(g)
    BY <1>1, <1>4 DEF Loaded, ProcessSound
  <2>2. ASSUME Exit(p, r, "checked", NoImage) PROVE ProcessesSound'
    BY <1>1, <2>1, <2>2, ExitSound
  <2>3. ASSUME Become(p, [r EXCEPT !.pc = "compile"]) PROVE ProcessesSound'
    <3> DEFINE x == [r EXCEPT !.pc = "compile"]
    <3>1. /\ x.pc = "compile" /\ x.src = r.src /\ x.from = r.from /\ x.seen = r.seen
          /\ x.n = 0 /\ x.objs = <<>> /\ x.verdict = r.verdict
          /\ x.paths = r.paths /\ x.libc = r.libc
      BY <1>1, <2>1 DEF Process
    <3>2. Lowers(x) = g
      BY <3>1 DEF Lowers
    <3>3. /\ Lowers(x).accepted /\ x.paths = FirstPaths(Lowers(x))
          /\ x.libc = LinksLibc(Lowers(x))
          /\ x.n \in 0..Size(Lowers(x)) /\ x.objs = FirstObjects(Lowers(x), x.n)
      BY <1>1, <2>1, <3>1, <3>2 DEF FirstObjects
    <3>4. ProcessSound(x)
      <4>. HIDE DEF x, g
      <4>. QED
        BY <1>1, <2>1, <3>1, <3>3 DEF ProcessSound, Pc
    <3>. QED
      BY <1>1, <2>3, <3>4, BecomeSound
  <2>. QED
    BY <1>4, <2>2, <2>3 DEF Loaded
<1>. QED
  BY <1>2, <1>3, <1>4

\* A unit is compiled, and stored where it belongs.
LEMMA CompileSound ==
    ASSUME SpecializationsAddressed, Inv, NEW p \in Proc, CompileUnit(p)
    PROVE  StoreSound' /\ ProcessesSound'
<1> DEFINE r == proc[p]
           g == Lowers(r)
           e == ImplementationHash(g, r.n + 1)
           x == [r EXCEPT !.n = @ + 1, !.objs = Append(@, e)]
<1>1. /\ TypeOK /\ ProcessesSound /\ StoreSound
      /\ r \in Process /\ ProcessSound(r) /\ g \in Lowered /\ Size(g) \in Nat \ {0}
  BY ProcessFacts DEF Inv
<1>2. r.pc = "compile" /\ r.n < Size(g) /\ Started(r)
  BY ProcessFacts DEF Inv, CompileUnit
<1>3. /\ g.accepted /\ r.paths = FirstPaths(g) /\ r.libc = LinksLibc(g)
      /\ r.n \in 0..Size(g) /\ r.objs = FirstObjects(g, r.n) /\ r.verdict # "linked"
  BY <1>1, <1>2 DEF ProcessSound
<1>4. r.n \in Nat /\ r.n + 1 \in 1..Size(g) /\ r.n + 1 \in 0..Size(g)
  BY <1>1, <1>2, <1>3
<1>5. r.paths[r.n + 1] = ArtifactPath(g, r.n + 1)
  BY <1>3, <1>4 DEF FirstPaths
<1>6. StoreSound'
  <2>1. Belongs(ArtifactPath(g, r.n + 1), e)
    BY <1>1, <1>4, PathsBelong
  <2>2. store' = store \/ store' = [store EXCEPT ![ArtifactPath(g, r.n + 1)] = {e}]
    BY <1>5 DEF CompileUnit, Install
  <2>. HIDE DEF g, r, e
  <2>. QED
    BY <1>1, <2>1, <2>2 DEF StoreSound, TypeOK
<1>7. Append(r.objs, e) = FirstObjects(g, r.n + 1)
  <2> DEFINE F == [k \in 1..Size(g) |-> ImplementationHash(g, k)]
  <2>1. FirstObjects(g, r.n) = [k \in 1..r.n |-> F[k]]
    BY <1>1, <1>4 DEF FirstObjects
  <2>2. FirstObjects(g, r.n + 1) = [k \in 1..(r.n + 1) |-> F[k]]
    BY <1>1, <1>4 DEF FirstObjects
  <2>3. F[r.n + 1] = e
    BY <1>4
  <2>. HIDE DEF F, e
  <2>. QED
    BY <1>3, <1>4, <2>1, <2>2, <2>3, PrefixAppend
<1>8. ProcessesSound'
  <2>1. /\ x.pc = "compile" /\ x.src = r.src /\ x.from = r.from /\ x.seen = r.seen
        /\ x.n = r.n + 1 /\ x.objs = FirstObjects(g, r.n + 1) /\ x.verdict = r.verdict
        /\ x.paths = r.paths /\ x.libc = r.libc
    <3>. HIDE DEF e
    <3>. QED
      BY <1>1, <1>2, <1>7 DEF Process
  <2>2. Lowers(x) = g
    BY <2>1 DEF Lowers
  <2>3. /\ Lowers(x).accepted /\ x.paths = FirstPaths(Lowers(x))
        /\ x.libc = LinksLibc(Lowers(x))
        /\ x.n \in 0..Size(Lowers(x)) /\ x.objs = FirstObjects(Lowers(x), x.n)
    <3>. HIDE DEF x, g
    <3>. QED
      BY <1>3, <1>4, <2>1, <2>2
  <2>4. ProcessSound(x)
    <3>. HIDE DEF x, g
    <3>. QED
      BY <1>2, <1>3, <2>1, <2>3 DEF ProcessSound, Pc, Started
  <2>5. Become(p, x)
    BY DEF CompileUnit
  <2>. QED
    BY <1>1, <2>4, <2>5, BecomeSound
<1>. QED
  BY <1>6, <1>8

\* The first link.
LEMMA LinkSound ==
    ASSUME Inv, NEW p \in Proc, LinkFresh(p)
    PROVE  ProcessesSound'
<1> DEFINE r == proc[p]
           g == Lowers(r)
           x == [r EXCEPT !.pc = "retry"]
           y == [r EXCEPT !.pc = "snapshot", !.verdict = "linked",
                          !.image = [objects |-> r.objs, libc |-> r.libc]]
<1>1. /\ TypeOK /\ ProcessesSound
      /\ r \in Process /\ ProcessSound(r) /\ g \in Lowered /\ Size(g) \in Nat \ {0}
  BY ProcessFacts DEF Inv
<1>2. r.pc = "compile" /\ r.n = Size(g) /\ Started(r)
  BY ProcessFacts DEF Inv, LinkFresh
<1>3. /\ g.accepted /\ r.paths = FirstPaths(g) /\ r.libc = LinksLibc(g)
      /\ r.n \in 0..Size(g) /\ r.objs = FirstObjects(g, r.n) /\ r.verdict # "linked"
  BY <1>1, <1>2 DEF ProcessSound
<1>4. ASSUME Retries(g), Become(p, x) PROVE ProcessesSound'
  <2>1. /\ x.pc = "retry" /\ x.src = r.src /\ x.from = r.from /\ x.seen = r.seen
        /\ x.n = r.n /\ x.objs = r.objs /\ x.verdict = r.verdict
        /\ x.paths = r.paths /\ x.libc = r.libc
    BY <1>1 DEF Process
  <2>2. Lowers(x) = g
    BY <2>1 DEF Lowers
  <2>3. /\ Lowers(x).accepted /\ x.paths = FirstPaths(Lowers(x))
        /\ x.libc = LinksLibc(Lowers(x)) /\ Retries(Lowers(x)) /\ x.n = Size(Lowers(x))
        /\ x.n \in 0..Size(Lowers(x)) /\ x.objs = FirstObjects(Lowers(x), x.n)
    <3>. HIDE DEF x, g
    <3>. QED
      BY <1>2, <1>3, <1>4, <2>1, <2>2
  <2>4. ProcessSound(x)
    <3>. HIDE DEF x, g
    <3>. QED
      BY <1>2, <1>3, <2>1, <2>3 DEF ProcessSound, Pc, Started
  <2>. QED
    BY <1>1, <1>4, <2>4, BecomeSound
<1>5. ASSUME ~Retries(g), Become(p, y) PROVE ProcessesSound'
  <2>1. /\ y.pc = "snapshot" /\ y.src = r.src /\ y.from = r.from /\ y.seen = r.seen
        /\ y.verdict = "linked" /\ y.paths = r.paths /\ y.libc = r.libc
        /\ y.image = [objects |-> r.objs, libc |-> r.libc]
    BY <1>1 DEF Process
  <2>2. Lowers(y) = g
    BY <2>1 DEF Lowers
  <2>3. /\ r.objs = CleanObjects(g) /\ r.paths = CleanPaths(g) /\ r.libc = FinalLibc(g)
    BY <1>1, <1>2, <1>3, <1>5, CleanShape
  <2>4. /\ Lowers(y).accepted /\ y.image = Clean(Lowers(y))
        /\ y.paths = CleanPaths(Lowers(y)) /\ y.libc = FinalLibc(Lowers(y))
    <3>. HIDE DEF y, g
    <3>. QED
      BY <1>3, <2>1, <2>2, <2>3 DEF Clean
  <2>5. ProcessSound(y)
    <3>. HIDE DEF y, g
    <3>. QED
      BY <1>2, <2>1, <2>4 DEF ProcessSound, Pc, Started
  <2>. QED
    BY <1>1, <1>5, <2>5, BecomeSound
<1>. QED
  BY <1>4, <1>5 DEF LinkFresh

\* Replacing the last object and the last path of a first link gives those of
\* a clean build that is linked twice.
LEMMA HostedShape ==
    ASSUME NEW g \in Lowered, Retries(g)
    PROVE  LET objs == FirstObjects(g, Size(g))
           IN  /\ [objs EXCEPT ![Len(objs)] = RuntimeFor(g, TRUE)] = CleanObjects(g)
               /\ [FirstPaths(g) EXCEPT ![Size(g)] = HostedPath(g)] = CleanPaths(g)
<1> DEFINE objs == FirstObjects(g, Size(g))
<1>1. Size(g) \in Nat \ {0}
  BY CleanShape
<1>2. Len(objs) = Size(g)
  BY <1>1 DEF FirstObjects
<1>3. [objs EXCEPT ![Size(g)] = RuntimeFor(g, TRUE)] = CleanObjects(g)
  BY <1>1 DEF FirstObjects, CleanObjects
<1>4. [FirstPaths(g) EXCEPT ![Size(g)] = HostedPath(g)] = CleanPaths(g)
  BY <1>1 DEF FirstPaths, CleanPaths
<1>. QED
  BY <1>2, <1>3, <1>4

\* The second link.
LEMMA RetrySound ==
    ASSUME SpecializationsAddressed, HostedStoreReliable, Inv, NEW p \in Proc, RetryHosted(p)
    PROVE  StoreSound' /\ ProcessesSound'
<1> DEFINE r == proc[p]
           g == Lowers(r)
           e == RuntimeFor(g, TRUE)
           objects == [r.objs EXCEPT ![Len(r.objs)] = e]
           linked == [r EXCEPT !.pc = "snapshot", !.verdict = "linked", !.objs = objects,
                               !.libc = TRUE, !.image = [objects |-> objects, libc |-> TRUE]]
           paths == [r.paths EXCEPT ![Size(g)] = HostedPath(g)]
           x == [linked EXCEPT !.paths[Size(g)] = HostedPath(g)]
<1>1. /\ TypeOK /\ ProcessesSound /\ StoreSound
      /\ r \in Process /\ ProcessSound(r) /\ g \in Lowered /\ Size(g) \in Nat \ {0}
  BY ProcessFacts DEF Inv
<1>2. r.pc = "retry" /\ Started(r)
  BY ProcessFacts DEF Inv, RetryHosted
<1>3. /\ g.accepted /\ r.paths = FirstPaths(g) /\ Retries(g) /\ r.objs = FirstObjects(g, Size(g))
  BY <1>1, <1>2 DEF ProcessSound
<1>4. objects = CleanObjects(g) /\ paths = CleanPaths(g) /\ FinalLibc(g) = TRUE
  BY <1>1, <1>3, HostedShape, CleanShape
<1>5. StoreSound'
  <2>1. Belongs(HostedPath(g), e)
    BY <1>1, PathsBelong
  <2>2. store' = store \/ store' = [store EXCEPT ![HostedPath(g)] = {e}]
    BY DEF RetryHosted
  <2>. HIDE DEF g, r, e
  <2>. QED
    BY <1>1, <2>1, <2>2 DEF StoreSound, TypeOK
<1>6. /\ linked.pc = "snapshot" /\ linked.src = r.src /\ linked.from = r.from
      /\ linked.seen = r.seen /\ linked.verdict = "linked" /\ linked.cmd = r.cmd
      /\ linked.image = Clean(g) /\ linked.libc = TRUE /\ linked.paths = r.paths
  <2>1. [objects |-> objects, libc |-> TRUE] = Clean(g)
    BY <1>4 DEF Clean
  <2>. HIDE DEF objects
  <2>. QED
    BY <1>1, <2>1 DEF Process
<1>7. /\ x.pc = "snapshot" /\ x.src = r.src /\ x.from = r.from /\ x.seen = r.seen
      /\ x.verdict = "linked" /\ x.cmd = r.cmd
      /\ x.image = Clean(g) /\ x.libc = TRUE /\ x.paths = CleanPaths(g)
  <2>1. x.paths = CleanPaths(g)
    <3>1. x.paths = [linked.paths EXCEPT ![Size(g)] = HostedPath(g)]
      BY <1>1 DEF Process
    <3>. HIDE DEF linked, x
    <3>. QED
      BY <1>4, <1>6, <3>1
  <2>. HIDE DEF linked
  <2>. QED
    BY <1>6, <2>1
<1>8. ASSUME Become(p, x) PROVE ProcessesSound'
  <2>1. Lowers(x) = g
    BY <1>7 DEF Lowers
  <2>2. /\ Lowers(x).accepted /\ x.image = Clean(Lowers(x))
        /\ x.paths = CleanPaths(Lowers(x)) /\ x.libc = FinalLibc(Lowers(x))
    <3>. HIDE DEF x, g
    <3>. QED
      BY <1>3, <1>4, <1>7, <2>1
  <2>3. ProcessSound(x)
    <3>. HIDE DEF x, g
    <3>. QED
      BY <1>2, <1>7, <2>2 DEF ProcessSound, Pc, Started
  <2>. QED
    BY <1>1, <1>8, <2>3, BecomeSound
<1>9. ASSUME ~UsesCache(r), Become(p, linked) PROVE ProcessesSound'
  <2>1. Lowers(linked) = g
    BY <1>6 DEF Lowers
  <2>2. ~UsesCache(linked)
    BY <1>6, <1>9 DEF UsesCache
  <2>3. Lowers(linked).accepted /\ linked.image = Clean(Lowers(linked))
    <3>. HIDE DEF linked, g
    <3>. QED
      BY <1>3, <1>6, <2>1
  <2>4. ProcessSound(linked)
    <3>. HIDE DEF linked, g
    <3>. QED
      BY <1>2, <1>6, <2>2, <2>3 DEF ProcessSound, Pc, Started
  <2>. QED
    BY <1>1, <1>9, <2>4, BecomeSound
<1>10. Become(p, x) \/ (~UsesCache(r) /\ Become(p, linked))
  BY DEF RetryHosted, HostedStoreReliable
<1>. QED
  BY <1>5, <1>8, <1>9, <1>10

\* The snapshot describes a clean build.
LEMMA SnapshotSound ==
    ASSUME HashCoversInputs, Inv, NEW p \in Proc, StoreSnapshot(p)
    PROVE  BuildsSound' /\ ProcessesSound'
<1> DEFINE r == proc[p]
           g == Lowers(r)
           snapshot == [paths |-> r.paths, libc |-> r.libc, shown |-> r.shown]
<1>1. /\ TypeOK /\ ProcessesSound /\ BuildsSound
      /\ r \in Process /\ ProcessSound(r) /\ g \in Lowered /\ Size(g) \in Nat \ {0}
  BY ProcessFacts DEF Inv
<1>2. r.pc = "snapshot"
  BY DEF StoreSnapshot
<1>3. /\ g.accepted /\ r.verdict = "linked" /\ r.image = Clean(g)
      /\ r.src \in Source /\ r.from \in Outside
      /\ UsesCache(r) => r.paths = CleanPaths(g) /\ r.libc = FinalLibc(g)
  BY <1>1, <1>2 DEF ProcessSound
<1>4. BuildsSound'
  <2>1. CASE builds' = builds
    BY <1>1, <2>1 DEF BuildsSound
  <2>2. CASE UsesCache(r) /\ builds' = [builds EXCEPT ![r.src] = {snapshot}]
    <3>1. \A o \in Outside : Program[r.src][o] = g
      BY <1>3, SameProgram DEF Lowers
    <3>2. Replays(r.src, snapshot.paths, snapshot.libc)
      <4>. HIDE DEF g
      <4>. QED
        BY <1>3, <2>2, <3>1 DEF Replays
    <3>. HIDE DEF r, snapshot
    <3>. QED
      BY <1>1, <2>2, <3>2 DEF BuildsSound, TypeOK
  <2>. QED
    BY <2>1, <2>2 DEF StoreSnapshot
<1>5. ProcessesSound'
  <2>1. Exit(p, r, r.verdict, r.image)
    BY DEF StoreSnapshot
  <2>. QED
    BY <1>1, <1>2, <1>3, <2>1, ExitSound
<1>. QED
  BY <1>4, <1>5

\* The environment: crashes, lost files and edits.
LEMMA EnvironmentSound ==
    ASSUME Inv
    PROVE  /\ \A p \in Proc : Crash(p) \/ Retire(p) => ProcessesSound'
           /\ \A path \in Path : LoseArtifact(path) => StoreSound' /\ ProcessesSound'
           /\ \A s \in Source : LoseSnapshot(s) => BuildsSound' /\ ProcessesSound'
           /\ \A o \in Outside : EditOutside(o) => ProcessesSound'
<1>1. TypeOK /\ StoreSound /\ BuildsSound /\ ProcessesSound
  BY DEF Inv
<1>2. ASSUME NEW p \in Proc, Crash(p) \/ Retire(p) PROVE ProcessesSound'
  BY <1>1, <1>2, IdleSound, BecomeSound DEF Crash, Retire
<1>3. ASSUME NEW path \in Path, LoseArtifact(path) PROVE StoreSound' /\ ProcessesSound'
  <2>1. StoreSound'
    BY <1>1, <1>3 DEF LoseArtifact, StoreSound, TypeOK
  <2>2. ASSUME NEW p \in Proc PROVE ProcessSound(proc'[p])
    <3> DEFINE r == proc[p]
               x == [r EXCEPT !.lost = r.pc # "idle"]
    <3>1. r \in Process /\ ProcessSound(r)
      BY <1>1 DEF TypeOK, ProcessesSound
    <3>2. /\ x.pc = r.pc /\ x.src = r.src /\ x.cmd = r.cmd /\ x.from = r.from /\ x.seen = r.seen
          /\ x.paths = r.paths /\ x.libc = r.libc /\ x.left = r.left /\ x.n = r.n
          /\ x.objs = r.objs /\ x.verdict = r.verdict /\ x.image = r.image
      BY <3>1 DEF Process
    <3>3. proc'[p] = x
      BY <1>3 DEF LoseArtifact
    <3>. HIDE DEF r, x
    <3>. QED
      BY <3>1, <3>2, <3>3 DEF ProcessSound, Lowers, UsesCache
  <2>. QED
    BY <2>1, <2>2 DEF ProcessesSound
<1>4. ASSUME NEW s \in Source, LoseSnapshot(s) PROVE BuildsSound' /\ ProcessesSound'
  BY <1>1, <1>4 DEF LoseSnapshot, BuildsSound, ProcessesSound, TypeOK
<1>5. ASSUME NEW o \in Outside, EditOutside(o) PROVE ProcessesSound'
  <2>1. ASSUME NEW p \in Proc PROVE ProcessSound(proc'[p])
    <3> DEFINE r == proc[p]
               x == [r EXCEPT !.seen = IF r.pc = "idle" THEN @ ELSE @ \cup {o}]
    <3>1. r \in Process /\ ProcessSound(r)
      BY <1>1 DEF TypeOK, ProcessesSound
    <3>2. /\ x.pc = r.pc /\ x.src = r.src /\ x.cmd = r.cmd /\ x.from = r.from
          /\ x.seen = IF r.pc = "idle" THEN r.seen ELSE r.seen \cup {o}
          /\ x.paths = r.paths /\ x.libc = r.libc /\ x.left = r.left /\ x.n = r.n
          /\ x.objs = r.objs /\ x.verdict = r.verdict /\ x.image = r.image
      BY <3>1 DEF Process
    <3>3. proc'[p] = x
      BY <1>5 DEF EditOutside
    <3>4. x.pc # "idle" => x.seen # {} /\ x.seen \subseteq Outside
      <4>. HIDE DEF r, x
      <4>. QED
        BY <3>1, <3>2 DEF ProcessSound
    <3>. HIDE DEF r, x
    <3>. QED
      BY <3>1, <3>2, <3>3, <3>4 DEF ProcessSound, Lowers, UsesCache
  <2>. QED
    BY <2>1 DEF ProcessesSound
<1>. QED
  BY <1>2, <1>3, <1>4, <1>5

LEMMA SoundInit == Init => Inv
<1>. SUFFICES ASSUME Init PROVE Inv
  OBVIOUS
<1>1. TypeOK
  BY IdleType DEF Init, TypeOK
<1>2. StoreSound /\ BuildsSound
  BY DEF Init, StoreSound, BuildsSound
<1>3. ProcessesSound
  BY IdleSound DEF Init, ProcessesSound
<1>. QED
  BY <1>1, <1>2, <1>3 DEF Inv

LEMMA SoundStep ==
    ASSUME SpecializationsAddressed, HashCoversInputs, HostedStoreReliable, Inv, [Next]_vars
    PROVE  Inv'
<1>1. TypeOK'
  BY TypeStep DEF Inv
<1>2. TypeOK /\ StoreSound /\ BuildsSound /\ ProcessesSound
  BY DEF Inv
<1>3. ASSUME NEW p \in Proc, Start(p) \/ Lookup(p) \/ ValidateEntry(p) \/ Replay(p) PROVE Inv'
  BY <1>1, <1>2, <1>3, SearchSound
     DEF Inv, StoreSound, BuildsSound, Start, Lookup, ValidateEntry, Replay
<1>4. ASSUME NEW p \in Proc, Materialize(p) \/ LinkCached(p) PROVE Inv'
  BY <1>1, <1>2, <1>4, ReplaySound
     DEF Inv, StoreSound, BuildsSound, Materialize, LinkCached
<1>5. ASSUME NEW p \in Proc, Frontend(p) \/ LoadArtifact(p) \/ Loaded(p) PROVE Inv'
  BY <1>1, <1>2, <1>5, LowerSound
     DEF Inv, StoreSound, BuildsSound, Frontend, LoadArtifact, Loaded
<1>6. ASSUME NEW p \in Proc, CompileUnit(p) PROVE Inv'
  BY <1>1, <1>2, <1>6, CompileSound DEF Inv, BuildsSound, CompileUnit
<1>7. ASSUME NEW p \in Proc, LinkFresh(p) PROVE Inv'
  BY <1>1, <1>2, <1>7, LinkSound DEF Inv, StoreSound, BuildsSound, LinkFresh
<1>8. ASSUME NEW p \in Proc, RetryHosted(p) PROVE Inv'
  BY <1>1, <1>2, <1>8, RetrySound DEF Inv, BuildsSound, RetryHosted
<1>9. ASSUME NEW p \in Proc, StoreSnapshot(p) PROVE Inv'
  BY <1>1, <1>2, <1>9, SnapshotSound DEF Inv, StoreSound, StoreSnapshot
<1>10. ASSUME NEW p \in Proc, Crash(p) \/ Retire(p) PROVE Inv'
  BY <1>1, <1>2, <1>10, EnvironmentSound DEF Inv, StoreSound, BuildsSound, Crash, Retire
<1>11. ASSUME NEW path \in Path, LoseArtifact(path) PROVE Inv'
  BY <1>1, <1>2, <1>11, EnvironmentSound DEF Inv, BuildsSound, LoseArtifact
<1>12. ASSUME NEW s \in Source, LoseSnapshot(s) PROVE Inv'
  BY <1>1, <1>2, <1>12, EnvironmentSound DEF Inv, StoreSound, LoseSnapshot
<1>13. ASSUME NEW o \in Outside, EditOutside(o) PROVE Inv'
  BY <1>1, <1>2, <1>13, EnvironmentSound DEF Inv, StoreSound, BuildsSound, EditOutside
<1>14. CASE UNCHANGED vars
  BY <1>1, <1>2, <1>14 DEF vars, Inv, StoreSound, BuildsSound, ProcessesSound
<1>. QED
  BY <1>3, <1>4, <1>5, <1>6, <1>7, <1>8, <1>9, <1>10, <1>11, <1>12, <1>13, <1>14 DEF Next, Step

\* When a specialization's path determines its text, the input hash covers what
\* lowering reads and the hosted runtime is stored, every executable that comes
\* out of the compiler is the one a compiler with an empty cache links, for any
\* number of concurrent compilers, crashes and lost files (main.go:84-450).
THEOREM Soundness ==
    ASSUME SpecializationsAddressed, HashCoversInputs, HostedStoreReliable
    PROVE  Spec => []OutputIsCleanBuild
<1>1. Init => Inv
  BY SoundInit
<1>2. Inv /\ [Next]_vars => Inv'
  BY SoundStep
<1>3. Inv => OutputIsCleanBuild
  <2>. SUFFICES ASSUME Inv, NEW p \in Proc, proc[p].verdict = "linked"
                PROVE  \E g \in Lowerings(p) : g.accepted /\ proc[p].image = Clean(g)
    BY DEF OutputIsCleanBuild
  <2>1. ProcessSound(proc[p])
    BY DEF Inv, ProcessesSound
  <2>2. /\ proc[p].seen # {} /\ proc[p].seen \subseteq Outside
        /\ proc[p].src \in Source /\ proc[p].from \in Outside
        /\ Lowers(proc[p]).accepted /\ proc[p].image = Clean(Lowers(proc[p]))
    BY <2>1 DEF ProcessSound
  <2>3. PICK o \in proc[p].seen : TRUE
    BY <2>2
  <2>4. Lowers(proc[p]) = Program[proc[p].src][o]
    BY <2>2, SameProgram DEF Lowers
  <2>. QED
    BY <2>2, <2>4 DEF Lowerings
<1>. QED
  BY <1>1, <1>2, <1>3, PTL DEF Spec

-----------------------------------------------------------------------------
(***************************************************************************)
(* The build cache implements BuildPromise: whoever invokes qkc is         *)
(* answered, object for object and warning for warning, like by a compiler *)
(* with an empty cache.                                                    *)
(***************************************************************************)

\* The input hash leaves the warning modes out and a replay prints what the
\* stored build printed (artifact_cache.go:79-97, cached_snapshot.go:13-15): a
\* program that has warnings must be built under one mode.  Where it is not, a
\* replay breaks the promise (run limits, fifth verdict).
WarningModesAgree ==
    \A s \in Source, o \in Outside : Program[s][o].warns => \A m, n \in Mode[s] : m = n
-----------------------------------------------------------------------------
\* The front end and the warning policy let g through, and what was shown is
\* what the mode asks for.
Passes(g, mode) == g.accepted /\ ~(g.warns /\ mode = "error")
Shows(g, mode, shown) == Passes(g, mode) /\ shown = (g.warns /\ mode = "show")

\* A snapshot showed what every build of its source is to show.
ShownSound ==
    \A s \in Source : \A snapshot \in builds[s] :
        \A o \in Outside, m \in Mode[s] : Shows(Program[s][o], m, snapshot.shown)

\* What a process has shown and answered at each point of its run: nothing
\* before the replay or the front end, and no image unless it linked.
ProcessShows(r) ==
    /\ r.pc # "idle" => r.src \in Source /\ r.cmd \in Command /\ r.mode \in Mode[r.src] /\ r.seen # {}
    /\ r.pc \notin {"snapshot", "done"} => r.verdict = "none"
    /\ r.pc \in {"idle", "lookup", "frontend"} => r.shown = FALSE
    /\ r.pc \in {"materialize", "compile", "retry", "snapshot"} => r.cmd # "check"
    /\ r.verdict # "linked" => r.image = NoImage
    /\ r.verdict = "linked" => r.cmd # "check"
    /\ r.verdict = "checked" => r.cmd = "check"
    /\ (\/ r.pc \in {"validate", "materialize", "load", "compile", "retry", "snapshot"}
        \/ r.verdict \in {"linked", "checked"}) => Shows(Lowers(r), r.mode, r.shown)
    /\ r.verdict = "rejected" =>
          r.shown = FALSE /\ \E o \in Outside : ~Passes(Program[r.src][o], r.mode)
ProcessesShow == \A p \in Proc : ProcessShows(proc[p])

ShowInv == TypeOK /\ ShownSound /\ ProcessesShow

\* A step of a process that was asked keeps the request, and the answer if it
\* has one; the other processes do not notice.
Continues(r, x) ==
    /\ r.pc # "idle" /\ x.pc # "idle"
    /\ RequestOf(x) = RequestOf(r)
    /\ r.verdict # "none" => AnswerOf(x) = AnswerOf(r)
Proceeds(p) ==
    /\ Continues(proc[p], proc'[p])
    /\ \A q \in Proc \ {p} : proc'[q] = proc[q]
-----------------------------------------------------------------------------
LEMMA BecomeShows ==
    ASSUME TypeOK, ProcessesShow, NEW p \in Proc, NEW x, ProcessShows(x),
           Continues(proc[p], x), Become(p, x)
    PROVE  ProcessesShow' /\ Proceeds(p)
<1>1. /\ proc'[p] = x
      /\ \A q \in Proc \ {p} : proc'[q] = proc[q]
  BY DEF TypeOK, Become
<1>2. ProcessesShow'
  <2>. SUFFICES ASSUME NEW q \in Proc PROVE ProcessShows(proc'[q])
    BY DEF ProcessesShow, ProcessShows, Lowers
  <2>1. CASE q = p
    BY <1>1, <2>1
  <2>2. CASE q # p
    BY <1>1, <2>2 DEF ProcessesShow
  <2>. QED
    BY <2>1, <2>2
<1>3. Proceeds(p)
  BY <1>1 DEF Proceeds
<1>. QED
  BY <1>2, <1>3

\* What may be changed without anything being shown or answered.
LEMMA SilentShows ==
    ASSUME NEW r, NEW x, ProcessShows(r), x.pc = r.pc, x.src = r.src, x.cmd = r.cmd,
           x.mode = r.mode, x.seen = r.seen, x.from = r.from, x.shown = r.shown,
           x.verdict = r.verdict, x.image = r.image
    PROVE  /\ ProcessShows(x)
           /\ RequestOf(x) = RequestOf(r)
           /\ AnswerOf(x) = AnswerOf(r)
           /\ r.pc # "idle" => Continues(r, x)
<1>1. Lowers(x) = Lowers(r)
  BY DEF Lowers
<1>2. RequestOf(x) = RequestOf(r) /\ AnswerOf(x) = AnswerOf(r)
  BY DEF RequestOf, AnswerOf
<1>3. ProcessShows(x)
  BY <1>1 DEF ProcessShows
<1>. QED
  BY <1>2, <1>3 DEF Continues

LEMMA IdleShows == ProcessShows(Idle)
  BY DEF ProcessShows, Idle

LEMMA ShowFacts ==
    ASSUME ShowInv, NEW p \in Proc
    PROVE  /\ TypeOK /\ ShownSound /\ ProcessesShow
           /\ proc[p] \in Process
           /\ ProcessShows(proc[p])
  BY DEF ShowInv, TypeOK, ProcessesShow

LEMMA ExitShows ==
    ASSUME HashCoversInputs, ShowInv, NEW p \in Proc, NEW verdict, NEW image,
           proc[p].pc # "idle",
           Exit(p, proc[p], verdict, image),
           verdict # "linked" => image = NoImage,
           verdict = "linked" => proc[p].cmd # "check",
           verdict = "checked" => proc[p].cmd = "check",
           verdict \in {"linked", "checked"}
               => Shows(Lowers(proc[p]), proc[p].mode, proc[p].shown),
           verdict = "rejected" => /\ proc[p].shown = FALSE
                                   /\ \E o \in Outside : ~Passes(Program[proc[p].src][o], proc[p].mode),
           proc[p].verdict # "none" => verdict = proc[p].verdict /\ image = proc[p].image
    PROVE  ProcessesShow' /\ Proceeds(p)
<1> DEFINE r == proc[p]
           x == [Idle EXCEPT !.pc = "done", !.src = r.src, !.cmd = r.cmd, !.mode = r.mode,
                             !.seen = r.seen, !.lost = r.lost, !.shown = r.shown,
                             !.verdict = verdict, !.image = image]
<1>1. TypeOK /\ ProcessesShow /\ r \in Process /\ ProcessShows(r)
  BY ShowFacts
<1>2. /\ x.pc = "done" /\ x.src = r.src /\ x.cmd = r.cmd /\ x.mode = r.mode /\ x.seen = r.seen
      /\ x.shown = r.shown /\ x.verdict = verdict /\ x.image = image /\ x.from \in Outside
  BY BuildAssumption DEF Idle
<1>3. r.src \in Source /\ r.from \in Outside
  BY <1>1 DEF Process
<1>4. Lowers(x) = Lowers(r)
  BY <1>2, <1>3, SameProgram DEF Lowers
<1>5. ProcessShows(x)
  <2>. HIDE DEF x
  <2>. QED
    BY <1>1, <1>2, <1>4 DEF ProcessShows
<1>6. Continues(r, x)
  <2>. HIDE DEF x
  <2>. QED
    BY <1>2 DEF Continues, RequestOf, AnswerOf
<1>7. Become(p, x)
  BY DEF Exit
<1>. HIDE DEF x
<1>. QED
  BY <1>1, <1>5, <1>6, <1>7, BecomeShows
-----------------------------------------------------------------------------
\* A process starts: the abstract request is made.
LEMMA StartShows ==
    ASSUME ShowInv, NEW p \in Proc, Start(p)
    PROVE  /\ ProcessesShow'
           /\ proc[p].pc = "idle"
           /\ proc'[p].pc = "lookup" /\ proc'[p].verdict = "none"
           /\ RequestOf(proc'[p]) \in Invocation
           /\ \A q \in Proc \ {p} : proc'[q] = proc[q]
<1>0. PICK s \in Source, c \in Command :
         \E m \in Mode[s] :
            Become(p, [Idle EXCEPT !.pc = "lookup", !.src = s, !.cmd = c, !.mode = m,
                                   !.seen = {outside}])
  BY DEF Start
<1>1. TypeOK /\ ProcessesShow /\ proc[p].pc = "idle"
  BY ShowFacts DEF Start
<1>2. PICK m \in Mode[s] :
         Become(p, [Idle EXCEPT !.pc = "lookup", !.src = s, !.cmd = c, !.mode = m,
                                !.seen = {outside}])
  BY <1>0
<1> DEFINE x == [Idle EXCEPT !.pc = "lookup", !.src = s, !.cmd = c, !.mode = m,
                             !.seen = {outside}]
<1>3. /\ x.pc = "lookup" /\ x.src = s /\ x.cmd = c /\ x.mode = m /\ x.seen = {outside}
      /\ x.shown = FALSE /\ x.verdict = "none" /\ x.image = NoImage
  BY DEF Idle
<1>4. ProcessShows(x)
  <2>. HIDE DEF x
  <2>. QED
    BY <1>3 DEF ProcessShows
<1>5. RequestOf(x) \in Invocation
  <2>. HIDE DEF x
  <2>. QED
    BY <1>3, BuildAssumption DEF RequestOf, Invocation
<1>6. proc'[p] = x /\ \A q \in Proc \ {p} : proc'[q] = proc[q]
  BY <1>1, <1>2 DEF TypeOK, Become
<1>. HIDE DEF x
<1>7. ProcessesShow'
  <2>. SUFFICES ASSUME NEW q \in Proc PROVE ProcessShows(proc'[q])
    BY DEF ProcessesShow, ProcessShows, Lowers
  <2>1. CASE q = p
    BY <1>4, <1>6, <2>1
  <2>2. CASE q # p
    BY <1>1, <1>6, <2>2 DEF ProcessesShow
  <2>. QED
    BY <2>1, <2>2
<1>. QED
  BY <1>1, <1>3, <1>5, <1>6, <1>7

\* The steps that look for a snapshot and replay it.
LEMMA SearchShows ==
    ASSUME HashCoversInputs, ShowInv, NEW p \in Proc,
           Lookup(p) \/ ValidateEntry(p) \/ Replay(p)
    PROVE  ProcessesShow' /\ Proceeds(p)
<1> DEFINE r == proc[p]
<1>1. /\ TypeOK /\ ShownSound /\ ProcessesShow
      /\ r \in Process /\ ProcessShows(r)
  BY ShowFacts
<1>2. r.src \in Source /\ r.from \in Outside
  BY <1>1 DEF Process
<1>3. CASE Lookup(p)
  <2>1. r.pc = "lookup" /\ r.verdict = "none" /\ r.image = NoImage /\ r.shown = FALSE /\ r.mode \in Mode[r.src]
    BY <1>1, <1>3 DEF Lookup, ProcessShows
  <2>2. ASSUME Become(p, [r EXCEPT !.pc = "frontend"]) PROVE ProcessesShow' /\ Proceeds(p)
    <3> DEFINE x == [r EXCEPT !.pc = "frontend"]
    <3>1. /\ x.pc = "frontend" /\ x.src = r.src /\ x.cmd = r.cmd /\ x.mode = r.mode
          /\ x.seen = r.seen /\ x.shown = r.shown /\ x.verdict = r.verdict /\ x.image = r.image
      BY <1>1 DEF Process
    <3>2. Become(p, x)
      BY <2>2
    <3>. HIDE DEF x
    <3>3. ProcessShows(x) /\ Continues(r, x)
      BY <1>1, <2>1, <3>1 DEF ProcessShows, Continues, RequestOf
    <3>. QED
      BY <1>1, <3>2, <3>3, BecomeShows
  <2>3. ASSUME NEW t \in builds[r.src],
               Become(p, [r EXCEPT !.pc = "validate", !.paths = t.paths,
                                   !.libc = t.libc, !.shown = t.shown])
        PROVE  ProcessesShow' /\ Proceeds(p)
    <3> DEFINE x == [r EXCEPT !.pc = "validate", !.paths = t.paths,
                              !.libc = t.libc, !.shown = t.shown]
    <3>1. /\ x.pc = "validate" /\ x.src = r.src /\ x.cmd = r.cmd /\ x.mode = r.mode
          /\ x.seen = r.seen /\ x.from = r.from /\ x.shown = t.shown
          /\ x.verdict = r.verdict /\ x.image = r.image
      BY <1>1 DEF Process
    <3>2. Shows(Program[r.src][r.from], r.mode, t.shown)
      BY <1>1, <1>2, <2>1 DEF ShownSound
    <3>3. Become(p, x)
      BY <2>3
    <3>. HIDE DEF x
    <3>4. Shows(Lowers(x), x.mode, x.shown)
      BY <3>1, <3>2 DEF Lowers
    <3>5. ProcessShows(x) /\ Continues(r, x)
      BY <1>1, <2>1, <3>1, <3>4 DEF ProcessShows, Continues, RequestOf
    <3>. QED
      BY <1>1, <3>3, <3>5, BecomeShows
  <2>. QED
    BY <1>3, <2>2, <2>3 DEF Lookup
<1>4. CASE ValidateEntry(p)
  <2>1. r.pc = "validate" /\ r.verdict = "none" /\ r.image = NoImage
    BY <1>1, <1>4 DEF ValidateEntry, ProcessShows
  <2>2. ASSUME Become(p, [r EXCEPT !.n = @ + 1]) PROVE ProcessesShow' /\ Proceeds(p)
    <3> DEFINE x == [r EXCEPT !.n = @ + 1]
    <3>1. /\ x.pc = r.pc /\ x.src = r.src /\ x.cmd = r.cmd /\ x.mode = r.mode
          /\ x.seen = r.seen /\ x.from = r.from /\ x.shown = r.shown
          /\ x.verdict = r.verdict /\ x.image = r.image
      BY <1>1 DEF Process
    <3>2. Become(p, x)
      BY <2>2
    <3>. HIDE DEF x
    <3>. QED
      BY <1>1, <2>1, <3>1, <3>2, SilentShows, BecomeShows
  <2>3. ASSUME Become(p, [r EXCEPT !.pc = "frontend", !.n = 0, !.paths = <<>>,
                                   !.libc = FALSE, !.shown = FALSE])
        PROVE  ProcessesShow' /\ Proceeds(p)
    <3> DEFINE x == [r EXCEPT !.pc = "frontend", !.n = 0, !.paths = <<>>,
                              !.libc = FALSE, !.shown = FALSE]
    <3>1. /\ x.pc = "frontend" /\ x.src = r.src /\ x.cmd = r.cmd /\ x.mode = r.mode
          /\ x.seen = r.seen /\ x.shown = FALSE /\ x.verdict = r.verdict /\ x.image = r.image
      BY <1>1 DEF Process
    <3>2. Become(p, x)
      BY <2>3
    <3>. HIDE DEF x
    <3>3. ProcessShows(x) /\ Continues(r, x)
      BY <1>1, <2>1, <3>1 DEF ProcessShows, Continues, RequestOf
    <3>. QED
      BY <1>1, <3>2, <3>3, BecomeShows
  <2>. QED
    BY <1>4, <2>2, <2>3 DEF ValidateEntry
<1>5. CASE Replay(p)
  <2>1. /\ r.pc = "validate" /\ r.verdict = "none" /\ r.image = NoImage
        /\ Shows(Lowers(r), r.mode, r.shown)
    BY <1>1, <1>5 DEF Replay, ProcessShows
  <2>2. ASSUME r.cmd = "check", Exit(p, r, "checked", NoImage)
        PROVE  ProcessesShow' /\ Proceeds(p)
    BY <2>1, <2>2, ExitShows
  <2>3. ASSUME r.cmd # "check", Become(p, [r EXCEPT !.pc = "materialize", !.n = 0])
        PROVE  ProcessesShow' /\ Proceeds(p)
    <3> DEFINE x == [r EXCEPT !.pc = "materialize", !.n = 0]
    <3>1. /\ x.pc = "materialize" /\ x.src = r.src /\ x.cmd = r.cmd /\ x.mode = r.mode
          /\ x.seen = r.seen /\ x.from = r.from /\ x.shown = r.shown
          /\ x.verdict = r.verdict /\ x.image = r.image
      BY <1>1 DEF Process
    <3>2. Become(p, x)
      BY <2>3
    <3>. HIDE DEF x
    <3>3. Lowers(x) = Lowers(r)
      BY <3>1 DEF Lowers
    <3>4. ProcessShows(x) /\ Continues(r, x)
      BY <1>1, <2>1, <2>3, <3>1, <3>3 DEF ProcessShows, Continues, RequestOf
    <3>. QED
      BY <1>1, <3>2, <3>4, BecomeShows
  <2>. QED
    BY <1>5, <2>2, <2>3 DEF Replay
<1>. QED
  BY <1>3, <1>4, <1>5

\* The steps that link the replayed objects.
LEMMA ReplayShows ==
    ASSUME HashCoversInputs, ShowInv, NEW p \in Proc, Materialize(p) \/ LinkCached(p)
    PROVE  ProcessesShow' /\ Proceeds(p)
<1> DEFINE r == proc[p]
<1>1. TypeOK /\ ProcessesShow /\ r \in Process /\ ProcessShows(r)
  BY ShowFacts
<1>2. /\ r.pc = "materialize" /\ r.cmd # "check" /\ r.verdict = "none" /\ r.image = NoImage
      /\ Shows(Lowers(r), r.mode, r.shown)
  BY <1>1 DEF Materialize, LinkCached, ProcessShows
<1>3. CASE Materialize(p)
  <2>1. ASSUME Exit(p, r, "unavailable", NoImage) PROVE ProcessesShow' /\ Proceeds(p)
    BY <1>2, <2>1, ExitShows
  <2>2. ASSUME NEW artifact, Become(p, [r EXCEPT !.n = @ + 1, !.objs = Append(@, artifact)])
        PROVE  ProcessesShow' /\ Proceeds(p)
    <3> DEFINE objects == Append(r.objs, artifact)
               x == [r EXCEPT !.n = @ + 1, !.objs = objects]
    <3>1. Become(p, x)
      BY <2>2
    <3>2. /\ x.pc = r.pc /\ x.src = r.src /\ x.cmd = r.cmd /\ x.mode = r.mode
          /\ x.seen = r.seen /\ x.from = r.from /\ x.shown = r.shown
          /\ x.verdict = r.verdict /\ x.image = r.image
      <4>. HIDE DEF objects
      <4>. QED
        BY <1>1 DEF Process
    <3>. HIDE DEF x
    <3>. QED
      BY <1>1, <1>2, <3>1, <3>2, SilentShows, BecomeShows
  <2>. QED
    BY <1>3, <2>1, <2>2 DEF Materialize
<1>4. CASE LinkCached(p)
  <2> DEFINE image == [objects |-> r.objs, libc |-> r.libc]
  <2>1. Exit(p, r, "linked", image)
    BY <1>4 DEF LinkCached
  <2>. HIDE DEF image
  <2>. QED
    BY <1>2, <2>1, ExitShows
<1>. QED
  BY <1>3, <1>4

\* The front end and the loads.
LEMMA LowerShows ==
    ASSUME HashCoversInputs, ShowInv, NEW p \in Proc,
           Frontend(p) \/ LoadArtifact(p) \/ Loaded(p)
    PROVE  ProcessesShow' /\ Proceeds(p)
<1> DEFINE r == proc[p]
<1>1. TypeOK /\ ProcessesShow /\ r \in Process /\ ProcessShows(r)
  BY ShowFacts
<1>2. CASE Frontend(p)
  <2> DEFINE g == Program[r.src][outside]
             paths == [k \in 1..Size(g) |-> ArtifactPath(g, k)]
             left == IF UsesCache(r) THEN 1..Size(g) ELSE {}
             libc == LinksLibc(g)
             shown == g.warns /\ r.mode = "show"
             x == [r EXCEPT !.pc = "load", !.from = outside, !.shown = shown,
                            !.libc = libc, !.paths = paths, !.left = left]
  <2>1. /\ r.pc = "frontend" /\ r.verdict = "none" /\ r.image = NoImage /\ r.shown = FALSE
        /\ outside \in Outside
    BY <1>1, <1>2 DEF Frontend, ProcessShows, TypeOK
  <2>2. ASSUME ~Passes(g, r.mode), Exit(p, r, "rejected", NoImage)
        PROVE  ProcessesShow' /\ Proceeds(p)
    BY <2>1, <2>2, ExitShows
  <2>3. ASSUME Passes(g, r.mode), Become(p, x) PROVE ProcessesShow' /\ Proceeds(p)
    <3>1. /\ x.pc = "load" /\ x.src = r.src /\ x.cmd = r.cmd /\ x.mode = r.mode
          /\ x.seen = r.seen /\ x.from = outside /\ x.shown = shown
          /\ x.verdict = r.verdict /\ x.image = r.image
      <4>. HIDE DEF g, paths, left, libc, shown
      <4>. QED
        BY <1>1 DEF Process
    <3>2. Shows(g, r.mode, shown)
      BY <2>3 DEF Shows
    <3>. HIDE DEF x, shown
    <3>3. Shows(Lowers(x), x.mode, x.shown)
      BY <3>1, <3>2 DEF Lowers
    <3>4. ProcessShows(x) /\ Continues(r, x)
      BY <1>1, <2>1, <3>1, <3>3 DEF ProcessShows, Continues, RequestOf
    <3>. QED
      BY <1>1, <2>3, <3>4, BecomeShows
  <2>4. \/ ~Passes(g, r.mode) /\ Exit(p, r, "rejected", NoImage)
        \/ Passes(g, r.mode) /\ Become(p, x)
    BY <1>2 DEF Frontend, Passes
  <2>. QED
    BY <2>2, <2>3, <2>4
<1>3. CASE LoadArtifact(p)
  <2> DEFINE hit(k) == ImplementationHash(Lowers(r), k) \in store[r.paths[k]]
  <2>1. ASSUME NEW k \in r.left,
               Become(p, [r EXCEPT !.left = @ \ {k}, !.cached = IF hit(k) THEN @ \cup {k} ELSE @])
        PROVE  ProcessesShow' /\ Proceeds(p)
    <3> DEFINE left == r.left \ {k}
               cached == IF hit(k) THEN r.cached \cup {k} ELSE r.cached
               x == [r EXCEPT !.left = left, !.cached = cached]
    <3>1. /\ x.pc = r.pc /\ x.src = r.src /\ x.cmd = r.cmd /\ x.mode = r.mode
          /\ x.seen = r.seen /\ x.from = r.from /\ x.shown = r.shown
          /\ x.verdict = r.verdict /\ x.image = r.image
      <4>. HIDE DEF left, cached
      <4>. QED
        BY <1>1 DEF Process
    <3>2. Become(p, x) /\ r.pc # "idle"
      BY <1>3, <2>1 DEF LoadArtifact
    <3>. HIDE DEF x
    <3>. QED
      BY <1>1, <3>1, <3>2, SilentShows, BecomeShows
  <2>. QED
    BY <1>3, <2>1 DEF LoadArtifact
<1>4. CASE Loaded(p)
  <2>1. /\ r.pc = "load" /\ r.verdict = "none" /\ r.image = NoImage
        /\ Shows(Lowers(r), r.mode, r.shown)
    BY <1>1, <1>4 DEF Loaded, ProcessShows
  <2>2. ASSUME r.cmd = "check", Exit(p, r, "checked", NoImage)
        PROVE  ProcessesShow' /\ Proceeds(p)
    BY <2>1, <2>2, ExitShows
  <2>3. ASSUME r.cmd # "check", Become(p, [r EXCEPT !.pc = "compile"])
        PROVE  ProcessesShow' /\ Proceeds(p)
    <3> DEFINE x == [r EXCEPT !.pc = "compile"]
    <3>1. /\ x.pc = "compile" /\ x.src = r.src /\ x.cmd = r.cmd /\ x.mode = r.mode
          /\ x.seen = r.seen /\ x.from = r.from /\ x.shown = r.shown
          /\ x.verdict = r.verdict /\ x.image = r.image
      BY <1>1 DEF Process
    <3>2. Become(p, x)
      BY <2>3
    <3>. HIDE DEF x
    <3>3. Lowers(x) = Lowers(r)
      BY <3>1 DEF Lowers
    <3>4. ProcessShows(x) /\ Continues(r, x)
      BY <1>1, <2>1, <2>3, <3>1, <3>3 DEF ProcessShows, Continues, RequestOf
    <3>. QED
      BY <1>1, <3>2, <3>4, BecomeShows
  <2>. QED
    BY <1>4, <2>2, <2>3 DEF Loaded
<1>. QED
  BY <1>2, <1>3, <1>4

\* The compiles and the links.
LEMMA LinkShows ==
    ASSUME ShowInv, NEW p \in Proc, CompileUnit(p) \/ LinkFresh(p) \/ RetryHosted(p)
    PROVE  ProcessesShow' /\ Proceeds(p)
<1> DEFINE r == proc[p]
<1>1. TypeOK /\ ProcessesShow /\ r \in Process /\ ProcessShows(r)
  BY ShowFacts
<1>2. /\ r.pc \in {"compile", "retry"} /\ r.cmd # "check" /\ r.verdict = "none"
      /\ r.image = NoImage /\ Shows(Lowers(r), r.mode, r.shown)
  BY <1>1 DEF CompileUnit, LinkFresh, RetryHosted, ProcessShows
\* A link answers with an image, whatever it is made of.
<1>3. ASSUME NEW image, NEW x, Become(p, x), x.pc = "snapshot", x.src = r.src, x.cmd = r.cmd,
             x.mode = r.mode, x.seen = r.seen, x.from = r.from, x.shown = r.shown,
             x.verdict = "linked", x.image = image
      PROVE  ProcessesShow' /\ Proceeds(p)
  <2>1. Lowers(x) = Lowers(r)
    BY <1>3 DEF Lowers
  <2>2. ProcessShows(x) /\ Continues(r, x)
    BY <1>1, <1>2, <1>3, <2>1 DEF ProcessShows, Continues, RequestOf
  <2>. QED
    BY <1>1, <1>3, <2>2, BecomeShows
<1>4. CASE CompileUnit(p)
  <2> DEFINE n == r.n + 1
             objects == Append(r.objs, ImplementationHash(Lowers(r), n))
             x == [r EXCEPT !.n = n, !.objs = objects]
  <2>2. /\ x.pc = r.pc /\ x.src = r.src /\ x.cmd = r.cmd /\ x.mode = r.mode
        /\ x.seen = r.seen /\ x.from = r.from /\ x.shown = r.shown
        /\ x.verdict = r.verdict /\ x.image = r.image
    <3>. HIDE DEF n, objects
    <3>. QED
      BY <1>1 DEF Process
  <2>3. Become(p, x)
    BY <1>4 DEF CompileUnit
  <2>. HIDE DEF x
  <2>. QED
    BY <1>1, <1>2, <2>2, <2>3, SilentShows, BecomeShows
<1>5. CASE LinkFresh(p)
  <2>1. ASSUME Become(p, [r EXCEPT !.pc = "retry"]) PROVE ProcessesShow' /\ Proceeds(p)
    <3> DEFINE x == [r EXCEPT !.pc = "retry"]
    <3>1. /\ x.pc = "retry" /\ x.src = r.src /\ x.cmd = r.cmd /\ x.mode = r.mode
          /\ x.seen = r.seen /\ x.from = r.from /\ x.shown = r.shown
          /\ x.verdict = r.verdict /\ x.image = r.image
      BY <1>1 DEF Process
    <3>2. Become(p, x)
      BY <2>1
    <3>. HIDE DEF x
    <3>3. Lowers(x) = Lowers(r)
      BY <3>1 DEF Lowers
    <3>4. ProcessShows(x) /\ Continues(r, x)
      BY <1>1, <1>2, <3>1, <3>3 DEF ProcessShows, Continues, RequestOf
    <3>. QED
      BY <1>1, <3>2, <3>4, BecomeShows
  <2>2. ASSUME Become(p, [r EXCEPT !.pc = "snapshot", !.verdict = "linked",
                                   !.image = [objects |-> r.objs, libc |-> r.libc]])
        PROVE  ProcessesShow' /\ Proceeds(p)
    <3> DEFINE image == [objects |-> r.objs, libc |-> r.libc]
               x == [r EXCEPT !.pc = "snapshot", !.verdict = "linked", !.image = image]
    <3>1. Become(p, x)
      BY <2>2
    <3>2. /\ x.pc = "snapshot" /\ x.src = r.src /\ x.cmd = r.cmd /\ x.mode = r.mode
          /\ x.seen = r.seen /\ x.from = r.from /\ x.shown = r.shown
          /\ x.verdict = "linked" /\ x.image = image
      <4>. HIDE DEF image
      <4>. QED
        BY <1>1 DEF Process
    <3>. HIDE DEF x, image
    <3>. QED
      BY <1>3, <3>1, <3>2
  <2>. QED
    BY <1>5, <2>1, <2>2 DEF LinkFresh
<1>6. CASE RetryHosted(p)
  <2> DEFINE g == Lowers(r)
             objects == [r.objs EXCEPT ![Len(r.objs)] = RuntimeFor(g, TRUE)]
             image == [objects |-> objects, libc |-> TRUE]
             linked == [r EXCEPT !.pc = "snapshot", !.verdict = "linked", !.objs = objects,
                                 !.libc = TRUE, !.image = image]
             x == [linked EXCEPT !.paths[Size(g)] = HostedPath(g)]
  <2>1. Become(p, x) \/ Become(p, linked)
    BY <1>6 DEF RetryHosted
  <2>2. /\ linked.pc = "snapshot" /\ linked.src = r.src /\ linked.cmd = r.cmd
        /\ linked.mode = r.mode /\ linked.seen = r.seen /\ linked.from = r.from
        /\ linked.shown = r.shown /\ linked.verdict = "linked" /\ linked.image = image
    <3>. HIDE DEF objects, image
    <3>. QED
      BY <1>1 DEF Process
  <2>3. /\ x.pc = "snapshot" /\ x.src = r.src /\ x.cmd = r.cmd
        /\ x.mode = r.mode /\ x.seen = r.seen /\ x.from = r.from
        /\ x.shown = r.shown /\ x.verdict = "linked" /\ x.image = image
    <3>. HIDE DEF linked, image, g
    <3>. QED
      BY <2>2
  <2>. HIDE DEF x, linked, image
  <2>. QED
    BY <1>3, <2>1, <2>2, <2>3
<1>. QED
  BY <1>4, <1>5, <1>6

\* What one build showed is what every build of that source is to show.
LEMMA SnapshotShows ==
    ASSUME HashCoversInputs, WarningModesAgree, ShowInv, NEW p \in Proc, StoreSnapshot(p)
    PROVE  ShownSound' /\ ProcessesShow' /\ Proceeds(p)
<1> DEFINE r == proc[p]
           g == Lowers(r)
           snapshot == [paths |-> r.paths, libc |-> r.libc, shown |-> r.shown]
<1>1. /\ TypeOK /\ ShownSound /\ ProcessesShow /\ r \in Process /\ ProcessShows(r)
      /\ r.pc = "snapshot"
  BY ShowFacts DEF StoreSnapshot
<1>2. /\ r.src \in Source /\ r.from \in Outside /\ r.mode \in Mode[r.src] /\ Shows(g, r.mode, r.shown)
      /\ r.cmd # "check"
  BY <1>1 DEF Process, ProcessShows
<1>3. ASSUME NEW m \in Mode[r.src] PROVE Shows(g, m, r.shown)
  <2>1. g.accepted /\ r.shown = (g.warns /\ r.mode = "show") /\ ~(g.warns /\ r.mode = "error")
    BY <1>2 DEF Shows, Passes
  <2>2. CASE g.warns
    BY <1>2, <2>2 DEF WarningModesAgree, Lowers
  <2>3. CASE ~g.warns
    BY <2>1, <2>3 DEF Shows, Passes
  <2>. QED
    BY <2>2, <2>3
<1>4. ShownSound'
  <2>1. CASE builds' = builds
    BY <1>1, <2>1 DEF ShownSound
  <2>2. CASE builds' = [builds EXCEPT ![r.src] = {snapshot}]
    <3>1. \A o \in Outside : Program[r.src][o] = g
      BY <1>2, SameProgram DEF Lowers
    <3>2. \A o \in Outside, m \in Mode[r.src] : Shows(Program[r.src][o], m, snapshot.shown)
      <4>. HIDE DEF g
      <4>. QED
        BY <1>3, <3>1
    <3>. HIDE DEF r, snapshot
    <3>. QED
      BY <1>1, <2>2, <3>2 DEF ShownSound, TypeOK
  <2>. QED
    BY <2>1, <2>2 DEF StoreSnapshot
<1>5. ProcessesShow' /\ Proceeds(p)
  <2>1. Exit(p, r, r.verdict, r.image)
    BY DEF StoreSnapshot
  <2>2. /\ r.verdict # "linked" => r.image = NoImage
        /\ r.verdict = "checked" => r.cmd = "check"
        /\ r.verdict = "rejected" => /\ r.shown = FALSE
                                     /\ \E o \in Outside : ~Passes(Program[r.src][o], r.mode)
    BY <1>1 DEF ProcessShows
  <2>. QED
    BY <1>1, <1>2, <2>1, <2>2, ExitShows
<1>. QED
  BY <1>4, <1>5

\* A step of a process that works on a request.
LEMMA StepShows ==
    ASSUME HashCoversInputs, WarningModesAgree, ShowInv, NEW p \in Proc, Step(p)
    PROVE  ShownSound' /\ ProcessesShow' /\ Proceeds(p)
<1>1. ShownSound
  BY ShowFacts
<1>2. CASE Lookup(p) \/ ValidateEntry(p) \/ Replay(p)
  BY <1>1, <1>2, SearchShows DEF ShownSound, Lookup, ValidateEntry, Replay
<1>3. CASE Materialize(p) \/ LinkCached(p)
  BY <1>1, <1>3, ReplayShows DEF ShownSound, Materialize, LinkCached
<1>4. CASE Frontend(p) \/ LoadArtifact(p) \/ Loaded(p)
  BY <1>1, <1>4, LowerShows DEF ShownSound, Frontend, LoadArtifact, Loaded
<1>5. CASE CompileUnit(p) \/ LinkFresh(p) \/ RetryHosted(p)
  BY <1>1, <1>5, LinkShows DEF ShownSound, CompileUnit, LinkFresh, RetryHosted
<1>6. CASE StoreSnapshot(p)
  BY <1>6, SnapshotShows
<1>. QED
  BY <1>2, <1>3, <1>4, <1>5, <1>6 DEF Step

\* A process that is killed or retired forgets what it was asked.
LEMMA LeaveShows ==
    ASSUME ShowInv, NEW p \in Proc, Crash(p) \/ Retire(p)
    PROVE  /\ ShownSound' /\ ProcessesShow'
           /\ proc[p].pc # "idle"
           /\ proc'[p].pc = "idle" /\ proc'[p].verdict = "none"
           /\ \A q \in Proc \ {p} : proc'[q] = proc[q]
<1>1. TypeOK /\ ShownSound /\ ProcessesShow
  BY ShowFacts
<1>2. Become(p, Idle) /\ proc[p].pc # "idle" /\ builds' = builds
  BY DEF Crash, Retire
<1>3. proc'[p] = Idle /\ \A q \in Proc \ {p} : proc'[q] = proc[q]
  BY <1>1, <1>2 DEF TypeOK, Become
<1>4. Idle.pc = "idle" /\ Idle.verdict = "none"
  BY DEF Idle
<1>5. ProcessesShow'
  <2>. SUFFICES ASSUME NEW q \in Proc PROVE ProcessShows(proc'[q])
    BY DEF ProcessesShow, ProcessShows, Lowers
  <2>1. CASE q = p
    BY <1>3, <2>1, IdleShows
  <2>2. CASE q # p
    BY <1>1, <1>3, <2>2 DEF ProcessesShow
  <2>. QED
    BY <2>1, <2>2
<1>. QED
  BY <1>1, <1>2, <1>3, <1>4, <1>5 DEF ShownSound

\* Files that are lost or written concern no request and no answer.
LEMMA EnvironmentShows ==
    ASSUME ShowInv,
           \/ \E path \in Path : LoseArtifact(path)
           \/ \E s \in Source : LoseSnapshot(s)
           \/ \E o \in Outside : EditOutside(o)
    PROVE  /\ ShownSound' /\ ProcessesShow'
           /\ \A p \in Proc : /\ proc'[p].pc = proc[p].pc
                              /\ RequestOf(proc'[p]) = RequestOf(proc[p])
                              /\ AnswerOf(proc'[p]) = AnswerOf(proc[p])
<1>1. TypeOK /\ ShownSound /\ ProcessesShow
  BY DEF ShowInv
<1>2. ShownSound'
  <2>1. \A s \in Source : builds'[s] = builds[s] \/ builds'[s] = {}
    BY <1>1 DEF LoseArtifact, LoseSnapshot, EditOutside, TypeOK
  <2>. QED
    BY <1>1, <2>1 DEF ShownSound
<1>3. ASSUME NEW p \in Proc
      PROVE  /\ ProcessShows(proc'[p]) /\ proc'[p].pc = proc[p].pc
             /\ RequestOf(proc'[p]) = RequestOf(proc[p])
             /\ AnswerOf(proc'[p]) = AnswerOf(proc[p])
  <2> DEFINE r == proc[p]
  <2>1. r \in Process /\ ProcessShows(r)
    BY <1>1 DEF TypeOK, ProcessesShow
  <2>2. ASSUME NEW path \in Path, LoseArtifact(path)
        PROVE  /\ ProcessShows(proc'[p]) /\ proc'[p].pc = r.pc
               /\ RequestOf(proc'[p]) = RequestOf(r) /\ AnswerOf(proc'[p]) = AnswerOf(r)
    <3> DEFINE x == [r EXCEPT !.lost = r.pc # "idle"]
    <3>1. /\ x.pc = r.pc /\ x.src = r.src /\ x.cmd = r.cmd /\ x.mode = r.mode
          /\ x.seen = r.seen /\ x.from = r.from /\ x.shown = r.shown
          /\ x.verdict = r.verdict /\ x.image = r.image
      BY <2>1 DEF Process
    <3>2. proc'[p] = x
      BY <2>2 DEF LoseArtifact
    <3>. HIDE DEF r, x
    <3>. QED
      BY <2>1, <3>1, <3>2, SilentShows
  <2>3. ASSUME NEW s \in Source, LoseSnapshot(s)
        PROVE  /\ ProcessShows(proc'[p]) /\ proc'[p].pc = r.pc
               /\ RequestOf(proc'[p]) = RequestOf(r) /\ AnswerOf(proc'[p]) = AnswerOf(r)
    BY <2>1, <2>3 DEF LoseSnapshot
  <2>4. ASSUME NEW o \in Outside, EditOutside(o)
        PROVE  /\ ProcessShows(proc'[p]) /\ proc'[p].pc = r.pc
               /\ RequestOf(proc'[p]) = RequestOf(r) /\ AnswerOf(proc'[p]) = AnswerOf(r)
    <3> DEFINE x == [r EXCEPT !.seen = IF r.pc = "idle" THEN @ ELSE @ \cup {o}]
    <3>1. /\ x.pc = r.pc /\ x.src = r.src /\ x.cmd = r.cmd /\ x.mode = r.mode
          /\ x.from = r.from /\ x.shown = r.shown
          /\ x.verdict = r.verdict /\ x.image = r.image
          /\ x.seen = IF r.pc = "idle" THEN r.seen ELSE r.seen \cup {o}
      BY <2>1 DEF Process
    <3>2. proc'[p] = x
      BY <2>4 DEF EditOutside
    <3>3. Lowers(x) = Lowers(r)
      BY <3>1 DEF Lowers
    <3>. HIDE DEF r, x
    <3>4. x.pc # "idle" => x.seen # {}
      BY <2>1, <3>1 DEF ProcessShows
    <3>5. ProcessShows(x)
      BY <2>1, <3>1, <3>3, <3>4 DEF ProcessShows
    <3>. QED
      BY <3>1, <3>2, <3>5 DEF RequestOf, AnswerOf
  <2>. QED
    BY <2>2, <2>3, <2>4
<1>4. ProcessesShow'
  BY <1>3 DEF ProcessesShow, ProcessShows, Lowers
<1>. QED
  BY <1>2, <1>3, <1>4

LEMMA ShowInit == Init => ShowInv
<1>. SUFFICES ASSUME Init PROVE ShowInv
  OBVIOUS
<1>1. TypeOK
  BY IdleType DEF Init, TypeOK
<1>2. ShownSound
  BY DEF Init, ShownSound
<1>3. ProcessesShow
  BY IdleShows DEF Init, ProcessesShow
<1>. QED
  BY <1>1, <1>2, <1>3 DEF ShowInv

LEMMA ShowStep ==
    ASSUME HashCoversInputs, WarningModesAgree, ShowInv, [Next]_vars
    PROVE  ShowInv'
<1>1. TypeOK'
  BY TypeStep DEF ShowInv
<1>2. ASSUME NEW p \in Proc, Start(p) PROVE ShownSound' /\ ProcessesShow'
  BY <1>2, StartShows DEF ShowInv, ShownSound, Start
<1>3. ASSUME NEW p \in Proc, Step(p) PROVE ShownSound' /\ ProcessesShow'
  BY <1>3, StepShows
<1>4. ASSUME NEW p \in Proc, Crash(p) \/ Retire(p) PROVE ShownSound' /\ ProcessesShow'
  BY <1>4, LeaveShows
<1>5. ASSUME \/ \E path \in Path : LoseArtifact(path)
             \/ \E s \in Source : LoseSnapshot(s)
             \/ \E o \in Outside : EditOutside(o)
      PROVE  ShownSound' /\ ProcessesShow'
  BY <1>5, EnvironmentShows
<1>6. CASE UNCHANGED vars
  BY <1>1, <1>6 DEF vars, ShowInv, ShownSound, ProcessesShow, ProcessShows, Lowers
<1>. QED
  BY <1>1, <1>2, <1>3, <1>4, <1>5, <1>6 DEF Next, ShowInv

\* When the input hash covers what lowering reads and a program with warnings is
\* always built under one mode, the warning policy is applied to every build,
\* replayed or not, whatever is lost, killed or written meanwhile
\* (main.go:102-121, cached_snapshot.go:13-15).
THEOREM WarningsHonoured ==
    ASSUME HashCoversInputs, WarningModesAgree
    PROVE  Spec => []WarningModeHonoured
<1>1. ShowInv /\ [Next]_vars => ShowInv'
  BY ShowStep
<1>2. ShowInv => WarningModeHonoured
  <2>. SUFFICES ASSUME ShowInv, NEW p \in Proc, proc[p].verdict \in {"linked", "checked"}
                PROVE  \E g \in Lowerings(p) :
                          /\ proc[p].shown = (g.warns /\ proc[p].mode = "show")
                          /\ ~(g.warns /\ proc[p].mode = "error")
    BY DEF WarningModeHonoured
  <2> DEFINE r == proc[p]
  <2>1. r \in Process /\ ProcessShows(r)
    BY ShowFacts
  <2>2. /\ r.pc # "idle" /\ r.src \in Source /\ r.from \in Outside
        /\ r.seen # {} /\ r.seen \subseteq Outside
        /\ Shows(Lowers(r), r.mode, r.shown)
    BY <2>1 DEF ProcessShows, Process
  <2>3. PICK o \in r.seen : TRUE
    BY <2>2
  <2>4. Lowers(r) = Program[r.src][o]
    BY <2>2, SameProgram DEF Lowers
  <2>5. Lowers(r) \in Lowerings(p)
    BY <2>4 DEF Lowerings
  <2>. QED
    BY <2>2, <2>5 DEF Shows, Passes
<1>. QED
  BY ShowInit, <1>1, <1>2, PTL DEF Spec
-----------------------------------------------------------------------------
\* The refinement.  What the invoker of each process sees of the build cache:
AskedNow == [p \in Proc |-> IF proc[p].pc = "idle" THEN {} ELSE {RequestOf(proc[p])}]
AnswerNow == [p \in Proc |-> IF proc[p].verdict = "none" THEN {} ELSE {AnswerOf(proc[p])}]
\* and what a compiler with an empty cache may answer.
Promised(a) == GivesUp \cup {CleanAnswer(a, Program[a.src][o]) : o \in Outside}

LEMMA AnswersAreClean ==
    ASSUME NEW r \in Process, ProcessSound(r), ProcessShows(r), r.verdict # "none"
    PROVE  AnswerOf(r) \in Promised(RequestOf(r))
<1> DEFINE a == RequestOf(r)
           g == Lowers(r)
<1>2. r.from \in Outside /\ a.src = r.src /\ a.cmd = r.cmd /\ a.mode = r.mode
  BY DEF Process, RequestOf
<1>3. CleanAnswer(a, g) \in Promised(a)
  BY <1>2 DEF Promised, Lowers
<1>4. CASE r.verdict = "linked"
  <2>1. r.cmd # "check" /\ r.image = Clean(g) /\ Shows(g, r.mode, r.shown)
    BY <1>4 DEF ProcessShows, ProcessSound
  <2>2. AnswerOf(r) = CleanAnswer(a, g)
    BY <1>2, <1>4, <2>1 DEF AnswerOf, CleanAnswer, Shows, Passes
  <2>. QED
    BY <1>3, <2>2
<1>5. CASE r.verdict = "checked"
  <2>1. r.cmd = "check" /\ r.image = NoImage /\ Shows(g, r.mode, r.shown)
    BY <1>5 DEF ProcessShows
  <2>2. AnswerOf(r) = CleanAnswer(a, g)
    BY <1>2, <1>5, <2>1 DEF AnswerOf, CleanAnswer, Shows, Passes
  <2>. QED
    BY <1>3, <2>2
<1>6. CASE r.verdict = "rejected"
  <2>1. PICK o \in Outside : ~Passes(Program[r.src][o], r.mode)
    BY <1>6 DEF ProcessShows
  <2>2. r.image = NoImage /\ r.shown = FALSE
    BY <1>6 DEF ProcessShows
  <2>3. AnswerOf(r) = CleanAnswer(a, Program[a.src][o])
    BY <1>2, <1>6, <2>1, <2>2 DEF AnswerOf, CleanAnswer, Passes
  <2>. QED
    BY <2>3 DEF Promised
<1>7. CASE r.verdict = "unavailable"
  <2>1. r.image = NoImage /\ r.shown \in BOOLEAN
    BY <1>7 DEF ProcessShows, Process
  <2>2. AnswerOf(r) \in GivesUp
    BY <1>7, <2>1 DEF AnswerOf, GivesUp
  <2>. QED
    BY <2>2 DEF Promised
<1>8. r.verdict \in Verdict
  BY DEF Process
<1>. QED
  BY <1>4, <1>5, <1>6, <1>7, <1>8 DEF Verdict

\* An invocation is a request nobody works on yet; it is what Ask asks.
LEMMA StartAsks ==
    ASSUME ShowInv, NEW p \in Proc, Start(p)
    PROVE  Promise!Ask(p)
<1>1. /\ proc[p].pc = "idle" /\ proc[p].verdict = "none"
      /\ proc'[p].pc = "lookup" /\ proc'[p].verdict = "none"
      /\ RequestOf(proc'[p]) \in Invocation
      /\ \A q \in Proc \ {p} : proc'[q] = proc[q]
  BY StartShows, ShowFacts DEF ProcessShows
<1>2. AskedNow[p] = {}
  BY <1>1 DEF AskedNow
<1>3. AskedNow' = [AskedNow EXCEPT ![p] = {RequestOf(proc'[p])}]
  BY <1>1 DEF AskedNow
<1>4. AnswerNow' = AnswerNow
  BY <1>1 DEF AnswerNow
<1>. QED
  BY <1>1, <1>2, <1>3, <1>4 DEF Promise!Ask, AskedNow, AnswerNow

\* A step that gives the process its verdict responds; the others are silent.
LEMMA StepResponds ==
    ASSUME Inv', ShowInv, ShowInv', NEW p \in Proc, Proceeds(p)
    PROVE  Promise!Respond(p) \/ UNCHANGED <<AskedNow, AnswerNow>>
<1>1. /\ proc[p].pc # "idle" /\ proc'[p].pc # "idle"
      /\ RequestOf(proc'[p]) = RequestOf(proc[p])
      /\ proc[p].verdict # "none" => AnswerOf(proc'[p]) = AnswerOf(proc[p])
      /\ \A q \in Proc \ {p} : proc'[q] = proc[q]
  BY DEF Proceeds, Continues
<1>2. AskedNow' = AskedNow
  BY <1>1 DEF AskedNow
<1>3. CASE proc[p].verdict = "none" /\ proc'[p].verdict # "none"
  <2>1. AnswerOf(proc'[p]) \in Promised(RequestOf(proc[p]))
    <3>1. proc'[p] \in Process
      BY DEF ShowInv, TypeOK
    <3>2. ProcessSound(proc'[p])
      BY DEF Inv, ProcessesSound, ProcessSound, Lowers
    <3>3. ProcessShows(proc'[p])
      BY DEF ShowInv, ProcessesShow, ProcessShows, Lowers
    <3>. QED
      BY <1>1, <1>3, <3>1, <3>2, <3>3, AnswersAreClean
  <2>2. RequestOf(proc[p]) \in AskedNow[p] /\ AnswerNow[p] = {}
    BY <1>1, <1>3 DEF AskedNow, AnswerNow
  <2>3. AnswerNow' = [AnswerNow EXCEPT ![p] = {AnswerOf(proc'[p])}]
    BY <1>1, <1>3 DEF AnswerNow
  <2>4. RequestOf(proc[p]) \in Invocation
    BY <1>1, ShowFacts, BuildAssumption DEF ProcessShows, RequestOf, Invocation
  <2>. QED
    BY <1>2, <2>1, <2>2, <2>3, <2>4 DEF Promise!Respond, AskedNow, AnswerNow, Promised
<1>4. CASE ~(proc[p].verdict = "none" /\ proc'[p].verdict # "none")
  <2>1. proc[p].verdict # "none" => proc'[p].verdict = proc[p].verdict
    BY <1>1 DEF AnswerOf
  <2>2. AnswerNow' = AnswerNow
    BY <1>1, <1>4, <2>1 DEF AnswerNow
  <2>. QED
    BY <1>2, <2>2
<1>. QED
  BY <1>3, <1>4

\* A process that exits or is killed leaves, with or without having answered.
LEMMA LeaveLeaves ==
    ASSUME ShowInv, NEW p \in Proc, Crash(p) \/ Retire(p)
    PROVE  Promise!Leave(p)
<1>1. /\ proc[p].pc # "idle" /\ proc'[p].pc = "idle" /\ proc'[p].verdict = "none"
      /\ \A q \in Proc \ {p} : proc'[q] = proc[q]
  BY LeaveShows
<1>2. AskedNow[p] # {}
  BY <1>1 DEF AskedNow
<1>3. AskedNow' = [AskedNow EXCEPT ![p] = {}] /\ AnswerNow' = [AnswerNow EXCEPT ![p] = {}]
  BY <1>1 DEF AskedNow, AnswerNow
<1>. QED
  BY <1>2, <1>3 DEF Promise!Leave, AskedNow, AnswerNow

\* Every step of the build cache is a step of the promise or a stutter.
LEMMA PromiseStep ==
    ASSUME HashCoversInputs, WarningModesAgree, Inv', ShowInv, ShowInv', [Next]_vars
    PROVE  [Promise!Next]_<<AskedNow, AnswerNow>>
<1>1. ASSUME NEW p \in Proc, Start(p) PROVE Promise!Next
  BY <1>1, StartAsks DEF Promise!Next
<1>2. ASSUME NEW p \in Proc, Step(p) PROVE [Promise!Next]_<<AskedNow, AnswerNow>>
  <2>1. Proceeds(p)
    BY <1>2, StepShows
  <2>. QED
    BY <2>1, StepResponds DEF Promise!Next
<1>3. ASSUME NEW p \in Proc, Crash(p) \/ Retire(p) PROVE Promise!Next
  BY <1>3, LeaveLeaves DEF Promise!Next
<1>4. ASSUME \/ \E path \in Path : LoseArtifact(path)
             \/ \E s \in Source : LoseSnapshot(s)
             \/ \E o \in Outside : EditOutside(o)
      PROVE  UNCHANGED <<AskedNow, AnswerNow>>
  <2>1. \A p \in Proc : /\ proc'[p].pc = proc[p].pc
                        /\ RequestOf(proc'[p]) = RequestOf(proc[p])
                        /\ AnswerOf(proc'[p]) = AnswerOf(proc[p])
    BY <1>4, EnvironmentShows
  <2>2. \A p \in Proc : proc'[p].verdict = proc[p].verdict
    BY <2>1 DEF AnswerOf
  <2>. QED
    BY <2>1, <2>2 DEF AskedNow, AnswerNow
<1>5. CASE UNCHANGED vars
  BY <1>5 DEF vars, AskedNow, AnswerNow, RequestOf, AnswerOf
<1>. QED
  BY <1>1, <1>2, <1>3, <1>4, <1>5 DEF Next

\* Whatever the cache holds and however compilers interleave, crash, lose files
\* and fail to store, a process answers like a compiler with an empty cache,
\* once, or gives up: the build cache implements BuildPromise.  The assumptions
\* exclude the cases in which the code does not (all of main.go).
THEOREM PromiseKept ==
    ASSUME SpecializationsAddressed, HashCoversInputs, HostedStoreReliable, WarningModesAgree
    PROVE  Spec => KeepsPromise
<1>1. Init => Promise!Init
  BY DEF Init, Idle, Promise!Init
<1>2. Init => Inv
  BY SoundInit
<1>3. Inv /\ [Next]_vars => Inv'
  BY SoundStep
<1>4. ShowInv /\ [Next]_vars => ShowInv'
  BY ShowStep
<1>5. Inv' /\ ShowInv /\ ShowInv' /\ [Next]_vars => [Promise!Next]_<<AskedNow, AnswerNow>>
  BY PromiseStep
<1>. QED
  BY ShowInit, <1>1, <1>2, <1>3, <1>4, <1>5, PTL
     DEF Spec, KeepsPromise, Promise!Spec, AskedNow, AnswerNow
=============================================================================
