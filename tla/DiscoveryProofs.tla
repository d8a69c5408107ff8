--------------------------- MODULE DiscoveryProofs ---------------------------
(***************************************************************************)
(* Theorems about source discovery, for every workspace: any tree of       *)
(* directories, any mounts and search roots.                               *)
(***************************************************************************)
EXTENDS Discovery, SequenceTheorems, TLAPS

-----------------------------------------------------------------------------
(* The elements of sequences.                                               *)

LEMMA MembersOfAppend ==
    ASSUME NEW S, NEW s \in Seq(S), NEW e
    PROVE  /\ Append(s, e) \in Seq(S \cup {e})
           /\ Members(Append(s, e)) = Members(s) \cup {e}
<1>1. s \in Seq(S \cup {e}) /\ e \in S \cup {e} /\ Len(s) \in Nat
  OBVIOUS
<1>2. /\ Append(s, e) \in Seq(S \cup {e})
      /\ Len(Append(s, e)) = Len(s) + 1
      /\ \A i \in 1..Len(s) : Append(s, e)[i] = s[i]
      /\ Append(s, e)[Len(s) + 1] = e
  BY <1>1, AppendProperties
<1>3. 1..(Len(s) + 1) = (1..Len(s)) \cup {Len(s) + 1}
  BY <1>1
<1>. QED
  BY <1>2, <1>3 DEF Members

LEMMA MembersOfConcat ==
    ASSUME NEW S, NEW s \in Seq(S), NEW t \in Seq(S)
    PROVE  Members(s \o t) = Members(s) \cup Members(t)
<1> DEFINE m == Len(s)  n == Len(t)
<1>1. m \in Nat /\ n \in Nat
  OBVIOUS
<1>2. /\ Len(s \o t) = m + n
      /\ \A i \in 1..(m + n) : (s \o t)[i] = IF i <= m THEN s[i] ELSE t[i - m]
  BY <1>1, ConcatProperties
<1>3. ASSUME NEW x \in Members(s \o t)  PROVE x \in Members(s) \cup Members(t)
  <2>1. PICK i \in 1..(m + n) : x = (s \o t)[i]
    BY <1>2 DEF Members
  <2>2. CASE i <= m
    <3>1. i \in 1..m
      BY <2>2, <1>1
    <3>. QED
      BY <2>1, <2>2, <3>1, <1>2 DEF Members
  <2>3. CASE ~(i <= m)
    <3>1. i - m \in 1..n
      BY <2>3, <1>1
    <3>. QED
      BY <2>1, <2>3, <3>1, <1>2 DEF Members
  <2>. QED
    BY <2>2, <2>3
<1>4. ASSUME NEW x \in Members(s)  PROVE x \in Members(s \o t)
  <2>1. PICK i \in 1..m : x = s[i]
    BY DEF Members
  <2>2. i \in 1..(m + n) /\ i <= m
    BY <1>1
  <2>. QED
    BY <2>1, <2>2, <1>2 DEF Members
<1>5. ASSUME NEW x \in Members(t)  PROVE x \in Members(s \o t)
  <2>1. PICK i \in 1..n : x = t[i]
    BY DEF Members
  <2>2. m + i \in 1..(m + n) /\ ~(m + i <= m) /\ (m + i) - m = i
    BY <1>1
  <2>3. (s \o t)[m + i] = t[i]
    BY <2>2, <1>2
  <2>. QED
    BY <2>1, <2>2, <2>3, <1>2 DEF Members
<1>. QED
  BY <1>2, <1>3, <1>4, <1>5

LEMMA MembersOfTail ==
    ASSUME NEW S, NEW s \in Seq(S), s # <<>>
    PROVE  /\ Tail(s) \in Seq(S)
           /\ Head(s) \in Members(s)
           /\ Members(s) = Members(Tail(s)) \cup {Head(s)}
<1> DEFINE n == Len(s)
<1>1. n \in Nat \ {0} /\ Head(s) = s[1]
  OBVIOUS
<1>2. Tail(s) \in Seq(S) /\ Len(Tail(s)) = n - 1 /\ \A i \in 1..(n - 1) : Tail(s)[i] = s[i + 1]
  BY HeadTailProperties, <1>1
<1>3. ASSUME NEW x \in Members(s)  PROVE x \in Members(Tail(s)) \cup {Head(s)}
  <2>1. PICK i \in 1..n : x = s[i]
    BY DEF Members
  <2>2. CASE i = 1
    BY <2>1, <2>2, <1>1
  <2>3. CASE i # 1
    <3>1. i - 1 \in 1..(n - 1) /\ (i - 1) + 1 = i
      BY <2>3, <1>1
    <3>2. Tail(s)[i - 1] = s[i]
      BY <3>1, <1>2
    <3>. QED
      BY <2>1, <3>1, <3>2, <1>2 DEF Members
  <2>. QED
    BY <2>2, <2>3
<1>4. ASSUME NEW x \in Members(Tail(s))  PROVE x \in Members(s)
  <2>1. PICK i \in 1..(n - 1) : x = Tail(s)[i]
    BY <1>2 DEF Members
  <2>2. i + 1 \in 1..n
    BY <1>1
  <2>. QED
    BY <2>1, <2>2, <1>2 DEF Members
<1>5. Head(s) \in Members(s)
  <2>1. 1 \in 1..n
    BY <1>1
  <2>. QED
    BY <2>1, <1>1 DEF Members
<1>. QED
  BY <1>2, <1>3, <1>4, <1>5

-----------------------------------------------------------------------------
(* The second lookup of an import agrees with the first.                    *)

\* A request made by the library or project `origin` for `import`: it carries no
\* module path, or the one a first lookup gave it.
Asked(w, r, import, origin) ==
    LET first == [import |-> import, module |-> NoPath, importer |-> r.importer, origin |-> origin] IN
    /\ r.import = import /\ r.origin = origin
    /\ r.module \in {NoPath, import, Target(first, Locate(w, first))}

LEMMA SameLocation ==
    ASSUME NEW w, NEW r, NEW importer, NEW import, NEW origin,
           r.importer = importer, Asked(w, r, import, origin)
    PROVE  LET first == Request(importer, import, origin) IN
           /\ Locate(w, r) = Locate(w, first)
           /\ Target(r, Locate(w, r)) = Target(first, Locate(w, first))
<1> DEFINE first == Request(importer, import, origin)
<1>1. /\ first.import = import /\ first.module = NoPath /\ first.origin = origin
      /\ r.import = import /\ r.origin = origin
      /\ r.module \in {NoPath, import, Target(first, Locate(w, first))}
  BY DEF Asked, Request
<1>2. FromOrigin(w, r) = FromOrigin(w, first) /\ FromMounts(w, r) = FromMounts(w, first)
  BY <1>1 DEF FromOrigin, FromMounts
<1> HIDE DEF first
<1>3. CASE FromOrigin(w, first) # Missing \/ FromMounts(w, first) # Missing
  <2>1. Locate(w, r) = Locate(w, first) /\ Locate(w, first) # Missing
    BY <1>2, <1>3 DEF Locate
  <2>. QED
    BY <2>1, <1>1 DEF Target, first
<1>4. CASE FromOrigin(w, first) = Missing /\ FromMounts(w, first) = Missing
  <2>1. Locate(w, r) = FromRoots(w, Sought(r)) /\ Locate(w, first) = FromRoots(w, Sought(first))
    BY <1>2, <1>4 DEF Locate
  <2>2. Sought(first) = import
    BY <1>1 DEF Sought
  <2>3. FromRoots(w, import) = Missing \/ FromRoots(w, import).module = import
    BY DEF FromRoots, Located
  <2>4. Target(first, Locate(w, first)) = import
    BY <2>1, <2>2, <2>3, <1>1 DEF Target
  <2>5. r.module \in {NoPath, import} /\ Sought(r) = import
    BY <2>4, <1>1 DEF Sought
  <2>6. Target(r, Locate(w, r)) = import
    BY <2>1, <2>3, <2>5, <1>1 DEF Target
  <2>. QED
    BY <2>1, <2>2, <2>4, <2>5, <2>6 DEF first
<1>. QED
  BY <1>3, <1>4

-----------------------------------------------------------------------------
(* The inductive invariant.                                                 *)

\* An import that was looked up: recorded, unambiguous, its directory known.
Settled(p, import) ==
    /\ <<p.module, import>> \in DOMAIN resolutions
    /\ Meaning(p, import) # Ambiguous
    /\ Meaning(p, import) # Missing =>
          /\ Meant(p, import) \in DOMAIN directories
          /\ directories[Meant(p, import)] = Meaning(p, import).dir

Requested(p, import) == \E r \in Members(queue) : r.importer = p.module /\ r.import = import

Sequences == (\E R : queue \in Seq(R)) /\ (\E P : packages \in Seq(P))
OneEach == \A p, q \in Members(packages) : p.module = q.module => p = q
PackagesKnown ==
    \A p \in Members(packages) :
        /\ p.module \in seen
        /\ p.module \in DOMAIN directories /\ directories[p.module] = p.dir
QueueAsked ==
    \A r \in Members(queue) : \E p \in Members(packages) :
        r.importer = p.module /\ Asked(workspace, r, r.import, p.origin)
Resolved ==
    \A x \in DOMAIN resolutions : \E p \in Members(packages) :
        p.module = x[1] /\ resolutions[x] = Meant(p, x[2])
Covered ==
    \A p \in Members(packages) : \A x \in Members(p.imports) : Requested(p, x) \/ Settled(p, x)

Inv ==
    /\ workspace \in Workspace
    /\ pc = "begin" => packages = <<>> /\ queue = <<>> /\ resolutions = <<>>
    /\ pc = "done" => queue = <<>>
    /\ Sequences
    /\ OneEach
    /\ PackagesKnown
    /\ QueueAsked
    /\ Resolved
    /\ Covered

LEMMA InitInv == Init => Inv
<1> SUFFICES ASSUME Init  PROVE Inv
  OBVIOUS
<1>1. Members(<<>>) = {} /\ DOMAIN <<>> = {}
  BY DEF Members
<1>2. queue = <<>> /\ packages = <<>> /\ resolutions = <<>> /\ pc = "begin" /\ workspace \in Workspace
  BY DEF Init
<1>3. Sequences
  <2>1. <<>> \in Seq({})
    OBVIOUS
  <2>. QED
    BY <1>2, <2>1 DEF Sequences
<1>. QED
  BY <1>1, <1>2, <1>3 DEF Inv, OneEach, PackagesKnown, QueueAsked, Resolved, Covered


-----------------------------------------------------------------------------
(* What the steps that take a request have in common.                       *)

\* The request at the head of the queue means what its import means to the
\* package that asked.
LEMMA HeadMeaning ==
    ASSUME Inv, queue # <<>>, NEW r, r = Head(queue), NEW at, at = Locate(workspace, r)
    PROVE  /\ r \in Members(queue)
           /\ \E p \in Members(packages) : p.module = r.importer
           /\ \A p \in Members(packages) :
                 p.module = r.importer =>
                    at = Meaning(p, r.import) /\ Target(r, at) = Meant(p, r.import)
<1>1. r \in Members(queue)
  <2>1. PICK R : queue \in Seq(R)
    BY DEF Inv, Sequences
  <2>. QED
    BY <2>1, MembersOfTail
<1>2. PICK p \in Members(packages) :
          r.importer = p.module /\ Asked(workspace, r, r.import, p.origin)
  BY <1>1 DEF Inv, QueueAsked
<1>3. at = Meaning(p, r.import) /\ Target(r, at) = Meant(p, r.import)
  BY <1>2, SameLocation DEF Meaning, Meant
<1>4. \A q \in Members(packages) : q.module = r.importer => q = p
  BY <1>2 DEF Inv, OneEach
<1>. QED
  BY <1>1, <1>2, <1>3, <1>4

\* What a request that is accepted does to the directories and resolutions.
Answer(r, at) ==
    /\ at # Ambiguous /\ ~Conflict(r, at)
    /\ workspace' = workspace
    /\ directories' = IF at = Missing THEN directories ELSE Put(directories, Target(r, at), at.dir)
    /\ \A x \in DOMAIN resolutions : x \in DOMAIN resolutions'
    /\ \A x \in DOMAIN resolutions :
          x # <<r.importer, r.import>> => resolutions'[x] = resolutions[x]
    /\ <<r.importer, r.import>> \in DOMAIN resolutions'
    /\ resolutions'[<<r.importer, r.import>>] = Target(r, at)

LEMMA DirectoriesKept ==
    ASSUME NEW r, NEW at, Answer(r, at)
    PROVE  /\ \A m \in DOMAIN directories : m \in DOMAIN directories' /\ directories'[m] = directories[m]
           /\ at # Missing => /\ Target(r, at) \in DOMAIN directories'
                              /\ directories'[Target(r, at)] = at.dir
<1>1. CASE at = Missing
  BY <1>1 DEF Answer
<1>2. CASE at # Missing
  <2>1. directories' = Put(directories, Target(r, at), at.dir)
    BY <1>2 DEF Answer
  <2>2. Target(r, at) \in DOMAIN directories => directories[Target(r, at)] = at.dir
    BY <1>2 DEF Answer, Conflict
  <2>3. /\ DOMAIN directories' = DOMAIN directories \cup {Target(r, at)}
        /\ directories'[Target(r, at)] = at.dir
        /\ \A m \in DOMAIN directories : m # Target(r, at) => directories'[m] = directories[m]
    BY <2>1 DEF Put
  <2>4. ASSUME NEW m \in DOMAIN directories
        PROVE  m \in DOMAIN directories' /\ directories'[m] = directories[m]
    <3>1. CASE m = Target(r, at)
      BY <3>1, <2>2, <2>3
    <3>2. CASE m # Target(r, at)
      BY <3>2, <2>3
    <3>. QED
      BY <3>1, <3>2
  <2>. QED
    BY <2>3, <2>4
<1>. QED
  BY <1>1, <1>2

\* The recorded resolution is the one that was there, if there was one.
LEMMA ResolutionsKept ==
    ASSUME Inv, queue # <<>>, NEW r, r = Head(queue), NEW at, at = Locate(workspace, r),
           Answer(r, at)
    PROVE  \A x \in DOMAIN resolutions : x \in DOMAIN resolutions' /\ resolutions'[x] = resolutions[x]
<1> SUFFICES ASSUME NEW x \in DOMAIN resolutions  PROVE resolutions'[x] = resolutions[x]
  BY DEF Answer
<1>1. CASE x # <<r.importer, r.import>>
  BY <1>1 DEF Answer
<1>2. CASE x = <<r.importer, r.import>>
  <2>1. PICK p \in Members(packages) : p.module = x[1] /\ resolutions[x] = Meant(p, x[2])
    BY DEF Inv, Resolved
  <2>2. x[1] = r.importer /\ x[2] = r.import
    BY <1>2
  <2>3. resolutions[x] = Target(r, at)
    BY <2>1, <2>2, HeadMeaning
  <2>. QED
    BY <1>2, <2>3 DEF Answer
<1>. QED
  BY <1>1, <1>2

\* Imports that were settled stay so; the one that is answered becomes so.
LEMMA SettledKept ==
    ASSUME Inv, queue # <<>>, NEW r, r = Head(queue), NEW at, at = Locate(workspace, r),
           Answer(r, at), NEW p \in Members(packages), NEW x,
           Settled(p, x) \/ (r.importer = p.module /\ r.import = x)
    PROVE  Settled(p, x)'
<1>1. workspace' = workspace
  BY DEF Answer
<1>2. Meaning(p, x)' = Meaning(p, x) /\ Meant(p, x)' = Meant(p, x)
  BY <1>1 DEF Meaning, Meant
<1>3. CASE Settled(p, x)
  <2>1. <<p.module, x>> \in DOMAIN resolutions'
    BY <1>3 DEF Settled, Answer
  <2>. QED
    BY <1>2, <1>3, <2>1, DirectoriesKept DEF Settled
<1>4. CASE r.importer = p.module /\ r.import = x
  <2>1. at = Meaning(p, x) /\ Target(r, at) = Meant(p, x)
    BY <1>4, HeadMeaning
  <2>2. <<p.module, x>> \in DOMAIN resolutions' /\ at # Ambiguous
    BY <1>4 DEF Answer
  <2>. QED
    BY <1>2, <2>1, <2>2, DirectoriesKept DEF Settled
<1>. QED
  BY <1>3, <1>4

-----------------------------------------------------------------------------
(* Every step preserves the invariant.                                      *)

LEMMA BeginInv == Inv /\ Begin => Inv'
<1> SUFFICES ASSUME Inv, Begin  PROVE Inv'
  OBVIOUS
<1> DEFINE w == workspace
           requests == [i \in 1..Len(w.root.imports) |-> Request(w.main, w.root.imports[i], 0)]
           std == [Request(w.main, StdModule, 0) EXCEPT !.module = StdModule]
           p == Package(w.main, w.dir, 0, w.root)
<1>1. /\ w \in Workspace /\ workspace' = w
      /\ pc' = "resolve" /\ resolutions' = resolutions /\ resolutions = <<>>
      /\ seen' = {w.main} /\ packages' = <<p>>
      /\ directories' = Put(<<>>, w.main, w.dir)
      /\ queue' = requests \/ queue' = Append(requests, std)
  BY DEF Begin, Inv
<1>2. w.root.imports \in Seq(Path) /\ Len(w.root.imports) \in Nat
  BY <1>1, WorkspaceAssumption
<1>3. /\ requests \in Seq(Members(requests))
      /\ Members(requests) = {Request(w.main, w.root.imports[i], 0) : i \in 1..Len(w.root.imports)}
      /\ Append(requests, std) \in Seq(Members(requests) \cup {std})
      /\ Members(Append(requests, std)) = Members(requests) \cup {std}
  <2>1. Len(requests) = Len(w.root.imports)
    BY <1>2
  <2>2. Members(requests) = {Request(w.main, w.root.imports[i], 0) : i \in 1..Len(w.root.imports)}
    BY <2>1 DEF Members
  <2>3. requests \in Seq(Members(requests))
    BY <1>2, <2>2
  <2> HIDE DEF requests, std
  <2>. QED
    BY <2>2, <2>3, MembersOfAppend
<1>4. Members(queue') \subseteq Members(requests) \cup {std} /\ Members(requests) \subseteq Members(queue')
  BY <1>1, <1>3
<1>5. Members(packages') = {p}
  BY <1>1 DEF Members
<1>6. Sequences'
  <2>1. \E R : queue' \in Seq(R)
    BY <1>1, <1>3
  <2>2. packages' \in Seq({p})
    BY <1>1
  <2>. QED
    BY <2>1, <2>2 DEF Sequences
<1>7. PackagesKnown'
  <2>1. p.module = w.main /\ p.dir = w.dir
    BY DEF Package
  <2>2. w.main \in DOMAIN Put(<<>>, w.main, w.dir) /\ Put(<<>>, w.main, w.dir)[w.main] = w.dir
    BY DEF Put
  <2>. QED
    BY <1>1, <1>5, <2>1, <2>2 DEF PackagesKnown
<1>8. QueueAsked'
  <2> SUFFICES ASSUME NEW r \in Members(queue')
               PROVE  r.importer = p.module /\ Asked(w, r, r.import, p.origin)
    BY <1>1, <1>5 DEF QueueAsked
  <2>1. p.module = w.main /\ p.origin = 0
    BY DEF Package
  <2>2. CASE r = std
    BY <2>1, <2>2 DEF Asked, Request
  <2>3. CASE r \in Members(requests)
    <3>1. PICK i \in 1..Len(w.root.imports) : r = Request(w.main, w.root.imports[i], 0)
      BY <2>3, <1>3
    <3>. QED
      BY <2>1, <3>1 DEF Asked, Request
  <2>. QED
    BY <1>4, <2>2, <2>3
<1>9. Resolved'
  <2>1. DOMAIN resolutions' = {}
    BY <1>1
  <2>. QED
    BY <2>1 DEF Resolved
<1>10. Covered'
  <2> SUFFICES ASSUME NEW x \in Members(p.imports)
               PROVE  \E r \in Members(queue') : r.importer = p.module /\ r.import = x
    BY <1>5 DEF Covered, Requested
  <2>1. p.module = w.main /\ p.imports = w.root.imports
    BY DEF Package
  <2>2. PICK i \in 1..Len(w.root.imports) : x = w.root.imports[i]
    BY <2>1 DEF Members
  <2>3. Request(w.main, x, 0) \in Members(queue')
    BY <1>3, <1>4, <2>2
  <2>. QED
    BY <2>1, <2>3 DEF Request
<1>11. OneEach'
  BY <1>5 DEF OneEach
<1>. QED
  BY <1>1, <1>6, <1>7, <1>8, <1>9, <1>10, <1>11 DEF Inv

\* A request that loads nothing.
LEMMA AnswerInv ==
    ASSUME Inv, pc = "resolve", pc' = pc, queue # <<>>,
           NEW r, r = Head(queue), NEW at, at = Locate(workspace, r),
           Answer(r, at), DOMAIN resolutions' = DOMAIN resolutions \cup {<<r.importer, r.import>>},
           queue' = Tail(queue), packages' = packages, seen \subseteq seen'
    PROVE  Inv'
<1>1. PICK R : queue \in Seq(R)
  BY DEF Inv, Sequences
<1>2. /\ Tail(queue) \in Seq(R) /\ Members(queue) = Members(queue') \cup {r}
  BY <1>1, MembersOfTail
<1>3. workspace' = workspace /\ Members(packages') = Members(packages)
  BY DEF Answer
<1>4. Sequences'
  BY <1>2 DEF Inv, Sequences
<1>5. PackagesKnown'
  BY <1>3, DirectoriesKept DEF Inv, PackagesKnown
<1>6. QueueAsked'
  BY <1>2, <1>3 DEF Inv, QueueAsked
<1>7. Resolved'
  <2> SUFFICES ASSUME NEW x \in DOMAIN resolutions'
               PROVE  \E p \in Members(packages) : p.module = x[1] /\ resolutions'[x] = Meant(p, x[2])'
    BY <1>3 DEF Resolved
  <2>1. \A p : Meant(p, x[2])' = Meant(p, x[2])
    BY <1>3 DEF Meant, Meaning
  <2>2. CASE x \in DOMAIN resolutions
    <3>1. resolutions'[x] = resolutions[x]
      BY <2>2, ResolutionsKept
    <3>. QED
      BY <2>1, <2>2, <3>1 DEF Inv, Resolved
  <2>3. CASE x = <<r.importer, r.import>>
    <3>1. PICK p \in Members(packages) : p.module = r.importer
      BY HeadMeaning
    <3>2. resolutions'[x] = Meant(p, r.import)
      BY <2>3, <3>1, HeadMeaning DEF Answer
    <3>3. x[1] = r.importer /\ x[2] = r.import
      BY <2>3
    <3>. QED
      BY <2>1, <3>1, <3>2, <3>3
  <2>. QED
    BY <2>2, <2>3
<1>8. Covered'
  <2> SUFFICES ASSUME NEW p \in Members(packages), NEW x \in Members(p.imports)
               PROVE  Requested(p, x)' \/ Settled(p, x)'
    BY <1>3 DEF Covered
  <2>1. CASE Settled(p, x)
    BY <2>1, SettledKept
  <2>2. CASE Requested(p, x)
    <3>1. PICK q \in Members(queue) : q.importer = p.module /\ q.import = x
      BY <2>2 DEF Requested
    <3>2. CASE q = r
      BY <3>1, <3>2, SettledKept
    <3>3. CASE q # r
      BY <1>2, <3>1, <3>3 DEF Requested
    <3>. QED
      BY <3>2, <3>3
  <2>. QED
    BY <2>1, <2>2 DEF Inv, Covered
<1>9. OneEach'
  BY <1>3 DEF Inv, OneEach
<1>. QED
  BY <1>3, <1>4, <1>5, <1>6, <1>7, <1>8, <1>9 DEF Inv

\* The imports of a directory, for any workspace.
LEMMA ImportsType ==
    ASSUME workspace \in Workspace, NEW d
    PROVE  FilesIn(workspace, d).imports \in Seq(Path)
<1>1. CASE d \in DOMAIN workspace.tree
  BY <1>1, WorkspaceAssumption DEF FilesIn
<1>2. CASE d \notin DOMAIN workspace.tree
  BY <1>2 DEF FilesIn, NoSources
<1>. QED
  BY <1>1, <1>2

\* What Load does to the package that was asked for; `children` are the requests
\* for its imports.
NewPackage(r, at) == Package(Target(r, at), at.dir, at.mount, FilesIn(workspace, at.dir))
Loads(r, at, children) ==
    /\ Answer(r, at) /\ at # Missing
    /\ Target(r, at) \notin seen /\ seen' = seen \cup {Target(r, at)}
    /\ packages' = Append(packages, NewPackage(r, at))
    /\ children \in Seq(Members(children))
    /\ queue' = Tail(queue) \o children
    /\ \A c : c \in Members(children) <=>
          \E x \in Members(FilesIn(workspace, at.dir).imports) :
              c = Child(workspace, Request(Target(r, at), x, at.mount))
    /\ \A x \in DOMAIN resolutions' \ (DOMAIN resolutions \cup {<<r.importer, r.import>>}) :
          /\ x[1] = Target(r, at)
          /\ resolutions'[x] = Meant(NewPackage(r, at), x[2])

LEMMA LoadEffect ==
    ASSUME Inv, queue # <<>>, NEW r, r = Head(queue), NEW at, at = Locate(workspace, r),
           Load(r, at)
    PROVE  \E children : Loads(r, at, children)
<1> DEFINE module == Target(r, at)
           files == FilesIn(workspace, at.dir)
           p == Package(module, at.dir, at.mount, files)
           recorded == Put(resolutions, <<r.importer, r.import>>, module)
           kept == {x \in DOMAIN recorded : x[1] # module}
           children == [i \in 1..Len(files.imports) |-> Child(workspace, Children(r, at)[i])]
<1>1. /\ New(r, at) /\ seen' = seen \cup {module} /\ packages' = Append(packages, p)
      /\ workspace' = workspace
      /\ directories' = Put(directories, module, at.dir)
      /\ queue' = Tail(queue) \o children
      /\ resolutions' = [x \in kept \cup {<<module, c.import>> : c \in Members(children)} |->
                            IF x \in kept THEN recorded[x]
                            ELSE (CHOOSE c \in Members(children) : c.import = x[2]).module]
  <2>1. /\ New(r, at) /\ seen' = seen \cup {module} /\ packages' = Append(packages, p)
        /\ workspace' = workspace /\ directories' = Put(directories, module, at.dir)
    BY DEF Load
  <2>2. PICK cs \in {children} :
            /\ queue' = Tail(queue) \o cs
            /\ resolutions' = [x \in kept \cup {<<module, c.import>> : c \in Members(cs)} |->
                                  IF x \in kept THEN recorded[x]
                                  ELSE (CHOOSE c \in Members(cs) : c.import = x[2]).module]
    BY Zenon DEF Load
  <2>3. cs = children
    OBVIOUS
  <2> HIDE DEF children, kept, recorded, module, files, p
  <2>. QED
    BY <2>1, <2>2, <2>3
<1>2. at # Missing /\ at # Ambiguous /\ ~Conflict(r, at) /\ module \notin seen
  BY <1>1 DEF New, Missing, Ambiguous
<1>3. files.imports \in Seq(Path) /\ Len(files.imports) \in Nat
  <2>1. files.imports \in Seq(Path)
    BY ImportsType DEF Inv
  <2>. QED
    BY <2>1
<1>4. \A i \in 1..Len(files.imports) :
          children[i] = Child(workspace, Request(module, files.imports[i], at.mount))
  BY DEF Children
<1>5. Len(children) = Len(files.imports) /\ children \in Seq(Members(children))
  <2>1. Len(children) = Len(files.imports)
    BY <1>3
  <2>. QED
    BY <1>3, <2>1 DEF Members
<1>6. \A c : c \in Members(children) <=>
          \E x \in Members(files.imports) : c = Child(workspace, Request(module, x, at.mount))
  <2> HIDE DEF children, module, files
  <2>1. \A c : c \in Members(children) <=> \E i \in 1..Len(files.imports) : c = children[i]
    BY <1>5 DEF Members
  <2>2. \A x : x \in Members(files.imports) <=> \E i \in 1..Len(files.imports) : x = files.imports[i]
    BY DEF Members
  <2>. QED
    BY <1>4, <2>1, <2>2
<1>7. DOMAIN recorded = DOMAIN resolutions \cup {<<r.importer, r.import>>}
  BY DEF Put
<1>8. recorded[<<r.importer, r.import>>] = module
      /\ \A x \in DOMAIN resolutions : x # <<r.importer, r.import>> => recorded[x] = resolutions[x]
  BY DEF Put
<1>9. kept = DOMAIN recorded
  <2>1. \A q \in Members(packages) : q.module # module
    BY <1>2 DEF Inv, PackagesKnown
  <2>2. \A x \in DOMAIN resolutions : x[1] # module
    BY <2>1 DEF Inv, Resolved
  <2>3. r.importer # module
    BY <2>1, HeadMeaning
  <2>4. <<r.importer, r.import>>[1] = r.importer
    OBVIOUS
  <2>5. \A x \in DOMAIN recorded : x[1] # module
    BY <1>7, <2>2, <2>3, <2>4
  <2> HIDE DEF recorded, module
  <2>. QED
    BY <2>5
<1>10. Answer(r, at)
  <2>1. \A x \in DOMAIN recorded : x \in DOMAIN resolutions' /\ resolutions'[x] = recorded[x]
    BY <1>1, <1>9
  <2>. QED
    BY <1>1, <1>2, <1>7, <1>8, <2>1 DEF Answer
<1>11. ASSUME NEW x \in DOMAIN resolutions', x \notin DOMAIN recorded
       PROVE  x[1] = module /\ resolutions'[x] = Meant(p, x[2])
  <2>1. PICK c \in Members(children) : x = <<module, c.import>>
    BY <1>1, <1>9, <1>11
  <2>2. x[1] = module /\ x[2] = c.import
    BY <2>1
  <2> DEFINE d == CHOOSE e \in Members(children) : e.import = x[2]
  <2>3. d \in Members(children) /\ d.import = x[2]
    BY <2>1, <2>2
  <2>4. resolutions'[x] = d.module
    BY <1>1, <1>9, <1>11
  <2>5. PICK y \in Members(files.imports) : d = Child(workspace, Request(module, y, at.mount))
    BY <1>6, <2>3
  <2> HIDE DEF d
  <2>6. y = x[2]
    BY <2>3, <2>5 DEF Child, Request
  <2>7. p.module = module /\ p.origin = at.mount
    BY DEF Package
  <2>8. d.module = Target(Request(module, y, at.mount), Locate(workspace, Request(module, y, at.mount)))
    BY <2>5 DEF Child, Request
  <2>. QED
    BY <2>2, <2>4, <2>6, <2>7, <2>8 DEF Meant, Meaning
<1> HIDE DEF children
<1>12. p = NewPackage(r, at) /\ module = Target(r, at) /\ files = FilesIn(workspace, at.dir)
  BY DEF NewPackage
<1> HIDE DEF p, files
<1>13. /\ Answer(r, at) /\ at # Missing
       /\ module \notin seen /\ seen' = seen \cup {module}
       /\ packages' = Append(packages, p)
       /\ children \in Seq(Members(children))
       /\ queue' = Tail(queue) \o children
  BY <1>1, <1>2, <1>5, <1>10
<1>14. \A x \in DOMAIN resolutions' \ (DOMAIN resolutions \cup {<<r.importer, r.import>>}) :
           x[1] = module /\ resolutions'[x] = Meant(p, x[2])
  BY <1>7, <1>11
<1>15. Loads(r, at, children)
  BY <1>6, <1>12, <1>13, <1>14 DEF Loads
<1>. QED
  BY <1>15

LEMMA LoadInv ==
    ASSUME Inv, pc = "resolve", pc' = pc, queue # <<>>,
           NEW r, r = Head(queue), NEW at, at = Locate(workspace, r), Load(r, at)
    PROVE  Inv'
<1> DEFINE module == Target(r, at)
           files == FilesIn(workspace, at.dir)
           p == Package(module, at.dir, at.mount, files)
<1>0. PICK children : Loads(r, at, children)
  BY LoadEffect
<1>1. /\ Answer(r, at) /\ at # Missing
      /\ module \notin seen /\ seen' = seen \cup {module}
      /\ packages' = Append(packages, p)
      /\ \A x \in DOMAIN resolutions' \ (DOMAIN resolutions \cup {<<r.importer, r.import>>}) :
            x[1] = module /\ resolutions'[x] = Meant(p, x[2])
  BY <1>0 DEF Loads, NewPackage
<1>2. /\ children \in Seq(Members(children))
      /\ queue' = Tail(queue) \o children
      /\ \A c : c \in Members(children) <=>
            \E x \in Members(files.imports) :
                c = Child(workspace, Request(module, x, at.mount))
  BY <1>0 DEF Loads
<1>3. p.module = module /\ p.dir = at.dir /\ p.origin = at.mount /\ p.imports = files.imports
  BY DEF Package
<1> HIDE DEF p, files, module
<1>4. PICK R : queue \in Seq(R)
  BY DEF Inv, Sequences
<1>5. Tail(queue) \in Seq(R) /\ Members(queue) = Members(Tail(queue)) \cup {r}
  BY <1>4, MembersOfTail
<1>6. /\ queue' \in Seq(R \cup Members(children))
      /\ Members(queue') = Members(Tail(queue)) \cup Members(children)
  <2> DEFINE U == R \cup Members(children)
             rest == Tail(queue)
  <2>0. children \in Seq(U) /\ rest \in Seq(U)
    BY <1>2, <1>5
  <2> HIDE DEF U, rest
  <2>1. rest \o children \in Seq(U)
    BY <2>0, ConcatProperties
  <2>2. Members(rest \o children) = Members(rest) \cup Members(children)
    BY <2>0, MembersOfConcat
  <2> USE DEF U, rest
  <2>. QED
    BY <1>2, <2>1, <2>2
<1>7. PICK P : packages \in Seq(P)
  BY DEF Inv, Sequences
<1>8. packages' \in Seq(P \cup {p}) /\ Members(packages') = Members(packages) \cup {p}
  BY <1>1, <1>7, MembersOfAppend
<1>9. \A q \in Members(packages) : q.module # module
  BY <1>1 DEF Inv, PackagesKnown
<1>10. workspace' = workspace
  BY <1>1 DEF Answer
<1>11. Sequences'
  BY <1>6, <1>8 DEF Sequences
<1>12. OneEach'
  BY <1>3, <1>8, <1>9 DEF Inv, OneEach
<1>13. PackagesKnown'
  <2>1. module \in DOMAIN directories' /\ directories'[module] = at.dir
    BY <1>1, DirectoriesKept DEF module
  <2>2. \A q \in Members(packages) :
            q.module \in DOMAIN directories' /\ directories'[q.module] = q.dir
    BY <1>1, DirectoriesKept DEF Inv, PackagesKnown
  <2>. QED
    BY <1>1, <1>3, <1>8, <2>1, <2>2 DEF Inv, PackagesKnown
<1>14. QueueAsked'
  <2> SUFFICES ASSUME NEW q \in Members(queue')
               PROVE  \E o \in Members(packages') :
                          q.importer = o.module /\ Asked(workspace, q, q.import, o.origin)
    BY <1>10 DEF QueueAsked
  <2>1. CASE q \in Members(Tail(queue))
    BY <2>1, <1>5, <1>8 DEF Inv, QueueAsked
  <2>2. CASE q \in Members(children)
    <3>1. PICK x \in Members(files.imports) : q = Child(workspace, Request(module, x, at.mount))
      BY <2>2, <1>2
    <3>2. q.importer = p.module /\ Asked(workspace, q, q.import, p.origin)
      BY <3>1, <1>3 DEF Child, Request, Asked
    <3>. QED
      BY <3>2, <1>8
  <2>. QED
    BY <1>6, <2>1, <2>2
<1>15. Resolved'
  <2> SUFFICES ASSUME NEW x \in DOMAIN resolutions'
               PROVE  \E o \in Members(packages') : o.module = x[1] /\ resolutions'[x] = Meant(o, x[2])'
    BY DEF Resolved
  <2>1. \A o : Meant(o, x[2])' = Meant(o, x[2])
    BY <1>10 DEF Meant, Meaning
  <2>2. CASE x \in DOMAIN resolutions
    <3>1. resolutions'[x] = resolutions[x]
      BY <2>2, <1>1, ResolutionsKept
    <3>. QED
      BY <1>8, <2>1, <2>2, <3>1 DEF Inv, Resolved
  <2>3. CASE x = <<r.importer, r.import>>
    <3>1. PICK o \in Members(packages) : o.module = r.importer
      BY HeadMeaning
    <3>2. resolutions'[x] = Meant(o, r.import)
      BY <2>3, <3>1, <1>1, HeadMeaning DEF Answer
    <3>3. x[1] = r.importer /\ x[2] = r.import
      BY <2>3
    <3>. QED
      BY <1>8, <2>1, <3>1, <3>2, <3>3
  <2>4. CASE x \notin DOMAIN resolutions \cup {<<r.importer, r.import>>}
    BY <1>1, <1>3, <1>8, <2>1, <2>4
  <2>. QED
    BY <2>2, <2>3, <2>4
<1>16. Covered'
  <2> SUFFICES ASSUME NEW o \in Members(packages'), NEW x \in Members(o.imports)
               PROVE  Requested(o, x)' \/ Settled(o, x)'
    BY DEF Covered
  <2>1. CASE o = p
    <3>1. Child(workspace, Request(module, x, at.mount)) \in Members(queue')
      BY <2>1, <1>2, <1>3, <1>6
    <3>. QED
      BY <2>1, <3>1, <1>3 DEF Requested, Child, Request
  <2>2. CASE o \in Members(packages) /\ Settled(o, x)
    BY <2>2, <1>1, SettledKept
  <2>3. CASE o \in Members(packages) /\ Requested(o, x)
    <3>1. PICK q \in Members(queue) : q.importer = o.module /\ q.import = x
      BY <2>3 DEF Requested
    <3>2. CASE q = r
      BY <2>3, <3>1, <3>2, <1>1, SettledKept
    <3>3. CASE q # r
      BY <1>5, <1>6, <3>1, <3>3 DEF Requested
    <3>. QED
      BY <3>2, <3>3
  <2>. QED
    BY <1>8, <2>1, <2>2, <2>3 DEF Inv, Covered
<1>. QED
  BY <1>10, <1>11, <1>12, <1>13, <1>14, <1>15, <1>16 DEF Inv

\* Steps that only move the program counter.
LEMMA SameInv ==
    ASSUME Inv, pc' = "begin" => pc = "begin", pc' = "done" => queue = <<>>,
           UNCHANGED <<workspace, queue, seen, directories, packages, resolutions>>
    PROVE  Inv'
<1>1. \A p, x : Meaning(p, x)' = Meaning(p, x) /\ Meant(p, x)' = Meant(p, x)
  BY DEF Meaning, Meant
<1>2. \A p, x : Settled(p, x)' = Settled(p, x) /\ Requested(p, x)' = Requested(p, x)
  BY <1>1 DEF Settled, Requested
<1>3. Sequences' /\ OneEach' /\ PackagesKnown' /\ QueueAsked'
  BY DEF Inv, Sequences, OneEach, PackagesKnown, QueueAsked
<1>4. Resolved'
  BY <1>1 DEF Inv, Resolved
<1>5. Covered'
  BY <1>2 DEF Inv, Covered
<1>. QED
  BY <1>3, <1>4, <1>5 DEF Inv

LEMMA AnswerOfQuiet ==
    ASSUME NEW r, NEW at, Repeat(r, at) \/ NotFound(r, at)
    PROVE  /\ Answer(r, at)
           /\ DOMAIN resolutions' = DOMAIN resolutions \cup {<<r.importer, r.import>>}
           /\ queue' = Tail(queue) /\ packages' = packages /\ pc' = pc /\ seen \subseteq seen'
<1> DEFINE key == <<r.importer, r.import>>
<1>1. /\ at # Ambiguous /\ ~Conflict(r, at) /\ workspace' = workspace /\ pc' = pc
      /\ Record(r, at) /\ packages' = packages /\ seen \subseteq seen'
      /\ resolutions' = Put(resolutions, key, Target(r, at))
  BY DEF Repeat, NotFound, Conflict, Missing, Ambiguous
<1>2. /\ queue' = Tail(queue)
      /\ directories' = IF at = Missing THEN directories
                        ELSE Put(directories, Target(r, at), at.dir)
  BY <1>1 DEF Record
<1>3. /\ DOMAIN resolutions' = DOMAIN resolutions \cup {key}
      /\ resolutions'[key] = Target(r, at)
      /\ \A x \in DOMAIN resolutions : x # key => resolutions'[x] = resolutions[x]
  BY <1>1 DEF Put
<1>. QED
  BY <1>1, <1>2, <1>3 DEF Answer

LEMMA TakeInv == Inv /\ Take => Inv'
<1> SUFFICES ASSUME Inv, Take  PROVE Inv'
  OBVIOUS
<1>1. /\ pc = "resolve" /\ queue # <<>>
      /\ \E r, at : /\ r = Head(queue) /\ at = Locate(workspace, r)
                    /\ \/ RejectAmbiguous(r, at) \/ RejectConflict(r, at)
                       \/ Repeat(r, at) \/ NotFound(r, at)
                       \/ RejectPackage(r, at) \/ RejectImport(r, at)
                       \/ Load(r, at)
  BY DEF Take
<1>2. PICK r, at : /\ r = Head(queue) /\ at = Locate(workspace, r)
                   /\ \/ RejectAmbiguous(r, at) \/ RejectConflict(r, at)
                      \/ Repeat(r, at) \/ NotFound(r, at)
                      \/ RejectPackage(r, at) \/ RejectImport(r, at)
                      \/ Load(r, at)
  BY <1>1
<1>3. CASE RejectAmbiguous(r, at) \/ RejectConflict(r, at) \/ RejectPackage(r, at) \/ RejectImport(r, at)
  <2>1. /\ pc' = "failed"
        /\ UNCHANGED <<workspace, queue, seen, directories, packages, resolutions>>
    BY <1>3 DEF RejectAmbiguous, RejectConflict, RejectPackage, RejectImport, Fail
  <2>. QED
    BY <2>1, SameInv
<1>4. CASE Repeat(r, at) \/ NotFound(r, at)
  BY <1>1, <1>2, <1>4, AnswerOfQuiet, AnswerInv
<1>5. CASE Load(r, at)
  <2>1. pc' = pc
    BY <1>5 DEF Load
  <2>. QED
    BY <1>1, <1>2, <1>5, <2>1, LoadInv
<1>. QED
  BY <1>2, <1>3, <1>4, <1>5

LEMMA NextInv == Inv /\ [Next]_vars => Inv'
<1> SUFFICES ASSUME Inv, [Next]_vars  PROVE Inv'
  OBVIOUS
<1>1. CASE RejectRoot
  BY <1>1, SameInv DEF RejectRoot, Fail
<1>2. CASE Begin
  BY <1>2, BeginInv
<1>3. CASE Take
  BY <1>3, TakeInv
<1>4. CASE Finish
  BY <1>4, SameInv DEF Finish
<1>5. CASE UNCHANGED vars
  <2>1. /\ pc' = pc
        /\ UNCHANGED <<workspace, queue, seen, directories, packages, resolutions>>
    BY <1>5 DEF vars
  <2>. QED
    BY <2>1, SameInv DEF Inv
<1>. QED
  BY <1>1, <1>2, <1>3, <1>4, <1>5 DEF Next

LEMMA Invariance == Spec => []Inv
<1>. QED
  BY InitInv, NextInv, PTL DEF Spec

-----------------------------------------------------------------------------
(* What follows.                                                            *)

\* Every import of a package that was loaded is settled when discovery ends.
LEMMA AllSettled ==
    ASSUME Inv, pc = "done", NEW p \in Members(packages), NEW x \in Members(p.imports)
    PROVE  Settled(p, x)
<1>1. Members(queue) = {}
  BY DEF Inv, Members
<1>. QED
  BY <1>1 DEF Inv, Covered, Requested

\* A module is found in one directory, whoever imports it and in whatever order
\* the imports are taken; an ambiguous import is never accepted.
THEOREM OneDirectoryEach == Spec => []OneDirectory
<1>1. Inv => OneDirectory
  <2> SUFFICES ASSUME Inv, pc = "done",
                      NEW p \in Members(packages), NEW q \in Members(packages),
                      NEW x \in Members(p.imports), NEW y \in Members(q.imports)
               PROVE  /\ Meaning(p, x) # Ambiguous
                      /\ (Meaning(p, x) # Missing /\ Meaning(q, y) # Missing /\ Meant(p, x) = Meant(q, y))
                             => Meaning(p, x).dir = Meaning(q, y).dir
    BY DEF OneDirectory
  <2>1. Settled(p, x) /\ Settled(q, y)
    BY AllSettled
  <2>. QED
    BY <2>1 DEF Settled
<1>. QED
  BY <1>1, Invariance, PTL

\* An accepted program has every import resolved to what it means and loaded from
\* the directory it means.
THEOREM ImportsLoaded == Spec => []LoadsImports
<1>1. Inv => LoadsImports
  <2> SUFFICES ASSUME Inv, Accepted, NEW p \in Members(packages), NEW x \in Members(p.imports)
               PROVE  /\ <<p.module, x>> \in DOMAIN resolutions
                      /\ resolutions[<<p.module, x>>] = Meant(p, x)
                      /\ Meaning(p, x) # Missing =>
                            \E q \in Members(packages) :
                                q.module = Meant(p, x) /\ q.dir = Meaning(p, x).dir
    BY DEF LoadsImports
  <2> DEFINE key == <<p.module, x>>
  <2>1. pc = "done"
    BY DEF Accepted
  <2>2. Settled(p, x)
    BY <2>1, AllSettled
  <2>3. PICK o \in Members(packages) : o.module = key[1] /\ resolutions[key] = Meant(o, key[2])
    BY <2>2 DEF Inv, Resolved, Settled
  <2>4. o = p
    BY <2>3 DEF Inv, OneEach
  <2>5. resolutions[key] = Meant(p, x)
    BY <2>3, <2>4
  <2>6. PICK q \in Members(packages) : q.module = Meant(p, x)
    BY <2>2, <2>5 DEF Accepted, Loaded, Members, Settled
  <2>7. directories[q.module] = q.dir
    BY DEF Inv, PackagesKnown
  <2>. QED
    BY <2>2, <2>5, <2>6, <2>7 DEF Settled
<1>. QED
  BY <1>1, Invariance, PTL

LEMMA StepStable ==
    Inv /\ [Next]_vars =>
        [\A x \in DOMAIN resolutions : x \in DOMAIN resolutions' /\ resolutions'[x] = resolutions[x]]_vars
<1> DEFINE Kept == \A x \in DOMAIN resolutions : x \in DOMAIN resolutions' /\ resolutions'[x] = resolutions[x]
<1> SUFFICES ASSUME Inv, [Next]_vars  PROVE Kept \/ UNCHANGED vars
  OBVIOUS
<1>1. CASE resolutions' = resolutions
  BY <1>1
<1>2. CASE Take
  <2>1. /\ queue # <<>>
        /\ \E r, at : /\ r = Head(queue) /\ at = Locate(workspace, r)
                      /\ \/ resolutions' = resolutions
                         \/ Repeat(r, at) \/ NotFound(r, at)
                         \/ Load(r, at)
    BY <1>2 DEF Take, RejectAmbiguous, RejectConflict, RejectPackage, RejectImport, Fail
  <2>2. PICK r, at : /\ r = Head(queue) /\ at = Locate(workspace, r)
                     /\ \/ resolutions' = resolutions
                        \/ Repeat(r, at) \/ NotFound(r, at)
                        \/ Load(r, at)
    BY <2>1
  <2>3. CASE Repeat(r, at) \/ NotFound(r, at)
    BY <2>1, <2>2, <2>3, AnswerOfQuiet, ResolutionsKept
  <2>4. CASE Load(r, at)
    <3>1. Answer(r, at)
      BY <2>1, <2>2, <2>4, LoadEffect DEF Loads
    <3>. QED
      BY <2>1, <2>2, <3>1, ResolutionsKept
  <2>. QED
    BY <2>2, <2>3, <2>4, <1>1
<1>. QED
  BY <1>1, <1>2 DEF Next, RejectRoot, Begin, Finish, Fail, vars

\* The two lookups of an import agree, so a resolution never changes.
THEOREM ResolutionsNeverChange == Spec => ResolutionsStable
<1>. QED
  BY Invariance, StepStable, PTL DEF Spec, ResolutionsStable

-----------------------------------------------------------------------------
(* What is loaded was imported.                                             *)

\* The request for the standard library that no import makes.
Implicit(r) == r.import = StdModule /\ r.module = StdModule /\ r.origin = 0
RequestsImports ==
    \A r \in Members(queue) :
        \/ Implicit(r)
        \/ \E p \in Members(packages) : p.module = r.importer /\ r.import \in Members(p.imports)
ImportedInv == RequestsImports /\ LoadsOnlyImports

\* No mount can stand before the standard library.
LEMMA MountsOfStd ==
    ASSUME NEW w \in Workspace, NEW k \in DOMAIN Mounts(w)
    PROVE  ~Under(StdModule, Mounts(w)[k].prefix)
<1>1. /\ w.mounts \in Seq(Mount) /\ \A j \in DOMAIN w.mounts : Permitted(w.mounts[j])
  BY WorkspaceAssumption
<1>0. StdModule \in Seq({"std"}) /\ Len(StdModule) = 1 /\ StdModule[1] = "std" /\ SubSeq(StdModule, 1, 1) = StdModule
  <2>1. StdModule \in Seq({"std"}) /\ Len(StdModule) = 1 /\ StdModule[1] = "std"
    BY DEF StdModule
  <2>. QED
    BY <2>1, SubSeqFull
<1>2. ASSUME NEW prefix \in Path, prefix # NoPath, ~IsStd(prefix)  PROVE ~Under(StdModule, prefix)
  <2>. SUFFICES ASSUME Under(StdModule, prefix)  PROVE FALSE
    OBVIOUS
  <2>1. Len(prefix) \in Nat /\ Len(prefix) <= 1 /\ SubSeq(StdModule, 1, Len(prefix)) = prefix
    BY <1>0 DEF Under, Path
  <2>2. Len(prefix) = 1
    <3>1. Len(prefix) \in Nat \ {0}
      BY <1>2, EmptySeq DEF Path, NoPath
    <3>. QED
      BY <2>1, <3>1
  <2>3. prefix = StdModule
    BY <1>0, <2>1, <2>2
  <2>4. Under(StdModule, StdModule)
    BY <1>0 DEF Under
  <2>. QED
    BY <1>2, <2>3, <2>4 DEF IsStd
<1>3. \A j \in DOMAIN w.mounts : ~Under(StdModule, w.mounts[j].prefix)
  <2>. SUFFICES ASSUME NEW j \in DOMAIN w.mounts  PROVE ~Under(StdModule, w.mounts[j].prefix)
    OBVIOUS
  <2>1. w.mounts[j] \in Mount /\ Permitted(w.mounts[j])
    BY <1>1
  <2>. QED
    BY <1>2, <2>1 DEF Mount, Permitted
<1>4. ~Under(StdModule, VendorMount(w).prefix)
  <2>1. VendorMount(w).prefix = <<"vendor">>
    BY DEF VendorMount
  <2>2. Len(<<"vendor">>) = 1 /\ <<"vendor">>[1] = "vendor" /\ "std" # "vendor"
    OBVIOUS
  <2>3. StdModule # <<"vendor">>
    BY <1>0, <2>2
  <2>. QED
    BY <1>0, <2>1, <2>2, <2>3 DEF Under
<1>5. CASE w.vendor
  <2>1. Mounts(w) = <<VendorMount(w)>> \o w.mounts
    BY <1>5 DEF Mounts
  <2> DEFINE v == VendorMount(w)
             U == Mount \cup {v}
  <2>2. <<v>> \in Seq(U) /\ w.mounts \in Seq(U) /\ Len(<<v>>) = 1 /\ <<v>>[1] = v /\ Len(w.mounts) \in Nat
    BY <1>1
  <2> HIDE DEF v, U
  <2>3. /\ Len(<<v>> \o w.mounts) = 1 + Len(w.mounts) /\ <<v>> \o w.mounts \in Seq(U)
        /\ \A i \in 1..(1 + Len(w.mounts)) : (<<v>> \o w.mounts)[i] = IF i <= 1 THEN <<v>>[i] ELSE w.mounts[i - 1]
    BY <2>2, ConcatProperties
  <2>4. k \in 1..(1 + Len(w.mounts)) /\ Mounts(w)[k] = IF k <= 1 THEN <<v>>[k] ELSE w.mounts[k - 1]
    BY <2>1, <2>3 DEF v
  <2>5. CASE k <= 1
    <3>1. Mounts(w)[k] = v
      BY <2>2, <2>4, <2>5
    <3>. QED
      BY <1>4, <3>1 DEF v
  <2>6. CASE ~(k <= 1)
    <3>1. k - 1 \in DOMAIN w.mounts
      BY <1>1, <2>2, <2>4, <2>6
    <3>. QED
      BY <1>3, <2>4, <2>6, <3>1
  <2>. QED
    BY <2>5, <2>6
<1>6. CASE ~w.vendor
  BY <1>3, <1>6 DEF Mounts
<1>. QED
  BY <1>5, <1>6

LEMMA ImplicitTarget ==
    ASSUME workspace \in Workspace, NEW r, Implicit(r)
    PROVE  Target(r, Locate(workspace, r)) = StdModule
<1>1. FromOrigin(workspace, r) = Missing
  BY DEF FromOrigin, Implicit
<1>2. FromMounts(workspace, r) = Missing
  <2>1. \A k \in DOMAIN Mounts(workspace) : Mounted(workspace, k, r.import) = Missing
    BY MountsOfStd DEF Mounted, Implicit
  <2>. QED
    BY <2>1 DEF FromMounts, Agree
<1>3. StdModule # NoPath
  BY DEF StdModule, NoPath
<1>4. Sought(r) = StdModule
  BY <1>3 DEF Sought, Implicit
<1>5. Locate(workspace, r) = FromRoots(workspace, StdModule)
  BY <1>1, <1>2, <1>4 DEF Locate
<1>6. FromRoots(workspace, StdModule) = Missing \/ FromRoots(workspace, StdModule).module = StdModule
  BY DEF FromRoots, Located
<1>. QED
  BY <1>3, <1>5, <1>6 DEF Target, Implicit

\* The request taken, and what it loads, come from an import of a loaded package.
LEMMA LoadImported ==
    ASSUME Inv, ImportedInv, queue # <<>>, NEW r, r = Head(queue), NEW at, at = Locate(workspace, r), Load(r, at)
    PROVE  ImportedInv'
<1>1. PICK children : Loads(r, at, children)
  BY LoadEffect
<1> DEFINE module == Target(r, at)
           p == NewPackage(r, at)
<1>2. p.module = module /\ p.imports = FilesIn(workspace, at.dir).imports
  BY DEF NewPackage, Package
<1> HIDE DEF module, p
<1>3. /\ packages' = Append(packages, p) /\ Answer(r, at) /\ module \notin seen
      /\ queue' = Tail(queue) \o children /\ children \in Seq(Members(children))
      /\ \A c : c \in Members(children) <=> \E x \in Members(p.imports) : c = Child(workspace, Request(module, x, at.mount))
  BY <1>1, <1>2 DEF Loads, module, p
<1>4. PICK P, R : packages \in Seq(P) /\ queue \in Seq(R)
  BY DEF Inv, Sequences
<1>5. Members(packages') = Members(packages) \cup {p}
  BY <1>3, <1>4, MembersOfAppend
<1>6. Tail(queue) \in Seq(R) /\ r \in Members(queue) /\ Members(queue) = Members(Tail(queue)) \cup {r}
  BY <1>4, MembersOfTail
<1>7. Members(queue') = Members(Tail(queue)) \cup Members(children)
  <2> DEFINE U == R \cup Members(children)
             rest == Tail(queue)
  <2>1. children \in Seq(U) /\ rest \in Seq(U)
    BY <1>3, <1>6
  <2> HIDE DEF U, rest
  <2>2. Members(rest \o children) = Members(rest) \cup Members(children)
    BY <2>1, MembersOfConcat
  <2>. QED
    BY <1>3, <2>2 DEF rest
<1>8. RequestsImports'
  <2>. SUFFICES ASSUME NEW q \in Members(queue')
                PROVE  Implicit(q) \/ \E o \in Members(packages') : o.module = q.importer /\ q.import \in Members(o.imports)
    BY DEF RequestsImports
  <2>1. CASE q \in Members(children)
    <3>1. PICK x \in Members(p.imports) : q = Child(workspace, Request(module, x, at.mount))
      BY <1>3, <2>1
    <3>2. q.importer = module /\ q.import = x
      BY <3>1 DEF Child, Request
    <3>. QED
      BY <1>2, <1>5, <3>2
  <2>2. CASE q \in Members(Tail(queue))
    BY <1>5, <1>6, <2>2 DEF ImportedInv, RequestsImports
  <2>. QED
    BY <1>7, <2>1, <2>2
<1>9. LoadsOnlyImports'
  <2> DEFINE n == Len(packages)
  <2>1. /\ n \in Nat /\ Len(packages') = n + 1 /\ packages'[n + 1] = p
        /\ \A i \in 1..n : packages'[i] = packages[i]
    <3>1. packages \in Seq(P \cup {p}) /\ p \in P \cup {p}
      BY <1>4
    <3>. QED
      BY <1>3, <3>1, AppendProperties
  <2> HIDE DEF n
  <2>2. \A x \in DOMAIN resolutions : x \in DOMAIN resolutions' /\ resolutions'[x] = resolutions[x]
    BY <1>3, ResolutionsKept
  <2>. SUFFICES ASSUME NEW i \in 2..(n + 1)
                PROVE  /\ \A j \in 1..(i - 1) : packages'[j].module # packages'[i].module
                       /\ packages'[i].module # StdModule =>
                             \E j \in 1..(i - 1) : \E x \in Members(packages'[j].imports) :
                                 /\ <<packages'[j].module, x>> \in DOMAIN resolutions'
                                 /\ resolutions'[<<packages'[j].module, x>>] = packages'[i].module
    BY <2>1 DEF LoadsOnlyImports
  <2>3. CASE i # n + 1
    <3>1. i \in 2..n /\ i \in 1..n /\ \A j \in 1..(i - 1) : j \in 1..n
      BY <2>1, <2>3
    <3>2. packages'[i] = packages[i] /\ \A j \in 1..(i - 1) : packages'[j] = packages[j]
      BY <2>1, <3>1
    <3>3. /\ \A j \in 1..(i - 1) : packages[j].module # packages[i].module
          /\ packages[i].module # StdModule =>
                \E j \in 1..(i - 1) : \E x \in Members(packages[j].imports) :
                    /\ <<packages[j].module, x>> \in DOMAIN resolutions
                    /\ resolutions[<<packages[j].module, x>>] = packages[i].module
      BY <3>1 DEF n, ImportedInv, LoadsOnlyImports
    <3>. QED
      BY <2>2, <3>2, <3>3
  <2>4. CASE i = n + 1
    <3>1. packages'[i] = p /\ i - 1 = n
      BY <2>1, <2>4
    <3>2. \A j \in 1..n : packages[j].module \in seen
      BY DEF n, Inv, PackagesKnown, Members
    <3>3. \A j \in 1..n : packages'[j].module # module
      BY <1>3, <2>1, <3>2
    <3>4. ASSUME module # StdModule
          PROVE  \E j \in 1..n : \E x \in Members(packages'[j].imports) :
                     /\ <<packages'[j].module, x>> \in DOMAIN resolutions'
                     /\ resolutions'[<<packages'[j].module, x>>] = module
      <4>1. ~Implicit(r)
        BY <3>4, ImplicitTarget DEF Inv, module
      <4>2. PICK o \in Members(packages) : o.module = r.importer /\ r.import \in Members(o.imports)
        BY <1>6, <4>1 DEF ImportedInv, RequestsImports
      <4>3. PICK j \in 1..n : packages[j] = o
        BY DEF n, Members
      <4>4. packages'[j] = o
        BY <2>1, <4>3
      <4>5. <<r.importer, r.import>> \in DOMAIN resolutions' /\ resolutions'[<<r.importer, r.import>>] = module
        BY <1>3 DEF Answer, module
      <4>. QED
        BY <4>2, <4>4, <4>5
    <3>. QED
      BY <1>2, <3>1, <3>3, <3>4
  <2>. QED
    BY <2>3, <2>4
<1>. QED
  BY <1>8, <1>9 DEF ImportedInv

\* A step that loads nothing.
LEMMA QuietImported ==
    ASSUME ImportedInv, packages' = packages, Members(queue') \subseteq Members(queue),
           \A x \in DOMAIN resolutions : x \in DOMAIN resolutions' /\ resolutions'[x] = resolutions[x]
    PROVE  ImportedInv'
<1>1. RequestsImports'
  BY DEF ImportedInv, RequestsImports
<1>2. LoadsOnlyImports'
  <2>. SUFFICES ASSUME NEW i \in 2..Len(packages')
                PROVE  /\ \A j \in 1..(i - 1) : packages'[j].module # packages'[i].module
                       /\ packages'[i].module # StdModule =>
                             \E j \in 1..(i - 1) : \E x \in Members(packages'[j].imports) :
                                 /\ <<packages'[j].module, x>> \in DOMAIN resolutions'
                                 /\ resolutions'[<<packages'[j].module, x>>] = packages'[i].module
    BY DEF LoadsOnlyImports
  <2>1. /\ \A j \in 1..(i - 1) : packages[j].module # packages[i].module
        /\ packages[i].module # StdModule =>
              \E j \in 1..(i - 1) : \E x \in Members(packages[j].imports) :
                  /\ <<packages[j].module, x>> \in DOMAIN resolutions
                  /\ resolutions[<<packages[j].module, x>>] = packages[i].module
    BY DEF ImportedInv, LoadsOnlyImports
  <2>. QED
    BY <2>1
<1>. QED
  BY <1>1, <1>2 DEF ImportedInv

LEMMA BeginImported == Inv /\ Begin => ImportedInv'
<1>. SUFFICES ASSUME Inv, Begin  PROVE ImportedInv'
  OBVIOUS
<1> DEFINE w == workspace
           requests == [i \in 1..Len(w.root.imports) |-> Request(w.main, w.root.imports[i], 0)]
           std == [Request(w.main, StdModule, 0) EXCEPT !.module = StdModule]
           p == Package(w.main, w.dir, 0, w.root)
<1>1. packages' = <<p>> /\ (queue' = requests \/ queue' = Append(requests, std)) /\ w.root.imports \in Seq(Path)
  BY WorkspaceAssumption DEF Begin, Inv
<1>2. Len(requests) = Len(w.root.imports) /\ Len(w.root.imports) \in Nat
  BY <1>1
<1>3. \A r \in Members(requests) : \E i \in 1..Len(w.root.imports) : r = Request(w.main, w.root.imports[i], 0)
  BY <1>2 DEF Members
<1>4. requests \in Seq(Members(requests))
  <2>1. Members(requests) = {Request(w.main, w.root.imports[i], 0) : i \in 1..Len(w.root.imports)}
    BY <1>2 DEF Members
  <2>. QED
    BY <1>2, <2>1
<1>5. Members(queue') \subseteq Members(requests) \cup {std}
  <2> HIDE DEF requests, std
  <2>. QED
    BY <1>1, <1>4, MembersOfAppend
<1>6. Members(packages') = {p} /\ Len(packages') = 1
  BY <1>1 DEF Members
<1>7. Implicit(std)
  BY DEF Implicit, Request
<1>8. p.module = w.main /\ p.imports = w.root.imports
  BY DEF Package
<1>9. RequestsImports'
  <2>. SUFFICES ASSUME NEW r \in Members(queue')
                PROVE  Implicit(r) \/ (p.module = r.importer /\ r.import \in Members(p.imports))
    BY <1>6 DEF RequestsImports
  <2>1. CASE r \in Members(requests)
    <3>1. PICK i \in 1..Len(w.root.imports) : r = Request(w.main, w.root.imports[i], 0)
      BY <1>3, <2>1
    <3>2. r.importer = w.main /\ r.import = w.root.imports[i]
      BY <3>1 DEF Request
    <3>. QED
      BY <1>8, <3>2 DEF Members
  <2>. QED
    BY <1>5, <1>7, <2>1
<1>10. LoadsOnlyImports'
  <2>1. 2..Len(packages') = {}
    BY <1>6
  <2>. QED
    BY <2>1 DEF LoadsOnlyImports
<1>. QED
  BY <1>9, <1>10 DEF ImportedInv

LEMMA NextImported == Inv /\ ImportedInv /\ [Next]_vars => ImportedInv'
<1>. SUFFICES ASSUME Inv, ImportedInv, [Next]_vars  PROVE ImportedInv'
  OBVIOUS
<1>1. CASE Begin
  BY <1>1, BeginImported
<1>2. CASE UNCHANGED <<queue, packages, resolutions>>
  BY <1>2, QuietImported
<1>3. CASE Take
  <2>1. /\ queue # <<>>
        /\ \E r, at : /\ r = Head(queue) /\ at = Locate(workspace, r)
                      /\ \/ UNCHANGED <<queue, packages, resolutions>>
                         \/ Repeat(r, at) \/ NotFound(r, at)
                         \/ Load(r, at)
    BY <1>3 DEF Take, RejectAmbiguous, RejectConflict, RejectPackage, RejectImport, Fail
  <2>2. PICK r, at : /\ r = Head(queue) /\ at = Locate(workspace, r)
                     /\ \/ UNCHANGED <<queue, packages, resolutions>>
                        \/ Repeat(r, at) \/ NotFound(r, at)
                        \/ Load(r, at)
    BY <2>1
  <2>3. CASE Repeat(r, at) \/ NotFound(r, at)
    <3>1. queue' = Tail(queue) /\ packages' = packages /\ Answer(r, at)
      BY <2>3, AnswerOfQuiet
    <3>2. Members(Tail(queue)) \subseteq Members(queue)
      <4>1. PICK R : queue \in Seq(R)
        BY DEF Inv, Sequences
      <4>. QED
        BY <2>1, <4>1, MembersOfTail
    <3>. QED
      BY <2>1, <2>2, <3>1, <3>2, ResolutionsKept, QuietImported
  <2>4. CASE Load(r, at)
    BY <2>1, <2>2, <2>4, LoadImported
  <2>. QED
    BY <1>2, <2>2, <2>3, <2>4
<1>. QED
  BY <1>1, <1>2, <1>3 DEF Next, RejectRoot, Finish, Fail, vars

\* A package is loaded once and, main and std apart, because a package that was
\* loaded before it imports it, in every workspace (source.go:201-204, 229-243).
THEOREM OnlyImportsLoaded == Spec => []LoadsOnlyImports
<1>1. Init => ImportedInv
  <2>. SUFFICES ASSUME Init  PROVE ImportedInv
    OBVIOUS
  <2>1. Members(<<>>) = {} /\ 2..Len(<<>>) = {}
    BY DEF Members
  <2>2. queue = <<>> /\ packages = <<>>
    BY DEF Init
  <2>. QED
    BY <2>1, <2>2 DEF ImportedInv, RequestsImports, LoadsOnlyImports
<1>2. ImportedInv => LoadsOnlyImports
  BY DEF ImportedInv
<1>. QED
  BY <1>1, <1>2, InitInv, NextInv, NextImported, PTL DEF Spec

-----------------------------------------------------------------------------
(* Discovery shrinks what is left to do.                                    *)

\* The directories that no package but the main one was loaded from.
Loadable == {d \in DOMAIN workspace.tree : \A i \in 2..Len(packages) : packages[i].dir # d}

\* A step leaves the phase for a later one, or loads one of them, or takes a
\* request and adds none: in a finite tree discovery makes finitely many steps.
Shrinks ==
    [][\/ pc = "begin" /\ pc' \in {"resolve", "failed"}
       \/ pc = "resolve" /\ pc' \in {"done", "failed"}
       \/ /\ pc = "resolve" /\ pc' = "resolve"
          /\ \/ Loadable' \subseteq Loadable /\ Loadable' # Loadable
             \/ Loadable' = Loadable /\ Len(queue') < Len(queue)]_vars

\* A package was loaded from files that declare its module and no other.
LoadsDeclared ==
    \A i \in 2..Len(packages) : Declares(FilesIn(workspace, packages[i].dir), packages[i].module)

LEMMA LoadDeclared ==
    ASSUME Inv, LoadsDeclared, queue # <<>>, NEW r, r = Head(queue), NEW at, at = Locate(workspace, r),
           Load(r, at)
    PROVE  LoadsDeclared' /\ Loadable' \subseteq Loadable /\ Loadable' # Loadable
<1> DEFINE files == FilesIn(workspace, at.dir)
           n == Len(packages)
           p == NewPackage(r, at)
<1>1. /\ workspace' = workspace /\ packages' = Append(packages, p)
      /\ Target(r, at) \notin seen
  BY LoadEffect DEF Loads, Answer
<1>2. Declares(files, Target(r, at))
  BY DEF Load, Acceptable
<1>3. p.module = Target(r, at) /\ p.dir = at.dir
  BY DEF NewPackage, Package
<1> HIDE DEF p
<1>4. /\ n \in Nat /\ Len(packages') = n + 1 /\ packages'[n + 1] = p
      /\ \A i \in 1..n : packages'[i] = packages[i] /\ packages[i] \in Members(packages)
  <2>1. PICK P : packages \in Seq(P)
    BY DEF Inv, Sequences
  <2>2. packages \in Seq(P \cup {p})
    BY <2>1
  <2>. QED
    BY <1>1, <2>2 DEF Members
<1>5. n # 0
  BY <1>4, HeadMeaning DEF Members
<1>6. \A i \in 2..Len(packages') : i = n + 1 \/ i \in 2..n
  BY <1>4
<1>7. \A i \in 2..n : i \in 1..n /\ packages'[i] = packages[i]
  BY <1>4
<1>8. LoadsDeclared'
  BY <1>1, <1>2, <1>3, <1>4, <1>6, <1>7 DEF LoadsDeclared
<1>9. at.dir \in Loadable
  <2>1. at.dir \in DOMAIN workspace.tree
    BY <1>2 DEF Declares, FilesIn, NoSources
  <2>2. ASSUME NEW i \in 2..n, packages[i].dir = at.dir
        PROVE  FALSE
    <3>1. packages[i].module = Target(r, at)
      BY <1>2, <2>2 DEF LoadsDeclared, Declares
    <3>. QED
      BY <1>1, <1>4, <1>7, <3>1 DEF Inv, PackagesKnown
  <2>. QED
    BY <2>1, <2>2 DEF Loadable
<1>10. n + 1 \in 2..Len(packages')
  BY <1>4, <1>5
<1>11. at.dir \notin Loadable'
  BY <1>3, <1>4, <1>10 DEF Loadable
<1>12. \A i \in 2..n : i \in 2..Len(packages')
  BY <1>4
<1>13. Loadable' \subseteq Loadable
  BY <1>1, <1>7, <1>12 DEF Loadable
<1>. QED
  BY <1>8, <1>9, <1>11, <1>13

LEMMA StepDeclared == Inv /\ LoadsDeclared /\ [Next]_vars => LoadsDeclared'
<1>. SUFFICES ASSUME Inv, LoadsDeclared, [Next]_vars  PROVE LoadsDeclared'
  OBVIOUS
<1>1. CASE UNCHANGED <<workspace, packages>>
  BY <1>1 DEF LoadsDeclared
<1>2. CASE Begin
  <2>1. Len(packages') = 1
    BY <1>2 DEF Begin
  <2>. QED
    BY <2>1 DEF LoadsDeclared
<1>3. CASE Take
  <2>1. /\ queue # <<>>
        /\ \E r, at : /\ r = Head(queue) /\ at = Locate(workspace, r)
                      /\ UNCHANGED <<workspace, packages>> \/ Load(r, at)
    BY <1>3 DEF Take, RejectAmbiguous, RejectConflict, RejectPackage, RejectImport, Fail, Repeat, NotFound
  <2>. QED
    BY <1>1, <2>1, LoadDeclared
<1>. QED
  BY <1>1, <1>2, <1>3 DEF Next, RejectRoot, Finish, Fail, vars

LEMMA StepShrinks ==
    Inv /\ LoadsDeclared /\ [Next]_vars =>
        [\/ pc = "begin" /\ pc' \in {"resolve", "failed"}
         \/ pc = "resolve" /\ pc' \in {"done", "failed"}
         \/ /\ pc = "resolve" /\ pc' = "resolve"
            /\ \/ Loadable' \subseteq Loadable /\ Loadable' # Loadable
               \/ Loadable' = Loadable /\ Len(queue') < Len(queue)]_vars
<1> DEFINE Taken == \/ Loadable' \subseteq Loadable /\ Loadable' # Loadable
                    \/ Loadable' = Loadable /\ Len(queue') < Len(queue)
<1>. SUFFICES ASSUME Inv, LoadsDeclared, Next
              PROVE  \/ pc = "begin" /\ pc' \in {"resolve", "failed"}
                     \/ pc = "resolve" /\ pc' \in {"done", "failed"}
                     \/ pc = "resolve" /\ pc' = "resolve" /\ Taken
  OBVIOUS
<1>1. CASE RejectRoot \/ Begin
  BY <1>1 DEF RejectRoot, Begin, Fail
<1>2. CASE Finish
  BY <1>2 DEF Finish
<1>3. CASE Take
  <2>1. /\ pc = "resolve" /\ queue # <<>>
        /\ \E r, at : /\ r = Head(queue) /\ at = Locate(workspace, r)
                      /\ \/ pc' = "failed"
                         \/ Repeat(r, at) \/ NotFound(r, at)
                         \/ Load(r, at)
    BY <1>3 DEF Take, RejectAmbiguous, RejectConflict, RejectPackage, RejectImport, Fail
  <2>2. PICK r, at : /\ r = Head(queue) /\ at = Locate(workspace, r)
                     /\ \/ pc' = "failed"
                        \/ Repeat(r, at) \/ NotFound(r, at)
                        \/ Load(r, at)
    BY <2>1
  <2>3. CASE Repeat(r, at) \/ NotFound(r, at)
    <3>1. queue' = Tail(queue) /\ packages' = packages /\ pc' = pc /\ workspace' = workspace
      BY <2>3, AnswerOfQuiet DEF Answer
    <3>2. Len(Tail(queue)) < Len(queue)
      <4>1. PICK R : queue \in Seq(R)
        BY DEF Inv, Sequences
      <4>. QED
        BY <2>1, <4>1
    <3>3. Loadable' = Loadable
      BY <3>1 DEF Loadable
    <3>. QED
      BY <2>1, <3>1, <3>2, <3>3
  <2>4. CASE Load(r, at)
    <3>1. pc' = pc
      BY <2>4 DEF Load
    <3>2. Loadable' \subseteq Loadable /\ Loadable' # Loadable
      BY <2>1, <2>2, <2>4, LoadDeclared
    <3>. QED
      BY <2>1, <3>1, <3>2
  <2>. QED
    BY <2>1, <2>2, <2>3, <2>4
<1>. QED
  BY <1>1, <1>2, <1>3 DEF Next

\* Every step of discovery shrinks what is left: it makes finitely many steps
\* in every finite tree, whatever the packages import (source.go:186-245).
THEOREM DiscoveryShrinks == Spec => Shrinks
<1>1. Init => LoadsDeclared
  <2>1. 2..Len(<<>>) = {}
    OBVIOUS
  <2>. QED
    BY <2>1 DEF Init, LoadsDeclared
<1>. QED
  BY <1>1, InitInv, NextInv, StepDeclared, StepShrinks, PTL DEF Spec, Shrinks
=============================================================================
