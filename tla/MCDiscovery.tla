----------------------------- MODULE MCDiscovery -----------------------------
(* A project "app" beside two collections "c" and "d" and the library "lib".  *)
EXTENDS Discovery, TLC

Sole(module, imports) == [declared |-> {module}, imports |-> imports]
A == <<"a">>
AB == <<"a", "b">>
B == <<"b">>
X == <<"x">>
XA == <<"x", "a">>
M == <<"m">>
V == <<"vendor", "v">>

Collection(dir) == [kind |-> "collection", prefix |-> X, dir |-> <<dir>>,
                    base |-> NoPath, keep |-> FALSE]
Exact(dir) == [kind |-> "exact", prefix |-> XA, dir |-> <<dir, "a">>, base |-> A, keep |-> FALSE]
MountLines == {Collection("c"), Collection("d"), Exact("c"), Exact("d")}

Lists(S, n) == UNION {[1..k -> S] : k \in 0..n}
Distinct(S, n) == {s \in Lists(S, n) : \A i, j \in DOMAIN s : s[i] = s[j] => i = j}

\* Library a in c imports `a`; d holds another a, or a library b; app may hold a
\* module a.b of its own, and a module m.
Tree(a, m, other, own) ==
    (<<"lib", "std">> :> Sole(StdModule, <<>>))
    @@ (<<"lib", "vendor", "v">> :> Sole(V, <<>>))
    @@ (<<"c", "a">> :> Sole(A, a))
    @@ (<<"c", "a", "b">> :> Sole(AB, <<A>>))
    @@ (<<"c", "b">> :> Sole(B, <<XA>>))
    @@ (<<"app", "m">> :> Sole(M, m))
    @@ (IF other THEN <<"d", "a">> :> Sole(A, <<AB>>) ELSE <<"d", "b">> :> Sole(B, <<>>))
    @@ (IF own THEN <<"app", "a", "b">> :> Sole(AB, <<>>) ELSE <<>>)

Make(tree, imports, mounts) ==
    [main |-> <<".">>, dir |-> <<"app">>, root |-> Sole(MainModule, imports), single |-> FALSE,
     implicitStd |-> TRUE, tree |-> tree @@ (<<"app">> :> Sole(MainModule, imports)),
     mounts |-> mounts, roots |-> <<<<"lib">>, <<"app">>>>, library |-> <<"lib">>, vendor |-> TRUE]

Projects ==
    {Make(Tree(a, m, other, own), imports, mounts) :
        a \in {<<>>, <<AB>>, <<B>>}, m \in {<<AB>>, <<XA>>}, other \in BOOLEAN, own \in BOOLEAN,
        imports \in {<<XA>>, <<XA, AB>>, <<XA, M>>, <<M, XA>>, <<M, AB>>, <<B, V>>},
        mounts \in {l \in Lists(MountLines, 2) : Consistent(l)}}

\* Projects with a directory that is not what its place says, a visible prefix that
\* is a module too, a collection that holds files, a single file, and no library.
Plain == Make(Tree(<<AB>>, <<>>, FALSE, FALSE), <<XA, M>>, <<Collection("c")>>)
With(w, dir, sources) == [w EXCEPT !.tree = (dir :> sources) @@ @]
Root(w, sources) == [With(w, w.dir, sources) EXCEPT !.root = sources]
Oddities ==
    {With(Plain, <<"app", "m">>, Sole(A, <<>>)),
     With(Plain, <<"app", "m">>, Sole(MainModule, <<>>)),
     With(Plain, <<"app", "m">>, [declared |-> {M, A}, imports |-> <<>>]),
     [Plain EXCEPT !.mounts = <<Collection("c"), [Collection("d") EXCEPT !.prefix = A]>>],
     With(Root(Plain, Sole(MainModule, <<X>>)), <<"c">>, Sole(X, <<XA>>)),
     Root(Plain, NoSources), Root(Plain, Sole(A, <<>>)),
     [Plain EXCEPT !.root = Sole(B, <<M>>), !.single = TRUE],
     [Plain EXCEPT !.implicitStd = FALSE, !.library = NoPath, !.vendor = FALSE,
                   !.roots = <<<<"app">>>>]}

MCWorkspace == Projects \cup Oddities
=============================================================================
