--------------------------- MODULE MCModuleGraph ---------------------------
(* Graphs of main, two libraries and std with at most two imports each.     *)
EXTENDS ModuleGraph, FiniteSets

Importable == {"a", "b", "std"}
Lists == {s \in UNION {[1..n -> Importable] : n \in 0..2} :
             \A i, k \in DOMAIN s : s[i] = s[k] => i = k}

\* Selection keeps every import, or drops the first import of "a".
Make(main, a, b, std, all) ==
    [known |-> Package,
     written |-> [m \in Package |->
         CASE m = "main" -> main [] m = "a" -> a [] m = "b" -> b
           [] m = "std" -> std [] m = "builtin" -> <<>>],
     kept |-> [m \in Package |->
         CASE m = "main" -> main [] m = "b" -> b [] m = "std" -> std [] m = "builtin" -> <<>>
           [] m = "a" -> IF all \/ a = <<>> THEN a ELSE Tail(a)],
     dynamic |-> {"b"}, noStdlib |-> FALSE, executable |-> TRUE]

Graphs ==
    {Make(main, a, b, std, all) :
        main \in {<<"a">>, <<"a", "b">>, <<"b", "a">>, <<"b", "std">>},
        a \in Lists, b \in Lists, std \in {<<>>, <<"b">>, <<"a", "b">>}, all \in BOOLEAN}

MCProgram ==
    {[g EXCEPT !.dynamic = dynamic, !.noStdlib = noStdlib, !.executable = executable] :
        g \in Graphs, dynamic \in {{"b"}, {"a", "std"}}, noStdlib \in BOOLEAN,
        executable \in BOOLEAN}
    \cup {[g EXCEPT !.known = Package \ {"b"}] : g \in Graphs}
=============================================================================
