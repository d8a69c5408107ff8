----------------------------- MODULE MCDemands -----------------------------
(* A program `main` that calls g of one library and h and k of another.     *)
EXTENDS Demands, TLC

MCPriority == [c \in Constant |-> IF c = "a" THEN 0 ELSE 2]

C(c) == [kind |-> "constant", constant |-> c]
P(i) == [kind |-> "parameter", index |-> i]
O == [kind |-> "other"]
Elements(args) == [kind |-> "elements", elements |-> args]
Own == [kind |-> "own"]
Slice == [kind |-> "slice"]

Node(f, g, args, tail) == [caller |-> f, callee |-> g, args |-> args, tail |-> tail]
Plain(f, g, args) == Node(f, g, args, Elements(<<>>))
Modules == [main |-> "app", g |-> "lib", h |-> "sys", k |-> "sys"]

Make(fixed, variadic, mutable, defaults, calls) ==
    [main |-> "main", module |-> Modules, mutable |-> mutable, defaults |-> defaults, calls |-> calls,
     fixed |-> [f \in Function |-> IF f \in DOMAIN fixed THEN fixed[f] ELSE 0],
     variadic |-> [f \in Function |-> f # "main" /\ variadic]]
NoDefaults == [f \in Function |-> <<>>]

\* Constants: g has one parameter, h two and a default for the second.
FromMain ==
    {<<Plain("main", "g", <<C("a")>>)>>,
     <<Plain("main", "g", <<O>>)>>,
     <<Plain("main", "g", <<C("a")>>), Plain("main", "g", <<C("b")>>)>>,
     <<Plain("main", "g", <<C("a")>>), Plain("main", "h", <<C("b"), C("a")>>)>>,
     <<Plain("main", "g", <<C("b")>>), Plain("main", "h", <<C("b")>>)>>,
     <<Plain("main", "h", <<C("a"), O>>), Plain("main", "g", <<C("b")>>)>>}
FromG ==
    {<<>>, <<Plain("g", "h", <<P(1), C("a")>>)>>, <<Plain("g", "h", <<C("b"), P(1)>>)>>,
     <<Plain("g", "h", <<P(1)>>)>>, <<Plain("g", "h", <<P(1), P(1)>>)>>,
     <<Plain("g", "g", <<P(1)>>), Plain("g", "h", <<O, C("b")>>)>>,
     <<Plain("g", "g", <<C("b")>>)>>}
FromH ==
    {<<>>, <<Plain("h", "g", <<P(1)>>)>>, <<Plain("h", "h", <<P(2), P(1)>>)>>,
     <<Plain("h", "g", <<P(2)>>), Plain("h", "g", <<P(1)>>)>>, <<Plain("h", "g", <<C("a")>>)>>}
Passes(calls, f, i) ==
    \E k \in DOMAIN calls : /\ calls[k].caller = f
                            /\ \E j \in DOMAIN calls[k].args : calls[k].args[j] = P(i)
\* Parameters may be mut when they are not passed on.
Unpassed(calls) == {x \in {<<"g", 1>>, <<"h", 1>>, <<"h", 2>>} : ~Passes(calls, x[1], x[2])}
WithConstants ==
    {Make([g |-> 1, h |-> 2], FALSE, Unpassed(m \o g \o h),
          [NoDefaults EXCEPT !["h"] = [i \in {2} |-> "a"]], m \o g \o h) :
        m \in FromMain, g \in FromG, h \in FromH}

\* Three parameters, of which two are chosen.
WithThree ==
    {Make([g |-> 3, h |-> 3], FALSE, {}, NoDefaults,
          <<Plain("main", "g", m), Plain("g", "h", g), Plain("h", "g", h)>>) :
        m \in {<<C("b"), C("a"), C("b")>>, <<C("b"), C("b"), C("b")>>, <<O, C("a"), C("b")>>},
        g \in {<<P(1), P(2), P(3)>>, <<P(3), P(1), P(2)>>},
        h \in {<<P(2), P(2), P(2)>>, <<C("a"), P(2), O>>, <<P(1), P(2), P(3)>>}}

\* Variadic functions, with one parameter before the variadic one. An expanded slice
\* comes with no literal and no parameter that a wrapper knows.
Spread(f, g, arg) == Node(f, g, <<arg>>, Own)
VariadicMain ==
    {<<Node("main", "g", <<C("a")>>, Elements(<<C("b")>>))>>,
     <<Node("main", "g", <<C("a")>>, Elements(<<>>)), Node("main", "g", <<C("b")>>, Elements(<<O, C("a")>>))>>,
     <<Node("main", "g", <<O>>, Slice), Node("main", "g", <<C("a")>>, Elements(<<O>>))>>,
     <<Node("main", "h", <<C("a")>>, Elements(<<C("b")>>)), Node("main", "g", <<C("a")>>, Elements(<<O, O>>))>>,
     <<Node("main", "h", <<C("b")>>, Elements(<<C("b"), O>>)), Node("main", "g", <<O>>, Elements(<<C("a")>>))>>}
VariadicG ==
    {<<Spread("g", "h", P(1))>>, <<Spread("g", "h", O)>>, <<Spread("g", "g", P(1)), Spread("g", "h", P(1))>>,
     <<Node("g", "h", <<P(1)>>, Elements(<<P(1)>>)), Node("g", "h", <<O>>, Slice)>>}
VariadicH ==
    {<<>>, <<Spread("h", "g", P(1))>>, <<Node("h", "g", <<P(1)>>, Elements(<<>>))>>,
     <<Spread("h", "g", O), Node("h", "h", <<C("a")>>, Elements(<<O>>))>>}
Unspread(calls) ==
    {x \in {<<"g", 2>>, <<"h", 2>>} :
        ~\E k \in DOMAIN calls : calls[k].caller = x[1] /\ calls[k].tail = Own}
WithVariadics ==
    {Make([g |-> 1, h |-> 1], TRUE, Unspread(m \o g \o h), NoDefaults, m \o g \o h) :
        m \in VariadicMain, g \in VariadicG, h \in VariadicH}

\* Variadic parameters passed on through three functions.
WithChains ==
    {Make([g |-> 1, h |-> 1, k |-> 1], TRUE, {}, NoDefaults, <<m>> \o calls) :
        m \in {Node("main", "g", <<C("a")>>, Elements(<<O>>)), Node("main", "k", <<C("b")>>, Elements(<<>>))},
        calls \in {<<Spread("g", "h", P(1)), Spread("h", "k", P(1))>>,
                  <<Spread("g", "k", O), Spread("k", "h", P(1)), Spread("h", "g", P(1))>>}}

MCProgram == WithConstants \cup WithThree \cup WithVariadics \cup WithChains

\* A literal beside a slice that is expanded.
MCExpanding ==
    {Make([g |-> 1, h |-> 1], TRUE, {}, NoDefaults, <<Node("main", "g", <<C("a")>>, Slice)>>)}

\* A parameter that is assigned and passed on.
MCAssigning ==
    {Make([g |-> 1, h |-> 1], FALSE, {<<"g", 1>>}, NoDefaults,
          <<Plain("main", "g", <<C("a")>>), Plain("main", "h", <<C("a")>>), Plain("g", "h", <<P(1)>>)>>)}
=============================================================================
