---------------------------- MODULE MCSpecialize ----------------------------
(***************************************************************************)
(* Programs of two modules, with a function in each, up to three templates *)
(* and the types u8 and Point.                                             *)
(***************************************************************************)
EXTENDS Specialize

Words == {"main", "lib", "run", "help", "f", "g", "from", "default", "lambda", "eq", "double",
          "$", "", "u8", "str", "cstr", "Point", "A", "B", "T"}

U8 == [kind |-> "plain", name |-> "u8", owner |-> "u8"]
Point == [kind |-> "plain", name |-> "Point", owner |-> "Point"]
Cstr == [kind |-> "cstr", name |-> "cstr", owner |-> "cstr"]
Types == {U8, Point, Cstr}

A == [kind |-> "parameter", name |-> "A", owner |-> "A"]
B == [kind |-> "parameter", name |-> "B", owner |-> "B"]
T == [kind |-> "parameter", name |-> "T", owner |-> "T"]
Parameters == {A, B, T}

Id(module, words) == [module |-> module, words |-> words]
Main == Id("main", <<"main">>)
Run == Id("lib", <<"run">>)
Help == Id("lib", <<"help">>)
PointEq == Id("main", <<"Point", "eq">>)
U8Eq == Id("lib", <<"u8", "eq">>)
CstrEq == Id("lib", <<"cstr", "eq">>)
F == Id("lib", <<"f">>)
G == Id("lib", <<"g">>)
From == Id("lib", <<"f", "from">>)
Double == Id("lib", <<"double">>)

Default == <<"default">>
Lambda == <<"lambda">>

Call(to, args) == [home |-> <<>>, kind |-> "call", to |-> to, args |-> args, suffix |-> <<>>]
CallDefault(to, args) == [Call(to, args) EXCEPT !.suffix = Default]
Wrapped(to, args) == [Call(to, args) EXCEPT !.home = Default, !.kind = "direct"]
Address(to, args, suffix) == [Call(to, args) EXCEPT !.kind = "address", !.suffix = suffix]
Require(module, receiver, word) ==
    [Call(Id(module, <<word>>), <<receiver>>) EXCEPT !.kind = "require"]

MakeTemplate(id, params, internal, uses) ==
    [id |-> id, params |-> params, internal |-> internal, wrappers |-> {}, extras |-> {}, uses |-> uses]
WithDefault(t) ==
    [t EXCEPT !.wrappers = {Default}, !.uses = Append(@, Wrapped(t.id, t.params))]

Functions ==
    {[id |-> Main, internal |-> FALSE], [id |-> Run, internal |-> FALSE], [id |-> PointEq, internal |-> FALSE],
     [id |-> U8Eq, internal |-> FALSE], [id |-> CstrEq, internal |-> FALSE]}
PublicHelp == [id |-> Help, internal |-> FALSE]
PrivateHelp == [id |-> Help, internal |-> TRUE]
Methods ==
    {[owner |-> "Point", require |-> <<"eq">>, to |-> PointEq],
     [owner |-> "u8", require |-> <<"eq">>, to |-> U8Eq],
     [owner |-> "cstr", require |-> <<"eq">>, to |-> CstrEq]}
Defaults == {[owner |-> "", require |-> <<"double">>, to |-> Double]}

In(id, uses) == [k \in DOMAIN uses |-> [in |-> id, use |-> uses[k]]]
MakeProgram(fs, ss, ts) ==
    [functions |-> Functions \cup fs, sites |-> ss, templates |-> ts,
     methods |-> Methods, defaults |-> Defaults]

\* Two templates that call each other with the same, exchanged or fixed arguments.
UsesOfF == {<<Call(F, <<A, B>>)>>} \cup
    {<<Call(G, <<x>>)>> \o rest : x \in {A, B, Point},
        rest \in {<<Call(G, <<A>>)>>, <<Call(Help, <<>>), Address(Help, <<>>, <<>>)>>,
                  <<Require("lib", A, "eq")>>}}
UsesOfG == {<<>>, <<Call(F, <<T, T>>)>>, <<Call(F, <<U8, T>>), Require("lib", T, "eq")>>}
UsesOfRun == {<<Address(Help, <<>>, <<>>)>>, <<Call(G, <<U8>>)>>, <<CallDefault(F, <<U8, U8>>)>>}
UsesOfMain == {<<>>, <<Call(F, <<U8, Point>>), Call(F, <<Point, U8>>)>>,
               <<CallDefault(F, <<U8, Point>>), Call(Run, <<>>), Call(F, <<U8, Point>>)>>}

RegularPrograms ==
    {MakeProgram({PublicHelp}, In(Run, run) \o In(Main, main),
                 {WithDefault(MakeTemplate(F, <<A, B>>, FALSE, f)), MakeTemplate(G, <<T>>, TRUE, g)}) :
        f \in UsesOfF, g \in UsesOfG, run \in UsesOfRun, main \in UsesOfMain}

\* One call from main, of a template that refers to the rest.
Importing(helps, templates, args) ==
    MakeProgram(helps, In(Main, <<Call(F, args)>>), templates)

\* A template that calls a requirement which its argument has as the trait's default,
\* or one with a type parameter of its own.
RefusedPrograms ==
    {Importing({}, {MakeTemplate(F, <<T>>, FALSE, <<Require("lib", T, "double")>>),
                    MakeTemplate(Double, <<T>>, FALSE, <<>>)}, <<Point>>),
     [Importing({}, {MakeTemplate(F, <<T>>, FALSE,
                        <<[Require("lib", T, "from") EXCEPT !.args = Append(@, T)]>>),
                     MakeTemplate(From, <<T>>, FALSE, <<>>)}, <<Point>>)
      EXCEPT !.methods = {[owner |-> type.owner, require |-> <<"from">>, to |-> From] : type \in Types}]}
CheckedPrograms == RegularPrograms \cup RefusedPrograms

\* A template that calls one whose name is longer, itself with its arguments exchanged, a
\* private function of its module, and what compares C strings, and keeps the addresses of
\* a function and of a lambda.
ReplacedPrograms ==
    {Importing({PrivateHelp},
        {[MakeTemplate(F, <<A, B>>, FALSE,
            <<Call(From, <<A>>), Call(F, <<B, A>>), Call(Help, <<>>), Require("lib", A, "eq"),
              Address(Run, <<>>, <<>>), Address(F, <<A, B>>, Lambda)>>) EXCEPT !.extras = {Lambda}],
         MakeTemplate(From, <<T>>, TRUE, <<>>)}, <<Cstr, Point>>)}

\* The programs of the first run are those of the theorems, that of the second is not.
ASSUME ProgramsReplaceable ==
    /\ \A p \in CheckedPrograms : Replaceable(p)
    /\ \A p \in ReplacedPrograms : ~Replaceable(p)
=============================================================================
