------------------------------ MODULE MCStaging ------------------------------
(* Modules of compile-time bindings and what depends on them, in every order *)
(* of declaration, against a selection by need.                              *)
EXTENDS Staging

None == Literal(Zero)
I(n) == Literal(IntOf(n))
Of(k, x, args) == [k |-> k, v |-> Zero, x |-> x, args |-> args, id |-> <<>>]
X(x) == Of("name", x, <<>>)
Bin(op, l, r) == Of("bin", op, <<l, r>>)
Not(e) == Of("un", "not", <<e>>)
Call(f) == Of("call", f, <<>>)
WhenV(c, a, b) == Of("whenv", "", <<c, a, b>>)
Variant(d) == Literal(Value("variant", 0, d))

Node(k, x, e, branches, body) == [k |-> k, x |-> x, e |-> e, branches |-> branches, body |-> body]
Bind(x, e) == Node("bind", x, e, <<>>, <<>>)
Var(x, e) == Node("var", x, e, <<>>, <<>>)
Array(x, e) == Node("array", x, e, <<>>, <<>>)
Lib(x) == Node("lib", x, None, <<>>, <<>>)
Assertion(e) == Node("assert", "", e, <<>>, <<>>)
CompilerError == Node("error", "", None, <<>>, <<>>)
Fun(x, e, body) == Node("fun", x, e, <<>>, body)
Return(e) == Node("block", "", e, <<>>, <<>>)
Branch(c, body) == [c |-> c, body |-> body]
When(c, then, else) == Node("when", "", None, <<Branch(c, then)>>, else)
WhenElse(c1, b1, c2, b2, else) == Node("when", "", None, <<Branch(c1, b1), Branch(c2, b2)>>, else)
Link(items) == Node("link", "", None, <<>>, items)

On(os) == Bin("eq", X("OS"), Variant(os))
Is(x, n) == Bin("eq", X(x), I(n))
Target == [x \in {"OS", "PointerBits"} |-> IF x = "OS" THEN Value("enum", 0, "Linux") ELSE IntOf(64)]

(* a and b have values without code, c and d only after f has run.           *)
Core == {Bind("a", I(1)), Bind("b", Bin("add", X("a"), I(1))),
         Fun("f", Bin("mul", X("b"), Call("two")), <<>>), Bind("c", Call("f"))}
Two == Fun("two", I(2), <<>>)

Dependents ==
    {Bind("d", Bin("add", X("c"), I(1))),
     When(Is("c", 4), <<Bind("g", I(7)), Var("p", X("b"))>>, <<CompilerError>>),
     When(Is("g", 7), <<Var("q", X("c"))>>, <<Bind("h", X("c"))>>),
     When(Is("c", 5), <<CompilerError>>, <<Lib("z"), When(On("Linux"), <<Array("t", X("b")), Array("w", X("c"))>>, <<>>)>>),
     Bind("k", Bin("add", WhenV(On("Linux"), X("a"), I(5)), Call("f"))),
     When(Not(On("Linux")), <<Bind("g", I(8))>>, <<Bind("g", Bin("sub", X("c"), I(3)))>>),
     WhenElse(On("WASI"), <<Array("u", I(1))>>, Bin("gt", X("PointerBits"), I(32)),
              <<Array("u", Bin("mul", X("a"), X("c")))>>, <<CompilerError>>),
     Fun("m", WhenV(Is("c", 4), X("b"), WhenV(On("Linux"), I(8), I(9))),
         <<Bind("n", Bin("div", X("b"), X("a"))), When(Is("n", 2), <<Return(X("n"))>>, <<Return(I(0))>>)>>),
     Fun("r", I(0), <<Bind("l", Call("f")), When(Is("a", 1), <<Return(X("l"))>>, <<>>)>>),
     Link(<<Lib("m"), When(Is("b", 2), <<Lib("x")>>, <<Lib("y")>>), Assertion(Is("a", 1)),
            When(Is("c", 4), <<Lib("v")>>, <<CompilerError>>)>>),
     Link(<<Lib("i"), Assertion(Is("c", 4)), Lib("j")>>),
     Assertion(Is("c", 4)), Assertion(Bin("lt", X("c"), X("b"))), Assertion(Bin("eq", Call("f"), X("c"))),
     Assertion(Bin("mod", X("a"), Bin("sub", X("b"), I(2))))}

(* The values that need code are declared before what they are read by, and  *)
(* the core is found as it is read, as it is needed, or in neither order.    *)
Position(p, k, x) == CHOOSE j \in DOMAIN p : p[j].k = k /\ p[j].x = x
BindsWith(items, x) ==
    \E j \in DOMAIN items : \/ items[j].k = "bind" /\ X(x) \in Parts(items[j].e)
                            \/ items[j].k = "when" /\ \E n \in DOMAIN items[j].body :
                                  items[j].body[n].k = "bind" /\ X(x) \in Parts(items[j].body[n].e)
Declarable(p) ==
    LET a == Position(p, "bind", "a")
        b == Position(p, "bind", "b")
        f == Position(p, "fun", "f")
        c == Position(p, "bind", "c")
    IN  /\ \A n \in DOMAIN p : BindsWith(<<p[n]>>, "c") => c < n
        /\ (a < b /\ b < f /\ f < c) \/ (c < f /\ f < b /\ b < a) \/ (b < c /\ c < a /\ a < f)
(* A module declares g once if it reads it, and not twice; a binding that is *)
(* declared under a condition that needs code is not read by another one:    *)
(* one evaluation has to do, and selection then fails.                       *)
Declares(i, x) == \E b \in DOMAIN i.branches : \E j \in DOMAIN i.branches[b].body : i.branches[b].body[j].x = x
Reads(i, x) == \E b \in DOMAIN i.branches : X(x) \in Parts(i.branches[b].c)

Together == {s \in SUBSET Dependents :
                /\ Cardinality(s) \in 1..2
                /\ \A i, j \in s : Declares(i, "g") /\ Declares(j, "g") => i = j
                /\ \A i \in s : Reads(i, "g") => \E j \in s : Declares(j, "g") /\ ~Reads(j, "c")}

Arrangements == UNION {{p \in {Append(q, Two) : q \in SetToSeqs(Core \cup s)} : Declarable(p)} : s \in Together}

(* Every node of a program as parsed is known by where it stands.            *)
RECURSIVE Numbered(_, _), Parsed(_, _)
Numbered(e, at) ==
    [e EXCEPT !.id = at, !.args = [j \in DOMAIN e.args |-> Numbered(e.args[j], Append(at, j))]]
Parsed(body, at) ==
    [j \in DOMAIN body |->
        LET here == Append(at, j)
            Branched(n) == [c |-> Numbered(body[j].branches[n].c, here \o <<n, 0>>),
                            body |-> Parsed(body[j].branches[n].body, Append(here, n))]
        IN  [body[j] EXCEPT !.e = Numbered(@, here),
                            !.branches = [n \in DOMAIN @ |-> Branched(n)],
                            !.body = Parsed(@, Append(here, 0))]]

Modules == LET programs == {Parsed(p, <<>>) : p \in Arrangements} IN programs

(* Two files of one module in both orders, a type whose length a binding is  *)
(* and the when that selects the binding; and a binding whose value is a     *)
(* when.                                                                     *)
Sized == <<Array("w", X("g"))>>
Sizing == <<When(On("Linux"), <<Bind("g", I(8))>>, <<Bind("g", I(9))>>)>>
Odd == LET modules == <<Parsed(Sizing \o Sized, <<>>), Parsed(Sized \o Sizing, <<>>),
                        Parsed(<<Bind("k", WhenV(On("Linux"), I(1), I(2)))>>, <<>>)>>
       IN  modules

-----------------------------------------------------------------------------
(* Selection by need: a name is what the only declaration of it that is      *)
(* selected says, wherever it stands.                                        *)

RECURSIVE Declarations(_, _)
Declarations(body, given) ==       \* [i, given]: an item under the conditions that select it
    UNION {LET i == body[j]
               Earlier(n) == {<<i.branches[m].c, FALSE>> : m \in 1..(n - 1)}
           IN  IF i.k # "when" THEN {[i |-> i, given |-> given]} \cup Declarations(i.body, given)
               ELSE UNION {Declarations(i.branches[n].body,
                                        given \cup Earlier(n) \cup {<<i.branches[n].c, TRUE>>}) :
                              n \in DOMAIN i.branches}
                    \cup Declarations(i.body, given \cup Earlier(Len(i.branches) + 1)) :
           j \in DOMAIN body}

RECURSIVE Need(_, _), Selected(_, _, _)
Need(body, e) ==                   \* the value of e
    LET Declared(k) == CHOOSE d \in Declarations(body, {}) :
                          /\ d.i.k = k /\ d.i.x = e.x
                          /\ \A g \in d.given : Need(body, g[1]).v = BoolOf(g[2])
    IN  CASE e.k = "lit" -> Found(e.v)
          [] e.k = "name" -> IF e.x \in DOMAIN Targets THEN Found(Targets[e.x])
                             ELSE IF \A d \in Declarations(body, {}) : d.i.x # e.x THEN Wrong("undefined")
                             ELSE Need(body, Declared("bind").i.e)
          [] e.k = "un" -> Negated(e.x, Need(body, e.args[1]).v)
          [] e.k = "bin" -> Both(Need(body, e.args[1]), Need(body, e.args[2]), e.x)
          [] e.k = "call" -> Need(body, Declared("fun").i.e)

Chosen(body, conditions) ==        \* the first condition that holds, or 0
    LET held == {j \in DOMAIN conditions : Need(body, conditions[j]).v = BoolOf(TRUE)}
    IN  IF held = {} THEN 0 ELSE CHOOSE j \in held : \A k \in held : j <= k

RECURSIVE Resolved(_, _), Folded(_, _)
Resolved(body, e) ==
    IF e.k = "whenv" THEN Resolved(body, ValueBranch(e, Chosen(body, ValueConditions(e))))
    ELSE [e EXCEPT !.args = [j \in DOMAIN e.args |-> Resolved(body, e.args[j])]]
Folded(body, e) ==
    IF e.k = "name" THEN Literal(Need(body, e).v)
    ELSE [e EXCEPT !.args = [j \in DOMAIN e.args |-> Folded(body, e.args[j])]]

Selected(all, body, i) ==          \* the items that stand for i
    LET Within(items) == FlattenSeq([j \in DOMAIN items |-> Selected(all, items, items[j])])
    IN  CASE i.k = "when" -> Within(BranchOf(i, Chosen(all, Conditions(i))))
          [] i.k \in {"assert", "error"} -> <<>>
          [] i.k = "bind" -> <<[i EXCEPT !.e = Literal(Need(all, Resolved(all, i.e)).v)]>>
          [] i.k = "array" -> <<[i EXCEPT !.e = Folded(all, i.e)]>>
          [] OTHER -> <<[i EXCEPT !.e = Resolved(all, i.e), !.body = Within(i.body)]>>

Meant == FlattenSeq([j \in DOMAIN program |-> Selected(program, program, program[j])])

Selects(given) == \A g \in given : Need(program, g[1]).v = BoolOf(g[2])

(* A selected @compiler_error or an assertion that does not hold.            *)
Rejected ==
    \E d \in Declarations(program, {}) :
        /\ d.i.k \in {"error", "assert"}
        /\ Selects(d.given)
        /\ d.i.k = "assert" => LET c == Need(program, d.i.e) IN c.err # "" \/ c.v # BoolOf(TRUE)

RECURSIVE NeedsCode(_)
NeedsCode(e) ==                    \* the value of e is known only when functions have run
    \/ e.k = "call" \/ \E j \in DOMAIN e.args : NeedsCode(e.args[j])
    \/ e.k = "name" /\ \E d \in Declarations(program, {}) :
          /\ d.i.k = "bind" /\ d.i.x = e.x /\ Selects(d.given)
          /\ NeedsCode(d.i.e) \/ \E g \in d.given : NeedsCode(g[1])

(* A selected type whose length needs code, where what selects it does not.  *)
LengthNeedsCode ==
    \E d \in Declarations(program, {}) :
        d.i.k = "array" /\ Selects(d.given) /\ NeedsCode(d.i.e) /\ ~\E g \in d.given : NeedsCode(g[1])

-----------------------------------------------------------------------------
(* Whatever the order in which the bindings of a module are found and        *)
(* resolved, and whether they need code, the selected declarations, branches *)
(* and values are those that the module means (SelectCompileTimeRoots).      *)
SelectedAsWritten == phase = "done" => ~Rejected /\ ~LengthNeedsCode /\ out = <<Meant>>

(* Selection fails only for a directive that the module selects or for the   *)
(* length of a type that needs code, which is analysed before the code runs, *)
(* never for a binding that another order would have found                   *)
(* (evaluateUnresolved).                                                     *)
FailsAsWritten == phase = "failed" => Rejected \/ LengthNeedsCode

(* The same of modules that the documents speak of and the code does not     *)
(* select as they say: bindings are visible whatever the order of the files  *)
(* (staging.go:112), and a when can select an expression (guide.md:1187).    *)
SelectsAsDocumented == (phase = "done" => out = <<Meant>>) /\ (phase = "failed" => Rejected)

(* A binding keeps the value that something may have been selected by: what  *)
(* the evaluator finds later agrees (the bindings of stageSelector).         *)
ValuesKeep ==
    [][\A x \in DOMAIN sel.bindings : x \in DOMAIN sel'.bindings /\ sel'.bindings[x] = sel.bindings[x]]_vars
=============================================================================
