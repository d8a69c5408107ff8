----------------------------- MODULE MCPrograms -----------------------------
(***************************************************************************)
(* Small programs: constructors of syntax nodes, a family that puts every  *)
(* two statements of a set into every kind of loop, and single programs    *)
(* for the other constructs.  A program is [funs, globals, dynamic]: init  *)
(* of one with dynamic globals is lowered as the module initializer, and   *)
(* its body is what that means.  Mark(n) mixes n into the global log.      *)
(***************************************************************************)
EXTENDS Lowering

I(n) == [k |-> "int", n |-> n, t |-> IntT]
T == [k |-> "bool", b |-> TRUE, t |-> BoolT]
V(x, t) == [k |-> "var", x |-> x, t |-> t]
X(x) == V(x, IntT)
Bin(op, l, r) == [k |-> "bin", op |-> op, l |-> l, r |-> r, t |-> IntT]
Eq(l, r) == [Bin("eq", l, r) EXCEPT !.t = BoolT]
Lt(l, r) == [Bin("lt", l, r) EXCEPT !.t = BoolT]
Logic(op, l, r) == [k |-> "logic", op |-> op, l |-> l, r |-> r, t |-> BoolT]
Not(e) == [k |-> "un", op |-> "not", e |-> e, t |-> BoolT]
Invocation(f, args, t) == [k |-> "call", name |-> f, args |-> args, t |-> t]
Panics == [k |-> "panic", t |-> VoidT]
Dot(e, i, t) == [k |-> "field", e |-> e, i |-> i, t |-> t, union |-> e.t.k = "union"]
Ref(e) == [k |-> "ref", e |-> e, t |-> PointerT(e.t)]
Deref(e) == [k |-> "deref", e |-> e, t |-> e.t.of[1]]
Struct(t, es) == [k |-> "struct", t |-> t, fields |-> [i \in DOMAIN es |-> [i |-> i, e |-> es[i]]]]

Block(body) == [k |-> "block", body |-> body, expr |-> FALSE, t |-> VoidT]
BlockE(body, t) == [k |-> "block", body |-> body, expr |-> TRUE, t |-> t]
Let(x, t, e) == [k |-> "decl", x |-> x, t |-> t, e |-> e]
LetAll(xs, e) == [k |-> "multi", xs |-> xs, e |-> e]
Set(target, e) == [k |-> "assign", target |-> target, e |-> e]
SetAll(targets, e) == [k |-> "assignall", targets |-> targets, e |-> e]
Up(target, op, e) == [k |-> "compound", target |-> target, op |-> op, e |-> e]
Ret(es) == [k |-> "return", args |-> es]
Break == [k |-> "break"]
Continue == [k |-> "continue"]
Defer(action) == [k |-> "defer", action |-> action]
IfS(c, a, b) == [k |-> "if", branches |-> <<[c |-> c, b |-> a]>>, orelse |-> b, expr |-> FALSE, t |-> VoidT]
IfE(c, a, b, t) == [IfS(c, a, b) EXCEPT !.expr = TRUE, !.t = t]
ForS(init, cond, post, body) == [k |-> "for", init |-> init, cond |-> cond, post |-> post, body |-> body]
RangeS(x, from, to, incl, rev, body) ==
    [k |-> "range", x |-> x, from |-> from, to |-> to, incl |-> incl, rev |-> rev, body |-> body]
MatchS(subjects, arms) ==
    [k |-> "match", subjects |-> subjects, bind |-> "", arms |-> arms, expr |-> FALSE, t |-> VoidT]
MatchE(subjects, arms, t) == [MatchS(subjects, arms) EXCEPT !.expr = TRUE, !.t = t]
Arm(pats, guard, body) == [pats |-> pats, guard |-> guard, body |-> body]
Wildcard == [k |-> "wild"]
Variant(n) == [k |-> "variant", n |-> n, key |-> ToString(n)]
IntP(n) == [k |-> "int", n |-> n, key |-> ToString(n)]
Span(a, b) == [k |-> "range", from |-> a, to |-> b, key |-> ToString(<<a, b>>)]
Or(ps) == [k |-> "alt", of |-> ps]

Log == X("log")
Mark(n) == Set(Log, Bin("add", Bin("mul", Log, I(5)), I(n)))
Fun(params, ret, body) == [params |-> params, ret |-> ret, exprBody |-> FALSE, body |-> body]
Yields(params, ret, e) == [params |-> params, ret |-> ret, exprBody |-> TRUE, body |-> e]
P(x, t) == [x |-> x, t |-> t]
Logged == <<[x |-> "log", t |-> IntT, op |-> IntOp(0)]>>
Alone(params, body) == [funs |-> [main |-> Fun(params, IntT, Block(body))], globals |-> Logged,
                        dynamic |-> <<>>]
With(fs, params, body) ==
    [funs |-> [main |-> Fun(params, IntT, Block(body))] @@ fs, globals |-> Logged,
     dynamic |-> <<>>]

-----------------------------------------------------------------------------
(* Control: every two statements in every loop, under a deferred action of   *)
(* the function.  x is an argument, i counts the turns.                      *)

Leaves ==
    <<Mark(2), Break, Continue, Ret(<<Log>>), Defer(Mark(3)),
     IfS(Eq(X("i"), X("x")), Block(<<Break>>), None),
     IfS(Eq(X("i"), X("x")), Block(<<Defer(Mark(4)), Ret(<<X("i")>>)>>), Block(<<Defer(Mark(5))>>)),
     Block(<<Defer(Mark(3)), Defer(Block(<<Mark(4)>>)), IfS(Eq(X("i"), X("x")), Block(<<Continue>>), None)>>),
     MatchS(<<X("i")>>, <<Arm(<<IntP(0)>>, None, Block(<<Mark(6)>>)), Arm(<<Wildcard>>, None, Block(<<Continue>>))>>),
     IfS(Eq(X("i"), X("x")), Block(<<Panics>>), None)>>

Turns(body) ==                     \* i = 0, 1, or backwards
    <<RangeS("i", I(0), I(2), FALSE, FALSE, body), RangeS("i", I(0), I(1), TRUE, FALSE, body),
     RangeS("i", I(0), I(2), FALSE, TRUE, body), RangeS("i", I(0), I(1), TRUE, TRUE, body),
     ForS(Let("i", IntT, I(0)), Lt(X("i"), I(2)), Up(X("i"), "add", I(1)), body)>>

ControlProgram(turn, a, b) ==
    LET body == Block(<<Leaves[a], Leaves[b], Mark(1)>>)
    IN  Alone(<<P("x", IntT)>>, <<Defer(Mark(7)), Turns(body)[turn], Mark(2), Ret(<<I(9)>>)>>)

-----------------------------------------------------------------------------
(* Values.                                                                   *)

Pair == StructT(<<IntT, IntT>>)
Nest == StructT(<<Pair, IntT>>)
Colour == EnumT(3)
Two == MultiT(<<IntT, IntT>>)
Arg == <<P("x", IntT)>>
Or2 == [divide |-> Yields(<<P("a", IntT), P("b", IntT)>>, IntT, Bin("div", X("a"), X("b")))]
Walk == [down |-> Fun(<<P("n", IntT)>>, IntT, Block(<<
            IfS(Eq(X("n"), I(0)), Block(<<Ret(<<I(0)>>)>>), None),
            Ret(<<Bin("add", I(1), Invocation("down", <<Bin("sub", X("n"), I(1))>>, IntT))>>)>>))]
Split == [split |-> Fun(<<P("n", IntT)>>, Two, Block(<<Defer(Mark(3)), Ret(<<X("n"), Bin("add", X("n"), I(1))>>)>>))]
Bump == [bump |-> Fun(<<P("p", PointerT(Pair))>>, VoidT, Block(<<
            Up(Dot(V("p", PointerT(Pair)), 2, IntT), "add", I(5))>>))]
Say == [say |-> Fun(<<P("n", IntT)>>, BoolT, Block(<<Mark(1), Ret(<<Eq(X("n"), I(0))>>)>>))]
Turned(e) == Invocation("say", <<e>>, BoolT)
Hue == V("h", Colour)
Either == UnionT(<<IntT, IntT>>)

(* What a module initializer means: once, a dependency's initializer, then   *)
(* the globals in the order of their declarations.                           *)
Boot == Invocation("init", <<>>, VoidT)
Flag == V("__module_initialized", BoolT)
Late == <<[x |-> "__module_initialized", t |-> BoolT, e |-> T],
          [x |-> "early", t |-> IntT, e |-> Bin("add", X("late"), Bin("add", Log, I(1)))],
          [x |-> "late", t |-> IntT, e |-> Invocation("five", <<>>, IntT)]>>
Booted ==
    [other |-> Fun(<<>>, VoidT, Block(<<Mark(1)>>)),
     five |-> Fun(<<>>, IntT, Block(<<Mark(2), Ret(<<I(5)>>)>>)),
     init |-> Fun(<<>>, VoidT, Block(<<IfS(Not(Flag), Block(<<Set(Flag, T), Invocation("other", <<>>, VoidT)>> \o
                 [i \in 1..2 |-> Set(V(Late[i + 1].x, Late[i + 1].t), Late[i + 1].e)]), None)>>))]
ToHue == Let("h", Colour, X("x"))

ValuePrograms ==
    <<\* a panic before the call, and a call of a function whose body is an expression
     With(Or2, Arg, <<Defer(Mark(1)), Ret(<<Invocation("divide", <<I(6), X("x")>>, IntT)>>)>>),
     \* recursion
     With(Walk, Arg, <<Ret(<<Invocation("down", <<X("x")>>, IntT)>>)>>),
     \* several results, declared and assigned, one discarded; the deferred action after them
     With(Split, Arg, <<LetAll(<<"a", "none">>, Invocation("split", <<X("x")>>, Two)), Let("b", IntT, I(0)),
          SetAll(<<None, X("b")>>, Invocation("split", <<X("a")>>, Two)),
          Ret(<<Bin("add", Bin("mul", X("a"), I(8)), X("b"))>>)>>),
     \* a struct through a pointer, by a field of a nested struct
     With(Bump, Arg, <<Let("q", Nest, Struct(Nest, <<Struct(Pair, <<I(1), X("x")>>), I(3)>>)),
          Let("p", PointerT(Pair), Ref(Dot(V("q", Nest), 1, Pair))),
          Invocation("bump", <<V("p", PointerT(Pair))>>, VoidT),
          Set(Dot(V("p", PointerT(Pair)), 1, IntT), I(4)),
          Set(Deref(Ref(Dot(V("q", Nest), 2, IntT))), I(2)),
          Ret(<<Bin("add", Bin("mul", Dot(Dot(V("q", Nest), 1, Pair), 1, IntT), I(8)),
                           Dot(Deref(V("p", PointerT(Pair))), 2, IntT))>>)>>),
     \* short circuits, in both orders, and what a right operand leaves undone
     With(Say, Arg, <<IfS(Logic("and", Not(Turned(X("x"))), Turned(Bin("sub", X("x"), I(1)))), Block(<<Mark(2)>>),
                          Block(<<IfS(Logic("or", Turned(X("x")), Turned(I(0))), Block(<<Mark(3)>>), None)>>)),
          Ret(<<Log>>)>>),
     \* a conditional with a value, one branch leaving; the value is read before a deferred action
     Alone(Arg, <<Let("v", IntT, I(1)), Defer(Mark(1)),
          Set(X("v"), Bin("add", X("v"), IfE(Eq(X("x"), I(0)), BlockE(<<Defer(Mark(2)), Mark(3), X("x")>>, IntT),
                      BlockE(<<IfS(Eq(X("x"), I(1)), Block(<<Ret(<<I(5)>>)>>), None), I(6)>>, IntT), IntT))),
          Defer(Set(X("v"), I(0))), Ret(<<X("v")>>)>>),
     \* a match with a value over an enum: alternatives, a guard, an arm that leaves
     Alone(Arg, <<ToHue, Let("m", IntT, MatchE(<<Hue>>, <<
          Arm(<<Or(<<Variant(0), Variant(2)>>)>>, Lt(X("x"), I(1)), I(3)),
          Arm(<<Variant(2)>>, None, BlockE(<<Defer(Mark(4)), Ret(<<I(4)>>)>>, IntT)),
          Arm(<<Wildcard>>, None, X("x"))>>, IntT)), Ret(<<Bin("add", X("m"), I(8))>>)>>),
     \* two subjects, a range and the name of the subject
     Alone(Arg, <<Ret(<<MatchE(<<X("x"), Eq(X("x"), I(1))>>, <<
          Arm(<<Span(1, 3), [k |-> "bool", b |-> TRUE, key |-> "true"]>>, None, I(5)),
          Arm(<<IntP(2), Wildcard>>, None, I(6)), Arm(<<Wildcard>>, None, I(7))>>, IntT)>>)>>),
     Alone(Arg, <<Ret(<<[MatchE(<<Bin("add", X("x"), I(1))>>, <<Arm(<<IntP(1)>>, None, X("s")),
          Arm(<<Wildcard>>, None, Bin("mul", X("s"), I(2)))>>, IntT) EXCEPT !.bind = "s"]>>)>>),
     \* a compound assignment to a global, which has no address at compile time
     Alone(Arg, <<Up(Log, "add", X("x")), Ret(<<Log>>)>>),
     \* a union through its two members
     Alone(Arg, <<Let("u", Either, Struct(Either, <<X("x")>>)), Set(Dot(V("u", Either), 2, IntT), Bin("add", X("x"), I(1))),
          Ret(<<Dot(V("u", Either), 1, IntT)>>)>>),
     \* initial values that are not constant: a dependency, a forward read, a second call
     [Alone(Arg, <<Boot, Boot, Ret(<<Bin("add", Bin("mul", X("early"), I(8)), X("late"))>>)>>) EXCEPT
          !.funs = Booted @@ @,
          !.globals = @ \o [i \in DOMAIN Late |-> [x |-> Late[i].x, t |-> Late[i].t, op |-> ZeroOp(Late[i].t)]],
          !.dynamic = Tail(Late)]>>

-----------------------------------------------------------------------------
(* Bodies of functions with a result: what falls through is refused.         *)

Endings ==
    <<Ret(<<X("x")>>), IfS(Eq(X("x"), I(0)), Block(<<Ret(<<I(1)>>)>>), None), Mark(1), Panics,
     ForS(None, None, None, Block(<<Ret(<<I(2)>>)>>)),
     MatchS(<<Eq(X("x"), I(0))>>, <<
         Arm(<<[k |-> "bool", b |-> TRUE, key |-> "true"]>>, None, Block(<<Ret(<<I(3)>>)>>)),
         Arm(<<[k |-> "bool", b |-> FALSE, key |-> "false"]>>, None, Block(<<Mark(2)>>))>>),
     MatchS(<<V("x", Colour)>>, <<Arm(<<Variant(0)>>, None, Block(<<Ret(<<I(3)>>)>>)),
         Arm(<<Or(<<Variant(1), Variant(2)>>)>>, None, Block(<<Ret(<<I(4)>>)>>))>>),
     Break>>

EndingProgram(a, b) ==
    Alone(Arg, IF b = 0 THEN <<Endings[a]>> ELSE <<Endings[a], Endings[b]>>)

Programs ==
    [name \in {<<"control", turn, a, b>> : turn \in 1..5, a, b \in DOMAIN Leaves} \cup
              {<<"value", 0, a, 0>> : a \in DOMAIN ValuePrograms} \cup
              {<<"ending", 0, a, b>> : a \in DOMAIN Endings, b \in {0} \cup DOMAIN Endings} |->
        CASE name[1] = "control" -> ControlProgram(name[2], name[3], name[4])
          [] name[1] = "value" -> ValuePrograms[name[3]]
          [] name[1] = "ending" -> EndingProgram(name[3], name[4])]
=============================================================================
