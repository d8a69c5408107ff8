------------------------------ MODULE Meaning ------------------------------
(***************************************************************************)
(* What a program means by the language guide (src/docs/guide.md), without *)
(* blocks, slots or jumps: the reference that lowered code is compared     *)
(* with.  A run is [s, v, c]: the store, the value, and how the node ended *)
(* ("next", "break", "continue", "return" or "panic").  The store is       *)
(* [mem, env]: aggregates are values, and a name denotes a memory cell.    *)
(***************************************************************************)
EXTENDS Lowering

LOCAL R(s, v, c) == [s |-> s, v |-> v, c |-> c]
LOCAL Num(n) == [k |-> "int", n |-> n]
LOCAL Bool(b) == [k |-> "bool", b |-> b]
LOCAL Agg(of) == [k |-> "agg", of |-> of]
LOCAL Nothing == [k |-> "void"]

Then(r, K(_)) == IF r.c = "next" THEN K(r) ELSE r

New(s, x, v) == [mem |-> Append(s.mem, v), env |-> (x :> Len(s.mem) + 1) @@ s.env]

RECURSIVE ZeroOf(_)
ZeroOf(t) ==
    CASE t.k = "bool" -> Bool(FALSE)
      [] t.k \in {"struct", "multi"} -> Agg([i \in DOMAIN t.of |-> ZeroOf(t.of[i])])
      [] t.k = "union" -> Agg(<<ZeroOf(t.of[1])>>)
      [] OTHER -> Num(0)

(* A place is [cell, path].                                                  *)
Read(mem, p) == FoldLeft(LAMBDA v, i : v.of[i], mem[p.cell], p.path)

RECURSIVE Replace(_, _, _)
Replace(v, path, new) ==
    IF path = <<>> THEN new ELSE [v EXCEPT !.of[path[1]] = Replace(@, Tail(path), new)]

Write(s, p, v) == [s EXCEPT !.mem[p.cell] = Replace(@, p.path, v)]

Operate(op, a, b) ==
    CASE op = "add" -> Num(a.n + b.n)
      [] op = "sub" -> Num(a.n - b.n)
      [] op = "mul" -> Num(a.n * b.n)
      [] op = "div" -> Num(a.n \div b.n)
      [] op = "mod" -> Num(a.n % b.n)
      [] op = "eq" -> Bool(a = b)
      [] op = "ne" -> Bool(a # b)
      [] op = "lt" -> Bool(a.n < b.n)
      [] op = "le" -> Bool(a.n <= b.n)
      [] op = "gt" -> Bool(a.n > b.n)
      [] op = "ge" -> Bool(a.n >= b.n)

RECURSIVE Matches(_, _)
Matches(p, v) ==
    CASE p.k = "wild" -> TRUE
      [] p.k \in {"variant", "int"} -> v.n = p.n
      [] p.k = "bool" -> v.b = p.b
      [] p.k = "range" -> p.from <= v.n /\ v.n < p.to
      [] p.k = "alt" -> \E i \in DOMAIN p.of : Matches(p.of[i], v)

RECURSIVE Run(_, _, _), RunAll(_, _, _), Place(_, _, _), Exit(_, _, _), Loop(_, _, _)

(* The nodes of a sequence in order: the value is the sequence of values.    *)
RunAll(P, ns, s) ==
    FoldLeft(LAMBDA a, n : Then(a, LAMBDA x : LET r == Run(P, n, x.s)
                                              IN  IF r.c = "next" THEN R(r.s, Append(x.v, r.v), "next")
                                                  ELSE r),
             R(s, <<>>, "next"), ns)

Place(P, n, s) ==
    CASE n.k = "var" -> R(s, [k |-> "ptr", cell |-> s.env[n.x], path |-> <<>>], "next")
      [] n.k = "deref" -> Run(P, n.e, s)
      [] n.k = "field" ->
            Then(IF n.e.t.k = "pointer" THEN Run(P, n.e, s) ELSE Place(P, n.e, s),
                 LAMBDA r : R(r.s, [r.v EXCEPT !.path = Append(@, IF n.union THEN 1 ELSE n.i)], "next"))
      [] OTHER -> Then(Run(P, n, s), LAMBDA r : R(New(r.s, "", r.v),
                       [k |-> "ptr", cell |-> Len(r.s.mem) + 1, path |-> <<>>], "next"))

Invoke(P, n, s) ==                 \* the callee sees the globals and copies of the arguments
    Then(RunAll(P, n.args, s), LAMBDA a :
        LET f == P.funs[n.name]
            in == [mem |-> a.s.mem \o a.v,
                   env |-> [x \in {f.params[i].x : i \in DOMAIN f.params} |->
                               Len(a.s.mem) + CHOOSE i \in DOMAIN f.params : f.params[i].x = x] @@ P.env]
            r == Run(P, f.body, in)
        IN  R([r.s EXCEPT !.env = s.env], r.v, IF r.c = "panic" THEN r.c ELSE "next"))

(* A scope ends: its deferred actions run, the last registered first, each   *)
(* once, however the scope was left.                                         *)
Exit(P, actions, r) ==
    IF actions = <<>> \/ r.c = "panic" THEN r
    ELSE LET d == Run(P, Last(actions), r.s)
         IN  Exit(P, Front(actions), IF d.c = "next" THEN [r EXCEPT !.s = d.s] ELSE d)

Scope(P, n, s) ==
    LET Item(a, m) ==
            IF a.r.c # "next" THEN a
            ELSE IF m.k = "defer" THEN [a EXCEPT !.d = Append(@, m.action), !.r.v = Nothing]
            ELSE [a EXCEPT !.r = Run(P, m, a.r.s)]
        all == FoldLeft(Item, [r |-> R(s, Nothing, "next"), d |-> <<>>], n.body)
    IN  Exit(P, all.d, all.r)

Loop(P, n, s) ==                   \* a conditional loop, from its condition on
    LET go == IF n.cond.k = "none" THEN R(s, Bool(TRUE), "next") ELSE Run(P, n.cond, s)
        b == Run(P, n.body, go.s)
        p == IF n.post.k = "none" THEN b ELSE Run(P, n.post, b.s)
    IN  IF go.c # "next" THEN go
        ELSE IF ~go.v.b THEN R(go.s, Nothing, "next")
        ELSE CASE b.c \in {"next", "continue"} -> Loop(P, n, p.s)
               [] b.c = "break" -> R(b.s, Nothing, "next")
               [] OTHER -> b

Over(P, n, s, from, to) ==         \* once for each index of the range
    LET up == [i \in 1..(to - from + IF n.incl THEN 1 ELSE 0) |-> from + i - 1]
        Once(r, i) == IF r.c \notin {"next", "continue"} THEN r
                      ELSE Run(P, n.body, New(r.s, n.x, Num(i)))
        r == FoldLeft(Once, R(s, Nothing, "next"), IF n.rev THEN Reverse(up) ELSE up)
    IN  IF r.c \in {"break", "continue"} THEN [r EXCEPT !.c = "next"] ELSE r

If(P, n, s) ==                     \* the first branch whose condition holds
    LET Pick(a, b) == IF a.taken \/ a.r.c # "next" THEN a
                      ELSE LET c == Run(P, b.c, a.r.s)
                           IN  IF c.c = "next" /\ c.v.b THEN [r |-> Run(P, b.b, c.s), taken |-> TRUE]
                               ELSE [r |-> c, taken |-> FALSE]
        p == FoldLeft(Pick, [r |-> R(s, Nothing, "next"), taken |-> FALSE], n.branches)
    IN  IF p.taken \/ p.r.c # "next" THEN p.r
        ELSE IF n.orelse.k = "none" THEN R(p.r.s, Nothing, "next") ELSE Run(P, n.orelse, p.r.s)

Match(P, n, s) ==                  \* the first arm that matches and whose guard holds
    Then(RunAll(P, n.subjects, s), LAMBDA v :
        LET in == IF n.bind = "" THEN v.s ELSE New(v.s, n.bind, v.v[1])
            Try(a, arm) ==
                IF a.taken \/ a.r.c # "next" THEN a
                ELSE IF ~\A i \in DOMAIN v.v : Matches(Pattern(arm.pats, i), v.v[i]) THEN a
                ELSE IF arm.guard.k = "none" THEN [r |-> Run(P, arm.body, a.r.s), taken |-> TRUE]
                ELSE LET g == Run(P, arm.guard, a.r.s)
                     IN  IF g.c = "next" /\ g.v.b THEN [r |-> Run(P, arm.body, g.s), taken |-> TRUE]
                         ELSE [r |-> g, taken |-> FALSE]
        IN  FoldLeft(Try, [r |-> R(in, Nothing, "next"), taken |-> FALSE], n.arms).r)

Assigned(P, targets, vs, s) ==     \* the values into their targets, left to right
    FoldLeft(LAMBDA r, i : Then(r, LAMBDA x :
                 IF targets[i].k = "none" THEN x
                 ELSE Then(Place(P, targets[i], x.s),
                           LAMBDA p : R(Write(p.s, p.v, vs[i]), Nothing, "next"))),
             R(s, Nothing, "next"), Indices(targets))

Declared(xs, vs, s) ==
    FoldLeft(LAMBDA a, i : IF xs[i] = "none" THEN a ELSE New(a, xs[i], vs[i]), s, Indices(xs))

Run(P, n, s) ==
    CASE n.k = "int" -> R(s, Num(n.n), "next")
      [] n.k = "bool" -> R(s, Bool(n.b), "next")
      [] n.k = "var" -> R(s, s.mem[s.env[n.x]], "next")
      [] n.k = "bin" ->
            Then(RunAll(P, <<n.l, n.r>>, s), LAMBDA r :
                IF n.op \in {"div", "mod"} /\ r.v[2].n = 0 THEN R(r.s, Nothing, "panic")
                ELSE R(r.s, Operate(n.op, r.v[1], r.v[2]), "next"))
      [] n.k = "logic" ->
            Then(Run(P, n.l, s), LAMBDA r : IF r.v.b = (n.op = "or") THEN r ELSE Run(P, n.r, r.s))
      [] n.k = "un" -> Then(Run(P, n.e, s), LAMBDA r : R(r.s, Bool(~r.v.b), "next"))
      [] n.k = "call" -> Invoke(P, n, s)
      [] n.k = "panic" -> R(s, Nothing, "panic")
      [] n.k \in {"field", "deref"} ->
            Then(Place(P, n, s), LAMBDA p : R(p.s, Read(p.s.mem, p.v), "next"))
      [] n.k = "ref" -> Place(P, n.e, s)
      [] n.k = "struct" ->
            Then(RunAll(P, [i \in DOMAIN n.fields |-> n.fields[i].e], s), LAMBDA r :
                R(r.s, FoldLeft(LAMBDA z, i : Replace(z, <<IF n.t.k = "union" THEN 1 ELSE n.fields[i].i>>, r.v[i]),
                                ZeroOf(n.t), Indices(n.fields)), "next"))
      [] n.k = "if" -> If(P, n, s)
      [] n.k = "match" -> Match(P, n, s)
      [] n.k = "block" -> Scope(P, n, s)
      [] n.k = "decl" -> Then(Run(P, n.e, s), LAMBDA r : R(Declared(<<n.x>>, <<r.v>>, r.s), Nothing, "next"))
      [] n.k = "multi" ->
            Then(Run(P, n.e, s), LAMBDA r : R(Declared(n.xs, r.v.of, r.s), Nothing, "next"))
      [] n.k = "assign" -> Then(Run(P, n.e, s), LAMBDA r : Assigned(P, <<n.target>>, <<r.v>>, r.s))
      [] n.k = "assignall" -> Then(Run(P, n.e, s), LAMBDA r : Assigned(P, n.targets, r.v.of, r.s))
      [] n.k = "compound" ->
            Then(Place(P, n.target, s), LAMBDA p :
                Then(Run(P, n.e, p.s), LAMBDA r :
                    LET old == Read(p.s.mem, p.v)
                    IN  IF n.op \in {"div", "mod"} /\ r.v.n = 0 THEN R(r.s, Nothing, "panic")
                        ELSE R(Write(r.s, p.v, Operate(n.op, old, r.v)), Nothing, "next")))
      [] n.k = "return" ->
            Then(RunAll(P, n.args, s), LAMBDA r :
                R(r.s, CASE n.args = <<>> -> Nothing [] Len(n.args) = 1 -> r.v[1] [] OTHER -> Agg(r.v),
                  "return"))
      [] n.k \in {"break", "continue"} -> R(s, Nothing, n.k)
      [] n.k = "for" ->
            Then(IF n.init.k = "none" THEN R(s, Nothing, "next") ELSE Run(P, n.init, s),
                 LAMBDA r : Loop(P, n, r.s))
      [] n.k = "range" ->
            Then(RunAll(P, <<n.from, n.to>>, s),
                 LAMBDA r : Over(P, n, r.s, r.v[1].n, r.v[2].n))

(* A program [funs, globals] on arguments: what it returns, or "panic", and  *)
(* the globals it leaves.                                                    *)
Means(program, args) ==
    LET globals == program.globals
        mem == [i \in DOMAIN globals |-> ZeroOf(globals[i].t)]
        env == [x \in {globals[i].x : i \in DOMAIN globals} |->
                   CHOOSE i \in DOMAIN globals : globals[i].x = x]
        P == [funs |-> program.funs, env |-> env]
        call == [k |-> "call", name |-> "main", args |-> [i \in DOMAIN args |-> [k |-> "int", n |-> args[i]]]]
        r == Invoke(P, call, [mem |-> mem, env |-> env])
    IN  [panics |-> r.c = "panic", v |-> r.v, globals |-> SubSeq(r.s.mem, 1, Len(mem))]
=============================================================================
