------------------------------ MODULE Lowering ------------------------------
(***************************************************************************)
(* The lowering of one function body to basic blocks, as the generator of  *)
(* src/codegen/irgen/irgen.go does it, and the checks of the validator     *)
(* that decide whether a body gets that far.                               *)
(*                                                                         *)
(* A syntax node is a record whose field k names its kind.  The generator  *)
(* is a record that every operator takes and returns; an operator for an   *)
(* expression returns [g |-> the generator, v |-> the operand].  A panic   *)
(* of the generator is the field bad: nothing is emitted after it.  Names  *)
(* stand for symbols: no two declarations of a function share one.         *)
(***************************************************************************)
EXTENDS IR, FiniteSets, TLC

-----------------------------------------------------------------------------
(* Where control may go: the two helpers of parser/control_flow.go.         *)

RECURSIVE FallsThrough(_)
FallsThrough(n) ==
    CASE n.k \in {"return", "break", "continue", "panic"} -> FALSE
      [] n.k = "block" -> \A i \in DOMAIN n.body : FallsThrough(n.body[i])
      [] n.k = "if" ->
            \/ n.orelse.k = "none"
            \/ \E i \in DOMAIN n.branches : FallsThrough(n.branches[i].b)
            \/ FallsThrough(n.orelse)
      [] n.k = "match" -> \E i \in DOMAIN n.arms : FallsThrough(n.arms[i].body)
      [] OTHER -> TRUE

ExprKinds == {"int", "bool", "var", "global", "bin", "logic", "un", "call",
              "panic", "field", "struct", "ref", "deref"}

HasResult(b) ==
    /\ b.expr
    /\ b.body # <<>>
    /\ LET r == Last(b.body)
       IN  r.k \in ExprKinds \/ (r.k \in {"block", "if", "match"} /\ r.expr)

-----------------------------------------------------------------------------
(* The coverage of a match: a pattern covers a set of keys of its subject's *)
(* domain, or all of them; an arm is a row of patterns, one per subject.     *)

RECURSIVE Keys(_)
Keys(p) ==
    CASE p.k \in {"wild", "none"} -> {}
      [] p.k \in {"variant", "int", "bool"} -> {<<p.k, p.key>>}
      [] p.k = "range" -> {<<"range", p.key>>}
      [] p.k = "alt" -> UNION {Keys(p.of[i]) : i \in DOMAIN p.of}

RECURSIVE Wild(_)
Wild(p) == p.k = "wild" \/ (p.k = "alt" /\ \E i \in DOMAIN p.of : Wild(p.of[i]))

WildRow(pats) == Len(pats) = 1 /\ pats[1].k = "wild"
Pattern(pats, i) == IF WildRow(pats) THEN pats[1] ELSE pats[i]

Domains(m) ==
    [i \in DOMAIN m.subjects |->
        LET t == m.subjects[i].t
            own == CASE t.k = "enum" -> {<<"variant", ToString(v)>> : v \in 0..(t.n - 1)}
                     [] t.k = "bool" -> {<<"bool", "true">>, <<"bool", "false">>}
                     [] OTHER -> {<<"other", "">>}
        IN  own \cup UNION {Keys(Pattern(m.arms[j].pats, i)) : j \in DOMAIN m.arms}]

Points(m) ==
    LET d == Domains(m)
    IN  {p \in [DOMAIN d -> UNION {d[i] : i \in DOMAIN d}] : \A i \in DOMAIN d : p[i] \in d[i]}

CoveredBy(m, j, point) ==
    \A i \in DOMAIN m.subjects :
        LET p == Pattern(m.arms[j].pats, i) IN Wild(p) \/ point[i] \in Keys(p)

Unguarded(m, n) == {j \in 1..n : m.arms[j].guard.k = "none"}

Exhaustive(m) ==
    \A point \in Points(m) : \E j \in Unguarded(m, Len(m.arms)) : CoveredBy(m, j, point)

Unreachable(m, n) ==
    LET mine == {p \in Points(m) : CoveredBy(m, n, p)}
    IN  mine # {} /\ \A p \in mine : \E j \in Unguarded(m, n - 1) : CoveredBy(m, j, p)

-----------------------------------------------------------------------------
(* What the validator accepts, of the checks that concern control: a break   *)
(* inside a loop, a block expression with a result, a match that covers its  *)
(* subjects, a non-void body that does not fall through.                     *)

RECURSIVE Valid(_, _)
Valid(n, depth) ==
    LET All(s) == \A i \in DOMAIN s : Valid(s[i], depth)
    IN  CASE n.k \in {"break", "continue"} -> depth > 0
          [] n.k = "block" -> All(n.body) /\ (n.expr /\ FallsThrough(n) => HasResult(n))
          [] n.k = "if" ->
                /\ \A i \in DOMAIN n.branches :
                      Valid(n.branches[i].c, depth) /\ Valid(n.branches[i].b, depth)
                /\ Valid(n.orelse, depth)
                /\ n.expr => n.orelse.k # "none"
          [] n.k = "match" ->
                /\ All(n.subjects) /\ Exhaustive(n)
                /\ \A i \in DOMAIN n.arms : /\ Valid(n.arms[i].body, depth)
                                            /\ Valid(n.arms[i].guard, depth)
                                            /\ ~Unreachable(n, i)
          [] n.k = "for" -> /\ \A p \in {n.init, n.cond, n.post} : Valid(p, depth)
                            /\ Valid(n.body, depth + 1)
          [] n.k = "range" -> All(<<n.from, n.to>>) /\ Valid(n.body, depth + 1)
          [] n.k = "defer" -> Valid(n.action, depth)
          [] n.k \in {"bin", "logic"} -> All(<<n.l, n.r>>)
          [] n.k \in {"un", "field", "ref", "deref", "decl", "multi", "assignall"} -> Valid(n.e, depth)
          [] n.k \in {"assign", "compound"} -> All(<<n.target, n.e>>)
          [] n.k = "struct" -> \A i \in DOMAIN n.fields : Valid(n.fields[i].e, depth)
          [] n.k \in {"call", "return"} -> All(n.args)
          [] OTHER -> TRUE

Accepted(f) ==
    /\ Valid(f.body, 0)
    /\ f.ret.k # "void" /\ ~f.exprBody => ~FallsThrough(f.body)

-----------------------------------------------------------------------------
(* The generator.                                                            *)

Terminated(g) ==
    LET b == g.blocks[g.cur]
    IN  b # <<>> /\ Last(b).op \in Terminators

Panic(g, why) == IF g.bad = "" THEN [g EXCEPT !.bad = why] ELSE g

Emit(g, i) ==
    IF g.bad # "" THEN g
    ELSE IF Terminated(g) THEN Panic(g, "emit after terminator")
    ELSE [g EXCEPT !.blocks[g.cur] = Append(@, i)]

Result(g, i) ==                    \* emit i into a fresh value
    [g |-> Emit([g EXCEPT !.vals = @ + 1], [i EXCEPT !.dest = g.vals + 1]),
     v |-> ValueOp(g.vals + 1)]

NewBlocks(g, n) == [g EXCEPT !.blocks = @ \o [i \in 1..n |-> <<>>]]
At(g, b) == IF g.bad = "" THEN [g EXCEPT !.cur = b] ELSE g
\* Mutant: a slot without its alloca.
SlotOnly(g, t) == [g EXCEPT !.slots = Append(@, t)]

NewSlot(g, t) ==
    Emit([g EXCEPT !.slots = Append(@, t)], [Instr("alloca", <<>>) EXCEPT !.at = Len(g.slots) + 1])
Bind(g, x) == [g EXCEPT !.env = (x :> Len(g.slots)) @@ @]

Store(g, slot, v) == Emit(g, [Instr("store", <<v>>) EXCEPT !.at = slot])
Load(g, slot) == Result(g, [Instr("load", <<>>) EXCEPT !.at = slot])
AddressOf(g, slot) == Result(g, [Instr("addressof", <<>>) EXCEPT !.at = slot])
FieldAddress(g, base, i, union) ==
    Result(g, [Instr(IF union THEN "unionaddress" ELSE "fieldaddress", <<base>>) EXCEPT !.at = i])
LoadPtr(g, p) == Result(g, Instr("loadptr", <<p>>))
StorePtr(g, p, v) == Emit(g, Instr("storeptr", <<p, v>>))
Jump(g, b) == Emit(g, [Instr("jump", <<>>) EXCEPT !.at = b])
JumpOpen(g, b) == IF Terminated(g) THEN g ELSE Jump(g, b)
Branch(g, c, then, else) == Emit(g, [Instr("branch", <<c>>) EXCEPT !.at = then, !.to = else])
Test(g, c, then, else) ==          \* compare with false, then branch
    LET t == Result(g, Instr("ne", <<c, BoolOp(FALSE)>>)) IN Branch(t.g, t.v, then, else)

\* Mutant: divides by whatever there is.
NoZeroCheck(g, divisor) == g

EmitZeroCheck(g, divisor) ==
    LET z == Result(g, Instr("eq", <<divisor, IntOp(0)>>))
        n == Len(g.blocks)
        b == Branch(NewBlocks(z.g, 2), z.v, n + 1, n + 2)
        p == Emit(Emit(At(b, n + 1), [Instr("call", <<>>) EXCEPT !.name = PanicCallee]),
                  Instr("unreachable", <<>>))
    IN  At(p, n + 2)

EmitBinary(g, op, l, r) ==
    Result(IF op \in {"div", "mod"} THEN EmitZeroCheck(g, r) ELSE g, Instr(op, <<l, r>>))

-----------------------------------------------------------------------------
(* Expressions and statements.                                               *)

RECURSIVE Expr(_, _), Stmt(_, _), AddressOfExpr(_, _)

Indices(s) == [i \in DOMAIN s |-> i]

ExprAll(g, es) ==                  \* the operands of es, left to right
    FoldLeft(LAMBDA a, e : LET r == Expr(a.g, e) IN [g |-> r.g, v |-> Append(a.v, r.v)],
             [g |-> g, v |-> <<>>], es)

Identifier(g, x) ==
    IF x \in DOMAIN g.env THEN Load(g, g.env[x])
    ELSE Result(g, [Instr("loadglobal", <<>>) EXCEPT !.name = x])

SubjectAddress(g, e) == IF e.t.k = "pointer" THEN Expr(g, e) ELSE AddressOfExpr(g, e)

FieldOf(g, n) ==
    LET b == SubjectAddress(g, n.e) IN FieldAddress(b.g, b.v, n.i, n.union)

Materialised(g, n) ==              \* a value that has no address gets a slot
    LET v == Expr(g, n)
        s == NewSlot(v.g, n.t)
    IN  AddressOf(Store(s, Len(s.slots), v.v), Len(s.slots))

AddressOfExpr(g, n) ==
    CASE n.k = "var" /\ n.x \in DOMAIN g.env -> AddressOf(g, g.env[n.x])
      [] n.k = "var" /\ n.x \notin DOMAIN g.env ->
            Result(g, [Instr("addressofglobal", <<>>) EXCEPT !.name = n.x])
      [] n.k = "field" -> FieldOf(g, n)
      [] n.k = "deref" -> Expr(g, n.e)
      [] OTHER -> Materialised(g, n)

StructInto(g, slot, n) ==          \* zero the slot, then one field after the other
    LET Field(h, a) ==
            LET p == FieldAddress(h.g, h.v, a.i, n.t.k = "union")
                v == Expr(p.g, a.e)
            IN  [g |-> StorePtr(v.g, p.v, v.v), v |-> h.v]
    IN  FoldLeft(Field, AddressOf(Store(g, slot, ZeroOp(n.t)), slot), n.fields).g

ShortCircuit(g, n) ==
    LET s == NewSlot(g, BoolT)
        slot == Len(s.slots)
        l == Expr(s, n.l)
        right == Len(l.g.blocks) + 1
        skip == right + 1
        merge == right + 2
        b == IF n.op = "and" THEN Branch(NewBlocks(l.g, 3), l.v, right, skip)
             ELSE Branch(NewBlocks(l.g, 3), l.v, skip, right)
        r == Expr(At(Jump(Store(At(b, skip), slot, BoolOp(n.op = "or")), merge), right), n.r)
        open == IF Terminated(r.g) THEN r.g ELSE Jump(Store(r.g, slot, r.v), merge)
    IN  Load(At(open, merge), slot)

CallOf(g, n) ==
    LET a == ExprAll(g, n.args)
        i == [Instr("call", a.v) EXCEPT !.name = n.name]
    IN  IF n.t.k = "void" THEN [g |-> Emit(a.g, i), v |-> None] ELSE Result(a.g, i)

PanicCall(g) ==
    Emit(Emit(g, [Instr("call", <<>>) EXCEPT !.name = PanicCallee]), Instr("unreachable", <<>>))

-----------------------------------------------------------------------------
(* Blocks and their deferred actions.                                        *)

\* Mutant: the first registered runs first.
ScopeDefersInOrder(g, scope) ==
    LET actions == g.defers[scope]
        Run(h, a) == IF Terminated(h) THEN h ELSE Stmt(h, a)
    IN  [FoldLeft(Run, [g EXCEPT !.defers[scope] = <<>>], actions) EXCEPT !.defers[scope] = actions]

ScopeDefers(g, scope) ==           \* the last registered first
    LET actions == g.defers[scope]
        Run(h, i) == IF Terminated(h) THEN h
                     ELSE Stmt([h EXCEPT !.defers[scope] = SubSeq(actions, 1, i - 1)], actions[i])
    IN  [FoldLeft(Run, g, Reverse(Indices(actions))) EXCEPT !.defers[scope] = actions]

DefersUntil(g, depth) ==           \* the scopes above depth, the innermost first
    FoldLeft(LAMBDA h, i : IF Terminated(h) THEN h ELSE ScopeDefers(h, i),
             g, Reverse([i \in 1..(Len(g.defers) - depth) |-> depth + i]))

Children(g, body) ==
    FoldLeft(LAMBDA h, n : IF Terminated(h) THEN h ELSE Stmt(h, n), g, body)

OpenScope(g) == [g EXCEPT !.defers = Append(@, <<>>)]
CloseScope(g) == [g EXCEPT !.defers = Front(@)]
OwnDefers(g) == IF Terminated(g) THEN g ELSE ScopeDefers(g, Len(g.defers))

BlockStmt(g, n) == CloseScope(OwnDefers(Children(OpenScope(g), n.body)))

BlockExpr(g, n) ==
    LET has == HasResult(n)
        c == Children(OpenScope(g), IF has THEN Front(n.body) ELSE n.body)
        r == Expr(c, Last(n.body))
    IN  IF Terminated(c) THEN [g |-> CloseScope(c), v |-> ZeroOp(n.t)]
        ELSE IF ~has
        THEN [g |-> CloseScope(Panic(c, "falling-through block expression has no result")), v |-> None]
        ELSE [g |-> CloseScope(OwnDefers(r.g)), v |-> r.v]

-----------------------------------------------------------------------------
(* Conditionals and matches.  n.expr says whether the node has a value: then *)
(* every branch that ends stores it in one slot.                             *)

Yield(g, n, body, slot, merge) ==
    IF n.expr
    THEN LET r == Expr(g, body)
             s == IF slot # 0 \/ n.k = "if" THEN Store(r.g, slot, r.v) ELSE r.g
         IN  IF Terminated(r.g) THEN r.g ELSE Jump(s, merge)
    ELSE JumpOpen(Stmt(g, body), merge)

Merged(g, n, slot, merge) ==       \* the value of the node, at its merge block
    LET m == At(g, merge)
        dead == Emit(m, Instr("unreachable", <<>>))
    IN  IF n.expr THEN IF slot # 0 THEN Load(m, slot) ELSE [g |-> dead, v |-> ZeroOp(n.t)]
        ELSE [g |-> IF n.k = "match" /\ ~FallsThrough(n) THEN dead ELSE m, v |-> None]

IfOf(g, n) ==
    LET result == n.expr /\ FallsThrough(n)
        s == NewBlocks(IF result THEN NewSlot(g, n.t) ELSE g, 1)
        slot == IF result THEN Len(s.slots) ELSE 0
        merge == Len(s.blocks)
        more(i) == i < Len(n.branches) \/ n.orelse.k # "none"
        Arm(h, i) ==
            LET then == Len(h.blocks) + 1
                next == IF more(i) THEN then + 1 ELSE merge
                c == Expr(NewBlocks(h, IF more(i) THEN 2 ELSE 1), n.branches[i].c)
            IN  At(Yield(At(Test(c.g, c.v, then, next), then), n, n.branches[i].b, slot, merge), next)
        arms == FoldLeft(Arm, s, Indices(n.branches))
    IN  Merged(IF n.orelse.k = "none" THEN arms ELSE Yield(arms, n, n.orelse, slot, merge),
               n, slot, merge)

RECURSIVE PatternTest(_, _, _)
PatternTest(g, p, slot) ==
    LET v == Load(g, slot)
        lo == EmitBinary(v.g, "ge", v.v, IntOp(p.from))
        hi == EmitBinary(lo.g, "lt", v.v, IntOp(p.to))
        Or(h, q) == LET c == PatternTest(h.g, q, slot) IN EmitBinary(c.g, "bitor", h.v, c.v)
    IN  CASE p.k = "wild" -> [g |-> g, v |-> BoolOp(TRUE)]
          [] p.k \in {"variant", "int"} -> EmitBinary(v.g, "eq", v.v, IntOp(p.n))
          [] p.k = "bool" -> EmitBinary(v.g, "eq", v.v, BoolOp(p.b))
          [] p.k = "range" -> EmitBinary(hi.g, "bitand", lo.v, hi.v)
          [] p.k = "alt" -> FoldLeft(Or, [g |-> g, v |-> BoolOp(FALSE)], p.of)

ArmTest(g, pats, slots) ==
    LET And(h, i) == LET c == PatternTest(h.g, pats[i], slots[i])
                     IN  EmitBinary(c.g, "bitand", h.v, c.v)
        always == [g |-> g, v |-> BoolOp(TRUE)]
    IN  IF WildRow(pats) THEN always ELSE FoldLeft(And, always, Indices(pats))

Subjects(g, n) ==                  \* each subject once, into a slot of its own
    FoldLeft(LAMBDA h, e : LET s == NewSlot(h.g, e.t)
                               v == Expr(s, e)
                           IN  [g |-> Store(v.g, Len(s.slots), v.v), v |-> Append(h.v, Len(s.slots))],
             [g |-> g, v |-> <<>>], n.subjects)

MatchOf(g, n) ==
    LET subjects == Subjects(g, n)
        slots == subjects.v
        bound == IF n.bind = "" THEN subjects.g
                 ELSE [subjects.g EXCEPT !.env = (n.bind :> slots[1]) @@ @]
        result == n.expr /\ FallsThrough(n)
        s == NewBlocks(IF result THEN NewSlot(bound, n.t) ELSE bound, 1)
        slot == IF result THEN Len(s.slots) ELSE 0
        merge == Len(s.blocks)
        Arm(h, i) ==
            LET arm == n.arms[i]
                setup == Len(h.blocks) + 1
                body == setup + 1
                next == setup + 2
                c == ArmTest(NewBlocks(h, 3), arm.pats, slots)
                at == At(Branch(c.g, c.v, setup, next), setup)
                guard == Expr(at, arm.guard)
                in == IF arm.guard.k = "none" THEN Jump(at, body)
                      ELSE Branch(guard.g, guard.v, body, next)
            IN  At(Yield(At(in, body), n, arm.body, slot, merge), next)
    IN  Merged(Emit(FoldLeft(Arm, s, Indices(n.arms)), Instr("unreachable", <<>>)), n, slot, merge)

Expr(g, n) ==
    CASE n.k = "int" -> [g |-> g, v |-> IntOp(n.n)]
      [] n.k = "bool" -> [g |-> g, v |-> BoolOp(n.b)]
      [] n.k = "var" -> Identifier(g, n.x)
      [] n.k = "bin" -> LET lr == ExprAll(g, <<n.l, n.r>>)
                        IN  EmitBinary(lr.g, n.op, lr.v[1], lr.v[2])
      [] n.k = "logic" -> ShortCircuit(g, n)
      [] n.k = "un" -> LET r == Expr(g, n.e) IN Result(r.g, Instr(n.op, <<r.v>>))
      [] n.k = "call" -> CallOf(g, n)
      [] n.k = "panic" -> [g |-> PanicCall(g), v |-> None]
      [] n.k = "field" -> LET p == FieldOf(g, n) IN LoadPtr(p.g, p.v)
      [] n.k = "struct" -> LET s == NewSlot(g, n.t)
                           IN  Load(StructInto(s, Len(s.slots), n), Len(s.slots))
      [] n.k = "ref" -> AddressOfExpr(g, n.e)
      [] n.k = "deref" -> LET p == Expr(g, n.e) IN LoadPtr(p.g, p.v)
      [] n.k = "if" -> IfOf(g, n)
      [] n.k = "match" -> MatchOf(g, n)
      [] n.k = "block" -> BlockExpr(g, n)

-----------------------------------------------------------------------------
(* Assignments, transfers of control and loops.  The target or the name of a *)
(* discarded result has the kind, or is, "none".                             *)

Into(g, slot, e) ==                \* a struct literal is built in place
    IF e.k = "struct" THEN StructInto(g, slot, e)
    ELSE LET v == Expr(g, e) IN Store(v.g, slot, v.v)

Declare(g, n) ==
    LET s == NewSlot(g, n.t)
    IN  IF n.x = "none" THEN Expr(g, n.e).g ELSE Into(Bind(s, n.x), Len(s.slots), n.e)

Extract(g, bundle, i) == Result(g, [Instr("extract", <<bundle>>) EXCEPT !.at = i])

DeclareAll(g, n) ==                \* one declaration per result of a call
    LET b == Expr(g, n.e)
        One(h, i) == LET v == Extract(h, b.v, i)
                         s == NewSlot(v.g, n.e.t.of[i])
                     IN  IF n.xs[i] = "none" THEN h ELSE Store(Bind(s, n.xs[i]), Len(s.slots), v.v)
    IN  FoldLeft(One, b.g, Indices(n.xs))

AssignAll(g, n) ==                 \* one target per result
    LET b == Expr(g, n.e)
        One(h, i) == LET v == Extract(h, b.v, i)
                         p == AddressOfExpr(v.g, n.targets[i])
                     IN  IF n.targets[i].k = "none" THEN h ELSE StorePtr(p.g, p.v, v.v)
    IN  FoldLeft(One, b.g, Indices(n.targets))

Assign(g, n) ==
    LET x == n.target
        v == Expr(g, n.e)
        p == IF x.k = "deref" THEN Expr(g, x.e) ELSE FieldOf(g, x)
        pv == Expr(p.g, n.e)
    IN  CASE x.k = "none" -> v.g
          [] x.k = "var" /\ x.x \in DOMAIN g.env -> Into(g, g.env[x.x], n.e)
          [] x.k = "var" /\ x.x \notin DOMAIN g.env ->
                Emit(v.g, [Instr("storeglobal", <<v.v>>) EXCEPT !.name = x.x])
          [] x.k \in {"deref", "field"} -> StorePtr(pv.g, p.v, pv.v)

Compound(g, n) ==
    LET p == AddressOfExpr(g, n.target)
        l == LoadPtr(p.g, p.v)
        r == Expr(l.g, n.e)
        v == EmitBinary(r.g, n.op, l.v, r.v)
    IN  StorePtr(v.g, p.v, v.v)

ReturnStmt(g, n) ==
    LET Insert(h, i) ==
            LET v == Expr(h.g, n.args[i])
            IN  Result(v.g, [Instr("insert", <<h.v, v.v>>) EXCEPT !.at = i])
        r == CASE n.args = <<>> -> [g |-> g, v |-> None]
               [] Len(n.args) = 1 -> Expr(g, n.args[1])
               [] OTHER -> FoldLeft(Insert, [g |-> g, v |-> ZeroOp(g.ret)], Indices(n.args))
        d == DefersUntil(r.g, 0)
    IN  IF Terminated(d) THEN d
        ELSE Emit(d, Instr("return", IF n.args = <<>> THEN <<>> ELSE <<r.v>>))

Transfer(g, n) ==
    LET l == Last(g.loops)
        d == DefersUntil(g, l.depth)
    IN  IF Terminated(d) THEN d ELSE Jump(d, IF n.k = "break" THEN l.brk ELSE l.cont)

LoopBody(g, n, brk, cont) ==
    LET in == [g EXCEPT !.loops = Append(@, [brk |-> brk, cont |-> cont, depth |-> Len(g.defers)])]
    IN  JumpOpen([Stmt(in, n.body) EXCEPT !.loops = g.loops], cont)

For(g, n) ==
    LET i == IF n.init.k = "none" THEN g ELSE Stmt(g, n.init)
        parts == <<n.cond.k # "none", TRUE, TRUE, n.post.k # "none">>   \* condition, body, end, post
        number(j) == Len(i.blocks) + Cardinality({l \in 1..j : parts[l]})
        body == number(2)
        end == number(3)
        cond == IF parts[1] THEN number(1) ELSE body
        post == IF parts[4] THEN number(4) ELSE cond
        s == At(JumpOpen(NewBlocks(i, number(4) - Len(i.blocks)), cond), cond)
        c == Expr(s, n.cond)
        test == IF parts[1] THEN At(Test(c.g, c.v, body, end), body) ELSE s
        b == LoopBody(test, n, end, post)
    IN  At(IF parts[4] THEN JumpOpen(Stmt(At(b, post), n.post), cond) ELSE b, end)

\* Mutant: forgets to step.
NoStep(g, slot, op) == g

StepSlot(g, slot, op) ==
    LET v == Load(g, slot)
        w == Result(v.g, Instr(op, <<v.v, IntOp(1)>>))
    IN  Store(w.g, slot, w.v)

(* A range counts on unsigned indices.  Backwards over a half-open range it  *)
(* steps down before the body; over a closed one it tests for the last       *)
(* element before it steps down.                                             *)
RangeFor(g, n) ==
    LET s == NewSlot(Bind(NewSlot(g, IntT), n.x), IntT)
        bound == Len(s.slots)
        it == bound - 1
        from == Expr(s, n.from)
        to == Expr(Store(from.g, IF n.rev THEN bound ELSE it, from.v), n.to)
        cond == Len(to.g.blocks) + 1
        body == cond + 1
        post == cond + 2
        end == cond + 3
        s2 == Jump(NewBlocks(Store(to.g, IF n.rev THEN it ELSE bound, to.v), 4), cond)
        i == Load(At(s2, cond), it)
        b == Load(i.g, bound)
        op == IF n.rev THEN IF n.incl THEN "ge" ELSE "gt" ELSE IF n.incl THEN "le" ELSE "lt"
        c == Result(b.g, Instr(op, <<i.v, b.v>>))
        in == At(Branch(c.g, c.v, body, end), body)
        looped == At(LoopBody(IF n.rev /\ ~n.incl THEN StepSlot(in, it, "sub") ELSE in,
                              n, end, post), post)
        cur == Load(looped, it)
        first == Load(cur.g, bound)
        same == Result(first.g, Instr("eq", <<cur.v, first.v>>))
        down == Len(same.g.blocks) + 1
        step == IF ~n.rev THEN StepSlot(looped, it, "add")
                ELSE IF ~n.incl THEN looped
                ELSE StepSlot(At(Branch(NewBlocks(same.g, 1), same.v, end, down), down), it, "sub")
    IN  At(Jump(step, cond), end)

Stmt(g, n) ==
    CASE n.k = "decl" -> Declare(g, n)
      [] n.k = "multi" -> DeclareAll(g, n)
      [] n.k = "assign" -> Assign(g, n)
      [] n.k = "assignall" -> AssignAll(g, n)
      [] n.k = "compound" -> Compound(g, n)
      [] n.k = "return" -> ReturnStmt(g, n)
      [] n.k \in {"break", "continue"} -> Transfer(g, n)
      [] n.k = "defer" -> [g EXCEPT !.defers[Len(g.defers)] = Append(@, n.action)]
      [] n.k = "block" -> BlockStmt(g, n)
      [] n.k = "if" -> IfOf(g, [n EXCEPT !.expr = FALSE]).g
      [] n.k = "for" -> For(g, n)
      [] n.k = "range" -> RangeFor(g, n)
      [] OTHER -> Expr(g, n).g

-----------------------------------------------------------------------------
(* Functions: [params, ret, exprBody, body], params a sequence of [x, t].    *)

Start(ret) ==
    [blocks |-> << <<>> >>, cur |-> 1, vals |-> 0, slots |-> <<>>, env |-> <<>>,
     defers |-> <<>>, loops |-> <<>>, ret |-> ret, bad |-> ""]

Params(g, params) ==               \* each parameter is stored from a value of its own
    FoldLeft(LAMBDA h, p : LET s == Bind(NewSlot(h, p.t), p.x)
                           IN  Store([s EXCEPT !.vals = @ + 1], Len(s.slots), ValueOp(s.vals + 1)),
             g, params)

Body(g, f) ==
    LET e == Expr(g, f.body)
        b == IF f.exprBody THEN e.g ELSE Stmt(g, f.body)
    IN  IF Terminated(b) THEN b
        ELSE IF f.ret.k = "void" THEN Emit(b, Instr("return", <<>>))
        ELSE IF f.exprBody THEN Emit(b, Instr("return", <<e.v>>))
        ELSE Panic(b, "non-void function may fall through without return")

Code(g, params) == [params |-> params, blocks |-> g.blocks, slots |-> g.slots, bad |-> g.bad]

Lower(f) == Code(Body(Params(Start(f.ret), f.params), f), Len(f.params))

(* The module initializer: once, the dependencies first, then the globals    *)
(* whose initial value is not constant, in their order.                      *)
Initializer(dependencies, dynamic) ==
    LET flag == [Instr("loadglobal", <<>>) EXCEPT !.name = "__module_initialized"]
        set == [Instr("storeglobal", <<BoolOp(TRUE)>>) EXCEPT !.name = "__module_initialized"]
        e == Result(NewBlocks(Start(VoidT), 2), flag)
        m == Emit(At(Branch(e.g, e.v, 3, 2), 2), set)
        d == FoldLeft(LAMBDA h, x : Emit(h, [Instr("call", <<>>) EXCEPT !.name = x]), m, dependencies)
        One(h, x) == LET v == Expr(h, x.e)
                     IN  Emit(v.g, [Instr("storeglobal", <<v.v>>) EXCEPT !.name = x.x])
    IN  Code(Emit(At(Jump(FoldLeft(One, d, dynamic), 3), 3), Instr("return", <<>>)), 0)
=============================================================================
