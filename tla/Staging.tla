------------------------------ MODULE Staging ------------------------------
(***************************************************************************)
(* Compile-time selection of one module, src/loader/staging.go: bindings   *)
(* that need no code are resolved first, in the order of a map; then the   *)
(* syntax is walked and every when whose conditions have values is         *)
(* replaced by its branch; what is left is evaluated through the IR of the *)
(* whole module, and the syntax is walked once more.                       *)
(*                                                                         *)
(* A value is [k, n, d]: a Boolean (n is 0 or 1), an integer, a constant d *)
(* of a configuration enum, or a bare variant d.  An expression is [k, v,  *)
(* x, args, id], where id tells the nodes of the syntax tree apart (a node *)
(* made by selection has none); an item of a body is [k, x, e, branches,   *)
(* body], where a branch is [c, body].  A "block" stands for every         *)
(* statement with a condition and a body; an "array" is a type with its    *)
(* length; the items of a "link" are its entries.                          *)
(***************************************************************************)
EXTENDS Integers, Sequences, SequencesExt, FiniteSets

CONSTANTS
    Programs,      \* the module bodies
    Targets        \* targetValue: the configuration names and their values

VARIABLES
    program,       \* the body as it was parsed
    phase,         \* where selectCompileTime is
    remaining,     \* primeBindings: the declarations that have no value yet
    sel,           \* the selector
    todo,          \* selectBody: the items to walk, each with whether its body has been
    out            \* the bodies being selected, the innermost last

vars == <<program, phase, remaining, sel, todo, out>>

Value(k, n, d) == [k |-> k, n |-> n, d |-> d]
BoolOf(b) == Value("bool", IF b THEN 1 ELSE 0, "")
IntOf(n) == Value("int", n, "")
Zero == IntOf(0)

Found(v) == [v |-> v, ok |-> TRUE, err |-> ""]
Unknown == [v |-> Zero, ok |-> FALSE, err |-> ""]
Wrong(why) == [v |-> Zero, ok |-> FALSE, err |-> why]

-----------------------------------------------------------------------------
(* Expressions.                                                              *)

StageEqual(l, r) ==
    IF {l.k, r.k} = {"enum", "variant"} THEN l.d = r.d ELSE l = r

Compare(op, l, r) ==
    CASE op = "lt" -> l < r [] op = "le" -> l <= r [] op = "gt" -> l > r [] op = "ge" -> l >= r

Quo(l, r) == LET q == (IF l < 0 THEN -l ELSE l) \div (IF r < 0 THEN -r ELSE r)   \* towards zero
             IN  IF (l < 0) # (r < 0) THEN -q ELSE q

Combine(op, l, r) ==
    CASE op \in {"and", "or"} ->
            IF {l.k, r.k} # {"bool"} THEN Wrong("requires booleans")
            ELSE Found(BoolOf(IF op = "and" THEN l.n * r.n = 1 ELSE l.n + r.n > 0))
      [] op = "eq" -> Found(BoolOf(StageEqual(l, r)))
      [] op = "ne" -> Found(BoolOf(~StageEqual(l, r)))
      [] {l.k, r.k} # {"int"} -> Wrong("requires integers")
      [] op \in {"div", "mod"} ->
            IF r.n = 0 THEN Wrong("division by zero")
            ELSE Found(IntOf(IF op = "div" THEN Quo(l.n, r.n) ELSE l.n - r.n * Quo(l.n, r.n)))
      [] op = "add" -> Found(IntOf(l.n + r.n))
      [] op = "sub" -> Found(IntOf(l.n - r.n))
      [] op = "mul" -> Found(IntOf(l.n * r.n))
      [] OTHER -> Found(BoolOf(Compare(op, l.n, r.n)))

Negated(op, v) ==
    CASE op = "not" /\ v.k = "bool" -> Found(BoolOf(v.n = 0))
      [] op = "neg" /\ v.k = "int" -> Found(IntOf(-v.n))
      [] OTHER -> Wrong("invalid unary operation")

(* Both operands are evaluated whatever the operator.                        *)
Both(l, r, op) ==
    IF l.err # "" \/ ~l.ok THEN l
    ELSE IF r.err # "" \/ ~r.ok THEN r
    ELSE Combine(op, l.v, r.v)

RECURSIVE Evaluate(_, _)
Evaluate(s, e) ==
    CASE e.id \in DOMAIN s.evaluated -> Found(s.evaluated[e.id])
      [] e.k = "lit" -> Found(e.v)
      [] e.k = "name" ->
            IF e.x \in DOMAIN Targets THEN Found(Targets[e.x])
            ELSE IF e.x \in DOMAIN s.bindings THEN Found(s.bindings[e.x]) ELSE Unknown
      [] e.k = "un" -> LET o == Evaluate(s, e.args[1])
                       IN  IF o.err # "" \/ ~o.ok THEN o ELSE Negated(e.x, o.v)
      [] e.k = "bin" -> Both(Evaluate(s, e.args[1]), Evaluate(s, e.args[2]), e.x)
      [] OTHER -> Unknown

-----------------------------------------------------------------------------
(* The selector: [bindings, evaluated, unresolved, needs, err]; evaluated is *)
(* by node, not by what the node says.                                       *)

Fail(s, why) == IF s.err = "" THEN [s EXCEPT !.err = why] ELSE s
Postpone(s, e) == [s EXCEPT !.needs = TRUE, !.unresolved = @ \cup {e}]
Bound(s, x, v) == [s EXCEPT !.bindings = (x :> v) @@ @]
Literal(v) == [k |-> "lit", v |-> v, x |-> "", args |-> <<>>, id |-> <<>>]

\* Mutant: a condition that has no value yet does not hold.
ChooseKnown(s, conditions) ==
    LET held == {j \in DOMAIN conditions : Evaluate(s, conditions[j]).v = BoolOf(TRUE)}
    IN  [at |-> IF held = {} THEN 0 ELSE CHOOSE j \in held : \A k \in held : j <= k, s |-> s]

(* The branch of a when: at is its number, 0 the else, -1 when a condition   *)
(* has no value yet.                                                         *)
Choose(s, conditions) ==
    FoldLeft(LAMBDA a, i :
                 LET c == Evaluate(a.s, conditions[i])
                 IN  IF a.at # 0 \/ a.s.err # "" THEN a
                     ELSE IF c.err # "" THEN [a EXCEPT !.s = Fail(@, c.err)]
                     ELSE IF ~c.ok THEN [at |-> -1, s |-> Postpone(a.s, conditions[i])]
                     ELSE IF c.v.k # "bool" THEN [a EXCEPT !.s = Fail(@, "condition must be boolean")]
                     ELSE IF c.v.n = 1 THEN [a EXCEPT !.at = i] ELSE a,
             [at |-> 0, s |-> s], [i \in DOMAIN conditions |-> i])

Conditions(i) == [j \in DOMAIN i.branches |-> i.branches[j].c]
BranchOf(i, at) == IF at = 0 THEN i.body ELSE i.branches[at].body

(* A when with a value: its arguments are a condition and a value for each   *)
(* branch, then the value of the else.                                       *)
ValueConditions(e) == [j \in 1..(Len(e.args) \div 2) |-> e.args[2 * j - 1]]
ValueBranch(e, at) == IF at = 0 THEN Last(e.args) ELSE e.args[2 * at]

Directive(s, i) ==
    LET c == Evaluate(s, i.e)
    IN  IF i.k = "error" THEN Fail(s, "compiler error")
        ELSE IF c.err # "" THEN Fail(s, c.err)
        ELSE IF ~c.ok THEN Postpone(s, i.e)
        ELSE IF c.v # BoolOf(TRUE) THEN Fail(s, "assertion failed") ELSE s

(* The operands of a "field" (the subject of a field access) are not walked. *)
RECURSIVE SelectExpression(_, _)
SelectExpression(s, e) ==
    LET choice == Choose(s, ValueConditions(e))
        Arg(a, x) == LET r == SelectExpression(a.s, x)
                     IN  [s |-> r.s, args |-> Append(a.args, r.e)]
        all == FoldLeft(Arg, [s |-> s, args |-> <<>>], e.args)
    IN  CASE s.err # "" \/ e.k = "field" -> [s |-> s, e |-> e]
          [] e.k = "whenv" -> IF choice.s.err # "" \/ choice.at = -1 THEN [s |-> choice.s, e |-> e]
                              ELSE SelectExpression(choice.s, ValueBranch(e, choice.at))
          [] OTHER -> [s |-> all.s, e |-> [e EXCEPT !.args = all.args]]

RECURSIVE Inline(_, _)
Inline(s, e) ==                    \* inlineStageExpression, on the length of an array type
    IF e.k = "name" /\ e.x \in DOMAIN s.bindings /\ s.bindings[e.x].k \in {"bool", "int"}
    THEN Literal(s.bindings[e.x])
    ELSE [e EXCEPT !.args = [j \in DOMAIN e.args |-> IF e.k \in {"un", "bin"} THEN Inline(s, e.args[j])
                                                     ELSE e.args[j]]]

-----------------------------------------------------------------------------
(* evaluateUnresolved: the module without its whens and directives, with the *)
(* functions that the unresolved expressions reach and a binding for each of *)
(* them, is analysed, lowered and its initializer run.  Its types are        *)
(* analysed too: a length that is not inlined by now is an error.            *)

Named(body, kinds) == SelectSeq(body, LAMBDA i : i.k \in kinds)

RECURSIVE Parts(_)
Parts(e) == {e} \cup UNION {Parts(e.args[j]) : j \in DOMAIN e.args}
CallsOf(es) == {p.x : p \in {q \in UNION {Parts(e) : e \in es} : q.k = "call"}}

RECURSIVE BodyParts(_)
BodyParts(body) == UNION {Parts(i.e) \cup BodyParts(i.body) : i \in ToSet(body)}

\* Mutant: a function that only another function calls is left out.
CalledFunctions(body, names) == {i \in ToSet(Named(body, {"fun"})) : i.x \in names}

RECURSIVE ReachableFunctions(_, _)
ReachableFunctions(body, names) ==
    LET funs == {i \in ToSet(Named(body, {"fun"})) : i.x \in names}
        next == names \cup CallsOf(UNION {Parts(i.e) \cup BodyParts(i.body) : i \in funs})
    IN  IF next = names THEN funs ELSE ReachableFunctions(body, next)

(* Ordinary semantics: names and functions of the staged module.             *)
Mentioned(es) == {p.x : p \in {q \in UNION {Parts(e) : e \in es} : q.k = "name"}}

RECURSIVE RunExpression(_, _, _)
RunExpression(funs, env, e) ==
    LET Fun(f) == CHOOSE i \in funs : i.x = f
    IN  CASE e.k = "lit" -> Found(e.v)
          [] e.k = "name" -> Found(env[e.x])
          [] e.k = "un" -> LET o == RunExpression(funs, env, e.args[1])
                           IN  IF o.err # "" THEN o ELSE Negated(e.x, o.v)
          [] e.k = "bin" ->
                LET l == RunExpression(funs, env, e.args[1])
                IN  IF e.x \in {"and", "or"} /\ l.err = "" /\ l.v = BoolOf(e.x = "or") THEN l
                    ELSE Both(l, RunExpression(funs, env, e.args[2]), e.x)
          [] e.k = "call" -> IF \E i \in funs : i.x = e.x THEN RunExpression(funs, env, Fun(e.x).e)
                             ELSE Wrong("unavailable")
          [] e.k = "field" -> RunExpression(funs, env, e.args[1])

\* Mutant: the initializer skips constants, and nothing else sets them.
InitialiseDynamic(funs, globals) ==
    LET start == [x \in {g.x : g \in ToSet(globals)} |-> Zero]
        Assign(a, g) == IF a.err # "" \/ g.e.k = "lit" THEN a
                        ELSE LET r == RunExpression(funs, a.env, g.e)
                             IN  [env |-> [a.env EXCEPT ![g.x] = r.v], err |-> r.err]
    IN  FoldLeft(Assign, [env |-> start, err |-> ""], globals)

(* The initializer assigns the values that are not constant in their order:  *)
(* until then a name is zero.                                                *)
Initialise(funs, globals) ==
    LET start == [x \in {g.x : g \in ToSet(globals)} |->
                     LET g == CHOOSE h \in ToSet(globals) : h.x = x
                     IN  IF g.e.k = "lit" THEN g.e.v ELSE Zero]
        Assign(a, g) == LET r == RunExpression(funs, a.env, g.e)
                        IN  IF a.err # "" THEN a
                            ELSE IF r.err # "" THEN [a EXCEPT !.err = r.err]
                            ELSE [a EXCEPT !.env = [@ EXCEPT ![g.x] = r.v]]
    IN  FoldLeft(Assign, [env |-> start, err |-> ""], globals)

RECURSIVE StaticLength(_)
StaticLength(e) ==                 \* staticIntegerValue: a name in a type has no symbol
    CASE e.k = "lit" -> Found(e.v)
      [] e.k = "un" /\ e.x = "neg" -> LET o == StaticLength(e.args[1])
                                      IN  IF o.ok THEN Negated(e.x, o.v) ELSE o
      [] e.k = "bin" /\ e.x \in {"add", "sub", "mul", "div", "mod"} ->
            Both(StaticLength(e.args[1]), StaticLength(e.args[2]), e.x)
      [] OTHER -> Unknown
HasLength(e) == LET n == StaticLength(e) IN n.ok /\ n.v.k = "int" /\ n.v.n >= 0

RECURSIVE Lengths(_)
Lengths(body) == {i.e : i \in ToSet(Named(body, {"array"}))}
                 \cup UNION {Lengths(i.body) : i \in ToSet(Named(body, {"block"}))}

EvaluateUnresolved(s, body) ==
    LET globals == Named(body, {"bind", "var"})
        funs == ReachableFunctions(body, CallsOf(s.unresolved))
        used == s.unresolved \cup {f.e : f \in funs} \cup {g.e : g \in ToSet(globals)}
        names == {g.x : g \in ToSet(globals)}
        run == Initialise(funs, globals)
        Result(e) == RunExpression(funs, run.env, e)
        bound == {g \in ToSet(globals) : g.k = "bind"}
    IN  IF ~(Mentioned(used) \subseteq names) THEN Fail(s, "undefined")
        ELSE IF \/ \E e \in UNION {Parts(u) : u \in used} : e.k = "whenv"
                \/ \E f \in funs : Named(f.body, {"when", "assert"}) # <<>>
             THEN Fail(s, "unsupported node type")
        ELSE IF \E e \in Lengths(body) \cup UNION {Lengths(f.body) : f \in funs} : ~HasLength(e)
             THEN Fail(s, "array length must be a non-negative compile-time integer")
        ELSE IF run.err # "" THEN Fail(s, run.err)
        ELSE IF \E e \in s.unresolved : Result(e).err # "" THEN Fail(s, "not evaluated")
        ELSE [s EXCEPT !.evaluated = [n \in {g.e.id : g \in bound} \ {<<>>} |-> run.env[(CHOOSE g \in bound : g.e.id = n).x]] @@
                                     [n \in {e.id : e \in s.unresolved} |->
                                         Result(CHOOSE e \in s.unresolved : e.id = n).v] @@ @,
                       !.bindings = [x \in {g.x : g \in bound} |-> run.env[x]] @@ @,
                       !.needs = FALSE, !.unresolved = {}]

-----------------------------------------------------------------------------
(* selectCompileTime.                                                        *)

Fresh == [bindings |-> <<>>, evaluated |-> <<>>, unresolved |-> {}, needs |-> FALSE, err |-> ""]
Unwalked(items) == [j \in DOMAIN items |-> [i |-> items[j], walked |-> FALSE]]

Init ==
    /\ program \in Programs
    /\ phase = "prime"
    /\ remaining = {i \in ToSet(program) : i.k = "bind"}
    /\ sel = Fresh
    /\ todo = Unwalked(program)
    /\ out = <<<<>>>>

(* The bindings of the module in any order, each once its value is known.    *)
PrimeBinding(d) ==
    /\ phase = "prime"
    /\ Evaluate(sel, d.e).ok
    /\ sel' = Bound(sel, d.x, Evaluate(sel, d.e).v)
    /\ remaining' = remaining \ {d}
    /\ UNCHANGED <<program, phase, todo, out>>

Primed ==
    /\ phase = "prime"
    /\ \A d \in remaining : ~Evaluate(sel, d.e).ok
    /\ phase' = "first"
    /\ UNCHANGED <<program, remaining, sel, todo, out>>

Walking == phase \in {"first", "again"} /\ todo # <<>> /\ sel.err = ""
Item == Head(todo).i
At(kinds) == Walking /\ ~Head(todo).walked /\ Item.k \in kinds
Adding(items) == [out EXCEPT ![Len(out)] = @ \o items]
Unmoved == UNCHANGED <<program, phase, remaining>>

(* An attribute whose condition has no value yet stays as it was parsed.     *)
Enclosing == SelectSeq(todo, LAMBDA t : t.walked)
InLink == Enclosing # <<>> /\ Head(Enclosing).i.k = "link"
After == CHOOSE n \in DOMAIN todo : todo[n].walked /\ \A m \in 1..(n - 1) : ~todo[m].walked
Leaves ==
    IF InLink
    THEN /\ todo' = SubSeq(todo, After + 1, Len(todo))
         /\ out' = LET outer == Front(out) IN [outer EXCEPT ![Len(outer)] = Append(@, todo[After].i)]
    ELSE /\ todo' = Tail(todo)
         /\ out' = Adding(<<Item>>)

SelectWhen ==
    /\ At({"when"})
    /\ \E choice \in {Choose(sel, Conditions(Item))} :
          /\ sel' = choice.s
          /\ IF choice.at = -1 THEN Leaves
             ELSE /\ todo' = Unwalked(BranchOf(Item, choice.at)) \o Tail(todo)
                  /\ UNCHANGED out
    /\ Unmoved

EvaluateDirective ==
    /\ At({"assert", "error"})
    /\ sel' = Directive(sel, Item)
    /\ IF Item.e \in sel'.unresolved THEN Leaves
       ELSE todo' = Tail(todo) /\ UNCHANGED out
    /\ Unmoved

(* A value is selected in place, so what is evaluated later is what is left  *)
(* of it; only where it is a when itself is the when what is evaluated.      *)
SelectBinding ==
    /\ At({"bind"})
    /\ \E c \in {Evaluate(sel, Item.e)} :
          \E r \in {SelectExpression(IF c.err # "" THEN Fail(sel, c.err)
                                     ELSE IF c.ok THEN Bound(sel, Item.x, c.v) ELSE sel,
                                     IF c.ok THEN Literal(c.v) ELSE Item.e)} :
             /\ sel' = IF c.ok \/ c.err # "" THEN r.s
                       ELSE Postpone(r.s, IF Item.e.k = "whenv" THEN Item.e ELSE r.e)
             /\ out' = Adding(<<[Item EXCEPT !.e = r.e]>>)
    /\ todo' = Tail(todo)
    /\ Unmoved

(* A body is walked before the value that its function returns, and after    *)
(* the condition of a block.                                                 *)
Enter ==
    /\ At({"fun", "block", "link"})
    /\ \E r \in {SelectExpression(sel, IF Item.k = "block" THEN Item.e ELSE Literal(Zero))} :
          /\ sel' = r.s
          /\ todo' = Unwalked(Item.body)
                     \o <<[i |-> IF Item.k = "block" THEN [Item EXCEPT !.e = r.e] ELSE Item, walked |-> TRUE]>>
                     \o Tail(todo)
    /\ out' = Append(out, <<>>)
    /\ Unmoved

Leave ==
    /\ Walking /\ Head(todo).walked
    /\ \E r \in {SelectExpression(sel, IF Item.k = "fun" THEN Item.e ELSE Literal(Zero))} :
          /\ sel' = r.s
          /\ out' = LET outer == Front(out)
                        new == [Item EXCEPT !.e = IF Item.k = "fun" THEN r.e ELSE @, !.body = Last(out)]
                    IN  [outer EXCEPT ![Len(outer)] = Append(@, new)]
    /\ todo' = Tail(todo)
    /\ Unmoved

SelectOther ==
    /\ At({"var", "array", "lib"})
    /\ \E r \in {SelectExpression(sel, Item.e)} :
          /\ sel' = r.s
          /\ out' = Adding(<<[Item EXCEPT !.e = IF Item.k = "array" THEN Inline(r.s, r.e) ELSE r.e]>>)
    /\ todo' = Tail(todo)
    /\ Unmoved

(* The end of a walk, or its first error.                                    *)
Walked ==
    /\ phase \in {"first", "again"}
    /\ todo = <<>> \/ sel.err # ""
    /\ phase' = IF sel.err # "" \/ (phase = "again" /\ sel.needs) THEN "failed"
                ELSE IF sel.needs THEN "evaluate" ELSE "done"
    /\ sel' = IF phase = "again" /\ sel.needs THEN Fail(sel, "left an unresolved when condition") ELSE sel
    /\ UNCHANGED <<program, remaining, todo, out>>

EvaluateCode ==
    /\ phase = "evaluate"
    /\ \E s \in {EvaluateUnresolved(sel, out[1])} :
          /\ sel' = s
          /\ phase' = IF s.err # "" THEN "failed" ELSE "again"
    /\ todo' = Unwalked(out[1])
    /\ out' = <<<<>>>>
    /\ UNCHANGED <<program, remaining>>

Select ==
    \/ \E d \in remaining : PrimeBinding(d)
    \/ Primed \/ SelectWhen \/ EvaluateDirective \/ SelectBinding
    \/ Enter \/ Leave \/ SelectOther \/ Walked \/ EvaluateCode

Next == Select \/ (phase \in {"done", "failed"} /\ UNCHANGED vars)

Spec == Init /\ [][Next]_vars
=============================================================================
