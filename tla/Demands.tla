------------------------------- MODULE Demands -------------------------------
(***************************************************************************)
(* Wrappers for literal arguments and for fixed numbers of variadic        *)
(* arguments. The validator records what direct calls demand of the        *)
(* functions they call, two fixed points carry the demands along functions *)
(* that pass their parameters on (loader/pipeline.go), and the generator   *)
(* emits the wrappers and decides at each call which one is meant          *)
(* (codegen/irgen/irgen.go). The last steps run the generated code beside  *)
(* the source.                                                             *)
(*                                                                         *)
(* Functions are not generic, and are called by name.                      *)
(***************************************************************************)
EXTENDS Naturals, Sequences, FiniteSets

CONSTANTS
    Function,   \* the functions
    Module,     \* the modules
    Constant,   \* the literals
    Priority,   \* Priority[c]: strings before booleans before integers before floats
    Other,      \* a value no literal has
    Program     \* the programs

Value == Constant \cup {Other}
Index == Nat \ {0}

\* An argument of a call: a literal, a parameter of the caller, or anything else.
Arg == [kind : {"constant"}, constant : Constant]
       \cup [kind : {"parameter"}, index : Index]
       \cup [kind : {"other"}]
\* The variadic arguments: written one by one, or a slice that is expanded, the
\* caller's own variadic parameter or another.
Tails == [kind : {"elements"}, elements : Seq(Arg)] \cup [kind : {"own", "slice"}]
CallNode == [caller : Function, callee : Function, args : Seq(Arg), tail : Tails]

\* fixed: the parameters before the variadic one; defaults: what those that may be
\* left out stand for; mutable: the parameters declared mut, the variadic one being
\* number fixed + 1; calls: in the order they are validated.
Programs ==
    [main : Function, module : [Function -> Module], fixed : [Function -> Nat],
     variadic : [Function -> BOOLEAN], mutable : SUBSET (Function \X Index),
     defaults : [Function -> UNION {[D -> Value] : D \in SUBSET Index}], calls : Seq(CallNode)]

\* What the validator accepts.
WellFormed(w, call) ==
    /\ \A arg \in {call.args[i] : i \in DOMAIN call.args} :
          arg.kind = "parameter" => arg.index <= w.fixed[call.caller]
    /\ Len(call.args) <= w.fixed[call.callee]
    /\ (Len(call.args) + 1)..w.fixed[call.callee] \subseteq DOMAIN w.defaults[call.callee]
    /\ call.tail.kind = "own" => w.variadic[call.caller]
    /\ ~w.variadic[call.callee] => call.tail = [kind |-> "elements", elements |-> <<>>]

ASSUME ProgramAssumption ==
    /\ Other \notin Constant
    /\ Priority \in [Constant -> 0..3]
    /\ \A w \in Program :
        /\ w.main \in Function /\ w.fixed[w.main] = 0 /\ ~w.variadic[w.main]
        /\ w.module \in [Function -> Module] /\ w.fixed \in [Function -> Nat]
        /\ w.variadic \in [Function -> BOOLEAN]
        /\ w.mutable \subseteq Function \X Index
        /\ w.calls \in Seq(CallNode)
        /\ \A k \in DOMAIN w.calls : WellFormed(w, w.calls[k])
        /\ \A f \in Function :
            /\ DOMAIN w.defaults[f] \subseteq 1..w.fixed[f]
            /\ w.variadic[f] => DOMAIN w.defaults[f] = {}

-----------------------------------------------------------------------------
VARIABLES
    program,    \* given
    pc,         \* "validate", "constants", "arities", "generate", "run"
    at,         \* the next call to validate
    constants,  \* <<f, i, c>>: parameter i of f was given the literal c
    forwards,   \* <<f, p, g, i>>: f passes its parameter p on as parameter i of g
    arities,    \* <<f, n>>: f was given n variadic arguments
    spreads,    \* <<f, g>>: f passes its variadic parameter on to g
    todo,       \* the entries left in this round of a fixed point
    changed,    \* this round found something new
    code,       \* the calls of each function that was generated
    frame       \* the function that runs, as compiled and as written

vars == <<program, pc, at, constants, forwards, arities, spreads, todo, changed, code, frame>>

Calls == program.calls
Fixed(f) == program.fixed[f]
IsVariadic(f) == program.variadic[f]
IsMutable(f, i) == <<f, i>> \in program.mutable

Idle == [version |-> "none"]

Init ==
    /\ program \in Program
    /\ pc = "validate"
    /\ at = 1
    /\ constants = {} /\ forwards = {}
    /\ arities = {} /\ spreads = {}
    /\ todo = {} /\ changed = FALSE
    /\ code = <<>> /\ frame = Idle
-----------------------------------------------------------------------------
(***************************************************************************)
(* Validation: what each call demands and what it passes on.               *)
(***************************************************************************)
\* Literals given to functions of other modules.
LiteralsOf(call) ==
    {<<call.callee, i, call.args[i].constant>> :
        i \in {j \in DOMAIN call.args : /\ call.args[j].kind = "constant"
                                        /\ program.module[call.caller] # program.module[call.callee]}}
\* Parameters passed on unchanged: a parameter that may be assigned is not.
ForwardsOf(call) ==
    {<<call.caller, call.args[i].index, call.callee, i>> :
        i \in {j \in DOMAIN call.args : /\ call.args[j].kind = "parameter"
                                        /\ ~IsMutable(call.caller, call.args[j].index)}}
AritiesOf(call) ==
    IF IsVariadic(call.callee) /\ call.tail.kind = "elements"
    THEN {<<call.callee, Len(call.tail.elements)>>} ELSE {}
SpreadsOf(call) ==
    IF IsVariadic(call.callee) /\ call.tail.kind = "own"
    THEN {<<call.caller, call.callee>>} ELSE {}

ValidateCall ==
    /\ pc = "validate"
    /\ at <= Len(Calls)
    /\ constants' = constants \cup LiteralsOf(Calls[at])
    /\ forwards' = forwards \cup ForwardsOf(Calls[at])
    /\ arities' = arities \cup AritiesOf(Calls[at])
    /\ spreads' = spreads \cup SpreadsOf(Calls[at])
    /\ at' = at + 1
    /\ UNCHANGED <<program, pc, todo, changed, code, frame>>

Validated ==
    /\ pc = "validate"
    /\ at = Len(Calls) + 1
    /\ pc' = "constants"
    /\ todo' = forwards
    /\ UNCHANGED <<program, at, constants, forwards, arities, spreads, changed, code, frame>>
-----------------------------------------------------------------------------
(***************************************************************************)
(* The fixed points. A round goes through all entries, in any order; there *)
(* is another round when it found something new.                           *)
(***************************************************************************)
ForwardConstants ==
    /\ pc = "constants"
    /\ \E e \in todo :
        LET pushed == {<<e[3], e[4], d[3]>> : d \in {x \in constants : x[1] = e[1] /\ x[2] = e[2]}} IN
        /\ constants' = constants \cup pushed
        /\ changed' = (changed \/ ~(pushed \subseteq constants))
        /\ todo' = todo \ {e}
    /\ UNCHANGED <<program, pc, at, forwards, arities, spreads, code, frame>>

\* Mutant: one round is thought to be enough.
ConstantsRoundOnce ==
    /\ pc = "constants"
    /\ todo = {}
    /\ todo' = spreads /\ pc' = "arities"
    /\ changed' = FALSE
    /\ UNCHANGED <<program, at, constants, forwards, arities, spreads, code, frame>>
ConstantsRound ==
    /\ pc = "constants"
    /\ todo = {}
    /\ \/ changed /\ todo' = forwards /\ pc' = pc
       \/ ~changed /\ todo' = spreads /\ pc' = "arities"
    /\ changed' = FALSE
    /\ UNCHANGED <<program, at, constants, forwards, arities, spreads, code, frame>>

ForwardArities ==
    /\ pc = "arities"
    /\ \E e \in todo :
        LET pushed == {<<e[2], d[2]>> : d \in {x \in arities : x[1] = e[1]}} IN
        /\ arities' = arities \cup pushed
        /\ changed' = (changed \/ ~(pushed \subseteq arities))
        /\ todo' = todo \ {e}
    /\ UNCHANGED <<program, pc, at, constants, forwards, spreads, code, frame>>

\* Mutant: one round is thought to be enough.
AritiesRoundOnce ==
    /\ pc = "arities"
    /\ todo = {}
    /\ todo' = {} /\ pc' = "generate"
    /\ changed' = FALSE
    /\ UNCHANGED <<program, at, constants, forwards, arities, spreads, code, frame>>
\* Mutant: the next round does not forget that the last one found something.
AritiesRoundStuck ==
    /\ pc = "arities"
    /\ todo = {}
    /\ \/ changed /\ todo' = spreads /\ pc' = pc
       \/ ~changed /\ todo' = {} /\ pc' = "generate"
    /\ changed' = changed
    /\ UNCHANGED <<program, at, constants, forwards, arities, spreads, code, frame>>
AritiesRound ==
    /\ pc = "arities"
    /\ todo = {}
    /\ \/ changed /\ todo' = spreads /\ pc' = pc
       \/ ~changed /\ todo' = {} /\ pc' = "generate"
    /\ changed' = FALSE
    /\ UNCHANGED <<program, at, constants, forwards, arities, spreads, code, frame>>
-----------------------------------------------------------------------------
(***************************************************************************)
(* Generation.                                                             *)
(***************************************************************************)
Given(f, i) == {c \in Constant : <<f, i, c>> \in constants}
Singles(f) == {i \in 1..Fixed(f) : Cardinality(Given(f, i)) = 1}
Single(f, i) == CHOOSE c \in Constant : Given(f, i) = {c}
Precedes(f, i, j) ==
    \/ Priority[Single(f, i)] < Priority[Single(f, j)]
    \/ Priority[Single(f, i)] = Priority[Single(f, j)] /\ i < j

\* selectedSpecializationConstants: at most two parameters that were given one
\* literal, strings first.
Selected(f) ==
    [i \in {j \in Singles(f) : Cardinality({k \in Singles(f) : Precedes(f, k, j)}) < 2} |->
        Single(f, i)]

\* A version of a function: as written, with the first `arity` parameters and
\* defaults for the rest, with `arity` variadic arguments, or for literals.
Version(f, form, arity, consts) == [fn |-> f, form |-> form, arity |-> arity, consts |-> consts]
Base(f) == Version(f, "base", 0, <<>>)

\* Mutant: the name of a variadic wrapper does not say for which literals it is.
VersionsUnnamed(f) ==
    {Base(f)}
    \cup {Version(f, "default", n, <<>>) : n \in {k - 1 : k \in DOMAIN program.defaults[f]}}
    \cup {Version(f, "variadic", x[2], <<>>) : x \in {y \in arities : y[1] = f}}
    \cup (IF ~IsVariadic(f) /\ Selected(f) # <<>>
          THEN {Version(f, "constant", 0, Selected(f))} ELSE {})
\* GenerateFunction: a function and its wrappers.
Versions(f) ==
    {Base(f)}
    \cup {Version(f, "default", n, <<>>) : n \in {k - 1 : k \in DOMAIN program.defaults[f]}}
    \cup {Version(f, "variadic", x[2], Selected(f)) : x \in {y \in arities : y[1] = f}}
    \cup (IF ~IsVariadic(f) /\ Selected(f) # <<>>
          THEN {Version(f, "constant", 0, Selected(f))} ELSE {})

\* What the generator knows an argument to be, in the body of version v.
Knows(v, arg, c) ==
    \/ arg.kind = "constant" /\ arg.constant = c
    \/ arg.kind = "parameter" /\ arg.index \in DOMAIN v.consts /\ v.consts[arg.index] = c

\* Mutant: one of the literals is enough.
MatchesAny(v, call) ==
    LET consts == Selected(call.callee) IN
    consts = <<>> \/ \E i \in DOMAIN consts : i \in DOMAIN call.args /\ Knows(v, call.args[i], consts[i])
\* callMatchesSpecialization.
Matches(v, call) ==
    LET consts == Selected(call.callee) IN
    \A i \in DOMAIN consts : i \in DOMAIN call.args /\ Knows(v, call.args[i], consts[i])

IsShort(call) == ~IsVariadic(call.callee) /\ Len(call.args) # Fixed(call.callee)
TakesConstants(v, call) == Selected(call.callee) # <<>> /\ Matches(v, call) /\ ~IsShort(call)
TakesArity(v, call, n) ==
    /\ IsVariadic(call.callee) /\ <<call.callee, n>> \in arities
    /\ Selected(call.callee) = <<>> \/ TakesConstants(v, call)
IsDirect(v, call) ==
    /\ call.tail.kind = "elements"
    /\ TakesArity(v, call, Len(call.tail.elements))
\* The variadic parameter of a wrapper is passed on element by element.
IsFlattened(v, call) ==
    call.tail.kind = "own" /\ v.form = "variadic" /\ TakesArity(v, call, v.arity)

Target(v, call) ==
    LET f == call.callee IN
    CASE IsDirect(v, call) -> Version(f, "variadic", Len(call.tail.elements), Selected(f))
      [] IsFlattened(v, call) -> Version(f, "variadic", v.arity, Selected(f))
      [] IsShort(call) -> Version(f, "default", Len(call.args), <<>>)
      [] OTHER -> IF TakesConstants(v, call) THEN Version(f, "constant", 0, Selected(f)) ELSE Base(f)

\* generateFunctionCallExpr: the arguments keep the number of their parameter.
Emitted(v, call) ==
    LET wrapped == IsDirect(v, call) \/ IsFlattened(v, call)
        left == IF wrapped \/ (TakesConstants(v, call) /\ ~IsVariadic(call.callee))
                THEN DOMAIN Selected(call.callee) ELSE {}
    IN  [target |-> Target(v, call),
         args |-> [i \in DOMAIN call.args \ left |-> call.args[i]],
         tail |-> CASE ~IsVariadic(call.callee) -> "none"
                    [] IsFlattened(v, call) -> "incoming"
                    [] IsDirect(v, call) -> "elements"
                    [] OTHER -> "slice",
         call |-> call]

\* A default wrapper calls the function with all its parameters.
EmittedDefault(v) ==
    [target |-> Base(v.fn),
     args |-> [i \in 1..Fixed(v.fn) |-> [kind |-> "parameter", index |-> i]],
     tail |-> "none",
     call |-> [caller |-> v.fn, callee |-> v.fn, tail |-> [kind |-> "elements", elements |-> <<>>],
               args |-> [i \in 1..Fixed(v.fn) |-> [kind |-> "parameter", index |-> i]]]]

Body(v) ==
    IF v.form = "default" THEN {EmittedDefault(v)}
    ELSE {Emitted(v, Calls[k]) : k \in {j \in 1..Len(Calls) : Calls[j].caller = v.fn}}

Enter(v, sees, means) ==
    [version |-> v, sees |-> sees, means |-> means, incoming |-> sees.tail]

Generate ==
    /\ pc = "generate"
    /\ code' = [v \in UNION {Versions(f) : f \in Function} |-> Body(v)]
    /\ frame' = LET none == [fixed |-> <<>>, tail |-> <<>>] IN Enter(Base(program.main), none, none)
    /\ pc' = "run"
    /\ UNCHANGED <<program, at, constants, forwards, arities, spreads, todo, changed>>
-----------------------------------------------------------------------------
(***************************************************************************)
(* The program runs: `sees` is what the parameters hold in the generated   *)
(* code, `means` what they hold in the source, `incoming` the elements a   *)
(* wrapper was called with.                                                *)
(***************************************************************************)
ValueOf(arg, has) ==
    CASE arg.kind = "constant" -> arg.constant
      [] arg.kind = "parameter" -> has.fixed[arg.index]
      [] OTHER -> Other
TailOf(tail, has) ==
    CASE tail.kind = "elements" -> [k \in DOMAIN tail.elements |-> ValueOf(tail.elements[k], has)]
      [] tail.kind = "own" -> has.tail
      [] OTHER -> <<Other>>
DefaultOf(f, i) == program.defaults[f][i]

\* What version t takes.
Takes(t) == (IF t.form = "default" THEN 1..t.arity ELSE 1..Fixed(t.fn)) \ DOMAIN t.consts
AgreesWith(t, e) ==
    /\ DOMAIN e.args = Takes(t)
    /\ t.form = "variadic" <=> e.tail \in {"incoming", "elements"}
    /\ IsVariadic(t.fn) <=> e.tail # "none"

Invoke ==
    /\ pc = "run"
    /\ \E e \in code[frame.version] :
        LET t == e.target
            f == t.fn
            fixed == [i \in 1..Fixed(f) |->
                        IF i \in DOMAIN t.consts THEN t.consts[i]
                        ELSE IF i \in DOMAIN e.args THEN ValueOf(e.args[i], frame.sees)
                        ELSE DefaultOf(f, i)]
            tail == IF e.tail = "incoming" THEN frame.incoming ELSE TailOf(e.call.tail, frame.sees)
            written == [i \in 1..Fixed(f) |->
                        IF i \in DOMAIN e.call.args THEN ValueOf(e.call.args[i], frame.means)
                        ELSE DefaultOf(f, i)]
        IN  /\ t \in DOMAIN code /\ AgreesWith(t, e)
            /\ frame' = Enter(t, [fixed |-> fixed, tail |-> tail],
                              [fixed |-> written, tail |-> TailOf(e.call.tail, frame.means)])
    /\ UNCHANGED <<program, pc, at, constants, forwards, arities, spreads, todo, changed, code>>

\* Parameter i of f is assigned; the variadic one is the last.
Assigned(f, i, has) ==
    IF i <= Fixed(f) THEN [fixed |-> [has.fixed EXCEPT ![i] = Other], tail |-> has.tail]
    ELSE [fixed |-> has.fixed, tail |-> <<>>]

\* A parameter that is declared mut is assigned.
Assign ==
    LET f == frame.version.fn IN
    /\ pc = "run"
    /\ frame.version.form # "default"
    /\ \E i \in 1..(Fixed(f) + 1) :
        /\ IsMutable(f, i)
        /\ frame' = [frame EXCEPT !.sees = Assigned(f, i, frame.sees), !.means = Assigned(f, i, frame.means)]
    /\ UNCHANGED <<program, pc, at, constants, forwards, arities, spreads, todo, changed, code>>

Next ==
    \/ ValidateCall \/ Validated
    \/ ForwardConstants \/ ConstantsRound
    \/ ForwardArities \/ AritiesRound
    \/ Generate
    \/ Invoke \/ Assign

Spec == Init /\ [][Next]_vars
FairSpec == Spec /\ WF_vars(Next)
-----------------------------------------------------------------------------
ConstantDemand == Function \X Index \X Constant
ArityDemand == Function \X Nat

\* Types.
TypeOK ==
    /\ pc \in {"validate", "constants", "arities", "generate", "run"}
    /\ at \in 1..(Len(Calls) + 1)
    /\ constants \subseteq ConstantDemand /\ arities \subseteq ArityDemand
    /\ forwards \subseteq Function \X Index \X Function \X Index
    /\ spreads \subseteq Function \X Function
    /\ todo \subseteq forwards \cup spreads /\ changed \in BOOLEAN

\* What the calls of the program demand and pass on.
Literals == UNION {LiteralsOf(Calls[k]) : k \in 1..Len(Calls)}
Forwards == UNION {ForwardsOf(Calls[k]) : k \in 1..Len(Calls)}
Arities == UNION {AritiesOf(Calls[k]) : k \in 1..Len(Calls)}
Spreads == UNION {SpreadsOf(Calls[k]) : k \in 1..Len(Calls)}
ClosedConstants(S) ==
    \A e \in Forwards : \A d \in S : (d[1] = e[1] /\ d[2] = e[2]) => <<e[3], e[4], d[3]>> \in S
ClosedArities(S) == \A e \in Spreads : \A d \in S : d[1] = e[1] => <<e[2], d[2]>> \in S

\* "This fixed-point pass makes wrapper selection independent of module generation
\* order" (pipeline.go:254-257): whatever the order, what is demanded is the least
\* set that holds what the calls demand and is closed under passing on.
LeastConstants ==
    pc \notin {"validate", "constants"} =>
        /\ Literals \subseteq constants /\ ClosedConstants(constants)
        /\ \A S \in SUBSET constants :
              (Literals \subseteq S /\ ClosedConstants(S)) => S = constants
LeastArities ==
    pc \in {"generate", "run"} =>
        /\ Arities \subseteq arities /\ ClosedArities(arities)
        /\ \A S \in SUBSET arities :
              (Arities \subseteq S /\ ClosedArities(S)) => S = arities

\* Every call, in whichever version of its function, is to a function that is
\* generated, with the arguments that one takes: caller and callee may lie in
\* different modules and choose the wrapper each for itself
\* (irgen.go:586, 679, 3226-3257).
CallsDefined ==
    pc = "run" =>
        \A v \in DOMAIN code : \A e \in code[v] : e.target \in DOMAIN code /\ AgreesWith(e.target, e)

\* A function sees the arguments the source gives it, whichever wrapper it was
\* called through (irgen.go:653-665, 717-724, 3249-3254, 3460-3476).
SeesArguments == pc = "run" => frame.sees = frame.means

\* The fixed points are reached (pipeline.go:296, 328).
Generates == <>(pc = "run")
=============================================================================
