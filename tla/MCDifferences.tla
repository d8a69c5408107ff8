--------------------------- MODULE MCDifferences ---------------------------
(* Accepted programs that run otherwise than the language guide says, one    *)
(* after the other: each gets a verdict, and fuel bounds its steps.          *)
EXTENDS MCPrograms, Meaning, Zeros

CONSTANT Fuel                      \* steps of one program, more than any of them needs

VARIABLES
    verdicts,      \* for each program that has run, whether it ran as written
    fuel           \* steps the running program has left

Uv == UnionT(<<Pair, IntT>>)
UPair == Dot(V("u", Uv), 1, Pair)
Copied ==                          \* a value receiver that changes its copy
    [copied |-> Fun(<<P("self", Pair)>>, IntT, Block(<<
        Let("b", Pair, V("self", Pair)), Set(Dot(V("b", Pair), 1, IntT), I(5)), Ret(<<I(0)>>)>>))]

Once(p, machine) ==
    [code |-> [f \in DOMAIN p.funs |-> Lower(p.funs[f])], machine |-> machine, args |-> <<1>>,
     meant |-> Means(p, <<1>>),
     globals |-> [i \in DOMAIN p.globals |-> [x |-> p.globals[i].x, op |-> p.globals[i].op]]]

LastIf == Alone(Arg, <<IfS(Eq(X("x"), I(0)), Block(<<Ret(<<I(1)>>)>>), Block(<<Ret(<<I(2)>>)>>))>>)
Bare == Alone(Arg, <<Ret(<<>>)>>)

Differing ==
    <<\* the copy shares the fields of the original
     Once(With(Copied, Arg, <<Let("a", Pair, Struct(Pair, <<I(1), I(2)>>)),
          Invocation("copied", <<V("a", Pair)>>, IntT), Ret(<<Dot(V("a", Pair), 1, IntT)>>)>>), "evaluator"),
     \* a field of a struct in a union overwrites the union
     Once(Alone(Arg, <<Let("u", Uv, Struct(Uv, <<Struct(Pair, <<I(1), I(2)>>)>>)), Set(Dot(UPair, 1, IntT), I(3)),
          Set(Dot(UPair, 2, IntT), I(4)), Ret(<<Dot(UPair, 1, IntT)>>)>>), "evaluator"),
     \* patterns need & and | of Booleans
     Once(Alone(Arg, <<Ret(<<MatchE(<<X("x")>>, <<Arm(<<IntP(0)>>, None, I(5)),
          Arm(<<Wildcard>>, None, I(6))>>, IntT)>>)>>), "evaluator"),
     \* both branches return and nothing follows
     Once(LastIf, "native"),
     \* a deferred block that returns: the deferred actions of the scopes inside run again
     Once(Alone(Arg, <<Defer(Block(<<IfS(Eq(X("x"), I(1)), Block(<<Ret(<<Log>>)>>), None)>>)),
          Block(<<Defer(Mark(1)), Ret(<<I(2)>>)>>), Ret(<<I(3)>>)>>), "native"),
     \* a literal that reads the variable it is assigned to
     Once(Alone(Arg, <<Let("p", Pair, Struct(Pair, <<I(1), I(2)>>)),
          Set(V("p", Pair), Struct(Pair, <<Dot(V("p", Pair), 2, IntT), Dot(V("p", Pair), 1, IntT)>>)),
          Ret(<<Bin("sub", I(4), Dot(V("p", Pair), 1, IntT))>>)>>), "native"),
     \* a closed range up to the last value of the type
     Once(Alone(Arg, <<RangeS("i", I(Width - 2), I(Width - 1), TRUE, FALSE, Block(<<Up(Log, "add", I(0))>>)),
          Ret(<<I(1)>>)>>), "native"),
     \* no value to return
     Once(Bare, "native")>>

AsWritten ==
    /\ outcome.k = "done" /\ outcome.v.k = "int" /\ ~job.meant.panics
    /\ outcome.v = job.meant.v
    /\ \A i \in DOMAIN Globals : cells[i] = job.meant.globals[i]

Lowers == \A f \in DOMAIN Functions : Functions[f].bad = ""

Odd == LET jobs == Differing IN jobs

Starts == verdicts = <<>> /\ fuel = Fuel /\ job = Jobs[1] /\ Begins

RunsOn == Lowers /\ fuel > 0 /\ Step /\ fuel' = fuel - 1 /\ UNCHANGED verdicts

Judge ==
    /\ outcome.k # "run" \/ fuel = 0 \/ ~Lowers
    /\ Len(verdicts) < Len(Jobs)
    /\ verdicts' = Append(verdicts, AsWritten)
    /\ fuel' = Fuel
    /\ job' = IF Len(verdicts') < Len(Jobs) THEN Jobs[Len(verdicts') + 1] ELSE job
    /\ cells' = StartCells'
    /\ heap' = StartGlobals'.h
    /\ frames' = StartFrames'
    /\ outcome' = Ended("run", "", VoidV)

InTurn == Starts /\ [][RunsOn \/ Judge]_<<vars, verdicts, fuel>>

(* Programs that the validator accepts run as the guide describes them.      *)
RunsAsDocumented ==
    Len(verdicts) = Len(Jobs) => \A i \in DOMAIN verdicts : verdicts[i]
=============================================================================
