---------------------------- MODULE MCEvaluation ----------------------------
(* The programs of MCPrograms on small arguments, at compile time and        *)
(* natively, against what they mean.                                         *)
EXTENDS MCPrograms, Meaning, Zeros

Table(f) == f @@ <<>>              \* the function as a table, computed once

Acceptable(p) == \A f \in DOMAIN p.funs : Accepted(p.funs[f])

CodeOf(p) ==
    [f \in DOMAIN p.funs |-> IF f = "init" THEN Initializer(<<"other">>, p.dynamic) ELSE Lower(p.funs[f])]

(* Every accepted program, on each argument and machine.                     *)
AllJobs ==
    LET programs == Table(Programs)
        names == {name \in DOMAIN programs : Acceptable(programs[name])}
        lowered == Table([name \in names |-> Table(CodeOf(programs[name]))])
        meanings == Table([q \in names \X (0..2) |-> Means(programs[q[1]], <<q[2]>>)])
        Global(x) == [x |-> x.x, op |-> x.op]
    IN  {[code |-> lowered[q[1]], args |-> <<q[2]>>, machine |-> q[3], name |-> q[1],
          meant |-> meanings[<<q[1], q[2]>>],
          globals |-> [i \in DOMAIN programs[q[1]].globals |-> Global(programs[q[1]].globals[i])]] :
            q \in names \X (0..2) \X {"evaluator", "native"}}

Work == LET jobs == AllJobs IN jobs

Meant == job.meant
Started == frames = StartFrames /\ cells = StartCells

-----------------------------------------------------------------------------
(* Whatever ends, at compile time or natively, returns what the guide says   *)
(* it means and leaves the globals so: every deferred action ran once, in    *)
(* the last-in first-out order, on every way out of its scope                *)
(* (generateReturn, generateBlock and emitDefersUntil in irgen.go, run() in  *)
(* eval.go).                                                                 *)
SameAsMeant ==
    outcome.k = "done" =>
        /\ ~Meant.panics
        /\ outcome.v = Meant.v
        /\ \A i \in DOMAIN Globals : cells[i] = Meant.globals[i]

(* The evaluator has no address of a global, no Boolean & and |, which every *)
(* pattern is lowered to, and a bound on its calls.                          *)
Limits == {"unavailable instruction", "call depth exceeded", "integers required"}

(* A run fails because its source panics, or, at compile time, at a limit of *)
(* the evaluator: never on an undefined value, on a slot that is not         *)
(* allocated, in a block that has no end or past an unreachable instruction  *)
(* (the errors of run() in eval.go).                                         *)
FailsWithTheSource ==
    outcome.k = "error" =>
        \/ outcome.why = "panic" /\ Meant.panics
        \/ Evaluating /\ outcome.why \in Limits

-----------------------------------------------------------------------------
After(blocks, b) == Leads(Last(blocks[b]))

RECURSIVE Reachable(_, _, _, _)
Reachable(blocks, without, new, seen) ==
    IF new = {} THEN seen
    ELSE LET next == UNION {After(blocks, b) : b \in new} \ (seen \cup {without})
         IN  Reachable(blocks, without, next, seen \cup next)

Behind(blocks, b) ==               \* the other blocks that b is on every way to
    LET entry == {1} \ {b} IN Reachable(blocks, 0, {1}, {1}) \ (Reachable(blocks, b, entry, entry) \cup {b})

Known(code) ==                     \* the arguments, and what the blocks before have defined
    LET reached == Reachable(code.blocks, 0, {1}, {1})
        behind == Table([d \in reached |-> Behind(code.blocks, d)])
    IN  Table([b \in reached |->
                  {<<"value", id>> : id \in ArgumentValues(code)}
                  \cup UNION {DefinedIn(code.blocks[d]) : d \in {c \in reached : b \in behind[c]}}])

(* What the validator accepts never panics the generator, and is lowered to  *)
(* well formed code: blocks that end in their only terminator, with targets  *)
(* that exist; values and slots used only where every way there has defined  *)
(* them, also where deferred actions are generated several times; calls of   *)
(* what there is (currentBlockHasTerminator, Emit, generateFunctionBody in   *)
(* irgen.go).                                                                *)
AcceptedLowers ==
    Started => /\ \A f \in DOMAIN Functions : Functions[f].bad = ""
               /\ WellFormed([f \in DOMAIN Functions |-> Known(Functions[f])])

-----------------------------------------------------------------------------
(* Every run ends: the loops of these programs are bounded, and their lowered *)
(* form goes round no other.                                                  *)
Ends == <>(outcome.k # "run")
=============================================================================
