----------------------------- MODULE Evaluator -----------------------------
(***************************************************************************)
(* The execution of lowered code, one instruction a step: at compile time  *)
(* by the evaluator of src/ir/eval.go, whose integers have no width and    *)
(* whose aggregates are Go slices that a load copies by reference and a    *)
(* store through a pointer updates in place; and natively, where integers  *)
(* wrap and aggregates are values.  The native machine stands for the      *)
(* compiled program.                                                       *)
(*                                                                         *)
(* A job [code, globals, args, machine, ...] is a program run on arguments: *)
(* the code of each function and the initial operand of each global.  Every *)
(* slot that is allocated and every global is a cell; an aggregate of the   *)
(* evaluator is an entry of heap, and its value refers to that entry.       *)
(***************************************************************************)
EXTENDS IR

CONSTANTS
    Jobs,          \* the runs
    Width,         \* the native integers are 0..Width-1
    Widest,        \* a bound on the integers of the evaluator, which have none
    MaxDepth,      \* calls the evaluator nests
    Zero(_, _, _)  \* the zero value of a type: [h |-> the heap after it, v |-> the value]

VARIABLES
    job,           \* the run
    frames,        \* the calls, the running one last
    cells,         \* Evaluator.Globals and the frames' slots: the value of each cell
    heap,          \* the Go slices behind aggregate values
    outcome        \* how the run ended: "run" while it has not

vars == <<job, frames, cells, heap, outcome>>

Evaluating == job.machine = "evaluator"

IntV(n) == [k |-> "int", n |-> n % IF job.machine = "native" THEN Width ELSE Widest]
BoolV(b) == [k |-> "bool", b |-> b]
VoidV == [k |-> "void"]
RefV(at) == [k |-> "ref", at |-> at]
AggV(of) == [k |-> "agg", of |-> of]
PtrV(cell, path) == [k |-> "ptr", cell |-> cell, path |-> path]

-----------------------------------------------------------------------------
(* Operands.  A zero value may allocate: [h |-> the heap, v |-> the value].  *)

Operand(o, values, h) ==
    CASE o.k = "int" -> [h |-> h, v |-> IntV(o.n)]
      [] o.k = "bool" -> [h |-> h, v |-> BoolV(o.b)]
      [] o.k = "zero" -> Zero(job.machine, o.t, h)
      [] o.k = "value" -> [h |-> h, v |-> values[o.id]]

Operands(i, values) ==             \* the operands of an instruction, in order
    FoldLeft(LAMBDA a, o : LET r == Operand(o, values, a.h) IN [h |-> r.h, v |-> Append(a.v, r.v)],
             [h |-> heap, v |-> <<>>], i.args)

Members(v, h) == IF v.k = "ref" THEN h[v.at] ELSE v.of

(* A path of the evaluator ends at the first union it goes through.          *)
Reached(path) ==
    LET unions == {j \in DOMAIN path : path[j].union}
    IN  IF Evaluating /\ unions # {} THEN SubSeq(path, 1, CHOOSE j \in unions : \A l \in unions : j <= l)
        ELSE path

Follow(v, path, h) == FoldLeft(LAMBDA a, s : Members(a, h)[s.i], v, path)

Put(v, path, new) ==               \* v with new at path; on the native machine
    LET within[n \in 0..Len(path)] ==
            IF n = Len(path) THEN new
            ELSE [Follow(v, SubSeq(path, 1, n), heap) EXCEPT !.of[path[n + 1].i] = within[n + 1]]
    IN  within[0]

(* A store through a pointer: [cells, heap] after it.                        *)
Stored(p, new, h) ==
    LET path == Reached(p.path)
        holder == Follow(cells[p.cell], Front(path), h)
    IN  IF path = <<>> THEN [c |-> [cells EXCEPT ![p.cell] = new], h |-> h]
        ELSE IF Evaluating THEN [c |-> cells, h |-> [h EXCEPT ![holder.at][Last(path).i] = new]]
        ELSE [c |-> [cells EXCEPT ![p.cell] = Put(@, path, new)], h |-> h]

-----------------------------------------------------------------------------
Functions == job.code
Globals == job.globals
GlobalCell(x) == CHOOSE i \in DOMAIN Globals : Globals[i].x = x

Top == Last(frames)
Blocks == Functions[Top.fn].blocks
Here == Blocks[Top.block]
Instruction == Here[Top.pc]
Fetched == outcome.k = "run" /\ Top.block \in DOMAIN Blocks /\ Top.pc <= Len(Here)

Rank(v) ==                         \* what is not an integer compares as a boolean
    IF v.k = "bool" /\ v.b THEN 1 ELSE 0

Order(l, r) == IF l.k = "int" /\ r.k = "int" THEN l.n - r.n ELSE Rank(l) - Rank(r)

NeedsIntegers == {"add", "sub", "mul", "div", "mod"} \cup
                 IF Evaluating THEN {"bitand", "bitor"} ELSE {}

(* Why the instruction cannot run, "" when it can.                           *)
Failure ==
    LET i == Instruction
        v == Operands(i, Top.values).v
    IN  CASE \E j \in DOMAIN i.args : i.args[j].k = "value" /\ i.args[j].id \notin DOMAIN Top.values
                -> "undefined value"
          [] i.op \in {"load", "addressof"} /\ i.at \notin DOMAIN Top.slots -> "uninitialized slot"
          [] i.op = "addressofglobal" /\ Evaluating -> "unavailable instruction"
          [] i.op = "unreachable" -> "unreachable code"
          [] i.op = "call" /\ i.name = PanicCallee -> "panic"
          [] i.op = "call" /\ i.name \notin DOMAIN Functions \cup {PanicCallee} -> "unavailable function"
          [] i.op = "call" /\ Evaluating /\ Len(frames) >= MaxDepth -> "call depth exceeded"
          [] i.op = "call" /\ i.name # PanicCallee /\ Len(i.args) # Functions[i.name].params
                -> "wrong number of arguments"
          [] i.op \in NeedsIntegers /\ \E j \in {1, 2} : v[j].k # "int" -> "integers required"
          [] i.op \in {"div", "mod"} /\ v[2].n = 0 -> "division by zero"
          [] OTHER -> ""

Runs(op) == Fetched /\ Instruction.op = op /\ Failure = ""

Updated(f, x, v) == [y \in DOMAIN f \cup {x} |-> IF y = x THEN v ELSE f[y]]
Advance(values) == [frames EXCEPT ![Len(frames)].pc = @ + 1, ![Len(frames)].values = values]
Define(v) == Advance(Updated(Top.values, Instruction.dest, v))
In == Operands(Instruction, Top.values)

Ended(k, why, v) == [k |-> k, why |-> why, v |-> v]

-----------------------------------------------------------------------------
(* One action per instruction.                                               *)

Alloca ==
    /\ Runs("alloca")
    /\ LET z == Zero(job.machine, Functions[Top.fn].slots[Instruction.at], heap)
       IN  cells' = Append(cells, z.v) /\ heap' = z.h
    /\ frames' = [frames EXCEPT ![Len(frames)].pc = @ + 1,
                                ![Len(frames)].slots = Updated(@, Instruction.at, Len(cells) + 1)]
    /\ UNCHANGED <<job, outcome>>

LoadSlot ==
    /\ Runs("load")
    /\ frames' = Define(cells[Top.slots[Instruction.at]])
    /\ UNCHANGED <<job, cells, heap, outcome>>

StoreSlot ==                       \* a slot that is not allocated yet is, by the store
    /\ Runs("store")
    /\ LET at == IF Instruction.at \in DOMAIN Top.slots THEN Top.slots[Instruction.at] ELSE Len(cells) + 1
       IN  /\ cells' = IF at <= Len(cells) THEN [cells EXCEPT ![at] = In.v[1]] ELSE Append(cells, In.v[1])
           /\ frames' = [frames EXCEPT ![Len(frames)].pc = @ + 1,
                                       ![Len(frames)].slots = Updated(@, Instruction.at, at)]
    /\ heap' = In.h
    /\ UNCHANGED <<job, outcome>>

TakeAddress ==
    /\ \/ Runs("addressof") /\ frames' = Define(PtrV(Top.slots[Instruction.at], <<>>))
       \/ Runs("addressofglobal") /\ frames' = Define(PtrV(GlobalCell(Instruction.name), <<>>))
       \/ \E union \in BOOLEAN :
             /\ Runs(IF union THEN "unionaddress" ELSE "fieldaddress")
             /\ LET step == [i |-> IF union THEN 1 ELSE Instruction.at, union |-> union]
                IN  frames' = Define([In.v[1] EXCEPT !.path = Append(@, step)])
    /\ UNCHANGED <<job, cells, heap, outcome>>

LoadPointer ==
    /\ Runs("loadptr")
    /\ LET p == In.v[1] IN frames' = Define(Follow(cells[p.cell], Reached(p.path), heap))
    /\ UNCHANGED <<job, cells, heap, outcome>>

StorePointer ==
    /\ Runs("storeptr")
    /\ LET s == Stored(In.v[1], In.v[2], In.h) IN cells' = s.c /\ heap' = s.h
    /\ frames' = Advance(Top.values)
    /\ UNCHANGED <<job, outcome>>

InsertValue ==
    /\ Runs("insert")
    /\ LET agg == In.v[1]
       IN  IF Evaluating
           THEN heap' = [In.h EXCEPT ![agg.at][Instruction.at] = In.v[2]] /\ frames' = Define(agg)
           ELSE heap' = heap /\ frames' = Define([agg EXCEPT !.of[Instruction.at] = In.v[2]])
    /\ UNCHANGED <<job, cells, outcome>>

ExtractValue ==
    /\ Runs("extract")
    /\ frames' = Define(Members(In.v[1], In.h)[Instruction.at])
    /\ heap' = In.h
    /\ UNCHANGED <<job, cells, outcome>>

LoadGlobal ==
    /\ Runs("loadglobal")
    /\ frames' = Define(cells[GlobalCell(Instruction.name)])
    /\ UNCHANGED <<job, cells, heap, outcome>>

StoreGlobal ==
    /\ Runs("storeglobal")
    /\ cells' = [cells EXCEPT ![GlobalCell(Instruction.name)] = In.v[1]]
    /\ heap' = In.h
    /\ frames' = Advance(Top.values)
    /\ UNCHANGED <<job, outcome>>

Arithmetic ==
    /\ \E op \in {"add", "sub", "mul", "div", "mod", "bitand", "bitor"} :
          /\ Runs(op)
          /\ LET l == In.v[1]
                 r == In.v[2]
             IN  frames' = Define(CASE op = "add" -> IntV(l.n + r.n)
                                    [] op = "sub" -> IntV(l.n - r.n)
                                    [] op = "mul" -> IntV(l.n * r.n)
                                    [] op = "div" -> IntV(l.n \div r.n)
                                    [] op = "mod" -> IntV(l.n % r.n)
                                    [] op = "bitand" -> BoolV(l.b /\ r.b)
                                    [] op = "bitor" -> BoolV(l.b \/ r.b))
    /\ UNCHANGED <<job, cells, heap, outcome>>

Compare ==
    /\ \E op \in {"eq", "ne", "lt", "le", "gt", "ge", "not"} :
          /\ Runs(op)
          /\ LET c == IF op = "not" THEN Rank(In.v[1]) ELSE Order(In.v[1], In.v[2])
             IN  frames' = Define(BoolV(CASE op \in {"eq", "not"} -> c = 0
                                          [] op = "ne" -> c # 0
                                          [] op = "lt" -> c < 0
                                          [] op = "le" -> c <= 0
                                          [] op = "gt" -> c > 0
                                          [] op = "ge" -> c >= 0))
    /\ UNCHANGED <<job, cells, heap, outcome>>

\* Mutant: a function starts with the slots of its parameters only.
SlotsFrame(fn, args, base) ==
    [fn |-> fn, block |-> 1, pc |-> 1, values |-> <<>>, slots |-> [i \in DOMAIN args |-> base + i]]

(* Each parameter has a cell, and the argument its value, before the entry   *)
(* block runs.                                                               *)
Frame(fn, args, base) ==
    LET code == Functions[fn]
    IN  [fn |-> fn, block |-> 1, pc |-> 1,
         values |-> [id \in ArgumentValues(code) |-> args[CHOOSE p \in DOMAIN args : Incoming(code, p) = id]],
         slots |-> [i \in DOMAIN args |-> base + i]]

Call ==
    /\ Runs("call")
    /\ frames' = Append(frames, Frame(Instruction.name, In.v, Len(cells)))
    /\ cells' = cells \o In.v
    /\ heap' = In.h
    /\ UNCHANGED <<job, outcome>>

Goto ==
    /\ \/ /\ Runs("jump")
          /\ frames' = [frames EXCEPT ![Len(frames)].block = Instruction.at, ![Len(frames)].pc = 1]
       \/ /\ Runs("branch")
          /\ LET c == In.v[1]
                 next == IF c.k = "bool" /\ c.b THEN Instruction.at ELSE Instruction.to
             IN  frames' = [frames EXCEPT ![Len(frames)].block = next, ![Len(frames)].pc = 1]
    /\ UNCHANGED <<job, cells, heap, outcome>>

Return ==
    /\ Runs("return")
    /\ LET v == IF Instruction.args = <<>> THEN VoidV ELSE In.v[1]
           rest == Front(frames)
           caller == Last(rest)
           call == Functions[caller.fn].blocks[caller.block][caller.pc]
           kept == IF call.dest = 0 THEN caller.values ELSE Updated(caller.values, call.dest, v)
       IN  IF Len(frames) = 1 THEN outcome' = Ended("done", "", v) /\ UNCHANGED frames
           ELSE /\ frames' = [rest EXCEPT ![Len(rest)].pc = @ + 1, ![Len(rest)].values = kept]
                /\ UNCHANGED outcome
    /\ heap' = In.h
    /\ UNCHANGED <<job, cells>>

Stop ==
    LET why == IF Top.block \notin DOMAIN Blocks THEN "missing block"
               ELSE IF Top.pc > Len(Here) THEN "fell off block" ELSE Failure
    IN  /\ outcome.k = "run" /\ why # ""
        /\ outcome' = Ended("error", why, VoidV)
        /\ UNCHANGED <<job, frames, cells, heap>>

-----------------------------------------------------------------------------
StartGlobals ==
    FoldLeft(LAMBDA a, x : LET r == Operand(x.op, <<>>, a.h) IN [h |-> r.h, v |-> Append(a.v, r.v)],
             [h |-> <<>>, v |-> <<>>], Globals)
StartArgs == [i \in DOMAIN job.args |-> IntV(job.args[i])]
StartCells == StartGlobals.v \o StartArgs
StartFrames == <<Frame("main", StartArgs, Len(StartGlobals.v))>>

Begins ==                          \* Run() of job
    /\ cells = StartCells
    /\ heap = StartGlobals.h
    /\ frames = StartFrames
    /\ outcome = Ended("run", "", VoidV)

Step ==
    \/ Alloca \/ LoadSlot \/ StoreSlot \/ TakeAddress \/ LoadPointer \/ StorePointer
    \/ InsertValue \/ ExtractValue \/ LoadGlobal \/ StoreGlobal \/ Arithmetic \/ Compare
    \/ Call \/ Goto \/ Return \/ Stop

Next == Step \/ (outcome.k # "run" /\ UNCHANGED vars)

Init == job \in Jobs /\ Begins

(* The loop of run() goes on until it returns.                               *)
Spec == Init /\ [][Next]_vars /\ WF_vars(Step)

-----------------------------------------------------------------------------
(* The code that the generator gives the evaluator and the back end: what    *)
(* LLVM demands of every function, and calls that name one.                  *)
WellFormed(known) ==               \* known says what DefinesFirst needs, for each function
    "main" \in DOMAIN Functions /\ \A f \in DOMAIN Functions :
        /\ Closed(Functions[f]) /\ CallsMatch(Functions, Functions[f])
        /\ DefinesFirst(Functions[f], known[f])

(* No run of well formed code uses a value that is not defined or a slot     *)
(* that is not allocated, enters a block that does not exist, runs past the  *)
(* end of one, or calls what is not there: the errors of run() in eval.go    *)
(* that a generator without a bug never causes.                              *)
NeverUndefined ==
    outcome.k = "error" =>
        outcome.why \notin {"undefined value", "uninitialized slot", "missing block", "fell off block",
                            "unavailable function", "wrong number of arguments"}
=============================================================================
