------------------------------- MODULE Zeros -------------------------------
(***************************************************************************)
(* The zero value of a type, zeroEvalValue of src/ir/eval.go, on the       *)
(* evaluator's heap and natively.  The storage of a union is one member at *)
(* compile time.                                                           *)
(***************************************************************************)
EXTENDS Evaluator

RECURSIVE ZeroValue(_, _, _)
ZeroValue(machine, t, h) ==
    LET shared == machine = "evaluator"
        members == IF t.k = "union" THEN <<IF shared THEN IntT ELSE t.of[1]>> ELSE t.of
        Member(a, m) == LET z == ZeroValue(machine, m, a.h) IN [h |-> z.h, v |-> Append(a.v, z.v)]
        all == FoldLeft(Member, [h |-> h, v |-> <<>>], members)
    IN  CASE t.k = "bool" -> [h |-> h, v |-> BoolV(FALSE)]
          [] t.k \in {"struct", "union", "multi"} ->
                IF shared THEN [h |-> Append(all.h, all.v), v |-> RefV(Len(all.h) + 1)]
                ELSE [h |-> h, v |-> AggV(all.v)]
          [] OTHER -> [h |-> h, v |-> [k |-> "int", n |-> 0]]
=============================================================================
