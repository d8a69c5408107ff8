--------------------------------- MODULE IR ---------------------------------
(***************************************************************************)
(* The intermediate representation of src/ir/ir.go as data: types,         *)
(* operands, instructions and functions, and what makes the code of a      *)
(* function well formed.  Types are [k, of, n]: of lists the fields of a   *)
(* struct, the target of a pointer or the results of a call, n is the      *)
(* number of values of an enum.  A function is [params, blocks, slots,     *)
(* bad]: the number of its parameters, its basic blocks, the first one the *)
(* entry, and the types of its slots.                                      *)
(***************************************************************************)
EXTENDS Integers, Sequences, SequencesExt

Type(k, of, n) == [k |-> k, of |-> of, n |-> n]
IntT == Type("int", <<>>, 0)
BoolT == Type("bool", <<>>, 0)
VoidT == Type("void", <<>>, 0)
EnumT(n) == Type("enum", <<>>, n)
StructT(of) == Type("struct", of, 0)
PointerT(t) == Type("pointer", <<t>>, 0)
UnionT(of) == Type("union", of, 0)
MultiT(of) == Type("multi", of, 0)

None == [k |-> "none"]
IntOp(n) == [k |-> "int", n |-> n]
BoolOp(b) == [k |-> "bool", b |-> b]
ZeroOp(t) == [k |-> "zero", t |-> t]
ValueOp(id) == [k |-> "value", id |-> id]

Instr(op, args) ==
    [op |-> op, dest |-> 0, args |-> args, at |-> 0, to |-> 0, name |-> ""]

-----------------------------------------------------------------------------
(* What an instruction leads to, needs and defines.  A name stands for a     *)
(* value or a slot of the function.                                          *)

Terminators == {"return", "jump", "branch", "unreachable"}
Effects == Terminators \cup {"alloca", "store", "storeptr", "storeglobal"}   \* these have no Dest

Leads(i) == CASE i.op = "jump" -> {i.at} [] i.op = "branch" -> {i.at, i.to} [] OTHER -> {}

Needs(i) == {<<"value", i.args[j].id>> : j \in {n \in DOMAIN i.args : i.args[n].k = "value"}}
            \cup {<<"slot", at>> : at \in IF i.op \in {"load", "store", "addressof"} THEN {i.at} ELSE {}}
Defines(i) == {<<"value", id>> : id \in IF i.op \in Effects THEN {} ELSE {i.dest} \ {0}}
              \cup {<<"slot", at>> : at \in IF i.op = "alloca" THEN {i.at} ELSE {}}

DefinedBefore(block, pc) == UNION {Defines(block[n]) : n \in 1..(pc - 1)}
DefinedIn(block) == DefinedBefore(block, Len(block) + 1)

-----------------------------------------------------------------------------
(* The value that the entry block stores into a parameter's slot first is    *)
(* the argument.                                                             *)

ArgumentStores(code, p) ==
    {pc \in DOMAIN code.blocks[1] :
        LET i == code.blocks[1][pc] IN i.op = "store" /\ i.at = p /\ i.args[1].k = "value"}
Incoming(code, p) ==
    LET stores == ArgumentStores(code, p)
    IN  code.blocks[1][CHOOSE pc \in stores : \A n \in stores : pc <= n].args[1].id
ArgumentValues(code) == {Incoming(code, p) : p \in {q \in 1..code.params : ArgumentStores(code, q) # {}}}

-----------------------------------------------------------------------------
(* Every block ends in its only terminator, and leads to blocks that exist.  *)
Filled(s) == Len(s) \in Nat \ {0} /\ DOMAIN s = 1..Len(s)

Closed(code) ==
    /\ Filled(code.blocks)
    /\ \A b \in DOMAIN code.blocks :
          LET block == code.blocks[b]
          IN  /\ Filled(block) /\ Last(block).op \in Terminators
              /\ \A pc \in 1..(Len(block) - 1) : block[pc].op \notin Terminators
              /\ Leads(Last(block)) \subseteq DOMAIN code.blocks

(* Given the names that are known where each block begins that control may   *)
(* reach: they are defined on every way there, and a value is used, and a    *)
(* slot accessed, only where it is known or defined before.                  *)
DefinesFirst(code, known) ==
    /\ 1 \in DOMAIN known /\ DOMAIN known \subseteq DOMAIN code.blocks
    /\ known[1] \subseteq {<<"value", id>> : id \in ArgumentValues(code)}
    /\ \A b \in DOMAIN known :
          LET block == code.blocks[b]
          IN  /\ \A to \in Leads(Last(block)) :
                    to \in DOMAIN known /\ known[to] \subseteq known[b] \cup DefinedIn(block)
              /\ \A pc \in DOMAIN block : Needs(block[pc]) \subseteq known[b] \cup DefinedBefore(block, pc)

(* A call names a function of the program, with as many arguments as it has  *)
(* parameters, or panics.                                                    *)
PanicCallee == "__qk_panic"
CallsMatch(functions, code) ==
    \A b \in DOMAIN code.blocks : \A pc \in DOMAIN code.blocks[b] :
        LET i == code.blocks[b][pc]
        IN  i.op = "call" /\ i.name # PanicCallee =>
                i.name \in DOMAIN functions /\ Len(i.args) = functions[i.name].params
=============================================================================
