-------------------------- MODULE EvaluatorProofs --------------------------
(***************************************************************************)
(* No run of well formed code is undefined: whatever the program, the      *)
(* arguments and the machine, a value that an instruction reads has been   *)
(* defined in its frame, and every frame stands at an instruction.         *)
(***************************************************************************)
EXTENDS Evaluator, TLAPS

IsSequence(s) == \E S : s \in Seq(S)

(* The names that a frame has.                                               *)
Held(fr) == {<<"value", id>> : id \in DOMAIN fr.values} \cup {<<"slot", at>> : at \in DOMAIN fr.slots}

Shaped(fr) ==
    fr \in [fn : {fr.fn}, block : {fr.block}, pc : {fr.pc}, values : {fr.values}, slots : {fr.slots}]
Code(fr) == Functions[fr.fn].blocks[fr.block]

(* A frame at an instruction, with all that is defined before it.            *)
Placed(fr, known) ==
    /\ Shaped(fr)
    /\ fr.fn \in DOMAIN Functions
    /\ fr.block \in DOMAIN known[fr.fn]
    /\ fr.pc \in 1..Len(Code(fr))
    /\ known[fr.fn][fr.block] \cup DefinedBefore(Code(fr), fr.pc) \subseteq Held(fr)

Standing(known) ==
    /\ IsSequence(frames) /\ frames # <<>>
    /\ \A n \in 1..Len(frames) : Placed(frames[n], known)
    /\ \A n \in 1..(Len(frames) - 1) : Code(frames[n])[frames[n].pc].op = "call"

Inv == \A known : WellFormed(known) => Standing(known) /\ NeverUndefined

-----------------------------------------------------------------------------
(* Sequences of frames.                                                      *)

(* A call is pushed on the frames.                                           *)
LEMMA Pushed ==
    ASSUME NEW s, IsSequence(s), NEW e
    PROVE  LET t == Append(s, e)
           IN  /\ IsSequence(t) /\ Len(t) = Len(s) + 1 /\ Len(s) \in Nat /\ t # <<>>
               /\ t[Len(t)] = e /\ \A m \in 1..Len(s) : t[m] = s[m]
<1> DEFINE t == Append(s, e)
<1>1. PICK S : s \in Seq(S)
  BY DEF IsSequence
<1>2. s \in Seq(S \cup {e})
  BY <1>1
<1>3. t \in Seq(S \cup {e}) /\ Len(t) = Len(s) + 1 /\ Len(s) \in Nat
  BY <1>2
<1>4. t[Len(t)] = e /\ \A m \in 1..Len(s) : t[m] = s[m]
  BY <1>2, <1>3
<1>5. t # <<>>
  BY <1>3
<1> QED
  BY <1>3, <1>4, <1>5 DEF IsSequence

(* A return leaves the frames before the last.                               *)
LEMMA Popped ==
    ASSUME NEW s, IsSequence(s), s # <<>>, Len(s) # 1
    PROVE  LET t == Front(s)
           IN  /\ IsSequence(t) /\ Len(t) = Len(s) - 1 /\ Len(t) \in Nat \ {0}
               /\ \A m \in 1..Len(t) : t[m] = s[m]
<1> DEFINE t == SubSeq(s, 1, Len(s) - 1)
<1>1. PICK S : s \in Seq(S)
  BY DEF IsSequence
<1>2. Len(s) \in Nat /\ Len(s) > 1
  BY <1>1
<1>3. t \in Seq(S) /\ Len(t) = Len(s) - 1 /\ \A m \in 1..Len(t) : t[m] = s[m]
  BY <1>1, <1>2
<1>4. IsSequence(t) /\ Len(t) \in Nat \ {0}
  BY <1>2, <1>3 DEF IsSequence
<1>5. Front(s) = t
  BY DEF Front
<1> QED
  BY <1>3, <1>4, <1>5

LEMMA Lengths ==
    ASSUME NEW s, IsSequence(s), s # <<>>
    PROVE  Len(s) \in Nat \ {0} /\ DOMAIN s = 1..Len(s)
<1>1. PICK S : s \in Seq(S)
  BY DEF IsSequence
<1> QED
  BY <1>1

-----------------------------------------------------------------------------
(* What is defined before an instruction.                                    *)

LEMMA DefinedNext ==
    ASSUME NEW block, NEW pc \in Nat \ {0}
    PROVE  DefinedBefore(block, pc + 1) = DefinedBefore(block, pc) \cup Defines(block[pc])
<1>1. 1..((pc + 1) - 1) = (1..(pc - 1)) \cup {pc}
  OBVIOUS
<1> QED
  BY <1>1 DEF DefinedBefore

LEMMA DefinedFromStart ==
    ASSUME NEW block PROVE DefinedBefore(block, 1) = {}
BY DEF DefinedBefore

(* A terminator stands last and defines nothing.                             *)
LEMMA TerminatorLast ==
    ASSUME NEW known, WellFormed(known), NEW fr, Placed(fr, known)
    PROVE  /\ fr.pc \in Nat \ {0} /\ fr.pc \in DOMAIN Code(fr)
           /\ fr.block \in DOMAIN Functions[fr.fn].blocks
           /\ Code(fr)[fr.pc].op \notin Terminators => fr.pc + 1 \in 1..Len(Code(fr))
           /\ Code(fr)[fr.pc].op \in Terminators =>
                 /\ Code(fr)[fr.pc] = Last(Code(fr))
                 /\ DefinedIn(Code(fr)) = DefinedBefore(Code(fr), fr.pc)
<1> DEFINE code == Functions[fr.fn]
           block == Code(fr)
<1>1. fr.fn \in DOMAIN Functions /\ fr.block \in DOMAIN known[fr.fn] /\ fr.pc \in 1..Len(block)
  BY DEF Placed
<1>2. Closed(code) /\ DefinesFirst(code, known[fr.fn])
  BY <1>1 DEF WellFormed
<1>3. fr.block \in DOMAIN code.blocks
  BY <1>1, <1>2 DEF DefinesFirst
<1>4. /\ Len(block) \in Nat \ {0} /\ DOMAIN block = 1..Len(block)
      /\ Last(block).op \in Terminators
      /\ \A pc \in 1..(Len(block) - 1) : block[pc].op \notin Terminators
  BY <1>2, <1>3 DEF Closed, Filled, Code
<1>5. fr.pc \in Nat \ {0} /\ fr.pc \in DOMAIN block
  BY <1>1, <1>4
<1>6. ASSUME block[fr.pc].op \notin Terminators
      PROVE  fr.pc + 1 \in 1..Len(block)
  <2>1. fr.pc # Len(block)
    BY <1>4, <1>6 DEF Last
  <2> QED
    BY <2>1, <1>1, <1>4
<1>7. ASSUME block[fr.pc].op \in Terminators
      PROVE  block[fr.pc] = Last(block) /\ DefinedIn(block) = DefinedBefore(block, fr.pc)
  <2>1. fr.pc = Len(block)
    BY <1>1, <1>4, <1>7
  <2>2. Defines(block[fr.pc]) = {}
    BY <1>7 DEF Defines, Effects, Terminators
  <2>3. DefinedIn(block) = DefinedBefore(block, fr.pc) \cup Defines(block[fr.pc])
    BY <2>1, <1>5, DefinedNext DEF DefinedIn
  <2> QED
    BY <2>1, <2>2, <2>3 DEF Last
<1> QED
  BY <1>3, <1>5, <1>6, <1>7

-----------------------------------------------------------------------------
(* Where a frame may go.                                                     *)

(* To the next instruction, with what this one defines.                      *)
LEMMA Advanced ==
    ASSUME NEW known, WellFormed(known), NEW fr, Placed(fr, known), NEW values, NEW slots,
           LET i == Code(fr)[fr.pc]
               new == [fn |-> fr.fn, block |-> fr.block, pc |-> fr.pc + 1, values |-> values, slots |-> slots]
           IN  i.op \notin Terminators /\ Held(fr) \cup Defines(i) \subseteq Held(new)
    PROVE  Placed([fn |-> fr.fn, block |-> fr.block, pc |-> fr.pc + 1, values |-> values, slots |-> slots], known)
<1> DEFINE new == [fn |-> fr.fn, block |-> fr.block, pc |-> fr.pc + 1, values |-> values, slots |-> slots]
<1>1. new.pc \in 1..Len(Code(fr)) /\ fr.pc \in Nat \ {0}
  BY TerminatorLast
<1>2. DefinedBefore(Code(fr), fr.pc + 1) = DefinedBefore(Code(fr), fr.pc) \cup Defines(Code(fr)[fr.pc])
  BY <1>1, DefinedNext
<1>3. /\ new.fn = fr.fn /\ new.block = fr.block /\ new.pc = fr.pc + 1
      /\ Shaped(new)
  BY DEF Shaped
<1>4. Code(new) = Code(fr)
  BY <1>3 DEF Code
<1>5. /\ fr.fn \in DOMAIN Functions /\ fr.block \in DOMAIN known[fr.fn]
      /\ known[fr.fn][fr.block] \cup DefinedBefore(Code(fr), fr.pc) \subseteq Held(fr)
  BY DEF Placed
<1>6. known[fr.fn][fr.block] \cup DefinedBefore(Code(fr), fr.pc + 1) \subseteq Held(new)
  BY <1>2, <1>5
<1> HIDE DEF new
<1>7. Placed(new, known)
  BY <1>1, <1>3, <1>4, <1>5, <1>6 DEF Placed
<1> QED
  BY <1>7 DEF new

(* To the start of a block that its block leads to.                          *)
LEMMA Jumped ==
    ASSUME NEW known, WellFormed(known), NEW fr, Placed(fr, known), NEW to,
           LET i == Code(fr)[fr.pc] IN i.op \in Terminators /\ to \in Leads(i)
    PROVE  Placed([fn |-> fr.fn, block |-> to, pc |-> 1, values |-> fr.values, slots |-> fr.slots], known)
<1> DEFINE new == [fn |-> fr.fn, block |-> to, pc |-> 1, values |-> fr.values, slots |-> fr.slots]
           code == Functions[fr.fn]
<1>1. /\ Code(fr)[fr.pc] = Last(Code(fr))
      /\ DefinedIn(Code(fr)) = DefinedBefore(Code(fr), fr.pc)
  BY TerminatorLast
<1>2. /\ fr.fn \in DOMAIN Functions /\ fr.block \in DOMAIN known[fr.fn]
      /\ known[fr.fn][fr.block] \cup DefinedBefore(Code(fr), fr.pc) \subseteq Held(fr)
  BY DEF Placed
<1>3. Closed(code) /\ DefinesFirst(code, known[fr.fn])
  BY <1>2 DEF WellFormed
<1>4. /\ to \in DOMAIN known[fr.fn]
      /\ known[fr.fn][to] \subseteq known[fr.fn][fr.block] \cup DefinedIn(Code(fr))
  BY <1>1, <1>2, <1>3 DEF DefinesFirst, Code
<1>5. to \in DOMAIN code.blocks
  BY <1>3, <1>4 DEF DefinesFirst
<1>6. Len(code.blocks[to]) \in Nat \ {0}
  BY <1>3, <1>5 DEF Closed, Filled
<1>7. /\ new.fn = fr.fn /\ new.block = to /\ new.pc = 1
      /\ Shaped(new)
  BY DEF Shaped
<1>8. Held(new) = Held(fr)
  BY DEF Held
<1>9. Code(new) = code.blocks[to]
  BY <1>7 DEF Code
<1>10. known[fr.fn][to] \cup DefinedBefore(Code(new), 1) \subseteq Held(new)
  BY <1>1, <1>2, <1>4, <1>8, DefinedFromStart
<1> HIDE DEF new
<1>11. Placed(new, known)
  BY <1>2, <1>4, <1>6, <1>7, <1>9, <1>10 DEF Placed
<1> QED
  BY <1>11 DEF new

(* To the entry of a function that is called: it has its arguments.          *)
LEMMA Entered ==
    ASSUME NEW known, WellFormed(known), NEW fn \in DOMAIN Functions, NEW args, NEW base
    PROVE  Placed(Frame(fn, args, base), known)
<1> DEFINE new == Frame(fn, args, base)
           code == Functions[fn]
<1>1. Closed(code) /\ DefinesFirst(code, known[fn])
  BY DEF WellFormed
<1>2. /\ 1 \in DOMAIN known[fn] /\ 1 \in DOMAIN code.blocks
      /\ known[fn][1] \subseteq {<<"value", id>> : id \in ArgumentValues(code)}
  BY <1>1 DEF DefinesFirst
<1>3. Len(code.blocks[1]) \in Nat \ {0}
  BY <1>1, <1>2 DEF Closed, Filled
<1>4. /\ new.fn = fn /\ new.block = 1 /\ new.pc = 1 /\ DOMAIN new.values = ArgumentValues(code)
      /\ Shaped(new)
  BY DEF Frame, Shaped
<1>5. Code(new) = code.blocks[1]
  BY <1>4 DEF Code
<1>6. known[fn][1] \cup DefinedBefore(Code(new), 1) \subseteq Held(new)
  BY <1>2, <1>4, DefinedFromStart DEF Held
<1> HIDE DEF new
<1> QED
  BY <1>2, <1>3, <1>4, <1>5, <1>6 DEF Placed, new

-----------------------------------------------------------------------------
(* The steps, by what they do to the frames.                                 *)

(* The running frame goes on.                                                *)
LEMMA TopMoves ==
    ASSUME NEW known, WellFormed(known), Standing(known), NEW fr, Placed(fr, known),
           frames' = [frames EXCEPT ![Len(frames)] = fr], job' = job
    PROVE  Standing(known)'
<1>1. Len(frames) \in Nat \ {0}
  BY Lengths DEF Standing
<1>2. /\ IsSequence(frames') /\ Len(frames') = Len(frames) /\ frames' # <<>>
      /\ frames'[Len(frames)] = fr
      /\ \A m \in 1..Len(frames) : m # Len(frames) => frames'[m] = frames[m]
  <2>1. PICK S : frames \in Seq(S)
    BY DEF Standing, IsSequence
  <2>2. frames \in Seq(S \cup {fr}) /\ Len(frames) \in 1..Len(frames)
    BY <1>1, <2>1
  <2>3. frames' \in Seq(S \cup {fr}) /\ Len(frames') = Len(frames)
    BY <2>2
  <2>4. \A m \in 1..Len(frames) : frames'[m] = IF m = Len(frames) THEN fr ELSE frames[m]
    BY <2>2
  <2>5. frames' # <<>>
    BY <1>1, <2>3
  <2> QED
    BY <2>2, <2>3, <2>4, <2>5 DEF IsSequence
<1>3. \A f : Placed(f, known)' <=> Placed(f, known)
  BY DEF Placed, Code, Functions, Held
<1>4. \A f : Code(f)' = Code(f)
  BY DEF Code, Functions
<1>5. \A n \in 1..Len(frames') : Placed(frames'[n], known)
  BY <1>2 DEF Standing
<1>6. \A n \in 1..(Len(frames') - 1) : Code(frames'[n])[frames'[n].pc].op = "call"
  BY <1>1, <1>2 DEF Standing
<1> QED
  BY <1>2, <1>5, <1>6 DEF Standing, Placed, Code, Functions, Held

(* The frame that runs stands at the instruction that does.                  *)
LEMMA TopStands ==
    ASSUME NEW known, Standing(known)
    PROVE  /\ Len(frames) \in Nat \ {0} /\ DOMAIN frames = 1..Len(frames)
           /\ Top = frames[Len(frames)] /\ Placed(Top, known)
           /\ Shaped(Top)
           /\ Here = Code(Top) /\ Instruction = Code(Top)[Top.pc]
<1>1. Len(frames) \in Nat \ {0} /\ DOMAIN frames = 1..Len(frames)
  BY Lengths DEF Standing
<1>2. Top = frames[Len(frames)]
  BY DEF Top, Last
<1>3. Placed(Top, known)
  BY <1>1, <1>2 DEF Standing
<1>4. Shaped(Top)
  BY <1>3 DEF Placed
<1>5. Here = Code(Top) /\ Instruction = Code(Top)[Top.pc]
  BY DEF Here, Blocks, Code, Instruction
<1> QED
  BY <1>1, <1>2, <1>3, <1>4, <1>5

(* It goes on to its next instruction.                                       *)
LEMMA TopAdvances ==
    ASSUME NEW known, WellFormed(known), Standing(known), NEW values, NEW slots,
           frames' = [frames EXCEPT ![Len(frames)] =
                         [fn |-> Top.fn, block |-> Top.block, pc |-> Top.pc + 1, values |-> values, slots |-> slots]],
           job' = job, Instruction.op \notin Terminators,
           DOMAIN Top.values \subseteq DOMAIN values, DOMAIN Top.slots \subseteq DOMAIN slots,
           Instruction.op \notin Effects /\ Instruction.dest # 0 => Instruction.dest \in DOMAIN values,
           Instruction.op = "alloca" => Instruction.at \in DOMAIN slots
    PROVE  Standing(known)'
<1> DEFINE new == [fn |-> Top.fn, block |-> Top.block, pc |-> Top.pc + 1, values |-> values, slots |-> slots]
<1>1. Held(Top) \cup Defines(Instruction) \subseteq Held(new)
  BY DEF Held, Defines
<1>2. Placed(new, known)
  BY <1>1, TopStands, Advanced
<1> HIDE DEF new
<1> QED
  BY <1>2, TopMoves DEF new

(* The frame after an update of its fields.                                  *)
LEMMA ValuesChange ==
    ASSUME NEW known, Standing(known), NEW values,
           frames' = [frames EXCEPT ![Len(frames)].pc = @ + 1, ![Len(frames)].values = values]
    PROVE  frames' = [frames EXCEPT ![Len(frames)] =
                         [fn |-> Top.fn, block |-> Top.block, pc |-> Top.pc + 1, values |-> values, slots |-> Top.slots]]
<1> DEFINE new == [fn |-> Top.fn, block |-> Top.block, pc |-> Top.pc + 1, values |-> values, slots |-> Top.slots]
           n == Len(frames)
<1>1. n \in DOMAIN frames /\ frames[n] = Top /\ Shaped(Top)
  BY TopStands
<1>2. DOMAIN frames' = DOMAIN frames /\ \A m \in DOMAIN frames : m # n => frames'[m] = frames[m]
  BY <1>1
<1>3. frames'[n] = new
  BY <1>1 DEF Shaped
<1>4. frames' = [m \in DOMAIN frames |-> frames'[m]]
  OBVIOUS
<1> HIDE DEF new
<1>5. frames' = [frames EXCEPT ![n] = new]
  BY <1>1, <1>2, <1>3, <1>4
<1> QED
  BY <1>5 DEF new

(* The same for its slots.                                                   *)
LEMMA SlotsChange ==
    ASSUME NEW known, Standing(known), NEW slots,
           frames' = [frames EXCEPT ![Len(frames)].pc = @ + 1, ![Len(frames)].slots = slots]
    PROVE  frames' = [frames EXCEPT ![Len(frames)] =
                         [fn |-> Top.fn, block |-> Top.block, pc |-> Top.pc + 1, values |-> Top.values, slots |-> slots]]
<1> DEFINE new == [fn |-> Top.fn, block |-> Top.block, pc |-> Top.pc + 1, values |-> Top.values, slots |-> slots]
           n == Len(frames)
<1>1. n \in DOMAIN frames /\ frames[n] = Top /\ Shaped(Top)
  BY TopStands
<1>2. DOMAIN frames' = DOMAIN frames /\ \A m \in DOMAIN frames : m # n => frames'[m] = frames[m]
  BY <1>1
<1>3. frames'[n] = new
  BY <1>1 DEF Shaped
<1>4. frames' = [m \in DOMAIN frames |-> frames'[m]]
  OBVIOUS
<1> HIDE DEF new
<1>5. frames' = [frames EXCEPT ![n] = new]
  BY <1>1, <1>2, <1>3, <1>4
<1> QED
  BY <1>5 DEF new

(* And for the block it is in.                                               *)
LEMMA BlockChanges ==
    ASSUME NEW known, Standing(known), NEW to,
           frames' = [frames EXCEPT ![Len(frames)].block = to, ![Len(frames)].pc = 1]
    PROVE  frames' = [frames EXCEPT ![Len(frames)] =
                         [fn |-> Top.fn, block |-> to, pc |-> 1, values |-> Top.values, slots |-> Top.slots]]
<1> DEFINE new == [fn |-> Top.fn, block |-> to, pc |-> 1, values |-> Top.values, slots |-> Top.slots]
           n == Len(frames)
<1>1. n \in DOMAIN frames /\ frames[n] = Top /\ Shaped(Top)
  BY TopStands
<1>2. DOMAIN frames' = DOMAIN frames /\ \A m \in DOMAIN frames : m # n => frames'[m] = frames[m]
  BY <1>1
<1>3. frames'[n] = new
  BY <1>1 DEF Shaped
<1>4. frames' = [m \in DOMAIN frames |-> frames'[m]]
  OBVIOUS
<1> HIDE DEF new
<1>5. frames' = [frames EXCEPT ![n] = new]
  BY <1>1, <1>2, <1>3, <1>4
<1> QED
  BY <1>5 DEF new

(* An instruction that defines a value, and one that does not.               *)
LEMMA TopDefines ==
    ASSUME NEW known, WellFormed(known), Standing(known), NEW v, frames' = Define(v), job' = job,
           Instruction.op \notin Effects
    PROVE  Standing(known)'
<1> DEFINE values == Updated(Top.values, Instruction.dest, v)
<1>1. DOMAIN values = {Instruction.dest} \cup DOMAIN Top.values
  BY DEF Updated
<1>2. frames' = [frames EXCEPT ![Len(frames)].pc = @ + 1, ![Len(frames)].values = values]
  BY DEF Define, Advance
<1>3. Instruction.op \notin Terminators /\ Instruction.op # "alloca"
  BY DEF Effects
<1> HIDE DEF values
<1>4. frames' = [frames EXCEPT ![Len(frames)] =
                    [fn |-> Top.fn, block |-> Top.block, pc |-> Top.pc + 1, values |-> values, slots |-> Top.slots]]
  BY <1>2, ValuesChange
<1> QED
  BY <1>1, <1>3, <1>4, TopAdvances

LEMMA TopEffects ==
    ASSUME NEW known, WellFormed(known), Standing(known), frames' = Advance(Top.values), job' = job,
           Instruction.op \in {"storeptr", "storeglobal"}
    PROVE  Standing(known)'
<1>1. frames' = [frames EXCEPT ![Len(frames)].pc = @ + 1, ![Len(frames)].values = Top.values]
  BY DEF Advance
<1>2. frames' = [frames EXCEPT ![Len(frames)] =
                    [fn |-> Top.fn, block |-> Top.block, pc |-> Top.pc + 1, values |-> Top.values, slots |-> Top.slots]]
  BY <1>1, ValuesChange
<1>3. Instruction.op \notin Terminators /\ Instruction.op \in Effects /\ Instruction.op # "alloca"
  BY DEF Effects, Terminators
<1> QED
  BY <1>2, <1>3, TopAdvances

(* A slot is allocated.                                                      *)
LEMMA TopAllocates ==
    ASSUME NEW known, WellFormed(known), Standing(known), NEW cell, job' = job,
           frames' = [frames EXCEPT ![Len(frames)].pc = @ + 1,
                                    ![Len(frames)].slots = Updated(@, Instruction.at, cell)],
           Instruction.op \in {"alloca", "store"}
    PROVE  Standing(known)'
<1> DEFINE slots == Updated(Top.slots, Instruction.at, cell)
<1>1. DOMAIN slots = {Instruction.at} \cup DOMAIN Top.slots
  BY DEF Updated
<1>2. frames' = [frames EXCEPT ![Len(frames)].pc = @ + 1, ![Len(frames)].slots = slots]
  BY TopStands
<1> HIDE DEF slots
<1>3. frames' = [frames EXCEPT ![Len(frames)] =
                    [fn |-> Top.fn, block |-> Top.block, pc |-> Top.pc + 1, values |-> Top.values, slots |-> slots]]
  BY <1>2, SlotsChange
<1>4. Instruction.op \notin Terminators /\ Instruction.op \in Effects
  BY DEF Effects, Terminators
<1> QED
  BY <1>1, <1>3, <1>4, TopAdvances

(* A block ends.                                                             *)
LEMMA TopJumps ==
    ASSUME NEW known, WellFormed(known), Standing(known), NEW to \in Leads(Instruction), job' = job,
           frames' = [frames EXCEPT ![Len(frames)].block = to, ![Len(frames)].pc = 1],
           Instruction.op \in {"jump", "branch"}
    PROVE  Standing(known)'
<1> DEFINE new == [fn |-> Top.fn, block |-> to, pc |-> 1, values |-> Top.values, slots |-> Top.slots]
<1>1. frames' = [frames EXCEPT ![Len(frames)] = new]
  BY BlockChanges
<1>2. Placed(new, known)
  BY TopStands, Jumped DEF Terminators
<1> HIDE DEF new
<1> QED
  BY <1>1, <1>2, TopMoves

(* A function is called, and returns.                                        *)
LEMMA TopCalls ==
    ASSUME NEW known, WellFormed(known), Standing(known), NEW args, NEW base, job' = job,
           Instruction.op = "call", Instruction.name \in DOMAIN Functions,
           frames' = Append(frames, Frame(Instruction.name, args, base))
    PROVE  Standing(known)'
<1> DEFINE new == Frame(Instruction.name, args, base)
<1>1. Placed(new, known)
  BY Entered
<1> HIDE DEF new
<1>2. /\ IsSequence(frames') /\ Len(frames') = Len(frames) + 1 /\ frames' # <<>>
      /\ frames'[Len(frames')] = new /\ \A m \in 1..Len(frames) : frames'[m] = frames[m]
  BY Pushed DEF Standing, new
<1>3. /\ Len(frames) \in Nat \ {0}
      /\ Code(frames[Len(frames)])[frames[Len(frames)].pc].op = "call"
  BY TopStands
<1>4. \A n \in 1..Len(frames') : Placed(frames'[n], known)
  BY <1>1, <1>2, <1>3 DEF Standing
<1>5. \A n \in 1..(Len(frames') - 1) : Code(frames'[n])[frames'[n].pc].op = "call"
  BY <1>2, <1>3 DEF Standing
<1> QED
  BY <1>2, <1>4, <1>5 DEF Standing, Placed, Code, Functions, Held

LEMMA RestMoves ==
    ASSUME NEW known, WellFormed(known), NEW rest, NEW S, rest \in Seq(S), NEW n \in Nat \ {0}, n = Len(rest),
           \A m \in 1..n : Placed(rest[m], known) /\ Code(rest[m])[rest[m].pc].op = "call",
           NEW kept, DOMAIN rest[n].values \subseteq DOMAIN kept,
           LET call == Code(rest[n])[rest[n].pc] IN call.dest # 0 => call.dest \in DOMAIN kept,
           frames' = [rest EXCEPT ![n].pc = @ + 1, ![n].values = kept], job' = job
    PROVE  Standing(known)'
<1> DEFINE caller == rest[n]
           call == Code(caller)[caller.pc]
           new == [fn |-> caller.fn, block |-> caller.block, pc |-> caller.pc + 1, values |-> kept,
                   slots |-> caller.slots]
<1>1. Placed(caller, known) /\ call.op = "call" /\ Shaped(caller)
  <2>1. n \in 1..n
    OBVIOUS
  <2>2. Placed(caller, known) /\ call.op = "call"
    BY <2>1
  <2> QED
    BY <2>2 DEF Placed
<1>2. call.op \notin Terminators /\ call.op # "alloca"
  BY <1>1 DEF Terminators
<1>3. Held(caller) \cup Defines(call) \subseteq Held(new)
  BY <1>2 DEF Held, Defines
<1>4. Placed(new, known)
  <2> HIDE DEF caller
  <2> QED
    BY <1>1, <1>2, <1>3, Advanced
<1>5. DOMAIN rest = 1..n /\ n \in 1..n /\ \A m \in 1..n : rest[m] \in S
  OBVIOUS
<1>6. DOMAIN frames' = 1..n /\ \A m \in 1..n : m # n => frames'[m] = rest[m]
  BY <1>5
<1>7. frames'[n] = new
  <2>1. frames'[n] = [caller EXCEPT !.pc = @ + 1, !.values = kept]
    BY <1>5
  <2> QED
    BY <1>1, <1>5 DEF Shaped
<1>8. frames' = [m \in 1..n |-> frames'[m]]
  BY <1>5
<1> HIDE DEF new, call, caller
<1>9. \A m \in 1..n : frames'[m] \in S \cup {new}
  BY <1>5, <1>6, <1>7
<1>10. IsSequence(frames') /\ Len(frames') = n /\ frames' # <<>>
  <2>1. [m \in 1..n |-> frames'[m]] \in Seq(S \cup {new})
    BY <1>9
  <2>2. frames' \in Seq(S \cup {new})
    BY <1>8, <2>1
  <2>3. Len(frames') = n
    BY <1>6, <2>2
  <2> QED
    BY <2>2, <2>3 DEF IsSequence
<1>11. \A m \in 1..n : Placed(frames'[m], known)
  BY <1>4, <1>6, <1>7
<1>12. \A m \in 1..(n - 1) : Code(frames'[m])[frames'[m].pc].op = "call"
  BY <1>6
<1> QED
  BY <1>10, <1>11, <1>12 DEF Standing, Placed, Code, Functions, Held, Shaped

LEMMA TopReturns ==
    ASSUME NEW known, WellFormed(known), Standing(known), NEW v, job' = job, Len(frames) # 1,
           LET rest == Front(frames)
               caller == Last(rest)
               call == Functions[caller.fn].blocks[caller.block][caller.pc]
               kept == IF call.dest = 0 THEN caller.values ELSE Updated(caller.values, call.dest, v)
           IN  frames' = [rest EXCEPT ![Len(rest)].pc = @ + 1, ![Len(rest)].values = kept]
    PROVE  Standing(known)'
<1> DEFINE rest == Front(frames)
           n == Len(rest)
           caller == rest[n]
           call == Code(caller)[caller.pc]
           kept == IF call.dest = 0 THEN caller.values ELSE Updated(caller.values, call.dest, v)
<1>1. frames' = [rest EXCEPT ![n].pc = @ + 1, ![n].values = kept]
  BY DEF Last, Code
<1>2. /\ IsSequence(rest) /\ n = Len(frames) - 1 /\ n \in Nat \ {0}
      /\ \A m \in 1..n : rest[m] = frames[m]
  BY Popped DEF Standing
<1>3. DOMAIN caller.values \subseteq DOMAIN kept /\ (call.dest # 0 => call.dest \in DOMAIN kept)
  BY DEF Updated
<1> HIDE DEF kept, rest
<1>4. \A m \in 1..n : Placed(rest[m], known) /\ Code(rest[m])[rest[m].pc].op = "call"
  BY <1>2, TopStands DEF Standing
<1>5. PICK S : rest \in Seq(S)
  BY <1>2 DEF IsSequence
<1> QED
  BY <1>1, <1>2, <1>3, <1>4, <1>5, RestMoves

-----------------------------------------------------------------------------
(* Why an instruction of well formed code cannot run, and that it can call.  *)

Undefined ==
    {"undefined value", "uninitialized slot", "missing block", "fell off block",
     "unavailable function", "wrong number of arguments"}

LEMMA NeedsHeld ==
    ASSUME NEW known, WellFormed(known), Standing(known)
    PROVE  /\ Needs(Instruction) \subseteq Held(Top)
           /\ Instruction.op = "call" /\ Instruction.name # PanicCallee =>
                 /\ Instruction.name \in DOMAIN Functions
                 /\ Len(Instruction.args) = Functions[Instruction.name].params
<1> DEFINE code == Functions[Top.fn]
<1>1. /\ Placed(Top, known) /\ Here = Code(Top) /\ Instruction = Code(Top)[Top.pc]
  BY TopStands
<1>2. Top.fn \in DOMAIN Functions /\ Top.block \in DOMAIN known[Top.fn]
  BY <1>1 DEF Placed
<1>3. DefinesFirst(code, known[Top.fn]) /\ CallsMatch(Functions, code)
  BY <1>2 DEF WellFormed
<1>4. Top.pc \in DOMAIN Code(Top) /\ Top.block \in DOMAIN code.blocks
  BY <1>1, TerminatorLast
<1>5. Needs(Instruction) \subseteq known[Top.fn][Top.block] \cup DefinedBefore(Code(Top), Top.pc)
  BY <1>1, <1>2, <1>3, <1>4 DEF DefinesFirst, Code
<1>6. Needs(Instruction) \subseteq Held(Top)
  BY <1>1, <1>5 DEF Placed
<1>7. Instruction.op = "call" /\ Instruction.name # PanicCallee =>
         /\ Instruction.name \in DOMAIN Functions
         /\ Len(Instruction.args) = Functions[Instruction.name].params
  BY <1>1, <1>3, <1>4 DEF CallsMatch, Code
<1> QED
  BY <1>6, <1>7

LEMMA FailureKnown ==
    ASSUME NEW known, WellFormed(known), Standing(known)
    PROVE  Failure \notin Undefined
<1> DEFINE i == Instruction
           v == Operands(i, Top.values).v
<1>1. \A x : <<"value", x>> \in Held(Top) => x \in DOMAIN Top.values
  BY DEF Held
<1>2. \A x : <<"slot", x>> \in Held(Top) => x \in DOMAIN Top.slots
  BY DEF Held
<1>3. \A j \in DOMAIN i.args : i.args[j].k = "value" => i.args[j].id \in DOMAIN Top.values
  BY <1>1, NeedsHeld DEF Needs
<1>4. i.op \in {"load", "addressof"} => i.at \in DOMAIN Top.slots
  BY <1>2, NeedsHeld DEF Needs
<1>5. ~(i.op = "call" /\ i.name \notin DOMAIN Functions \cup {PanicCallee})
  BY NeedsHeld
<1>6. ~(i.op = "call" /\ i.name # PanicCallee /\ Len(i.args) # Functions[i.name].params)
  BY NeedsHeld
<1> QED
  BY <1>3, <1>4, <1>5, <1>6 DEF Failure, Undefined

LEMMA CalleeThere ==
    ASSUME NEW known, WellFormed(known), Standing(known), Instruction.op = "call", Failure = ""
    PROVE  Instruction.name \in DOMAIN Functions
<1>1. ASSUME Instruction.name = PanicCallee PROVE FALSE
  BY <1>1 DEF Failure
<1> QED
  BY <1>1, NeedsHeld

-----------------------------------------------------------------------------
(* Every step of well formed code leaves the frames standing.                *)

LEMMA ValuesDefined ==
    ASSUME NEW known, WellFormed(known), Standing(known), job' = job,
           TakeAddress \/ LoadSlot \/ LoadPointer \/ InsertValue \/ ExtractValue \/ LoadGlobal
    PROVE  Standing(known)'
<1>1. ASSUME NEW v, frames' = Define(v),
             Instruction.op \in {"addressof", "addressofglobal", "unionaddress", "fieldaddress", "load",
                                 "loadptr", "insert", "extract", "loadglobal"}
      PROVE  Standing(known)'
  <2>1. Instruction.op \notin Effects
    BY <1>1 DEF Effects, Terminators
  <2> QED
    BY <1>1, <2>1, TopDefines
<1>2. CASE TakeAddress
  <2>1. CASE Runs("addressof") /\ frames' = Define(PtrV(Top.slots[Instruction.at], <<>>))
    BY <2>1, <1>1 DEF Runs
  <2>2. CASE Runs("addressofglobal") /\ frames' = Define(PtrV(GlobalCell(Instruction.name), <<>>))
    BY <2>2, <1>1 DEF Runs
  <2>3. ASSUME NEW union \in BOOLEAN,
               Runs(IF union THEN "unionaddress" ELSE "fieldaddress"),
               LET step == [i |-> IF union THEN 1 ELSE Instruction.at, union |-> union]
               IN  frames' = Define([In.v[1] EXCEPT !.path = Append(@, step)])
        PROVE  Standing(known)'
    <3>1. Instruction.op \in {"unionaddress", "fieldaddress"}
      BY <2>3 DEF Runs
    <3> QED
      BY <2>3, <3>1, <1>1
  <2> QED
    BY <1>2, <2>1, <2>2, <2>3 DEF TakeAddress
<1>3. CASE LoadSlot
  BY <1>3, <1>1 DEF LoadSlot, Runs
<1>4. CASE LoadPointer
  BY <1>4, <1>1 DEF LoadPointer, Runs
<1>5. CASE InsertValue
  <2>1. Instruction.op = "insert" /\ \E v : frames' = Define(v)
    BY <1>5 DEF InsertValue, Runs
  <2> QED
    BY <2>1, <1>1
<1>6. CASE ExtractValue
  BY <1>6, <1>1 DEF ExtractValue, Runs
<1>7. CASE LoadGlobal
  BY <1>7, <1>1 DEF LoadGlobal, Runs
<1> QED
  BY <1>2, <1>3, <1>4, <1>5, <1>6, <1>7

LEMMA ResultsDefined ==
    ASSUME NEW known, WellFormed(known), Standing(known), job' = job, Arithmetic \/ Compare
    PROVE  Standing(known)'
<1>1. Instruction.op \in {"add", "sub", "mul", "div", "mod", "bitand", "bitor",
                          "eq", "ne", "lt", "le", "gt", "ge", "not"}
  BY DEF Arithmetic, Compare, Runs
<1>2. \E v : frames' = Define(v)
  BY DEF Arithmetic, Compare
<1>3. Instruction.op \notin Effects
  BY <1>1 DEF Effects, Terminators
<1> QED
  BY <1>2, <1>3, TopDefines

LEMMA StepStands ==
    ASSUME NEW known, WellFormed(known), Standing(known), Step
    PROVE  Standing(known)'
<1>1. job' = job
  BY DEF Step, Alloca, LoadSlot, StoreSlot, TakeAddress, LoadPointer, StorePointer, InsertValue,
         ExtractValue, LoadGlobal, StoreGlobal, Arithmetic, Compare, Call, Goto, Return, Stop
<1>2. CASE Alloca
  BY <1>1, <1>2, TopAllocates DEF Alloca, Runs
<1>3. CASE StoreSlot
  <2>1. PICK at : frames' = [frames EXCEPT ![Len(frames)].pc = @ + 1,
                                           ![Len(frames)].slots = Updated(@, Instruction.at, at)]
    BY <1>3 DEF StoreSlot
  <2> QED
    BY <1>1, <1>3, <2>1, TopAllocates DEF StoreSlot, Runs
<1>4. CASE TakeAddress \/ LoadSlot \/ LoadPointer \/ InsertValue \/ ExtractValue \/ LoadGlobal
  BY <1>1, <1>4, ValuesDefined
<1>5. CASE StorePointer
  BY <1>1, <1>5, TopEffects DEF StorePointer, Runs
<1>6. CASE StoreGlobal
  BY <1>1, <1>6, TopEffects DEF StoreGlobal, Runs
<1>7. CASE Arithmetic \/ Compare
  BY <1>1, <1>7, ResultsDefined
<1>8. CASE Call
  <2>1. Instruction.op = "call" /\ Failure = ""
    BY <1>8 DEF Call, Runs
  <2>2. Instruction.name \in DOMAIN Functions
    BY <2>1, CalleeThere
  <2> QED
    BY <1>1, <1>8, <2>1, <2>2, TopCalls DEF Call
<1>9. CASE Goto
  <2>1. PICK to \in Leads(Instruction) :
            frames' = [frames EXCEPT ![Len(frames)].block = to, ![Len(frames)].pc = 1]
    BY <1>9 DEF Goto, Leads, Runs
  <2>2. Instruction.op \in {"jump", "branch"}
    BY <1>9 DEF Goto, Runs
  <2> QED
    BY <1>1, <2>1, <2>2, TopJumps
<1>10. CASE Return
  <2>1. CASE Len(frames) = 1
    <3>1. frames' = frames
      BY <1>10, <2>1 DEF Return
    <3> QED
      BY <1>1, <3>1 DEF Standing, Placed, Shaped, Code, Functions, Held
  <2>2. CASE Len(frames) # 1
    BY <1>1, <1>10, <2>2, TopReturns DEF Return
  <2> QED
    BY <2>1, <2>2
<1>11. CASE Stop
  <2>1. frames' = frames
    BY <1>11 DEF Stop
  <2> QED
    BY <1>1, <2>1 DEF Standing, Placed, Shaped, Code, Functions, Held
<1> QED
  BY <1>2, <1>3, <1>4, <1>5, <1>6, <1>7, <1>8, <1>9, <1>10, <1>11 DEF Step

(* It stops for a reason that well formed code may have.                     *)
LEMMA StopsDefined ==
    ASSUME NEW known, WellFormed(known), Standing(known), Stop
    PROVE  NeverUndefined'
<1>1. Top.block \in DOMAIN Blocks /\ Placed(Top, known) /\ Here = Code(Top)
  BY TopStands, TerminatorLast DEF Blocks
<1>2. ~(Top.pc > Len(Here))
  <2>1. Top.pc \in 1..Len(Here)
    BY <1>1 DEF Placed
  <2>2. Len(Here) \in Nat
    <3>1. /\ Top.fn \in DOMAIN Functions /\ Here = Functions[Top.fn].blocks[Top.block]
          /\ Top.block \in DOMAIN Functions[Top.fn].blocks
      BY <1>1 DEF Placed, Code, Blocks
    <3> QED
      BY <3>1 DEF WellFormed, Closed, Filled
  <2> QED
    BY <2>1, <2>2
<1>3. outcome' = Ended("error", Failure, VoidV)
  BY <1>1, <1>2 DEF Stop
<1>4. outcome'.why = Failure
  BY <1>3 DEF Ended
<1> QED
  BY <1>4, FailureKnown DEF NeverUndefined, Undefined

LEMMA InitStands ==
    ASSUME Init, NEW known, WellFormed(known)
    PROVE  Standing(known) /\ NeverUndefined
<1>1. "main" \in DOMAIN Functions
  BY DEF WellFormed
<1> DEFINE main == Frame("main", StartArgs, Len(StartGlobals.v))
<1>2. Placed(main, known)
  BY <1>1, Entered
<1>3. frames = <<main>> /\ outcome.k = "run"
  BY DEF Init, Begins, StartFrames, Ended
<1> HIDE DEF main
<1>4. frames \in Seq({main}) /\ Len(frames) = 1 /\ frames # <<>> /\ frames[1] = main
  BY <1>3
<1>5. Standing(known)
  BY <1>2, <1>4 DEF Standing, IsSequence
<1> QED
  BY <1>3, <1>5 DEF NeverUndefined

LEMMA InvKept ==
    ASSUME Inv, [Next]_vars
    PROVE  Inv'
<1>1. job' = job
  BY DEF Next, vars, Step, Alloca, LoadSlot, StoreSlot, TakeAddress, LoadPointer, StorePointer, InsertValue,
         ExtractValue, LoadGlobal, StoreGlobal, Arithmetic, Compare, Call, Goto, Return, Stop
<1> SUFFICES ASSUME NEW known, WellFormed(known)'
             PROVE  (Standing(known) /\ NeverUndefined)'
  BY DEF Inv
<1>2. WellFormed(known)
  BY <1>1 DEF WellFormed, Functions
<1>3. Standing(known) /\ NeverUndefined
  BY <1>2 DEF Inv
<1>4. CASE Step
  <2>1. Standing(known)'
    BY <1>2, <1>3, <1>4, StepStands
  <2>2. CASE Stop
    BY <1>2, <1>3, <2>1, <2>2, StopsDefined
  <2>3. CASE ~Stop
    <3>1. CASE Return
      <4>1. outcome' = outcome \/ \E v : outcome' = Ended("done", "", v)
        BY <3>1 DEF Return
      <4>2. \A v : Ended("done", "", v).k = "done"
        BY DEF Ended
      <4> QED
        BY <1>3, <2>1, <4>1, <4>2 DEF NeverUndefined
    <3>2. CASE ~Return
      <4>1. outcome' = outcome
        BY <1>4, <2>3, <3>2 DEF Step, Alloca, LoadSlot, StoreSlot, TakeAddress, LoadPointer, StorePointer,
               InsertValue, ExtractValue, LoadGlobal, StoreGlobal, Arithmetic, Compare, Call, Goto
      <4> QED
        BY <1>3, <2>1, <4>1 DEF NeverUndefined
    <3> QED
      BY <3>1, <3>2
  <2> QED
    BY <2>1, <2>2, <2>3
<1>5. CASE UNCHANGED vars
  BY <1>3, <1>5 DEF vars, NeverUndefined, Standing, Placed, Shaped, Code, Functions, Held
<1> QED
  BY <1>4, <1>5 DEF Next

(* If the code of every function is closed, defines before it uses on every  *)
(* way, and calls what there is, then run() of eval.go never reports an      *)
(* undefined value, a slot that is not allocated, a missing block, a block   *)
(* without a terminator, a missing callee or a wrong number of arguments.    *)
THEOREM RunsDefined == Spec => []((\E known : WellFormed(known)) => NeverUndefined)
<1>1. Init => Inv
  BY InitStands DEF Inv
<1>2. Inv /\ [Next]_vars => Inv'
  BY InvKept
<1>3. Inv => ((\E known : WellFormed(known)) => NeverUndefined)
  BY DEF Inv
<1> QED
  BY <1>1, <1>2, <1>3, PTL DEF Spec
=============================================================================
