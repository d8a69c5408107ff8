---------------------------- MODULE DemandsProofs ----------------------------
(***************************************************************************)
(* Theorems about the demands, for every program over any sets of          *)
(* functions, modules and literals.                                        *)
(***************************************************************************)
EXTENDS Demands, TLAPS

-----------------------------------------------------------------------------
(* Programs and what their calls demand.                                    *)

LEMMA ProgramFacts ==
    ASSUME program \in Program
    PROVE  /\ Len(Calls) \in Nat
           /\ \A k \in 1..Len(Calls) : Calls[k] \in CallNode /\ WellFormed(program, Calls[k])
           /\ program.main \in Function /\ Fixed(program.main) = 0 /\ ~IsVariadic(program.main)
           /\ \A f \in Function :
                /\ Fixed(f) \in Nat /\ IsVariadic(f) \in BOOLEAN
                /\ DOMAIN program.defaults[f] \subseteq 1..Fixed(f)
                /\ IsVariadic(f) => DOMAIN program.defaults[f] = {}
<1>1. program.calls \in Seq(CallNode)
  BY ProgramAssumption
<1>2. Len(program.calls) \in Nat /\ DOMAIN program.calls = 1..Len(program.calls)
      /\ \A k \in 1..Len(program.calls) : program.calls[k] \in CallNode
  BY <1>1
<1>. QED
  BY <1>1, <1>2, ProgramAssumption DEF Calls, Fixed, IsVariadic

LEMMA CallFacts ==
    ASSUME NEW call \in CallNode
    PROVE  /\ call.caller \in Function /\ call.callee \in Function
           /\ Len(call.args) \in Nat /\ DOMAIN call.args = 1..Len(call.args)
           /\ \A i \in DOMAIN call.args :
                /\ i \in Index
                /\ call.args[i].kind = "constant" => call.args[i].constant \in Constant
                /\ call.args[i].kind = "parameter" => call.args[i].index \in Index
           /\ call.tail.kind = "elements" => Len(call.tail.elements) \in Nat
           /\ call.tail.kind \in {"elements", "own", "slice"}
<1>1. call.args \in Seq(Arg) /\ call.tail \in Tails
  BY DEF CallNode
<1>2. Len(call.args) \in Nat /\ DOMAIN call.args = 1..Len(call.args)
      /\ \A i \in 1..Len(call.args) : call.args[i] \in Arg
  BY <1>1
<1>3. ASSUME NEW arg \in Arg
      PROVE  /\ arg.kind = "constant" => arg.constant \in Constant
             /\ arg.kind = "parameter" => arg.index \in Index
  BY DEF Arg
<1>4. call.tail.kind = "elements" => call.tail.elements \in Seq(Arg)
  BY <1>1 DEF Tails
<1>5. call.tail.kind = "elements" => Len(call.tail.elements) \in Nat
  BY <1>4
<1>6. call.tail.kind \in {"elements", "own", "slice"}
  BY <1>1 DEF Tails
<1>. QED
  BY <1>2, <1>3, <1>5, <1>6 DEF CallNode, Index

LEMMA DemandTypes ==
    ASSUME NEW call \in CallNode
    PROVE  /\ LiteralsOf(call) \subseteq ConstantDemand
           /\ ForwardsOf(call) \subseteq Function \X Index \X Function \X Index
           /\ AritiesOf(call) \subseteq ArityDemand
           /\ SpreadsOf(call) \subseteq Function \X Function
  BY CallFacts DEF LiteralsOf, ForwardsOf, AritiesOf, SpreadsOf, ConstantDemand, ArityDemand

LEMMA ProgramDemandTypes ==
    ASSUME program \in Program
    PROVE  /\ Literals \subseteq ConstantDemand
           /\ Forwards \subseteq Function \X Index \X Function \X Index
           /\ Arities \subseteq ArityDemand
           /\ Spreads \subseteq Function \X Function
  BY ProgramFacts, DemandTypes DEF Literals, Forwards, Arities, Spreads

-----------------------------------------------------------------------------
(* The invariant of the fixed points.                                       *)

\* While the program is validated, what was recorded is what the calls so far demand.
RecordedUpTo(n) ==
    /\ \A k \in 1..n : /\ LiteralsOf(Calls[k]) \subseteq constants
                       /\ ForwardsOf(Calls[k]) \subseteq forwards
                       /\ AritiesOf(Calls[k]) \subseteq arities
                       /\ SpreadsOf(Calls[k]) \subseteq spreads
    /\ \A d \in constants : \E k \in 1..n : d \in LiteralsOf(Calls[k])
    /\ \A d \in forwards : \E k \in 1..n : d \in ForwardsOf(Calls[k])
    /\ \A d \in arities : \E k \in 1..n : d \in AritiesOf(Calls[k])
    /\ \A d \in spreads : \E k \in 1..n : d \in SpreadsOf(Calls[k])
Recorded ==
    pc = "validate" => RecordedUpTo(at - 1) /\ todo = {} /\ changed = FALSE
\* Afterwards only the demands grow.
Collected ==
    pc # "validate" =>
        /\ forwards = Forwards /\ spreads = Spreads
        /\ Literals \subseteq constants
        /\ Arities \subseteq arities
        /\ pc = "constants" => todo \subseteq forwards /\ arities = Arities
        /\ pc = "arities" => todo \subseteq spreads
\* Nothing is recorded that a closed set could do without.
Needed ==
    pc # "validate" =>
        /\ \A S \in SUBSET ConstantDemand :
              (Literals \subseteq S /\ ClosedConstants(S)) => constants \subseteq S
        /\ \A S \in SUBSET ArityDemand :
              (Arities \subseteq S /\ ClosedArities(S)) => arities \subseteq S
\* A round that has found nothing leaves the entries it went past closed.
Settled ==
    /\ pc = "constants" /\ ~changed =>
          \A e \in forwards \ todo : \A d \in constants :
             (d[1] = e[1] /\ d[2] = e[2]) => <<e[3], e[4], d[3]>> \in constants
    /\ pc \notin {"validate", "constants"} => ClosedConstants(constants)
    /\ pc = "arities" /\ ~changed =>
          \A e \in spreads \ todo : \A d \in arities : d[1] = e[1] => <<e[2], d[2]>> \in arities
    /\ pc \in {"generate", "run"} => ClosedArities(arities)

FixedPointInv ==
    /\ program \in Program
    /\ TypeOK
    /\ Recorded /\ Collected /\ Needed /\ Settled

LEMMA FixedPointInit == Init => FixedPointInv
<1> SUFFICES ASSUME Init PROVE FixedPointInv
  OBVIOUS
<1>. USE DEF Init
<1>1. 1 \in 1..(Len(Calls) + 1)
  BY ProgramFacts
<1>2. at - 1 = 0 /\ 1..(at - 1) = {}
  OBVIOUS
<1>3. Recorded
  BY <1>2 DEF Recorded, RecordedUpTo
<1>. QED
  BY <1>1, <1>3 DEF FixedPointInv, TypeOK, Collected, Needed, Settled

LEMMA ValidateCallKeeps ==
    ASSUME FixedPointInv, ValidateCall
    PROVE  FixedPointInv'
<1>. USE DEF FixedPointInv, ValidateCall
<1>1. at \in 1..Len(Calls) /\ Len(Calls) \in Nat /\ Calls[at] \in CallNode /\ Calls' = Calls
  BY ProgramFacts DEF TypeOK, Calls
<1>2. TypeOK'
  BY <1>1, DemandTypes DEF TypeOK
<1>3. 1..(at' - 1) = (1..(at - 1)) \cup {at}
  BY <1>1
<1>4. /\ LiteralsOf(Calls[at]) \subseteq constants' /\ ForwardsOf(Calls[at]) \subseteq forwards'
      /\ AritiesOf(Calls[at]) \subseteq arities' /\ SpreadsOf(Calls[at]) \subseteq spreads'
  OBVIOUS
<1>5. Recorded'
  <2>1. \A k : /\ LiteralsOf(Calls[k])' = LiteralsOf(Calls[k])
               /\ ForwardsOf(Calls[k])' = ForwardsOf(Calls[k])
               /\ AritiesOf(Calls[k])' = AritiesOf(Calls[k])
               /\ SpreadsOf(Calls[k])' = SpreadsOf(Calls[k])
    BY DEF LiteralsOf, ForwardsOf, AritiesOf, SpreadsOf, Calls, IsMutable, IsVariadic
  <2>2. RecordedUpTo(at - 1)
    BY DEF Recorded
  <2>3. \A k \in 1..(at' - 1) :
           /\ LiteralsOf(Calls[k]) \subseteq constants' /\ ForwardsOf(Calls[k]) \subseteq forwards'
           /\ AritiesOf(Calls[k]) \subseteq arities' /\ SpreadsOf(Calls[k]) \subseteq spreads'
    BY <1>3, <1>4, <2>2 DEF RecordedUpTo
  <2>4. \A d \in constants' : \E k \in 1..(at' - 1) : d \in LiteralsOf(Calls[k])
    BY <1>3, <2>2 DEF RecordedUpTo
  <2>5. \A d \in forwards' : \E k \in 1..(at' - 1) : d \in ForwardsOf(Calls[k])
    BY <1>3, <2>2 DEF RecordedUpTo
  <2>6. \A d \in arities' : \E k \in 1..(at' - 1) : d \in AritiesOf(Calls[k])
    BY <1>3, <2>2 DEF RecordedUpTo
  <2>7. \A d \in spreads' : \E k \in 1..(at' - 1) : d \in SpreadsOf(Calls[k])
    BY <1>3, <2>2 DEF RecordedUpTo
  <2>8. todo' = {} /\ changed' = FALSE
    BY DEF Recorded
  <2>. HIDE DEF FixedPointInv, ValidateCall
  <2>9. RecordedUpTo(at - 1)'
    BY <2>1, <2>3, <2>4, <2>5, <2>6, <2>7 DEF RecordedUpTo
  <2>. QED
    BY <2>8, <2>9 DEF Recorded
<1>. QED
  BY <1>2, <1>5 DEF Collected, Needed, Settled

\* What the calls demand depends on the program only.
LEMMA DemandsConstant ==
    ASSUME program' = program
    PROVE  /\ Calls' = Calls
           /\ Literals' = Literals /\ Forwards' = Forwards
           /\ Arities' = Arities /\ Spreads' = Spreads
<1>1. Calls' = Calls
  BY DEF Calls
<1>. QED
  BY <1>1 DEF Literals, Forwards, Arities, Spreads, LiteralsOf, ForwardsOf, AritiesOf, SpreadsOf,
              IsMutable, IsVariadic

LEMMA ValidatedKeeps ==
    ASSUME FixedPointInv, Validated
    PROVE  FixedPointInv'
<1>. USE DEF Validated
<1>1. program' = program /\ program \in Program /\ TypeOK /\ Len(Calls) \in Nat
  BY ProgramFacts DEF FixedPointInv
<1>2. at - 1 = Len(Calls) /\ RecordedUpTo(Len(Calls)) /\ todo = {} /\ changed = FALSE
  BY <1>1 DEF FixedPointInv, Recorded
<1>3. constants = Literals /\ forwards = Forwards /\ arities = Arities /\ spreads = Spreads
  BY <1>2 DEF RecordedUpTo, Literals, Forwards, Arities, Spreads
<1>4. /\ Calls' = Calls /\ Literals' = Literals /\ Forwards' = Forwards
      /\ Arities' = Arities /\ Spreads' = Spreads
  BY <1>1, DemandsConstant
<1>5. TypeOK'
  BY <1>1, <1>4 DEF TypeOK
<1>6. Recorded'
  BY DEF Recorded
<1>7. Collected'
  BY <1>3, <1>4 DEF Collected
<1>8. Needed'
  BY <1>3, <1>4 DEF Needed
<1>9. Settled'
  BY DEF Settled
<1>. QED
  BY <1>1, <1>5, <1>6, <1>7, <1>8, <1>9 DEF FixedPointInv

LEMMA ForwardConstantsKeeps ==
    ASSUME FixedPointInv, ForwardConstants
    PROVE  FixedPointInv'
<1>1. PICK e \in todo :
        LET pushed == {<<e[3], e[4], d[3]>> : d \in {x \in constants : x[1] = e[1] /\ x[2] = e[2]}} IN
        /\ constants' = constants \cup pushed
        /\ changed' = (changed \/ ~(pushed \subseteq constants))
        /\ todo' = todo \ {e}
  BY DEF ForwardConstants
<1> DEFINE pushed == {<<e[3], e[4], d[3]>> : d \in {x \in constants : x[1] = e[1] /\ x[2] = e[2]}}
<1>2. /\ pc = "constants" /\ pc' = pc /\ program' = program /\ at' = at
      /\ forwards' = forwards /\ spreads' = spreads /\ arities' = arities
  BY DEF ForwardConstants
<1>3. /\ program \in Program /\ TypeOK /\ todo \subseteq forwards
      /\ forwards = Forwards /\ spreads = Spreads
      /\ Literals \subseteq constants /\ arities = Arities
  BY <1>2 DEF FixedPointInv, Collected
<1>4. pushed \subseteq ConstantDemand
  BY <1>3 DEF TypeOK, ConstantDemand
<1>5. TypeOK'
  BY <1>1, <1>2, <1>3, <1>4 DEF TypeOK, Calls
<1>6. Collected' /\ Recorded'
  BY <1>1, <1>2, <1>3, DemandsConstant DEF Collected, Recorded
<1>7. Needed'
  <2>1. ASSUME NEW S \in SUBSET ConstantDemand, Literals \subseteq S, ClosedConstants(S)
        PROVE  pushed \subseteq S
    <3>1. constants \subseteq S
      BY <1>2, <2>1 DEF FixedPointInv, Needed
    <3>2. e \in Forwards
      BY <1>3
    <3>. QED
      BY <2>1, <3>1, <3>2 DEF ClosedConstants
  <2>2. \A S : ClosedConstants(S)' = ClosedConstants(S) /\ ClosedArities(S)' = ClosedArities(S)
    BY <1>2, DemandsConstant DEF ClosedConstants, ClosedArities
  <2>. HIDE DEF pushed
  <2>3. constants' = constants \cup pushed
    BY <1>1 DEF pushed
  <2>. QED
    BY <1>2, <2>1, <2>2, <2>3, DemandsConstant DEF FixedPointInv, Needed
<1>8. Settled'
  <2>1. ASSUME ~changed'
        PROVE  pushed \subseteq constants /\ constants' = constants /\ ~changed
    BY <1>1, <2>1
  <2>2. ASSUME ~changed'
        PROVE  \A f \in forwards \ todo' : \A d \in constants :
                  (d[1] = f[1] /\ d[2] = f[2]) => <<f[3], f[4], d[3]>> \in constants
    BY <1>1, <1>2, <2>1, <2>2 DEF FixedPointInv, Settled
  <2>. QED
    BY <1>2, <2>1, <2>2 DEF Settled
<1>. QED
  BY <1>2, <1>3, <1>5, <1>6, <1>7, <1>8 DEF FixedPointInv

LEMMA ConstantsRoundKeeps ==
    ASSUME FixedPointInv, ConstantsRound
    PROVE  FixedPointInv'
<1>1. /\ pc = "constants" /\ todo = {} /\ program' = program /\ at' = at /\ changed' = FALSE
      /\ constants' = constants /\ forwards' = forwards /\ spreads' = spreads /\ arities' = arities
      /\ \/ changed /\ todo' = forwards /\ pc' = pc
         \/ ~changed /\ todo' = spreads /\ pc' = "arities"
  BY DEF ConstantsRound
<1>2. /\ program \in Program /\ TypeOK
      /\ forwards = Forwards /\ spreads = Spreads
      /\ Literals \subseteq constants /\ arities = Arities
  BY <1>1 DEF FixedPointInv, Collected
<1>3. TypeOK'
  BY <1>1, <1>2, DemandsConstant DEF TypeOK
<1>4. Collected' /\ Recorded'
  BY <1>1, <1>2, DemandsConstant DEF Collected, Recorded
<1>5. \A S : ClosedConstants(S)' = ClosedConstants(S) /\ ClosedArities(S)' = ClosedArities(S)
  BY <1>1, DemandsConstant DEF ClosedConstants, ClosedArities
<1>6. Needed'
  BY <1>1, <1>5, DemandsConstant DEF FixedPointInv, Needed
<1>7. ~changed => ClosedConstants(constants)
  BY <1>1, <1>2 DEF FixedPointInv, Settled, ClosedConstants
<1>8. Settled'
  BY <1>1, <1>5, <1>7 DEF Settled
<1>. QED
  BY <1>1, <1>2, <1>3, <1>4, <1>6, <1>8 DEF FixedPointInv

LEMMA ForwardAritiesKeeps ==
    ASSUME FixedPointInv, ForwardArities
    PROVE  FixedPointInv'
<1>1. PICK e \in todo :
        LET pushed == {<<e[2], d[2]>> : d \in {x \in arities : x[1] = e[1]}} IN
        /\ arities' = arities \cup pushed
        /\ changed' = (changed \/ ~(pushed \subseteq arities))
        /\ todo' = todo \ {e}
  BY DEF ForwardArities
<1> DEFINE pushed == {<<e[2], d[2]>> : d \in {x \in arities : x[1] = e[1]}}
<1>2. /\ pc = "arities" /\ pc' = pc /\ program' = program /\ at' = at
      /\ forwards' = forwards /\ spreads' = spreads /\ constants' = constants
  BY DEF ForwardArities
<1>3. /\ program \in Program /\ TypeOK /\ todo \subseteq spreads
      /\ forwards = Forwards /\ spreads = Spreads
      /\ Literals \subseteq constants /\ Arities \subseteq arities
  BY <1>2 DEF FixedPointInv, Collected
<1>4. pushed \subseteq ArityDemand
  BY <1>3 DEF TypeOK, ArityDemand
<1>5. TypeOK'
  BY <1>1, <1>2, <1>3, <1>4 DEF TypeOK, Calls
<1>6. Collected' /\ Recorded'
  BY <1>1, <1>2, <1>3, DemandsConstant DEF Collected, Recorded
<1>7. \A S : ClosedConstants(S)' = ClosedConstants(S) /\ ClosedArities(S)' = ClosedArities(S)
  BY <1>2, DemandsConstant DEF ClosedConstants, ClosedArities
<1>8. Needed'
  <2>1. ASSUME NEW S \in SUBSET ArityDemand, Arities \subseteq S, ClosedArities(S)
        PROVE  pushed \subseteq S
    <3>1. arities \subseteq S
      BY <1>2, <2>1 DEF FixedPointInv, Needed
    <3>2. e \in Spreads
      BY <1>3
    <3>. QED
      BY <2>1, <3>1, <3>2 DEF ClosedArities
  <2>. HIDE DEF pushed
  <2>2. arities' = arities \cup pushed
    BY <1>1 DEF pushed
  <2>. QED
    BY <1>2, <1>7, <2>1, <2>2, DemandsConstant DEF FixedPointInv, Needed
<1>9. Settled'
  <2>1. ASSUME ~changed'
        PROVE  pushed \subseteq arities /\ arities' = arities /\ ~changed
    BY <1>1, <2>1
  <2>2. ASSUME ~changed'
        PROVE  \A f \in spreads \ todo' : \A d \in arities : d[1] = f[1] => <<f[2], d[2]>> \in arities
    BY <1>1, <1>2, <2>1, <2>2 DEF FixedPointInv, Settled
  <2>. QED
    BY <1>2, <1>7, <2>1, <2>2 DEF FixedPointInv, Settled
<1>. QED
  BY <1>2, <1>3, <1>5, <1>6, <1>8, <1>9 DEF FixedPointInv

LEMMA AritiesRoundKeeps ==
    ASSUME FixedPointInv, AritiesRound
    PROVE  FixedPointInv'
<1>1. /\ pc = "arities" /\ todo = {} /\ program' = program /\ at' = at /\ changed' = FALSE
      /\ constants' = constants /\ forwards' = forwards /\ spreads' = spreads /\ arities' = arities
      /\ \/ changed /\ todo' = spreads /\ pc' = pc
         \/ ~changed /\ todo' = {} /\ pc' = "generate"
  BY DEF AritiesRound
<1>2. /\ program \in Program /\ TypeOK
      /\ forwards = Forwards /\ spreads = Spreads
      /\ Literals \subseteq constants /\ Arities \subseteq arities
  BY <1>1 DEF FixedPointInv, Collected
<1>3. TypeOK'
  BY <1>1, <1>2, DemandsConstant DEF TypeOK
<1>4. Collected' /\ Recorded'
  BY <1>1, <1>2, DemandsConstant DEF Collected, Recorded
<1>5. \A S : ClosedConstants(S)' = ClosedConstants(S) /\ ClosedArities(S)' = ClosedArities(S)
  BY <1>1, DemandsConstant DEF ClosedConstants, ClosedArities
<1>6. Needed'
  BY <1>1, <1>5, DemandsConstant DEF FixedPointInv, Needed
<1>7. ClosedConstants(constants) /\ (~changed => ClosedArities(arities))
  BY <1>1, <1>2 DEF FixedPointInv, Settled, ClosedArities
<1>8. Settled'
  BY <1>1, <1>5, <1>7 DEF Settled
<1>. QED
  BY <1>1, <1>2, <1>3, <1>4, <1>6, <1>8 DEF FixedPointInv

\* Steps after the fixed points leave the demands alone.
LEMMA DemandsKept ==
    ASSUME FixedPointInv,
           (pc \in {"generate", "run"} /\ pc' = "run") \/ pc' = pc,
           UNCHANGED <<program, at, constants, forwards, arities, spreads, todo, changed>>
    PROVE  FixedPointInv'
<1>1. TypeOK'
  BY DemandsConstant DEF FixedPointInv, TypeOK
<1>2. Recorded'
  <2>1. \A k : /\ LiteralsOf(Calls[k])' = LiteralsOf(Calls[k])
               /\ ForwardsOf(Calls[k])' = ForwardsOf(Calls[k])
               /\ AritiesOf(Calls[k])' = AritiesOf(Calls[k])
               /\ SpreadsOf(Calls[k])' = SpreadsOf(Calls[k])
    BY DEF LiteralsOf, ForwardsOf, AritiesOf, SpreadsOf, Calls, IsMutable, IsVariadic
  <2>2. \A n : RecordedUpTo(n)' <=> RecordedUpTo(n)
    BY <2>1 DEF RecordedUpTo
  <2>3. pc' = "validate" => pc = "validate"
    OBVIOUS
  <2>. QED
    BY <2>2, <2>3 DEF FixedPointInv, Recorded
<1>3. Collected'
  BY DemandsConstant DEF FixedPointInv, Collected
<1>4. \A S : ClosedConstants(S)' = ClosedConstants(S) /\ ClosedArities(S)' = ClosedArities(S)
  BY DemandsConstant DEF ClosedConstants, ClosedArities
<1>5. Needed'
  BY <1>4, DemandsConstant DEF FixedPointInv, Needed
<1>6. Settled'
  BY <1>4 DEF FixedPointInv, Settled
<1>. QED
  BY <1>1, <1>2, <1>3, <1>5, <1>6 DEF FixedPointInv

LEMMA FixedPointStep == FixedPointInv /\ [Next]_vars => FixedPointInv'
<1> SUFFICES ASSUME FixedPointInv, [Next]_vars PROVE FixedPointInv'
  OBVIOUS
<1>1. CASE Generate
  BY <1>1, DemandsKept DEF Generate
<1>2. CASE Invoke
  BY <1>2, DemandsKept DEF Invoke
<1>3. CASE Assign
  BY <1>3, DemandsKept DEF Assign
<1>4. CASE UNCHANGED vars
  BY <1>4, DemandsKept DEF vars
<1>. QED
  BY <1>1, <1>2, <1>3, <1>4, ValidateCallKeeps, ValidatedKeeps, ForwardConstantsKeeps, ConstantsRoundKeeps,
     ForwardAritiesKeeps, AritiesRoundKeeps DEF Next

LEMMA FixedPointInvariant == Spec => []FixedPointInv
  BY FixedPointInit, FixedPointStep, PTL DEF Spec

\* The demands keep their types.
THEOREM TypeCorrect == Spec => []TypeOK
<1>1. FixedPointInv => TypeOK
  BY DEF FixedPointInv
<1>. QED
  BY <1>1, FixedPointInvariant, PTL

\* Whatever order the compiler goes through its maps in, the literals it ends with are
\* the least set that is closed (pipeline.go:254-312).
THEOREM ConstantsAreLeast == Spec => []LeastConstants
<1>1. FixedPointInv => LeastConstants
  BY DEF FixedPointInv, Collected, Needed, Settled, LeastConstants, TypeOK
<1>. QED
  BY <1>1, FixedPointInvariant, PTL

\* The same for the numbers of variadic arguments (pipeline.go:327-342).
THEOREM AritiesAreLeast == Spec => []LeastArities
<1>1. FixedPointInv => LeastArities
  BY DEF FixedPointInv, Collected, Needed, Settled, LeastArities, TypeOK
<1>. QED
  BY <1>1, FixedPointInvariant, PTL

-----------------------------------------------------------------------------
(* The fixed points are reached in finitely many steps.                     *)

\* What can be found: the literals and numbers of arguments of the calls, given to any function.
Givable == Function \X Index \X {d[3] : d \in Literals}
Expandable == Function \X {d[2] : d \in Arities}

\* A step finds something new, or forgets that something was found, or goes past one
\* more entry of the round.
RoundShrinks(before, after, findable) ==
    \/ before \subseteq after /\ before # after /\ after \subseteq findable
    \/ after = before /\ changed /\ ~changed'
    \/ after = before /\ changed' = changed /\ todo' \subseteq todo /\ todo' # todo

\* A step of the compiler leaves its phase for the next one or shrinks what is left of it.
Settling ==
    /\ program' = program
    /\ \/ pc = "validate" /\ pc' = "validate" /\ at' = at + 1 /\ at <= Len(Calls)
       \/ pc = "validate" /\ pc' = "constants"
       \/ pc = "constants" /\ pc' = "constants" /\ RoundShrinks(constants, constants', Givable)
       \/ pc = "constants" /\ pc' = "arities"
       \/ pc = "arities" /\ pc' = "arities" /\ RoundShrinks(arities, arities', Expandable)
       \/ pc = "arities" /\ pc' = "generate"
       \/ pc = "generate" /\ pc' = "run"
Shrinks == [][pc # "run" => Settling]_vars

Confined ==
    pc # "validate" => constants \subseteq Givable /\ arities \subseteq Expandable
LEMMA DemandsConfined == FixedPointInv => Confined
<1>. SUFFICES ASSUME FixedPointInv, pc # "validate"
              PROVE  constants \subseteq Givable /\ arities \subseteq Expandable
  BY DEF Confined
<1>1. /\ Literals \subseteq ConstantDemand /\ Arities \subseteq ArityDemand
      /\ Forwards \subseteq Function \X Index \X Function \X Index /\ Spreads \subseteq Function \X Function
  BY ProgramDemandTypes DEF FixedPointInv
<1>2. Givable \subseteq ConstantDemand /\ Literals \subseteq Givable
  BY <1>1 DEF Givable, ConstantDemand
<1>3. ClosedConstants(Givable)
  BY <1>1 DEF Givable, ClosedConstants
<1>4. Expandable \subseteq ArityDemand /\ Arities \subseteq Expandable
  BY <1>1 DEF Expandable, ArityDemand
<1>5. ClosedArities(Expandable)
  BY <1>1 DEF Expandable, ClosedArities
<1>. QED
  BY <1>2, <1>3, <1>4, <1>5 DEF FixedPointInv, Needed

LEMMA BoundsStay ==
    ASSUME program' = program
    PROVE  Givable' = Givable /\ Expandable' = Expandable
  BY DEF Givable, Expandable, Literals, Arities, Calls, LiteralsOf, AritiesOf, IsVariadic

LEMMA StepSettles ==
    ASSUME FixedPointInv, Confined', Next, pc # "run"
    PROVE  Settling
<1>t. changed \in BOOLEAN
  BY DEF FixedPointInv, TypeOK
<1>1. CASE ValidateCall
  BY <1>1 DEF ValidateCall, Settling
<1>2. CASE Validated
  BY <1>2 DEF Validated, Settling
<1>3. CASE ForwardConstants
  <2>1. program' = program /\ pc = "constants" /\ pc' = "constants"
    BY <1>3 DEF ForwardConstants
  <2>2. constants' \subseteq Givable
    BY <2>1, BoundsStay DEF Confined
  <2>3. PICK e, pushed :
          /\ e \in todo
          /\ constants' = constants \cup pushed
          /\ changed' = (changed \/ ~(pushed \subseteq constants))
          /\ todo' = todo \ {e}
    BY <1>3 DEF ForwardConstants
  <2>4. CASE pushed \subseteq constants
    <3>1. constants' = constants /\ changed' = changed /\ todo' \subseteq todo /\ todo' # todo
      BY <1>t, <2>3, <2>4
    <3>. QED
      BY <2>1, <3>1 DEF Settling, RoundShrinks
  <2>5. CASE ~(pushed \subseteq constants)
    <3>1. constants \subseteq constants' /\ constants # constants'
      BY <2>3, <2>5
    <3>. QED
      BY <2>1, <2>2, <3>1 DEF Settling, RoundShrinks
  <2>. QED
    BY <2>4, <2>5
<1>4. CASE ConstantsRound
  BY <1>4 DEF ConstantsRound, Settling, RoundShrinks
<1>5. CASE ForwardArities
  <2>1. program' = program /\ pc = "arities" /\ pc' = "arities"
    BY <1>5 DEF ForwardArities
  <2>2. arities' \subseteq Expandable
    BY <2>1, BoundsStay DEF Confined
  <2>3. PICK e, pushed :
          /\ e \in todo
          /\ arities' = arities \cup pushed
          /\ changed' = (changed \/ ~(pushed \subseteq arities))
          /\ todo' = todo \ {e}
    BY <1>5 DEF ForwardArities
  <2>4. CASE pushed \subseteq arities
    <3>1. arities' = arities /\ changed' = changed /\ todo' \subseteq todo /\ todo' # todo
      BY <1>t, <2>3, <2>4
    <3>. QED
      BY <2>1, <3>1 DEF Settling, RoundShrinks
  <2>5. CASE ~(pushed \subseteq arities)
    <3>1. arities \subseteq arities' /\ arities # arities'
      BY <2>3, <2>5
    <3>. QED
      BY <2>1, <2>2, <3>1 DEF Settling, RoundShrinks
  <2>. QED
    BY <2>4, <2>5
<1>6. CASE AritiesRound
  BY <1>6 DEF AritiesRound, Settling, RoundShrinks
<1>7. CASE Generate
  BY <1>7 DEF Generate, Settling
<1>8. CASE Invoke \/ Assign
  BY <1>8 DEF Invoke, Assign
<1>. QED
  BY <1>1, <1>2, <1>3, <1>4, <1>5, <1>6, <1>7, <1>8 DEF Next

\* Each step until the code is generated leaves its phase or shrinks what is left of it,
\* within what the calls of the program demand: both fixed points are reached, in whatever
\* order the compiler goes through its maps (pipeline.go:268-342).
THEOREM DemandsShrink == Spec => Shrinks
<1>1. FixedPointInv /\ Confined' /\ [Next]_vars => [pc # "run" => Settling]_vars
  BY StepSettles
<1>. QED
  BY <1>1, DemandsConfined, FixedPointInvariant, PTL DEF Spec, Shrinks

-----------------------------------------------------------------------------
(* Versions and calls.                                                      *)

\* Beside a slice that is expanded stands nothing a wrapper knows: no literal, and no
\* parameter unless the slice is the caller's own variadic parameter.
ExpandedUnknown ==
    \A w \in Program : \A k \in DOMAIN w.calls :
        LET call == w.calls[k] IN
        \A i \in DOMAIN call.args :
            /\ call.tail.kind = "slice" => call.args[i].kind = "other"
            /\ call.tail.kind = "own" => call.args[i].kind # "constant"

LEMMA SelectedFacts ==
    ASSUME NEW f
    PROVE  /\ DOMAIN Selected(f) \subseteq 1..Fixed(f)
           /\ Selected(f) # <<>> => \E i : i \in DOMAIN Selected(f)
<1>1. Selected(f) = [i \in DOMAIN Selected(f) |-> Selected(f)[i]]
  BY DEF Selected
<1>2. DOMAIN Selected(f) = {} => Selected(f) = <<>>
  BY <1>1
<1>. QED
  BY <1>2 DEF Selected, Singles

LEMMA VersionFacts ==
    ASSUME program \in Program, arities \subseteq ArityDemand, NEW f \in Function, NEW v \in Versions(f)
    PROVE  /\ v.fn = f
           /\ v.form \in {"base", "default", "variadic", "constant"}
           /\ v.form \in {"base", "default"} => v.consts = <<>>
           /\ v.form = "default" => ~IsVariadic(f)
           /\ v.form = "variadic" => <<f, v.arity>> \in arities /\ v.arity \in Nat
           /\ v.form = "constant" => ~IsVariadic(f)
           /\ v.form \in {"variadic", "constant"} => v.consts = Selected(f)
<1>1. CASE v = Base(f)
  BY <1>1 DEF Base, Version
<1>2. CASE \E n \in {k - 1 : k \in DOMAIN program.defaults[f]} : v = Version(f, "default", n, <<>>)
  BY <1>2, ProgramFacts DEF Version
<1>3. CASE \E x \in {y \in arities : y[1] = f} : v = Version(f, "variadic", x[2], Selected(f))
  BY <1>3 DEF Version, ArityDemand
<1>4. CASE ~IsVariadic(f) /\ v = Version(f, "constant", 0, Selected(f))
  BY <1>4 DEF Version
<1>. QED
  BY <1>1, <1>2, <1>3, <1>4 DEF Versions

LEMMA VersionsHold ==
    ASSUME program \in Program, NEW f \in Function
    PROVE  /\ Base(f) \in Versions(f)
           /\ \A n \in Nat : n + 1 \in DOMAIN program.defaults[f] => Version(f, "default", n, <<>>) \in Versions(f)
           /\ \A n : <<f, n>> \in arities => Version(f, "variadic", n, Selected(f)) \in Versions(f)
           /\ ~IsVariadic(f) /\ Selected(f) # <<>> => Version(f, "constant", 0, Selected(f)) \in Versions(f)
<1>1. ASSUME NEW n \in Nat, n + 1 \in DOMAIN program.defaults[f]
      PROVE  n \in {k - 1 : k \in DOMAIN program.defaults[f]}
  BY <1>1
<1>2. ASSUME NEW n, <<f, n>> \in arities
      PROVE  \E x \in {y \in arities : y[1] = f} : Version(f, "variadic", n, Selected(f)) = Version(f, "variadic", x[2], Selected(f))
  <2>1. <<f, n>>[1] = f /\ <<f, n>>[2] = n
    OBVIOUS
  <2>. QED
    BY <1>2, <2>1
<1>. QED
  BY <1>1, <1>2 DEF Versions

\* A call of a variadic function that matches the literals is made through a wrapper.
LEMMA VariadicWrapped ==
    ASSUME ExpandedUnknown, FixedPointInv, pc = "run",
           NEW k \in 1..Len(Calls), NEW v \in Versions(Calls[k].caller),
           v.form # "default", IsVariadic(Calls[k].callee), TakesConstants(v, Calls[k])
    PROVE  IsDirect(v, Calls[k]) \/ IsFlattened(v, Calls[k])
<1> DEFINE call == Calls[k]
<1>1. /\ program \in Program /\ arities \subseteq ArityDemand /\ Arities \subseteq arities
      /\ ClosedArities(arities) /\ call \in CallNode
  BY ProgramFacts DEF FixedPointInv, TypeOK, Collected, Settled
<1>2. PICK i : i \in DOMAIN Selected(call.callee)
  BY SelectedFacts DEF TakesConstants
<1>3. i \in DOMAIN call.args /\ Knows(v, call.args[i], Selected(call.callee)[i])
  BY <1>2 DEF TakesConstants, Matches
<1>4. DOMAIN program.calls = 1..Len(Calls)
  BY <1>1, ProgramAssumption DEF Calls
<1>5. CASE call.tail.kind = "elements"
  <2>1. <<call.callee, Len(call.tail.elements)>> \in Arities
    BY <1>5 DEF Arities, AritiesOf
  <2>. QED
    BY <1>1, <1>5, <2>1 DEF IsDirect, TakesArity
<1>6. CASE call.tail.kind = "slice"
  <2>1. call.args[i].kind = "other"
    BY <1>1, <1>3, <1>4, <1>6 DEF ExpandedUnknown, Calls
  <2>. QED
    BY <1>3, <2>1 DEF Knows
<1>7. CASE call.tail.kind = "own"
  <2>1. call.args[i].kind # "constant"
    BY <1>1, <1>3, <1>4, <1>7 DEF ExpandedUnknown, Calls
  <2>2. v.consts # <<>> /\ call.caller \in Function
    BY <1>1, <1>3, <2>1, CallFacts DEF Knows
  <2>3. IsVariadic(call.caller)
    BY <1>1, <1>7, ProgramFacts DEF WellFormed, IsVariadic
  <2>4. v.form = "variadic" /\ <<call.caller, v.arity>> \in arities
    BY <1>1, <2>2, <2>3, VersionFacts
  <2>5. <<call.caller, call.callee>> \in Spreads
    BY <1>7 DEF Spreads, SpreadsOf
  <2>6. <<call.callee, v.arity>> \in arities
    BY <1>1, <2>4, <2>5 DEF ClosedArities
  <2>. QED
    BY <1>7, <2>4, <2>6 DEF IsFlattened, TakesArity
<1>. QED
  BY <1>1, <1>5, <1>6, <1>7, CallFacts

LEMMA EmittedFields ==
    ASSUME NEW v, NEW call
    PROVE  LET e == Emitted(v, call)
               left == IF IsDirect(v, call) \/ IsFlattened(v, call)
                          \/ (TakesConstants(v, call) /\ ~IsVariadic(call.callee))
                       THEN DOMAIN Selected(call.callee) ELSE {}
           IN  /\ e.target = Target(v, call) /\ e.call = call
               /\ DOMAIN e.args = DOMAIN call.args \ left
               /\ \A i \in DOMAIN e.args : e.args[i] = call.args[i]
               /\ ~IsVariadic(call.callee) => e.tail = "none"
               /\ IsVariadic(call.callee) /\ IsFlattened(v, call) => e.tail = "incoming"
               /\ IsVariadic(call.callee) /\ IsDirect(v, call) => e.tail = "elements"
               /\ IsVariadic(call.callee) /\ ~IsDirect(v, call) /\ ~IsFlattened(v, call) => e.tail = "slice"
<1>1. IsDirect(v, call) => ~IsFlattened(v, call)
  BY DEF IsDirect, IsFlattened
<1> DEFINE e == Emitted(v, call)
<1>2. e.target = Target(v, call) /\ e.call = call
  BY DEF Emitted
<1>3. e.tail = CASE ~IsVariadic(call.callee) -> "none"
                 [] IsFlattened(v, call) -> "incoming"
                 [] IsDirect(v, call) -> "elements"
                 [] OTHER -> "slice"
  BY Zenon DEF Emitted
<1> DEFINE left == IF (IsDirect(v, call) \/ IsFlattened(v, call))
                      \/ (TakesConstants(v, call) /\ ~IsVariadic(call.callee))
                   THEN DOMAIN Selected(call.callee) ELSE {}
<1>4. e.args = [i \in DOMAIN call.args \ left |-> call.args[i]]
  BY Zenon DEF Emitted
<1>. HIDE DEF e
<1>5. DOMAIN e.args = DOMAIN call.args \ left /\ \A i \in DOMAIN e.args : e.args[i] = call.args[i]
  BY <1>4
<1>6. ~IsVariadic(call.callee) => e.tail = "none"
  BY Zenon DEF e, Emitted, IsDirect, IsFlattened, TakesArity
<1>7. IsVariadic(call.callee) /\ IsFlattened(v, call) => e.tail = "incoming"
  BY <1>1, <1>3, Zenon
<1>8. IsVariadic(call.callee) /\ IsDirect(v, call) => e.tail = "elements"
  BY <1>1, <1>3, Zenon
<1>9. IsVariadic(call.callee) /\ ~IsDirect(v, call) /\ ~IsFlattened(v, call) => e.tail = "slice"
  BY <1>3, Zenon
<1>. QED
  BY <1>2, <1>5, <1>6, <1>7, <1>8, <1>9 DEF e

LEMMA TargetFacts ==
    ASSUME NEW v, NEW call
    PROVE  /\ IsDirect(v, call) =>
                Target(v, call) = Version(call.callee, "variadic", Len(call.tail.elements), Selected(call.callee))
           /\ IsFlattened(v, call) =>
                Target(v, call) = Version(call.callee, "variadic", v.arity, Selected(call.callee))
           /\ ~IsDirect(v, call) /\ ~IsFlattened(v, call) =>
                /\ IsShort(call) => Target(v, call) = Version(call.callee, "default", Len(call.args), <<>>)
                /\ ~IsShort(call) /\ TakesConstants(v, call) =>
                      Target(v, call) = Version(call.callee, "constant", 0, Selected(call.callee))
                /\ ~IsShort(call) /\ ~TakesConstants(v, call) => Target(v, call) = Base(call.callee)
<1>1. IsDirect(v, call) => ~IsFlattened(v, call)
  BY DEF IsDirect, IsFlattened
<1> DEFINE f == call.callee
<1>2. Target(v, call) =
        CASE IsDirect(v, call) -> Version(f, "variadic", Len(call.tail.elements), Selected(f))
          [] IsFlattened(v, call) -> Version(f, "variadic", v.arity, Selected(f))
          [] IsShort(call) -> Version(f, "default", Len(call.args), <<>>)
          [] OTHER -> IF TakesConstants(v, call) THEN Version(f, "constant", 0, Selected(f)) ELSE Base(f)
  BY Zenon DEF Target
<1>3. IsShort(call) => ~IsDirect(v, call) /\ ~IsFlattened(v, call)
  BY DEF IsShort, IsDirect, IsFlattened, TakesArity
<1>4. IsDirect(v, call) => Target(v, call) = Version(f, "variadic", Len(call.tail.elements), Selected(f))
  BY <1>1, <1>2, <1>3
<1>5. IsFlattened(v, call) => Target(v, call) = Version(f, "variadic", v.arity, Selected(f))
  BY <1>1, <1>2, <1>3
<1>6. ASSUME ~IsDirect(v, call), ~IsFlattened(v, call)
      PROVE  /\ IsShort(call) => Target(v, call) = Version(f, "default", Len(call.args), <<>>)
             /\ ~IsShort(call) => Target(v, call) = IF TakesConstants(v, call)
                                                   THEN Version(f, "constant", 0, Selected(f)) ELSE Base(f)
  BY <1>2, <1>6
<1>. QED
  BY <1>4, <1>5, <1>6

LEMMA NoneLeft == \A S : S \ DOMAIN <<>> = S
  OBVIOUS

LEMMA VersionAgrees ==
    ASSUME NEW f, NEW form, NEW arity, NEW consts, NEW e,
           DOMAIN e.args = (IF form = "default" THEN 1..arity ELSE 1..Fixed(f)) \ DOMAIN consts,
           form = "variadic" <=> e.tail \in {"incoming", "elements"},
           IsVariadic(f) <=> e.tail # "none"
    PROVE  AgreesWith(Version(f, form, arity, consts), e)
  BY DEF AgreesWith, Takes, Version

\* The caller and the module of the callee choose the same wrapper.
LEMMA EmittedDefined ==
    ASSUME ExpandedUnknown, FixedPointInv, pc = "run",
           NEW k \in 1..Len(Calls), NEW v \in Versions(Calls[k].caller), v.form # "default"
    PROVE  LET e == Emitted(v, Calls[k]) IN
           e.target \in Versions(Calls[k].callee) /\ AgreesWith(e.target, e)
<1> DEFINE call == Calls[k]
           f == call.callee
           e == Emitted(v, call)
<1>1. /\ program \in Program /\ arities \subseteq ArityDemand
      /\ call \in CallNode /\ WellFormed(program, call) /\ f \in Function
  BY ProgramFacts, CallFacts DEF FixedPointInv, TypeOK
<1>2. /\ Fixed(f) \in Nat /\ Len(call.args) \in Nat /\ DOMAIN call.args = 1..Len(call.args)
      /\ Len(call.args) <= Fixed(f) /\ (Len(call.args) + 1)..Fixed(f) \subseteq DOMAIN program.defaults[f]
      /\ IsVariadic(f) \in BOOLEAN /\ IsVariadic(f) => DOMAIN program.defaults[f] = {}
      /\ ~IsVariadic(f) => call.tail = [kind |-> "elements", elements |-> <<>>]
  BY <1>1, ProgramFacts, CallFacts DEF WellFormed, Fixed, IsVariadic
<1>3. IsVariadic(f) => DOMAIN call.args = 1..Fixed(f)
  <2>1. ASSUME Len(call.args) < Fixed(f) PROVE Fixed(f) \in (Len(call.args) + 1)..Fixed(f)
    BY <1>2, <2>1
  <2>. QED
    BY <1>2, <2>1
<1>4. ~IsShort(call) => DOMAIN call.args = 1..Fixed(f)
  BY <1>2, <1>3 DEF IsShort
<1>. HIDE DEF call, e
<1>5. /\ e.target = Target(v, call)
      /\ IsDirect(v, call) \/ IsFlattened(v, call) => DOMAIN e.args = DOMAIN call.args \ DOMAIN Selected(f)
      /\ ~IsDirect(v, call) /\ ~IsFlattened(v, call) =>
            DOMAIN e.args = DOMAIN call.args \ (IF TakesConstants(v, call) /\ ~IsVariadic(f)
                                                THEN DOMAIN Selected(f) ELSE {})
      /\ ~IsVariadic(f) => e.tail = "none"
      /\ IsVariadic(f) /\ IsFlattened(v, call) => e.tail = "incoming"
      /\ IsVariadic(f) /\ IsDirect(v, call) => e.tail = "elements"
      /\ IsVariadic(f) /\ ~IsDirect(v, call) /\ ~IsFlattened(v, call) => e.tail = "slice"
  BY EmittedFields DEF e
<1>6. CASE IsDirect(v, call)
  <2>1. IsVariadic(f) /\ <<f, Len(call.tail.elements)>> \in arities
    BY <1>6 DEF IsDirect, TakesArity
  <2>2. e.target = Version(f, "variadic", Len(call.tail.elements), Selected(f)) /\ ~IsFlattened(v, call)
    BY <1>5, <1>6, TargetFacts DEF IsDirect, IsFlattened
  <2>3. e.target \in Versions(f)
    BY <1>1, <2>1, <2>2, VersionsHold
  <2>4. DOMAIN e.args = (1..Fixed(f)) \ DOMAIN Selected(f) /\ e.tail = "elements"
    BY <1>3, <1>5, <1>6, <2>1, <2>2
  <2>. QED
    BY <2>1, <2>2, <2>3, <2>4, VersionAgrees DEF e, call
<1>7. CASE IsFlattened(v, call)
  <2>1. IsVariadic(f) /\ <<f, v.arity>> \in arities
    BY <1>7 DEF IsFlattened, TakesArity
  <2>2. e.target = Version(f, "variadic", v.arity, Selected(f))
    BY <1>5, <1>7, TargetFacts
  <2>3. e.target \in Versions(f)
    BY <1>1, <2>1, <2>2, VersionsHold
  <2>4. DOMAIN e.args = (1..Fixed(f)) \ DOMAIN Selected(f) /\ e.tail = "incoming"
    BY <1>3, <1>5, <1>7, <2>1
  <2>. QED
    BY <2>1, <2>2, <2>3, <2>4, VersionAgrees DEF e, call
<1>8. CASE ~IsDirect(v, call) /\ ~IsFlattened(v, call) /\ IsShort(call)
  <2>1. ~IsVariadic(f) /\ Len(call.args) + 1 \in DOMAIN program.defaults[f] /\ ~TakesConstants(v, call)
    BY <1>2, <1>8 DEF IsShort, TakesConstants
  <2>2. e.target = Version(f, "default", Len(call.args), <<>>)
    BY <1>5, <1>8, TargetFacts
  <2>3. e.target \in Versions(f)
    BY <1>1, <1>2, <2>1, <2>2, VersionsHold
  <2>4. DOMAIN e.args = 1..Len(call.args) /\ e.tail = "none"
    BY <1>2, <1>5, <1>8, <2>1
  <2>. QED
    BY <2>1, <2>2, <2>3, <2>4, NoneLeft, VersionAgrees DEF e, call
<1>9. CASE ~IsDirect(v, call) /\ ~IsFlattened(v, call) /\ ~IsShort(call) /\ TakesConstants(v, call)
  <2>1. ~IsVariadic(f)
    BY <1>9, VariadicWrapped DEF call
  <2>2. e.target = Version(f, "constant", 0, Selected(f)) /\ Selected(f) # <<>>
    BY <1>5, <1>9, TargetFacts DEF TakesConstants
  <2>3. e.target \in Versions(f)
    BY <1>1, <2>1, <2>2, VersionsHold
  <2>4. DOMAIN e.args = (1..Fixed(f)) \ DOMAIN Selected(f) /\ e.tail = "none"
    BY <1>4, <1>5, <1>9, <2>1
  <2>. QED
    BY <2>1, <2>2, <2>3, <2>4, VersionAgrees DEF e, call
<1>10. CASE ~IsDirect(v, call) /\ ~IsFlattened(v, call) /\ ~IsShort(call) /\ ~TakesConstants(v, call)
  <2>1. e.target = Version(f, "base", 0, <<>>)
    BY <1>5, <1>10, TargetFacts DEF Base
  <2>2. e.target \in Versions(f)
    BY <1>1, <2>1, VersionsHold DEF Base
  <2>3. DOMAIN e.args = 1..Fixed(f)
    BY <1>4, <1>5, <1>10
  <2>4. e.tail \notin {"incoming", "elements"} /\ (IsVariadic(f) <=> e.tail # "none")
    BY <1>2, <1>5, <1>10
  <2>5. DOMAIN e.args = (1..Fixed(f)) \ DOMAIN <<>>
    BY <2>3, NoneLeft
  <2>6. AgreesWith(Version(f, "base", 0, <<>>), e)
    BY <2>4, <2>5, Zenon DEF AgreesWith, Takes, Version
  <2>. QED
    BY <2>1, <2>2, <2>6 DEF e, call
<1>. QED
  BY <1>6, <1>7, <1>8, <1>9, <1>10 DEF e, call

Generated ==
    pc = "run" => code = [v \in UNION {Versions(f) : f \in Function} |-> Body(v)]

LEMMA VersionsConstant ==
    ASSUME UNCHANGED <<program, constants, arities>>
    PROVE  /\ \A f : Selected(f)' = Selected(f) /\ Versions(f)' = Versions(f)
           /\ \A v : Body(v)' = Body(v)
<1>1. /\ Calls' = Calls /\ \A f : Fixed(f)' = Fixed(f) /\ IsVariadic(f)' = IsVariadic(f)
      /\ \A f : Selected(f)' = Selected(f)
  BY DEF Calls, Fixed, IsVariadic, Selected, Singles, Single, Precedes, Given
<1>2. \A f : Versions(f)' = Versions(f)
  BY <1>1 DEF Versions, Base
<1>3. \A v, call : /\ TakesConstants(v, call)' = TakesConstants(v, call)
                   /\ IsShort(call)' = IsShort(call)
  BY <1>1 DEF TakesConstants, Matches, IsShort
<1>4. \A v, call : /\ IsDirect(v, call)' = IsDirect(v, call)
                   /\ IsFlattened(v, call)' = IsFlattened(v, call)
  BY <1>1, <1>3 DEF IsDirect, IsFlattened, TakesArity
<1>5. \A v, call : Emitted(v, call)' = Emitted(v, call)
  BY <1>1, <1>3, <1>4 DEF Emitted, Target, Base
<1>6. \A v : EmittedDefault(v)' = EmittedDefault(v)
  BY <1>1 DEF EmittedDefault, Base
<1>. QED
  BY <1>1, <1>2, <1>5, <1>6 DEF Body

LEMMA GeneratedInvariant == Spec => []Generated
<1>1. Init => Generated
  BY DEF Init, Generated
<1>2. Generated /\ [Next]_vars => Generated'
  <2> SUFFICES ASSUME Generated, [Next]_vars PROVE Generated'
    OBVIOUS
  <2>1. CASE Generate
    BY <2>1, VersionsConstant DEF Generate, Generated
  <2>2. CASE Invoke
    BY <2>2, VersionsConstant DEF Invoke, Generated
  <2>3. CASE Assign
    BY <2>3, VersionsConstant DEF Assign, Generated
  <2>4. CASE UNCHANGED vars
    BY <2>4, VersionsConstant DEF vars, Generated
  <2>5. CASE ValidateCall \/ Validated \/ ForwardConstants \/ ConstantsRound \/ ForwardArities \/ AritiesRound
    BY <2>5 DEF ValidateCall, Validated, ForwardConstants, ConstantsRound, ForwardArities, AritiesRound, Generated
  <2>. QED
    BY <2>1, <2>2, <2>3, <2>4, <2>5 DEF Next
<1>. QED
  BY <1>1, <1>2, PTL DEF Spec

LEMMA DefaultDefined ==
    ASSUME program \in Program, NEW f \in Function, ~IsVariadic(f), NEW v, v.fn = f
    PROVE  LET e == EmittedDefault(v) IN e.target \in Versions(f) /\ AgreesWith(e.target, e)
<1> DEFINE e == EmittedDefault(v)
<1>1. e.target = Version(f, "base", 0, <<>>) /\ DOMAIN e.args = 1..Fixed(f) /\ e.tail = "none"
  BY DEF EmittedDefault, Base
<1>. HIDE DEF e
<1>2. e.target \in Versions(f)
  BY <1>1, VersionsHold DEF Base
<1>3. DOMAIN e.args = (1..Fixed(f)) \ DOMAIN <<>>
  BY <1>1, NoneLeft
<1>4. AgreesWith(Version(f, "base", 0, <<>>), e)
  BY <1>1, <1>3, Zenon DEF AgreesWith, Takes, Version
<1>. QED
  BY <1>1, <1>2, <1>4 DEF e

\* Where nothing known stands beside an expanded slice, every call that is emitted is to
\* a function that is generated and agrees with it (irgen.go:586, 679, 3226-3257).
THEOREM CallsAreDefined ==
    ASSUME ExpandedUnknown
    PROVE  Spec => []CallsDefined
<1>1. FixedPointInv /\ Generated => CallsDefined
  <2> SUFFICES ASSUME FixedPointInv, Generated, pc = "run", NEW v \in DOMAIN code, NEW e \in code[v]
               PROVE  e.target \in DOMAIN code /\ AgreesWith(e.target, e)
    BY DEF CallsDefined
  <2>1. program \in Program /\ arities \subseteq ArityDemand
    BY DEF FixedPointInv, TypeOK
  <2>2. DOMAIN code = UNION {Versions(f) : f \in Function} /\ e \in Body(v)
    BY DEF Generated
  <2>3. PICK f \in Function : v \in Versions(f)
    BY <2>2
  <2>4. v.fn = f
    BY <2>1, <2>3, VersionFacts
  <2>5. CASE v.form = "default"
    <3>1. e = EmittedDefault(v) /\ ~IsVariadic(f)
      BY <2>1, <2>2, <2>3, <2>5, VersionFacts DEF Body
    <3>. QED
      BY <2>1, <2>2, <2>4, <3>1, DefaultDefined
  <2>6. CASE v.form # "default"
    <3>1. PICK k \in 1..Len(Calls) : Calls[k].caller = f /\ e = Emitted(v, Calls[k])
      BY <2>2, <2>4, <2>6 DEF Body
    <3>2. Calls[k].callee \in Function
      BY <2>1, ProgramFacts, CallFacts
    <3>3. e.target \in Versions(Calls[k].callee) /\ AgreesWith(e.target, e)
      BY <2>3, <2>6, <3>1, EmittedDefined
    <3>. QED
      BY <2>2, <3>2, <3>3
  <2>. QED
    BY <2>5, <2>6
<1>. QED
  BY <1>1, FixedPointInvariant, GeneratedInvariant, PTL

-----------------------------------------------------------------------------
(* What functions see.                                                      *)

\* A parameter that is declared mut is not passed on.
MutableKept ==
    \A w \in Program : \A k \in DOMAIN w.calls :
        LET call == w.calls[k] IN
        /\ \A i \in DOMAIN call.args :
              call.args[i].kind = "parameter" => <<call.caller, call.args[i].index>> \notin w.mutable
        /\ call.tail.kind = "own" => <<call.caller, w.fixed[call.caller] + 1>> \notin w.mutable

\* The parameters a wrapper is for hold its literals, and the elements it was called
\* with are its variadic parameter, unless they may be assigned.
FrameInv ==
    LET v == frame.version
        has == frame.sees
    IN  pc = "run" =>
            /\ frame = [version |-> v, sees |-> has, means |-> has, incoming |-> frame.incoming]
            /\ has = [fixed |-> has.fixed, tail |-> has.tail]
            /\ \E f \in Function : v \in Versions(f)
            /\ has.fixed = [i \in 1..Fixed(v.fn) |-> has.fixed[i]]
            /\ \A i \in DOMAIN v.consts : ~IsMutable(v.fn, i) => has.fixed[i] = v.consts[i]
            /\ v.form = "variadic" /\ ~IsMutable(v.fn, Fixed(v.fn) + 1) => frame.incoming = has.tail

\* Arguments that are left out are the literals of the wrapper.
LEMMA LeftOut ==
    ASSUME program \in Program, arities \subseteq ArityDemand, NEW v, NEW call, call.callee \in Function,
           Target(v, call) \in Versions(call.callee)
    PROVE  LET e == Emitted(v, call) IN
           \/ e.target.consts = <<>> /\ DOMAIN e.args = DOMAIN call.args
           \/ /\ e.target.consts = Selected(call.callee) /\ Matches(v, call)
              /\ DOMAIN e.args = DOMAIN call.args \ DOMAIN Selected(call.callee)
<1> DEFINE f == call.callee
           e == Emitted(v, call)
           wrapped == IsDirect(v, call) \/ IsFlattened(v, call)
<1>1. e.target = Target(v, call)
      /\ DOMAIN e.args = DOMAIN call.args \ (IF wrapped \/ (TakesConstants(v, call) /\ ~IsVariadic(f))
                                             THEN DOMAIN Selected(f) ELSE {})
  BY EmittedFields
<1>. HIDE DEF e
<1>2. CASE wrapped
  <2>1. e.target.consts = Selected(f) /\ DOMAIN e.args = DOMAIN call.args \ DOMAIN Selected(f)
    BY <1>1, <1>2, TargetFacts DEF Version
  <2>2. Selected(f) = <<>> \/ Matches(v, call)
    BY <1>2 DEF IsDirect, IsFlattened, TakesArity, TakesConstants
  <2>. QED
    BY <2>1, <2>2, NoneLeft DEF e
<1>3. CASE ~wrapped /\ TakesConstants(v, call)
  <2>1. ~IsShort(call)
    BY <1>3 DEF TakesConstants
  <2>2. e.target = Version(f, "constant", 0, Selected(f))
    BY <1>1, <1>3, <2>1, TargetFacts
  <2>3. e.target.form = "constant" /\ e.target.consts = Selected(f)
    BY <2>2 DEF Version
  <2>4. ~IsVariadic(f)
    BY <1>1, <2>3, VersionFacts
  <2>5. DOMAIN e.args = DOMAIN call.args \ DOMAIN Selected(f)
    BY <1>1, <1>3, <2>4
  <2>. QED
    BY <1>3, <2>3, <2>5 DEF TakesConstants, e
<1>4. CASE ~wrapped /\ ~TakesConstants(v, call)
  <2>1. e.target.consts = <<>>
    BY <1>1, <1>4, TargetFacts DEF Version, Base
  <2>. QED
    BY <1>1, <1>4, <2>1 DEF e
<1>. QED
  BY <1>2, <1>3, <1>4

LEMMA SameArguments ==
    ASSUME MutableKept, FixedPointInv, FrameInv, pc = "run",
           NEW k \in 1..Len(Calls), frame.version.form # "default", Calls[k].caller = frame.version.fn,
           Target(frame.version, Calls[k]) \in Versions(Calls[k].callee)
    PROVE  LET call == Calls[k]
               e == Emitted(frame.version, call)
               t == e.target
               f == call.callee
           IN  /\ \A i \in 1..Fixed(f) :
                     (IF i \in DOMAIN t.consts THEN t.consts[i]
                      ELSE IF i \in DOMAIN e.args THEN ValueOf(e.args[i], frame.sees) ELSE DefaultOf(f, i))
                     = (IF i \in DOMAIN call.args THEN ValueOf(call.args[i], frame.means) ELSE DefaultOf(f, i))
               /\ (IF e.tail = "incoming" THEN frame.incoming ELSE TailOf(call.tail, frame.sees))
                     = TailOf(call.tail, frame.means)
<1> DEFINE call == Calls[k]
           v == frame.version
           e == Emitted(v, call)
           f == call.callee
<1>1. /\ program \in Program /\ arities \subseteq ArityDemand /\ call \in CallNode
      /\ f \in Function /\ DOMAIN program.calls = 1..Len(Calls)
  <2>1. program \in Program /\ arities \subseteq ArityDemand
    BY DEF FixedPointInv, TypeOK
  <2>. QED
    BY <2>1, ProgramFacts, CallFacts, ProgramAssumption DEF Calls
<1>2. frame.means = frame.sees
  BY DEF FrameInv
<1>3. \/ e.target.consts = <<>> /\ DOMAIN e.args = DOMAIN call.args
      \/ /\ e.target.consts = Selected(f) /\ Matches(v, call)
         /\ DOMAIN e.args = DOMAIN call.args \ DOMAIN Selected(f)
  BY <1>1, LeftOut
<1>4. \A i \in DOMAIN e.args : e.args[i] = call.args[i]
  BY EmittedFields
<1>5. \A i \in DOMAIN call.args : \A c : Knows(v, call.args[i], c) => ValueOf(call.args[i], frame.means) = c
  <2> SUFFICES ASSUME NEW i \in DOMAIN call.args, NEW c, Knows(v, call.args[i], c)
               PROVE  ValueOf(call.args[i], frame.means) = c
    OBVIOUS
  <2>1. CASE call.args[i].kind = "constant"
    BY <2>1, Zenon DEF Knows, ValueOf
  <2>2. CASE call.args[i].kind = "parameter"
    <3>1. call.args[i].index \in DOMAIN v.consts /\ v.consts[call.args[i].index] = c
      BY <2>2 DEF Knows
    <3>2. ~IsMutable(v.fn, call.args[i].index)
      BY <1>1, <2>2 DEF MutableKept, IsMutable, Calls
    <3>3. frame.sees.fixed[call.args[i].index] = c
      BY <3>1, <3>2 DEF FrameInv
    <3>. QED
      BY <1>2, <2>2, <3>3 DEF ValueOf
  <2>. QED
    BY <2>1, <2>2 DEF Knows
<1>6. (IF e.tail = "incoming" THEN frame.incoming ELSE TailOf(call.tail, frame.sees))
        = TailOf(call.tail, frame.means)
  <2>1. CASE e.tail = "incoming"
    <3>1. IsFlattened(v, call)
      BY <2>1, EmittedFields
    <3>2. call.tail.kind = "own" /\ v.form = "variadic"
      BY <3>1 DEF IsFlattened
    <3>3. ~IsMutable(v.fn, Fixed(v.fn) + 1)
      BY <1>1, <3>2 DEF MutableKept, IsMutable, Calls, Fixed
    <3>4. frame.incoming = frame.sees.tail
      BY <3>2, <3>3 DEF FrameInv
    <3>. QED
      BY <1>2, <2>1, <3>2, <3>4 DEF TailOf
  <2>. QED
    BY <1>2, <2>1
<1>7. \A i \in 1..Fixed(f) :
        (IF i \in DOMAIN e.target.consts THEN e.target.consts[i]
         ELSE IF i \in DOMAIN e.args THEN ValueOf(e.args[i], frame.sees) ELSE DefaultOf(f, i))
        = (IF i \in DOMAIN call.args THEN ValueOf(call.args[i], frame.means) ELSE DefaultOf(f, i))
  <2>. HIDE DEF e, call, v
  <2>1. CASE e.target.consts = <<>> /\ DOMAIN e.args = DOMAIN call.args
    BY <1>2, <1>4, <2>1
  <2>2. CASE /\ e.target.consts = Selected(f) /\ Matches(v, call)
             /\ DOMAIN e.args = DOMAIN call.args \ DOMAIN Selected(f)
    <3>1. \A i \in DOMAIN Selected(f) : i \in DOMAIN call.args /\ ValueOf(call.args[i], frame.means) = Selected(f)[i]
      BY <1>5, <2>2 DEF Matches
    <3>. QED
      BY <1>2, <1>4, <2>2, <3>1
  <2>. QED
    BY <1>3, <2>1, <2>2
<1>. QED
  BY <1>6, <1>7

LEMMA ConstsBounded ==
    ASSUME program \in Program, arities \subseteq ArityDemand, NEW f \in Function, NEW v \in Versions(f)
    PROVE  DOMAIN v.consts \subseteq 1..Fixed(f)
<1>1. DOMAIN <<>> = {}
  OBVIOUS
<1>2. v.consts = <<>> \/ v.consts = Selected(f)
  BY VersionFacts
<1>. QED
  BY <1>1, <1>2, SelectedFacts

LEMMA InvokeKeeps ==
    ASSUME MutableKept, FixedPointInv, Generated, FrameInv, Invoke
    PROVE  FrameInv'
<1>1. pc = "run" /\ pc' = pc /\ UNCHANGED <<program, constants, arities>>
  BY DEF Invoke
<1>2. PICK e \in code[frame.version] :
        LET t == e.target
            f == t.fn
            fixed == [i \in 1..Fixed(f) |->
                        IF i \in DOMAIN t.consts THEN t.consts[i]
                        ELSE IF i \in DOMAIN e.args THEN ValueOf(e.args[i], frame.sees)
                        ELSE DefaultOf(f, i)]
            tail == IF e.tail = "incoming" THEN frame.incoming ELSE TailOf(e.call.tail, frame.sees)
            written == [i \in 1..Fixed(f) |->
                        IF i \in DOMAIN e.call.args THEN ValueOf(e.call.args[i], frame.means)
                        ELSE DefaultOf(f, i)]
        IN  /\ t \in DOMAIN code /\ AgreesWith(t, e)
            /\ frame' = Enter(t, [fixed |-> fixed, tail |-> tail],
                              [fixed |-> written, tail |-> TailOf(e.call.tail, frame.means)])
  BY DEF Invoke
<1> DEFINE v == frame.version
           t == e.target
           f == t.fn
           fixed == [i \in 1..Fixed(f) |->
                       IF i \in DOMAIN t.consts THEN t.consts[i]
                       ELSE IF i \in DOMAIN e.args THEN ValueOf(e.args[i], frame.sees)
                       ELSE DefaultOf(f, i)]
           tail == IF e.tail = "incoming" THEN frame.incoming ELSE TailOf(e.call.tail, frame.sees)
           written == [i \in 1..Fixed(f) |->
                       IF i \in DOMAIN e.call.args THEN ValueOf(e.call.args[i], frame.means)
                       ELSE DefaultOf(f, i)]
           meant == TailOf(e.call.tail, frame.means)
<1>3. frame' = Enter(t, [fixed |-> fixed, tail |-> tail], [fixed |-> written, tail |-> meant])
  BY <1>2
<1>4. /\ program \in Program /\ arities \subseteq ArityDemand
      /\ code = [x \in UNION {Versions(g) : g \in Function} |-> Body(x)]
      /\ frame.means = frame.sees
  BY <1>1 DEF FixedPointInv, TypeOK, Generated, FrameInv
<1>5. PICK g \in Function : t \in Versions(g)
  BY <1>2, <1>4
<1>6. f = g
  BY <1>4, <1>5, VersionFacts
<1>7. PICK h \in Function : v \in Versions(h)
  BY <1>1 DEF FrameInv
<1>8. v.fn = h /\ e \in Body(v)
  BY <1>4, <1>7, VersionFacts
<1>9. fixed = written /\ tail = meant
  <2>1. CASE v.form = "default"
    <3>1. e = EmittedDefault(v)
      BY <1>8, <2>1 DEF Body
    <3>2. /\ e.args = e.call.args /\ t.consts = <<>> /\ e.tail = "none"
      BY <3>1 DEF EmittedDefault, Base, Version
    <3>3. DOMAIN t.consts = {}
      BY <3>2
    <3>. HIDE DEF t, f
    <3>4. fixed = written
      BY <1>4, <3>2, <3>3
    <3>. QED
      BY <1>4, <3>2, <3>4
  <2>2. CASE v.form # "default"
    <3>1. PICK k \in 1..Len(Calls) : Calls[k].caller = h /\ e = Emitted(v, Calls[k])
      BY <1>8, <2>2 DEF Body
    <3>2. e.call = Calls[k] /\ t = Target(v, Calls[k])
      BY <3>1, EmittedFields
    <3>3. t.fn = Calls[k].callee
      BY <3>2, TargetFacts DEF Version, Base
    <3>4. /\ \A i \in 1..Fixed(f) :
               (IF i \in DOMAIN t.consts THEN t.consts[i]
                ELSE IF i \in DOMAIN e.args THEN ValueOf(e.args[i], frame.sees) ELSE DefaultOf(f, i))
               = (IF i \in DOMAIN e.call.args THEN ValueOf(e.call.args[i], frame.means) ELSE DefaultOf(f, i))
          /\ tail = meant
      BY <1>1, <1>5, <1>6, <1>8, <2>2, <3>1, <3>2, <3>3, SameArguments
    <3>. HIDE DEF t, f
    <3>5. fixed = written
      BY <3>4
    <3>. QED
      BY <3>4, <3>5
  <2>. QED
    BY <2>1, <2>2
<1>. HIDE DEF tail, meant, written
<1>10. /\ frame'.version = t /\ frame'.sees = [fixed |-> fixed, tail |-> tail]
       /\ frame'.means = frame'.sees /\ frame'.incoming = tail
       /\ frame' = [version |-> t, sees |-> frame'.sees, means |-> frame'.sees, incoming |-> tail]
  BY <1>3, <1>9 DEF Enter
<1>11. \E x \in Function : t \in Versions(x)'
  BY <1>1, <1>5, VersionsConstant
<1>12. Fixed(f)' = Fixed(f)
  BY <1>1 DEF Fixed
<1>13. DOMAIN t.consts \subseteq 1..Fixed(f)
  BY <1>4, <1>5, <1>6, ConstsBounded
<1>. HIDE DEF t, f
<1>14. \A i \in DOMAIN t.consts : fixed[i] = t.consts[i]
  BY <1>13
<1>15. fixed = [i \in 1..Fixed(f) |-> fixed[i]]
  OBVIOUS
<1>. HIDE DEF fixed
<1>. QED
  BY <1>10, <1>11, <1>12, <1>14, <1>15 DEF FrameInv, f

LEMMA AssignKeeps ==
    ASSUME FixedPointInv, FrameInv, Assign
    PROVE  FrameInv'
<1> DEFINE v == frame.version
           f == v.fn
           has == frame.sees
<1>1. pc = "run" /\ pc' = pc /\ UNCHANGED <<program, constants, arities>>
  BY DEF Assign
<1>2. /\ frame = [version |-> v, sees |-> has, means |-> has, incoming |-> frame.incoming]
      /\ has = [fixed |-> has.fixed, tail |-> has.tail]
      /\ \E g \in Function : v \in Versions(g)
      /\ has.fixed = [i \in 1..Fixed(f) |-> has.fixed[i]]
      /\ \A i \in DOMAIN v.consts : ~IsMutable(f, i) => has.fixed[i] = v.consts[i]
      /\ v.form = "variadic" /\ ~IsMutable(f, Fixed(f) + 1) => frame.incoming = has.tail
  BY <1>1 DEF FrameInv
<1>3. PICK i \in 1..(Fixed(f) + 1) :
        /\ IsMutable(f, i)
        /\ frame' = [frame EXCEPT !.sees = Assigned(f, i, frame.sees), !.means = Assigned(f, i, frame.means)]
  BY DEF Assign
<1>4. Fixed(f) \in Nat /\ DOMAIN v.consts \subseteq 1..Fixed(f)
  <2>1. program \in Program /\ arities \subseteq ArityDemand
    BY DEF FixedPointInv, TypeOK
  <2>. QED
    BY <1>2, <2>1, ProgramFacts, VersionFacts, ConstsBounded
<1>5. /\ \A g : Fixed(g)' = Fixed(g)
      /\ \A g, j : IsMutable(g, j)' = IsMutable(g, j)
      /\ \E g \in Function : v \in Versions(g)'
  BY <1>1, <1>2, VersionsConstant DEF Fixed, IsMutable
<1> DEFINE now == Assigned(f, i, has)
<1>6. frame' = [version |-> v, sees |-> now, means |-> now, incoming |-> frame.incoming]
  <2>1. frame.means = has
    BY <1>2
  <2>. HIDE DEF now
  <2>2. frame' = [frame EXCEPT !.sees = now, !.means = now]
    BY <1>3, <2>1 DEF now
  <2>. QED
    BY <1>2, <2>2
<1>7. now = [fixed |-> now.fixed, tail |-> now.tail]
  BY DEF Assigned
<1>8. CASE i <= Fixed(f)
  <2>1. now.fixed = [has.fixed EXCEPT ![i] = Other] /\ now.tail = has.tail
    BY <1>8 DEF Assigned
  <2>2. /\ now.fixed = [j \in 1..Fixed(f) |-> now.fixed[j]]
        /\ \A j \in DOMAIN v.consts : ~IsMutable(f, j) => now.fixed[j] = v.consts[j]
    BY <1>2, <1>3, <1>4, <2>1
  <2>. HIDE DEF now
  <2>. QED
    BY <1>2, <1>5, <1>6, <1>7, <2>1, <2>2 DEF FrameInv
<1>9. CASE ~(i <= Fixed(f))
  <2>1. now.fixed = has.fixed
    BY <1>9 DEF Assigned
  <2>2. IsMutable(f, Fixed(f) + 1)
    BY <1>3, <1>4, <1>9
  <2>. HIDE DEF now
  <2>. QED
    BY <1>2, <1>5, <1>6, <1>7, <2>1, <2>2 DEF FrameInv
<1>. QED
  BY <1>8, <1>9

LEMMA FrameStep ==
    MutableKept /\ FixedPointInv /\ Generated /\ FrameInv /\ [Next]_vars => FrameInv'
<1> SUFFICES ASSUME MutableKept, FixedPointInv, Generated, FrameInv, [Next]_vars PROVE FrameInv'
  OBVIOUS
<1>1. CASE Generate
  <2> DEFINE v == Base(program.main)
             none == [fixed |-> <<>>, tail |-> <<>>]
  <2>1. frame' = [version |-> v, sees |-> none, means |-> none, incoming |-> <<>>] /\ pc' = "run"
        /\ UNCHANGED <<program, constants, arities>>
    BY <1>1 DEF Generate, Enter
  <2>2. v.fn = program.main /\ v.consts = <<>> /\ v.form = "base"
    BY DEF Base, Version
  <2>3. program.main \in Function /\ Fixed(program.main)' = 0 /\ v \in Versions(program.main)
    BY <2>1, ProgramFacts, VersionsHold DEF FixedPointInv, Fixed
  <2>4. v \in Versions(program.main)'
    BY <2>1, <2>3, VersionsConstant
  <2>5. none.fixed = [i \in 1..0 |-> none.fixed[i]] /\ DOMAIN <<>> = {} /\ none = [fixed |-> none.fixed, tail |-> none.tail]
    OBVIOUS
  <2>. HIDE DEF v, none
  <2>. QED
    BY <2>1, <2>2, <2>3, <2>4, <2>5 DEF FrameInv
<1>2. CASE Invoke
  BY <1>2, InvokeKeeps
<1>3. CASE Assign
  BY <1>3, AssignKeeps
<1>4. CASE UNCHANGED vars
  <2>1. \A f : Fixed(f)' = Fixed(f) /\ \A i : IsMutable(f, i)' = IsMutable(f, i)
    BY <1>4 DEF vars, Fixed, IsMutable
  <2>. QED
    BY <1>4, <2>1, VersionsConstant DEF vars, FrameInv
<1>5. CASE ValidateCall \/ Validated \/ ForwardConstants \/ ConstantsRound \/ ForwardArities \/ AritiesRound
  BY <1>5 DEF ValidateCall, Validated, ForwardConstants, ConstantsRound, ForwardArities, AritiesRound, FrameInv
<1>. QED
  BY <1>1, <1>2, <1>3, <1>4, <1>5 DEF Next

\* Where parameters that may be assigned are not passed on, every function sees the
\* arguments the source gives it, whichever wrappers lie between
\* (irgen.go:653-665, 717-724, 3249-3254, 3460-3476).
THEOREM ArgumentsSeen ==
    ASSUME MutableKept
    PROVE  Spec => []SeesArguments
<1>1. Init => FrameInv
  BY DEF Init, FrameInv
<1>2. FixedPointInv /\ Generated /\ FrameInv /\ [Next]_vars => FrameInv'
  BY FrameStep
<1>3. FrameInv => SeesArguments
  BY DEF FrameInv, SeesArguments
<1>. QED
  BY <1>1, <1>2, <1>3, FixedPointInvariant, GeneratedInvariant, PTL DEF Spec
=============================================================================
