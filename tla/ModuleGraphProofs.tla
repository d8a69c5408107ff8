-------------------------- MODULE ModuleGraphProofs --------------------------
(***************************************************************************)
(* Theorems about the module order, for every graph of imports over every  *)
(* set of packages, and about the initializers of modules, for every       *)
(* choice of compile-time selection too: the globals of a module are       *)
(* assigned once, after those it needs, before main.                       *)
(***************************************************************************)
EXTENDS ModuleGraph, SequenceTheorems, TLAPS

-----------------------------------------------------------------------------
(* Stacks and lists.                                                        *)

LEMMA TopFacts ==
    ASSUME NEW S, NEW s \in Seq(S), s # <<>>
    PROVE  Len(s) \in Nat \ {0} /\ Top(s) \in S /\ Top(s) = s[Len(s)]
<1>1. Len(s) \in Nat \ {0}
  OBVIOUS
<1>. QED
  BY <1>1 DEF Top

LEMMA PopFacts ==
    ASSUME NEW S, NEW s \in Seq(S), s # <<>>
    PROVE  /\ Pop(s) \in Seq(S)
           /\ Len(Pop(s)) = Len(s) - 1
           /\ \A k \in 1..(Len(s) - 1) : Pop(s)[k] = s[k]
<1> DEFINE n == Len(s)
<1>1. n \in Nat \ {0} /\ 1 \in Int /\ n - 1 \in Nat /\ (1..(n - 1)) \subseteq 1..n
  OBVIOUS
<1>2. \A k \in 1..(n - 1) : s[k] \in S
  BY <1>1
<1>3. SubSeq(s, 1, n - 1) = [k \in 1..(n - 1) |-> s[k]]
  BY <1>1, SMT
<1>4. SubSeq(s, 1, n - 1) \in Seq(S) /\ Len(SubSeq(s, 1, n - 1)) = n - 1
  <2>1. [k \in 1..(n - 1) |-> s[k]] \in Seq(S) /\ Len([k \in 1..(n - 1) |-> s[k]]) = n - 1
    BY <1>1, <1>2
  <2>. QED
    BY <1>3, <2>1
<1>. QED
  BY <1>3, <1>4 DEF Pop

LEMMA PushFacts ==
    ASSUME NEW S, NEW s \in Seq(S), NEW e \in S
    PROVE  /\ Append(s, e) \in Seq(S)
           /\ Len(Append(s, e)) = Len(s) + 1
           /\ \A k \in 1..Len(s) : Append(s, e)[k] = s[k]
           /\ Append(s, e)[Len(s) + 1] = e
           /\ Append(s, e) # <<>>
  BY AppendProperties

LEMMA AdvanceFacts ==
    ASSUME NEW s \in Seq(Frame), s # <<>>
    PROVE  /\ Advance(s) \in Seq(Frame)
           /\ Advance(s) # <<>>
           /\ Len(Advance(s)) = Len(s)
           /\ \A k \in 1..Len(s) : Advance(s)[k].name = s[k].name
           /\ \A k \in 1..(Len(s) - 1) : Advance(s)[k].next = s[k].next
           /\ Advance(s)[Len(s)].next = s[Len(s)].next + 1
<1> DEFINE n == Len(s)
           f == [s[n] EXCEPT !.next = @ + 1]
<1>1. n \in Nat \ {0} /\ \A k \in 1..n : s[k] \in Frame
  OBVIOUS
<1>2. n \in 1..n
  BY <1>1
<1>3. f \in Frame /\ f.name = s[n].name /\ f.next = s[n].next + 1
  BY <1>1, <1>2 DEF Frame
<1>4. Advance(s) = [s EXCEPT ![n] = f]
  BY <1>1, <1>2 DEF Advance
<1>5. [s EXCEPT ![n] = f] \in Seq(Frame) /\ Len([s EXCEPT ![n] = f]) = n
  <2>. HIDE DEF f
  <2>. QED
    BY <1>2, <1>3, ExceptSeq
<1>6. \A k \in 1..n : [s EXCEPT ![n] = f][k] = IF k = n THEN f ELSE s[k]
  BY <1>1
<1>. HIDE DEF f, n
<1>7. Advance(s) # <<>>
  BY <1>1, <1>4, <1>5
<1>8. \A k \in 1..n : Advance(s)[k].name = s[k].name
  BY <1>3, <1>4, <1>6
<1>9. \A k \in 1..(n - 1) : Advance(s)[k].next = s[k].next
  BY <1>1, <1>4, <1>6
<1>10. Advance(s)[n].next = s[n].next + 1
  BY <1>2, <1>3, <1>4, <1>6
<1>. QED
  BY <1>4, <1>5, <1>7, <1>8, <1>9, <1>10 DEF n

LEMMA MembersOfAppend ==
    ASSUME NEW S, NEW s \in Seq(S), NEW e \in S
    PROVE  Members(Append(s, e)) = Members(s) \cup {e}
<1>1. Len(s) \in Nat /\ Len(Append(s, e)) = Len(s) + 1
  BY PushFacts
<1>2. 1..(Len(s) + 1) = (1..Len(s)) \cup {Len(s) + 1}
  BY <1>1
<1>. QED
  BY <1>1, <1>2, PushFacts DEF Members

LEMMA MembersType ==
    ASSUME NEW S, NEW s \in Seq(S)
    PROVE  Members(s) \subseteq S
  BY DEF Members

LEMMA WithFacts ==
    ASSUME NEW S, NEW s \in Seq(S), NEW e \in S, NEW wanted
    PROVE  /\ With(s, e, wanted) \in Seq(S)
           /\ Members(s) \subseteq Members(With(s, e, wanted))
           /\ Members(With(s, e, wanted)) \subseteq Members(s) \cup {e}
           /\ wanted => e \in Members(With(s, e, wanted))
  BY PushFacts, MembersOfAppend DEF With

LEMMA ProgramFacts ==
    ASSUME NEW g \in Program, NEW m \in Package
    PROVE  /\ g \in Programs
           /\ Imports(g, m) \in Seq(Package)
           /\ Selected(g, m) \in Seq(Package)
           /\ Members(Selected(g, m)) \subseteq Members(Imports(g, m))
<1> DEFINE written == g.written[m]
           scanned == With(written, Builtin, m # Builtin)
           std == ImplicitStd(g, m)
<1>1. g \in Programs /\ Builtin \in Package /\ Std \in Package
  BY GraphAssumption
<1>2. written \in Seq(Package) /\ g.kept[m] \in Seq(Package) /\ Members(g.kept[m]) \subseteq Members(written)
  BY <1>1, GraphAssumption DEF Programs
<1>. HIDE DEF written
<1>3. scanned \in Seq(Package) /\ Members(written) \subseteq Members(scanned)
  BY <1>1, <1>2, WithFacts
<1>. HIDE DEF scanned, std
<1>4. /\ With(scanned, Std, std) \in Seq(Package)
      /\ Members(scanned) \subseteq Members(With(scanned, Std, std))
      /\ std => Std \in Members(With(scanned, Std, std))
  BY <1>1, <1>3, WithFacts
<1>5. /\ With(g.kept[m], Std, std) \in Seq(Package)
      /\ Members(With(g.kept[m], Std, std)) \subseteq Members(g.kept[m]) \cup {Std}
  BY <1>1, <1>2, WithFacts
<1>6. ~std => With(g.kept[m], Std, std) = g.kept[m]
  BY DEF With
<1>7. Members(With(g.kept[m], Std, std)) \subseteq Members(With(scanned, Std, std))
  BY <1>2, <1>3, <1>4, <1>5, <1>6
<1>. QED
  BY <1>1, <1>4, <1>5, <1>7 DEF Imports, Selected, scanned, written, std

LEMMA ReachFacts ==
    ASSUME NEW imports, NEW m \in Package
    PROVE  /\ Reach(imports, m) \subseteq Package
           /\ m \in Reach(imports, m)
           /\ \A c \in Reach(imports, m), d \in Package :
                 d \in Members(imports[c]) => d \in Reach(imports, m)
           /\ \A C \in SUBSET Package :
                 (m \in C /\ \A c \in C : Members(imports[c]) \subseteq C)
                    => Reach(imports, m) \subseteq C
<1>1. ASSUME NEW c \in Reach(imports, m), NEW d \in Package, d \in Members(imports[c])
      PROVE  d \in Reach(imports, m)
  <2>1. ASSUME NEW C \in SUBSET Package, m \in C, \A x \in C : Members(imports[x]) \subseteq C
        PROVE  d \in C
    BY <1>1, <2>1 DEF Reach
  <2>. QED
    BY <2>1 DEF Reach
<1>. QED
  BY <1>1 DEF Reach

-----------------------------------------------------------------------------
(* Types.                                                                   *)

\* Every variable has its type, the program is one of the given ones, and the
\* next import of a call of visit is never before the first.
StackStarted == \A k \in 1..Len(stack) : stack[k].next # 0
TypeInv == TypeOK /\ program \in Program /\ StackStarted

LEMMA InitTyped == Init => TypeInv
<1>. SUFFICES ASSUME Init PROVE TypeInv
  OBVIOUS
<1>1. program \in Programs /\ Main \in Package
  BY GraphAssumption DEF Init
<1>2. <<>> \in Seq(Frame) /\ <<>> \in Seq(Package) /\ 1..Len(<<>>) = {}
  OBVIOUS
<1>3. NoError \in [kind : {"none", "unknown", "circular"}, name : Package]
  BY <1>1 DEF NoError
<1>. QED
  BY <1>1, <1>2, <1>3 DEF Init, TypeInv, TypeOK, StackStarted

LEMMA FrameFacts ==
    ASSUME NEW s \in Seq(Frame), s # <<>>
    PROVE  Top(s).name \in Package /\ Top(s).next \in Nat
<1>1. Top(s) \in Frame
  BY TopFacts
<1>. QED
  BY <1>1 DEF Frame

LEMMA NextTyped ==
    ASSUME TypeInv, [Next]_vars
    PROVE  TypeInv'
<1>. USE DEF TypeInv, TypeOK
<1>0. \A m \in Package : Imports(program, m) \in Seq(Package) /\ Selected(program, m) \in Seq(Package)
  BY ProgramFacts
<1>p. Main \in Package
  BY GraphAssumption
<1>f. ASSUME NEW kind \in {"unknown", "circular"}, NEW d \in Package, Fail(kind, d)
      PROVE  TypeInv'
  BY <1>f DEF Fail, generateVars, runVars, StackStarted
<1>e. ASSUME NEW s \in Seq(Frame), \A k \in 1..Len(s) : s[k].next # 0, NEW d \in Package, Enter(s, d)
      PROVE  TypeInv'
  <2> DEFINE f == [name |-> d, next |-> 1]
  <2>1. f \in Frame /\ f.next # 0
    BY DEF Frame
  <2>2. stack' = Append(s, f)
    BY <1>e DEF Enter
  <2>. HIDE DEF f
  <2>3. stack' \in Seq(Frame) /\ StackStarted'
    <3>1. \A k \in 1..(Len(s) + 1) : k \in 1..Len(s) \/ k = Len(s) + 1
      OBVIOUS
    <3>. QED
      BY <1>e, <2>1, <2>2, <3>1, PushFacts DEF StackStarted
  <2>. QED
    BY <1>e, <2>3 DEF Enter, generateVars, runVars
<1>1. CASE VisitPrimary
  <2>1. <<>> \in Seq(Frame) /\ 1..Len(<<>>) = {}
    OBVIOUS
  <2>. QED
    BY <1>1, <1>f, <1>e, <1>p, <2>1 DEF VisitPrimary
<1>2. CASE VisitImport
  <2> DEFINE imports == Imports(program, Top(stack).name)
             d == imports[Top(stack).next]
  <2>1. stack # <<>> /\ Advance(stack) \in Seq(Frame)
    BY <1>2, AdvanceFacts DEF VisitImport
  <2>2. imports \in Seq(Package) /\ Top(stack).next \in Nat /\ Top(stack).next # 0
    <3>1. Top(stack).name \in Package /\ Top(stack).next \in Nat
      BY <2>1, FrameFacts
    <3>2. Len(stack) \in 1..Len(stack) /\ Top(stack) = stack[Len(stack)]
      BY <2>1, TopFacts
    <3>. QED
      BY <1>0, <3>1, <3>2 DEF StackStarted
  <2>3. /\ Top(stack).next <= Len(imports)
        /\ \/ Fail("unknown", d) \/ Fail("circular", d)
           \/ Skip \/ Enter(Advance(stack), d)
    BY <1>2 DEF VisitImport, Visit
  <2>4. d \in Package
    BY <2>2, <2>3
  <2>5. \A k \in 1..Len(Advance(stack)) : Advance(stack)[k].next # 0
    <3>1. \A k \in 1..Len(stack) : k \in 1..(Len(stack) - 1) \/ k = Len(stack)
      BY <2>1
    <3>2. Advance(stack)[Len(stack)].next = Top(stack).next + 1
      BY <2>1, AdvanceFacts DEF Top
    <3>. QED
      <4>1. ASSUME NEW k \in 1..(Len(stack) - 1) PROVE Advance(stack)[k].next # 0
        <5>1. k \in 1..Len(stack)
          BY <2>1
        <5>2. Advance(stack)[k].next = stack[k].next
          BY <2>1, AdvanceFacts
        <5>. QED
          BY <5>1, <5>2 DEF StackStarted
      <4>2. Advance(stack)[Len(stack)].next # 0
        BY <2>2, <3>2
      <4>3. Len(Advance(stack)) = Len(stack)
        BY <2>1, AdvanceFacts
      <4>. QED
        BY <3>1, <4>1, <4>2, <4>3
  <2>. HIDE DEF imports, d
  <2>6. CASE Skip
    BY <2>1, <2>5, <2>6 DEF Skip, generateVars, runVars, StackStarted
  <2>. QED
    BY <2>1, <2>3, <2>4, <2>5, <2>6, <1>f, <1>e
<1>3. CASE Visited
  <2>1. stack # <<>> /\ Top(stack).name \in Package
    BY <1>3, FrameFacts DEF Visited
  <2>2. stack' \in Seq(Frame) /\ StackStarted'
    <3>1. Pop(stack) \in Seq(Frame) /\ Len(Pop(stack)) = Len(stack) - 1
      BY <2>1, PopFacts
    <3>2. \A k \in 1..(Len(stack) - 1) : Pop(stack)[k] = stack[k] /\ k \in 1..Len(stack)
      BY <2>1, PopFacts
    <3>. QED
      BY <1>3, <3>1, <3>2 DEF Visited, StackStarted
  <2>. QED
    BY <1>3, <2>1, <2>2 DEF Visited, generateVars, runVars
<1>4. CASE Generate
  <2>1. order[at] \in Package
    BY <1>4 DEF Generate
  <2>2. InitializersOf(order[at]) \subseteq Package
    BY DEF InitializersOf
  <2>3. initializers' \in [Package -> SUBSET Package]
    BY <1>4, <2>1, <2>2 DEF Generate
  <2>4. initialised' \subseteq Package /\ at' \in Nat \ {0}
    BY <1>4, <2>1 DEF Generate
  <2>. QED
    BY <1>4, <2>3, <2>4 DEF Generate, orderVars, runVars, StackStarted
<1>5. CASE Link \/ CallMain \/ UNCHANGED vars
  BY <1>5 DEF Link, CallMain, vars, orderVars, generateVars, runVars, StackStarted
<1>c. ASSUME NEW s \in Seq(Frame), NEW m \in Package
      PROVE  Call(s, m) \in Seq(Frame)
  <2>1. [name |-> m, next |-> 0] \in Frame
    BY DEF Frame
  <2>. QED
    BY <2>1, PushFacts DEF Call
<1>6. CASE CallRoot
  <2>1. order[root] \in Package
    BY <1>6 DEF CallRoot
  <2>2. calls' \in Seq(Frame) /\ root' \in Nat \ {0}
    <3>1. Call(calls, order[root]) \in Seq(Frame)
      BY <1>c, <2>1
    <3>. QED
      BY <1>6, <3>1 DEF CallRoot
  <2>. QED
    BY <1>6, <2>2 DEF CallRoot, orderVars, generateVars, StackStarted
<1>7. CASE TestGuard
  <2>1. calls # <<>> /\ Top(calls).name \in Package
    BY <1>7, FrameFacts DEF TestGuard
  <2>2. Pop(calls) \in Seq(Frame) /\ Advance(calls) \in Seq(Frame)
    BY <2>1, PopFacts, AdvanceFacts
  <2>3. calls' \in Seq(Frame) /\ guards' \subseteq Package
    BY <1>7, <2>1, <2>2 DEF TestGuard
  <2>. QED
    BY <1>7, <2>3 DEF TestGuard, orderVars, generateVars, StackStarted
<1>8. CASE CallDependency
  <2> DEFINE imports == Selected(program, Top(calls).name)
             d == imports[Top(calls).next]
  <2>1. calls # <<>> /\ Top(calls).name \in Package /\ Top(calls).next \in 1..Len(imports)
    BY <1>8, FrameFacts DEF CallDependency
  <2>2. d \in Package
    BY <1>0, <2>1
  <2>3. calls' = Call(Advance(calls), d) \/ calls' = Advance(calls)
    BY <1>8 DEF CallDependency
  <2>. HIDE DEF imports, d
  <2>4. calls' \in Seq(Frame)
    <3>1. Advance(calls) \in Seq(Frame)
      BY <2>1, AdvanceFacts
    <3>2. Call(Advance(calls), d) \in Seq(Frame)
      BY <1>c, <2>2, <3>1
    <3>. QED
      BY <2>3, <3>1, <3>2
  <2>. QED
    BY <1>8, <2>4 DEF CallDependency, orderVars, generateVars, StackStarted
<1>9. CASE AssignGlobals
  <2>1. calls # <<>> /\ Top(calls).name \in Package
    BY <1>9, FrameFacts DEF AssignGlobals
  <2>2. calls' \in Seq(Frame) /\ ran' \in Seq(Package)
    BY <1>9, <2>1, PopFacts, PushFacts DEF AssignGlobals
  <2>. QED
    BY <1>9, <2>2 DEF AssignGlobals, orderVars, generateVars, StackStarted
<1>. QED
  BY <1>1, <1>2, <1>3, <1>4, <1>5, <1>6, <1>7, <1>8, <1>9 DEF Next

\* Every variable keeps its type: the stacks of visit and of the initializers hold
\* packages, the order is a list of packages.
THEOREM TypeCorrect == Spec => []TypeOK
<1>1. Init => TypeInv
  BY InitTyped
<1>2. TypeInv /\ [Next]_vars => TypeInv'
  BY NextTyped
<1>3. TypeInv => TypeOK
  BY DEF TypeInv
<1>. QED
  BY <1>1, <1>2, <1>3, PTL DEF Spec

-----------------------------------------------------------------------------
(* The walk of visit.                                                       *)

\* A module that was seen is reached from the main one, and has sources.
SeenReached == \A m \in Package : visited[m] # "unseen" => m \in Reached /\ m \in program.known

\* The stack is the path of the walk: its modules are those being visited, each
\* once, each imported by the one below it and so reached by all below it.
StackVisiting == \A k \in 1..Len(stack) : visited[stack[k].name] = "visiting"
StackOnce == \A i, k \in 1..Len(stack) : stack[i].name = stack[k].name => i = k
VisitingStacked ==
    \A m \in Package : visited[m] = "visiting" => \E k \in 1..Len(stack) : stack[k].name = m
StackChain ==
    \A k \in 1..(Len(stack) - 1) :
        stack[k + 1].name \in Members(Imports(program, stack[k].name))
StackReaches ==
    \A k, j \in 1..Len(stack) : j <= k => stack[k].name \in Reach(ImportGraph, stack[j].name)
StackMain == stack # <<>> => stack[1].name = Main
StackInv ==
    StackVisiting /\ StackOnce /\ VisitingStacked /\ StackChain /\ StackReaches /\ StackMain

\* The imports a module went past are done, except the one it is waiting for.
Passed(k, d) == visited[d] = "done" \/ (k < Len(stack) /\ stack[k + 1].name = d)
StackPassed ==
    \A k \in 1..Len(stack) : \A j \in 1..Len(Imports(program, stack[k].name)) :
        j < stack[k].next => Passed(k, Imports(program, stack[k].name)[j])

\* The modules that are done are those in the order, each once, each after its
\* imports; when the walk ends the main one is among them.
DoneOrdered == \A m \in Package : visited[m] = "done" <=> m \in Members(order)
OrderOnce == \A i, k \in 1..Len(order) : order[i] = order[k] => i = k
Accepted == pc \in {"generate", "run", "main"}
MainOrdered == Accepted => Main \in Members(order)
OrderInv == DoneOrdered /\ OrderOnce /\ ImportsFirst /\ MainOrdered

ErrorsSound ==
    /\ error.kind = "circular" => error.name \in Reached /\ Cyclic(error.name)
    /\ error.kind = "unknown" => error.name \in Reached \ program.known

WalkInv == SeenReached /\ StackInv /\ StackPassed /\ OrderInv /\ ErrorsSound

LEMMA GraphFacts ==
    ASSUME TypeInv, NEW m \in Package
    PROVE  /\ Imports(program, m) \in Seq(Package)
           /\ ImportGraph[m] = Imports(program, m)
           /\ m \in program.known => KnownGraph[m] = Imports(program, m)
           /\ Members(Imports(program, m)) \subseteq Package
<1>1. Imports(program, m) \in Seq(Package)
  BY ProgramFacts DEF TypeInv
<1>. QED
  BY <1>1, MembersType DEF ImportGraph, KnownGraph

LEMMA InitWalk == Init => WalkInv
<1>. SUFFICES ASSUME Init PROVE WalkInv
  OBVIOUS
<1>1. 1..Len(<<>>) = {} /\ Len(<<>>) = 0 /\ 1..(0 - 1) = {}
  OBVIOUS
<1>2. Members(<<>>) = {}
  BY <1>1 DEF Members
<1>3. SeenReached /\ DoneOrdered /\ MainOrdered /\ VisitingStacked
  BY <1>2 DEF Init, SeenReached, DoneOrdered, MainOrdered, Accepted, VisitingStacked
<1>4. StackVisiting /\ StackOnce /\ StackChain /\ StackReaches /\ StackMain /\ StackPassed
  BY <1>1 DEF Init, StackVisiting, StackOnce, StackChain, StackReaches, StackMain, StackPassed
<1>5. OrderOnce /\ ImportsFirst
  BY <1>1 DEF Init, OrderOnce, ImportsFirst
<1>6. ErrorsSound
  BY DEF Init, NoError, ErrorsSound
<1>. QED
  BY <1>3, <1>4, <1>5, <1>6 DEF WalkInv, StackInv, OrderInv

\* Steps that do not walk keep the invariant.
LEMMA Unwalked ==
    ASSUME WalkInv, UNCHANGED <<program, visited, stack, order>>, Accepted' => Accepted,
           error' = error \/ ErrorsSound'
    PROVE  WalkInv'
<1>1. Reached' = Reached /\ ImportGraph' = ImportGraph
  BY DEF Reached, KnownGraph, ImportGraph
<1>2. SeenReached'
  BY <1>1 DEF WalkInv, SeenReached
<1>3. StackInv'
  BY <1>1 DEF WalkInv, StackInv, StackVisiting, StackOnce, VisitingStacked, StackChain,
              StackReaches, StackMain
<1>4. StackPassed'
  BY DEF WalkInv, StackPassed, Passed
<1>5. OrderInv'
  BY DEF WalkInv, OrderInv, DoneOrdered, OrderOnce, ImportsFirst, MainOrdered
<1>6. ErrorsSound'
  BY <1>1 DEF WalkInv, ErrorsSound, Cyclic
<1>. QED
  BY <1>2, <1>3, <1>4, <1>5, <1>6 DEF WalkInv

LEMMA PrimaryWalk ==
    ASSUME TypeInv, WalkInv, VisitPrimary
    PROVE  WalkInv'
<1>p. Main \in Package
  BY GraphAssumption
<1>m. Main \in Reached
  BY <1>p, ReachFacts DEF Reached
<1>r. Reached' = Reached /\ ImportGraph' = ImportGraph
  BY DEF VisitPrimary, Fail, Enter, Reached, KnownGraph, ImportGraph
<1>1. CASE Fail("unknown", Main) /\ Main \notin program.known
  <2>1. ErrorsSound'
    BY <1>1, <1>m, <1>r DEF Fail, ErrorsSound
  <2>. QED
    BY <1>1, <2>1, Unwalked DEF Fail, Accepted
<1>2. CASE Enter(<<>>, Main) /\ Main \in program.known /\ stack = <<>> /\ pc = "order"
  <2> DEFINE f == [name |-> Main, next |-> 1]
  <2>1. stack' = <<f>>
    BY <1>2 DEF Enter
  <2>2. Len(stack') = 1 /\ stack'[1] = f /\ f.name = Main /\ f.next = 1 /\ stack' # <<>>
    BY <2>1
  <2>. HIDE DEF f
  <2>3. visited' = [visited EXCEPT ![Main] = "visiting"] /\ visited \in [Package -> {"unseen", "visiting", "done"}]
    BY <1>2 DEF Enter, TypeInv, TypeOK
  <2>4. \A m \in Package : visited[m] # "visiting"
    <3>1. 1..Len(stack) = {}
      BY <1>2
    <3>. QED
      BY <3>1 DEF WalkInv, StackInv, VisitingStacked
  <2>5. visited[Main] # "done"
    <3>1. order = <<>>
      BY DEF VisitPrimary
    <3>2. Members(order) = {}
      BY <3>1 DEF Members
    <3>. QED
      BY <1>p, <3>2 DEF WalkInv, OrderInv, DoneOrdered
  <2>6. SeenReached'
    BY <1>2, <1>m, <1>p, <1>r, <2>3 DEF WalkInv, SeenReached, Enter
  <2>7. 1..Len(stack') = {1} /\ 1..(Len(stack') - 1) = {}
    BY <2>2
  <2>8. StackInv'
    <3>1. StackVisiting' /\ StackOnce' /\ VisitingStacked' /\ StackMain' /\ StackChain'
      BY <1>p, <2>2, <2>3, <2>4, <2>7 DEF StackVisiting, StackOnce, VisitingStacked, StackMain, StackChain
    <3>2. Main \in Reach(ImportGraph, Main)
      BY <1>p, ReachFacts
    <3>3. StackReaches'
      BY <1>r, <2>2, <2>7, <3>2 DEF StackReaches
    <3>. QED
      BY <3>1, <3>3 DEF StackInv
  <2>9. StackPassed'
    <3>1. \A j \in 1..Len(Imports(program', Main)) : ~(j < 1)
      <4>1. Len(Imports(program', Main)) \in Nat
        BY <1>2, <1>p, GraphFacts DEF Enter
      <4>. QED
        BY <4>1
    <3>. QED
      BY <2>2, <2>7, <3>1 DEF StackPassed
  <2>10. OrderInv'
    BY <1>2, <1>p, <2>3, <2>5 DEF WalkInv, OrderInv, DoneOrdered, OrderOnce, ImportsFirst,
                                 MainOrdered, Accepted, Enter
  <2>11. ErrorsSound'
    BY <1>2, <1>r DEF WalkInv, ErrorsSound, Cyclic, Enter
  <2>. QED
    BY <2>6, <2>8, <2>9, <2>10, <2>11 DEF WalkInv
<1>. QED
  BY <1>1, <1>2 DEF VisitPrimary

\* The call of visit that goes on, and the import it is at.
Waiting == stack[Len(stack)].name
Place == stack[Len(stack)].next
Import == Imports(program, Waiting)[Place]

LEMMA WaitingFacts ==
    ASSUME TypeInv, WalkInv, VisitImport
    PROVE  /\ Len(stack) \in Nat \ {0} /\ Len(stack) \in 1..Len(stack)
           /\ \A k \in 1..Len(stack) : stack[k].name \in Package /\ stack[k].next \in Nat
           /\ Waiting \in Package /\ Place \in 1..Len(Imports(program, Waiting))
           /\ Import \in Package /\ Import \in Members(Imports(program, Waiting))
           /\ Waiting \in Reached /\ Import \in Reached /\ visited[Waiting] = "visiting"
           /\ pc = "order"
           /\ IF Import \in program.known THEN Visit(Import) ELSE Fail("unknown", Import)
<1>1. stack # <<>> /\ pc = "order" /\ stack \in Seq(Frame)
  BY DEF VisitImport, TypeInv, TypeOK
<1>2. Len(stack) \in Nat \ {0} /\ Len(stack) \in 1..Len(stack) /\ Top(stack) = stack[Len(stack)]
  BY <1>1 DEF Top
<1>3. \A k \in 1..Len(stack) : stack[k].name \in Package /\ stack[k].next \in Nat
  <2>1. \A k \in 1..Len(stack) : stack[k] \in Frame
    BY <1>1
  <2>. QED
    BY <2>1 DEF Frame
<1>4. Waiting \in Package /\ Place \in Nat /\ Place # 0 /\ Place <= Len(Imports(program, Waiting))
  BY <1>2, <1>3 DEF Waiting, Place, VisitImport, TypeInv, StackStarted
<1>5. Imports(program, Waiting) \in Seq(Package)
  BY <1>4, GraphFacts
<1>6. Place \in 1..Len(Imports(program, Waiting))
  BY <1>4, <1>5
<1>7. Import \in Package /\ Import \in Members(Imports(program, Waiting))
  BY <1>5, <1>6 DEF Import, Members
<1>8. visited[Waiting] = "visiting"
  BY <1>2 DEF WalkInv, StackInv, StackVisiting, Waiting
<1>9. Waiting \in Reached /\ Waiting \in program.known
  BY <1>4, <1>8 DEF WalkInv, SeenReached
<1>10. Import \in Reached
  <2>1. Import \in Members(KnownGraph[Waiting])
    BY <1>4, <1>7, <1>9, GraphFacts
  <2>. QED
    BY <1>7, <1>9, <2>1, ReachFacts, GraphAssumption DEF Reached
<1>11. IF Import \in program.known THEN Visit(Import) ELSE Fail("unknown", Import)
  BY <1>2 DEF VisitImport, Waiting, Place, Import
<1>. QED
  BY <1>1, <1>2, <1>3, <1>4, <1>6, <1>7, <1>8, <1>9, <1>10, <1>11

\* The import is on the path: the path from it to the call is a cycle.
LEMMA CycleFound ==
    ASSUME TypeInv, WalkInv, VisitImport, visited[Import] = "visiting"
    PROVE  Cyclic(Import)
<1> DEFINE n == Len(stack)
<1>w. /\ n \in Nat \ {0} /\ n \in 1..n
      /\ \A k \in 1..n : stack[k].name \in Package
      /\ Waiting \in Package /\ Import \in Package
      /\ Import \in Members(Imports(program, Waiting))
  BY WaitingFacts
<1>1. PICK k \in 1..n : stack[k].name = Import
  BY <1>w DEF WalkInv, StackInv, VisitingStacked
<1>2. CASE k = n
  <2>1. Import = Waiting
    BY <1>1, <1>2 DEF Waiting
  <2>2. Import \in Reach(ImportGraph, Import)
    BY <1>w, ReachFacts
  <2>. QED
    BY <1>w, <2>1, <2>2 DEF Cyclic
<1>3. CASE k # n
  <2>1. k \in 1..(n - 1) /\ k + 1 \in 1..n /\ k + 1 <= n
    BY <1>w, <1>1, <1>3
  <2> DEFINE e == stack[k + 1].name
  <2>2. e \in Members(Imports(program, Import)) /\ e \in Package
    BY <1>w, <1>1, <2>1 DEF WalkInv, StackInv, StackChain
  <2>3. Waiting \in Reach(ImportGraph, e)
    BY <1>w, <2>1 DEF WalkInv, StackInv, StackReaches, Waiting
  <2>. HIDE DEF e
  <2>4. Import \in Reach(ImportGraph, e)
    <3>1. Import \in Members(ImportGraph[Waiting])
      BY <1>w, GraphFacts
    <3>. QED
      BY <1>w, <2>2, <2>3, <3>1, ReachFacts
  <2>. QED
    BY <2>2, <2>4 DEF Cyclic
<1>. QED
  BY <1>2, <1>3

LEMMA FailWalk ==
    ASSUME TypeInv, WalkInv, VisitImport,
           \/ Fail("unknown", Import) /\ Import \notin program.known
           \/ Fail("circular", Import) /\ visited[Import] = "visiting"
    PROVE  WalkInv'
<1>1. Reached' = Reached /\ ImportGraph' = ImportGraph
  BY DEF Fail, Reached, KnownGraph, ImportGraph
<1>2. Import \in Reached
  BY WaitingFacts
<1>3. ErrorsSound'
  <2>1. CASE Fail("unknown", Import) /\ Import \notin program.known
    BY <1>1, <1>2, <2>1 DEF Fail, ErrorsSound
  <2>2. CASE Fail("circular", Import) /\ visited[Import] = "visiting"
    <3>1. Cyclic(Import)
      BY <2>2, CycleFound
    <3>2. error'.kind = "circular" /\ error'.name = Import /\ program' = program
      BY <2>2 DEF Fail
    <3>3. \E d \in Members(Imports(program', error'.name)) : error'.name \in Reach(ImportGraph', d)
      BY <1>1, <3>1, <3>2 DEF Cyclic
    <3>. QED
      BY <1>1, <1>2, <3>2, <3>3 DEF ErrorsSound, Cyclic
  <2>. QED
    BY <2>1, <2>2
<1>. QED
  BY <1>3, Unwalked DEF Fail, Accepted

LEMMA SkipWalk ==
    ASSUME TypeInv, WalkInv, VisitImport, Skip, visited[Import] = "done"
    PROVE  WalkInv'
<1> DEFINE n == Len(stack)
<1>w. /\ n \in Nat \ {0} /\ n \in 1..n
      /\ \A k \in 1..n : stack[k].name \in Package /\ stack[k].next \in Nat
      /\ Place \in 1..Len(Imports(program, Waiting))
  BY WaitingFacts
<1>1. /\ Len(stack') = n /\ stack' # <<>>
      /\ \A k \in 1..n : stack'[k].name = stack[k].name
      /\ \A k \in 1..(n - 1) : stack'[k].next = stack[k].next
      /\ stack'[n].next = Place + 1
  <2>1. stack \in Seq(Frame) /\ stack # <<>> /\ stack' = Advance(stack)
    BY DEF TypeInv, TypeOK, VisitImport, Skip
  <2>. QED
    BY <2>1, AdvanceFacts DEF Place
<1>2. program' = program /\ visited' = visited /\ pc' = pc /\ order' = order /\ error' = error
  BY DEF Skip
<1>r. Reached' = Reached /\ ImportGraph' = ImportGraph
  BY <1>2 DEF Reached, KnownGraph, ImportGraph
<1>3. SeenReached'
  BY <1>2, <1>r DEF WalkInv, SeenReached
<1>4. StackInv'
  <2>1. \A k \in 1..(n - 1) : k \in 1..n /\ k + 1 \in 1..n
    BY <1>w
  <2>2. 1 \in 1..n /\ stack # <<>>
    BY <1>w DEF VisitImport
  <2>3. StackVisiting' /\ StackOnce' /\ VisitingStacked'
    BY <1>1, <1>2 DEF WalkInv, StackInv, StackVisiting, StackOnce, VisitingStacked
  <2>4. StackChain' /\ StackReaches' /\ StackMain'
    BY <1>1, <1>2, <1>r, <2>1, <2>2 DEF WalkInv, StackInv, StackChain, StackReaches, StackMain
  <2>. QED
    BY <2>3, <2>4 DEF StackInv
<1>5. StackPassed'
  <2>. SUFFICES ASSUME NEW k \in 1..n, NEW j \in 1..Len(Imports(program, stack[k].name)),
                       j < stack'[k].next
                PROVE  \/ visited[Imports(program, stack[k].name)[j]] = "done"
                       \/ k < n /\ stack'[k + 1].name = Imports(program, stack[k].name)[j]
    BY <1>1, <1>2 DEF StackPassed, Passed
  <2>1. CASE k = n
    <3>1. j < Place \/ j = Place
      BY <1>w, <1>1, <2>1
    <3>2. CASE j = Place
      BY <2>1, <3>2 DEF Import, Waiting
    <3>3. CASE j < Place
      <4>1. Passed(n, Imports(program, stack[k].name)[j])
        BY <1>w, <2>1, <3>3 DEF WalkInv, StackPassed, Place
      <4>. QED
        BY <1>w, <4>1 DEF Passed
    <3>. QED
      BY <3>1, <3>2, <3>3
  <2>2. CASE k # n
    <3>1. k \in 1..(n - 1) /\ k + 1 \in 1..n
      BY <1>w, <2>2
    <3>2. Passed(k, Imports(program, stack[k].name)[j])
      BY <1>1, <3>1 DEF WalkInv, StackPassed
    <3>. QED
      BY <1>1, <3>1, <3>2 DEF Passed
  <2>. QED
    BY <2>1, <2>2
<1>6. OrderInv'
  BY <1>2 DEF WalkInv, OrderInv, DoneOrdered, OrderOnce, ImportsFirst, MainOrdered, Accepted
<1>7. ErrorsSound'
  BY <1>2, <1>r DEF WalkInv, ErrorsSound, Cyclic
<1>. QED
  BY <1>3, <1>4, <1>5, <1>6, <1>7 DEF WalkInv

LEMMA EnterWalk ==
    ASSUME TypeInv, WalkInv, VisitImport, Enter(Advance(stack), Import),
           visited[Import] = "unseen", Import \in program.known
    PROVE  WalkInv'
<1> DEFINE n == Len(stack)
<1>w. /\ n \in Nat \ {0} /\ n \in 1..n
      /\ \A k \in 1..n : stack[k].name \in Package /\ stack[k].next \in Nat
      /\ Waiting \in Package /\ Place \in 1..Len(Imports(program, Waiting))
      /\ Import \in Package /\ Import \in Members(Imports(program, Waiting))
      /\ Import \in Reached
  BY WaitingFacts
<1>1. /\ Len(stack') = n + 1 /\ stack' # <<>>
      /\ \A k \in 1..n : stack'[k].name = stack[k].name
      /\ \A k \in 1..(n - 1) : stack'[k].next = stack[k].next
      /\ stack'[n].next = Place + 1
      /\ stack'[n + 1].name = Import /\ stack'[n + 1].next = 1
  <2> DEFINE a == Advance(stack)
             f == [name |-> Import, next |-> 1]
  <2>1. stack \in Seq(Frame) /\ stack # <<>> /\ stack' = Append(a, f)
    BY DEF TypeInv, TypeOK, VisitImport, Enter
  <2>2. f \in Frame /\ f.name = Import /\ f.next = 1
    BY <1>w DEF Frame
  <2>3. /\ a \in Seq(Frame) /\ Len(a) = n
        /\ \A k \in 1..n : a[k].name = stack[k].name
        /\ \A k \in 1..(n - 1) : a[k].next = stack[k].next
        /\ a[n].next = Place + 1
    BY <2>1, AdvanceFacts DEF Place
  <2>. HIDE DEF a, f
  <2>4. /\ Len(Append(a, f)) = n + 1 /\ Append(a, f) # <<>>
        /\ \A k \in 1..n : Append(a, f)[k] = a[k]
        /\ Append(a, f)[n + 1] = f
    BY <2>2, <2>3, PushFacts
  <2>5. \A k \in 1..(n - 1) : k \in 1..n
    BY <1>w
  <2>. QED
    BY <1>w, <2>1, <2>2, <2>3, <2>4, <2>5
<1>2. program' = program /\ pc' = pc /\ order' = order /\ error' = error
  BY DEF Enter
<1>3. \A m \in Package : visited'[m] = IF m = Import THEN "visiting" ELSE visited[m]
  BY DEF Enter, TypeInv, TypeOK
<1>4. \A k \in 1..(n + 1) : k \in 1..n \/ k = n + 1
  BY <1>w
<1>5. \A k \in 1..n : stack[k].name # Import
  BY DEF WalkInv, StackInv, StackVisiting
<1>6. n + 1 \in 1..(n + 1) /\ n + 1 \notin 1..n /\ \A k \in 1..n : k \in 1..(n + 1)
  BY <1>w
<1>r. Reached' = Reached /\ ImportGraph' = ImportGraph
  BY <1>2 DEF Reached, KnownGraph, ImportGraph
<1>7. SeenReached'
  BY <1>w, <1>2, <1>3, <1>r DEF WalkInv, SeenReached
<1>8. StackVisiting' /\ StackOnce' /\ VisitingStacked'
  <2>1. StackVisiting'
    BY <1>w, <1>1, <1>3, <1>4 DEF WalkInv, StackInv, StackVisiting
  <2>2. StackOnce'
    BY <1>1, <1>4, <1>5 DEF WalkInv, StackInv, StackOnce
  <2>3. VisitingStacked'
    BY <1>1, <1>3, <1>6 DEF WalkInv, StackInv, VisitingStacked
  <2>. QED
    BY <2>1, <2>2, <2>3
<1>9. StackChain'
  <2>. SUFFICES ASSUME NEW k \in 1..n
                PROVE  stack'[k + 1].name \in Members(Imports(program, stack[k].name))
    BY <1>w, <1>1, <1>2 DEF StackChain
  <2>1. CASE k = n
    BY <1>w, <1>1, <2>1 DEF Waiting
  <2>2. CASE k # n
    <3>1. k \in 1..(n - 1) /\ k + 1 \in 1..n
      BY <1>w, <2>2
    <3>. QED
      BY <1>1, <3>1 DEF WalkInv, StackInv, StackChain
  <2>. QED
    BY <2>1, <2>2
<1>10. StackReaches'
  <2>1. Import \in Reach(ImportGraph, Import)
    BY <1>w, ReachFacts
  <2>2. ASSUME NEW j \in 1..n
        PROVE  Import \in Reach(ImportGraph, stack[j].name)
    <3>1. Waiting \in Reach(ImportGraph, stack[j].name)
      BY <1>w DEF WalkInv, StackInv, StackReaches, Waiting
    <3>2. Import \in Members(ImportGraph[Waiting])
      BY <1>w, GraphFacts
    <3>. QED
      BY <1>w, <3>1, <3>2, ReachFacts
  <2>3. ASSUME NEW k \in 1..(n + 1), NEW j \in 1..(n + 1), j <= k
        PROVE  stack'[k].name \in Reach(ImportGraph, stack'[j].name)
    <3>1. CASE k \in 1..n
      <4>1. j \in 1..n
        BY <1>w, <2>3, <3>1
      <4>. QED
        BY <1>1, <2>3, <3>1, <4>1 DEF WalkInv, StackInv, StackReaches
    <3>2. CASE k = n + 1
      BY <1>1, <1>4, <2>1, <2>2, <3>2
    <3>. QED
      BY <1>4, <3>1, <3>2
  <2>. QED
    BY <1>1, <1>r, <2>3 DEF StackReaches
<1>11. StackMain'
  <2>1. 1 \in 1..n /\ stack # <<>>
    BY <1>w DEF VisitImport
  <2>. QED
    BY <1>1, <2>1 DEF WalkInv, StackInv, StackMain
<1>12. StackPassed'
  <2>. SUFFICES ASSUME NEW k \in 1..(n + 1), NEW j \in 1..Len(Imports(program, stack'[k].name)),
                       j < stack'[k].next
                PROVE  \/ visited'[Imports(program, stack'[k].name)[j]] = "done"
                       \/ k < n + 1 /\ stack'[k + 1].name = Imports(program, stack'[k].name)[j]
    BY <1>1, <1>2 DEF StackPassed, Passed
  <2> DEFINE d == Imports(program, stack[k].name)[j]
  <2>1. CASE k = n + 1
    <3>1. Len(Imports(program, Import)) \in Nat
      BY <1>w, GraphFacts
    <3>. QED
      BY <1>1, <2>1, <3>1
  <2>2. CASE k = n
    <3>1. j < Place \/ j = Place
      BY <1>w, <1>1, <2>2
    <3>2. CASE j = Place
      BY <1>w, <1>1, <2>2, <3>2 DEF Import, Waiting
    <3>3. CASE j < Place
      <4>1. Passed(n, d)
        BY <1>w, <1>1, <2>2, <3>3 DEF WalkInv, StackPassed, Place
      <4>2. visited[d] = "done"
        BY <1>w, <4>1 DEF Passed
      <4>3. d \in Package
        BY <1>w, <1>1, <2>2, GraphFacts
      <4>4. visited'[d] = "done"
        BY <1>3, <4>2, <4>3
      <4>. QED
        BY <1>w, <1>1, <2>2, <4>4
    <3>. QED
      BY <3>1, <3>2, <3>3
  <2>3. CASE k \in 1..(n - 1)
    <3>1. k \in 1..n /\ k + 1 \in 1..n /\ k < n + 1
      BY <1>w, <2>3
    <3>2. Passed(k, d)
      BY <1>1, <2>3, <3>1 DEF WalkInv, StackPassed
    <3>3. d \in Package
      BY <1>w, <1>1, <3>1, GraphFacts
    <3>4. visited'[d] = "done" \/ stack'[k + 1].name = d
      BY <1>1, <1>3, <3>1, <3>2, <3>3 DEF Passed
    <3>. QED
      BY <1>1, <3>1, <3>4
  <2>. QED
    BY <1>w, <2>1, <2>2, <2>3
<1>13. OrderInv'
  <2>1. DoneOrdered'
    BY <1>w, <1>2, <1>3 DEF WalkInv, OrderInv, DoneOrdered
  <2>. QED
    BY <1>2, <2>1 DEF WalkInv, OrderInv, OrderOnce, ImportsFirst, MainOrdered, Accepted
<1>14. ErrorsSound'
  BY <1>2, <1>r DEF WalkInv, ErrorsSound, Cyclic
<1>. QED
  BY <1>7, <1>8, <1>9, <1>10, <1>11, <1>12, <1>13, <1>14 DEF WalkInv, StackInv

LEMMA VisitedWalk ==
    ASSUME TypeInv, WalkInv, Visited
    PROVE  WalkInv'
<1> DEFINE n == Len(stack)
           p == Len(order)
           imports == Imports(program, Waiting)
<1>w. /\ n \in Nat \ {0} /\ n \in 1..n
      /\ \A k \in 1..n : stack[k].name \in Package
      /\ Waiting \in Package /\ visited[Waiting] = "visiting"
      /\ imports \in Seq(Package) /\ Place \in Nat /\ Place > Len(imports)
      /\ pc = "order" /\ order \in Seq(Package) /\ p \in Nat
  <2>1. stack # <<>> /\ pc = "order" /\ stack \in Seq(Frame) /\ order \in Seq(Package)
    BY DEF Visited, TypeInv, TypeOK
  <2>2. n \in Nat \ {0} /\ n \in 1..n /\ Top(stack) = stack[n] /\ p \in Nat
    BY <2>1 DEF Top
  <2>3. \A k \in 1..n : stack[k] \in Frame
    BY <2>1
  <2>4. \A k \in 1..n : stack[k].name \in Package /\ stack[k].next \in Nat
    BY <2>3 DEF Frame
  <2>5. visited[Waiting] = "visiting"
    BY <2>2 DEF WalkInv, StackInv, StackVisiting, Waiting
  <2>6. Waiting \in Package /\ Place \in Nat /\ Place > Len(imports)
    BY <2>2, <2>4 DEF Visited, Waiting, Place
  <2>. QED
    BY <2>1, <2>2, <2>4, <2>5, <2>6, GraphFacts
<1>1. /\ Len(stack') = n - 1
      /\ \A k \in 1..(n - 1) : stack'[k] = stack[k]
      /\ \A k \in 1..(n - 1) : k \in 1..n /\ k # n
      /\ \A k \in 1..n : k \in 1..(n - 1) \/ k = n
  <2>1. stack \in Seq(Frame) /\ stack # <<>> /\ stack' = Pop(stack)
    BY DEF TypeInv, TypeOK, Visited
  <2>. QED
    BY <1>w, <2>1, PopFacts
<1>2. program' = program /\ error' = error /\ pc' = IF n = 1 THEN "generate" ELSE pc
  BY DEF Visited
<1>3. \A m \in Package : visited'[m] = IF m = Waiting THEN "done" ELSE visited[m]
  <2>1. visited' = [visited EXCEPT ![Waiting] = "done"]
    BY <1>w DEF Visited, Waiting, Top
  <2>. QED
    BY <2>1 DEF TypeInv, TypeOK
<1>4. /\ Len(order') = p + 1 /\ order'[p + 1] = Waiting
      /\ \A k \in 1..p : order'[k] = order[k]
      /\ Members(order') = Members(order) \cup {Waiting}
      /\ \A k \in 1..(p + 1) : k \in 1..p \/ k = p + 1
  <2>1. order' = Append(order, Waiting)
    BY <1>w DEF Visited, Waiting, Top
  <2>. QED
    BY <1>w, <2>1, PushFacts, MembersOfAppend
<1>5. \A k \in 1..(n - 1) : stack[k].name # Waiting
  BY <1>w, <1>1 DEF WalkInv, StackInv, StackOnce, Waiting
<1>6. \A d \in Members(imports) : d \in Package /\ visited[d] = "done"
  <2>. SUFFICES ASSUME NEW j \in 1..Len(imports)
                PROVE  imports[j] \in Package /\ visited[imports[j]] = "done"
    BY DEF Members
  <2>1. j < Place
    BY <1>w
  <2>2. Passed(n, imports[j])
    BY <1>w, <2>1 DEF WalkInv, StackPassed, Waiting, Place
  <2>. QED
    BY <1>w, <2>2 DEF Passed
<1>. HIDE DEF n, p, imports
<1>r. Reached' = Reached /\ ImportGraph' = ImportGraph
  BY <1>2 DEF Reached, KnownGraph, ImportGraph
<1>7. SeenReached'
  BY <1>w, <1>2, <1>3, <1>r DEF WalkInv, SeenReached
<1>8. StackVisiting' /\ StackOnce' /\ VisitingStacked'
  <2>1. StackVisiting'
    <3>1. ASSUME NEW k \in 1..(n - 1)
          PROVE  visited'[stack'[k].name] = "visiting"
      <4>1. k \in 1..n /\ stack'[k].name = stack[k].name
        BY <1>1
      <4>2. stack[k].name \in Package /\ stack[k].name # Waiting
        BY <1>w, <1>5, <4>1
      <4>3. visited[stack[k].name] = "visiting"
        BY <4>1 DEF WalkInv, StackInv, StackVisiting, n
      <4>. QED
        BY <1>3, <4>1, <4>2, <4>3
    <3>. QED
      BY <1>1, <3>1 DEF StackVisiting
  <2>2. StackOnce'
    BY <1>1 DEF WalkInv, StackInv, StackOnce, n
  <2>3. VisitingStacked'
    <3>. SUFFICES ASSUME NEW m \in Package, visited'[m] = "visiting"
                  PROVE  \E k \in 1..(n - 1) : stack'[k].name = m
      BY <1>1 DEF VisitingStacked
    <3>1. visited[m] = "visiting" /\ m # Waiting
      BY <1>3
    <3>2. PICK k \in 1..n : stack[k].name = m
      BY <3>1 DEF WalkInv, StackInv, VisitingStacked, n
    <3>3. k # n
      BY <3>1, <3>2 DEF Waiting, n
    <3>. QED
      BY <1>1, <3>2, <3>3
  <2>. QED
    BY <2>1, <2>2, <2>3
<1>9. StackChain'
  <2>1. \A k \in 1..((n - 1) - 1) : k \in 1..(n - 1) /\ k + 1 \in 1..(n - 1)
    BY <1>w
  <2>. QED
    BY <1>1, <1>2, <2>1 DEF WalkInv, StackInv, StackChain, n
<1>10. StackReaches'
  BY <1>1, <1>r DEF WalkInv, StackInv, StackReaches, n
<1>11. StackMain'
  <2>1. stack' # <<>> => 1 \in 1..(n - 1) /\ stack # <<>>
    <3>1. stack' \in Seq(Frame)
      BY <1>w, PopFacts DEF TypeInv, TypeOK, Visited
    <3>. QED
      BY <1>1, <1>w, <3>1 DEF Visited
  <2>. QED
    BY <1>1, <2>1 DEF WalkInv, StackInv, StackMain
<1>12. StackPassed'
  <2>. SUFFICES ASSUME NEW k \in 1..(n - 1), NEW j \in 1..Len(Imports(program, stack[k].name)),
                       j < stack[k].next
                PROVE  \/ visited'[Imports(program, stack[k].name)[j]] = "done"
                       \/ k < n - 1 /\ stack'[k + 1].name = Imports(program, stack[k].name)[j]
    BY <1>1, <1>2 DEF StackPassed, Passed
  <2> DEFINE d == Imports(program, stack[k].name)[j]
  <2>1. Passed(k, d)
    BY <1>1 DEF WalkInv, StackPassed, n
  <2>2. d \in Package
    <3>1. Imports(program, stack[k].name) \in Seq(Package)
      BY <1>w, <1>1, GraphFacts
    <3>. QED
      BY <3>1
  <2>3. CASE k = n - 1
    <3>1. visited[d] = "done" \/ stack[n].name = d
      BY <1>w, <2>1, <2>3 DEF Passed, n
    <3>. QED
      BY <1>3, <2>2, <3>1 DEF Waiting, n
  <2>4. CASE k # n - 1
    <3>1. k < n - 1 /\ k + 1 \in 1..(n - 1)
      BY <1>w, <2>4
    <3>. QED
      BY <1>1, <1>3, <2>1, <2>2, <3>1 DEF Passed
  <2>. QED
    BY <2>3, <2>4
<1>13. OrderInv'
  <2>1. DoneOrdered'
    BY <1>w, <1>3, <1>4 DEF WalkInv, OrderInv, DoneOrdered
  <2>2. Waiting \notin Members(order)
    BY <1>w DEF WalkInv, OrderInv, DoneOrdered
  <2>3. OrderOnce'
    <3>1. \A k \in 1..p : order[k] # Waiting
      BY <2>2 DEF Members, p
    <3>. QED
      BY <1>4, <3>1 DEF WalkInv, OrderInv, OrderOnce, p
  <2>4. ImportsFirst'
    <3>. SUFFICES ASSUME NEW i \in 1..(p + 1), NEW d \in Members(Imports(program, order'[i]))
                  PROVE  \E k \in 1..(i - 1) : order'[k] = d
      BY <1>2, <1>4 DEF ImportsFirst
    <3>1. CASE i = p + 1
      <4>1. d \in Package /\ visited[d] = "done"
        BY <1>4, <1>6, <3>1 DEF imports
      <4>2. d \in Members(order)
        BY <4>1 DEF WalkInv, OrderInv, DoneOrdered
      <4>3. PICK k \in 1..p : order[k] = d
        BY <4>2 DEF Members, p
      <4>4. k \in 1..(i - 1)
        BY <1>w, <3>1
      <4>. QED
        BY <1>4, <4>3, <4>4
    <3>2. CASE i \in 1..p
      <4>1. PICK k \in 1..(i - 1) : order[k] = d
        BY <1>4, <3>2 DEF WalkInv, OrderInv, ImportsFirst, p
      <4>2. k \in 1..p
        BY <1>w, <3>2
      <4>. QED
        BY <1>4, <4>1, <4>2
    <3>. QED
      BY <1>4, <3>1, <3>2
  <2>5. MainOrdered'
    <3>1. CASE n = 1
      <4>1. Waiting = Main
        BY <3>1 DEF WalkInv, StackInv, StackMain, Waiting, Visited, n
      <4>. QED
        BY <1>4, <4>1 DEF MainOrdered
    <3>2. CASE n # 1
      BY <1>w, <1>2, <3>2 DEF MainOrdered, Accepted
    <3>. QED
      BY <3>1, <3>2
  <2>. QED
    BY <2>1, <2>3, <2>4, <2>5 DEF OrderInv
<1>14. ErrorsSound'
  BY <1>2, <1>r DEF WalkInv, ErrorsSound, Cyclic
<1>. QED
  BY <1>7, <1>8, <1>9, <1>10, <1>11, <1>12, <1>13, <1>14 DEF WalkInv, StackInv

LEMMA NextWalk ==
    ASSUME TypeInv, WalkInv, [Next]_vars
    PROVE  WalkInv'
<1>1. CASE VisitPrimary
  BY <1>1, PrimaryWalk
<1>2. CASE VisitImport
  <2>1. /\ Import \in Package
        /\ IF Import \in program.known THEN Visit(Import) ELSE Fail("unknown", Import)
    BY <1>2, WaitingFacts
  <2>2. CASE Import \notin program.known
    BY <1>2, <2>1, <2>2, FailWalk
  <2>3. CASE Import \in program.known
    <3>1. Visit(Import)
      BY <2>1, <2>3
    <3>. QED
      BY <1>2, <2>3, <3>1, FailWalk, SkipWalk, EnterWalk DEF Visit
  <2>. QED
    BY <2>2, <2>3
<1>3. CASE Visited
  BY <1>3, VisitedWalk
<1>4. CASE Generate \/ Link \/ CallRoot \/ TestGuard \/ CallDependency \/ AssignGlobals \/ CallMain
  <2>1. UNCHANGED <<program, visited, stack, order, error>>
    BY <1>4 DEF Generate, Link, CallRoot, TestGuard, CallDependency, AssignGlobals, CallMain, orderVars
  <2>2. Accepted
    BY <1>4 DEF Generate, Link, CallRoot, TestGuard, CallDependency, AssignGlobals, CallMain, Accepted
  <2>. QED
    BY <2>1, <2>2, Unwalked
<1>5. CASE UNCHANGED vars
  BY <1>5, Unwalked DEF vars, Accepted
<1>. QED
  BY <1>1, <1>2, <1>3, <1>4, <1>5 DEF Next

LEMMA WalkCorrect == Spec => [](TypeInv /\ WalkInv)
<1>1. Init => TypeInv /\ WalkInv
  BY InitTyped, InitWalk
<1>2. TypeInv /\ WalkInv /\ [Next]_vars => (TypeInv /\ WalkInv)'
  BY NextTyped, NextWalk
<1>. QED
  BY <1>1, <1>2, PTL DEF Spec

-----------------------------------------------------------------------------
(* What the order promises.                                                 *)

\* A list that is closed under imports holds what its modules reach.
LEMMA OrderReached ==
    ASSUME TypeInv, WalkInv, Accepted
    PROVE  Members(order) = Reach(ImportGraph, Main)
<1>m. Main \in Package /\ Main \in Members(order) /\ Members(order) \subseteq Package
  BY GraphAssumption, MembersType DEF TypeInv, TypeOK, WalkInv, OrderInv, MainOrdered
<1>1. \A c \in Members(order) : Members(ImportGraph[c]) \subseteq Members(order)
  <2>. SUFFICES ASSUME NEW i \in 1..Len(order), NEW d \in Members(ImportGraph[order[i]])
                PROVE  d \in Members(order)
    BY DEF Members
  <2>1. order[i] \in Package
    BY <1>m DEF Members
  <2>2. d \in Members(Imports(program, order[i]))
    BY <2>1, GraphFacts
  <2>3. PICK k \in 1..(i - 1) : order[k] = d
    BY <2>2 DEF WalkInv, OrderInv, ImportsFirst
  <2>4. k \in 1..Len(order)
    BY DEF TypeInv, TypeOK
  <2>. QED
    BY <2>3, <2>4 DEF Members
<1>2. Reach(ImportGraph, Main) \subseteq Members(order)
  BY <1>m, <1>1, ReachFacts
<1>3. Reached \subseteq Reach(ImportGraph, Main)
  <2>1. Reach(ImportGraph, Main) \subseteq Package /\ Main \in Reach(ImportGraph, Main)
    BY <1>m, ReachFacts
  <2>2. ASSUME NEW c \in Reach(ImportGraph, Main)
        PROVE  Members(KnownGraph[c]) \subseteq Reach(ImportGraph, Main)
    <3>1. c \in Package /\ Members(ImportGraph[c]) \subseteq Package
      BY <2>1, GraphFacts
    <3>2. Members(KnownGraph[c]) \subseteq Members(ImportGraph[c])
      <4>1. c \notin program.known => Members(KnownGraph[c]) = {}
        BY <3>1 DEF KnownGraph, Members
      <4>. QED
        BY <3>1, <4>1, GraphFacts
    <3>. QED
      BY <1>m, <3>1, <3>2, ReachFacts
  <2>. QED
    BY <1>m, <2>1, <2>2, ReachFacts DEF Reached
<1>4. Members(order) \subseteq Reached
  <2>1. \A m \in Members(order) : m \in Package /\ visited[m] = "done"
    BY <1>m DEF WalkInv, OrderInv, DoneOrdered
  <2>. QED
    BY <2>1 DEF WalkInv, SeenReached
<1>. QED
  BY <1>2, <1>3, <1>4

\* A module that is ordered is not reached by what it imports: the modules before
\* it are closed under imports.
LEMMA OrderAcyclic ==
    ASSUME TypeInv, WalkInv, NEW m \in Members(order)
    PROVE  ~Cyclic(m) /\ m \in program.known
<1>1. PICK i \in 1..Len(order) : order[i] = m
  BY DEF Members
<1>2. order \in Seq(Package) /\ Len(order) \in Nat
  BY DEF TypeInv, TypeOK
<1> DEFINE C == {order[k] : k \in 1..(i - 1)}
<1>3. \A k \in 1..(i - 1) : k \in 1..Len(order) /\ order[k] \in Package /\ k # i
  BY <1>2
<1>4. C \in SUBSET Package /\ m \notin C
  BY <1>1, <1>3 DEF WalkInv, OrderInv, OrderOnce
<1>5. \A c \in C : Members(ImportGraph[c]) \subseteq C
  <2>. SUFFICES ASSUME NEW k \in 1..(i - 1), NEW d \in Members(ImportGraph[order[k]])
                PROVE  d \in C
    OBVIOUS
  <2>1. d \in Members(Imports(program, order[k]))
    BY <1>3, GraphFacts
  <2>2. PICK j \in 1..(k - 1) : order[j] = d
    BY <1>3, <2>1 DEF WalkInv, OrderInv, ImportsFirst
  <2>3. j \in 1..(i - 1)
    BY <1>2
  <2>. QED
    BY <2>2, <2>3
<1>6. ASSUME NEW d \in Members(Imports(program, m))
      PROVE  m \notin Reach(ImportGraph, d)
  <2>1. d \in C
    BY <1>1, <1>6 DEF WalkInv, OrderInv, ImportsFirst
  <2>2. d \in Package
    BY <1>4, <2>1
  <2>. HIDE DEF C
  <2>3. Reach(ImportGraph, d) \subseteq C
    BY <1>4, <1>5, <2>1, <2>2, ReachFacts
  <2>. QED
    BY <1>4, <2>3
<1>7. m \in Package /\ visited[m] = "done"
  BY <1>1, <1>2 DEF WalkInv, OrderInv, DoneOrdered
<1>. QED
  BY <1>6, <1>7 DEF Cyclic, WalkInv, SeenReached

\* A module is compiled after every module it imports.
THEOREM ImportsComeFirst == Spec => []ImportsFirst
<1>1. TypeInv /\ WalkInv => ImportsFirst
  BY DEF WalkInv, OrderInv
<1>. QED
  BY <1>1, WalkCorrect, PTL

\* When the walk ends, the order holds what the main module reaches, each module
\* once.
THEOREM OrderComplete == Spec => []OrderIsReach
<1>1. TypeInv /\ WalkInv => OrderIsReach
  <2>. SUFFICES ASSUME TypeInv, WalkInv, Accepted
                PROVE  /\ Members(order) = Reach(ImportGraph, Main)
                       /\ \A i, k \in 1..Len(order) : order[i] = order[k] => i = k
    BY DEF OrderIsReach, Accepted
  <2>. QED
    BY OrderReached DEF WalkInv, OrderInv, OrderOnce
<1>. QED
  BY <1>1, WalkCorrect, PTL

\* A program is rejected for a cycle or an unknown import exactly when the main
\* module reaches one.
THEOREM CyclesRejected == Spec => []RejectsCycles
<1>1. TypeInv /\ WalkInv => RejectsCycles
  <2>. SUFFICES ASSUME TypeInv, WalkInv
                PROVE  RejectsCycles
    OBVIOUS
  <2>1. ASSUME Accepted
        PROVE  Reached \subseteq program.known /\ \A m \in Reached : ~Cyclic(m)
    <3>1. Reached \subseteq Members(order)
      <4>m. Main \in Package /\ Main \in Members(order) /\ Members(order) \subseteq Package
        BY <2>1, GraphAssumption, MembersType DEF TypeInv, TypeOK, WalkInv, OrderInv, MainOrdered
      <4>1. ASSUME NEW c \in Members(order)
            PROVE  Members(KnownGraph[c]) \subseteq Members(order)
        <5>1. c \in Package /\ c \in program.known
          BY <4>m, OrderAcyclic
        <5>2. Members(order) = Reach(ImportGraph, Main)
          BY <2>1, OrderReached
        <5>3. KnownGraph[c] = ImportGraph[c] /\ Members(ImportGraph[c]) \subseteq Package
          BY <5>1, GraphFacts
        <5>. QED
          BY <4>m, <5>1, <5>2, <5>3, ReachFacts
      <4>. QED
        BY <4>m, <4>1, ReachFacts DEF Reached
    <3>. QED
      BY <3>1, OrderAcyclic
  <2>. QED
    BY <2>1 DEF RejectsCycles, WalkInv, ErrorsSound, Accepted
<1>. QED
  BY <1>1, WalkCorrect, PTL

-----------------------------------------------------------------------------
(* Initializers: what the generator leaves.                                 *)

\* A module that was generated calls those of its imports that have an
\* initializer, and has one when it has globals to assign or calls to make.
Generated(m) ==
    /\ initializers[m] = InitializersOf(m)
    /\ m \in initialised <=> HasInitializer(m)

GeneratedBefore == \A i \in 1..Len(order) : i < at => Generated(order[i])
InitialisedBefore == \A m \in initialised : \E i \in 1..Len(order) : i < at /\ order[i] = m
GenerateInv ==
    /\ GeneratedBefore
    /\ InitialisedBefore
    /\ pc \in {"order", "failed"} => at = 1
    /\ pc \in {"run", "main"} => at > Len(order)

LEMMA SelectedBefore ==
    ASSUME TypeInv, WalkInv, NEW i \in 1..Len(order), NEW d \in Members(Selected(program, order[i]))
    PROVE  \E j \in 1..(i - 1) : order[j] = d
<1>1. order[i] \in Package
  BY DEF TypeInv, TypeOK
<1>2. d \in Members(Imports(program, order[i]))
  BY <1>1, ProgramFacts DEF TypeInv
<1>. QED
  BY <1>2 DEF WalkInv, OrderInv, ImportsFirst

LEMMA InitGenerate == Init => GenerateInv
  BY DEF Init, GenerateInv, GeneratedBefore, InitialisedBefore

LEMMA NextGenerate ==
    ASSUME TypeInv, WalkInv, GenerateInv, [Next]_vars
    PROVE  GenerateInv'
<1>t. order \in Seq(Package) /\ Len(order) \in Nat /\ at \in Nat \ {0} /\ pc \in {"order", "generate", "run", "main", "failed"}
  BY DEF TypeInv, TypeOK
<1>1. CASE VisitPrimary \/ VisitImport \/ Visited
  <2>1. at = 1 /\ initialised = {}
    BY <1>1, <1>t DEF VisitPrimary, VisitImport, Visited, GenerateInv, InitialisedBefore
  <2>2. at' = at /\ initialised' = initialised
    BY <1>1 DEF VisitPrimary, VisitImport, Visited, Fail, Enter, Visit, Skip, generateVars
  <2>3. pc' \in {"order", "generate", "failed"}
    BY <1>1 DEF VisitPrimary, VisitImport, Visited, Fail, Enter, Visit, Skip
  <2>4. \A i \in 1..Len(order') : ~(i < at')
    BY <2>1, <2>2
  <2>. QED
    BY <2>1, <2>2, <2>3, <2>4 DEF GenerateInv, GeneratedBefore, InitialisedBefore
<1>2. CASE Generate
  <2> DEFINE m == order[at]
  <2>1. /\ at \in 1..Len(order) /\ m \in Package
        /\ initializers' = [initializers EXCEPT ![m] = InitializersOf(m)]
        /\ initialised' = IF HasInitializer(m) THEN initialised \cup {m} ELSE initialised
        /\ at' = at + 1 /\ order' = order /\ pc' = pc /\ program' = program /\ pc = "generate"
    BY <1>2, <1>t DEF Generate, orderVars
  <2>2. \A i \in 1..Len(order) : i < at => order[i] # m
    BY <2>1, <1>t DEF WalkInv, OrderInv, OrderOnce
  <2>. HIDE DEF m
  <2>3. m \notin initialised
    BY <2>2 DEF GenerateInv, InitialisedBefore
  <2>4. \A i \in 1..at : m \notin Members(Selected(program, order[i]))
    <3>. SUFFICES ASSUME NEW i \in 1..at, m \in Members(Selected(program, order[i])) PROVE FALSE
      OBVIOUS
    <3>1. i \in 1..Len(order)
      BY <2>1, <1>t
    <3>2. PICK j \in 1..(i - 1) : order[j] = m
      BY <3>1, SelectedBefore
    <3>3. j \in 1..Len(order) /\ j < at
      BY <2>1, <1>t, <3>1
    <3>. QED
      BY <2>2, <3>2, <3>3
  <2>5. ASSUME NEW i \in 1..at
        PROVE  InitializersOf(order[i])' = InitializersOf(order[i])
    BY <2>1, <2>4, <2>5 DEF InitializersOf
  <2>6. ASSUME NEW i \in 1..Len(order), i < at'
        PROVE  Generated(order[i])'
    <3>0. i \in 1..at /\ order[i] \in Package
      BY <2>1, <2>6, <1>t
    <3>1. InitializersOf(order[i])' = InitializersOf(order[i]) /\ order'[i] = order[i]
      BY <2>1, <2>5, <3>0
    <3>2. HasInitializer(order[i])' <=> HasInitializer(order[i])
      BY <2>1, <3>1 DEF HasInitializer
    <3>3. CASE i < at
      <4>1. Generated(order[i]) /\ order[i] # m
        BY <2>2, <3>3 DEF GenerateInv, GeneratedBefore
      <4>2. initializers'[order[i]] = initializers[order[i]]
        BY <2>1, <4>1, <3>0 DEF TypeInv, TypeOK
      <4>. QED
        BY <2>1, <3>1, <3>2, <4>1, <4>2 DEF Generated
    <3>4. CASE i = at
      <4>1. order[i] = m
        BY <3>4 DEF m
      <4>2. initializers'[m] = InitializersOf(m)
        BY <2>1 DEF TypeInv, TypeOK
      <4>3. m \in initialised' <=> HasInitializer(m)
        BY <2>1, <2>3
      <4>. QED
        BY <3>1, <3>2, <4>1, <4>2, <4>3 DEF Generated
    <3>. QED
      BY <3>0, <3>3, <3>4, <1>t
  <2>7. GeneratedBefore'
    BY <2>1, <2>6 DEF GeneratedBefore
  <2>8. InitialisedBefore'
    <3>1. ASSUME NEW x \in initialised' PROVE \E i \in 1..Len(order) : i < at + 1 /\ order[i] = x
      <4>1. CASE x \in initialised
        <5>1. PICK i \in 1..Len(order) : i < at /\ order[i] = x
          BY <4>1 DEF GenerateInv, InitialisedBefore
        <5>. QED
          BY <5>1, <1>t
      <4>2. CASE x = m
        BY <2>1, <4>2 DEF m
      <4>. QED
        BY <2>1, <4>1, <4>2
    <3>. QED
      BY <2>1, <3>1 DEF InitialisedBefore
  <2>. QED
    BY <2>1, <2>7, <2>8 DEF GenerateInv
<1>3. CASE Link \/ CallRoot \/ TestGuard \/ CallDependency \/ AssignGlobals \/ CallMain \/ UNCHANGED vars
  <2>1. UNCHANGED <<program, order, initializers, initialised, at>>
    BY <1>3 DEF Link, CallRoot, TestGuard, CallDependency, AssignGlobals, CallMain, vars, orderVars, generateVars
  <2>2. \/ pc' = pc
        \/ pc = "generate" /\ pc' = "run" /\ at > Len(order)
        \/ pc = "run" /\ pc' = "main"
    BY <1>3 DEF Link, CallRoot, TestGuard, CallDependency, AssignGlobals, CallMain, vars
  <2>3. GeneratedBefore' /\ InitialisedBefore'
    BY <2>1 DEF GenerateInv, GeneratedBefore, Generated, InitializersOf, HasInitializer, InitialisedBefore
  <2>. QED
    BY <2>1, <2>2, <2>3 DEF GenerateInv
<1>. QED
  BY <1>1, <1>2, <1>3 DEF Next

-----------------------------------------------------------------------------
(* What the modules need.                                                   *)

Running == pc \in {"run", "main"}

LEMMA RunningFacts ==
    ASSUME TypeInv, WalkInv, GenerateInv, Running
    PROVE  /\ initialised \subseteq Members(order) /\ Members(order) \subseteq Package
           /\ \A m \in Members(order) :
                /\ Generated(m)
                /\ Selected(program, m) \in Seq(Package)
                /\ SelectedGraph[m] = Selected(program, m)
                /\ Members(Selected(program, m)) \subseteq Members(order)
<1>t. order \in Seq(Package) /\ Len(order) \in Nat /\ at \in Nat /\ program \in Program
  BY DEF TypeInv, TypeOK
<1>1. initialised \subseteq Members(order)
  BY DEF GenerateInv, InitialisedBefore, Members
<1>2. Members(order) \subseteq Package
  BY <1>t, MembersType
<1>3. ASSUME NEW m \in Members(order)
      PROVE  /\ Generated(m)
             /\ Selected(program, m) \in Seq(Package)
             /\ SelectedGraph[m] = Selected(program, m)
             /\ Members(Selected(program, m)) \subseteq Members(order)
  <2>1. PICK i \in 1..Len(order) : order[i] = m
    BY DEF Members
  <2>2. Generated(m)
    BY <1>t, <2>1 DEF GenerateInv, GeneratedBefore, Running
  <2>3. m \in Package
    BY <1>2
  <2>4. Selected(program, m) \in Seq(Package) /\ SelectedGraph[m] = Selected(program, m)
    BY <1>t, <2>3, ProgramFacts DEF SelectedGraph
  <2>5. ASSUME NEW d \in Members(Selected(program, m)) PROVE d \in Members(order)
    <3>1. PICK j \in 1..(i - 1) : order[j] = d
      BY <2>1, SelectedBefore
    <3>2. j \in 1..Len(order)
      BY <1>t
    <3>. QED
      BY <3>1, <3>2 DEF Members
  <2>. QED
    BY <2>2, <2>4, <2>5
<1>. QED
  BY <1>1, <1>2, <1>3

\* Whoever imports a module that has an initializer has one.
LEMMA ImporterInitialised ==
    ASSUME TypeInv, WalkInv, GenerateInv, Running,
           NEW m \in Members(order), NEW d \in Members(Selected(program, m)), d \in initialised
    PROVE  m \in initialised
  BY RunningFacts DEF Generated, InitializersOf, HasInitializer

\* A set of modules that was initialised, and all that have no initializer, hold
\* what a module of them needs.
LEMMA NeedsAmong ==
    ASSUME TypeInv, WalkInv, GenerateInv, Running,
           NEW R, \A r \in R : \A d \in Members(Selected(program, r)) \cap initialised : d \in R,
           NEW m \in Members(order), m \in initialised => m \in R
    PROVE  Needs(m) \subseteq R
<1> DEFINE C == {x \in Members(order) : x \in initialised => x \in R}
<1>1. C \in SUBSET Package /\ m \in C /\ m \in Package
  BY RunningFacts
<1>2. ASSUME NEW c \in C, NEW d \in Members(SelectedGraph[c]) PROVE d \in C
  <2>1. c \in Members(order) /\ d \in Members(Selected(program, c)) /\ d \in Members(order)
    BY <1>2, RunningFacts
  <2>2. CASE d \in initialised
    <3>1. c \in initialised
      BY <2>1, <2>2, ImporterInitialised
    <3>. QED
      BY <2>1, <2>2, <3>1
  <2>. QED
    BY <2>1, <2>2
<1>. HIDE DEF C
<1>3. Reach(SelectedGraph, m) \subseteq C
  BY <1>1, <1>2, ReachFacts
<1>4. ASSUME NEW d \in Needs(m) PROVE d \in R
  <2>1. d \in C /\ d \in program.dynamic
    BY <1>3 DEF Needs
  <2>2. d \in Members(order)
    BY <2>1 DEF C
  <2>3. d \in initialised
    BY <2>1, <2>2, RunningFacts DEF Generated, HasInitializer
  <2>. QED
    BY <2>1, <2>3 DEF C
<1>. QED
  BY <1>4
-----------------------------------------------------------------------------
(* The run of the initializers.                                             *)

Quiet == ~Running => root = 1 /\ calls = <<>> /\ guards = {} /\ ran = <<>>

\* The calls are of modules with an initializer, each ordered before its caller;
\* all but the last wait for a dependency.
CallsInitialised == \A k \in 1..Len(calls) : calls[k].name \in initialised
CallsDescend ==
    \A k, l \in 1..Len(calls) : k < l =>
        \A i, j \in 1..Len(order) : order[i] = calls[k].name /\ order[j] = calls[l].name => j < i
CallsWait == \A k \in 1..Len(calls) : k < Len(calls) => calls[k].next # 0

\* The dependencies a call went past ran, except the one it waits for.
RanOrCalled(k, d) == d \in Members(ran) \/ (k < Len(calls) /\ calls[k + 1].name = d)
CallsPassed ==
    \A k \in 1..Len(calls) : \A j \in 1..Len(Selected(program, calls[k].name)) :
        j < calls[k].next /\ Selected(program, calls[k].name)[j] \in initialised =>
            RanOrCalled(k, Selected(program, calls[k].name)[j])

\* The guards that are set are those of the modules that ran and of those that
\* are running.
GuardsSound == \A m \in guards : m \in Members(ran) \/ \E k \in 1..Len(calls) : calls[k].name = m /\ calls[k].next # 0
RunningOnce == \A k \in 1..Len(calls) : calls[k].next # 0 => calls[k].name \notin Members(ran)
GuardsSet ==
    /\ Members(ran) \subseteq guards
    /\ \A k \in 1..Len(calls) : calls[k].next # 0 => calls[k].name \in guards

\* Every module that ran, ran once and after its dependencies.
RanOnce == \A i, k \in 1..Len(ran) : ran[i] = ran[k] => i = k
RanAfter ==
    \A i \in 1..Len(ran) : \A d \in Members(Selected(program, ran[i])) \cap initialised :
        \E k \in 1..(i - 1) : ran[k] = d
RanInitialised == Members(ran) \subseteq initialised

\* The modules the start of the program went past ran, or the last one runs.
Root(m) == m \in initialised /\ (program.executable => m = Main)
RootsRan ==
    \A i \in 1..Len(order) : i < root /\ Root(order[i]) =>
        order[i] \in Members(ran) \/ (calls # <<>> /\ calls[1].name = order[i])

AtMain == pc = "main" => calls = <<>> /\ root > Len(order)

CallsInv == CallsInitialised /\ CallsDescend /\ CallsWait /\ CallsPassed
GuardsInv == GuardsSound /\ RunningOnce /\ GuardsSet
RanInv == RanOnce /\ RanAfter /\ RanInitialised
RunInv == Quiet /\ CallsInv /\ GuardsInv /\ RanInv /\ RootsRan /\ AtMain

LEMMA EmptyRun ==
    ASSUME calls = <<>>, guards = {}, ran = <<>>
    PROVE  CallsInv /\ GuardsInv /\ RanInv
<1>1. Len(<<>>) = 0 /\ 1..0 = {} /\ Members(<<>>) = {}
  BY DEF Members
<1>. QED
  BY <1>1 DEF CallsInv, CallsInitialised, CallsDescend, CallsWait, CallsPassed, GuardsInv, GuardsSound,
              RunningOnce, GuardsSet, RanInv, RanOnce, RanAfter, RanInitialised

\* The modules that are being initialised are different ones.
LEMMA CallsDiffer ==
    ASSUME TypeInv, WalkInv, GenerateInv, RunInv, Running,
           NEW k \in 1..Len(calls), NEW l \in 1..Len(calls), calls[k].name = calls[l].name
    PROVE  k = l
<1>1. calls[k].name \in Members(order)
  BY RunningFacts DEF RunInv, CallsInv, CallsInitialised
<1>2. PICK i \in 1..Len(order) : order[i] = calls[k].name
  BY <1>1 DEF Members
<1>3. ~(i < i)
  BY DEF TypeInv, TypeOK
<1>4. ~(k < l) /\ ~(l < k)
  BY <1>2, <1>3 DEF RunInv, CallsInv, CallsDescend
<1>5. Len(calls) \in Nat
  BY DEF TypeInv, TypeOK
<1>. QED
  BY <1>4, <1>5

-----------------------------------------------------------------------------
(* One lemma for each step of the run.                                      *)

LEMMA StillQuiet ==
    ASSUME TypeInv, RunInv, ~Running, UNCHANGED runVars, pc' # "main",
           pc' = "run" => pc = "generate"
    PROVE  RunInv'
<1>1. root' = 1 /\ calls' = <<>> /\ guards' = {} /\ ran' = <<>>
  BY DEF RunInv, Quiet, runVars
<1>2. (CallsInv /\ GuardsInv /\ RanInv)'
  <2>1. calls' = <<>> /\ guards' = {} /\ ran' = <<>>
    BY <1>1
  <2>2. Len(<<>>) = 0 /\ 1..0 = {} /\ Members(<<>>) = {}
    BY DEF Members
  <2>. QED
    BY <2>1, <2>2 DEF CallsInv, CallsInitialised, CallsDescend, CallsWait, CallsPassed, GuardsInv, GuardsSound,
                RunningOnce, GuardsSet, RanInv, RanOnce, RanAfter, RanInitialised
<1>3. RootsRan'
  <2>1. \A i \in 1..Len(order') : ~(i < 1)
    OBVIOUS
  <2>. QED
    BY <1>1, <2>1 DEF RootsRan
<1>. QED
  BY <1>1, <1>2, <1>3 DEF RunInv, Quiet, AtMain

\* Steps of the run leave the order and the initializers as they are.
RunStep == UNCHANGED <<program, pc, orderVars, generateVars>> /\ pc = "run"

LEMMA RootRun ==
    ASSUME TypeInv, WalkInv, GenerateInv, RunInv, CallRoot
    PROVE  RunInv'
<1> DEFINE m == order[root]
           f == [name |-> m, next |-> 0]
<1>1. /\ calls = <<>> /\ root \in 1..Len(order) /\ root' = root + 1 /\ root \in Nat
      /\ RunStep /\ guards' = guards /\ ran' = ran /\ m \in Package /\ Len(order) \in Nat
      /\ program' = program /\ order' = order /\ initialised' = initialised /\ pc' = "run"
  BY DEF CallRoot, RunStep, TypeInv, TypeOK, orderVars, generateVars
<1>2. calls' = IF Root(m) THEN Append(<<>>, f) ELSE <<>>
  BY <1>1 DEF CallRoot, Call, Root
<1>3. f \in Frame /\ f.name = m /\ f.next = 0
  BY <1>1 DEF Frame
<1>. HIDE DEF m, f
<1>4. Append(<<>>, f) = <<f>> /\ Len(<<f>>) = 1 /\ <<f>>[1] = f /\ Len(<<>>) = 0 /\ <<f>> # <<>>
  OBVIOUS
<1>5. /\ Len(calls') \in {0, 1}
      /\ \A k \in 1..Len(calls') : k = 1 /\ calls'[k] = f /\ Root(m)
  BY <1>2, <1>4
<1>6. CallsInv'
  <2>1. CallsInitialised' /\ CallsDescend' /\ CallsWait'
    BY <1>1, <1>3, <1>5 DEF Root, CallsInitialised, CallsDescend, CallsWait
  <2>2. CallsPassed'
    <3>1. \A k \in 1..Len(calls') : calls'[k].next = 0
      BY <1>3, <1>5
    <3>2. ASSUME NEW k \in 1..Len(calls'), NEW j \in 1..Len(Selected(program, calls'[k].name)) PROVE ~(j < calls'[k].next)
      BY <3>1
    <3>. QED
      BY <1>1, <3>2 DEF CallsPassed
  <2>. QED
    BY <2>1, <2>2 DEF CallsInv
<1>7. GuardsInv'
  <2>1. \A g \in guards : g \in Members(ran)
    BY <1>1 DEF RunInv, GuardsInv, GuardsSound
  <2>. QED
    BY <1>1, <1>3, <1>5, <2>1 DEF RunInv, GuardsInv, GuardsSound, RunningOnce, GuardsSet
<1>8. RanInv'
  BY <1>1 DEF RunInv, RanInv, RanOnce, RanAfter, RanInitialised
<1>9. RootsRan'
  <2>. SUFFICES ASSUME NEW i \in 1..Len(order), i < root + 1, Root(order[i])
                PROVE  order[i] \in Members(ran) \/ (calls' # <<>> /\ calls'[1].name = order[i])
    BY <1>1 DEF RootsRan, Root
  <2>1. CASE i < root
    BY <1>1, <2>1 DEF RunInv, RootsRan
  <2>2. CASE i = root
    BY <1>2, <1>3, <1>4, <2>2 DEF m
  <2>. QED
    BY <1>1, <2>1, <2>2
<1>. QED
  BY <1>1, <1>6, <1>7, <1>8, <1>9 DEF RunInv, Quiet, Running, AtMain

\* A call that returns has run, now or before.
LEMMA PopRun ==
    ASSUME TypeInv, WalkInv, GenerateInv, RunInv, RunStep, calls # <<>>, root' = root,
           calls' = Pop(calls), ran' \in Seq(Package), Members(ran) \subseteq Members(ran'), Top(calls).name \in Members(ran')
    PROVE  CallsInv' /\ RootsRan'
<1> DEFINE n == Len(calls)
<1>1. /\ calls \in Seq(Frame) /\ n \in Nat \ {0} /\ Top(calls) = calls[n]
      /\ program' = program /\ order' = order /\ initialised' = initialised
  BY TopFacts DEF TypeInv, TypeOK, RunStep, orderVars, generateVars
<1>2. calls' \in Seq(Frame) /\ Len(calls') = n - 1 /\ \A k \in 1..(n - 1) : calls'[k] = calls[k]
  BY <1>1, PopFacts
<1>3. \A k \in 1..(n - 1) : k \in 1..n /\ k + 1 \in 1..n /\ k < n
  BY <1>1
<1>. HIDE DEF n
<1>4. CallsInitialised' /\ CallsDescend' /\ CallsWait'
  <2>1. CallsInitialised'
    BY <1>1, <1>2, <1>3 DEF n, RunInv, CallsInv, CallsInitialised
  <2>2. CallsDescend'
    BY <1>1, <1>2, <1>3 DEF n, RunInv, CallsInv, CallsDescend
  <2>3. CallsWait'
    BY <1>1, <1>2, <1>3 DEF n, RunInv, CallsInv, CallsWait
  <2>. QED
    BY <2>1, <2>2, <2>3
<1>5. CallsPassed'
  <2>. SUFFICES ASSUME NEW k \in 1..Len(calls'), NEW j \in 1..Len(Selected(program', calls'[k].name)),
                       j < calls'[k].next, Selected(program', calls'[k].name)[j] \in initialised'
                PROVE  RanOrCalled(k, Selected(program, calls[k].name)[j])'
    BY DEF CallsPassed
  <2>0. k \in 1..(n - 1) /\ calls'[k] = calls[k] /\ Selected(program', calls'[k].name) = Selected(program, calls[k].name)
    BY <1>1, <1>2
  <2> DEFINE d == Selected(program, calls[k].name)[j]
  <2>1. RanOrCalled(k, d)
    BY <1>1, <1>3, <2>0 DEF n, RunInv, CallsInv, CallsPassed
  <2>2. Selected(program', calls'[k].name)[j] = d
    BY <2>0
  <2>. HIDE DEF d
  <2>3. d \in Members(ran') \/ (k < n - 1 /\ calls'[k + 1].name = d)
    <3>1. CASE d \in Members(ran)
      BY <3>1
    <3>2. CASE calls[k + 1].name = d /\ k + 1 = n
      BY <3>2, <1>1
    <3>3. CASE calls[k + 1].name = d /\ k + 1 # n
      <4>1. k + 1 \in 1..(n - 1) /\ k < n - 1
        BY <1>1, <2>0, <3>3
      <4>. QED
        BY <1>2, <3>3, <4>1
    <3>. QED
      BY <2>1, <3>1, <3>2, <3>3 DEF RanOrCalled
  <2>. QED
    BY <1>2, <2>2, <2>3 DEF RanOrCalled
<1>6. RootsRan'
  <2>. SUFFICES ASSUME NEW i \in 1..Len(order), i < root, Root(order[i])
                PROVE  order[i] \in Members(ran') \/ (calls' # <<>> /\ calls'[1].name = order[i])
    BY <1>1 DEF RootsRan, Root
  <2>1. order[i] \in Members(ran) \/ calls[1].name = order[i]
    BY DEF RunInv, RootsRan
  <2>2. CASE calls[1].name = order[i] /\ n = 1
    BY <1>1, <2>2
  <2>3. CASE calls[1].name = order[i] /\ n # 1
    <3>1. 1 \in 1..(n - 1) /\ Len(calls') # 0
      BY <1>1, <1>2, <2>3
    <3>2. calls' # <<>>
      BY <3>1
    <3>. QED
      BY <1>2, <2>3, <3>1, <3>2
  <2>. QED
    BY <2>1, <2>2, <2>3
<1>. QED
  BY <1>4, <1>5, <1>6 DEF CallsInv

LEMMA AdvanceRun ==
    ASSUME TypeInv, WalkInv, GenerateInv, RunInv, RunStep, calls # <<>>, UNCHANGED <<root, ran>>, calls' = Advance(calls),
           Top(calls).next = 0 \/ LET imports == Selected(program, Top(calls).name)
                                  IN  imports[Top(calls).next] \in initialised => imports[Top(calls).next] \in Members(ran)
    PROVE  CallsInv' /\ RootsRan'
<1> DEFINE n == Len(calls)
<1>1. /\ calls \in Seq(Frame) /\ n \in Nat \ {0} /\ n \in 1..n /\ Top(calls) = calls[n]
      /\ program' = program /\ order' = order /\ initialised' = initialised /\ ran' = ran /\ root' = root
  BY TopFacts DEF TypeInv, TypeOK, RunStep, orderVars, generateVars
<1>2. /\ calls' \in Seq(Frame) /\ Len(calls') = n /\ calls' # <<>>
      /\ \A k \in 1..n : calls'[k].name = calls[k].name
      /\ \A k \in 1..(n - 1) : calls'[k].next = calls[k].next
      /\ calls'[n].next = calls[n].next + 1
  BY <1>1, AdvanceFacts
<1>3. \A k \in 1..n : calls[k].next \in Nat
  <2>1. \A k \in 1..n : calls[k] \in Frame
    BY <1>1
  <2>. QED
    BY <2>1 DEF Frame
<1>4. \A k \in 1..n : k < n => k \in 1..(n - 1)
  BY <1>1
<1>. HIDE DEF n
<1>5. CallsInitialised'
  BY <1>1, <1>2 DEF n, RunInv, CallsInv, CallsInitialised
<1>6. CallsDescend'
  BY <1>1, <1>2 DEF n, RunInv, CallsInv, CallsDescend
<1>7. CallsWait'
  BY <1>1, <1>2, <1>4 DEF n, RunInv, CallsInv, CallsWait
<1>8. CallsPassed'
  <2>. SUFFICES ASSUME NEW k \in 1..n, NEW j \in 1..Len(Selected(program, calls[k].name)),
                       j < calls'[k].next, Selected(program, calls[k].name)[j] \in initialised
                PROVE  RanOrCalled(k, Selected(program, calls[k].name)[j])
    <3>1. \A k \in 1..n : \A d : RanOrCalled(k, d) => RanOrCalled(k, d)'
      <4>. SUFFICES ASSUME NEW k \in 1..n, NEW d, RanOrCalled(k, d) PROVE RanOrCalled(k, d)'
        OBVIOUS
      <4>1. k < n => k + 1 \in 1..n
        BY <1>1
      <4>. QED
        BY <1>1, <1>2, <4>1 DEF n, RanOrCalled
    <3>. QED
      BY <1>1, <1>2, <3>1 DEF CallsPassed
  <2>1. CASE j < calls[k].next
    BY <2>1 DEF n, RunInv, CallsInv, CallsPassed
  <2>2. CASE ~(j < calls[k].next)
    <3>1. k = n
      BY <1>2, <1>4, <2>2
    <3>2. j = calls[n].next /\ j # 0
      BY <1>2, <1>3, <2>2, <3>1
    <3>. QED
      BY <1>1, <3>1, <3>2 DEF RanOrCalled
  <2>. QED
    BY <2>1, <2>2
<1>9. RootsRan'
  <2>1. 1 \in 1..n
    BY <1>1
  <2>. QED
    BY <1>1, <1>2, <2>1 DEF RunInv, RootsRan, Root
<1>. QED
  BY <1>5, <1>6, <1>7, <1>8, <1>9 DEF CallsInv

LEMMA GuardRun ==
    ASSUME TypeInv, WalkInv, GenerateInv, RunInv, TestGuard
    PROVE  RunInv'
<1> DEFINE n == Len(calls)
           m == Top(calls).name
<1>1. /\ calls \in Seq(Frame) /\ calls # <<>> /\ n \in Nat \ {0} /\ n \in 1..n /\ Top(calls) = calls[n]
      /\ RunStep /\ Running /\ root' = root /\ ran' = ran /\ pc' = "run" /\ calls[n].next = 0
      /\ program' = program /\ order' = order /\ initialised' = initialised /\ ran \in Seq(Package)
  BY TopFacts DEF TestGuard, RunStep, Running, TypeInv, TypeOK, orderVars, generateVars
<1>2. RanInv'
  BY <1>1 DEF RunInv, RanInv, RanOnce, RanAfter, RanInitialised
<1>. HIDE DEF n
<1>3. CASE m \in guards
  <2>1. calls' = Pop(calls) /\ guards' = guards
    BY <1>3 DEF TestGuard
  <2>2. m \in Members(ran)
    <3>1. ASSUME NEW k \in 1..n, calls[k].name = m PROVE calls[k].next = 0
      BY <1>1, <3>1, CallsDiffer DEF n
    <3>. QED
      BY <1>3, <3>1 DEF n, RunInv, GuardsInv, GuardsSound
  <2>3. CallsInv' /\ RootsRan'
    BY <1>1, <2>1, <2>2, PopRun
  <2>4. GuardsInv'
    <3>1. Len(calls') = n - 1 /\ \A k \in 1..(n - 1) : calls'[k] = calls[k]
      BY <1>1, <2>1, PopFacts DEF n
    <3>2. \A k \in 1..n : k \in 1..(n - 1) \/ k = n
      BY <1>1
    <3>3. \A k \in 1..(n - 1) : k \in 1..n
      BY <1>1
    <3>. QED
      BY <1>1, <2>1, <3>1, <3>2, <3>3 DEF n, RunInv, GuardsInv, GuardsSound, RunningOnce, GuardsSet
  <2>. QED
    BY <1>1, <1>2, <2>3, <2>4 DEF RunInv, Quiet, Running, AtMain
<1>4. CASE m \notin guards
  <2>1. calls' = Advance(calls) /\ guards' = guards \cup {m}
    BY <1>4 DEF TestGuard
  <2>2. CallsInv' /\ RootsRan'
    BY <1>1, <2>1, AdvanceRun
  <2>3. GuardsInv'
    <3>1. /\ Len(calls') = n
          /\ \A k \in 1..n : calls'[k].name = calls[k].name
          /\ \A k \in 1..(n - 1) : calls'[k].next = calls[k].next
          /\ calls'[n].next = calls[n].next + 1
      BY <1>1, <2>1, AdvanceFacts DEF n
    <3>2. \A k \in 1..n : k \in 1..(n - 1) \/ k = n
      BY <1>1
    <3>3. m = calls[n].name /\ m \notin Members(ran) /\ calls'[n].next # 0
      BY <1>1, <1>4, <3>1 DEF RunInv, GuardsInv, GuardsSet
    <3>4. \A k \in 1..n : calls[k].next # 0 => calls'[k].next # 0
      BY <1>1, <3>1, <3>2
    <3>5. GuardsSound'
      BY <1>1, <2>1, <3>1, <3>3, <3>4 DEF n, RunInv, GuardsInv, GuardsSound
    <3>6. RunningOnce' /\ GuardsSet'
      BY <1>1, <2>1, <3>1, <3>2, <3>3 DEF n, RunInv, GuardsInv, RunningOnce, GuardsSet
    <3>. QED
      BY <3>5, <3>6 DEF GuardsInv
  <2>. QED
    BY <1>1, <1>2, <2>2, <2>3 DEF RunInv, Quiet, Running, AtMain
<1>. QED
  BY <1>3, <1>4

LEMMA DependencyRun ==
    ASSUME TypeInv, WalkInv, GenerateInv, RunInv, CallDependency
    PROVE  RunInv'
<1> DEFINE n == Len(calls)
           m == Top(calls).name
           j == Top(calls).next
           imports == Selected(program, m)
           d == imports[j]
           f == [name |-> d, next |-> 0]
<1>1. /\ calls \in Seq(Frame) /\ calls # <<>> /\ n \in Nat \ {0} /\ n \in 1..n /\ Top(calls) = calls[n]
      /\ RunStep /\ Running /\ root' = root /\ ran' = ran /\ guards' = guards /\ pc' = "run"
      /\ program' = program /\ order' = order /\ initialised' = initialised /\ ran \in Seq(Package)
  BY TopFacts DEF CallDependency, RunStep, Running, TypeInv, TypeOK, orderVars, generateVars
<1>2. /\ j \in 1..Len(imports)
      /\ calls' = IF d \in initializers[m] THEN Append(Advance(calls), f) ELSE Advance(calls)
  BY DEF CallDependency, Call
<1>3. m \in Members(order) /\ m \in initialised
  BY <1>1, RunningFacts DEF RunInv, CallsInv, CallsInitialised
<1>4. /\ imports \in Seq(Package) /\ Members(imports) \subseteq Members(order)
      /\ initializers[m] = Members(imports) \cap initialised
  BY <1>1, <1>3, RunningFacts DEF Generated, InitializersOf
<1>5. d \in Members(imports) /\ d \in Package /\ (d \in initializers[m] <=> d \in initialised)
  BY <1>2, <1>4 DEF Members
<1>6. RanInv'
  BY <1>1 DEF RunInv, RanInv, RanOnce, RanAfter, RanInitialised
<1>7. /\ Advance(calls) \in Seq(Frame) /\ Len(Advance(calls)) = n /\ Advance(calls) # <<>>
      /\ \A k \in 1..n : Advance(calls)[k].name = calls[k].name
      /\ \A k \in 1..(n - 1) : Advance(calls)[k].next = calls[k].next
      /\ Advance(calls)[n].next = calls[n].next + 1
  BY <1>1, AdvanceFacts
<1>8. calls[n].next = j /\ calls[n].name = m /\ j \in Nat \ {0}
  BY <1>1, <1>2, <1>4
<1>. HIDE DEF n, m, j, imports, d
<1>9. \A k \in 1..n : k \in 1..(n - 1) \/ k = n
  BY <1>1
<1>10. \A k \in 1..n : Advance(calls)[k].next # 0 <=> calls[k].next # 0
  BY <1>7, <1>8, <1>9
<1>11. CASE d \notin initialised
  <2>1. calls' = Advance(calls)
    BY <1>2, <1>5, <1>11
  <2>2. CallsInv' /\ RootsRan'
    BY <1>1, <1>11, <2>1, AdvanceRun DEF d, imports, m, j
  <2>3. GuardsInv'
    BY <1>1, <1>7, <1>10, <2>1 DEF n, RunInv, GuardsInv, GuardsSound, RunningOnce, GuardsSet
  <2>. QED
    BY <1>1, <1>6, <2>2, <2>3 DEF RunInv, Quiet, Running, AtMain
<1>12. CASE d \in initialised
  <2>1. calls' = Append(Advance(calls), f) /\ f \in Frame
    BY <1>2, <1>5, <1>12 DEF Frame
  <2>f. f.name = d /\ f.next = 0
    OBVIOUS
  <2>. HIDE DEF f
  <2>2. /\ Len(calls') = n + 1 /\ calls' # <<>>
        /\ \A k \in 1..n : calls'[k].name = calls[k].name
        /\ \A k \in 1..n : calls'[k].next = Advance(calls)[k].next
        /\ calls'[n + 1].name = d /\ calls'[n + 1].next = 0
    BY <1>7, <2>1, <2>f, PushFacts
  <2>3. \A k \in 1..(n + 1) : k \in 1..n \/ k = n + 1
    BY <1>1
  <2>4. CallsInitialised'
    BY <1>1, <1>12, <2>2, <2>3 DEF n, RunInv, CallsInv, CallsInitialised
  <2>5. CallsWait'
    <3>1. ASSUME NEW k \in 1..n PROVE calls'[k].next # 0
      BY <1>1, <1>8, <1>9, <1>10, <2>2, <3>1 DEF n, RunInv, CallsInv, CallsWait
    <3>. QED
      BY <1>1, <2>2, <2>3, <3>1 DEF CallsWait
  <2>6. CallsDescend'
    <3>1. ASSUME NEW k \in 1..n, NEW a \in 1..Len(order), NEW b \in 1..Len(order),
                 order[a] = calls[k].name, order[b] = d
          PROVE  b < a
      <4>1. PICK t \in 1..Len(order) : order[t] = m
        BY <1>3 DEF Members
      <4>2. PICK u \in 1..(t - 1) : order[u] = d
        BY <1>5, <4>1, SelectedBefore DEF imports
      <4>3. u \in 1..Len(order) /\ u < t /\ Len(order) \in Nat
        BY DEF TypeInv, TypeOK
      <4>4. u = b
        BY <3>1, <4>2, <4>3 DEF WalkInv, OrderInv, OrderOnce
      <4>5. CASE k = n
        <5>1. a = t
          BY <1>8, <3>1, <4>1, <4>5 DEF WalkInv, OrderInv, OrderOnce
        <5>. QED
          BY <4>3, <4>4, <5>1
      <4>6. CASE k # n
        <5>1. k < n
          BY <1>1, <4>6
        <5>2. t < a
          BY <1>1, <1>8, <3>1, <4>1, <5>1 DEF n, RunInv, CallsInv, CallsDescend
        <5>. QED
          BY <4>3, <4>4, <5>2
      <4>. QED
        BY <4>5, <4>6
    <3>2. \A k, l \in 1..(n + 1) : k < l => k \in 1..n /\ (l \in 1..n \/ l = n + 1)
      BY <1>1
    <3>3. ASSUME NEW k \in 1..n, NEW l \in 1..n, k < l,
                 NEW a \in 1..Len(order), NEW b \in 1..Len(order), order[a] = calls[k].name, order[b] = calls[l].name
          PROVE  b < a
      BY <3>3 DEF n, RunInv, CallsInv, CallsDescend
    <3>. QED
      BY <1>1, <2>2, <3>1, <3>2, <3>3 DEF CallsDescend
  <2>7. CallsPassed'
    <3>. SUFFICES ASSUME NEW k \in 1..(n + 1), NEW i \in 1..Len(Selected(program, calls'[k].name)),
                         i < calls'[k].next, Selected(program, calls'[k].name)[i] \in initialised
                  PROVE  \/ Selected(program, calls'[k].name)[i] \in Members(ran)
                         \/ k < n + 1 /\ calls'[k + 1].name = Selected(program, calls'[k].name)[i]
      BY <1>1, <2>2 DEF CallsPassed, RanOrCalled
    <3>1. k \in 1..n
      BY <2>2, <2>3
    <3>2. CASE k = n
      <4>1. calls'[k].next = j + 1 /\ calls'[k].name = m
        BY <1>7, <1>8, <2>2, <3>1, <3>2
      <4>2. CASE i = j
        BY <1>1, <2>2, <3>2, <4>1, <4>2 DEF d, imports
      <4>3. CASE i < j
        <5>1. RanOrCalled(k, Selected(program, m)[i])
          BY <1>8, <3>1, <3>2, <4>1, <4>3 DEF n, RunInv, CallsInv, CallsPassed
        <5>2. Selected(program, m)[i] \in Members(ran)
          BY <1>1, <3>2, <5>1 DEF n, RanOrCalled
        <5>. QED
          BY <4>1, <5>2
      <4>. QED
        BY <1>8, <4>1, <4>2, <4>3
    <3>3. CASE k # n
      <4>1. k \in 1..(n - 1) /\ k + 1 \in 1..n
        BY <1>1, <3>1, <3>3
      <4>2. calls'[k].name = calls[k].name /\ calls'[k].next = calls[k].next /\ calls'[k + 1].name = calls[k + 1].name
        BY <1>7, <2>2, <3>1, <4>1
      <4>3. RanOrCalled(k, Selected(program, calls[k].name)[i])
        BY <3>1, <4>2 DEF n, RunInv, CallsInv, CallsPassed
      <4>. QED
        BY <1>1, <3>1, <4>2, <4>3 DEF n, RanOrCalled
    <3>. QED
      BY <3>2, <3>3
  <2>8. GuardsInv'
    <3>1. \A k \in 1..n : k \in 1..(n + 1) /\ (calls'[k].next # 0 <=> calls[k].next # 0)
      BY <1>1, <1>10, <2>2
    <3>. QED
      BY <1>1, <2>2, <2>3, <3>1 DEF n, RunInv, GuardsInv, GuardsSound, RunningOnce, GuardsSet
  <2>9. RootsRan'
    <3>1. 1 \in 1..n
      BY <1>1
    <3>. QED
      BY <1>1, <2>2, <3>1 DEF RunInv, RootsRan, Root
  <2>. QED
    BY <1>1, <1>6, <2>4, <2>5, <2>6, <2>7, <2>8, <2>9 DEF RunInv, CallsInv, Quiet, Running, AtMain
<1>. QED
  BY <1>11, <1>12

LEMMA AssignRun ==
    ASSUME TypeInv, WalkInv, GenerateInv, RunInv, AssignGlobals
    PROVE  RunInv'
<1> DEFINE n == Len(calls)
           m == Top(calls).name
<1>1. /\ calls \in Seq(Frame) /\ calls # <<>> /\ n \in Nat \ {0} /\ n \in 1..n /\ Top(calls) = calls[n]
      /\ RunStep /\ Running /\ root' = root /\ guards' = guards /\ pc' = "run" /\ calls' = Pop(calls)
      /\ calls[n].next # 0 /\ calls[n].next > Len(Selected(program, m)) /\ ran' = Append(ran, m)
      /\ program' = program /\ order' = order /\ initialised' = initialised /\ ran \in Seq(Package) /\ m \in Package
  BY TopFacts, FrameFacts DEF AssignGlobals, RunStep, Running, TypeInv, TypeOK, orderVars, generateVars
<1>2. calls[n].name = m /\ Selected(program, m) \in Seq(Package) /\ calls[n].next \in Nat
  <2>1. calls[n] \in Frame
    BY <1>1
  <2>. QED
    BY <1>1, <2>1, ProgramFacts DEF TypeInv, Frame
<1>. HIDE DEF n, m
<1>3. /\ ran' \in Seq(Package) /\ Members(ran') = Members(ran) \cup {m} /\ Len(ran') = Len(ran) + 1 /\ Len(ran) \in Nat
      /\ \A k \in 1..Len(ran) : ran'[k] = ran[k]
      /\ ran'[Len(ran) + 1] = m
  BY <1>1, PushFacts, MembersOfAppend
<1>4. m \notin Members(ran) /\ m \in initialised /\ m \in guards
  BY <1>1, <1>2 DEF n, RunInv, GuardsInv, RunningOnce, GuardsSet, CallsInv, CallsInitialised
<1>5. CallsInv' /\ RootsRan'
  BY <1>1, <1>3, PopRun DEF m
<1>6. GuardsInv'
  <2>1. Len(calls') = n - 1 /\ \A k \in 1..(n - 1) : calls'[k] = calls[k]
    BY <1>1, PopFacts DEF n
  <2>2. \A k \in 1..n : k \in 1..(n - 1) \/ k = n
    BY <1>1
  <2>3. \A k \in 1..(n - 1) : k \in 1..n /\ k # n
    BY <1>1
  <2>4. \A k \in 1..(n - 1) : calls[k].name # m
    BY <1>1, <1>2, <2>3, CallsDiffer DEF n
  <2>5. GuardsSound'
    <3>. SUFFICES ASSUME NEW g \in guards
                  PROVE  g \in Members(ran') \/ \E k \in 1..(n - 1) : calls'[k].name = g /\ calls'[k].next # 0
      BY <1>1, <2>1 DEF GuardsSound
    <3>1. CASE g \in Members(ran)
      BY <1>3, <3>1
    <3>2. CASE \E k \in 1..n : calls[k].name = g /\ calls[k].next # 0
      <4>1. PICK k \in 1..n : calls[k].name = g /\ calls[k].next # 0
        BY <3>2
      <4>2. CASE k = n
        BY <1>2, <1>3, <4>1, <4>2
      <4>3. CASE k # n
        BY <2>1, <2>2, <4>1, <4>3
      <4>. QED
        BY <4>2, <4>3
    <3>. QED
      BY <3>1, <3>2 DEF n, RunInv, GuardsInv, GuardsSound
  <2>6. RunningOnce' /\ GuardsSet'
    BY <1>1, <1>3, <1>4, <2>1, <2>3, <2>4 DEF n, RunInv, GuardsInv, RunningOnce, GuardsSet
  <2>. QED
    BY <2>5, <2>6 DEF GuardsInv
<1>7. \A k \in 1..(Len(ran) + 1) : k \in 1..Len(ran) \/ k = Len(ran) + 1
  BY <1>3
<1>8. RanOnce'
  <2>1. \A k \in 1..Len(ran) : ran[k] # m
    BY <1>4 DEF Members
  <2>. QED
    BY <1>3, <1>7, <2>1 DEF RunInv, RanInv, RanOnce
<1>9. RanAfter'
  <2>. SUFFICES ASSUME NEW i \in 1..(Len(ran) + 1), NEW d \in Members(Selected(program, ran'[i])) \cap initialised
                PROVE  \E k \in 1..(i - 1) : ran'[k] = d
    BY <1>1, <1>3 DEF RanAfter
  <2>1. CASE i \in 1..Len(ran)
    <3>1. PICK k \in 1..(i - 1) : ran[k] = d
      BY <1>3, <2>1 DEF RunInv, RanInv, RanAfter
    <3>2. k \in 1..Len(ran)
      BY <1>3, <2>1
    <3>. QED
      BY <1>3, <3>1, <3>2
  <2>2. CASE i = Len(ran) + 1
    <3>1. ran'[i] = m
      BY <1>3, <2>2
    <3>2. PICK j \in 1..Len(Selected(program, m)) : Selected(program, m)[j] = d
      BY <3>1 DEF Members
    <3>3. j < calls[n].next
      BY <1>1, <1>2, <3>2
    <3>4. RanOrCalled(n, d)
      BY <1>1, <1>2, <3>2, <3>3 DEF n, RunInv, CallsInv, CallsPassed
    <3>5. d \in Members(ran)
      BY <1>1, <3>4 DEF n, RanOrCalled
    <3>6. PICK k \in 1..Len(ran) : ran[k] = d
      BY <3>5 DEF Members
    <3>7. i - 1 = Len(ran)
      BY <1>3, <2>2
    <3>. QED
      BY <1>3, <3>6, <3>7
  <2>. QED
    BY <1>7, <2>1, <2>2
<1>10. RanInitialised'
  BY <1>1, <1>3, <1>4 DEF RunInv, RanInv, RanInitialised
<1>. QED
  BY <1>1, <1>5, <1>6, <1>8, <1>9, <1>10 DEF RunInv, RanInv, Quiet, Running, AtMain

LEMMA MainRun ==
    ASSUME RunInv, CallMain \/ (Running /\ UNCHANGED vars)
    PROVE  RunInv'
<1>1. UNCHANGED <<program, order, initialised, root, calls, guards, ran>> /\ Running'
  BY DEF CallMain, Running, vars, orderVars, generateVars, runVars
<1>2. (CallsInv /\ GuardsInv /\ RanInv /\ RootsRan)'
  BY <1>1 DEF RunInv, CallsInv, CallsInitialised, CallsDescend, CallsWait, CallsPassed, RanOrCalled,
              GuardsInv, GuardsSound, RunningOnce, GuardsSet, RanInv, RanOnce, RanAfter, RanInitialised, RootsRan, Root
<1>3. AtMain'
  BY <1>1 DEF RunInv, AtMain, CallMain, vars
<1>. QED
  BY <1>1, <1>2, <1>3 DEF RunInv, Quiet

LEMMA InitRun == Init => RunInv
<1>. SUFFICES ASSUME Init PROVE RunInv
  OBVIOUS
<1>1. pc = "order" /\ root = 1 /\ calls = <<>> /\ guards = {} /\ ran = <<>>
  BY DEF Init
<1>2. RootsRan
  <2>1. \A i \in 1..Len(order) : ~(i < 1)
    OBVIOUS
  <2>. QED
    BY <1>1, <2>1 DEF RootsRan
<1>. QED
  BY <1>1, <1>2, EmptyRun DEF RunInv, Quiet, AtMain

LEMMA NextRun ==
    ASSUME TypeInv, WalkInv, GenerateInv, RunInv, [Next]_vars
    PROVE  RunInv'
<1>1. CASE VisitPrimary \/ VisitImport \/ Visited \/ Generate \/ Link \/ (~Running /\ UNCHANGED vars)
  <2>1. ~Running /\ UNCHANGED runVars
    BY <1>1 DEF VisitPrimary, VisitImport, Visited, Generate, Link, Fail, Enter, Visit, Skip, Running, vars, runVars
  <2>2. pc' # "main" /\ (pc' = "run" => pc = "generate")
    BY <1>1 DEF VisitPrimary, VisitImport, Visited, Generate, Link, Fail, Enter, Visit, Skip, Running, vars
  <2>. QED
    BY <2>1, <2>2, StillQuiet
<1>. QED
  BY <1>1, RootRun, GuardRun, DependencyRun, AssignRun, MainRun DEF Next

LEMMA RunCorrect == Spec => [](TypeInv /\ WalkInv /\ GenerateInv /\ RunInv)
<1>1. Init => TypeInv /\ WalkInv /\ GenerateInv /\ RunInv
  BY InitTyped, InitWalk, InitGenerate, InitRun
<1>2. TypeInv /\ WalkInv /\ GenerateInv /\ RunInv /\ [Next]_vars => (TypeInv /\ WalkInv /\ GenerateInv /\ RunInv)'
  BY NextTyped, NextWalk, NextGenerate, NextRun
<1>. QED
  BY <1>1, <1>2, PTL DEF Spec

-----------------------------------------------------------------------------
LEMMA RanNeeds ==
    ASSUME TypeInv, WalkInv, GenerateInv, RunInv, NEW i \in 1..Len(ran)
    PROVE  Needs(ran[i]) \subseteq {ran[k] : k \in 1..i}
<1> DEFINE R == {ran[k] : k \in 1..i}
<1>1. ran \in Seq(Package) /\ Len(ran) \in Nat /\ i \in Nat /\ i \in 1..i
  BY DEF TypeInv, TypeOK
<1>2. Running
  <2>1. Len(<<>>) = 0 /\ 1..0 = {}
    OBVIOUS
  <2>. QED
    BY <2>1 DEF RunInv, Quiet
<1>3. ran[i] \in Members(order)
  <2>1. ran[i] \in Members(ran)
    BY DEF Members
  <2>. QED
    BY <1>2, <2>1, RunningFacts DEF RunInv, RanInv, RanInitialised
<1>4. ASSUME NEW r \in R, NEW d \in Members(Selected(program, r)) \cap initialised PROVE d \in R
  <2>1. PICK k \in 1..i : ran[k] = r
    OBVIOUS
  <2>2. k \in 1..Len(ran)
    BY <1>1
  <2>3. PICK l \in 1..(k - 1) : ran[l] = d
    BY <2>1, <2>2 DEF RunInv, RanInv, RanAfter
  <2>4. l \in 1..i
    BY <1>1
  <2>. QED
    BY <2>3, <2>4
<1>5. ran[i] \in R
  BY <1>1
<1>. HIDE DEF R
<1>6. Needs(ran[i]) \subseteq R
  BY <1>2, <1>3, <1>4, <1>5, NeedsAmong
<1>. QED
  BY <1>6 DEF R

\* The globals of a module are assigned after those of every module it reaches by
\* the imports that were kept, in every graph (irgen.go:393-405).
THEOREM NeedsComeFirst == Spec => []NeedsFirst
<1>1. TypeInv /\ WalkInv /\ GenerateInv /\ RunInv => NeedsFirst
  <2>. SUFFICES ASSUME TypeInv, WalkInv, GenerateInv, RunInv,
                       NEW i \in 1..Len(ran), NEW d \in Needs(ran[i]) \ {ran[i]}
                PROVE  \E k \in 1..(i - 1) : ran[k] = d
    BY DEF NeedsFirst
  <2>1. PICK k \in 1..i : ran[k] = d
    BY RanNeeds
  <2>2. k # i /\ i \in Nat
    BY <2>1 DEF TypeInv, TypeOK
  <2>3. k \in 1..(i - 1)
    BY <2>2
  <2>. QED
    BY <2>1, <2>3
<1>. QED
  BY <1>1, RunCorrect, PTL

\* No module assigns its globals twice, and main runs after all of those it reaches
\* were assigned; of a library, all of its modules' (irgen.go:367-394).
THEOREM InitialisedBeforeMain == Spec => []InitialisedOnce
<1>1. TypeInv /\ WalkInv /\ GenerateInv /\ RunInv => InitialisedOnce
  <2>. SUFFICES ASSUME TypeInv, WalkInv, GenerateInv, RunInv PROVE InitialisedOnce
    OBVIOUS
  <2>1. \A i, k \in 1..Len(ran) : ran[i] = ran[k] => i = k
    BY DEF RunInv, RanInv, RanOnce
  <2>2. ASSUME pc = "main"
        PROVE  IF program.executable THEN Needs(Main) \subseteq Members(ran)
               ELSE Members(order) \cap program.dynamic \subseteq Members(ran)
    <3>1. Running /\ calls = <<>> /\ root > Len(order) /\ Main \in Members(order)
      BY <2>2 DEF Running, RunInv, AtMain, WalkInv, OrderInv, MainOrdered, Accepted
    <3>2. ASSUME NEW m \in Members(order), Root(m) PROVE m \in Members(ran)
      <4>1. PICK i \in 1..Len(order) : order[i] = m
        BY DEF Members
      <4>2. i < root
        BY <3>1 DEF TypeInv, TypeOK
      <4>. QED
        BY <3>1, <3>2, <4>1, <4>2 DEF RunInv, RootsRan
    <3>3. CASE program.executable
      <4>1. ASSUME NEW r \in Members(ran), NEW d \in Members(Selected(program, r)) \cap initialised PROVE d \in Members(ran)
        <5>1. PICK i \in 1..Len(ran) : ran[i] = r
          BY DEF Members
        <5>2. PICK k \in 1..(i - 1) : ran[k] = d
          BY <5>1 DEF RunInv, RanInv, RanAfter
        <5>3. k \in 1..Len(ran)
          BY DEF TypeInv, TypeOK
        <5>. QED
          BY <5>2, <5>3 DEF Members
      <4>2. Main \in initialised => Main \in Members(ran)
        BY <3>1, <3>2, <3>3 DEF Root
      <4>3. Needs(Main) \subseteq Members(ran)
        BY <3>1, <4>1, <4>2, NeedsAmong
      <4>. QED
        BY <3>3, <4>3
    <3>4. CASE ~program.executable
      <4>1. ASSUME NEW m \in Members(order), m \in program.dynamic PROVE m \in Members(ran)
        <5>1. m \in initialised
          BY <3>1, <4>1, RunningFacts DEF Generated, HasInitializer
        <5>. QED
          BY <3>2, <3>4, <5>1 DEF Root
      <4>. QED
        BY <3>4, <4>1
    <3>. QED
      BY <3>3, <3>4
  <2>. QED
    BY <2>1, <2>2 DEF InitialisedOnce
<1>. QED
  BY <1>1, RunCorrect, PTL

-----------------------------------------------------------------------------
(* The program is built and started in finitely many steps.                 *)

\* The modules visit has not begun with, and those it has not ended with.
Unseen == {m \in Package : visited[m] = "unseen"}
Undone == {m \in Package : visited[m] # "done"}

\* The last initializer that has begun.
Caller(s) == IF Top(s).next = 0 THEN s[Len(s) - 1] ELSE Top(s)

\* visit begins with one more module, or ends with one, or goes past an import.
WalkShrinks ==
    \/ Unseen' \subseteq Unseen /\ Unseen' # Unseen
    \/ Unseen' = Unseen /\ Undone' \subseteq Undone /\ Undone' # Undone
    \/ /\ visited' = visited /\ Len(stack') = Len(stack) /\ Top(stack').name = Top(stack).name
       /\ Top(stack').next = Top(stack).next + 1
       /\ Top(stack).next <= Len(Imports(program, Top(stack).name))

\* One more root is called, or guard set, or module done, or dependency gone
\* past, or a call returns to its caller for a guard that was set.
RunShrinks ==
    \/ root' = root + 1 /\ root <= Len(order)
    \/ root' = root /\ guards \subseteq guards' /\ guards' # guards
    \/ UNCHANGED <<root, guards>> /\ Len(ran') = Len(ran) + 1
    \/ /\ UNCHANGED <<root, guards, ran>> /\ calls # <<>> /\ calls' # <<>>
       /\ Caller(calls').name = Caller(calls).name
       /\ Caller(calls').next = Caller(calls).next + 1
       /\ Caller(calls).next <= Len(Selected(program, Caller(calls).name))
    \/ /\ UNCHANGED <<root, guards, ran>> /\ calls # <<>>
       /\ Len(calls') = Len(calls) - 1 /\ (calls' # <<>> => Caller(calls') = Caller(calls))

\* A step leaves the phase for a later one or shrinks what is left of it: with
\* finitely many packages there are finitely many steps, because no module runs
\* twice (RanOnce).
Shrinking ==
    /\ program' = program
    /\ \/ pc = "order" /\ pc' \in {"generate", "failed"}
       \/ pc = "order" /\ pc' = "order" /\ WalkShrinks
       \/ pc = "generate" /\ pc' = "run"
       \/ pc = "generate" /\ pc' = "generate" /\ order' = order /\ at' = at + 1 /\ at <= Len(order)
       \/ pc = "run" /\ pc' = "main"
       \/ pc = "run" /\ pc' = "run" /\ order' = order /\ RunShrinks
Shrinks == [][Shrinking]_vars

LEMMA WalkStepShrinks ==
    ASSUME TypeInv, WalkInv, VisitPrimary \/ VisitImport \/ Visited
    PROVE  pc = "order" /\ (pc' \in {"generate", "failed"} \/ (pc' = "order" /\ WalkShrinks))
<1>t. /\ visited \in [Package -> {"unseen", "visiting", "done"}] /\ stack \in Seq(Frame)
      /\ Main \in Package /\ Len(stack) \in Nat
  BY GraphAssumption DEF TypeInv, TypeOK
<1>e. ASSUME NEW s, NEW m \in Package, visited[m] = "unseen", Enter(s, m)
      PROVE  pc' = pc /\ WalkShrinks
  <2>1. m \in Unseen /\ m \notin Unseen' /\ Unseen' \subseteq Unseen /\ pc' = pc
    BY <1>t, <1>e DEF Enter, Unseen
  <2>. QED
    BY <2>1 DEF WalkShrinks
<1>1. CASE VisitPrimary
  <2>1. stack = <<>> /\ order = <<>> /\ pc = "order" /\ (Fail("unknown", Main) \/ Enter(stack, Main))
    BY <1>1 DEF VisitPrimary
  <2>2. 1..Len(<<>>) = {} /\ Members(<<>>) = {}
    BY DEF Members
  <2>3. visited[Main] = "unseen"
    BY <1>t, <2>1, <2>2 DEF WalkInv, StackInv, VisitingStacked, OrderInv, DoneOrdered
  <2>4. CASE Fail("unknown", Main)
    BY <2>1, <2>4 DEF Fail
  <2>5. CASE Enter(stack, Main)
    <3>1. pc' = pc /\ WalkShrinks
      BY <1>e, <1>t, <2>3, <2>5
    <3>. QED
      BY <2>1, <3>1
  <2>. QED
    BY <2>1, <2>4, <2>5
<1>2. CASE VisitImport
  <2>1. /\ Import \in Package /\ pc = "order" /\ Place \in 1..Len(Imports(program, Waiting))
        /\ Waiting \in Package
        /\ Fail("unknown", Import) \/ Visit(Import)
    <3>1. IF Import \in program.known THEN Visit(Import) ELSE Fail("unknown", Import)
      BY <1>2, WaitingFacts
    <3>2. Fail("unknown", Import) \/ Visit(Import)
      BY <3>1
    <3>. QED
      BY <1>2, <3>2, WaitingFacts
  <2>2. CASE Fail("unknown", Import) \/ Fail("circular", Import)
    BY <2>1, <2>2 DEF Fail
  <2>3. CASE Skip
    <3>1. stack # <<>> /\ stack' = Advance(stack) /\ visited' = visited /\ pc' = pc
      BY <1>2, <2>3 DEF VisitImport, Skip
    <3>2. /\ Len(stack') = Len(stack) /\ Len(stack) \in Nat \ {0}
          /\ \A k \in 1..Len(stack) : stack'[k].name = stack[k].name
          /\ stack'[Len(stack)].next = stack[Len(stack)].next + 1
      BY <1>t, <3>1, AdvanceFacts, TopFacts
    <3>3. /\ Top(stack) = stack[Len(stack)] /\ Top(stack') = stack'[Len(stack)]
          /\ Len(stack) \in 1..Len(stack)
      BY <3>2 DEF Top
    <3>4. Place <= Len(Imports(program, Waiting))
      <4>1. Imports(program, Waiting) \in Seq(Package)
        BY <2>1, GraphFacts
      <4>. QED
        BY <2>1, <4>1
    <3>. QED
      BY <2>1, <3>1, <3>2, <3>3, <3>4 DEF WalkShrinks, Place, Waiting
  <2>4. CASE visited[Import] = "unseen" /\ Enter(Advance(stack), Import)
    BY <1>e, <2>1, <2>4
  <2>. QED
    BY <2>1, <2>2, <2>3, <2>4 DEF Visit
<1>3. CASE Visited
  <2>1. stack # <<>> /\ pc = "order"
    BY <1>3 DEF Visited
  <2> DEFINE m == Top(stack).name
  <2>2. m \in Package /\ Len(stack) \in 1..Len(stack) /\ m = stack[Len(stack)].name
    BY <1>t, <2>1, FrameFacts, TopFacts
  <2>3. visited[m] = "visiting"
    BY <2>2 DEF WalkInv, StackInv, StackVisiting
  <2>4. visited' = [visited EXCEPT ![m] = "done"] /\ pc' \in {"generate", pc}
    BY <1>3 DEF Visited
  <2>. HIDE DEF m
  <2>5. Unseen' = Unseen
    BY <1>t, <2>2, <2>3, <2>4 DEF Unseen
  <2>6. m \in Undone /\ m \notin Undone' /\ Undone' \subseteq Undone
    BY <1>t, <2>2, <2>3, <2>4 DEF Undone
  <2>. QED
    BY <2>1, <2>4, <2>5, <2>6 DEF WalkShrinks
<1>. QED
  BY <1>1, <1>2, <1>3

\* The call that waits is below the one that is about to test its guard.
LEMMA CallerFacts ==
    ASSUME TypeInv, RunInv, calls # <<>>
    PROVE  /\ Len(calls) \in Nat \ {0} /\ Top(calls) = calls[Len(calls)]
           /\ \A k \in 1..(Len(calls) - 1) : calls[k].next # 0
           /\ \A k \in 1..Len(calls) : calls[k].name \in Package /\ calls[k].next \in Nat
<1>1. calls \in Seq(Frame) /\ Len(calls) \in Nat \ {0} /\ Top(calls) = calls[Len(calls)]
  BY TopFacts DEF TypeInv, TypeOK
<1>2. \A k \in 1..(Len(calls) - 1) : k \in 1..Len(calls) /\ k < Len(calls)
  BY <1>1
<1>3. \A k \in 1..Len(calls) : calls[k] \in Frame
  BY <1>1
<1>4. \A k \in 1..Len(calls) : calls[k].name \in Package /\ calls[k].next \in Nat
  BY <1>3 DEF Frame
<1>. QED
  BY <1>1, <1>2, <1>4 DEF RunInv, CallsInv, CallsWait

LEMMA GuardStepShrinks ==
    ASSUME TypeInv, RunInv, TestGuard
    PROVE  RunShrinks
<1> DEFINE n == Len(calls)
<1>1. /\ calls # <<>> /\ calls \in Seq(Frame) /\ Top(calls).next = 0 /\ root' = root /\ ran' = ran
      /\ \/ Top(calls).name \in guards /\ calls' = Pop(calls) /\ guards' = guards
         \/ Top(calls).name \notin guards /\ guards' = guards \cup {Top(calls).name}
  BY DEF TestGuard, TypeInv, TypeOK
<1>2. CASE Top(calls).name \notin guards
  <2>1. guards \subseteq guards' /\ guards' # guards
    BY <1>1, <1>2
  <2>. QED
    BY <1>1, <2>1 DEF RunShrinks
<1>3. CASE Top(calls).name \in guards
  <2>1. calls' = Pop(calls) /\ guards' = guards
    BY <1>1, <1>3
  <2>2. n \in Nat \ {0} /\ \A k \in 1..(n - 1) : calls[k].next # 0
    BY <1>1, CallerFacts
  <2>3. calls' \in Seq(Frame) /\ Len(calls') = n - 1 /\ \A k \in 1..(n - 1) : calls'[k] = calls[k]
    BY <1>1, <2>1, PopFacts
  <2>4. ASSUME calls' # <<>> PROVE Caller(calls') = Caller(calls)
    <3>1. Len(calls') # 0 /\ n - 1 \in 1..(n - 1)
      BY <2>2, <2>3, <2>4
    <3>2. Top(calls') = calls[n - 1] /\ Top(calls').next # 0
      BY <2>2, <2>3, <3>1 DEF Top
    <3>3. Caller(calls') = calls[n - 1] /\ Caller(calls) = calls[n - 1]
      BY <1>1, <3>2 DEF Caller
    <3>. QED
      BY <3>3
  <2>. QED
    BY <1>1, <2>1, <2>3, <2>4 DEF RunShrinks
<1>. QED
  BY <1>2, <1>3

LEMMA DependencyStepShrinks ==
    ASSUME TypeInv, RunInv, CallDependency
    PROVE  RunShrinks
<1> DEFINE n == Len(calls)
           m == Top(calls).name
           j == Top(calls).next
           imports == Selected(program, m)
           a == Advance(calls)
           f == [name |-> imports[j], next |-> 0]
<1>1. /\ calls # <<>> /\ calls \in Seq(Frame) /\ UNCHANGED <<root, guards, ran>>
      /\ j \in 1..Len(imports) /\ (calls' = a \/ calls' = Append(a, f))
  BY DEF CallDependency, Call, TypeInv, TypeOK
<1>2. n \in Nat \ {0} /\ n \in 1..n /\ Top(calls) = calls[n] /\ m \in Package /\ j \in Nat
  <2>1. n \in Nat \ {0} /\ Top(calls) = calls[n]
    BY <1>1, CallerFacts
  <2>. QED
    BY <1>1, <2>1, FrameFacts
<1>3. imports \in Seq(Package)
  BY <1>2, ProgramFacts DEF TypeInv
<1>4. imports[j] \in Package /\ j # 0 /\ j <= Len(imports)
  BY <1>1, <1>2, <1>3
<1>5. f \in Frame /\ f.next = 0
  BY <1>4 DEF Frame
<1>6. a \in Seq(Frame) /\ a # <<>> /\ Len(a) = n /\ a[n].name = m /\ a[n].next = j + 1
  BY <1>1, <1>2, AdvanceFacts
<1>7. calls' # <<>> /\ Caller(calls') = a[n]
  <2>. HIDE DEF a, f, n, j
  <2>1. CASE calls' = a
    BY <1>2, <1>6, <2>1 DEF Caller, Top
  <2>2. CASE calls' = Append(a, f)
    <3>1. Len(calls') = n + 1 /\ calls'[n + 1] = f /\ calls'[n] = a[n] /\ calls' # <<>>
      BY <1>2, <1>5, <1>6, <2>2, PushFacts
    <3>. QED
      BY <1>2, <1>5, <3>1 DEF Caller, Top
  <2>. QED
    BY <1>1, <2>1, <2>2
<1>8. Caller(calls) = Top(calls)
  BY <1>4 DEF Caller
<1>. QED
  BY <1>1, <1>4, <1>6, <1>7, <1>8 DEF RunShrinks

LEMMA StepShrinks ==
    ASSUME TypeInv, WalkInv, RunInv, Next
    PROVE  Shrinking
<1>1. CASE VisitPrimary \/ VisitImport \/ Visited
  <2>1. program' = program
    BY <1>1 DEF VisitPrimary, VisitImport, Visited, Visit, Fail, Enter, Skip
  <2>. QED
    BY <1>1, <2>1, WalkStepShrinks DEF Shrinking
<1>2. CASE Generate
  BY <1>2 DEF Generate, Shrinking, orderVars
<1>3. CASE Link
  BY <1>3 DEF Link, Shrinking
<1>4. CASE CallRoot
  BY <1>4 DEF CallRoot, Shrinking, RunShrinks, orderVars
<1>5. CASE TestGuard
  BY <1>5, GuardStepShrinks DEF TestGuard, Shrinking, orderVars
<1>6. CASE CallDependency
  BY <1>6, DependencyStepShrinks DEF CallDependency, Shrinking, orderVars
<1>7. CASE AssignGlobals
  <2>1. /\ ran' = Append(ran, Top(calls).name) /\ calls # <<>> /\ calls \in Seq(Frame)
        /\ ran \in Seq(Package) /\ UNCHANGED <<program, root, guards, order>> /\ pc = "run" /\ pc' = pc
    BY <1>7 DEF AssignGlobals, TypeInv, TypeOK, orderVars
  <2>2. Len(ran') = Len(ran) + 1
    BY <2>1, FrameFacts, PushFacts
  <2>. QED
    BY <2>1, <2>2 DEF Shrinking, RunShrinks
<1>8. CASE CallMain
  BY <1>8 DEF CallMain, Shrinking
<1>. QED
  BY <1>1, <1>2, <1>3, <1>4, <1>5, <1>6, <1>7, <1>8 DEF Next

\* Each step of the walk over the imports, of the generation of the modules and
\* of the run of their initializers leaves its phase or shrinks what is left of
\* it: in a finite set of packages none of them goes on for ever, whatever the
\* imports (dependency.go:9-40, irgen.go:389-419).
THEOREM GraphShrinks == Spec => Shrinks
<1>1. TypeInv /\ WalkInv /\ RunInv /\ [Next]_vars => [Shrinking]_vars
  BY StepShrinks
<1>. QED
  BY <1>1, RunCorrect, PTL DEF Spec, Shrinks
=============================================================================
