---------------------------- MODULE BuildPromise ----------------------------
(***************************************************************************)
(* What qkc promises whoever invokes it, with no cache in sight: each      *)
(* invocation gets at most one answer, one that a compiler with an empty   *)
(* cache may give for the same request.                                    *)
(***************************************************************************)
CONSTANTS
    Proc,       \* the processes that are invoked
    Asked,      \* what a process may be asked to build
    Answers     \* Answers[a]: what a clean compiler may answer to request a

VARIABLES
    asked,      \* asked[p]: the request p works on, {} when there is none
    answer      \* answer[p]: the answer p gave, {} when it gave none

Init ==
    /\ asked = [p \in Proc |-> {}]
    /\ answer = [p \in Proc |-> {}]

Ask(p) ==
    /\ asked[p] = {}
    /\ \E a \in Asked : asked' = [asked EXCEPT ![p] = {a}]
    /\ UNCHANGED answer

Respond(p) ==
    /\ answer[p] = {}
    /\ \E a \in asked[p] : \E x \in Answers[a] : answer' = [answer EXCEPT ![p] = {x}]
    /\ UNCHANGED asked

\* The process ends, after its answer or (killed) before it.
Leave(p) ==
    /\ asked[p] # {}
    /\ asked' = [asked EXCEPT ![p] = {}]
    /\ answer' = [answer EXCEPT ![p] = {}]

Next == \E p \in Proc : Ask(p) \/ Respond(p) \/ Leave(p)

Spec == Init /\ [][Next]_<<asked, answer>>
=============================================================================
