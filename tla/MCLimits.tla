------------------------------ MODULE MCLimits ------------------------------
(***************************************************************************)
(* Where the cache, the wrappers and compile-time selection fall short of  *)
(* what the documents say of them: one compiler builds the programs of     *)
(* Script one after the other with one cache, two programs are given       *)
(* wrappers and three modules are selected.  Each build, program and       *)
(* module gets a verdict.                                                  *)
(***************************************************************************)
EXTENDS BuildCache

VARIABLES
    turn,          \* how many lines of Script are done
    verdicts,      \* what became of them
    program, pc, at, constants, forwards, arities, spreads, todo, changed, code, frame,
    parsed, phase, remaining, sel, walk, out

W == INSTANCE MCDemands WITH
    Function <- {"main", "g", "h", "k"}, Module <- {"app", "lib", "sys"},
    Constant <- {"a", "b"}, Other <- "other", Priority <- [c \in {"a", "b"} |-> 0],
    Program <- {}
wrapping == <<program, pc, at, constants, forwards, arities, spreads, todo, changed, code, frame>>

S == INSTANCE MCStaging WITH
    program <- parsed, todo <- walk, Programs <- {}, Targets <- [x \in {"OS"} |-> [k |-> "enum", n |-> 0, d |-> "Linux"]]
selecting == <<parsed, phase, remaining, sel, walk, out>>
-----------------------------------------------------------------------------
Sources == {"base", "edit", "warns", "embeds"}
Owners == [u \in {"box"} |-> "lib"]
\* The "box" of the unchanged module "lib" is instantiated by "base" and "edit" with
\* a type of one name and two layouts; "warns" has warnings; "embeds" embeds a file.
Made(main, box, warns) ==
    [accepted |-> TRUE, warns |-> warns, order |-> <<"lib", "main", "box", "rt">>,
     text |-> [u \in {"lib", "main", "box"} |->
                  CASE u = "lib" -> "l1" [] u = "main" -> main [] u = "box" -> box],
     runtime |-> [b \in BOOLEAN |-> IF b THEN "hosted" ELSE "free"],
     requested |-> FALSE, retained |-> FALSE]
\* The modes that one cache may be used with, whatever the program.
Modes == [s \in Source |-> {"show", "error"}]
Programs ==
    [s \in Source |-> [o \in Outside |->
        CASE s = "base" -> Made("m1", "b1", FALSE)
          [] s = "edit" -> Made("m2", "b2", FALSE)
          [] s = "warns" -> Made("m3", "b1", TRUE)
          [] s = "embeds" -> Made(IF o = "o1" THEN "m4" ELSE "m5", "b1", FALSE)]]

Build(source, mode) == [src |-> source, mode |-> mode]
Edit == Build("", "")
Script ==
    <<Build("base", "show"), Build("edit", "show"), Build("base", "show"),
      Build("warns", "show"), Build("warns", "error"),
      Build("embeds", "show"), Edit, Build("embeds", "show")>>

Wrapped == <<CHOOSE w \in W!MCExpanding : TRUE, CHOOSE w \in W!MCAssigning : TRUE>>
Builds == turn < Len(Script)
Wraps == turn \in Len(Script)..(Len(Script) + Len(Wrapped) - 1)
Staged == turn - Len(Script) - Len(Wrapped)      \* the modules of S!Odd that are selected
-----------------------------------------------------------------------------
Unwrapped(w) ==
    /\ program' = w /\ pc' = "validate" /\ at' = 1
    /\ constants' = {} /\ forwards' = {} /\ arities' = {} /\ spreads' = {}
    /\ todo' = {} /\ changed' = FALSE /\ code' = <<>> /\ frame' = W!Idle

Parsed(m) ==
    /\ parsed' = m /\ phase' = "prime"
    /\ remaining' = {i \in S!ToSet(m) : i.k = "bind"}
    /\ sel' = S!Fresh /\ walk' = S!Unwalked(m) /\ out' = <<<<>>>>

Starts ==
    /\ Init /\ outside = "o1" /\ turn = 0 /\ verdicts = <<>>
    /\ program = Wrapped[1] /\ pc = "validate" /\ at = 1
    /\ constants = {} /\ forwards = {} /\ arities = {} /\ spreads = {}
    /\ todo = {} /\ changed = FALSE /\ code = <<>> /\ frame = W!Idle
    /\ parsed = <<>> /\ phase = "done" /\ remaining = {}
    /\ sel = S!Fresh /\ walk = <<>> /\ out = <<>>

\* The next build of the script.
Compile(p) ==
    /\ Builds /\ Script[turn + 1] # Edit
    /\ \/ /\ Start(p)
          /\ proc'[p].src = Script[turn + 1].src /\ proc'[p].mode = Script[turn + 1].mode
       \/ Step(p)
    /\ UNCHANGED <<turn, verdicts, wrapping, selecting>>

Answered(p) ==
    /\ Builds /\ Done(p)
    /\ Retire(p)
    /\ turn' = turn + 1
    /\ verdicts' = Append(verdicts, OutputIsCleanBuild /\ WarningModeHonoured)
    /\ UNCHANGED <<wrapping, selecting>>

Edited ==
    /\ Builds /\ Script[turn + 1] = Edit
    /\ EditOutside("o2")
    /\ turn' = turn + 1
    /\ UNCHANGED <<verdicts, wrapping, selecting>>

\* The parameter of g is assigned before it is passed on.
Assigned == frame.means.fixed = <<"other">>
Runs ==
    \/ frame.version.fn = "main" /\ W!Invoke /\ frame'.version.fn = "g"
    \/ frame.version.fn = "g" /\ IF Assigned THEN W!Invoke ELSE W!Assign

Wrap ==
    /\ Wraps
    /\ \/ /\ pc # "run"
          /\ W!ValidateCall \/ W!Validated \/ W!ForwardConstants \/ W!ConstantsRound
             \/ W!ForwardArities \/ W!AritiesRound \/ W!Generate
          /\ UNCHANGED <<turn, verdicts, selecting>>
       \/ /\ pc = "run" /\ turn = Len(Script)
          /\ verdicts' = Append(verdicts, W!CallsDefined)
          /\ turn' = turn + 1
          /\ Unwrapped(Wrapped[2])
          /\ UNCHANGED selecting
       \/ /\ pc = "run" /\ turn = Len(Script) + 1 /\ frame.version.fn # "h"
          /\ Runs
          /\ UNCHANGED <<turn, verdicts, selecting>>
       \/ /\ pc = "run" /\ turn = Len(Script) + 1 /\ frame.version.fn = "h"
          /\ verdicts' = Append(verdicts, W!SeesArguments)
          /\ turn' = turn + 1
          /\ Parsed(S!Odd[1])
          /\ UNCHANGED wrapping
    /\ UNCHANGED vars

Choose ==
    /\ Staged \in 0..(Len(S!Odd) - 1)
    /\ \/ S!Select /\ UNCHANGED <<turn, verdicts>>
       \/ /\ phase \in {"done", "failed"}
          /\ turn' = turn + 1
          /\ verdicts' = Append(verdicts, S!SelectsAsDocumented)
          /\ IF Staged + 2 \in DOMAIN S!Odd THEN Parsed(S!Odd[Staged + 2]) ELSE UNCHANGED selecting
    /\ UNCHANGED <<vars, wrapping>>

InTurn == Starts /\ [][(\E p \in Proc : Compile(p) \/ Answered(p)) \/ Edited \/ Wrap \/ Choose]_<<vars, turn, verdicts, wrapping, selecting>>

(* A build with a cache answers as one without it, with the warnings it was    *)
(* asked for; a call reaches a function there is, which sees its arguments;    *)
(* what a module selects is what it says, whatever the order of its files      *)
(* (artifact_cache.go:79-125, irgen.go:3358 and 3471, staging.go:112-132).     *)
AsDocumented ==
    Staged = Len(S!Odd) => \A i \in DOMAIN verdicts : verdicts[i]
=============================================================================
