---------------------------- MODULE MCBuildCache ----------------------------
(* Small instances of BuildCache.                                          *)
EXTENDS BuildCache, TLC

\* A program with module "main" that instantiates its own generic "box".
Make(main, box, requested, retained, warns) ==
    [accepted |-> TRUE, warns |-> warns, order |-> <<"main", "box", "rt">>,
     text |-> [u \in {"main", "box"} |-> IF u = "main" THEN main ELSE box],
     runtime |-> [b \in BOOLEAN |-> IF b THEN "hosted" ELSE "free"],
     requested |-> requested, retained |-> retained]
Broken == [Make("m1", "b1", FALSE, FALSE, FALSE) EXCEPT !.accepted = FALSE]

MCOwner == [u \in {"box"} |-> "main"]

\* "edit" and "same" are two edits of one program that call into libc, and "same"
\* does not keep the call; "strict" and "bad" are refused, the first for its warning.
MCProgram ==
    [s \in Source |-> [o \in Outside |->
        CASE s = "edit" -> Make("m2", "b2", TRUE, TRUE, TRUE)
          [] s = "same" -> Make("m1", "b1", TRUE, FALSE, TRUE)
          [] s = "strict" -> Make("m1", "b1", FALSE, FALSE, TRUE)
          [] s = "bad" -> Broken]]

\* One module whose program warns and needs the hosted runtime.
MCSmall == [s \in Source |-> [o \in Outside |->
              [Make("m1", "b1", TRUE, TRUE, TRUE) EXCEPT !.order = <<"main", "rt">>]]]

\* A program with warnings is built in one mode, each in another.
MCModes ==
    [s \in Source |-> CASE s = "edit" -> {"off"}
                        [] s = "strict" -> {"error"}
                        [] OTHER -> {"show"}]

ProcSymmetry == Permutations(Proc)
=============================================================================
