CONSTANTS
    Package = {"main", "a", "b", "std", "builtin"}
    Main = "main"
    Builtin = "builtin"
    Std = "std"
    StdTree = {"std"}
    Program <- MCProgram
SPECIFICATION FairSpec
CHECK_DEADLOCK FALSE
INVARIANTS ImportsFirst OrderIsReach RejectsCycles NeedsFirst InitialisedOnce
PROPERTY EndsOrRuns
