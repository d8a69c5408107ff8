CONSTANTS
    Proc = {p1, p2}
    Source = {"same"}
    Outside = {"o1"}
    Runtime = "rt"
    Request = {"box"}
    Module = {"main"}
    Owner <- MCOwner
    Text = {"m1", "m2", "b1", "b2", "free", "hosted"}
    Program <- MCSmall
    Probing = TRUE
    Mode <- MCModes
    Command = {"build", "check", "dump"}
    Fault = {"lose", "store"}
SPECIFICATION FairSpec
INVARIANT FailsOnlyAfterLoss
PROPERTY BuildsEnd
