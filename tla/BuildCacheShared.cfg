CONSTANTS
    Proc = {p1, p2}
    Source = {"edit", "same", "strict", "bad"}
    Outside = {"o1", "o2"}
    Runtime = "rt"
    Request = {"box"}
    Module = {"main"}
    Owner <- MCOwner
    Text = {"m1", "m2", "b1", "b2", "free", "hosted"}
    Program <- MCProgram
    Probing = TRUE
    Mode <- MCModes
    Command = {"build"}
    Fault = {"crash", "edit"}
SPECIFICATION Spec
SYMMETRY ProcSymmetry
INVARIANTS TypeOK OutputIsCleanBuild SnapshotsReplay WarningModeHonoured
PROPERTY KeepsPromise
