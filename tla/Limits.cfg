CONSTANTS
    Proc = {p1}
    Source <- Sources
    Outside = {"o1", "o2"}
    Runtime = "rt"
    Request = {"box"}
    Module = {"lib", "main"}
    Owner <- Owners
    Text = {"l1", "m1", "m2", "m3", "m4", "m5", "b1", "b2", "free", "hosted"}
    Program <- Programs
    Probing = TRUE
    Mode <- Modes
    Command = {"build"}
    Fault = {"edit"}
SPECIFICATION InTurn
INVARIANT AsDocumented
CHECK_DEADLOCK FALSE
