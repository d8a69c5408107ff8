CONSTANTS
    Function = {"main", "g", "h", "k"}
    Module = {"app", "lib", "sys"}
    Constant = {"a", "b"}
    Other = "other"
    Priority <- MCPriority
    Program <- MCProgram
SPECIFICATION FairSpec
CHECK_DEADLOCK FALSE
INVARIANTS LeastConstants LeastArities CallsDefined SeesArguments
PROPERTY Generates
