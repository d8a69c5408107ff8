CONSTANTS
    Jobs <- Odd
    Width = 16
    Widest = 1000
    Zero <- ZeroValue
    MaxDepth = 8
    Fuel = 80
SPECIFICATION InTurn
INVARIANT RunsAsDocumented
CHECK_DEADLOCK FALSE
