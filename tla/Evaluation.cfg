CONSTANTS
    Jobs <- Work
    Width = 400000000
    Widest = 400000007
    Zero <- ZeroValue
    MaxDepth = 3
SPECIFICATION Spec
INVARIANTS SameAsMeant FailsWithTheSource AcceptedLowers NeverUndefined
PROPERTY Ends
