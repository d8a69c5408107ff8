CONSTANTS
    Word <- Words
    Type <- Types
    Parameter <- Parameters
    Program <- CheckedPrograms
SPECIFICATION Spec
INVARIANT OnlyDemanded
INVARIANT AllDemanded
INVARIANT CallsMeanOne
INVARIANT SameCallees
INVARIANT BaseUnvarying
PROPERTY Extracted
