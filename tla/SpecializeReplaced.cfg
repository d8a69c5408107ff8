CONSTANTS
    Word <- Words
    Type <- Types
    Parameter <- Parameters
    Program <- ReplacedPrograms
SPECIFICATION Spec
INVARIANT Replaced
