CONSTANTS
    Programs <- Modules
    Targets <- Target
SPECIFICATION Spec
INVARIANTS SelectedAsWritten FailsAsWritten
PROPERTY ValuesKeep
