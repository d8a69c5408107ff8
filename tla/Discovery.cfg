CONSTANTS
    Name = {"main", "std", "vendor", "app", "lib", "a", "b", "c", "d", "m", "v", "x", "."}
    Workspace <- MCWorkspace
SPECIFICATION FairSpec
CHECK_DEADLOCK FALSE
INVARIANTS OneDirectory LoadsImports LoadsOnlyImports
PROPERTIES ResolutionsStable Ends
