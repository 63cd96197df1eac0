CONSTANTS
    PageCount = 9
    UsedPages <- MCUsedPages
    MaxFaults = 3
SPECIFICATION Spec
INVARIANTS TypeOK UnloadedIsRestored ReadyOrRefused AliasesGuarded
CHECK_DEADLOCK FALSE
