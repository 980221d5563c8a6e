SPECIFICATION Spec
CONSTANTS
    NPages = 4
    free_list = free_list
    MayExhaust = TRUE
INVARIANTS
    TotalIsNrFree
