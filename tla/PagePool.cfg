SPECIFICATION Spec
CONSTANTS
    NPages = 8
    free_list = free_list
    MayExhaust = FALSE
VIEW View
INVARIANTS
    BlocksAreFree
    RefusesOnlyWhenFull
PROPERTIES
    AllocatorSpec
