SPECIFICATION Spec
CONSTANTS
    f1 = f1
    f2 = f2
    f3 = f3
    a = a
    b = b
    head = head
    Virt <- MCVirt
    Frame <- MCFrame
    Value <- MCValue
    Manager <- MCManager
    max_swap_offset = 7
    KernelPages = 1
SYMMETRY MCSymmetry
INVARIANTS
    FramesAccounted
PROPERTIES
    EvictsOldest
    MemorySpec
