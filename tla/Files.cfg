SPECIFICATION Spec
CHECK_DEADLOCK FALSE
CONSTANTS
    p1 = p1
    p2 = p2
    t1 = t1
    t2 = t2
    root = root
    sub = sub
    f = f
    g = g
    NoNode = NoNode
    NoTable = NoTable
    Root = root
    Dev <- MCDev
    Dir <- MCDir
    File <- MCFile
    DirEntry <- MCDirEntry
    Block <- MCBlock
    Proc <- MCProc
    Table <- MCTable
    Path <- MCPath
    Flags <- MCFlags
    Directory <- MCDirectory
    Program <- MCProgram
    Position <- MCPosition
    CLONE_FS <- MCClone
    SFS_NDIRECT = 1
    SFS_BLK_NENTRY = 3
    SFS_BLKSIZE = 2
    SFS_MAX_FILE_SIZE = 8
    FILES_STRUCT_NENTRY = 3
    MaxLeaks = 1
SYMMETRY MCSymmetry
CONSTRAINT TablesOrVolume
INVARIANTS
    CountsAreHolders
    CachedIffReferenced
    ReadersHoldSlot
    TablesAreShared
    AssertionsHold
    BlocksConserved
    ClosedIsOnDisk
    ImageConsistent
