SPECIFICATION Spec
CONSTANTS
    Procs = {p, q, r}
    Inodes = {i1, i2, i3}
    NoInode = NoInode
    MaxVersion = 3
    Chunks = 2
    Keys = {token, passphrase}
    Styles <- BothStyles
SYMMETRY BySymmetry
CHECK_DEADLOCK FALSE
INVARIANTS TypeOK ReadersSeeWhole UpdatesKept NothingLeftBehind
PROPERTIES RegisterKept
