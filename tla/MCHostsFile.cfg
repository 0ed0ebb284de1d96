CONSTANTS
    localhost = localhost
    printer = printer
    UserLines <- MCUserLines
    PeerLine = {p, q}
    BlockStart = BlockStart
    BlockEnd = BlockEnd
    Task = {t1, t2}
    Cleaner = Cleaner
SPECIFICATION Spec
INVARIANT UserLinesKept
