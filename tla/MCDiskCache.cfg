CONSTANTS
    big = big
    small = small
    Slots = {0, 1}
    Files = {big, small}
    Sectors <- MCSectors
    BlockSectors = 2
    CleanBudget = 2
    FetchRun = 2
    Main = main
    Threads = {main, emu}
    Values = {7}
    Asks <- MCAsks
    emu = emu
    main = main
    OverlappedUI = FALSE
    NoFile = NoFile
    NoThread = NoThread
    Guest = Guest
    Padding = Padding
SPECIFICATION Spec
INVARIANTS TypeOK CleanIdenticalToSource CleanIsEvictable LockIsHeldExactlyInside
PROPERTIES DirtyIsPinned CowDisk
