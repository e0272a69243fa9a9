CONSTANTS
    big = big
    small = small
    Slots = {0}
    Files = {big, small}
    Sectors <- MCSectorsBig
    BlockSectors = 2
    CleanBudget = 2
    FetchRun = 2
    Main = main
    Threads = {main, emu}
    Values = {7}
    Asks <- MCAsksBig
    emu = emu
    main = main
    OverlappedUI = FALSE
    NoFile = NoFile
    NoThread = NoThread
    Guest = Guest
    Padding = Padding
SPECIFICATION Spec
INVARIANT PreloadStaysResident
