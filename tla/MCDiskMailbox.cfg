CONSTANTS
    Fetchers = {emu, cd}
    Main = main
    Wants = {w1, w2}
    MaxPokes = 2
    NoThread = NoThread
    NoWant = NoWant
SPECIFICATION Spec
INVARIANTS TypeOK LocksMatchPlaces MainNeverWaitsForFetch InServiceHasJob StagedIsMineUnlessOverlap
PROPERTIES StageIsStable TableIsReleased
