CONSTANTS
    Slots = {s1, s2}
    Discs = {d1, d2}
    NoSlot = NoSlot
    NoDisc = NoDisc
SPECIFICATION Spec
INVARIANTS TypeOK LockMatchesPlaces IdleIsQuiet IdleIsSaved CdAgreesUnlessSlipped
  
