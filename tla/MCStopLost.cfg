CONSTANTS
    Slots = {s1, s2}
    Discs = {d1}
    NoSlot = NoSlot
    NoDisc = NoDisc
SPECIFICATION Spec
PROPERTY StopHappens
