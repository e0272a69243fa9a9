CONSTANTS
    Timers = {sound, t1, t2}
    SoundPoll = sound
    sound = sound
    t1 = t1
    t2 = t2
    NoTimer = NoTimer
    Wrap = 14
    Latch = 3
    Delays = {1, 3}
    Costs = {1}
    Slice = 2
    Strays = {7}
SPECIFICATION Spec
INVARIANTS ListIsEnabled NothingOverdueUnlessAdrift
PROPERTIES FiresInOrderUnlessAdrift EmulationProceeds
