CONSTANTS
    Sockets = {s1, s2}
    NoSocket = NoSocket
    s1 = s1
    s2 = s2
    MaxTx = 2
    MaxRx = 3
    PumpMax = 2
    Headroom = 3
    MaxPokes = 1
SPECIFICATION Spec
INVARIANTS OneConnectionUnlessDoubled ReconnectsUnlessRefused
PROPERTIES FramesAreDrained RxMoves
