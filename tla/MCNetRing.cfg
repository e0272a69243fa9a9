CONSTANTS
    Size = 8
    Wrap = 16
    Base = 3
    FrameMax = 3
    Frames <- MCFrames
    NoFrame = NoFrame
SPECIFICATION Spec
INVARIANTS TypeOK RingHoldsPending LengthIsTrue
PROPERTIES LossyFifo
