CONSTANTS
    Height = 2
    Pixels = {black, white}
    Black = black
SPECIFICATION Spec
INVARIANTS TypeOK DrawingExcludesCopying ShadowIsPicture
PROPERTIES EmulationGoesOn CanvasCatchesUp
