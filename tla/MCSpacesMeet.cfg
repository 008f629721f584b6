SPECIFICATION MCSpec
CONSTANTS
    Width <- MCWidth
    Magnitudes <- MCMagnitudes
    Promote <- MCPromote
    NLocals = 2
    INITIAL_PRESERVATION_INDEX = 5
    PRESERVE_THRESHOLD = 3
    MaxOps = 7
    NRegs = 9
    BlockParams <- MCBlockParams
    Sources <- MCSources
INVARIANT
    SpacesApart
