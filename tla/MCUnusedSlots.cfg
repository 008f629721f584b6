SPECIFICATION MCSpec
CONSTANTS
    Width <- MCWidth
    Magnitudes <- MCMagnitudes
    Promote <- MCPromote
    NLocals = 2
    INITIAL_PRESERVATION_INDEX = 16
    PRESERVE_THRESHOLD = 3
    MaxOps = 6
    NRegs = 9
    BlockParams <- MCBlockParams
    Sources <- MCSources
INVARIANT
    UnusedCollected
