SPECIFICATION MCSpec
CONSTANTS
    Width <- MCWidth
    Magnitudes <- MCMagnitudes
    Samples <- MCSamples
    Operands <- MCOperands
    Backward <- MCBackward
    Forward <- MCForward
    HalfBits = 8
INVARIANT
    FarBranch
