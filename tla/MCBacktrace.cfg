SPECIFICATION Spec
CONSTANTS
    main = main
    g = g
    h = h
    A = A
    Null = Null
    NoInstance = NoInstance
    NoLine = NoLine
    Funcs <- MCFuncs
    Hosts <- MCHosts
    InstanceOf <- MCInstanceOf
    Code <- MCUntracedCode
    Regs <- MCRegs
    InOut <- MCInOut
    LenResults <- MCLenResults
    File0 <- MCFile0
    LineOf <- MCLineOf
    Names <- MCNames
    Matching <- MCMatching
    Uncompilable = {}
    Succeeds <- MCHosts
    Fails <- MCHosts
    Grows <- MCHosts
    HookFails = FALSE
    RecursionLimit = 2
    MinHeight = 4
    MaxHeight = 6
    MaxPages = 1
    MaxTrace = 2
INVARIANT Backtrace
CHECK_DEADLOCK FALSE
