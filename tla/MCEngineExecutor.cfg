SPECIFICATION Spec
CONSTANTS
    main = main
    f = f
    g = g
    k = k
    h = h
    e = e
    w = w
    A = A
    B = B
    Null = Null
    NoInstance = NoInstance
    Funcs <- MCFuncs
    Hosts <- MCHosts
    Exports <- MCExports
    InstanceOf <- MCInstanceOf
    Code <- MCCode
    Regs <- MCRegs
    InOut <- MCInOut
    Uncompilable <- MCUncompilable
    Succeeds <- MCSucceeds
    Fails <- MCFails
    Grows <- MCHosts
    HookFails = TRUE
    RecursionLimit = 4
    MinHeight = 2
    MaxHeight = 10
    MaxPages = 2
    LenResults = 1
INVARIANTS
    TypeOK
    ExecutingFrameOnStack
    StackPointerValid
    FramesDisjoint
    ReturnAddresses
    CacheCurrent
    CleanFinish
PROPERTY CallsImplemented
