SPECIFICATION MCSpec
CONSTANTS
    Width <- MCWidth
    Magnitudes <- MCMagnitudes
    MemoryAt <- MCMemoryAt
    TableAt <- MCAliasedAt
    GlobalAt <- MCGlobalAt
    GlobalType <- MCGlobalType
    FuncAt <- MCFuncAt
    Initial <- MCInitial
    MaxPages <- MCMaxPages
    MaxElems <- MCMaxElems
    PagesMax = 3
    PageSize = 2
    Limiters <- MCLimiters
    Fuels <- MCFuels
    PerFuel = 2
    Frozen <- MCFrozen
    FuncGlobals <- MCFuncGlobals
    Setup <- MCSetup
    All <- MCAll
    Memories <- AccessMemories
    Firsts <- AccessFirsts
    Followers <- AccessFollowers
    Rounds = 1
INVARIANT
    DifferentTables
