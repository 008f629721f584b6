SPECIFICATION Spec
CONSTANTS
    f1 = f1
    f2 = f2
    f3 = f3
    f4 = f4
    Funcs <- MCFuncs
    Modules <- MCModules
    Valid <- MCValid
    Translatable <- MCTranslatable
    Threads = {t1, t2}
    Metered = TRUE
    Cost = 1
    MaxFuel = 1
    NoFunc = NoFunc
PROPERTY ErrorsAsDocumented
