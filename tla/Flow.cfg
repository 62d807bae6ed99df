SPECIFICATION Spec
CONSTANTS
    Classes = {"A", "B", "C", "D", "O", "Struct"}
    Super <- MCSuper
    CoreConst <- MCCoreConst
    Vars = {"x", "y", "p", "q"}
    Methods <- MCMethods
    SingletonMethods <- MCSingletonMethods
    Opened = {"O"}
    core_own_names <- MCOwn
    core_pollution_names <- MCFamily
    RbiCore <- MCRbiCore
    CoreMethods <- MCCoreMethods
    Inventory <- MCInventory
    LexicalSelf = {"each"}
    StackDepth = 9
    AnyValues <- MCValues
    MaxTurns = 2
    CallFuel = 2
    Texts <- MCTexts
    Params <- MCParams
    Patches <- MCPatches
    SelfClass = "A"
    ClosedWorld = TRUE
    Check <- check_file
    Execute <- Executions
INVARIANTS
    TypesCover
    AccusedFails
    OperandFails
    ContradictionIsReal
    ArgumentsFit
CONSTRAINT PatchedUsesCore
CHECK_DEADLOCK FALSE
