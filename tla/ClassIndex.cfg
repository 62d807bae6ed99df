SPECIFICATION Spec
CONSTANTS
    KernelMethods = {"class"}
    ClassObjectMethods = {"new"}
    StdlibSingletons = {}
    StdlibConsts = {}
    AliasCap = 3
    StackDepth = 4
    CoreNames <- MCCore
    ExternalPaths = {}
    InertMacros = {"raise"}
    Source <- MCSource
    Texts <- MCTexts
    IgnoredTexts <- MCIgnored
    MaxFiles = 3
    MaxIgnored = 1
    DeclaredPaths <- MCDeclared
    LockKeys = {"Gem"}
    NamespaceKey <- MCKeys
    SchemaTables <- MCSchema
    TableOf <- MCKeys
    Index <- project_index
    Fuel = 4
    Queries = {"f", "g", "h"}
    ConstReads <- MCReads
    Operator = "+"
    Hook = "coerce"
    CoreClass = "Integer"
    AwareIndex <- ignored_aware_index
    Lookup <- lookup_method
    LookupInstance <- lookup_method_rbi
    LookupSingleton <- lookup_singleton_rbi
    SuperLookup <- super_lookup
    CheckConst <- check_const_ref
    Order <- MRO
    Resolve <- RubyResolve
    Owns <- Own
    Answers <- RubyAnswers
    Gains <- CoreGains
INVARIANTS
    AbsenceIsProven
    FoundIsFirst
    UnresolvedIsMissing
    HeaderOrderFree
    PollutionIsSeen
CONSTRAINT OneOrderGrows
PROPERTY IgnoredOnlySuppresses
CHECK_DEADLOCK FALSE
