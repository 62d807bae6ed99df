SPECIFICATION Spec
CONSTANTS
    RbNames = {"x.rb", "y.rb", "z.rb", "schema.rb"}
    GemspecNames = {"p.gemspec"}
    GemNames = {"g", "h"}
    Newline = "nl"
    Utf8 <- Utf8Len
    Utf16 <- Utf16Len
    NameRank <- Rank
    Runs <- MCRuns
INVARIANTS
    ReportIsSequential
    ExitTells
    OnlyProjectCode
    OneRole
    ClosedWorldIsEarned
    PositionsLeadBack
    UriRoundTrip
PROPERTIES
    Terminates
CHECK_DEADLOCK FALSE
