CONSTANTS
    A = A
    v1 = v1
    Types = {A}
    Versions = {v1}
    Jobs = {1, 2}
    Observed = {2}
    Loop = Loop
    None = None
    ProviderCount = 2
    Attempts = 2
    Batches <- WholeBatch
    AskedInBatch = {A}
    AskedInTest = {None}
    MaxConcurrent = 1
    Layout <- Layouts
    Readings <- SomeReadings
SPECIFICATION FairSpec
INVARIANTS
    TypeOK
    TemplatesStayFound
    CacheIsDisk
    ResultsFitTheirTemplate
PROPERTIES
    UncheckedOnlyIfUnknown
    ExtractionsEnd
CHECK_DEADLOCK FALSE
