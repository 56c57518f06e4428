CONSTANTS
    Flags = {"injected", "program"}
    Modules = {m1}
    UnsignedModules = {m1}
    Injected = "injected"
    Found <- FewFound
    LateFound = {}
    Direct = {"program"}
    NoData = NoData
SPECIFICATION FairSpec
PROPERTIES FlagIsReported ProcessEnds
INVARIANTS SentWasReported ExitReports
CHECK_DEADLOCK FALSE
