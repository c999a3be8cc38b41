SPECIFICATION FairSpec
CONSTANTS
    Executors = {e1, e2}
    GuestAddresses = {0, 4, 5}
    EntryAddresses = {0, 4}
    CodeSizes = {8, 20}
    Size = 76
    MaxExecutable = 7
    OffsetRange = 4096
    Multithreaded = TRUE
    NoExecutor = NoExecutor
    Trampoline = Trampoline
    NoCode = NoCode
INVARIANTS
    TypeOK
    RunsItsBlock
    PublishedIsComplete
    RunsWhatItSees
    NoOrphans
    DumpedOnce
PROPERTIES TranslationsAreFinal CallsReturn ImplementsCache
