SPECIFICATION Spec
CONSTANTS
    Executors = {e1}
    GuestAddresses = {0, 4, 5}
    EntryAddresses = {0, 4}
    CodeSizes = {12}
    Size = 100
    MaxExecutable = 7
    OffsetRange = 4096
    Multithreaded = FALSE
    NoExecutor = NoExecutor
    Trampoline = Trampoline
    NoCode = NoCode
INVARIANT NeverMisaligned
