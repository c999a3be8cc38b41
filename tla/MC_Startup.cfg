SPECIFICATION Spec
CONSTANTS
    AddressLimit = 32
    MemorySize = 14
    FileSize = 10
    PageSize = 4
    Guard = 2
    WordSize = 1
    InstructionSize = 1
    ProgramHeaders <- SmallHeaders
    MaxHeaders = 2
    Entrypoints = {0, 4, 16}
    Vms = {1, 2}
    MemorySizes = {14, 16}
    Pcs = {4, 16}
    Reasons = {"Ecall", "BlockNotGenerated"}
INVARIANTS AbiIsKept GuestRunsForItsCaller ExecutableIsInTable ImageIsLoaded
