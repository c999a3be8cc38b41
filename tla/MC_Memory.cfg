SPECIFICATION Spec
CONSTANTS
    Size = 12
    AddressLimit = 64
    Addresses = {0, 8, 9, 10, 12, 63}
    NoRequest = NoRequest
    Bytes = {0, 1}
    Data <- Words
    Ranges <- Parts
    FlagSets <- Grants
    SkipPermissionChecks = FALSE
INVARIANTS
    TypeOK
    InBounds
    PaddingIsUntouched
PROPERTY ImplementsGuestMemory
