SPECIFICATION FairSpec
CONSTANTS
    MaxBlocks = 2
    Instructions <- Program
    Targets = {5, 12}
    Entries = {0, 8}
    Unfetchable = Unfetchable
    NotTranslated = NotTranslated
    MaxChanges = 1
INVARIANTS
    TypeOK
    StaysInBlock
    OneInstructionPerStep
PROPERTIES
    RunsAdvance
    TableIndexIsSafe
    ImplementsGuestExecution
