SPECIFICATION Spec
CONSTANTS
    Regs = {x1, x2, x3, x4}
    Zero = Zero
    Slots = {s1, s2, s3}
    NoSlot = NoSlot
    Values = {0, 1}
    ZeroValue = 0
    Op <- Flip
    MaxInstructions = 3
SYMMETRY Symmetry
INVARIANTS
    TypeOK
    ExitsAreCoherent
    SourcesAreCurrent
    OneCache
    VerifiesHold
PROPERTY ImplementsGuestRegisters
