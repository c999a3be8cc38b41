SPECIFICATION DecoderSpec
CONSTANTS
    OpcodeFields = {3, 15, 19, 23, 27, 35, 51, 55, 59, 83, 99, 103, 111, 115}
    RegisterFields = {0, 1, 2, 16, 31}
    Functs7 = {0, 1, 2, 31, 32, 33, 64, 65, 96, 127}
INVARIANTS DecodesWhatIsEncoded UndefinedIsReserved
