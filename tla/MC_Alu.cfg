SPECIFICATION Spec
CONSTANTS
    HalfWidth = 2
    Registers = {0, 1, 2}
    Immediates = {0, 1, 14, 15}
    Pcs = {0, 8}
    StackPointer = 6
    Crash = Crash
PROPERTIES InterpreterIsRight AArch64IsRight X64IsRight StopsAreDivisions
