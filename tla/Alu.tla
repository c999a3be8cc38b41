-------------------------------- MODULE Alu --------------------------------
(***************************************************************************)
(* What the instructions of RV64IM store in registers and where they jump, *)
(* three times: in Interpreter::step (Interpreter.cpp), and in             *)
(* generate_instruction of jit/aarch64/CodeGenerator.cpp and               *)
(* jit/x64/CodeGenerator.cpp.  One instruction is executed, from any       *)
(* contents of the registers.                                              *)
(*                                                                         *)
(* Registers have 2 * HalfWidth bits where the code has 64, and immediates *)
(* fit in a half.  What the emitted instructions do is taken from their    *)
(* names (asmlib is not part of the repository).                           *)
(***************************************************************************)
EXTENDS InstructionSet

CONSTANTS
    Registers,     \* Register: 0 is x0
    Immediates,    \* imm(), sign extended
    Pcs,           \* where instructions are that read the pc
    StackPointer,  \* what an AArch64 instruction reads as SP in place of XZR
    Crash          \* the process ends: a trap of the processor, or a verify

Zero == 0
ASSUME CrashAssumption == StackPointer \in Word /\ Crash \notin Word
ASSUME RegistersAssumption ==
    Zero \in Registers /\ Immediates \subseteq {Extend(x, HalfWidth) : x \in Word}
ASSUME PcsAssumption == Pcs \subseteq {pc \in Word : pc % 4 = 0}

VARIABLES
    registers,     \* RegisterState
    instruction,   \* the decoded instruction
    at,            \* "fetched", "unsupported", "done", "stopped"
    by,            \* who executes
    taken,         \* the branch
    target         \* of jal and jalr

vars == <<registers, instruction, at, by, taken, target>>

\* As the decoder leaves them: fields that a format does not have are 0.
Instructions ==
    {[operation |-> f.operation, half |-> f.half, immediate |-> f.immediate,
      rd |-> rd, rs1 |-> rs1, rs2 |-> rs2, imm |-> imm, pc |-> pc] :
        f \in Form, rd \in Registers, rs1 \in Registers, rs2 \in Registers,
        imm \in Immediates \union 0 .. Width - 1, pc \in Pcs \union {0}}
Decoded(i) ==
    /\ i.operation \in Conditions => i.rd = 0
    /\ i.operation \in Upper \union {"Jal"} => i.rs1 = 0
    /\ i.operation = "Jal" => i.imm % 2 = 0
    /\ IF i.operation \in Links \union {"Auipc"} THEN i.pc \in Pcs ELSE i.pc = 0
    /\ IF ~i.immediate THEN i.imm = 0
       ELSE /\ i.rs2 = 0
            /\ IF i.operation \in Shifts THEN i.imm < Bits(i.half)
               ELSE i.imm \in Immediates

Init ==
    /\ registers \in [Registers -> Word] /\ registers[Zero] = 0
    /\ instruction \in {i \in Instructions : Decoded(i)}
    /\ at = "fetched" /\ by = "nobody" /\ taken = FALSE /\ target = 0

First(i) == registers[i.rs1]
Second(i) == IF i.immediate THEN i.imm ELSE registers[i.rs2]

\* set of RegisterState: x0 stays 0.
Set(rd, value) ==
    registers' = [registers EXCEPT ![rd] = IF rd = Zero THEN 0 ELSE value]

Execute(who, outcomes, jump) ==
    /\ by' = who /\ UNCHANGED instruction
    /\ \E outcome \in outcomes :
          IF outcome = Crash
            THEN at' = "stopped" /\ UNCHANGED <<registers, taken, target>>
            ELSE /\ at' = "done" /\ Set(instruction.rd, outcome)
                 /\ taken' = (instruction.operation \in Conditions /\ outcome = 1)
                 /\ target' = IF instruction.operation \in Links THEN jump ELSE 0

(***************************************************************************)
(* Interpreter::step.  C++ does not define a division by zero or one that  *)
(* overflows: on x64 it is a trap, on AArch64 it has a value.              *)
(***************************************************************************)
Overflows(x, y, n) == Signed(x, n) = -Power[n - 1] /\ Signed(y, n) = -1

\* sdiv and udiv of AArch64.
Divided(x, y) == IF y = 0 THEN 0 ELSE Quotient(x, y)

InterpretedDivision(i, a, b) ==
    LET n == Bits(i.half)
        signed == i.operation \in SignedDivisions
        x == IF signed THEN Signed(a, n) ELSE Low(a, n)
        y == IF signed THEN Signed(b, n) ELSE Low(b, n)
        quotient == Divided(x, y)
        value == IF i.operation \in {"Rem", "Remu"} THEN x - y * quotient
                 ELSE quotient
    IN  {Extend(value, n)}
          \union IF y = 0 \/ (signed /\ Overflows(a, b, n)) THEN {Crash} ELSE {}

\* Mutant of InterpretedShift: arithmetic shifts are logical ones.
InterpretedLogicalShift(i, a, b) ==
    LET n == Bits(i.half)
        shamt == IF i.immediate THEN b ELSE b % n
    IN  IF i.operation = "Sll" THEN Extend(Low(a, n) * Power[shamt], n)
        ELSE Extend(Low(a, n) \div Power[shamt], n)

\* "int64_t(a) << shamt": srai and sra shift to the left.
InterpretedShift(i, a, b) ==
    LET n == Bits(i.half)
        shamt == IF i.immediate THEN b ELSE b % n
        value == CASE i.operation = "Sll" -> Low(a, n) * Power[shamt]
                   [] i.operation = "Srl" -> Low(a, n) \div Power[shamt]
                   [] i.operation = "Sra" /\ i.half -> Signed(a, n) \div Power[shamt]
                   [] i.operation = "Sra" /\ ~i.half -> Signed(a, n) * Power[shamt]
    IN  Extend(value, n)

InterpretedCondition(operation, a, b) ==
    LET sa == Signed(a, Width)  sb == Signed(b, Width)
    IN  CASE operation = "Beq"  -> a = b
          [] operation = "Bne"  -> a # b
          [] operation \in {"Blt", "Slt"} -> sa < sb
          [] operation = "Bge"  -> sa >= sb
          [] operation \in {"Bltu", "Sltu"} -> a < b
          [] operation = "Bgeu" -> a >= b

\* The conversion from the type that memory.read has, to uint64_t.
Loaded(i, value) ==
    IF i.operation = "Loadu" THEN Low(value, HalfWidth)
    ELSE Extend(value, Bits(i.half))

\* jalr clears the last bit.
InterpretedTarget(i, a) ==
    IF i.operation = "Jal" THEN Low(i.pc + i.imm, Width)
    ELSE LET to == Low(a + i.imm, Width) IN  2 * (to \div 2)

\* mulw divides.
Interpreted(i, a, b) ==
    CASE i.operation = "Add" -> {Extend(a + b, Bits(i.half))}
      [] i.operation = "Sub" -> {Extend(a - b, Bits(i.half))}
      [] i.operation \in Logic -> {Bitwise(i.operation, a, b)}
      [] i.operation \in Shifts -> {InterpretedShift(i, a, b)}
      [] i.operation \in Comparisons \union Conditions ->
           {Flag(InterpretedCondition(i.operation, a, b))}
      [] i.operation = "Mul" /\ ~i.half -> {Low(a * b, Width)}
      [] i.operation \in Divisions \/ (i.operation = "Mul" /\ i.half) ->
           InterpretedDivision(i, a, b)
      [] i.operation = "Lui" -> {i.imm}
      [] i.operation = "Auipc" -> {Low(i.pc + i.imm, Width)}
      [] i.operation \in Links -> {Low(i.pc + 4, Width)}
      [] i.operation \in Loads -> {Loaded(i, Content(Low(a + i.imm, Width)))}

Interpret ==
    /\ at \in {"fetched", "unsupported"}
    /\ Execute("interpreter",
               Interpreted(instruction, First(instruction), Second(instruction)),
               InterpretedTarget(instruction, First(instruction)))

(***************************************************************************)
(* Translated code.                                                        *)
(***************************************************************************)
\* add, sub, eor or xor, ..., mul of n bits; both processors take the count of a
\* shift modulo the size of its operand.
Processor(operation, n, a, b) ==
    LET x == Low(a, n)  y == Low(b, n)
        value == CASE operation = "Add" -> x + y
                   [] operation = "Sub" -> x - y
                   [] operation \in Logic -> Bitwise(operation, x, y)
                   [] operation = "Sll" -> x * Power[y % n]
                   [] operation = "Srl" -> x \div Power[y % n]
                   [] operation = "Sra" -> Signed(x, n) \div Power[y % n]
                   [] operation = "Mul" -> x * y
    IN  Low(value, n)

\* ldrsb to ldr of AArch64, movsx, movzx and mov of x64: lb to lwu by name.
LoadedBy(i, address) == Loaded(i, Content(address))

\* The flags after cmp.
Holds(condition, a, b) ==
    CASE condition = "eq" -> a = b
      [] condition = "ne" -> a # b
      [] condition = "lt" -> Signed(a, Width) < Signed(b, Width)
      [] condition = "ge" -> Signed(a, Width) >= Signed(b, Width)
      [] condition = "below" -> a < b
      [] condition = "not below" -> a >= b

\* "Condition is inverted": it skips the branch.
Skips == [Beq |-> "ne", Bne |-> "eq", Blt |-> "ge", Bge |-> "lt",
          Bltu |-> "not below", Bgeu |-> "below"]
X64Skips == [Beq |-> "ne", Bne |-> "eq", Blt |-> "ge", Bge |-> "lt",
             Bltu |-> "not below", Bgeu |-> "below"]
Sets == [Slt |-> "lt", Sltu |-> "below"]

\* Mutant of AArch64Add: the immediate form with XZR, which it reads as SP.
AArch64AddToSp(i, a, b) ==
    Extend(IF i.immediate /\ i.imm = 0 THEN a
           ELSE IF i.immediate /\ i.rs1 = Zero THEN StackPointer + b
           ELSE Processor("Add", Bits(i.half), a, b), Bits(i.half))

\* "Add takes SP as second operand", so x0 is special.
AArch64Add(i, a, b) ==
    Extend(IF i.immediate /\ i.imm = 0 THEN a
           ELSE IF i.immediate /\ i.rs1 = Zero THEN i.imm
           ELSE Processor("Add", Bits(i.half), a, b), Bits(i.half))

AArch64Compare(i, a, b) ==
    IF i.immediate /\ i.rs1 = Zero
      THEN IF i.operation = "Slt" THEN 0 < Signed(i.imm, Width) ELSE 0 < i.imm
      ELSE Holds(Sets[i.operation], a, b)

\* sdiv or udiv, and msub for the remainder.
AArch64Divide(i, a, b) ==
    LET n == Bits(i.half)
        quotient == IF i.operation \in SignedDivisions
                      THEN Divided(Signed(a, n), Signed(b, n))
                      ELSE Divided(Low(a, n), Low(b, n))
    IN  Extend(IF i.operation \in {"Rem", "Remu"} THEN a - quotient * b
               ELSE quotient, n)

\* add_offset_to_register: XZR is never an operand of an add here.
AArch64Offset(i, a) ==
    IF i.rs1 = Zero THEN i.imm ELSE IF i.imm = 0 THEN a ELSE Low(a + i.imm, Width)

\* The last bit of a jalr's target is cleared for the branch and not for the exits.
AArch64Target(i, a) ==
    IF i.operation = "Jal" THEN Low(i.pc + i.imm, Width) ELSE AArch64Offset(i, a)

AArch64(i, a, b) ==
    CASE i.operation = "Lui" -> i.imm
      [] i.operation = "Auipc" -> Low(i.pc + i.imm, Width)
      [] i.operation \in Links -> Low(i.pc + 4, Width)
      [] i.operation \in Loads -> LoadedBy(i, AArch64Offset(i, a))
      [] i.operation = "Add" -> AArch64Add(i, a, b)
      [] i.operation \in Comparisons -> Flag(AArch64Compare(i, a, b))
      [] i.operation \in Conditions -> Flag(~Holds(Skips[i.operation], a, b))
      [] i.operation \in Divisions -> AArch64Divide(i, a, b)
      [] OTHER -> Extend(Processor(i.operation, Bits(i.half), a, b), Bits(i.half))

\* The break of a multiplication or a division belongs to its if: those for
\* x0 fall through to the instructions that are left to the interpreter.
FallsThrough(i) == i.rd = Zero /\ i.operation \in Divisions \union {"Mul"}

RunAArch64 ==
    /\ at = "fetched" /\ ~FallsThrough(instruction)
    /\ Execute("aarch64",
               {AArch64(instruction, First(instruction), Second(instruction))},
               AArch64Target(instruction, First(instruction)))

GiveUpAArch64 ==
    /\ at = "fetched" /\ FallsThrough(instruction)
    /\ at' = "unsupported" /\ by' = "aarch64"
    /\ UNCHANGED <<registers, instruction, taken, target>>

\* Operations on [rd] itself, which have imm() as their second operand.
InPlace(i) ==
    /\ i.operation \in {"Add", "Sub"} \union Logic \union Shifts
    /\ ~i.half /\ i.rd = i.rs1

\* generate_binary_operation has no operand size: all are of 64 bits.
X64Binary(i, a, b) ==
    LET second == IF InPlace(i) THEN i.imm ELSE b
    IN  IF i.operation = "Add" /\ ~i.half /\ i.immediate /\ i.rs1 = Zero THEN i.imm
        ELSE IF i.operation = "Add" /\ i.immediate /\ i.imm = 0
               THEN Extend(a, Bits(i.half))
        ELSE Extend(Processor(i.operation, Width, a, second), Bits(i.half))

\* x0 is no operand in memory: register_operand verifies that.
X64Compare(i, a, b) ==
    IF i.immediate /\ i.rs1 = Zero THEN Crash
    ELSE Flag(Holds(Sets[i.operation], a, b))

\* idiv and div trap when the quotient does not exist or does not fit.
X64Traps(i, a, b) ==
    \/ Low(b, Bits(i.half)) = 0
    \/ i.operation \in SignedDivisions /\ Overflows(a, b, Bits(i.half))

\* Mutant of X64Overflows: -1 is not looked for.
X64NeverOverflows(i, a, b) == FALSE

\* Compared are registers of 64 bits, also for a division of 32.
X64Overflows(i, a, b) ==
    /\ i.operation \in SignedDivisions /\ Signed(b, Width) = -1
    /\ Signed(a, Width) = -Power[Bits(i.half) - 1]

X64Divide(i, a, b) ==
    LET n == Bits(i.half)
        x == IF i.operation \in SignedDivisions THEN Signed(a, n) ELSE Low(a, n)
        y == IF i.operation \in SignedDivisions THEN Signed(b, n) ELSE Low(b, n)
    IN  IF X64Overflows(i, a, b) THEN 0
        ELSE IF X64Traps(i, a, b) THEN Crash
        ELSE Extend(IF i.operation \in {"Rem", "Remu"} THEN Remainder(x, y)
                    ELSE Quotient(x, y), n)

\* Mutant of X64Multiply: the product is not sign extended.
X64MultiplyUnsigned(i, a, b) == Processor("Mul", Bits(i.half), a, b)
X64Multiply(i, a, b) ==
    Extend(Processor("Mul", Bits(i.half), a, b), Bits(i.half))

\* store_imm_to_register: an immediate of 32 bits is extended by mov, others take
\* a scratch register.
X64Immediate(value) ==
    IF value = Extend(value, HalfWidth) THEN Extend(Low(value, HalfWidth), HalfWidth)
    ELSE value

\* load_register
X64Offset(i, a) == IF i.rs1 = Zero THEN i.imm ELSE Low(a + i.imm, Width)

X64Target(i, a) ==
    IF i.operation = "Jal" THEN Low(i.pc + i.imm, Width) ELSE X64Offset(i, a)

X64(i, a, b) ==
    IF i.operation \in Conditions THEN Flag(~Holds(X64Skips[i.operation], a, b))
    ELSE IF i.rd = Zero THEN 0
    ELSE CASE i.operation = "Lui" -> X64Immediate(i.imm)
           [] i.operation = "Auipc" -> X64Immediate(Low(i.pc + i.imm, Width))
           [] i.operation \in Links -> X64Immediate(Low(i.pc + 4, Width))
           [] i.operation \in Loads -> LoadedBy(i, X64Offset(i, a))
           [] i.operation \in Comparisons -> X64Compare(i, a, b)
           [] i.operation = "Mul" -> X64Multiply(i, a, b)
           [] i.operation \in Divisions -> X64Divide(i, a, b)
           [] OTHER -> X64Binary(i, a, b)

RunX64 ==
    /\ at = "fetched"
    /\ Execute("x64",
               {X64(instruction, First(instruction), Second(instruction))},
               X64Target(instruction, First(instruction)))

Finished == at \in {"done", "stopped"} /\ UNCHANGED vars

Next == Interpret \/ RunAArch64 \/ GiveUpAArch64 \/ RunX64 \/ Finished
Spec == Init /\ [][Next]_vars
-----------------------------------------------------------------------------
Operation == instruction.operation
N == Bits(instruction.half)
A == First(instruction)
B == Second(instruction)
Should == Result(Operation, instruction.half, instruction.pc, A, B)
ShouldGoTo == Target(Operation, instruction.pc, A, B)
Right ==
    /\ IF Operation \in Conditions THEN taken' = (Should = 1) /\ UNCHANGED registers
       ELSE Set(instruction.rd, Should)
    /\ Operation \in Links => target' \div 2 = ShouldGoTo \div 2
DividesByZero == Operation \in Divisions /\ Low(B, N) = 0
SignedOverflow == Operation \in SignedDivisions /\ Overflows(A, B, N)
Extended(x) == x = Extend(x, N)

Done(who) == at' = "done" /\ by' = who

\* Interpreter::step computes what the instruction set says, for all that it
\* finishes, but for three: sra and srai shift to the left, mulw divides, and
\* a quotient of a division by zero is what the host makes of it.
InterpreterIsRight ==
    [][Done("interpreter") =>
          \/ Right
          \/ Operation = "Sra" /\ ~instruction.half
          \/ Operation = "Mul" /\ instruction.half
          \/ Operation \in {"Div", "Divu"} /\ DividesByZero]_vars

\* Code for AArch64, with its special cases of x0 and of immediates, computes
\* what the instruction set says, but for quotients of divisions by zero (and
\* for the last bit of a target, which a run of CodeBuffer is about).
AArch64IsRight ==
    [][Done("aarch64") =>
          Right \/ (Operation \in {"Div", "Divu"} /\ DividesByZero)]_vars

\* Code for x64 does as well, but for three: an operation on two registers
\* that is done in place, a shift of 32 bits (done with 64) that is not
\* extended the way it shifts or shifts by 32 or more, and the quotient that
\* overflows, which is taken to be 0.
X64IsRight ==
    [][Done("x64") =>
          \/ Right
          \/ InPlace(instruction) /\ ~instruction.immediate
          \/ /\ Operation \in Shifts /\ instruction.half
             /\ \/ B % Width >= HalfWidth
                \/ Operation = "Srl" /\ A # Low(A, HalfWidth)
                \/ Operation = "Sra" /\ ~Extended(A)
          \/ Operation = "Div" /\ SignedOverflow]_vars

\* What ends the process: divisions by zero, mulw (which is one) and signed
\* overflow in the interpreter; in code for x64 a division by zero, slti of
\* x0, and "where signed disivion may overflow" only that of 32 bits whose
\* operands are not sign extended; in code for AArch64 nothing.
StopsAreDivisions ==
    [][at' = "stopped" =>
          \/ /\ by' = "interpreter"
             /\ \/ DividesByZero \/ SignedOverflow
                \/ Operation = "Mul" /\ instruction.half /\ Low(B, N) = 0
          \/ /\ by' = "x64"
             /\ \/ DividesByZero
                \/ Operation \in Comparisons /\ instruction.rs1 = Zero
                \/ SignedOverflow /\ ~(Extended(A) /\ Extended(B))]_vars

\* "Instructions with 1st source == destination and 64 bit operand size:
\* mov rcx, [rs2]; op [rd], rcx": the second source is used.
InPlaceUsesSecondSource ==
    [][Done("x64") /\ InPlace(instruction) => Right]_vars
=============================================================================
