-------------------------- MODULE InstructionSet ---------------------------
(***************************************************************************)
(* What the instructions of RV64IM compute, with registers of 2 * HalfWidth*)
(* bits instead of 64: the reference for the three engines of Alu.  An     *)
(* instruction is an operation, whether it works on halves (a "w" one or a *)
(* narrow load), and whether its second operand is an immediate.           *)
(***************************************************************************)
EXTENDS Integers

CONSTANT HalfWidth

\* Of two.
Power[n \in Nat] == IF n = 0 THEN 1 ELSE 2 * Power[n - 1]

\* What both processors do with the count of a shift needs a power of two.
ASSUME WidthAssumption == HalfWidth \in Nat /\ \E k \in 0 .. HalfWidth : HalfWidth = Power[k]

Width == 2 * HalfWidth
Word == 0 .. Power[Width] - 1
Bits(half) == IF half THEN HalfWidth ELSE Width

Low(x, n) == x % Power[n]
Signed(x, n) ==
    IF Low(x, n) < Power[n - 1] THEN Low(x, n) ELSE Low(x, n) - Power[n]
Extend(x, n) == Low(Signed(x, n), Width)

Magnitude(x) == IF x < 0 THEN -x ELSE x
\* Rounds towards zero, like division in C++ and in both processors.
Quotient(x, y) ==
    IF (x < 0) = (y < 0) THEN Magnitude(x) \div Magnitude(y)
    ELSE -(Magnitude(x) \div Magnitude(y))
Remainder(x, y) == x - y * Quotient(x, y)
Flag(p) == IF p THEN 1 ELSE 0

Logic == {"Xor", "Or", "And"}
Shifts == {"Sll", "Srl", "Sra"}
Comparisons == {"Slt", "Sltu"}
Conditions == {"Beq", "Bne", "Blt", "Bge", "Bltu", "Bgeu"}
SignedDivisions == {"Div", "Rem"}
Divisions == SignedDivisions \union {"Divu", "Remu"}

\* A bit of each operand, and as many of the lowest ones.
LogicOfBits(operation, p, q) ==
    CASE operation = "Xor" -> (p + q) % 2
      [] operation = "Or"  -> IF p + q = 0 THEN 0 ELSE 1
      [] operation = "And" -> p * q
LogicOfLowest(operation, x, y) ==
    LET lowest[n \in Nat] ==
            IF n = 0 THEN 0
            ELSE lowest[n - 1] + Power[n - 1] *
                   LogicOfBits(operation, (x \div Power[n - 1]) % 2, (y \div Power[n - 1]) % 2)
    IN  lowest
Bitwise(operation, x, y) == LogicOfLowest(operation, x, y)[Width]

Loads == {"Load", "Loadu"}
Upper == {"Lui", "Auipc"}
Links == {"Jal", "Jalr"}

OnlyImmediate == Loads \union Upper \union Links
WithImmediate ==
    OnlyImmediate \union {"Add"} \union Logic \union Shifts \union Comparisons
OfHalves == {"Add", "Sub", "Mul"} \union Shifts \union Divisions \union Loads
Operations == WithImmediate \union OfHalves \union Conditions

\* [half, immediate] of every instruction there is.
Form == {f \in [operation: Operations, half: BOOLEAN, immediate: BOOLEAN] :
            /\ f.half => f.operation \in OfHalves
            /\ f.operation = "Loadu" => f.half
            /\ f.immediate => f.operation \in WithImmediate
            /\ f.operation \in OnlyImmediate => f.immediate}

\* What memory holds where an access begins: a value that tells the addresses
\* apart.  Memory has what becomes of accesses that it does not allow.
Content(address) == address

\* Where a jump goes, whose last bit is cleared when it is not even.
Target(operation, pc, a, b) ==
    Low((IF operation = "Jal" THEN pc ELSE a) + b, Width)

Result(operation, half, pc, a, b) ==
    LET n == Bits(half)
        x == Low(a, n)   sx == Signed(a, n)
        y == Low(b, n)   sy == Signed(b, n)
        shamt == b % n
        value == CASE operation = "Add"  -> x + y
                   [] operation = "Sub"  -> x - y
                   [] operation \in Logic -> Bitwise(operation, x, y)
                   [] operation = "Sll"  -> x * Power[shamt]
                   [] operation = "Srl"  -> x \div Power[shamt]
                   [] operation = "Sra"  -> sx \div Power[shamt]
                   [] operation = "Slt"  -> Flag(sx < sy)
                   [] operation = "Sltu" -> Flag(x < y)
                   [] operation = "Mul"  -> x * y
                   [] operation = "Div"  -> IF y = 0 THEN -1 ELSE Quotient(sx, sy)
                   [] operation = "Divu" -> IF y = 0 THEN -1 ELSE x \div y
                   [] operation = "Rem"  -> IF y = 0 THEN x ELSE Remainder(sx, sy)
                   [] operation = "Remu" -> IF y = 0 THEN x ELSE x % y
                   [] operation = "Load" -> Content(Low(a + b, Width))
                   [] operation = "Loadu" -> Low(Content(Low(a + b, Width)), n)
                   [] operation = "Lui"  -> b
                   [] operation = "Auipc" -> pc + b
                   [] operation \in Links -> pc + 4
                   [] operation = "Beq"  -> Flag(x = y)
                   [] operation = "Bne"  -> Flag(x # y)
                   [] operation = "Blt"  -> Flag(sx < sy)
                   [] operation = "Bge"  -> Flag(sx >= sy)
                   [] operation = "Bltu" -> Flag(x < y)
                   [] operation = "Bgeu" -> Flag(x >= y)
    IN  Extend(value, IF operation = "Loadu" THEN Width ELSE n)
=============================================================================
