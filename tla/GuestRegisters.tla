--------------------------- MODULE GuestRegisters ---------------------------
(***************************************************************************)
(* The instructions of a block as the instruction set has them, without a  *)
(* cache: an instruction begins with the values of its sources, which are  *)
(* all it computes, compares, stores or jumps with, then writes its        *)
(* destination and nothing else.  Execution leaves the block at a fault,   *)
(* at a branch that is taken, after a jump and at the end of the block.    *)
(***************************************************************************)
CONSTANTS Regs, Zero, Values, ZeroValue, Op, Instructions, NoInstruction

VARIABLES
    registers,
    instruction, operands,  \* NoInstruction and <<>> between instructions
    at   \* "next", "begun", "leaving" (it has jumped) or "left" (the block)

vars == <<registers, instruction, operands, at>>

Init ==
    /\ registers = [r \in Regs |-> ZeroValue]
    /\ instruction = NoInstruction /\ operands = <<>> /\ at = "next"

Value(r) == IF r = Zero THEN ZeroValue ELSE registers[r]

Begin(i) ==
    /\ at = "next" /\ at' = "begun"
    /\ instruction' = i /\ operands' = <<Value(i.rs1), Value(i.rs2)>>
    /\ UNCHANGED registers

\* What comes from memory or from the pc may be any value.
Results == IF instruction.kind \in {"unary", "binary"} THEN {Op[operands]}
           ELSE Values

Write(r, v) ==
    registers' = IF r = Zero THEN registers ELSE [registers EXCEPT ![r] = v]

BetweenInstructions ==
    at' = "next" /\ instruction' = NoInstruction /\ operands' = <<>>

Finish ==
    /\ at = "begun" /\ instruction.kind \notin {"jal", "jalr", "stop"}
    /\ \E v \in Results : Write(instruction.rd, v)
    /\ BetweenInstructions

\* The link is written; the target is that of the operands it began with.
Jump ==
    /\ at = "begun" /\ instruction.kind \in {"jal", "jalr"}
    /\ at' = "leaving"
    /\ \E v \in Values : Write(instruction.rd, v)
    /\ UNCHANGED <<instruction, operands>>

Leave ==
    /\ \/ at = "leaving"
       \/ /\ at = "begun"
          /\ instruction.kind \in {"load", "store", "branch", "stop"}
    /\ at' = "left"
    /\ UNCHANGED <<registers, instruction, operands>>

\* The interpreter or the embedder writes a register.
Set ==
    /\ at = "left"
    /\ \E r \in Regs, v \in Values : Write(r, v)
    /\ UNCHANGED <<instruction, operands, at>>

Resume == at = "left" /\ BetweenInstructions /\ UNCHANGED registers

Next ==
    \/ \E i \in Instructions : Begin(i)
    \/ Finish \/ Jump \/ Leave \/ Set \/ Resume

Spec == Init /\ [][Next]_vars
=============================================================================
