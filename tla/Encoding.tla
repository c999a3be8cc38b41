------------------------------ MODULE Encoding -----------------------------
(***************************************************************************)
(* How the instruction set encodes RV64IM: the reference for Decoder.  It  *)
(* goes the other way, from an instruction to the fields of its word.      *)
(***************************************************************************)
EXTENDS Integers

OpImm == 19    OpImm32 == 27   Load == 3      System == 115   Fence == 15
Jalr == 103    Lui == 55       Auipc == 23    Op == 51        Op32 == 59
Store == 35    Branch == 99    Jal == 111
Opcodes == {OpImm, OpImm32, Load, System, Fence, Jalr, Lui, Auipc, Op, Op32,
            Store, Branch, Jal}

Free == -1
Encodings ==
    {<<"Lui", "U", Lui, Free, Free>>, <<"Auipc", "U", Auipc, Free, Free>>,
     <<"Jal", "J", Jal, Free, Free>>, <<"Jalr", "I", Jalr, 0, Free>>,
     <<"Fence", "I", Fence, 0, Free>>,
     <<"Ecall", "System", System, 0, 0>>, <<"Ebreak", "System", System, 0, 0>>,
     <<"Beq", "B", Branch, 0, Free>>, <<"Bne", "B", Branch, 1, Free>>,
     <<"Blt", "B", Branch, 4, Free>>, <<"Bge", "B", Branch, 5, Free>>,
     <<"Bltu", "B", Branch, 6, Free>>, <<"Bgeu", "B", Branch, 7, Free>>,
     <<"Lb", "I", Load, 0, Free>>, <<"Lh", "I", Load, 1, Free>>,
     <<"Lw", "I", Load, 2, Free>>, <<"Ld", "I", Load, 3, Free>>,
     <<"Lbu", "I", Load, 4, Free>>, <<"Lhu", "I", Load, 5, Free>>,
     <<"Lwu", "I", Load, 6, Free>>,
     <<"Sb", "S", Store, 0, Free>>, <<"Sh", "S", Store, 1, Free>>,
     <<"Sw", "S", Store, 2, Free>>, <<"Sd", "S", Store, 3, Free>>,
     <<"Addi", "I", OpImm, 0, Free>>, <<"Slti", "I", OpImm, 2, Free>>,
     <<"Sltiu", "I", OpImm, 3, Free>>, <<"Xori", "I", OpImm, 4, Free>>,
     <<"Ori", "I", OpImm, 6, Free>>, <<"Andi", "I", OpImm, 7, Free>>,
     <<"Slli", "Shift", OpImm, 1, 0>>, <<"Srli", "Shift", OpImm, 5, 0>>,
     <<"Srai", "Shift", OpImm, 5, 32>>,
     <<"Addiw", "I", OpImm32, 0, Free>>, <<"Slliw", "Shift32", OpImm32, 1, 0>>,
     <<"Srliw", "Shift32", OpImm32, 5, 0>>, <<"Sraiw", "Shift32", OpImm32, 5, 32>>,
     <<"Add", "R", Op, 0, 0>>, <<"Sub", "R", Op, 0, 32>>, <<"Sll", "R", Op, 1, 0>>,
     <<"Slt", "R", Op, 2, 0>>, <<"Sltu", "R", Op, 3, 0>>, <<"Xor", "R", Op, 4, 0>>,
     <<"Srl", "R", Op, 5, 0>>, <<"Sra", "R", Op, 5, 32>>, <<"Or", "R", Op, 6, 0>>,
     <<"And", "R", Op, 7, 0>>, <<"Mul", "R", Op, 0, 1>>, <<"Mulh", "R", Op, 1, 1>>,
     <<"Mulhsu", "R", Op, 2, 1>>, <<"Mulhu", "R", Op, 3, 1>>,
     <<"Div", "R", Op, 4, 1>>, <<"Divu", "R", Op, 5, 1>>, <<"Rem", "R", Op, 6, 1>>,
     <<"Remu", "R", Op, 7, 1>>,
     <<"Addw", "R", Op32, 0, 0>>, <<"Subw", "R", Op32, 0, 32>>,
     <<"Sllw", "R", Op32, 1, 0>>, <<"Srlw", "R", Op32, 5, 0>>,
     <<"Sraw", "R", Op32, 5, 32>>, <<"Mulw", "R", Op32, 0, 1>>,
     <<"Divw", "R", Op32, 4, 1>>, <<"Divuw", "R", Op32, 5, 1>>,
     <<"Remw", "R", Op32, 6, 1>>, <<"Remuw", "R", Op32, 7, 1>>}

\* The bits of a number from low on.
Field(imm, low, bits) == (imm \div 2 ^ low) % 2 ^ bits
\* A sign and so many bits.
Fits(imm, bits) == -(2 ^ bits) <= imm /\ imm < 2 ^ bits

\* Instruction i, [type, rd, rs1, rs2, imm], is what the word w encodes.
Encodes(e, i, w) ==
    LET format == e[2]
        imm == i.imm
    IN  /\ i.type = e[1] /\ w.opcode = e[3]
        /\ e[4] # Free => w.funct3 = e[4]
        /\ format \in {"R", "I", "Shift", "Shift32", "U", "J"} => i.rd = w.rd
        /\ format \in {"R", "I", "Shift", "Shift32", "S", "B"} => i.rs1 = w.rs1
        /\ format \in {"R", "S", "B"} => i.rs2 = w.rs2
        /\ CASE format = "R" -> w.funct7 = e[5]
             [] format = "I" ->
                  /\ Fits(imm, 11)
                  /\ w.rs2 = Field(imm, 0, 5) /\ w.funct7 = Field(imm, 5, 7)
             [] format = "Shift" ->
                  /\ imm \in 0 .. 63
                  /\ w.rs2 = Field(imm, 0, 5)
                  /\ w.funct7 = e[5] + Field(imm, 5, 1)
             [] format = "Shift32" -> w.rs2 = imm /\ w.funct7 = e[5]
             [] format = "S" ->
                  /\ Fits(imm, 11)
                  /\ w.rd = Field(imm, 0, 5) /\ w.funct7 = Field(imm, 5, 7)
             [] format = "B" ->
                  /\ Fits(imm, 12) /\ imm % 2 = 0
                  /\ w.rd = 2 * Field(imm, 1, 4) + Field(imm, 11, 1)
                  /\ w.funct7 = 64 * Field(imm, 12, 1) + Field(imm, 5, 6)
             [] format = "U" ->
                  /\ imm % 2 ^ 12 = 0 /\ w.funct3 = Field(imm, 12, 3)
                  /\ w.rs1 = Field(imm, 15, 5) /\ w.rs2 = Field(imm, 20, 5)
                  /\ w.funct7 = Field(imm, 25, 7)
             [] format = "J" ->
                  /\ Fits(imm, 20) /\ imm % 2 = 0
                  /\ w.rs2 = 2 * Field(imm, 1, 4) + Field(imm, 11, 1)
                  /\ w.funct7 = 64 * Field(imm, 20, 1) + Field(imm, 5, 6)
                  /\ w.funct3 = Field(imm, 12, 3) /\ w.rs1 = Field(imm, 15, 5)
             [] format = "System" ->
                  /\ w.rd = 0 /\ w.rs1 = 0 /\ w.funct7 = 0
                  /\ w.rs2 = IF i.type = "Ecall" THEN 0 ELSE 1

\* Words with these fixed fields are instructions.
Defined(w) ==
    \E e \in Encodings :
        /\ w.opcode = e[3] /\ e[4] \in {Free, w.funct3}
        /\ CASE e[2] = "Shift" -> w.funct7 \div 2 = e[5] \div 2
             [] e[2] = "System" -> w.rd = 0 /\ w.rs1 = 0 /\ w.rs2 \in {0, 1}
                                       /\ w.funct7 = 0
             [] OTHER -> e[5] \in {Free, w.funct7}
=============================================================================
