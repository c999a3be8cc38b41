------------------------------ MODULE Decoder ------------------------------
(***************************************************************************)
(* Instruction's constructor (Instruction.cpp): a word of the program      *)
(* becomes a type, registers and an immediate.                             *)
(*                                                                         *)
(* A word is given by the fields of the R format; the immediates of the    *)
(* other formats are made of the same bits.                                *)
(***************************************************************************)
EXTENDS Encoding

CONSTANTS
    OpcodeFields,    \* of bits 0 to 6: among 0 .. 127
    RegisterFields,  \* of rd, rs1, rs2: among 0 .. 31
    Functs7          \* of bits 25 to 31: among 0 .. 127

ASSUME FieldsAssumption ==
    /\ OpcodeFields \subseteq 0 .. 127 /\ RegisterFields \subseteq 0 .. 31
    /\ Functs7 \subseteq 0 .. 127

VARIABLES
    word,        \* the fields of instruction_encoded
    decoded,     \* the Instruction
    decoder_at   \* "fetched", "decoded"

decoder_vars == <<word, decoded, decoder_at>>

\* set_decoded.
Make(type, rd, rs1, rs2, imm) ==
    [type |-> type, rd |-> rd, rs1 |-> rs1, rs2 |-> rs2, imm |-> imm]
Undefined == Make("Undefined", 0, 0, 0, 0)

Words == [opcode: OpcodeFields, rd: RegisterFields, funct3: 0 .. 7,
          rs1: RegisterFields, rs2: RegisterFields, funct7: Functs7]

DecoderInit == word \in Words /\ decoded = Undefined /\ decoder_at = "fetched"

Bit(w, n) == (w.funct7 \div 2 ^ (n - 25)) % 2

\* sign32: all ones from the sign on.
SignExtend(w, low, bits) == low - Bit(w, 31) * 2 ^ bits

\* Mutant of ImmediateI: eleven bits, without the sign.
UnsignedImmediateI(w) == w.rs2 + 32 * (w.funct7 % 64)
ImmediateI(w) == SignExtend(w, w.rs2 + 32 * (w.funct7 % 64), 11)
ImmediateS(w) == SignExtend(w, w.rd + 32 * (w.funct7 % 64), 11)
ImmediateB(w) ==
    SignExtend(w, 2 * (w.rd \div 2) + 32 * (w.funct7 % 64) + 2 ^ 11 * (w.rd % 2), 12)
ImmediateU(w) ==
    2 ^ 12 * SignExtend(w, w.funct3 + 2 ^ 3 * w.rs1 + 2 ^ 8 * w.rs2
                           + 2 ^ 13 * (w.funct7 % 64), 19)
ImmediateJ(w) ==
    SignExtend(w, 2 * (w.rs2 \div 2) + 32 * (w.funct7 % 64) + 2 ^ 11 * (w.rs2 % 2)
                 + 2 ^ 12 * w.funct3 + 2 ^ 15 * w.rs1, 20)

\* A shift by up to 63 has a bit more for its amount, and one less for its type.
Shamt(w) == w.rs2 + 32 * (w.funct7 % 2)
Shtype(w) == w.funct7 \div 2

\* The switches over funct3: the type for 0, 1, ..., 7.
None == "None"
TypesOpImm == <<"Addi", None, "Slti", "Sltiu", "Xori", None, "Ori", "Andi">>
TypesLoad == <<"Lb", "Lh", "Lw", "Ld", "Lbu", "Lhu", "Lwu", None>>
TypesStore == <<"Sb", "Sh", "Sw", "Sd", None, None, None, None>>
TypesBranch == <<"Beq", "Bne", None, None, "Blt", "Bge", "Bltu", "Bgeu">>
TypesOp(funct7) ==
    CASE funct7 = 0 -> <<"Add", "Sll", "Slt", "Sltu", "Xor", "Srl", "Or", "And">>
      [] funct7 = 32 -> <<"Sub", None, None, None, None, "Sra", None, None>>
      [] funct7 = 1 -> <<"Mul", "Mulh", "Mulhsu", "Mulhu", "Div", "Divu", "Rem", "Remu">>
      [] OTHER -> <<None, None, None, None, None, None, None, None>>
TypesOp32(funct7) ==
    CASE funct7 = 0 -> <<"Addw", "Sllw", None, None, None, "Srlw", None, None>>
      [] funct7 = 32 -> <<"Subw", None, None, None, None, "Sraw", None, None>>
      [] funct7 = 1 -> <<"Mulw", None, None, None, "Divw", "Divuw", "Remw", "Remuw">>
      [] OTHER -> <<None, None, None, None, None, None, None, None>>
Type(types, w) == types[w.funct3 + 1]

\* For a word that nothing returns for, decode leaves Undefined.
MakeIf(type, rd, rs1, rs2, imm) ==
    IF type = None THEN Undefined ELSE Make(type, rd, rs1, rs2, imm)
MakeI(w, type, imm) == Make(type, w.rd, w.rs1, 0, imm)

\* The type is Sraiw when bit 31 is set, not when bit 30 is: shtype has six bits.
DecodeOpImm32(w) ==
    CASE w.funct3 = 0 -> MakeI(w, "Addiw", ImmediateI(w))
      [] w.funct3 = 1 /\ w.funct7 = 0 -> MakeI(w, "Slliw", w.rs2)
      [] w.funct3 = 5 /\ w.funct7 = 0 -> MakeI(w, "Srliw", w.rs2)
      [] w.funct3 = 5 /\ Shtype(w) = 32 -> MakeI(w, "Sraiw", w.rs2)
      [] OTHER -> Undefined

\* This case and the next have no break: they fall through to the next one.
DecodeLoad(w) ==
    IF Type(TypesLoad, w) # None
      THEN MakeI(w, Type(TypesLoad, w), ImmediateI(w))
      ELSE DecodeOpImm32(w)

DecodeOpImm(w) ==
    CASE Type(TypesOpImm, w) # None ->
           MakeI(w, Type(TypesOpImm, w), ImmediateI(w))
      [] w.funct3 = 1 /\ Shtype(w) = 0 -> MakeI(w, "Slli", Shamt(w))
      [] w.funct3 = 5 /\ Shtype(w) = 0 -> MakeI(w, "Srli", Shamt(w))
      [] w.funct3 = 5 /\ Shtype(w) = 16 -> MakeI(w, "Srai", Shamt(w))
      [] OTHER -> DecodeLoad(w)

\* Mutant of DecodeSystem: fields that must be zero are not looked at.
DecodeAnySystem(w) ==
    IF w.funct3 = 0 /\ ImmediateI(w) \in {0, 1}
      THEN Make(IF ImmediateI(w) = 0 THEN "Ecall" ELSE "Ebreak", 0, 0, 0, 0)
      ELSE Undefined

DecodeSystem(w) ==
    IF w.funct3 = 0 /\ w.rs1 = 0 /\ w.rd = 0 /\ ImmediateI(w) \in {0, 1}
      THEN Make(IF ImmediateI(w) = 0 THEN "Ecall" ELSE "Ebreak", 0, 0, 0, 0)
      ELSE Undefined

DecodeIType(w) ==
    CASE w.opcode = OpImm -> DecodeOpImm(w)
      [] w.opcode = Load -> DecodeLoad(w)
      [] w.opcode = OpImm32 -> DecodeOpImm32(w)
      [] w.opcode = System -> DecodeSystem(w)
      [] w.opcode = Fence /\ w.funct3 = 0 -> MakeI(w, "Fence", ImmediateI(w))
      [] w.opcode = Jalr /\ w.funct3 = 0 -> MakeI(w, "Jalr", ImmediateI(w))
      [] OTHER -> Undefined

DecodeUType(w) ==
    Make(IF w.opcode = Lui THEN "Lui" ELSE "Auipc", w.rd, 0, 0, ImmediateU(w))

DecodeRType(w) ==
    LET types == IF w.opcode = Op THEN TypesOp(w.funct7) ELSE TypesOp32(w.funct7)
    IN  MakeIf(Type(types, w), w.rd, w.rs1, w.rs2, 0)

DecodeSType(w) == MakeIf(Type(TypesStore, w), 0, w.rs1, w.rs2, ImmediateS(w))
DecodeBType(w) == MakeIf(Type(TypesBranch, w), 0, w.rs1, w.rs2, ImmediateB(w))
DecodeJType(w) == Make("Jal", w.rd, 0, 0, ImmediateJ(w))

Decode(w) ==
    CASE w.opcode \in {OpImm, OpImm32, Load, System, Fence, Jalr} -> DecodeIType(w)
      [] w.opcode \in {Lui, Auipc} -> DecodeUType(w)
      [] w.opcode \in {Op, Op32} -> DecodeRType(w)
      [] w.opcode = Store -> DecodeSType(w)
      [] w.opcode = Branch -> DecodeBType(w)
      [] w.opcode = Jal -> DecodeJType(w)
      [] OTHER -> Undefined

DecodeWord ==
    /\ decoder_at = "fetched" /\ decoder_at' = "decoded"
    /\ decoded' = Decode(word) /\ UNCHANGED word

DecoderDone == decoder_at = "decoded" /\ UNCHANGED decoder_vars

DecoderNext == DecodeWord \/ DecoderDone
DecoderSpec == DecoderInit /\ [][DecoderNext]_decoder_vars
-----------------------------------------------------------------------------
\* The cases of OpImm that nothing returns from go on as loads, and sraiw is
\* looked for with the wrong bit.
ReservedShift(w) == w.opcode = OpImm /\ w.funct3 \in {1, 5} /\ ~Defined(w)
Sraiw(w) == w.opcode = OpImm32 /\ w.funct3 = 5 /\ w.funct7 = 32
ReservedSraiw(w) == w.opcode = OpImm32 /\ w.funct3 = 5 /\ w.funct7 \in {64, 65}

\* What a word is decoded to encodes to that word: the type, the registers,
\* and the bits of the immediate in their places, with its sign.
DecodesWhatIsEncoded ==
    decoder_at = "decoded" /\ decoded # Undefined =>
        \/ \E e \in Encodings : Encodes(e, decoded, word)
        \/ ReservedShift(word) \/ ReservedSraiw(word)

\* Words that encode nothing are undefined instructions, and only they.
UndefinedIsReserved ==
    decoder_at = "decoded" =>
        \/ (decoded = Undefined) = ~Defined(word)
        \/ ReservedShift(word) \/ Sraiw(word) \/ ReservedSraiw(word)
=============================================================================
