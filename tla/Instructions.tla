---------------------------- MODULE Instructions ----------------------------
(***************************************************************************)
(* Parsed instructions: `struct instruction` of instructions.h and the     *)
(* metadata table `imeta` of utilities.c that gives every opcode the       *)
(* operand format it is written in.                                        *)
(***************************************************************************)
EXTENDS Integers

\* The rows of imeta, grouped by the format in their second column.
RRR == {"ADD", "ADDW", "SUB", "SUBW", "SLL", "SLLW", "SRL", "SRLW", "SRA",
        "SRAW", "OR", "AND", "XOR", "SLT", "SLTU"}
RRI == {"ADDI", "ADDIW", "SLLI", "SLLIW", "SRLI", "SRLIW", "SRAI", "SRAIW",
        "ORI", "ANDI", "XORI", "SLTI", "SLTIU",
        "BEQ", "BNE", "BLT", "BGE", "BLTU", "BGEU"}
RI  == {"AUIPC", "LUI", "JAL"}
ROR == {"SB", "SH", "SW", "SD", "LB", "LH", "LW", "LWU", "LD", "LBU", "LHU",
        "JALR"}

Opcode == RRR \cup RRI \cup RI \cup ROR \cup {"ECALL", "INSTRINVALID"}
Format == {"FMT_RRR", "FMT_RRI", "FMT_RI", "FMT_ROR", "FMT_ECALL", "FMT_ERROR"}

\* The format of an opcode, FMT_ERROR for one that has no row.
instr_format(op) ==
  CASE op \in RRR   -> "FMT_RRR"
    [] op \in RRI   -> "FMT_RRI"
    [] op \in RI    -> "FMT_RI"
    [] op \in ROR   -> "FMT_ROR"
    [] op = "ECALL" -> "FMT_ECALL"
    [] OTHER        -> "FMT_ERROR"

(***************************************************************************)
(* The union `format` is flattened.  Its members overlay each other in the *)
(* order used here: r2 of the ROR format is rd, r1 is rs1, and an offset   *)
(* is an immediate.                                                        *)
(***************************************************************************)
Instruction ==
  [inst_no : Opcode, inst_addr : Nat, fmt_type : Format,
   rd : Nat, rs1 : Nat, rs2 : Nat, imm : Int]

\* The parser linked into the emulator refuses opcodes it does not know and
\* operands that are not in the format of the opcode.
WellFormed(inst) ==
  /\ inst.inst_no # "INSTRINVALID"
  /\ inst.fmt_type = instr_format(inst.inst_no)

\* What freshly allocated memory holds where no instruction was stored:
\* all fields zero, which is the ECALL opcode with the RRR format.
ZeroInstruction ==
  [inst_no |-> "ECALL", inst_addr |-> 0, fmt_type |-> "FMT_RRR",
   rd |-> 0, rs1 |-> 0, rs2 |-> 0, imm |-> 0]
=============================================================================
