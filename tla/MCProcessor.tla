---------------------------- MODULE MCProcessor ----------------------------
(* Small programs and headers for model checking Processor. *)
EXTENDS ProcessorAtomic

\* An instruction in the format of its opcode; At gives it its address.
Inst(op, rd, rs1, rs2, imm) ==
  [inst_no |-> op, inst_addr |-> 0, fmt_type |-> instr_format(op),
   rd |-> rd, rs1 |-> rs1, rs2 |-> rs2, imm |-> imm]

\* A load or store in the order of its assembly text: op r2, offset(r1).
MemInst(op, r2, offset, r1) == Inst(op, r2, r1, 0, offset)

Ecall == Inst("ECALL", 0, 0, 0, 0)

Header(lower, upper, entry, memory_sz, print_regs) ==
  [instr_lower |-> lower, instr_upper |-> upper, entry_address |-> entry,
   memory_sz |-> memory_sz, print_instrs |-> TRUE, print_regs |-> print_regs]

ProgramsOver(pool, max) == UNION {[1 .. n -> pool] : n \in 0 .. max}

\* The last register is a7; one register number does not exist.
Pool ==
  { Inst("ADDI", 1, 1, 0, 1), Inst("ADDI", A7, 0, 0, 2), Inst("ADDI", A7, 0, 0, 23),
    Inst("SUB", 0, 0, 1, 0), Inst("SRL", 1, 1, 1, 0), Ecall,
    MemInst("SH", A7, 0, 1), MemInst("LH", 0, 0, 1), MemInst("LD", A7, -1, 1),
    MemInst("LB", 1, 0, 0) }

ShortPrograms == ProgramsOver(Pool, 3)

\* Registers that do not exist, and control flow, which only registers.c
\* turns into an exception.
ProgramsS == ShortPrograms
  \cup ProgramsOver({Inst("ADDI", NREGS, 1, 0, 1), Inst("BEQ", 1, 1, 0, 4), Ecall,
                     Inst("ADDI", 1, NREGS, 0, 1)}, 2)

ProgramsP == ShortPrograms
  \cup ProgramsOver({Inst("BEQ", 1, 1, 0, 4), Inst("JAL", 1, 0, 0, 8), Ecall,
                     MemInst("JALR", 1, 0, 1), Inst("SLTU", 1, 0, A7, 0)}, 2)

\* Headers that fit the program or not: an entry in the middle, below or not
\* aligned, one beyond the range of an unsigned int, a too large instr_upper.
Headers ==
  { Header(4, 16, 4, 2, TRUE), Header(4, 16, 5, 1, TRUE), Header(8, 12, 4, 2, FALSE),
    Header(0, 24, UINT_MAX + 1, 4, TRUE), Header(0, 0, 8, 0, TRUE) }

\* Memory that was never written, and an instruction whose format is not the
\* one of its opcode.
Leftovers ==
  { ZeroInstruction, [Inst("ADD", 1, 0, 0, 4) EXCEPT !.fmt_type = "FMT_ROR"],
    [Inst("ADD", 1, 0, 0, 4) EXCEPT !.fmt_type = "FMT_ERROR"] }

Allocations == {"registers", "memory"}
MemoryOnly  == {"memory"}
None        == {}
=============================================================================
