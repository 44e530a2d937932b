----------------------------- MODULE Registers -----------------------------
(***************************************************************************)
(* The register file and `processor_emulate_regops`: the handler of the    *)
(* instructions that only touch registers.                                 *)
(*                                                                         *)
(* The Makefile links one of two implementations, chosen by HW2: "S" is    *)
(* registers.c of this repository, "P" (the default) the object file       *)
(* objects/registers.o that came with the assignment.  Operators named     *)
(* Provided... describe the object file as its disassembly shows it; it    *)
(* has no source under src/.                                               *)
(*                                                                         *)
(* A handler is a set of actions, one per way it can return.  An action    *)
(* here sets the register file only; the loop in Processor decides what    *)
(* the return value leads to.                                              *)
(***************************************************************************)
EXTENDS Words, Instructions

CONSTANTS
  NREGS,      \* general-purpose registers: 32
  A7,         \* the register holding the system call number: 17
  UINT_MAX,   \* the largest `unsigned int`: 2^32 - 1
  IMMBITS,    \* width of an immediate, and the shift of LUI: 12
  HW2         \* which implementation is linked: "S" or "P"

ASSUME RegistersAssumption ==
  /\ NREGS \in Nat \ {0}
  /\ A7 \in 0 .. NREGS - 1
  /\ UINT_MAX \in Nat
  /\ IMMBITS \in 1 .. XLEN
  /\ HW2 \in {"S", "P"}

VARIABLES
  rs,         \* is processor->rs a register file (TRUE) or NULL (FALSE)?
  pc,         \* rs->pc, an unsigned long
  x           \* rs->x, the general-purpose registers

Reg == 0 .. NREGS - 1

regvars == <<rs, pc, x>>

InitRegisters(entry) == pc = entry /\ x = [r \in Reg |-> ZeroWord]

-----------------------------------------------------------------------------
(* Access functions. *)

\* The number is an `unsigned int`: one that the parser read as negative is
\* beyond NREGS.  registers_getreg of the object file checks nothing; on
\* registers that exist it agrees with registers.c.
GetReg(r) == IF rs /\ r \in Reg THEN x[r] ELSE ZeroWord

\* registers_getpc returns an `unsigned int`: the pc is truncated.
GetPc == IF rs THEN pc % (UINT_MAX + 1) ELSE 0

\* Mutation of SetRegS: the guard against register 0 is missing.
SetRegUnguarded(r, v) == IF rs /\ r < NREGS THEN [x EXCEPT ![r] = v] ELSE x

SetRegS(r, v)        == IF rs /\ r > 0 /\ r < NREGS THEN [x EXCEPT ![r] = v] ELSE x
ProvidedSetReg(r, v) == [x EXCEPT ![r] = v]
SetReg(r, v)         == IF HW2 = "S" THEN SetRegS(r, v) ELSE ProvidedSetReg(r, v)

SetPc(a) == IF rs THEN a ELSE pc

\* registers_getpc(rs) + 4 is `unsigned int` arithmetic.
NextPc == (GetPc + 4) % (UINT_MAX + 1)

Syscall == GetReg(A7)
Exit       == OfInt(2)
PrintState == OfInt(23)

-----------------------------------------------------------------------------
(* registers.c, HW2 = "S". *)

RegisterOps  == {"ADD", "SUB", "OR", "AND", "XOR", "SLL", "SRL", "SRA"}
ImmediateOps == {"ADDI", "ORI", "ANDI", "XORI", "SLLI", "SRLI", "SRAI"}
ExecutedOps  == RegisterOps \cup ImmediateOps \cup {"LUI"}

\* The operands the first switch extracts; what a format lacks stays zero.
Operands(inst) ==
  LET has(fmts, v) == IF inst.fmt_type \in fmts THEN v ELSE 0
  IN  [rd  |-> has({"FMT_RRR", "FMT_RRI", "FMT_RI", "FMT_ROR"}, inst.rd),
       rs1 |-> has({"FMT_RRR", "FMT_RRI", "FMT_ROR"}, inst.rs1),
       rs2 |-> has({"FMT_RRR"}, inst.rs2),
       imm |-> has({"FMT_RRI", "FMT_RI", "FMT_ROR"}, inst.imm)]

\* The second switch.  The operands are `long`, so >> is arithmetic for SRL
\* and SRLI as it is for SRA and SRAI.
AluResult(inst) ==
  LET o == Operands(inst)
      a == GetReg(o.rs1)
      b == IF inst.inst_no \in RegisterOps THEN GetReg(o.rs2) ELSE OfInt(o.imm)
  IN  CASE inst.inst_no = "LUI"              -> ShiftLeft(b, IMMBITS)
        [] inst.inst_no \in {"ADD", "ADDI"}  -> Add(a, b)
        [] inst.inst_no = "SUB"              -> Sub(a, b)
        [] inst.inst_no \in {"OR", "ORI"}    -> Or(a, b)
        [] inst.inst_no \in {"AND", "ANDI"}  -> And(a, b)
        [] inst.inst_no \in {"XOR", "XORI"}  -> Xor(a, b)
        [] inst.inst_no \in {"SLL", "SLLI"}  -> ShiftLeft(a, ShiftCount(b))
        [] OTHER                             -> ShiftRightArith(a, ShiftCount(b))

\* The first switch ends in `break`: every operand format, and the exit
\* system call, which goes on to the second switch.
Decodes(inst) ==
  \/ inst.fmt_type \in {"FMT_RRR", "FMT_RRI", "FMT_RI", "FMT_ROR"}
  \/ inst.fmt_type = "FMT_ECALL" /\ Syscall = Exit

ExecuteS(inst) ==
  /\ Decodes(inst)
  /\ inst.inst_no \in ExecutedOps
  /\ pc' = SetPc(NextPc)
  /\ x' = SetReg(Operands(inst).rd, AluResult(inst))
  /\ UNCHANGED rs

\* Mutation of SyscallS: the pc stays on the ecall.
SyscallStalls(inst) ==
  /\ inst.fmt_type = "FMT_ECALL"
  /\ Syscall = PrintState
  /\ UNCHANGED regvars

\* System call 23: the pc moves on and nothing is printed.
SyscallS(inst) ==
  /\ inst.fmt_type = "FMT_ECALL"
  /\ Syscall = PrintState
  /\ pc' = SetPc(NextPc)
  /\ UNCHANGED <<rs, x>>

\* The exception a call of the handler ends with.  The exit system call sets
\* EXCEPTION_EXIT, which the default of the second switch overwrites.
RaisesS(inst, ex) ==
  \/ /\ inst.fmt_type = "FMT_ECALL"
     /\ Syscall \notin {Exit, PrintState}
     /\ ex = "EXCEPTION_UNKNOWN_SYSCALL"
  \/ /\ inst.fmt_type = "FMT_ERROR"
     /\ ex = "EXCEPTION_INSTRUCTION"
  \/ /\ Decodes(inst)
     /\ inst.inst_no \notin ExecutedOps
     /\ ex = "EXCEPTION_INSTRUCTION"

-----------------------------------------------------------------------------
(* objects/registers.o, HW2 = "P". *)

ProvidedRRI == {"ADDI", "ADDIW", "SLLI", "SLLIW", "SRLI", "SRLIW", "SRAI",
                "SRAIW", "ORI", "ANDI", "XORI", "SLTI", "SLTIU"}

\* RV64I arithmetic; the ...W operations compute in 32 bits and sign-extend.
ProvidedAluResult(inst) ==
  LET op == inst.inst_no
      a  == GetReg(inst.rs1)
      b  == IF inst.fmt_type = "FMT_RRR" THEN GetReg(inst.rs2) ELSE OfInt(inst.imm)
      n  == ShiftCount(b)
      INT    == 4 * BITS
      nw     == ToNat(b) % INT
      flag(p) == OfInt(IF p THEN 1 ELSE 0)
  IN  CASE op = "LUI"               -> ShiftLeft(b, IMMBITS)
        [] op \in {"ADD", "ADDI"}   -> Add(a, b)
        [] op = "SUB"               -> Sub(a, b)
        [] op \in {"OR", "ORI"}     -> Or(a, b)
        [] op \in {"AND", "ANDI"}   -> And(a, b)
        [] op \in {"XOR", "XORI"}   -> Xor(a, b)
        [] op \in {"SLL", "SLLI"}   -> ShiftLeft(a, n)
        [] op \in {"SRL", "SRLI"}   -> ShiftRightLogical(a, n)
        [] op \in {"SRA", "SRAI"}   -> ShiftRightArith(a, n)
        [] op \in {"ADDW", "ADDIW"} -> SignExtend(Add(a, b), INT)
        [] op = "SUBW"              -> SignExtend(Sub(a, b), INT)
        [] op \in {"SLLW", "SLLIW"} -> SignExtend(ShiftLeft(a, nw), INT)
        [] op \in {"SRLW", "SRLIW"} ->
             SignExtend(ShiftRightLogical(ZeroExtend(a, INT), nw), INT)
        [] op \in {"SRAW", "SRAIW"} -> ShiftRightArith(SignExtend(a, INT), nw)
        [] op \in {"SLT", "SLTI"}   -> flag(ToInt(a) < ToInt(b))
        [] OTHER                    -> flag(ToNat(a) < ToNat(b))

\* Register 0 is cleared after the operation, whatever its destination was.
ProvidedExecute(inst) ==
  /\ \/ inst.fmt_type = "FMT_RRR" /\ inst.inst_no \in RRR
     \/ inst.fmt_type = "FMT_RRI" /\ inst.inst_no \in ProvidedRRI
     \/ inst.fmt_type = "FMT_RI" /\ inst.inst_no = "LUI"
  /\ pc' = GetPc + 4
  /\ x' = [[x EXCEPT ![inst.rd] = ProvidedAluResult(inst)] EXCEPT ![0] = ZeroWord]
  /\ UNCHANGED rs

ProvidedSyscall(inst) ==
  /\ inst.inst_no = "ECALL"
  /\ inst.fmt_type = "FMT_ECALL"
  /\ Syscall = PrintState
  /\ pc' = GetPc + 4
  /\ UNCHANGED <<rs, x>>

ProvidedRaises(inst, ex) ==
  /\ inst.inst_no = "ECALL"
  /\ inst.fmt_type = "FMT_ECALL"
  /\ \/ Syscall = Exit /\ ex = "EXCEPTION_EXIT"
     \/ Syscall \notin {Exit, PrintState} /\ ex = "EXCEPTION_UNKNOWN_SYSCALL"

\* An instruction for some other handler: return 1, nothing changed.
ProvidedSkips(inst) ==
  /\ inst.inst_no # "ECALL"
  /\ \/ inst.fmt_type = "FMT_RRI" /\ inst.inst_no \notin ProvidedRRI
     \/ inst.fmt_type = "FMT_RI" /\ inst.inst_no # "LUI"
     \/ inst.fmt_type \notin {"FMT_RRR", "FMT_RRI", "FMT_RI"}

\* A failed assertion or a call of err: the process ends.
ProvidedAborts(inst) ==
  \/ inst.inst_no = "ECALL" /\ inst.fmt_type # "FMT_ECALL"
  \/ inst.inst_no # "ECALL" /\ inst.fmt_type = "FMT_RRR" /\ inst.inst_no \notin RRR

-----------------------------------------------------------------------------
(* processor_emulate_regops, whichever is linked. *)

RegopsExecute(inst) ==
  \/ HW2 = "S" /\ ExecuteS(inst)
  \/ HW2 = "P" /\ ProvidedExecute(inst)

RegopsSyscall(inst) ==
  \/ HW2 = "S" /\ SyscallS(inst)
  \/ HW2 = "P" /\ ProvidedSyscall(inst)

RegopsRaises(inst, ex) ==
  \/ HW2 = "S" /\ RaisesS(inst, ex)
  \/ HW2 = "P" /\ ProvidedRaises(inst, ex)

RegopsSkips(inst)  == HW2 = "P" /\ ProvidedSkips(inst)
RegopsAborts(inst) == HW2 = "P" /\ ProvidedAborts(inst)
=============================================================================
