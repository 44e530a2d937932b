-------------------------------- MODULE ISA --------------------------------
(***************************************************************************)
(* What the emulator promises: a machine that executes one instruction of  *)
(* the program in one step.  Registers hold numbers, memory holds numbers, *)
(* and every operation is defined by arithmetic on them, independently of  *)
(* the bit vectors, the handlers and the loop of the emulator.             *)
(*                                                                         *)
(* The promise covers programs that stay inside the instruction array and  *)
(* use no control flow.  As in the emulator, register 0 is no base for a   *)
(* memory access.                                                          *)
(***************************************************************************)
EXTENDS Integers, Sequences, Instructions, Bitwise

CONSTANTS BITS, NREGS, A7, IMMBITS

VARIABLES
  program,     \* the instructions
  lower,       \* the address of the first
  counter,     \* the address of the next instruction to execute
  regs,        \* registers, as natural numbers
  ram,         \* bytes, as natural numbers
  status       \* "running", or the exception that stopped the machine

isaVars == <<program, lower, counter, regs, ram, status>>

W     == 8 * BITS
INT   == 4 * BITS

\* The signed number written in the low w bits of v.
Signed(v, w) == LET u == v % 2^w IN IF u >= 2^(w - 1) THEN u - 2^w ELSE u

Instr  == program[(counter - lower) \div 4 + 1]
Op     == Instr.inst_no
Source == regs[Instr.rs1]
Second == IF Op \in RRR THEN regs[Instr.rs2] ELSE Instr.imm % 2^W
Write(r, v) == [regs EXCEPT ![r] = IF r = 0 THEN 0 ELSE v % 2^W]

\* An operation on 64-bit operands, as an integer to be reduced modulo 2^W.
Result ==
  LET a  == Source
      b  == Second
      s  == b % W
      sw == b % INT
  IN  CASE Op = "LUI"               -> b * 2^IMMBITS
        [] Op \in {"ADD", "ADDI"}   -> a + b
        [] Op = "SUB"               -> a - b
        [] Op \in {"OR", "ORI"}     -> a | b
        [] Op \in {"AND", "ANDI"}   -> a & b
        [] Op \in {"XOR", "XORI"}   -> a ^^ b
        [] Op \in {"SLL", "SLLI"}   -> a * 2^s
        [] Op \in {"SRL", "SRLI"}   -> a \div 2^s
        [] Op \in {"SRA", "SRAI"}   -> Signed(a, W) \div 2^s
        [] Op \in {"ADDW", "ADDIW"} -> Signed(a + b, INT)
        [] Op = "SUBW"              -> Signed(a - b, INT)
        [] Op \in {"SLLW", "SLLIW"} -> Signed(a * 2^sw, INT)
        [] Op \in {"SRLW", "SRLIW"} -> Signed((a % 2^INT) \div 2^sw, INT)
        [] Op \in {"SRAW", "SRAIW"} -> Signed(a, INT) \div 2^sw
        [] Op \in {"SLT", "SLTI"}   -> IF Signed(a, W) < Signed(b, W) THEN 1 ELSE 0
        [] Op \in {"SLTU", "SLTIU"} -> IF a < b THEN 1 ELSE 0

Arithmetic == RRR \cup {"LUI", "ADDI", "ADDIW", "SLLI", "SLLIW", "SRLI", "SRLIW",
                        "SRAI", "SRAIW", "ORI", "ANDI", "XORI", "SLTI", "SLTIU"}

\* Bytes accessed, and the address of the first.
Bytes(op) == CASE op \in {"SB", "LB", "LBU"} -> 1
               [] op \in {"SH", "LH", "LHU"} -> 2
               [] op \in {"SW", "LW", "LWU"} -> 4
               [] op \in {"SD", "LD"}        -> 8
Base   == (Source + Signed(Instr.imm, IMMBITS)) % 2^W
Access == Base .. Base + Bytes(Op) - 1

\* The number whose little-endian digits are the accessed bytes.
Loaded ==
  LET digits[k \in 0 .. Bytes(Op)] ==
        IF k = Bytes(Op) THEN 0 ELSE ram[Base + k] + 2^BITS * digits[k + 1]
  IN  IF Op \in {"LB", "LH", "LW"} THEN Signed(digits[0], BITS * Bytes(Op)) ELSE digits[0]

Valid == Instr.rs1 # 0 /\ Access \subseteq DOMAIN ram

-----------------------------------------------------------------------------
Running ==
  /\ status = "running"
  /\ counter >= lower
  /\ (counter - lower) \div 4 + 1 \in DOMAIN program

Continue == counter' = counter + 4 /\ UNCHANGED <<program, lower, status>>
Stop(ex) == status' = ex /\ UNCHANGED <<program, lower, counter, regs, ram>>

Compute ==
  /\ Running /\ Op \in Arithmetic
  /\ regs' = Write(Instr.rd, Result)
  /\ UNCHANGED ram /\ Continue

LoadStep ==
  /\ Running /\ Op \in {"LB", "LBU", "LH", "LHU", "LW", "LWU", "LD"} /\ Valid
  /\ regs' = Write(Instr.rd, Loaded)
  /\ UNCHANGED ram /\ Continue

StoreStep ==
  /\ Running /\ Op \in {"SB", "SH", "SW", "SD"} /\ Valid
  /\ ram' = [a \in DOMAIN ram |->
               IF a \in Access THEN (regs[Instr.rd] \div 2^(BITS * (a - Base))) % 2^BITS
               ELSE ram[a]]
  /\ UNCHANGED regs /\ Continue

AccessFault ==
  /\ Running /\ Op \in ROR \ {"JALR"} /\ ~Valid
  /\ Stop("EXCEPTION_MEMORY")

Ecall ==
  /\ Running /\ Op = "ECALL"
  /\ \/ regs[A7] = 23 /\ UNCHANGED <<regs, ram>> /\ Continue
     \/ regs[A7] = 2 /\ Stop("EXCEPTION_EXIT")
     \/ regs[A7] \notin {2, 23} /\ Stop("EXCEPTION_UNKNOWN_SYSCALL")

ISAInit ==
  /\ counter >= lower
  /\ regs = [r \in 0 .. NREGS - 1 |-> 0]
  /\ ram = [a \in DOMAIN ram |-> 0]
  /\ status = "running"

Step    == Compute \/ LoadStep \/ StoreStep \/ AccessFault \/ Ecall
ISASpec == ISAInit /\ [][Step]_isaVars /\ WF_isaVars(Step)
=============================================================================
