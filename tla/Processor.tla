----------------------------- MODULE Processor -----------------------------
(***************************************************************************)
(* `processor_emulate` (processor.c): the loop that fetches an             *)
(* instruction, offers it to the handler of register operations and then   *)
(* to the handler of memory operations, and reports the state.  It         *)
(* composes Registers and Memory; `stage` is the point the loop has        *)
(* reached.                                                                *)
(*                                                                         *)
(* The program and the configuration are whatever the parser may produce   *)
(* and main passes on; the behaviour of the loop is checked and proved for *)
(* all of Programs and Configurations.                                     *)
(***************************************************************************)
EXTENDS Memory, Sequences

CONSTANTS
  Configurations,   \* headers and command-line options to start from
  Programs,         \* instruction arrays to start from, see At
  AllocFails,       \* which of "registers", "memory" malloc may refuse
  Garbage           \* what an instruction read outside the array may be

Stage == {"fetch", "regops", "memops", "report",
          "returned",     \* processor_emulate has returned
          "aborted"}      \* the process died: a signal, exit or an assertion

Exception == {"EXCEPTION_INSTRUCTION", "EXCEPTION_MEMORY", "EXCEPTION_EXIT",
              "EXCEPTION_UNKNOWN_SYSCALL"}

\* What the loop prints: an exception with the registers, the instruction,
\* all registers, the memory, the change of the registers.
Printout == Exception \cup {"instruction", "registers", "memory", "change"}

Configuration ==
  [instr_lower : Nat, instr_upper : Nat, entry_address : Nat, memory_sz : Nat,
   print_instrs : BOOLEAN, print_regs : BOOLEAN]

\* A parsed program placed at an address: instruction k is 4k bytes up.
At(lower, program) ==
  [k \in DOMAIN program |-> [program[k] EXCEPT !.inst_addr = lower + 4 * (k - 1)]]

ASSUME ProcessorAssumption ==
  /\ Configurations \subseteq Configuration
  /\ \A p \in Programs : p \in Seq(Instruction) /\ \A k \in DOMAIN p : WellFormed(p[k])
  /\ AllocFails \subseteq {"registers", "memory"}
  /\ HW2 = "P" => "registers" \notin AllocFails
  /\ Garbage \subseteq Instruction

VARIABLES
  cfg,        \* p->cfg
  instrs,     \* p->instrs
  stage,      \* where the loop is
  at,         \* the local variable pc: the address being executed
  i,          \* *i, the instruction being executed
  prev_rs,    \* the static array of processor_registers_print
  printed     \* what has been printed since the loop head

vars == <<regvars, memvars, cfg, instrs, stage, at, i, prev_rs, printed>>

Init ==
  /\ cfg \in Configurations
  /\ \E p \in Programs : instrs = At(cfg.instr_lower, p)
  /\ rs \in {TRUE} \cup {f \in {FALSE} : "registers" \in AllocFails}
  /\ InitRegisters(cfg.entry_address)
  /\ \E allocated \in {TRUE} \cup {f \in {FALSE} : "memory" \in AllocFails} :
       InitMemory(cfg.memory_sz, allocated)
  /\ stage = "fetch"
  /\ at = 0
  /\ i = ZeroInstruction
  /\ prev_rs = [r \in Reg |-> ZeroWord]
  /\ printed = {"registers"}

-----------------------------------------------------------------------------
(* The head of the loop: lines 20 to 27. *)

\* Mutation of Index: arrays of the model start at 1.
IndexFromZero(a) == (a - cfg.instr_lower) \div 4

\* Every instruction is four bytes.  The subtraction is `unsigned long`: an
\* address below instr_lower gives an index before the array.
Index(a) == (a - cfg.instr_lower) \div 4 + 1

OutOfBounds(a) == cfg.instr_lower > a \/ cfg.instr_upper <= a

\* The report of an address out of bounds does not leave the loop.
HeadPrints(a) ==
  {p \in {"EXCEPTION_INSTRUCTION"} : OutOfBounds(a)}
    \cup {p \in {"instruction"} : cfg.print_instrs}

\* Mutation of PrintAborts: the `break` of the ecall case is missing.
PrintFallsThrough(inst) == cfg.print_instrs /\ inst.fmt_type \in {"FMT_ECALL", "FMT_ERROR"}

\* instruction_print exits on an instruction without a format.
PrintAborts(inst) == cfg.print_instrs /\ inst.fmt_type = "FMT_ERROR"

Fetches(inst) ==
  /\ at' = GetPc
  /\ i' = inst
  /\ printed' = HeadPrints(GetPc)
  /\ stage' = IF PrintAborts(inst) THEN "aborted" ELSE "regops"
  /\ UNCHANGED <<regvars, memvars, cfg, instrs, prev_rs>>

Fetch ==
  /\ stage = "fetch"
  /\ Index(GetPc) \in DOMAIN instrs
  /\ Fetches(instrs[Index(GetPc)])

\* A pc that no parsed instruction belongs to indexes outside the array:
\* the loop executes what it finds there, or the read kills the process.
FetchOutside ==
  /\ stage = "fetch"
  /\ Index(GetPc) \notin DOMAIN instrs
  /\ \/ \E inst \in Garbage : Fetches(inst)
     \/ /\ stage' = "aborted"
        /\ at' = GetPc
        /\ printed' = HeadPrints(GetPc) \ {"instruction"}
        /\ UNCHANGED <<regvars, memvars, cfg, instrs, i, prev_rs>>

-----------------------------------------------------------------------------
(* The handlers: lines 29 to 33. *)

\* A handler returned -1: print the exception and return.
Report(ex) ==
  /\ stage' = "returned"
  /\ printed' = printed \cup {ex}
  /\ UNCHANGED <<regvars, memvars, cfg, instrs, at, i, prev_rs>>

\* A handler returned 0 or 1: the loop does not tell them apart.
Proceed(next) ==
  /\ stage' = next
  /\ UNCHANGED <<cfg, instrs, at, i, prev_rs>>

\* The process died inside a handler.
Abort ==
  /\ stage' = "aborted"
  /\ UNCHANGED <<regvars, memvars, cfg, instrs, at, i, prev_rs, printed>>

Execute ==
  /\ stage = "regops"
  /\ RegopsExecute(i)
  /\ Proceed("memops")
  /\ UNCHANGED <<memvars, printed>>

\* The object file prints the registers, registers.c does not.
SyscallPrint ==
  /\ stage = "regops"
  /\ RegopsSyscall(i)
  /\ printed' = printed \cup {p \in {"registers"} : HW2 = "P"}
  /\ Proceed("memops")
  /\ UNCHANGED memvars

RegopsException ==
  /\ stage = "regops"
  /\ \E ex \in Exception : RegopsRaises(i, ex) /\ Report(ex)

RegopsPass ==
  /\ stage = "regops"
  /\ RegopsSkips(i)
  /\ Proceed("memops")
  /\ UNCHANGED <<regvars, memvars, printed>>

RegopsAbort == stage = "regops" /\ RegopsAborts(i) /\ Abort

Store ==
  /\ stage = "memops"
  /\ MemopsStore(i)
  /\ Proceed("report")
  /\ UNCHANGED printed

Load ==
  /\ stage = "memops"
  /\ MemopsLoad(i)
  /\ Proceed("report")
  /\ UNCHANGED printed

MemopsException ==
  /\ stage = "memops"
  /\ MemopsFaults(i)
  /\ Report("EXCEPTION_MEMORY")

\* Mutation of MemopsPass: an opcode that is no load or store falls through
\* to the update of the pc.
MemopsPassMovesPc ==
  /\ stage = "memops"
  /\ MemopsSkips(i)
  /\ pc' = SetPc(NextPc)
  /\ Proceed("report")
  /\ UNCHANGED <<rs, x, memvars, printed>>

MemopsPass ==
  /\ stage = "memops"
  /\ MemopsSkips(i)
  /\ Proceed("report")
  /\ UNCHANGED <<regvars, memvars, printed>>

MemopsAbort == stage = "memops" /\ MemopsAborts(i) /\ Abort

-----------------------------------------------------------------------------
(* The end of the loop: lines 34 to 36. *)

\* processor_registers_print prints, and remembers, the first register that
\* differs from what it remembers.
Modified == {r \in Reg : GetReg(r) # prev_rs[r]}
\* Mutation of Remember: the difference is printed but not stored.
RememberNothing == prev_rs

Remember ==
  IF Modified = {} THEN prev_rs
  ELSE LET r == CHOOSE m \in Modified : \A n \in Modified : m <= n
       IN  [prev_rs EXCEPT ![r] = GetReg(r)]

EndOfLoop ==
  /\ stage = "report"
  /\ stage' = "fetch"
  /\ printed' = printed \cup {"memory"} \cup {p \in {"change"} : cfg.print_regs}
  /\ prev_rs' = IF cfg.print_regs THEN Remember ELSE prev_rs
  /\ UNCHANGED <<regvars, memvars, cfg, instrs, at, i>>

Terminated == stage \in {"returned", "aborted"} /\ UNCHANGED vars

Loop ==
  \/ Fetch \/ FetchOutside
  \/ Execute \/ SyscallPrint \/ RegopsException \/ RegopsPass \/ RegopsAbort
  \/ Store \/ Load \/ MemopsException \/ MemopsPass \/ MemopsAbort
  \/ EndOfLoop

Next == Loop \/ Terminated

Spec == Init /\ [][Next]_vars

\* The emulator is one thread that only stops by returning or dying.
FairSpec == Spec /\ WF_vars(Loop)

-----------------------------------------------------------------------------
(* Properties. *)

TypeOK ==
  /\ rs \in BOOLEAN
  /\ pc \in Nat
  /\ x \in [Reg -> Word]
  /\ mem \in BOOLEAN
  /\ size \in Nat
  /\ buffer \in Buffer(size)
  /\ cfg \in Configuration
  /\ instrs \in Seq(Instruction)
  /\ stage \in Stage
  /\ at \in Nat
  /\ i \in Instruction
  /\ prev_rs \in [Reg -> Word]
  /\ printed \subseteq Printout

\* The instruction being executed was read from the array.
FromProgram == Index(at) \in DOMAIN instrs

\* Register 0 reads as zero whatever the program makes its destination.
\* registers.c refuses the write in registers_setreg; the object file does
\* not, so a load into x0 depends on skip_write in memory.c.
X0Hardwired == x[0] = ZeroWord

\* With the register report on, the loop head is only reached with the
\* shadow copy of processor_registers_print equal to the registers: the
\* report stops at the first difference, so nothing an instruction does may
\* change two registers, or one that was left unreported before.
ShadowTracksRegisters ==
  cfg.print_regs /\ stage = "fetch" => prev_rs = x

\* Both handlers are offered every instruction, but at most one of them
\* executes it: an iteration moves the pc by one instruction or not at all.
PcMovesAtMostOnce ==
  stage \in {"memops", "report"} => GetPc \in {at, (at + 4) % (UINT_MAX + 1)}

\* An exception is precise: when the loop returns on an instruction of the
\* program, neither the pc nor a register has moved since it was fetched,
\* even if the second handler raised the exception after the first returned.
PreciseException ==
  stage = "returned" /\ FromProgram =>
    GetPc = at /\ (cfg.print_regs => prev_rs = x)

\* The instruction executed is the one the parser placed at the pc, also for
\* an entry address that is not aligned to an instruction.
FetchMatchesAddress ==
  stage \in {"regops", "memops", "report", "returned"} /\ FromProgram =>
    at \in i.inst_addr .. i.inst_addr + 3

\* While the pc stays on the program the process can only die for want of a
\* memory: every other fault ends in a reported exception.
AbortsOnlyOutsideProgram == stage = "aborted" /\ FromProgram => ~mem

\* With registers.c and a register file, the loop does not stay on the
\* program for ever.  Its only way to return is an exception, so this needs
\* every handled instruction to move the pc.
LeavesProgram ==
  rs => <>(stage \in {"returned", "aborted"} \/ (stage = "regops" /\ ~FromProgram))
=============================================================================
