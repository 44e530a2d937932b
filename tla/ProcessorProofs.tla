--------------------------- MODULE ProcessorProofs ---------------------------
(***************************************************************************)
(* Theorems about the emulation loop, for all widths, numbers of           *)
(* registers, programs, headers and both register implementations.         *)
(***************************************************************************)
EXTENDS Processor, RegisterProofs

-----------------------------------------------------------------------------
(* The handlers yield values of the right type. *)

\* The register file of the loop is what the lemmas about it are for.
LEMMA RegistersAreTyped == TypeOK => RegistersTyped
BY DEF TypeOK, RegistersTyped

\* A load yields a word, whatever is in memory.
LEMMA LoadValueType ==
  ASSUME NEW inst
  PROVE  LoadValue(inst) \in Word
<1>. DEFINE bits == AccessSize(inst.inst_no) * BITS
            w    == [k \in Bit |-> k < bits /\ GetByte(ByteAddress(inst, k \div BITS))[k % BITS]]
<1>1. w \in Word
  BY DEF Word
<1>2. inst.inst_no \in SignedLoads => bits - 1 \in Bit
  BY BitsAssumption DEF AccessSize, SignedLoads, Bit, XLEN
<1>3. inst.inst_no \in SignedLoads => SignExtend(w, bits) \in Word
  BY <1>1, <1>2, SignExtendType
<1>. QED
  BY <1>1, <1>3 DEF LoadValue

\* A store leaves a buffer of the same size.
LEMMA StoredType ==
  ASSUME TypeOK, NEW inst \in Instruction
  PROVE  Stored(inst) \in Buffer(size)
<1>1. GetReg(inst.rd) \in Word
  BY GetRegType, RegistersAreTyped
<1>2. AccessSize(inst.inst_no) \in 1 .. 8
  BY DEF AccessSize
<1>3. ASSUME NEW a \in DOMAIN buffer
      PROVE  Stored(inst)[a] \in Byte
  <2>. DEFINE bytes == {n \in 0 .. AccessSize(inst.inst_no) - 1 : ByteAddress(inst, n) = a}
  <2>1. Stored(inst)[a] = IF bytes = {} THEN buffer[a]
                          ELSE ByteOf(GetReg(inst.rd), CHOOSE n \in bytes : TRUE)
    BY DEF Stored
  <2>2. bytes \subseteq 0 .. 7
    BY <1>2
  <2>3. bytes # {} => (CHOOSE n \in bytes : TRUE) \in 0 .. 7
    BY <2>2
  <2>4. bytes # {} => ByteOf(GetReg(inst.rd), CHOOSE n \in bytes : TRUE) \in Byte
    BY <1>1, <2>3, ByteOfType
  <2>. QED
    BY <2>1, <2>4 DEF TypeOK, Buffer
<1>. QED
  BY <1>3 DEF Stored, TypeOK, Buffer

-----------------------------------------------------------------------------
(***************************************************************************)
(* The inductive invariant.  The properties of interest speak of the loop  *)
(* head and of the state in which the loop returned; to reach them, one    *)
(* must know at each point of the iteration what has happened since the    *)
(* fetch.  The key is Untouched: an instruction that the memory handler    *)
(* may still execute or refuse has not been executed by the register       *)
(* handler.                                                                *)
(***************************************************************************)

\* A register file that was not allocated is never written, and the object
\* file always has one.
Allocation ==
  /\ HW2 = "P" => rs
  /\ ~rs => x = [r \in Reg |-> ZeroWord] /\ prev_rs = [r \in Reg |-> ZeroWord]

\* The array is what the parser made of the program.
Placed ==
  \A k \in DOMAIN instrs : /\ WellFormed(instrs[k])
                           /\ instrs[k].inst_addr = cfg.instr_lower + 4 * (k - 1)

\* The instruction in hand is the one the index selects.
InHand ==
  stage # "fetch" /\ stage # "aborted" /\ FromProgram => i = instrs[Index(at)]

\* The memory handler has work to do, or to refuse, on this instruction.
ForMemops == i.fmt_type = "FMT_ROR" /\ (i.inst_no \in Loads \cup Stores \/ WellFormed(i))

\* Nothing has changed since the instruction was fetched.
Untouched == GetPc = at /\ (cfg.print_regs => prev_rs = x)

OneRegisterDiffers == \E r \in Reg : \A q \in Reg \ {r} : prev_rs[q] = x[q]

Progress ==
  /\ stage = "fetch" => (cfg.print_regs => prev_rs = x)
  /\ stage = "regops" => Untouched
  /\ stage = "memops" /\ ForMemops => Untouched
  /\ stage \in {"memops", "report"} =>
       /\ GetPc \in {at, (at + 4) % (UINT_MAX + 1)}
       /\ cfg.print_regs => OneRegisterDiffers
  /\ stage = "returned" /\ FromProgram => Untouched

Inv ==
  /\ TypeOK
  /\ X0Hardwired
  /\ Allocation
  /\ Placed
  /\ InHand
  /\ Progress
  /\ AbortsOnlyOutsideProgram

-----------------------------------------------------------------------------
(* The program counter. *)

\* A step that advances the pc leaves the loop at the instruction it was at,
\* or at the next one.
LEMMA PcAdvances ==
  ASSUME TypeOK, GetPc = at, UNCHANGED rs,
         \/ pc' = SetPc(NextPc)
         \/ rs /\ pc' = GetPc + 4
  PROVE  pc' \in Nat /\ GetPc' \in {at, (at + 4) % (UINT_MAX + 1)}
BY RegistersAreTyped, PcMoves DEF NextPc

\* An index inside the array determines the address up to its alignment.
LEMMA IndexAddress ==
  ASSUME NEW a \in Nat, NEW l \in Nat, NEW k \in Nat, k = (a - l) \div 4 + 1
  PROVE  a \in l + 4 * (k - 1) .. l + 4 * (k - 1) + 3
OBVIOUS

-----------------------------------------------------------------------------
(* The initial states. *)

LEMMA InitInv == Init => Inv
<1>. SUFFICES ASSUME Init
              PROVE  Inv
  OBVIOUS
<1>. USE DEF Init
<1>1. PICK p \in Programs : instrs = At(cfg.instr_lower, p)
  OBVIOUS
<1>2. cfg \in Configuration
  BY ProcessorAssumption
<1>3. p \in Seq(Instruction) /\ \A k \in DOMAIN p : WellFormed(p[k])
  BY ProcessorAssumption
<1>4. DOMAIN p = 1 .. Len(p) /\ Len(p) \in Nat
  BY <1>3
<1>5. ASSUME NEW k \in DOMAIN p
      PROVE  /\ At(cfg.instr_lower, p)[k] \in Instruction
             /\ At(cfg.instr_lower, p)[k].inst_no = p[k].inst_no
             /\ At(cfg.instr_lower, p)[k].fmt_type = p[k].fmt_type
             /\ At(cfg.instr_lower, p)[k].inst_addr = cfg.instr_lower + 4 * (k - 1)
  <2>1. p[k] \in Instruction
    BY <1>3, <1>4
  <2>2. cfg.instr_lower + 4 * (k - 1) \in Nat
    BY <1>2, <1>4 DEF Configuration
  <2>3. At(cfg.instr_lower, p)[k] = [p[k] EXCEPT !.inst_addr = cfg.instr_lower + 4 * (k - 1)]
    BY DEF At
  <2>. QED
    BY <2>1, <2>2, <2>3 DEF Instruction
<1>6. instrs \in Seq(Instruction)
  BY <1>1, <1>3, <1>4, <1>5 DEF At
<1>7. Placed
  BY <1>1, <1>3, <1>5 DEF Placed, At, WellFormed
<1>8. PICK allocated \in BOOLEAN : InitMemory(cfg.memory_sz, allocated)
  OBVIOUS
<1>9. mem \in BOOLEAN /\ size \in Nat /\ buffer \in Buffer(size)
  BY <1>2, <1>8 DEF InitMemory, Configuration, Buffer, Byte, ZeroByte
<1>10. x = [r \in Reg |-> ZeroWord] /\ pc \in Nat
  BY <1>2 DEF InitRegisters, Configuration
<1>11. ZeroWord \in Word
  BY DEF ZeroWord, Word
<1>12. TypeOK
  <2>1. ZeroInstruction \in Instruction
    BY DEF ZeroInstruction, Instruction, Opcode, Format
  <2>. QED
    BY <1>2, <1>6, <1>9, <1>10, <1>11, <2>1 DEF TypeOK, Stage, Printout
<1>13. X0Hardwired
  BY <1>10, RegistersAssumption DEF X0Hardwired, Reg
<1>14. Allocation
  BY <1>10, ProcessorAssumption DEF Allocation
<1>. QED
  BY <1>7, <1>10, <1>12, <1>13, <1>14 DEF Inv, InHand, Progress, AbortsOnlyOutsideProgram

-----------------------------------------------------------------------------
(* The steps. *)

\* An instruction the parser accepted can be printed.
LEMMA WellFormedPrints ==
  ASSUME NEW inst \in Instruction, WellFormed(inst)
  PROVE  inst.fmt_type # "FMT_ERROR"
BY DEF WellFormed, instr_format, Instruction, Opcode

\* An operation on registers is never one for the memory handler.
LEMMA ExecutedIsNotForMemops ==
  ASSUME TypeOK, RegopsExecute(i) \/ RegopsSyscall(i)
  PROVE  ~ForMemops
<1>1. i.inst_no \in ExecutedOps => i.inst_no \notin ROR /\ i.inst_no \notin Loads \cup Stores
  BY DEF ExecutedOps, RegisterOps, ImmediateOps, ROR, Loads, SignedLoads, Stores
<1>2. WellFormed(i) /\ i.fmt_type = "FMT_ROR" => i.inst_no \in ROR
  BY DEF WellFormed, instr_format
<1>. QED
  BY <1>1, <1>2 DEF ForMemops, RegopsExecute, RegopsSyscall, ExecuteS, SyscallS,
                    ProvidedExecute, ProvidedSyscall

\* What a register operation does to the register file.
LEMMA ExecuteChanges ==
  ASSUME Inv, RegopsExecute(i)
  PROVE  /\ x' \in [Reg -> Word]
         /\ x'[0] = ZeroWord
         /\ DiffersInOne(x')
         /\ UNCHANGED rs
         /\ ~rs => x' = x
         /\ pc' = SetPc(NextPc) \/ (rs /\ pc' = GetPc + 4)
<1>. TypeOK /\ X0Hardwired /\ Allocation
  BY DEF Inv
<1>. RegistersTyped
  BY RegistersAreTyped
<1>1. CASE HW2 = "S" /\ ExecuteS(i)
  BY <1>1, ExecuteChangesS DEF X0Hardwired
<1>2. CASE HW2 = "P" /\ ProvidedExecute(i)
  <2>1. x' = [[x EXCEPT ![i.rd] = ProvidedAluResult(i)] EXCEPT ![0] = ZeroWord]
    BY <1>2 DEF ProvidedExecute
  <2>2. ProvidedAluResult(i) \in Word /\ ZeroWord \in Word
    BY ProvidedAluResultType DEF ZeroWord, Word
  <2>3. 0 \in Reg
    BY RegistersAssumption DEF Reg
  <2>4. x' \in [Reg -> Word] /\ x'[0] = ZeroWord
    BY <2>1, <2>2, <2>3 DEF TypeOK
  <2>5. \A q \in Reg \ {i.rd} : x'[q] = x[q]
    BY <2>1, <2>3 DEF TypeOK, X0Hardwired
  <2>6. DiffersInOne(x')
    BY <2>3, <2>5 DEF DiffersInOne
  <2>7. rs /\ UNCHANGED rs /\ pc' = GetPc + 4
    BY <1>2 DEF ProvidedExecute, Allocation
  <2>. QED
    BY <2>4, <2>6, <2>7
<1>. QED
  BY <1>1, <1>2 DEF RegopsExecute

\* The loop head, inside or outside the array.
LEMMA FetchesInv ==
  ASSUME Inv, stage = "fetch", NEW inst \in Instruction, Fetches(inst),
         Index(GetPc) \in DOMAIN instrs => inst = instrs[Index(GetPc)]
  PROVE  Inv'
<1>. USE DEF Inv, Fetches, regvars, memvars
<1>1. GetPc \in Nat /\ GetPc' = GetPc /\ at' = GetPc
  BY GetPcRange, RegistersAreTyped, RegistersAssumption DEF GetPc
<1>2. FromProgram' => inst = instrs[Index(GetPc)] /\ WellFormed(inst)
  BY <1>1 DEF FromProgram, Index, Placed
<1>3. TypeOK'
  BY <1>1 DEF TypeOK, Stage, HeadPrints, Printout, Exception
<1>4. X0Hardwired' /\ Allocation' /\ Placed'
  BY DEF X0Hardwired, Allocation, Placed
<1>5. InHand'
  BY <1>1, <1>2 DEF InHand, Index
<1>6. Progress'
  BY <1>1 DEF Progress, Untouched
<1>7. AbortsOnlyOutsideProgram'
  BY <1>2, WellFormedPrints DEF AbortsOnlyOutsideProgram, PrintAborts
<1>. QED
  BY <1>3, <1>4, <1>5, <1>6, <1>7

\* An exception raised before anything changed.
LEMMA ReportInv ==
  ASSUME Inv, stage \in {"regops", "memops"}, NEW ex \in Exception, Report(ex),
         FromProgram => Untouched
  PROVE  Inv'
<1>. USE DEF Inv, Report, regvars, memvars
<1>1. TypeOK'
  BY DEF TypeOK, Stage, Printout
<1>2. X0Hardwired' /\ Allocation' /\ Placed'
  BY DEF X0Hardwired, Allocation, Placed
<1>3. InHand' /\ AbortsOnlyOutsideProgram'
  BY DEF InHand, AbortsOnlyOutsideProgram, FromProgram, Index
<1>4. Progress'
  BY DEF Progress, Untouched, GetPc, FromProgram, Index
<1>. QED
  BY <1>1, <1>2, <1>3, <1>4

\* The process dies outside the program or for want of a memory.
LEMMA AbortInv ==
  ASSUME Inv, Abort, FromProgram => ~mem
  PROVE  Inv'
<1>. USE DEF Inv, Abort, regvars, memvars
<1>1. TypeOK'
  BY DEF TypeOK, Stage
<1>2. X0Hardwired' /\ Allocation' /\ Placed'
  BY DEF X0Hardwired, Allocation, Placed
<1>3. InHand' /\ Progress' /\ AbortsOnlyOutsideProgram'
  BY DEF InHand, Progress, AbortsOnlyOutsideProgram, FromProgram, Index
<1>. QED
  BY <1>1, <1>2, <1>3

\* A step into the memory handler: whatever the register handler did to the
\* pc and at most one register, it was not an instruction of memory.c.
LEMMA ExecuteInv == ASSUME Inv, Execute PROVE Inv'
<1>. USE DEF Execute, Proceed, memvars
<1>. TypeOK /\ stage = "regops" /\ Allocation /\ Placed /\ InHand
  BY DEF Inv
<1>. RegopsExecute(i) /\ stage' = "memops"
  OBVIOUS
<1>1. /\ x' \in [Reg -> Word] /\ x'[0] = ZeroWord /\ DiffersInOne(x') /\ rs' = rs
      /\ ~rs => x' = x
      /\ pc' = SetPc(NextPc) \/ (rs /\ pc' = GetPc + 4)
  BY ExecuteChanges
<1>2. Untouched
  BY DEF Inv, Progress
<1>3. pc' \in Nat /\ GetPc' \in {at, (at + 4) % (UINT_MAX + 1)}
  BY <1>1, <1>2, PcAdvances DEF Untouched
<1>4. TypeOK'
  BY <1>1, <1>3 DEF TypeOK, Stage
<1>5. X0Hardwired' /\ Placed' /\ Allocation'
  BY <1>1 DEF X0Hardwired, Placed, Allocation
<1>6. InHand' /\ AbortsOnlyOutsideProgram'
  BY DEF InHand, AbortsOnlyOutsideProgram, FromProgram, Index
<1>7. ~ForMemops'
  BY ExecutedIsNotForMemops DEF ForMemops
<1>8. (cfg.print_regs => OneRegisterDiffers)'
  BY <1>1, <1>2 DEF OneRegisterDiffers, DiffersInOne, Untouched
<1>. QED
  BY <1>3, <1>4, <1>5, <1>6, <1>7, <1>8 DEF Inv, Progress

\* System call 23 moves the pc and no register.
LEMMA SyscallInv == ASSUME Inv, SyscallPrint PROVE Inv'
<1>. USE DEF SyscallPrint, Proceed, memvars
<1>. TypeOK /\ stage = "regops" /\ Allocation /\ Placed /\ InHand /\ X0Hardwired
  BY DEF Inv
<1>. RegopsSyscall(i) /\ stage' = "memops"
  OBVIOUS
<1>1. /\ rs' = rs /\ x' = x
      /\ pc' = SetPc(NextPc) \/ (rs /\ pc' = GetPc + 4)
  BY DEF RegopsSyscall, SyscallS, ProvidedSyscall, Allocation
<1>2. Untouched
  BY DEF Inv, Progress
<1>3. pc' \in Nat /\ GetPc' \in {at, (at + 4) % (UINT_MAX + 1)}
  BY <1>1, <1>2, PcAdvances DEF Untouched
<1>4. TypeOK'
  BY <1>1, <1>3 DEF TypeOK, Stage, Printout
<1>5. X0Hardwired' /\ Placed' /\ Allocation'
  BY <1>1 DEF X0Hardwired, Placed, Allocation
<1>6. InHand' /\ AbortsOnlyOutsideProgram'
  BY DEF InHand, AbortsOnlyOutsideProgram, FromProgram, Index
<1>7. ~ForMemops'
  BY ExecutedIsNotForMemops DEF ForMemops
<1>8. (cfg.print_regs => OneRegisterDiffers)'
  BY <1>1, <1>2, RegistersAssumption DEF OneRegisterDiffers, Untouched, Reg
<1>. QED
  BY <1>3, <1>4, <1>5, <1>6, <1>7, <1>8 DEF Inv, Progress

\* An instruction of the program is well formed.
LEMMA ProgramIsWellFormed ==
  ASSUME Inv, FromProgram, stage \notin {"fetch", "aborted"}
  PROVE  WellFormed(i)
BY DEF Inv, InHand, Placed, FromProgram

\* The register handler raises exceptions before it changes anything.
LEMMA RegopsExceptionInv == ASSUME Inv, RegopsException PROVE Inv'
<1>1. PICK ex \in Exception : RegopsRaises(i, ex) /\ Report(ex)
  BY DEF RegopsException
<1>2. Untouched
  BY DEF RegopsException, Inv, Progress
<1>. QED
  BY <1>1, <1>2, ReportInv DEF RegopsException

\* So does the memory handler, on an instruction of the program: what it
\* refuses has the format of a load or store.
LEMMA MemopsExceptionInv == ASSUME Inv, MemopsException PROVE Inv'
<1>. USE DEF MemopsException
<1>1. i.fmt_type = "FMT_ROR"
  BY DEF MemopsFaults
<1>2. FromProgram => ForMemops
  BY <1>1, ProgramIsWellFormed DEF ForMemops
<1>3. FromProgram => Untouched
  BY <1>2 DEF Inv, Progress
<1>. QED
  BY <1>3, ReportInv DEF Exception

\* An instruction for the memory handler passes the register handler.
LEMMA RegopsPassInv == ASSUME Inv, RegopsPass PROVE Inv'
<1>. USE DEF RegopsPass, Proceed, regvars, memvars
<1>1. TypeOK'
  BY DEF Inv, TypeOK, Stage
<1>2. X0Hardwired' /\ Placed' /\ Allocation'
  BY DEF Inv, X0Hardwired, Placed, Allocation
<1>3. InHand' /\ AbortsOnlyOutsideProgram'
  BY DEF Inv, InHand, AbortsOnlyOutsideProgram, FromProgram, Index
<1>4. Untouched /\ Untouched' /\ GetPc' = GetPc
  BY DEF Inv, Progress, Untouched, GetPc
<1>5. (cfg.print_regs => OneRegisterDiffers)'
  BY <1>4, RegistersAssumption DEF OneRegisterDiffers, Untouched, Reg
<1>. QED
  BY <1>1, <1>2, <1>3, <1>4, <1>5 DEF Inv, Progress, Untouched

\* The object file only asserts on instructions no parser yields.
LEMMA RegopsAbortInv == ASSUME Inv, RegopsAbort PROVE Inv'
<1>1. ~WellFormed(i)
  BY DEF RegopsAbort, RegopsAborts, ProvidedAborts, WellFormed, instr_format, RRR, RRI, RI, ROR
<1>2. ~FromProgram
  BY <1>1, ProgramIsWellFormed DEF RegopsAbort
<1>. QED
  BY <1>2, AbortInv DEF RegopsAbort

\* A load or store is untouched until the memory handler executes it.
LEMMA AccessUntouched ==
  ASSUME Inv, stage = "memops", Accesses(i)
  PROVE  Untouched
BY DEF Inv, Progress, ForMemops, Accesses, IsMemop

\* A store changes the buffer and moves the pc.
LEMMA StoreInv == ASSUME Inv, Store PROVE Inv'
<1>. USE DEF Store, MemopsStore, Proceed
<1>1. TypeOK /\ Untouched
  BY AccessUntouched DEF Inv
<1>2. Stored(i) \in Buffer(size)
  BY <1>1, StoredType DEF TypeOK
<1>3. pc' \in Nat /\ GetPc' \in {at, (at + 4) % (UINT_MAX + 1)}
  BY <1>1, PcAdvances DEF Untouched
<1>4. TypeOK'
  BY <1>1, <1>2, <1>3 DEF TypeOK, Stage
<1>5. X0Hardwired' /\ Placed' /\ Allocation'
  BY DEF Inv, X0Hardwired, Placed, Allocation
<1>6. InHand' /\ AbortsOnlyOutsideProgram'
  BY DEF Inv, InHand, AbortsOnlyOutsideProgram, FromProgram, Index
<1>7. (cfg.print_regs => OneRegisterDiffers)'
  BY <1>1, RegistersAssumption DEF OneRegisterDiffers, Untouched, Reg
<1>. QED
  BY <1>3, <1>4, <1>5, <1>6, <1>7 DEF Inv, Progress

\* A load changes one register that is not x0, or none, and moves the pc.
LEMMA LoadInv == ASSUME Inv, Load PROVE Inv'
<1>. USE DEF Load, MemopsLoad, Proceed
<1>1. TypeOK /\ Untouched /\ X0Hardwired /\ Allocation
  BY AccessUntouched DEF Inv
<1>2. LoadValue(i) \in Word
  BY LoadValueType
<1>3. SetReg(i.rd, LoadValue(i)) \in [Reg -> Word]
  BY <1>1, <1>2, SetRegType, RegistersAreTyped
<1>4. pc' \in Nat /\ GetPc' \in {at, (at + 4) % (UINT_MAX + 1)}
  BY <1>1, PcAdvances DEF Untouched
<1>5. x' \in [Reg -> Word] /\ x'[0] = x[0] /\ DiffersInOne(x')
  <2>1. CASE i.rd = 0
    BY <1>1, <2>1, RegistersAssumption DEF TypeOK, DiffersInOne, Reg
  <2>2. CASE i.rd # 0
    BY <1>1, <1>3, <2>2, SetRegChanges, RegistersAreTyped
  <2>. QED
    BY <2>1, <2>2
<1>6. ~rs => x' = x
  BY <1>1, RegistersAssumption DEF SetReg, SetRegS, Allocation
<1>7. TypeOK'
  BY <1>1, <1>4, <1>5 DEF TypeOK, Stage
<1>8. X0Hardwired' /\ Placed' /\ Allocation'
  BY <1>5, <1>6 DEF Inv, X0Hardwired, Placed, Allocation
<1>9. InHand' /\ AbortsOnlyOutsideProgram'
  BY DEF Inv, InHand, AbortsOnlyOutsideProgram, FromProgram, Index
<1>10. (cfg.print_regs => OneRegisterDiffers)'
  BY <1>1, <1>5 DEF OneRegisterDiffers, Untouched, DiffersInOne
<1>. QED
  BY <1>4, <1>7, <1>8, <1>9, <1>10 DEF Inv, Progress

\* What is no load or store passes the memory handler.
LEMMA MemopsPassInv == ASSUME Inv, MemopsPass PROVE Inv'
<1>. USE DEF MemopsPass, Proceed, regvars, memvars
<1>1. TypeOK'
  BY DEF Inv, TypeOK, Stage
<1>2. X0Hardwired' /\ Placed' /\ Allocation'
  BY DEF Inv, X0Hardwired, Placed, Allocation
<1>3. InHand' /\ AbortsOnlyOutsideProgram'
  BY DEF Inv, InHand, AbortsOnlyOutsideProgram, FromProgram, Index
<1>4. GetPc' = GetPc /\ (OneRegisterDiffers' <=> OneRegisterDiffers)
  BY DEF GetPc, OneRegisterDiffers
<1>. QED
  BY <1>1, <1>2, <1>3, <1>4 DEF Inv, Progress

\* Only a missing memory ends the process in the memory handler.
LEMMA MemopsAbortInv == ASSUME Inv, MemopsAbort PROVE Inv'
BY AbortInv DEF MemopsAbort, MemopsAborts

\* The loop head, on the program.
LEMMA FetchInv == ASSUME Inv, Fetch PROVE Inv'
<1>1. instrs[Index(GetPc)] \in Instruction
  BY DEF Fetch, Inv, TypeOK
<1>. QED
  BY <1>1, FetchesInv DEF Fetch

\* The loop head, outside the program.
LEMMA FetchOutsideInv == ASSUME Inv, FetchOutside PROVE Inv'
<1>. stage = "fetch" /\ Index(GetPc) \notin DOMAIN instrs
  BY DEF FetchOutside
<1>1. CASE \E inst \in Garbage : Fetches(inst)
  BY <1>1, FetchesInv, ProcessorAssumption
<1>2. CASE /\ stage' = "aborted"
           /\ at' = GetPc
           /\ printed' = HeadPrints(GetPc) \ {"instruction"}
           /\ UNCHANGED <<regvars, memvars, cfg, instrs, i, prev_rs>>
  <2>. USE <1>2 DEF regvars, memvars
  <2>1. GetPc \in Nat
    BY GetPcRange, RegistersAreTyped, RegistersAssumption DEF Inv
  <2>2. TypeOK'
    BY <2>1 DEF Inv, TypeOK, Stage, HeadPrints, Printout, Exception
  <2>3. X0Hardwired' /\ Placed' /\ Allocation'
    BY DEF Inv, X0Hardwired, Placed, Allocation
  <2>4. ~FromProgram'
    BY DEF FromProgram, Index
  <2>. QED
    BY <2>2, <2>3, <2>4 DEF Inv, InHand, Progress, AbortsOnlyOutsideProgram
<1>. QED
  BY <1>1, <1>2 DEF FetchOutside

\* The report copies the one register that may differ.
LEMMA RememberCatchesUp ==
  ASSUME TypeOK, Allocation, OneRegisterDiffers
  PROVE  Remember = x
<1>1. prev_rs \in [Reg -> Word] /\ x \in [Reg -> Word]
  BY DEF TypeOK
<1>2. ASSUME NEW q \in Reg
      PROVE  GetReg(q) = x[q]
  BY <1>1, <1>2, RegistersAssumption DEF GetReg, Allocation, Reg
<1>3. PICK r \in Reg : \A q \in Reg \ {r} : prev_rs[q] = x[q]
  BY DEF OneRegisterDiffers
<1>4. Modified \subseteq {r}
  BY <1>2, <1>3 DEF Modified
<1>5. CASE Modified = {}
  <2>1. \A q \in Reg : prev_rs[q] = x[q]
    BY <1>2, <1>5 DEF Modified
  <2>. QED
    BY <1>1, <1>5, <2>1 DEF Remember
<1>6. CASE Modified = {r}
  <2>1. (CHOOSE m \in Modified : \A n \in Modified : m <= n) = r
    BY <1>6 DEF Reg
  <2>2. Remember = [prev_rs EXCEPT ![r] = x[r]]
    BY <1>2, <1>6, <2>1 DEF Remember
  <2>. QED
    BY <1>1, <1>3, <2>2
<1>. QED
  BY <1>4, <1>5, <1>6

\* The end of an iteration.
LEMMA EndOfLoopInv == ASSUME Inv, EndOfLoop PROVE Inv'
<1>. USE DEF EndOfLoop, regvars, memvars
<1>1. TypeOK /\ Allocation /\ Progress
  BY DEF Inv
<1>2. cfg.print_regs => prev_rs' = x
  BY <1>1, RememberCatchesUp DEF Progress
<1>3. prev_rs' \in [Reg -> Word]
  BY <1>1, <1>2 DEF TypeOK
<1>4. TypeOK'
  BY <1>1, <1>3 DEF TypeOK, Stage, Printout
<1>5. Allocation'
  BY <1>1, <1>2 DEF Allocation
<1>6. X0Hardwired' /\ Placed' /\ InHand' /\ AbortsOnlyOutsideProgram'
  BY DEF Inv, X0Hardwired, Placed, InHand, AbortsOnlyOutsideProgram
<1>. QED
  BY <1>2, <1>4, <1>5, <1>6 DEF Inv, Progress

\* No step leaves the invariant.
LEMMA NextInv == Inv /\ [Next]_vars => Inv'
<1>. SUFFICES ASSUME Inv, [Next]_vars
              PROVE  Inv'
  OBVIOUS
<1>1. CASE Fetch
  BY <1>1, FetchInv
<1>2. CASE FetchOutside
  BY <1>2, FetchOutsideInv
<1>3. CASE Execute
  BY <1>3, ExecuteInv
<1>4. CASE SyscallPrint
  BY <1>4, SyscallInv
<1>5. CASE RegopsException
  BY <1>5, RegopsExceptionInv
<1>6. CASE RegopsPass
  BY <1>6, RegopsPassInv
<1>7. CASE RegopsAbort
  BY <1>7, RegopsAbortInv
<1>8. CASE Store
  BY <1>8, StoreInv
<1>9. CASE Load
  BY <1>9, LoadInv
<1>10. CASE MemopsException
  BY <1>10, MemopsExceptionInv
<1>11. CASE MemopsPass
  BY <1>11, MemopsPassInv
<1>12. CASE MemopsAbort
  BY <1>12, MemopsAbortInv
<1>13. CASE EndOfLoop
  BY <1>13, EndOfLoopInv
<1>14. CASE UNCHANGED vars
  <2>. USE <1>14 DEF vars, regvars, memvars
  <2>1. TypeOK' /\ X0Hardwired' /\ Allocation' /\ Placed'
    BY DEF Inv, TypeOK, X0Hardwired, Allocation, Placed
  <2>2. InHand' /\ AbortsOnlyOutsideProgram'
    BY DEF Inv, InHand, AbortsOnlyOutsideProgram, FromProgram, Index
  <2>3. Progress'
    BY DEF Inv, Progress, Untouched, ForMemops, OneRegisterDiffers, GetPc, FromProgram, Index
  <2>. QED
    BY <2>1, <2>2, <2>3 DEF Inv
<1>. QED
  BY <1>1, <1>2, <1>3, <1>4, <1>5, <1>6, <1>7, <1>8, <1>9, <1>10, <1>11, <1>12,
     <1>13, <1>14 DEF Next, Loop, Terminated

\* The invariant holds in every reachable state.
LEMMA SpecInv == Spec => []Inv
<1>1. Init => Inv
  BY InitInv
<1>2. Inv /\ [Next]_vars => Inv'
  BY NextInv
<1>. QED
  BY <1>1, <1>2, PTL DEF Spec

\* The instruction selected is at most three bytes below the pc.
LEMMA InvFetchMatches == Inv => FetchMatchesAddress
<1>. SUFFICES ASSUME Inv, stage \notin {"fetch", "aborted"}, FromProgram
              PROVE  at \in i.inst_addr .. i.inst_addr + 3
  BY DEF FetchMatchesAddress
<1>. DEFINE k == Index(at)
<1>1. k \in DOMAIN instrs /\ k \in Nat
  BY DEF Inv, TypeOK, FromProgram
<1>2. i.inst_addr = cfg.instr_lower + 4 * (k - 1)
  BY <1>1 DEF Inv, InHand, Placed
<1>3. at \in Nat /\ cfg.instr_lower \in Nat
  BY DEF Inv, TypeOK, Configuration
<1>4. at \in cfg.instr_lower + 4 * (k - 1) .. cfg.instr_lower + 4 * (k - 1) + 3
  BY <1>1, <1>3, IndexAddress DEF Index
<1>. QED
  BY <1>2, <1>4

-----------------------------------------------------------------------------
(* The theorems. *)

\* Registers, pc and memory keep their widths and sizes whatever the program
\* does, also when it runs on what it finds outside the array.
THEOREM TypeCorrect == Spec => []TypeOK
<1>1. Inv => TypeOK
  BY DEF Inv
<1>. QED
  BY <1>1, SpecInv, PTL

\* x0 is zero with either register implementation: registers_setreg of
\* registers.c guards it, and with the object file the handlers never leave
\* another value in it.
THEOREM ZeroRegister == Spec => []X0Hardwired
<1>1. Inv => X0Hardwired
  BY DEF Inv
<1>. QED
  BY <1>1, SpecInv, PTL

\* At the loop head the report of processor_registers_print is complete: no
\* iteration changes more registers than the one the report looks for.
THEOREM ReportIsComplete == Spec => []ShadowTracksRegisters
<1>1. Inv => ShadowTracksRegisters
  BY DEF Inv, Progress, ShadowTracksRegisters
<1>. QED
  BY <1>1, SpecInv, PTL

\* No instruction is executed by both handlers.
THEOREM OneHandlerExecutes == Spec => []PcMovesAtMostOnce
<1>1. Inv => PcMovesAtMostOnce
  BY DEF Inv, Progress, PcMovesAtMostOnce
<1>. QED
  BY <1>1, SpecInv, PTL

\* An exception on an instruction of the program leaves the pc on it and the
\* registers as they were, whichever handler raised it.
THEOREM ExceptionsArePrecise == Spec => []PreciseException
<1>1. Inv => PreciseException
  BY DEF Inv, Progress, PreciseException, Untouched
<1>. QED
  BY <1>1, SpecInv, PTL

\* The loop executes the instruction that the parser placed at the pc.
THEOREM FetchIsCorrect == Spec => []FetchMatchesAddress
BY InvFetchMatches, SpecInv, PTL

\* On the program, only an access without a memory ends the process.
THEOREM FaultsAreReported == Spec => []AbortsOnlyOutsideProgram
<1>1. Inv => AbortsOnlyOutsideProgram
  BY DEF Inv
<1>. QED
  BY <1>1, SpecInv, PTL
=============================================================================
