----------------------------- MODULE Phase2Proofs -----------------------------
(***************************************************************************)
(* Theorems about the program of phase 2 from its command line to the end  *)
(* of its loop, for every file, option, width and number of registers, and *)
(* whatever lies in memory behind the program.                             *)
(***************************************************************************)
EXTENDS Phase2, LoaderProofs, RegisterProofs

-----------------------------------------------------------------------------
(***************************************************************************)
(* The inductive invariant.  ExecutesTheFile relates the instruction in    *)
(* hand to the text, and nothing of the text is left in an instruction but *)
(* its opcode and its operands; the link between the two is the comparison *)
(* at the end of the loader, which is long over when the loop runs.  So    *)
(* its outcome is part of the invariant (SameAsText), with what the index  *)
(* selects (InHand2).  ReportsEveryChange speaks of the loop head, and     *)
(* needs to know that one iteration changes one register at most, which is *)
(* as many as one report catches up with (Shown).                          *)
(***************************************************************************)

\* The loop runs on what the loader accepted.
RunsAccepted == loop # "loading" => stage = "accepted"

\* Only an empty array is accepted without a comparison that succeeded.
SameAsText == stage = "accepted" /\ instrs # <<>> => SameText

\* The instruction in hand is the one the index selects.
InHand2 ==
  loop \in {"regops", "report", "returned"} /\ Index2(at) \in DOMAIN instrs =>
    i = instrs[Index2(at)]

\* The report is up to date, or behind by the instruction just executed.
Shown ==
  /\ PrintRegs /\ loop \in {"loading", "fetch", "regops", "returned"} => prev_rs = x
  /\ PrintRegs /\ loop = "report" => \E r \in Reg : \A q \in Reg \ {r} : prev_rs[q] = x[q]

Started == loop = "loading" => x = [r \in Reg |-> ZeroWord]

\* Without a register file every register reads as zero, and is zero here.
NoFileIsZero == ~rs => x = [r \in Reg |-> ZeroWord]

Inv2 ==
  /\ LoadInv
  /\ TypeOK2
  /\ phase = 2
  /\ RunsAccepted
  /\ SameAsText
  /\ InHand2
  /\ Started
  /\ NoFileIsZero
  /\ Shown

\* The register file is what the lemmas about it are for.
LEMMA RegistersAreTyped2 == TypeOK2 => RegistersTyped
BY DEF TypeOK2, RegistersTyped

\* An instruction that memory which was never written may hold.
LEMMA ZeroFacts == ZeroInstruction \in Parsed /\ ZeroWord \in Word
BY TextAssumption DEF ZeroInstruction, Parsed, Opcode, Format, Int32, ZeroWord, Word

LEMMA Init2Inv == Init2 => Inv2
<1>. SUFFICES ASSUME Init2 PROVE Inv2
  OBVIOUS
<1>. USE DEF Init2, InitRegisters
<1>1. LoadInv /\ LoadTypeOK
  BY LoadInitInv DEF LoadInv
<1>2. TypeOK2
  BY <1>1, ZeroFacts DEF TypeOK2
<1>3. stage # "accepted" /\ phase = 2
  BY Phase2Assumption DEF LoadInit
<1>. QED
  BY <1>1, <1>2, <1>3 DEF Inv2, RunsAccepted, SameAsText, InHand2, Started, NoFileIsZero, Shown

-----------------------------------------------------------------------------
(* The loader. *)

\* The loader ends where it has accepted the program.
LEMMA AcceptedIsOver == LoadStep => stage # "accepted"
BY DEF LoadStep, Read, ReadError, EndOfFile, ParseHeader, HeaderAbort, SplitLines, SplitAbort,
   ParseLine, SkipLine, LinesParsed, ValidateHeader, Phase2Lines, Phase2Abort, Phase2Line,
   Phase2Parsed, StringifyExits, Accept, Reject, CompareNothing

\* It gets there by the comparison, or without an instruction.
LEMMA AcceptedBecauseSame ==
  ASSUME LoadStep, stage' = "accepted"
  PROVE  instrs' = instrs /\ text' = text /\ (instrs # <<>> => SameText)
<1>1. Accept \/ CompareNothing
  BY DEF LoadStep, Read, ReadError, EndOfFile, ParseHeader, HeaderAbort, SplitLines, SplitAbort,
     ParseLine, SkipLine, LinesParsed, ValidateHeader, Phase2Lines, Phase2Abort, Phase2Line,
     Phase2Parsed, StringifyExits, Reject, Goto
<1>. QED
  BY <1>1 DEF Accept, CompareNothing, Goto

LEMMA SameProgram == LoadStep => phase' = phase
BY DEF LoadStep, Read, ReadError, EndOfFile, ParseHeader, HeaderAbort, SplitLines, SplitAbort,
   ParseLine, SkipLine, LinesParsed, ValidateHeader, Phase2Lines, Phase2Abort, Phase2Line,
   Phase2Parsed, StringifyExits, Accept, Reject, CompareNothing, Goto

LEMMA Load2Inv ==
  ASSUME Inv2, Load2
  PROVE  Inv2'
<1>. USE DEF Inv2
<1>. LoadStep /\ UNCHANGED <<regvars, options, loopvars>>
  BY DEF Load2
<1>1. LoadInv'
  BY LoadNextInv DEF LoadNext
<1>2. loop = "loading"
  BY AcceptedIsOver DEF RunsAccepted
<1>3. LoadTypeOK'
  BY <1>1 DEF LoadInv
<1>4. TypeOK2' /\ phase' = 2 /\ NoFileIsZero'
  BY <1>3, SameProgram DEF TypeOK2, NoFileIsZero, regvars, loopvars
<1>5. SameAsText'
  BY AcceptedBecauseSame DEF SameAsText, SameText, Written
<1>6. Started' /\ Shown' /\ loop' = "loading"
  BY <1>2 DEF Started, Shown, PrintRegs, regvars, loopvars
<1>. QED
  BY <1>1, <1>4, <1>5, <1>6 DEF RunsAccepted, InHand2

-----------------------------------------------------------------------------
(* The loop. *)

\* What a step of the loop keeps by leaving the loader alone.
LEMMA LoaderStays ==
  ASSUME Inv2, UNCHANGED loadvars
  PROVE  LoadInv' /\ LoadTypeOK' /\ SameAsText' /\ phase' = 2
<1>1. LoadInv'
  BY UnchangedInv DEF Inv2
<1>2. SameAsText'
  BY DEF Inv2, SameAsText, SameText, Written, loadvars
<1>3. phase' = 2
  BY DEF Inv2, loadvars
<1>. QED
  BY <1>1, <1>2, <1>3 DEF LoadInv

LEMMA StartInv ==
  ASSUME Inv2, Start
  PROVE  Inv2'
<1>. USE DEF Inv2, Start
<1>1. LoadInv' /\ LoadTypeOK' /\ SameAsText' /\ phase' = 2 /\ stage' = "accepted"
  BY LoaderStays DEF loadvars
<1>2. cfg.entry_address \in Nat
  BY DEF TypeOK2, LoadTypeOK, HeaderFields
<1>3. TypeOK2'
  BY <1>1, <1>2, ZeroFacts DEF TypeOK2
<1>4. Shown'
  BY DEF Started, Shown, PrintRegs
<1>. QED
  BY <1>1, <1>3, <1>4 DEF RunsAccepted, InHand2, Started, NoFileIsZero

\* The head of the loop, wherever the instruction comes from.
LEMMA Fetches2Inv ==
  ASSUME Inv2, loop = "fetch", NEW inst \in Parsed, Fetches2(inst),
         Index2(GetPc) \in DOMAIN instrs => inst = instrs[Index2(GetPc)]
  PROVE  Inv2'
<1>. USE DEF Inv2, Fetches2
<1>1. LoadInv' /\ LoadTypeOK' /\ SameAsText' /\ phase' = 2 /\ stage' = "accepted"
  BY LoaderStays DEF loadvars, RunsAccepted
<1>2. GetPc \in Nat
  BY GetPcRange, RegistersAreTyped2, RegistersAssumption
<1>3. TypeOK2'
  BY <1>1, <1>2 DEF TypeOK2, HeadPrints2, regvars
<1>4. InHand2'
  BY DEF InHand2, Index2, loadvars
<1>5. Shown'
  BY DEF Shown, PrintRegs, regvars
<1>. QED
  BY <1>1, <1>3, <1>4, <1>5 DEF RunsAccepted, Started, NoFileIsZero, regvars

LEMMA Fetch2Inv ==
  ASSUME Inv2, Fetch2 \/ FetchUnparsed
  PROVE  Inv2'
<1>1. CASE Fetch2
  <2>1. instrs[Index2(GetPc)] \in Parsed
    BY <1>1 DEF Fetch2, Inv2, TypeOK2, LoadTypeOK
  <2>. QED
    BY <1>1, <2>1, Fetches2Inv DEF Fetch2
<1>2. CASE FetchUnparsed
  <2>1. CASE \E inst \in Unparsed : Fetches2(inst)
    BY <1>2, <2>1, Fetches2Inv, Phase2Assumption DEF FetchUnparsed
  <2>2. CASE loop' = "aborted" /\ UNCHANGED <<loadvars, regvars, options, at, i, prev_rs, printed>>
    <3>1. LoadInv' /\ LoadTypeOK' /\ SameAsText' /\ phase' = 2 /\ stage' = "accepted"
      BY <1>2, <2>2, LoaderStays DEF Inv2, loadvars, RunsAccepted, FetchUnparsed
    <3>2. TypeOK2' /\ NoFileIsZero'
      BY <2>2, <3>1 DEF Inv2, TypeOK2, NoFileIsZero, regvars
    <3>. QED
      BY <2>2, <3>1, <3>2 DEF Inv2, RunsAccepted, InHand2, Started, Shown
  <2>. QED
    BY <1>2, <2>1, <2>2 DEF FetchUnparsed
<1>. QED
  BY <1>1, <1>2

\* One call of the handler changes one register at most, and moves the pc.
LEMMA Execute2Inv ==
  ASSUME Inv2, Execute2
  PROVE  Inv2'
<1>. USE DEF Inv2, Execute2
<1>1. LoadInv' /\ LoadTypeOK' /\ SameAsText' /\ phase' = 2 /\ stage' = "accepted"
  BY LoaderStays DEF loadvars, RunsAccepted
<1>2. RegistersTyped /\ ZeroWord \in Word
  BY RegistersAreTyped2, ZeroFacts
<1>3. ExecuteS(i) \/ SyscallS(i)
  BY Phase2Assumption DEF RegopsExecute, RegopsSyscall
<1>4. /\ x' \in [Reg -> Word] /\ DiffersInOne(x') /\ UNCHANGED rs /\ pc' = SetPc(NextPc)
      /\ ~rs => x' = x
  <2>1. CASE ExecuteS(i)
    BY <1>2, <2>1, ExecuteChangesS, Phase2Assumption
  <2>2. CASE SyscallS(i)
    BY <1>2, <2>2, RegistersAssumption DEF SyscallS, RegistersTyped, DiffersInOne, Reg
  <2>. QED
    BY <1>3, <2>1, <2>2
<1>5. pc' \in Nat
  BY <1>2, <1>4, PcMoves
<1>6. TypeOK2'
  BY <1>1, <1>4, <1>5 DEF TypeOK2
<1>7. InHand2'
  BY DEF InHand2, Index2, loadvars
<1>8. Shown'
  BY <1>4 DEF Shown, PrintRegs, DiffersInOne
<1>9. NoFileIsZero'
  BY <1>4 DEF NoFileIsZero
<1>. QED
  BY <1>1, <1>6, <1>7, <1>8, <1>9 DEF RunsAccepted, Started

LEMMA Exception2Inv ==
  ASSUME Inv2, Exception2
  PROVE  Inv2'
<1>. USE DEF Inv2, Exception2
<1>1. LoadInv' /\ LoadTypeOK' /\ SameAsText' /\ phase' = 2 /\ stage' = "accepted"
  BY LoaderStays DEF loadvars, RunsAccepted
<1>2. TypeOK2' /\ NoFileIsZero'
  BY <1>1 DEF TypeOK2, NoFileIsZero, regvars
<1>3. InHand2'
  BY DEF InHand2, Index2, loadvars
<1>4. Shown'
  BY DEF Shown, PrintRegs, regvars
<1>. QED
  BY <1>1, <1>2, <1>3, <1>4 DEF RunsAccepted, Started

\* The report copies the one register that may differ.
LEMMA Remember2CatchesUp ==
  ASSUME TypeOK2, NoFileIsZero, NEW r \in Reg, \A q \in Reg \ {r} : prev_rs[q] = x[q]
  PROVE  Remember2 = x
<1>1. prev_rs \in [Reg -> Word] /\ x \in [Reg -> Word]
  BY DEF TypeOK2
<1>2. \A q \in Reg : GetReg(q) = x[q]
  BY DEF GetReg, NoFileIsZero
<1>3. Modified2 \subseteq {r}
  BY <1>2 DEF Modified2
<1>4. CASE Modified2 = {}
  <2>1. \A q \in Reg : prev_rs[q] = x[q]
    BY <1>2, <1>4 DEF Modified2
  <2>. QED
    BY <1>1, <1>4, <2>1 DEF Remember2
<1>5. CASE Modified2 = {r}
  <2>1. (CHOOSE m \in Modified2 : \A n \in Modified2 : m <= n) = r
    BY <1>5 DEF Reg
  <2>2. Remember2 = [prev_rs EXCEPT ![r] = x[r]]
    BY <1>2, <1>5, <2>1 DEF Remember2
  <2>. QED
    BY <1>1, <2>2
<1>. QED
  BY <1>3, <1>4, <1>5

LEMMA EndOfLoop2Inv ==
  ASSUME Inv2, EndOfLoop2
  PROVE  Inv2'
<1>. USE DEF Inv2, EndOfLoop2
<1>1. LoadInv' /\ LoadTypeOK' /\ SameAsText' /\ phase' = 2 /\ stage' = "accepted"
  BY LoaderStays DEF loadvars, RunsAccepted
<1>2. PrintRegs => prev_rs' = x
  BY Remember2CatchesUp DEF Shown
<1>3. prev_rs' \in [Reg -> Word]
  BY <1>2 DEF TypeOK2
<1>4. TypeOK2' /\ NoFileIsZero'
  BY <1>1, <1>3 DEF TypeOK2, NoFileIsZero, regvars
<1>5. Shown'
  BY <1>2 DEF Shown, PrintRegs, regvars
<1>. QED
  BY <1>1, <1>4, <1>5 DEF RunsAccepted, InHand2, Started

LEMMA Unchanged2Inv ==
  ASSUME Inv2, UNCHANGED vars2
  PROVE  Inv2'
<1>. USE DEF Inv2, vars2
<1>1. LoadInv' /\ LoadTypeOK' /\ SameAsText' /\ phase' = 2
  BY LoaderStays
<1>2. TypeOK2' /\ NoFileIsZero'
  BY <1>1 DEF TypeOK2, NoFileIsZero, regvars, loopvars
<1>3. RunsAccepted' /\ InHand2' /\ Started' /\ Shown'
  BY DEF RunsAccepted, InHand2, Started, Shown, PrintRegs, Index2, loadvars, regvars, loopvars
<1>. QED
  BY <1>1, <1>2, <1>3

LEMMA Next2Inv == Inv2 /\ [Next2]_vars2 => Inv2'
<1>. SUFFICES ASSUME Inv2, [Next2]_vars2 PROVE Inv2'
  OBVIOUS
<1>1. CASE Load2
  BY <1>1, Load2Inv
<1>2. CASE Start
  BY <1>2, StartInv
<1>3. CASE Fetch2 \/ FetchUnparsed
  BY <1>3, Fetch2Inv
<1>4. CASE Execute2
  BY <1>4, Execute2Inv
<1>5. CASE Exception2
  BY <1>5, Exception2Inv
<1>6. CASE EndOfLoop2
  BY <1>6, EndOfLoop2Inv
<1>7. CASE UNCHANGED vars2
  BY <1>7, Unchanged2Inv
<1>. QED
  BY <1>1, <1>2, <1>3, <1>4, <1>5, <1>6, <1>7 DEF Next2, Step2

LEMMA Spec2Inv == Spec2 => []Inv2
BY Init2Inv, Next2Inv, PTL DEF Spec2

-----------------------------------------------------------------------------
(* The theorems. *)

\* Whatever the file says and whatever lies behind the program, the register
\* file keeps its type, and so do the pc and the report of the registers.
THEOREM Phase2Types == Spec2 => []TypeOK2
<1>1. Inv2 => TypeOK2
  BY DEF Inv2
<1>. QED
  BY <1>1, Spec2Inv, PTL

\* With the register report on, the loop begins every iteration with all
\* changes reported: the first difference is the only one there can be.
THEOREM EveryChangeIsReported == Spec2 => []ReportsEveryChange
<1>1. Inv2 => ReportsEveryChange
  BY DEF Inv2, Shown, ReportsEveryChange
<1>. QED
  BY <1>1, Spec2Inv, PTL

\* What an instruction writes is the line it was parsed from, so that the
\* opcode and the operands are those of the line.
LEMMA SameLine ==
  ASSUME NEW inst \in Parsed, NEW l, l = Stringify(inst),
         inst.fmt_type = "FMT_ECALL" => inst.inst_no = "ECALL"
  PROVE  inst.inst_no = instr_num(l.name) /\ OperandsOf(inst) = l.args
<1>1. inst.inst_no \in Opcode
  BY DEF Parsed
<1>2. instr_num("ECALL") = "ECALL"
  BY DEF instr_num, Known
<1>3. instr_num(Stringify(inst).name) = inst.inst_no
  BY <1>1, <1>2, NamesAreInverse DEF Stringify
<1>. QED
  BY <1>3 DEF Stringify

LEMMA Inv2ExecutesTheFile == Inv2 => ExecutesTheFile
<1>. SUFFICES ASSUME Inv2, loop \in {"regops", "report", "returned"}, ReadableHeader,
                     LineAt(at) \in DOMAIN text.body, instrs # <<>>
              PROVE  /\ i.inst_no = instr_num(text.body[LineAt(at)].name)
                     /\ OperandsOf(i) = text.body[LineAt(at)].args
  BY DEF ExecutesTheFile
<1>1. stage = "accepted" /\ SameText /\ phase = 2
  BY DEF Inv2, RunsAccepted, SameAsText
<1>2. instrs \in Seq(Parsed) /\ text \in File
  BY DEF Inv2, TypeOK2, LoadTypeOK
<1>3. DOMAIN text.body = DOMAIN instrs /\ \A n \in DOMAIN instrs : text.body[n] = Stringify(instrs[n])
  BY <1>1 DEF SameText, Written
<1>4. cfg.instr_lower = text.header[1].val
  <2>1. HeaderConfirmed
    BY <1>1 DEF Inv2, LoadInv, Configured, HeaderRead, ReadableHeader
  <2>2. <<cfg.instr_lower, cfg.instr_upper, cfg.entry_address, cfg.memory_sz>>[1]
          = [n \in 1 .. 4 |-> text.header[n].val][1]
    BY <2>1 DEF HeaderConfirmed
  <2>. QED
    BY <2>2
<1>5. Index2(at) = LineAt(at)
  BY <1>4 DEF Index2, LineAt
<1>. DEFINE k == LineAt(at)
<1>6. k \in DOMAIN instrs /\ i = instrs[k] /\ i \in Parsed
  BY <1>2, <1>3, <1>5 DEF Inv2, InHand2
<1>7. WellFormed(i)
  BY <1>1, <1>6 DEF Inv2, LoadInv, AcceptedIsWellFormed
<1>8. i.fmt_type = "FMT_ECALL" => i.inst_no = "ECALL"
  BY <1>7 DEF WellFormed, instr_format
<1>. QED
  BY <1>3, <1>6, <1>8, SameLine

\* The loop executes what the file says at the address of the pc, opcode and
\* operands: the conversions of sscanf, the values an earlier line left
\* behind and the header read into adjacent arrays cannot put anything else
\* in its place once the text that was written back has been compared.
THEOREM TheFileIsExecuted == Spec2 => []ExecutesTheFile
BY Inv2ExecutesTheFile, Spec2Inv, PTL
=============================================================================
