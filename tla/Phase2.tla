------------------------------- MODULE Phase2 -------------------------------
(***************************************************************************)
(* The program of phase 2 from its command line to the end of its loop:    *)
(* the loader, then `processor_emulate` with the register handler alone.   *)
(* registers.c of phase 2 is the file of phase 3 (HW2 = "S").              *)
(*                                                                         *)
(* What is executed is what the parser stored, reached through the header  *)
(* it read: the properties relate it to the text.                          *)
(***************************************************************************)
EXTENDS Loader, Registers

CONSTANT Unparsed   \* instructions that the memory behind the array may hold

ASSUME Phase2Assumption ==
  /\ HW2 = "S" /\ Phases = {2}
  /\ Unparsed \subseteq Parsed

VARIABLES
  options,    \* the command-line options
  loop,       \* where processor_emulate is
  at,         \* its variable pc
  i,          \* its variable *i
  prev_rs,    \* the static array of processor_registers_print
  printed     \* what has been printed since the loop head

loopvars == <<loop, at, i, prev_rs, printed>>
vars2    == <<loadvars, regvars, options, loopvars>>

Option == {"--no-print-instr", "--no-print-regs", "--cache-values"}

\* The options are read before the program; the numbers of the cache are
\* stored and not used.
PrintInstrs == "--no-print-instr" \notin options
PrintRegs   == "--no-print-regs" \notin options

Init2 ==
  /\ LoadInit
  /\ options \in SUBSET Option
  /\ rs = TRUE /\ InitRegisters(0)
  /\ loop = "loading" /\ at = 0 /\ i = ZeroInstruction
  /\ prev_rs = [r \in Reg |-> ZeroWord] /\ printed = {}

Load2 == LoadStep /\ UNCHANGED <<regvars, options, loopvars>>

\* registers_alloc, whose result nobody looks at, processor_alloc, which
\* asserts its own, and the registers printed at the start.
Start ==
  /\ stage = "accepted" /\ loop = "loading"
  /\ rs' \in BOOLEAN
  /\ pc' = cfg.entry_address
  /\ x' = [r \in Reg |-> ZeroWord]
  /\ \/ loop' = "fetch" /\ printed' = {"registers"}
     \/ loop' = "aborted" /\ UNCHANGED printed
  /\ UNCHANGED <<loadvars, options, at, i, prev_rs>>

-----------------------------------------------------------------------------
(* The loop. *)

\* Mutation of Index2: the index counts from the entry of the program.
IndexFromEntry(a) == (a - cfg.entry_address) \div 4 + 1

Index2(a) == (a - cfg.instr_lower) \div 4 + 1

Outside(a) == cfg.instr_lower > a \/ cfg.instr_upper <= a

HeadPrints2(a) ==
  {p \in {"EXCEPTION_INSTRUCTION"} : Outside(a)} \cup {p \in {"instruction"} : PrintInstrs}

Fetches2(inst) ==
  /\ at' = GetPc
  /\ i' = inst
  /\ printed' = HeadPrints2(GetPc)
  /\ loop' = IF PrintInstrs /\ inst.fmt_type = "FMT_ERROR" THEN "aborted" ELSE "regops"
  /\ UNCHANGED <<loadvars, regvars, options, prev_rs>>

Fetch2 ==
  /\ loop = "fetch" /\ Index2(GetPc) \in DOMAIN instrs
  /\ Fetches2(instrs[Index2(GetPc)])

\* The array is a thousand times as long as the program: what is behind the
\* program is memory that was never written, or no memory at all.
FetchUnparsed ==
  /\ loop = "fetch" /\ Index2(GetPc) \notin DOMAIN instrs
  /\ \/ \E inst \in Unparsed : Fetches2(inst)
     \/ /\ loop' = "aborted"
        /\ UNCHANGED <<loadvars, regvars, options, at, i, prev_rs, printed>>

Execute2 ==
  /\ loop = "regops"
  /\ RegopsExecute(i) \/ RegopsSyscall(i)
  /\ loop' = "report"
  /\ UNCHANGED <<loadvars, options, at, i, prev_rs, printed>>

Exception2 ==
  /\ loop = "regops"
  /\ \E ex \in {"EXCEPTION_INSTRUCTION", "EXCEPTION_UNKNOWN_SYSCALL"} :
       RegopsRaises(i, ex) /\ printed' = printed \cup {ex, "registers"}
  /\ loop' = "returned"
  /\ UNCHANGED <<loadvars, regvars, options, at, i, prev_rs>>

\* processor_registers_print: the first register that differs.
Modified2 == {r \in Reg : GetReg(r) # prev_rs[r]}

\* Mutation of Remember2: the difference is printed but not stored.
RememberNothing2 == prev_rs

Remember2 ==
  IF Modified2 = {} THEN prev_rs
  ELSE LET r == CHOOSE m \in Modified2 : \A n \in Modified2 : m <= n
       IN  [prev_rs EXCEPT ![r] = GetReg(r)]

EndOfLoop2 ==
  /\ loop = "report"
  /\ loop' = "fetch"
  /\ prev_rs' = IF PrintRegs THEN Remember2 ELSE prev_rs
  /\ printed' = printed \cup {p \in {"change"} : PrintRegs}
  /\ UNCHANGED <<loadvars, regvars, options, at, i>>

Over2 == loop \in {"returned", "aborted"} \/ stage \in {"rejected", "failed", "aborted"}

Step2 == Load2 \/ Start \/ Fetch2 \/ FetchUnparsed \/ Execute2 \/ Exception2 \/ EndOfLoop2

Next2 == Step2 \/ (Over2 /\ UNCHANGED vars2)

Spec2 == Init2 /\ [][Next2]_vars2

\* One thread, from the first read to the end of the loop.
FairSpec2 == Spec2 /\ WF_vars2(Step2)

-----------------------------------------------------------------------------
(* Properties. *)

TypeOK2 ==
  /\ LoadTypeOK
  /\ options \subseteq Option
  /\ rs \in BOOLEAN /\ pc \in Nat /\ x \in [Reg -> Word]
  /\ loop \in {"loading", "fetch", "regops", "report", "returned", "aborted"}
  /\ at \in Nat /\ i \in Parsed
  /\ prev_rs \in [Reg -> Word]
  /\ printed \subseteq {"EXCEPTION_INSTRUCTION", "EXCEPTION_UNKNOWN_SYSCALL",
                        "registers", "instruction", "change"}

\* The header is four numbers that fit the arrays of the parser.
ReadableHeader ==
  Len(text.header) >= 4 /\ \A n \in 1 .. 4 : ~text.header[n].wide

\* The address of a line of the file, according to the header of the file.
LineAt(a) == (a - text.header[1].val) \div 4 + 1

\* The machine executes what the file says at the pc, operand by operand:
\* nothing a line lacked was filled in from an earlier line, and no line
\* stands at another address than the header gives it.
ExecutesTheFile ==
  loop \in {"regops", "report", "returned"} /\ ReadableHeader
  /\ LineAt(at) \in DOMAIN text.body /\ instrs # <<>> =>
    /\ i.inst_no = instr_num(text.body[LineAt(at)].name)
    /\ OperandsOf(i) = text.body[LineAt(at)].args

\* With the register report on, no change of a register is left out of it
\* or reported with a later instruction.
ReportsEveryChange == PrintRegs /\ loop = "fetch" => prev_rs = x

\* A program written as object_create writes it is accepted, and its run
\* comes to an end or leaves the program, unless it has no register file.
CanonicalRunsToAnEnd ==
  (faults = {} /\ Size <= PROG_SZ_MAX /\ Canonical(file)) ~>
    \/ loop \in {"returned", "aborted"} \/ ~rs
    \/ loop = "regops" /\ Index2(at) \notin DOMAIN instrs
=============================================================================
