-------------------------- MODULE ProcessorAtomic --------------------------
(***************************************************************************)
(* The loop of processor_emulate implements the AtomicMachine.  All but    *)
(* the counter and the status are variables of the loop itself: what a     *)
(* handler changes is changed in the machine in the same step.             *)
(***************************************************************************)
EXTENDS Processor

\* An instruction that is not of the program is over at the end of the
\* iteration: until then the counter stays where it was fetched.
Astray  == stage \in {"memops", "report", "returned", "aborted"} /\ ~FromProgram
Counter == IF Astray THEN at ELSE GetPc

\* The exception returned with: one that was printed at the loop head, for
\* an address out of bounds, may stand beside it.
Reported ==
  IF printed \cap Exception \subseteq {"EXCEPTION_INSTRUCTION"} THEN "EXCEPTION_INSTRUCTION"
  ELSE CHOOSE ex \in Exception \ {"EXCEPTION_INSTRUCTION"} : ex \in printed

Status ==
  CASE stage = "returned" -> Reported
    [] stage = "aborted"  -> "aborted"
    [] OTHER              -> "running"

\* registers.c lacks the exit system call, and with it nothing reaches
\* memory.c; a run of Claims holds that against the documentation.
Atomic == INSTANCE AtomicMachine WITH
  Computed   <- IF HW2 = "S" THEN ExecutedOps ELSE RRR \cup ProvidedRRI \cup {"LUI"},
  Accessing  <- IF HW2 = "S" THEN {} ELSE Loads \cup Stores,
  Lacking    <- IF HW2 = "S" THEN Opcode \ (ExecutedOps \cup {"ECALL"}) ELSE {},
  Exits      <- HW2 # "S",
  program    <- instrs,
  lower      <- cfg.instr_lower,
  counter    <- Counter,
  regs       <- x,
  ram        <- buffer,
  extent     <- size,
  status     <- Status

\* An instruction of the program has its whole effect in one step of one
\* handler, and nothing else is changed by anybody: not by the handler it
\* is offered to as well, not by the reports, not beside an exception.
ExecutesAtomically == Atomic!AtomicSpec
=============================================================================
