---------------------------- MODULE ProcessorISA ----------------------------
(***************************************************************************)
(* The loop of processor_emulate implements the instruction set machine.   *)
(* The machine executes an instruction when the handler responsible for it *)
(* changes the state, and stops when the loop returns; fetching, the other *)
(* handler and the reports are stuttering steps.                           *)
(***************************************************************************)
EXTENDS Processor

\* The exception that the loop returned with.
Outcome ==
  IF stage = "returned" THEN CHOOSE ex \in Exception : ex \in printed ELSE "running"

Bits2Nat(b) ==
  LET from[k \in 0 .. BITS] ==
        IF k = BITS THEN 0 ELSE (IF b[k] THEN 1 ELSE 0) + 2 * from[k + 1]
  IN  from[0]

Machine == INSTANCE ISA WITH
  program <- instrs,
  lower   <- cfg.instr_lower,
  counter <- GetPc,
  regs    <- [r \in Reg |-> ToNat(x[r])],
  ram     <- [a \in DOMAIN buffer |-> Bits2Nat(buffer[a])],
  status  <- Outcome

\* Executed instruction by instruction, the program does what the
\* instruction set says: every register, every byte of memory, the pc and
\* the exception it ends with, and it goes on until that exception.
ImplementsISA == Machine!ISASpec
=============================================================================
