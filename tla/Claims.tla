------------------------------- MODULE Claims -------------------------------
(***************************************************************************)
(* What the documentation, the comments and the golden outputs of the      *)
(* repository say of the program where the program does something else.    *)
(* Each is checked by a run of its own and violated there.                 *)
(***************************************************************************)
EXTENDS Processor

\* README.md: out-of-range addresses raise EXCEPTION_MEMORY.  The check adds
\* size - 1 to the address in 64 bits, so an access that runs over the end
\* of the address space is let through, and done in part.
OutOfRangeRaisesMemory ==
  [][stage = "memops" /\ stage' = "report" /\ IsMemop(i) =>
       Address(i) + AccessSize(i.inst_no) - 1 < size]_vars

\* processor.h: when an exception is thrown, the error is printed and the
\* program exits.  The loop prints the exception for a pc out of bounds and
\* executes on.
ExceptionEndsLoop == printed \cap Exception # {} => stage \in {"returned", "aborted"}

\* processor.h: the handlers progress the pc.  An instruction that neither
\* handler knows is executed again and again.
HandlersProgressPc == stage = "report" => GetPc = (at + 4) % (UINT_MAX + 1)

\* README.md:48-52, 62 lists what is emulated.  registers.c raises an exception
\* on ADDW and SUBW, and on loads and stores before memory.c is called; that
\* of the exit system call is overwritten by another, so that there is no
\* "Process exit" (01_ecall_exit.soln); and SRL shifts the sign in
\* (15_srl.soln).
ListedIsEmulated ==
  [][stage = "regops" /\ FromProgram =>
       /\ i.inst_no \in {"ADDW", "SUBW"} \cup Loads \cup Stores => stage' = "memops"
       /\ i.inst_no = "ECALL" /\ Syscall = Exit => "EXCEPTION_EXIT" \in printed'
       /\ i.inst_no = "SRL" /\ i.rd # 0 =>
            x'[i.rd] = ShiftRightLogical(x[i.rs1], ShiftCount(x[i.rs2]))]_vars
=============================================================================
