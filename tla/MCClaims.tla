------------------------------ MODULE MCClaims ------------------------------
(* Programs that exercise the claims. *)
EXTENDS MCProcessor, Claims

ClaimPool ==
  { Inst("ADDI", 1, 0, 0, -1), Inst("ADDI", A7, 0, 0, 2), Inst("ADDI", A7, 0, 0, 23),
    Inst("SRL", 1, 1, A7, 0), Inst("ADDW", 1, 1, 1, 0), Inst("BEQ", 0, 1, 0, 8), Ecall,
    MemInst("SH", A7, 0, 1), MemInst("LB", 1, 0, A7) }

ClaimPrograms == ProgramsOver(ClaimPool, 3)

\* A header that fits a program of three instructions, and one that does not.
GoodHeader  == {Header(0, 12, 0, 4, TRUE)}
EarlyEntry  == {Header(4, 16, 0, 4, TRUE)}
=============================================================================
