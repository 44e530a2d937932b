-------------------------- MODULE LoaderAdmission --------------------------
(***************************************************************************)
(* The loader implements Admission.  The input is the file until it is in  *)
(* the buffer, and the buffer then; an instruction of the array says its   *)
(* opcode and the operands that its format has.                            *)
(***************************************************************************)
EXTENDS Loader

Verdict ==
  CASE stage = "accepted" -> "accepted"
    [] stage \in {"rejected", "failed", "aborted"} -> "refused"
    [] OTHER -> "pending"

Said == [n \in DOMAIN instrs |->
          [op |-> instrs[n].inst_no, operands |-> OperandsOf(instrs[n])]]

Intact == faults = {} /\ Size <= PROG_SZ_MAX
Input  == IF text = NothingRead THEN file ELSE text

A == INSTANCE Admission WITH
       intact  <- Intact,
       input   <- Input,
       verdict <- Verdict,
       array   <- IF stage = "accepted" THEN Said ELSE <<>>

\* Whatever lines the parser misreads, the comparison lets none of them
\* through, and no well-written program is turned away.
ImplementsAdmission == A!AdmissionSpec
=============================================================================
