----------------------------- MODULE Admission -----------------------------
(***************************************************************************)
(* What the loader promises.  It decides on a program once.  If it accepts *)
(* it, the array says of every line what the line says; it accepts what is *)
(* written as object_create writes it, and it always decides.  Input that  *)
(* does not fit the buffer, or that cannot be read, may be damaged before  *)
(* the decision.                                                           *)
(***************************************************************************)
EXTENDS Text

VARIABLES
  intact,     \* the input can be read as it is
  input,      \* the program
  verdict,    \* "pending", "accepted" or "refused"
  array       \* the instructions accepted

admission == <<intact, input, verdict, array>>

\* What a line says: its opcode, and its operands in the order written.
Meaning(l) == [op |-> instr_num(l.name), operands |-> l.args]

AdmissionInit ==
  /\ intact \in BOOLEAN /\ input \in File
  /\ verdict = "pending" /\ array = <<>>

Damage ==
  /\ ~intact /\ verdict = "pending"
  /\ input' \in File
  /\ UNCHANGED <<intact, verdict, array>>

\* Nothing is promised of a program without instructions.
Admit ==
  /\ verdict = "pending"
  /\ verdict' = "accepted"
  /\ array' = IF Count(input.body) = 0 THEN <<>>
              ELSE [n \in DOMAIN input.body |-> Meaning(input.body[n])]
  /\ UNCHANGED <<intact, input>>

Refuse ==
  /\ verdict = "pending"
  /\ ~(intact /\ Canonical(input))
  /\ verdict' = "refused"
  /\ UNCHANGED <<intact, input, array>>

AdmissionNext == Damage \/ Admit \/ Refuse

AdmissionSafety == AdmissionInit /\ [][AdmissionNext]_admission

AdmissionSpec == AdmissionSafety /\ WF_admission(Admit \/ Refuse)
=============================================================================
