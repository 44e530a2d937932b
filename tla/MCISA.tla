------------------------------- MODULE MCISA -------------------------------
(* Programs for checking the emulator against the instruction set machine. *)
EXTENDS MCProcessor, ProcessorISA

\* Load two operands, compute, and end with the given system call.
Set(r, v) == Inst("ADDI", r, 0, 0, v)
Ending(call) == <<Set(A7, call), Ecall>>

Samples == {0, 1, 2, 3, 5, 7, 8, 85, 127, -1, -2, -86, -128}

Binary(op, a, b) == <<Set(1, a), Set(2, b), Inst(op, 1, 1, 2, 0)>>
Immediate(op, a, b) == <<Set(1, a), Inst(op, 2, 1, 0, b)>>

ComputeWith(rrr, rri, samples) ==
  {Binary(op, a, b) : op \in rrr, a \in samples, b \in samples}
    \cup {Immediate(op, a, b) : op \in rri, a \in samples, b \in samples}
    \cup {<<Inst("LUI", 1, 0, 0, b), Inst("ADD", 0, 1, 1, 0)>> : b \in samples}

\* The operations registers.c computes as the instruction set does, with
\* system call 23 between them.
ComputeS ==
  {p \o <<Set(A7, 23), Ecall>> \o Ending(1) :
     p \in ComputeWith(RegisterOps \ {"SRL"}, ImmediateOps \ {"SRLI"}, Samples)}

\* All loads and stores, at addresses within and across the end of memory;
\* the bytes of the values stored differ in their sign bits.
AccessP ==
  {<<Set(1, base), Set(2, v), MemInst(st, 2, 1, 1), MemInst(ld, r, off, 1),
     MemInst("SB", r, 0, 1)>> \o Ending(2) :
     base \in {1, 3}, v \in {6951, -21846}, st \in Stores, ld \in Loads, r \in {0, 2},
     off \in {-1, 1}}
  \cup {<<Set(1, base), MemInst(op, 2, off, r)>> \o Ending(2) :
     base \in {0, 2, 9}, op \in Stores \cup Loads, r \in {0, 1}, off \in {0, 3}}

ProvidedSamples == {0, 3, 90, -1, -21846}
ProvidedPrograms ==
  AccessP \cup {p \o Ending(2) : p \in ComputeWith(RRR, ProvidedRRI, ProvidedSamples)}

FittingHeader == {Header(4, 64, 4, 10, TRUE)}
=============================================================================
