------------------------------ MODULE MCLoader ------------------------------
(* Small files for model checking Loader. *)
EXTENDS LoaderAdmission, ObjCreate

AsmLine(name, args, form) == [name |-> name, args |-> args, form |-> form]

ADDI == AsmLine("ADDI", <<RegArg(1), RegArg(2), NumArg(-5)>>, "plain")
ADD  == AsmLine("ADD", <<RegArg(1), RegArg(2), RegArg(3)>>, "plain")
LW   == AsmLine("LW", <<RegArg(1), NumArg(5), BaseArg(2)>>, "plain")
LUI  == AsmLine("LUI", <<RegArg(2), NumArg(5)>>, "plain")
CALL == AsmLine("ECALL", <<>>, "plain")

\* What object_create writes, one line of each format.
Canonicals == {ADDI, ADD, LW, LUI, CALL}

\* Operands in the format of another opcode, or too few.
Misshapen ==
  { AsmLine("ADD", ADDI.args, "plain"), AsmLine("LUI", LW.args, "plain"),
    AsmLine("LW", LUI.args, "plain"), AsmLine("ADD", <<RegArg(3)>>, "plain"),
    AsmLine("ADDI", ADD.args, "plain"), AsmLine("ECALL", ADD.args, "plain"),
    AsmLine("ECALL", <<RegArg(0), RegArg(0), RegArg(0)>>, "plain"),
    AsmLine("ADD", <<>>, "plain") }

\* Names that are not in the table, other spellings, a number beyond `int`.
Misspelt ==
  { AsmLine("unknown", ADD.args, "plain"), AsmLine("(null)", ADD.args, "plain"),
    AsmLine("ADD", ADD.args, "spaced"), AsmLine("LUI", LUI.args, "spaced"),
    AsmLine("ADDI", ADDI.args, "other"), AsmLine("ECALL", <<>>, "other"),
    AsmLine("LUI", <<RegArg(2), NumArg(INT_MAX + 6)>>, "plain") }

Pool == Canonicals \cup Misshapen \cup Misspelt \cup {Blank}

BodiesOver(pool, max) == UNION {[1 .. n -> pool] : n \in 0 .. max}

\* Two lines, one of which is well written or empty.
PairsWithCanonical ==
  {p \in [1 .. 2 -> Pool] : \E n \in 1 .. 2 : p[n] \in Canonicals \cup {Blank}}

Narrow(n) == [val |-> n, wide |-> FALSE]
Wide(n)   == [val |-> n, wide |-> TRUE]

GoodHeader == <<Narrow(4), Narrow(16), Narrow(8), Narrow(2)>>
BadHeaders == { <<>>, <<Narrow(4)>>, <<Wide(1), Wide(2), Narrow(8), Wide(3)>> }

\* Binaries of up to three lines: code at zero and elsewhere, blocks of zeros,
\* a second section, an opcode that the emulator does not know.
Listing(n, l) == [kind |-> "instruction", addr |-> 4 * n, text |-> l]
Zeros(n)      == [kind |-> "zeros", addr |-> 4 * n, text |-> Blank]
Heading(n)    == [kind |-> "heading", addr |-> 4 * n, text |-> AsmLine("unknown", <<>>, "plain")]

Code ==
  { ADDI, LW, CALL, AsmLine("unknown", <<>>, "plain"),
    AsmLine("LUI", LUI.args, "other"),
    AsmLine("SLLI", <<RegArg(1), RegArg(1), NumArg(3)>>, "other"),
    AsmLine("BEQ", <<RegArg(1), RegArg(2), NumArg(0)>>, "other"),
    AsmLine("JAL", <<RegArg(1), NumArg(4)>>, "other") }

Listings ==
  {<<Listing(0, a)>> : a \in Code}
    \cup {<<Listing(0, a), Listing(1, b)>> : a \in Code, b \in Code}
    \cup UNION {{<<Zeros(0), Listing(1, a)>>, <<Listing(0, a), Zeros(1)>>,
                 <<Listing(0, a), Zeros(1), Listing(2, CALL)>>,
                 <<Listing(0, a), Heading(1), Listing(1, CALL)>>} : a \in Code}
    \cup {<<>>, <<Zeros(0)>>}

Segment(n, m) == [vaddr |-> n, memsz |-> m]

MCDumps ==
  [listing : Listings, segments : {<<Segment(0, 8)>>, <<Segment(0, 8), Segment(12, 4)>>}, start : {4}]
    \cup [listing : {<<Listing(1, a)>> : a \in Code},
          segments : {<<>>, <<Segment(4, 4)>>, <<Segment(4, 4), Segment(8, 0), Segment(8, 4)>>},
          start : {4}]

MCFiles ==
  [header : {GoodHeader}, body : BodiesOver(Pool, 1) \cup PairsWithCanonical
                                    \cup BodiesOver({ADDI, LW, CALL, Blank}, 3)]
    \cup [header : BadHeaders, body : BodiesOver({ADDI, CALL, Blank}, 2)]
    \cup ExtractedFiles

OneFault == {{}, {"read"}, {"residue"}}
MCGarbled == {ADD, AsmLine("ADDI", ADDI.args, "other")}
Leftover  == {0, 5}
=============================================================================
