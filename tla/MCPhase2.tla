------------------------------ MODULE MCPhase2 ------------------------------
(* Programs and headers for model checking Phase2. *)
EXTENDS Phase2

AsmLine(name, args) == [name |-> name, args |-> args, form |-> "plain"]

Sources ==
  { AsmLine("ADDI", <<RegArg(1), RegArg(1), NumArg(1)>>),
    AsmLine("ADDI", <<RegArg(2), RegArg(0), NumArg(23)>>),
    AsmLine("SUB", <<RegArg(0), RegArg(2), RegArg(1)>>),
    AsmLine("LUI", <<RegArg(2), NumArg(-1)>>),
    AsmLine("LW", <<RegArg(1), NumArg(4), BaseArg(2)>>),
    AsmLine("ECALL", <<>>) }

\* Lines whose missing operands an earlier line has left behind, and one with
\* a number beyond `int`.
Lacking == { AsmLine("SUB", <<RegArg(0), RegArg(2)>>), AsmLine("LUI", <<RegArg(2)>>),
             AsmLine("LUI", <<RegArg(1), NumArg(INT_MAX + 2)>>) }

\* The last is of a program at addresses that fill their arrays.
Headers2 ==
  LET field(n) == [val |-> n, wide |-> FALSE]
      wide(n)  == [val |-> n, wide |-> TRUE]
  IN  { <<field(4), field(16), field(4), field(0)>>,
        <<field(4), field(12), field(9), field(0)>>,
        <<wide(2), wide(14), wide(6), field(0)>> }

Files2 ==
  [header : Headers2,
   body : UNION {[1 .. n -> Sources \cup Lacking] : n \in 1 .. 2} \cup [1 .. 3 -> Sources]]

NoFault  == {{}}
NoLines  == {}
Unused   == {7}
\* Memory may hold any `int` where a register number is expected.
Behind   == { ZeroInstruction, [ZeroInstruction EXCEPT !.fmt_type = "FMT_ERROR"],
              [ZeroInstruction EXCEPT !.inst_no = "SUB", !.rd = 1, !.rs1 = -1, !.rs2 = 2] }
=============================================================================
