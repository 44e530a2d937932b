-------------------------------- MODULE Text --------------------------------
(***************************************************************************)
(* The text form of a program and its conversions: sscanf as the parsers   *)
(* use it, `lines`, the name table and `stringify_program`.                *)
(*                                                                         *)
(* A line is a mnemonic and a sequence of operands.  An operand has the    *)
(* shape of a register `x3`, a number `-8`, or a base register `(x3`; the  *)
(* shapes of all operands are what sscanf tells formats apart by.  `form`  *)
(* stands for the rest of the spelling: "plain" is what sprintf would      *)
(* write, "spaced" has a blank after each comma, "other" has text behind   *)
(* the operands or a number in another spelling.                           *)
(***************************************************************************)
EXTENDS Instructions, Sequences

CONSTANT INT_MAX        \* the largest `int`: 2^31 - 1

ASSUME TextAssumption == INT_MAX \in Nat

Int32 == -INT_MAX - 1 .. INT_MAX

\* Mutation of Truncate: an `int` is taken to hold whatever is written.
TruncateNothing(n) == n

\* %d reads a `long` and stores its low half.
Truncate(n) == ((n + INT_MAX + 1) % (2 * (INT_MAX + 1))) - (INT_MAX + 1)

\* Mnemonics: the opcodes of the table, a name that is not in it, and the
\* text sprintf writes for the NULL that instr_name returns.
Known    == RRR \cup RRI \cup RI \cup ROR \cup {"ECALL"}
Mnemonic == Known \cup {"unknown", "(null)"}

instr_num(name) == IF name \in Known THEN name ELSE "INSTRINVALID"
instr_name(op)  == IF op \in Known THEN op ELSE "(null)"

Operand == [shape : {"reg", "base"}, val : Nat] \cup [shape : {"num"}, val : Int]
RegArg(n)  == [shape |-> "reg", val |-> n]
NumArg(n)  == [shape |-> "num", val |-> n]
BaseArg(n) == [shape |-> "base", val |-> n]

Form == {"plain", "spaced", "other"}
Blank == [name |-> "", args |-> <<>>, form |-> "plain"]    \* an empty line
Line  == [name : Mnemonic, args : Seq(Operand), form : Form] \cup {Blank}

\* The first line: hexadecimal numbers, of which one of ten characters is
\* wide.  The text between the newlines follows; <<>> if there is none, and
\* ending in Blank if the last character is a newline.
Field == [val : Nat, wide : BOOLEAN]
File  == [header : Seq(Field), body : Seq(Line)]

-----------------------------------------------------------------------------
(* sscanf. *)

\* The shapes of the operands that a format asks for.
Shapes(fmt) ==
  CASE fmt = "FMT_RRR" -> <<"reg", "reg", "reg">>
    [] fmt = "FMT_RRI" -> <<"reg", "reg", "num">>
    [] fmt = "FMT_ROR" -> <<"reg", "num", "base">>
    [] fmt = "FMT_RI"  -> <<"reg", "num">>
    [] OTHER           -> <<>>

\* sscanf converts operands up to the first one of another shape, and does
\* not look at what is left of the line.
Converts(fmt, line, n) ==
  /\ n <= Len(Shapes(fmt)) /\ n <= Len(line.args)
  /\ \A m \in 1 .. n : line.args[m].shape = Shapes(fmt)[m]

Matches(fmt, line) == Converts(fmt, line, Len(Shapes(fmt)))

-----------------------------------------------------------------------------
(* lines: one string per line of a text that is a sequence of pieces. *)

\* Mutation of Count: what follows the last newline is always a line.
CountPieces(body) == Len(body)

\* Newlines are counted, and one more for a last line without a newline.
Count(body) ==
  IF body # <<>> /\ body[Len(body)] = Blank THEN Len(body) - 1 ELSE Len(body)

\* strtok_r skips empty lines, so that there are fewer strings than lines
\* if one is empty, and the assertion on the string fails.  Otherwise string
\* n is line n, and the first one starts at the copy that strdup made.
LinesAborts(body) == \E n \in 1 .. Count(body) : body[n] = Blank

-----------------------------------------------------------------------------
(* stringify_program. *)

OperandsOf(inst) ==
  CASE inst.fmt_type = "FMT_RRR" -> <<RegArg(inst.rd), RegArg(inst.rs1), RegArg(inst.rs2)>>
    [] inst.fmt_type = "FMT_RRI" -> <<RegArg(inst.rd), RegArg(inst.rs1), NumArg(inst.imm)>>
    [] inst.fmt_type = "FMT_ROR" -> <<RegArg(inst.rd), NumArg(inst.imm), BaseArg(inst.rs1)>>
    [] inst.fmt_type = "FMT_RI"  -> <<RegArg(inst.rd), NumArg(inst.imm)>>
    [] OTHER                     -> <<>>

\* The line of an instruction that has a format.
Stringify(inst) ==
  [name |-> IF inst.fmt_type = "FMT_ECALL" THEN "ECALL" ELSE instr_name(inst.inst_no),
   args |-> OperandsOf(inst), form |-> "plain"]

\* What a parser may store: any `int` as an operand, a register number too.
Parsed ==
  [inst_no : Opcode, inst_addr : Nat, fmt_type : Format,
   rd : Int32, rs1 : Int32, rs2 : Int32, imm : Int32]

\* What a program as object_create writes it looks like: four numbers, then
\* instructions in the format of their opcode, the last without a newline.
CanonicalLine(line) ==
  /\ line.name \in Known
  /\ line.form = "plain"
  /\ Len(line.args) = Len(Shapes(instr_format(line.name)))
  /\ Matches(instr_format(line.name), line)
  /\ \A n \in DOMAIN line.args : line.args[n].val \in Int32

Canonical(file) ==
  /\ Len(file.header) = 4
  /\ file.body # <<>>
  /\ \A n \in DOMAIN file.body : CanonicalLine(file.body[n])
=============================================================================
