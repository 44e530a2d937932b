------------------------------- MODULE Loader -------------------------------
(***************************************************************************)
(* `main` up to the point where the program has been accepted, in each of  *)
(* the three phases: standard input is read into a buffer, parsed into an  *)
(* array, and the array is written as text again and compared with the     *)
(* buffer.  Phase 1 ends there; phases 2 and 3 go on to execute the array. *)
(*                                                                         *)
(* Phases 1 and 3 have the same parser, which takes the format of an       *)
(* instruction from the shape of its line; phase 2 takes it from the       *)
(* opcode.  The comparison is all that stands between a line that was      *)
(* misread and its execution.                                              *)
(***************************************************************************)
EXTENDS Text

CONSTANTS
  Phases,         \* which of the programs 1, 2, 3 to start
  Files,          \* what standard input may hold
  PROG_SZ_MAX,    \* the size of the buffer, in lines
  Faults,         \* sets of "read" (read fails), "residue" (the memory
                  \* behind the text is not zero) that may occur
  Garbled,        \* how a line with a part missing or added may read
  Stale           \* what memory that was never written may hold

ASSUME LoaderAssumption ==
  /\ Phases \subseteq {1, 2, 3}
  /\ Files \subseteq File
  /\ PROG_SZ_MAX \in Nat \ {0, 1}
  /\ Faults \subseteq SUBSET {"read", "residue"}
  /\ Garbled \subseteq Line
  /\ Stale \subseteq 0 .. INT_MAX /\ Stale # {}

VARIABLES
  phase,          \* the program that runs
  faults,         \* the faults of this run
  file,           \* what standard input holds
  stage,          \* where the program is
  read_amnt,      \* how much has been read
  text,           \* program: what the buffer holds when it is parsed
  cfg,            \* *cfg: the numbers of the header
  instrs,         \* instrs->instructions
  line,           \* the number of the line parsed next
  operands,       \* x1, x2, x3 of the parser of phase 2
  differences     \* the lines listed when the program is rejected

loadvars == <<phase, faults, file, stage, read_amnt, text, cfg, instrs, line,
              operands, differences>>

LoadStage == {"read", "parse", "lines", "line", "validate", "compare",
              "accepted",
              "rejected",    \* after the list of differences, exit(-1)
              "failed",      \* err or stringify_program called exit(-1)
              "aborted"}     \* an assertion failed, or a signal

HeaderFields == [instr_lower : Nat, instr_upper : Nat, entry_address : Nat, memory_sz : Nat]

Fields(a, b, c, d) ==
  [instr_lower |-> a, instr_upper |-> b, entry_address |-> c, memory_sz |-> d]

NothingRead == [header |-> <<>>, body |-> <<>>]
Zeroed(n) == [k \in 1 .. n |-> ZeroInstruction]

LoadInit ==
  /\ phase \in Phases /\ faults \in Faults /\ file \in Files
  /\ stage = "read" /\ read_amnt = 0
  /\ text = NothingRead
  /\ cfg = Fields(0, 0, 0, 0)
  /\ instrs = <<>> /\ line = 1
  /\ operands \in IF phase = 2 THEN [1 .. 3 -> Stale] ELSE {[n \in 1 .. 3 |-> 0]}
  /\ differences = {}

\* The program is over, or at another point with nothing else changed.
Goto(s) ==
  /\ stage' = s
  /\ UNCHANGED <<phase, faults, file, read_amnt, text, cfg, instrs, line, operands, differences>>

-----------------------------------------------------------------------------
(* The loop around read. *)

Size == 1 + Len(file.body)

Read ==
  /\ stage = "read"
  /\ \E n \in read_amnt + 1 .. PROG_SZ_MAX : n <= Size /\ read_amnt' = n
  /\ UNCHANGED <<phase, faults, file, stage, text, cfg, instrs, line, operands, differences>>

ReadError == stage = "read" /\ "read" \in faults /\ Goto("failed")

\* The buffer holds a beginning of the file.  If it is full the cut may be
\* on either side of a newline or in a line.
Kept ==
  IF read_amnt = Size THEN {file.body}
  ELSE LET whole == SubSeq(file.body, 1, read_amnt - 1)
       IN  {whole} \cup {Append(whole, g) : g \in Garbled \cup {Blank}}

\* The text is not terminated: what is in memory behind it goes on in its last
\* line, and may be further lines, of which there is one here at most.
Residue == IF "residue" \in faults THEN Garbled \cup {Blank} ELSE {}

Continued(body) ==
  {body} \cup {[body EXCEPT ![Len(body)] = g] :
                 g \in IF body # <<>> THEN Residue \ {Blank} ELSE {}}

Extended(body) ==
  Continued(body) \cup {Append(b, g) : b \in Continued(body), g \in Residue}

\* read returns 0 at the end of the file, and when it is asked for 0 bytes.
EndOfFile ==
  /\ stage = "read"
  /\ read_amnt \in {Size, PROG_SZ_MAX}
  /\ \E kept \in Kept : \E body \in Extended(kept) :
       text' = [header |-> file.header, body |-> body]
  /\ stage' = "parse"
  /\ UNCHANGED <<phase, faults, file, read_amnt, cfg, instrs, line, operands, differences>>

-----------------------------------------------------------------------------
(* instructions_parse of phases 1 and 3. *)

\* strtoul of the tokens.
HeaderNumbers ==
  Fields(text.header[1].val, text.header[2].val, text.header[3].val, text.header[4].val)

\* No newline fails an assertion; a missing token is a NULL for strtoul.
HeaderFails == text.body = <<>> \/ Len(text.header) < 4

ParseHeader ==
  /\ stage = "parse" /\ phase # 2 /\ ~HeaderFails
  /\ cfg' = HeaderNumbers
  /\ stage' = "lines"
  /\ UNCHANGED <<phase, faults, file, read_amnt, text, instrs, line, operands, differences>>

HeaderAbort == stage = "parse" /\ phase # 2 /\ HeaderFails /\ Goto("aborted")

SplitLines ==
  /\ stage = "lines" /\ ~LinesAborts(text.body)
  /\ instrs' = Zeroed(Count(text.body))
  /\ stage' = "line"
  /\ UNCHANGED <<phase, faults, file, read_amnt, text, cfg, line, operands, differences>>

SplitAbort == stage = "lines" /\ LinesAborts(text.body) /\ Goto("aborted")

\* The first format that sscanf matches.  The format of RI also matches a
\* line with a base register.
ShapeOf(l) ==
  CASE Matches("FMT_RRR", l) -> "FMT_RRR"
    [] Matches("FMT_RRI", l) -> "FMT_RRI"
    [] Matches("FMT_ROR", l) -> "FMT_ROR"
    [] Matches("FMT_RI", l) /\ ~Matches("FMT_ROR", l) -> "FMT_RI"
    [] l = [name |-> "ECALL", args |-> <<>>, form |-> "plain"] -> "FMT_ECALL"
    [] OTHER -> "FMT_ERROR"

\* An instruction with the operands v in the order of its format.
Fill(op, addr, fmt, v) ==
  [inst_no |-> op, inst_addr |-> addr, fmt_type |-> fmt,
   rd  |-> IF Shapes(fmt) # <<>> THEN v[1] ELSE 0,
   rs1 |-> IF fmt \in {"FMT_RRR", "FMT_RRI"} THEN v[2] ELSE IF fmt = "FMT_ROR" THEN v[3] ELSE 0,
   rs2 |-> IF fmt = "FMT_RRR" THEN v[3] ELSE 0,
   imm |-> IF fmt \in {"FMT_ROR", "FMT_RI"} THEN v[2] ELSE IF fmt = "FMT_RRI" THEN v[3] ELSE 0]

\* Mutation of LineAddress: instructions counted from one.
LineAddressFromOne == cfg.instr_lower + 4 * line

LineAddress == cfg.instr_lower + 4 * (line - 1)

ParseLine ==
  /\ stage = "line" /\ phase # 2 /\ line <= Len(instrs)
  /\ LET l == text.body[line] fmt == ShapeOf(l)
     IN  /\ fmt # "FMT_ERROR"
         /\ instrs' = [instrs EXCEPT ![line] =
              Fill(instr_num(l.name), LineAddress, fmt,
                   [n \in DOMAIN l.args |-> Truncate(l.args[n].val)])]
  /\ line' = line + 1
  /\ UNCHANGED <<phase, faults, file, stage, read_amnt, text, cfg, operands, differences>>

\* A line of no shape leaves the zeros of calloc in the array.
SkipLine ==
  /\ stage = "line" /\ phase # 2 /\ line <= Len(instrs)
  /\ ShapeOf(text.body[line]) = "FMT_ERROR"
  /\ line' = line + 1
  /\ UNCHANGED <<phase, faults, file, stage, read_amnt, text, cfg, instrs, operands, differences>>

\* After free_lines.
LinesParsed ==
  /\ stage = "line" /\ phase # 2 /\ line > Len(instrs)
  /\ Goto(IF phase = 1 THEN "validate" ELSE "compare")

\* values[0] to values[3]: the main of phase 1 converts the header again.
HeaderConfirmed ==
  <<cfg.instr_lower, cfg.instr_upper, cfg.entry_address, cfg.memory_sz>>
    = [n \in 1 .. 4 |-> text.header[n].val]

ValidateHeader ==
  /\ stage = "validate"
  /\ Goto(IF HeaderConfirmed THEN "compare" ELSE "failed")

-----------------------------------------------------------------------------
(* instructions_parse of phase 2. *)

\* Each field is an array of ten characters, and they are adjacent: the
\* terminator of a wide field is overwritten by the 0 of the next field's 0x.
ScannedField(n, junk) ==
  IF n > Len(text.header) THEN junk
  ELSE IF text.header[n].wide /\ n < 4 /\ n < Len(text.header) THEN text.header[n].val * 16
  ELSE text.header[n].val

\* lines is called with the header; its last line is no instruction.
Phase2Lines ==
  /\ stage = "parse" /\ phase = 2
  /\ text.header # <<>> /\ ~LinesAborts(text.body)
  /\ \E junk \in Stale :
       /\ cfg' = Fields(ScannedField(1, junk), ScannedField(2, junk),
                        ScannedField(3, junk), ScannedField(4, junk))
       /\ instrs' = [n \in 1 .. Count(text.body) |-> [ZeroInstruction EXCEPT !.inst_addr = junk]]
  /\ stage' = "line"
  /\ UNCHANGED <<phase, faults, file, read_amnt, text, line, operands, differences>>

Phase2Abort ==
  /\ stage = "parse" /\ phase = 2
  /\ text.header = <<>> \/ LinesAborts(text.body)
  /\ Goto("aborted")

\* Mutation of OpcodeFormat: the format is the one the line is written in.
OpcodeFormatByShape(l) == ShapeOf(l)

OpcodeFormat(l) == instr_format(instr_num(l.name))

\* The operands of a line; those that sscanf does not reach keep the value
\* of an earlier line.  A blank after a comma stops it before a register.
Scanned(fmt, l) ==
  [n \in 1 .. 3 |->
     IF Converts(fmt, l, n) /\ (l.form = "spaced" => \A m \in 2 .. n : Shapes(fmt)[m] # "reg")
     THEN Truncate(l.args[n].val) ELSE operands[n]]

Phase2Line ==
  /\ stage = "line" /\ phase = 2 /\ line <= Len(instrs)
  /\ LET l == text.body[line] fmt == OpcodeFormat(l)
     IN  /\ operands' = Scanned(fmt, l)
         /\ instrs' = [instrs EXCEPT ![line] =
              Fill(instr_num(l.name), IF fmt = "FMT_ECALL" THEN 17 ELSE @.inst_addr,
                   fmt, Scanned(fmt, l))]
  /\ line' = line + 1
  /\ UNCHANGED <<phase, faults, file, stage, read_amnt, text, cfg, differences>>

Phase2Parsed == stage = "line" /\ phase = 2 /\ line > Len(instrs) /\ Goto("compare")

-----------------------------------------------------------------------------
(* The comparison. *)

\* stringify_program: one line per instruction, the last without a newline.
Written == [n \in DOMAIN instrs |-> Stringify(instrs[n])]

\* Mutation of SameText: only the names of the instructions are compared.
SameNames ==
  /\ Len(text.body) = Len(instrs)
  /\ \A n \in DOMAIN instrs : text.body[n].name = Written[n].name

SameText == text.body = Written

NoFormat == \E n \in DOMAIN instrs : instrs[n].fmt_type = "FMT_ERROR"

StringifyExits == stage = "compare" /\ NoFormat /\ Goto("failed")

Accept ==
  /\ stage = "compare" /\ instrs # <<>> /\ ~NoFormat
  /\ SameText
  /\ Goto("accepted")

\* What the assertion says, and the assertions of `lines` before it.
LinesAgree == Count(text.body) = Len(instrs) /\ ~LinesAborts(text.body)

\* The numbers of lines are asserted to be equal before the list is written.
Reject ==
  /\ stage = "compare" /\ instrs # <<>> /\ ~NoFormat
  /\ ~SameText
  /\ stage' = IF LinesAgree THEN "rejected" ELSE "aborted"
  /\ differences' = {n \in DOMAIN instrs : LinesAgree /\ text.body[n] # Written[n]}
  /\ UNCHANGED <<phase, faults, file, read_amnt, text, cfg, instrs, line, operands>>

\* Without an instruction the text is compared with memory that was never
\* written; a file without a newline fails an assertion first.
CompareNothing ==
  /\ stage = "compare" /\ instrs = <<>>
  /\ \E s \in {"accepted", "rejected", "aborted"} :
       (text.body = <<>> => s = "aborted") /\ Goto(s)

-----------------------------------------------------------------------------
Over == stage \in {"accepted", "rejected", "failed", "aborted"}

LoadStep ==
  \/ Read \/ ReadError \/ EndOfFile
  \/ ParseHeader \/ HeaderAbort \/ SplitLines \/ SplitAbort
  \/ ParseLine \/ SkipLine \/ LinesParsed \/ ValidateHeader
  \/ Phase2Lines \/ Phase2Abort \/ Phase2Line \/ Phase2Parsed
  \/ StringifyExits \/ Accept \/ Reject \/ CompareNothing

LoadNext == LoadStep \/ (Over /\ UNCHANGED loadvars)

LoadSpec == LoadInit /\ [][LoadNext]_loadvars

\* The loader is one thread that waits for nothing but its input, which is
\* a file.
FairLoadSpec == LoadSpec /\ WF_loadvars(LoadStep)

-----------------------------------------------------------------------------
(* Properties. *)

LoadTypeOK ==
  /\ phase \in {1, 2, 3} /\ faults \subseteq {"read", "residue"}
  /\ file \in File /\ text \in File
  /\ stage \in LoadStage
  /\ read_amnt \in 0 .. PROG_SZ_MAX
  /\ cfg \in HeaderFields
  /\ instrs \in Seq(Parsed)
  /\ line \in 1 .. Len(instrs) + 1
  /\ operands \in [1 .. 3 -> Int32]
  /\ differences \subseteq DOMAIN instrs

\* The array of phase 3 is what the loop takes it for: instruction k is at
\* instr_lower + 4 * (k - 1).  The comparison cannot tell, as addresses are
\* not part of the text; a line that was skipped has address zero, and only
\* the text of its zeros, which no skipped line can have, keeps it out.
AcceptedIsPlaced ==
  stage = "accepted" /\ phase # 2 =>
    \A n \in DOMAIN instrs : instrs[n].inst_addr = cfg.instr_lower + 4 * (n - 1)

\* Phase 2 only accepts opcodes of the table, in their format, which is what
\* processor_emulate_regops takes its operands from.
AcceptedIsWellFormed ==
  stage = "accepted" /\ phase = 2 => \A n \in DOMAIN instrs : WellFormed(instrs[n])

\* The assertions and the pointers of the loader fail on malformed files
\* only: one without a header or without an instruction, or with an empty
\* line in it.  They do not fail on a newline at the end, on what a line
\* says, nor when the texts differ.
AbortsOnlyOnMalformed ==
  stage = "aborted" =>
    \/ Len(text.header) < 4 \/ text.body \in {<<>>, <<Blank>>}
    \/ \E n \in 1 .. Len(text.body) - 1 : text.body[n] = Blank
=============================================================================
