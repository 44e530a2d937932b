---------------------------- MODULE LoaderProofs ----------------------------
(***************************************************************************)
(* Theorems about the loader of the three phases, for every file, size of  *)
(* the buffer, and content of memory that was not written.                 *)
(***************************************************************************)
EXTENDS Loader, TLAPS

-----------------------------------------------------------------------------
(* Text. *)

\* What %d stores is an `int`, and it stores an `int` as it is.
LEMMA TruncateFacts ==
  ASSUME NEW n \in Int
  PROVE  Truncate(n) \in Int32 /\ (n \in Int32 => Truncate(n) = n)
<1>. DEFINE m == 2 * (INT_MAX + 1)
            s == n + INT_MAX + 1
<1>1. m \in Nat /\ m > 0 /\ s \in Int
  BY TextAssumption
<1>2. s % m \in 0 .. m - 1
  BY <1>1
<1>3. ASSUME n \in Int32 PROVE s % m = s
  <2>1. s \in 0 .. m - 1
    BY <1>3, TextAssumption DEF Int32
  <2>. QED
    BY <2>1, <1>1
<1>4. Truncate(n) = (s % m) - (INT_MAX + 1)
  BY DEF Truncate
<1>. HIDE DEF s
<1>5. Truncate(n) \in Int32
  BY <1>2, <1>4, TextAssumption DEF Int32
<1>6. ASSUME n \in Int32 PROVE Truncate(n) = n
  BY <1>3, <1>4, <1>6, TextAssumption DEF Int32, s
<1>. QED
  BY <1>5, <1>6

\* Operands carry numbers.
LEMMA OperandVal ==
  ASSUME NEW a \in Seq(Operand)
  PROVE  Len(a) \in Nat /\ \A n \in 1 .. Len(a) : a[n].val \in Int
<1>1. \A o \in Operand : o.val \in Int
  BY DEF Operand
<1>2. \A n \in 1 .. Len(a) : a[n] \in Operand
  OBVIOUS
<1>. QED
  BY <1>1, <1>2

\* The parts of a line.
LEMMA LineParts ==
  ASSUME NEW l \in Line
  PROVE  /\ l.args \in Seq(Operand)
         /\ Len(l.args) \in Nat
         /\ \A n \in 1 .. Len(l.args) : l.args[n].val \in Int
         /\ l.name \in Mnemonic \cup {""}
         /\ l.form \in Form
<1>1. Blank.args = <<>> /\ Blank.name = "" /\ Blank.form = "plain"
  BY DEF Blank
<1>2. l \in [name : Mnemonic, args : Seq(Operand), form : Form] \/ l = Blank
  BY DEF Line
<1>3. l.args \in Seq(Operand) /\ l.name \in Mnemonic \cup {""} /\ l.form \in Form
  <2>1. CASE l = Blank
    <3>1. <<>> \in Seq(Operand)
      OBVIOUS
    <3>. QED
      BY <1>1, <2>1, <3>1 DEF Form
  <2>2. CASE l # Blank
    BY <1>2, <2>2
  <2>. QED
    BY <2>1, <2>2
<1>. QED
  BY <1>3, OperandVal

\* Instructions have opcodes, and opcodes formats.
LEMMA OpcodeFacts ==
  ASSUME NEW name
  PROVE  /\ instr_num(name) \in Opcode
         /\ instr_format(name) \in Format
         /\ OpcodeFormat([name |-> name]) \in Format
BY DEF instr_num, Known, Opcode, instr_format, Format, OpcodeFormat

\* The name table can be read in both directions; what it does not have is
\* written "(null)", which is not in it either.
LEMMA NamesAreInverse ==
  /\ \A op \in Opcode : instr_num(instr_name(op)) = op
  /\ \A name \in Known : instr_name(instr_num(name)) = name
<1>1. Opcode = Known \cup {"INSTRINVALID"}
  BY DEF Opcode, Known
<1>2. "INSTRINVALID" \notin Known /\ "(null)" \notin Known
  BY DEF Known, RRR, RRI, RI, ROR
<1>. QED
  BY <1>1, <1>2 DEF instr_num, instr_name

\* A format asks for at most three operands.
LEMMA ShapesFacts ==
  ASSUME NEW fmt
  PROVE  Len(Shapes(fmt)) \in 0 .. 3
BY DEF Shapes

\* A record of operands of the right type is an instruction that a parser may
\* store.
LEMMA FillType ==
  ASSUME NEW op \in Opcode, NEW addr \in Nat, NEW fmt \in Format, NEW v,
         \A n \in 1 .. Len(Shapes(fmt)) : v[n] \in Int32
  PROVE  Fill(op, addr, fmt, v) \in Parsed
<1>0. 0 \in Int32
  BY TextAssumption DEF Int32
<1>1. CASE fmt = "FMT_RRR"
  <2>1. Len(Shapes(fmt)) = 3 /\ Shapes(fmt) # <<>>
    BY <1>1 DEF Shapes
  <2>2. v[1] \in Int32 /\ v[2] \in Int32 /\ v[3] \in Int32
    BY <2>1
  <2>. QED
    BY <1>0, <1>1, <2>1, <2>2 DEF Fill, Parsed
<1>2. CASE fmt = "FMT_RRI"
  <2>1. Len(Shapes(fmt)) = 3 /\ Shapes(fmt) # <<>>
    BY <1>2 DEF Shapes
  <2>2. v[1] \in Int32 /\ v[2] \in Int32 /\ v[3] \in Int32
    BY <2>1
  <2>. QED
    BY <1>0, <1>2, <2>1, <2>2 DEF Fill, Parsed
<1>3. CASE fmt = "FMT_ROR"
  <2>1. Len(Shapes(fmt)) = 3 /\ Shapes(fmt) # <<>>
    BY <1>3 DEF Shapes
  <2>2. v[1] \in Int32 /\ v[2] \in Int32 /\ v[3] \in Int32
    BY <2>1
  <2>. QED
    BY <1>0, <1>3, <2>1, <2>2 DEF Fill, Parsed
<1>4. CASE fmt = "FMT_RI"
  <2>1. Len(Shapes(fmt)) = 2 /\ Shapes(fmt) # <<>>
    BY <1>4 DEF Shapes
  <2>2. v[1] \in Int32 /\ v[2] \in Int32
    BY <2>1
  <2>. QED
    BY <1>0, <1>4, <2>1, <2>2 DEF Fill, Parsed
<1>5. CASE fmt \in {"FMT_ECALL", "FMT_ERROR"}
  <2>1. Shapes(fmt) = <<>>
    BY <1>5 DEF Shapes
  <2>. QED
    BY <1>0, <1>5, <2>1 DEF Fill, Parsed
<1>. QED
  BY <1>1, <1>2, <1>3, <1>4, <1>5 DEF Format

\* sscanf has filled as many operands as the format of the line asks for.
LEMMA ShapeOfFacts ==
  ASSUME NEW l \in Line
  PROVE  /\ ShapeOf(l) \in Format
         /\ ShapeOf(l) # "FMT_ERROR" => Len(Shapes(ShapeOf(l))) <= Len(l.args)
<1>1. ShapeOf(l) \in Format
  BY DEF ShapeOf, Format
<1>2. ASSUME NEW fmt, Matches(fmt, l) PROVE Len(Shapes(fmt)) <= Len(l.args)
  BY <1>2 DEF Matches, Converts
<1>3. CASE ShapeOf(l) = "FMT_ECALL"
  <2>1. Shapes("FMT_ECALL") = <<>> /\ Len(<<>>) = 0
    BY DEF Shapes
  <2>2. Len(l.args) \in Nat
    BY LineParts
  <2>. QED
    BY <1>1, <1>3, <2>1, <2>2
<1>4. CASE ShapeOf(l) \notin {"FMT_ECALL", "FMT_ERROR"}
  <2>1. Matches(ShapeOf(l), l)
    BY <1>4 DEF ShapeOf
  <2>. QED
    BY <1>1, <1>2, <2>1
<1>. QED
  BY <1>1, <1>3, <1>4

-----------------------------------------------------------------------------
(* The buffer. *)

\* A file is a header and lines.
LEMMA FileParts ==
  ASSUME NEW f \in File
  PROVE  /\ f.header \in Seq(Field) /\ Len(f.header) \in Nat
         /\ f.body \in Seq(Line) /\ Len(f.body) \in Nat
<1>1. f.header \in Seq(Field) /\ f.body \in Seq(Line)
  BY DEF File
<1>2. \A h \in Seq(Field) : Len(h) \in Nat
  OBVIOUS
<1>3. \A b \in Seq(Line) : Len(b) \in Nat
  OBVIOUS
<1>. QED
  BY <1>1, <1>2, <1>3

\* Changing a line of a text leaves a text.
LEMMA ReplaceLine ==
  ASSUME NEW b \in Seq(Line), b # <<>>, NEW g \in Line
  PROVE  [b EXCEPT ![Len(b)] = g] \in Seq(Line)
OBVIOUS

\* However the file was cut and whatever is behind it, lines are parsed.
LEMMA BufferType ==
  ASSUME file \in File, read_amnt \in 1 .. Size,
         NEW kept \in Kept, NEW body \in Extended(kept)
  PROVE  body \in Seq(Line)
<1>. DEFINE b == file.body
            whole == SubSeq(b, 1, read_amnt - 1)
<1>1. b \in Seq(Line) /\ Len(b) \in Nat
  BY FileParts
<1>. HIDE DEF b
<1>2. read_amnt - 1 \in 0 .. Len(b)
  BY <1>1 DEF Size, b
<1>3. whole \in Seq(Line)
  BY <1>1, <1>2
<1>4. Blank \in Line /\ Garbled \subseteq Line
  BY LoaderAssumption DEF Line
<1>. HIDE DEF whole
<1>5. \A g \in Garbled \cup {Blank} : Append(whole, g) \in Seq(Line)
  BY <1>3, <1>4
<1>6. kept \in Seq(Line)
  <2>1. kept \in {b} \/ kept \in {whole} \cup {Append(whole, g) : g \in Garbled \cup {Blank}}
    BY DEF Kept, whole, b
  <2>. QED
    BY <1>1, <1>3, <1>5, <2>1
<1>7. Residue \subseteq Line
  BY <1>4 DEF Residue
<1>8. Continued(kept) \subseteq Seq(Line)
  <2>. SUFFICES ASSUME NEW c \in Continued(kept) PROVE c \in Seq(Line)
    OBVIOUS
  <2>1. c = kept \/ (kept # <<>> /\ \E g \in Residue : c = [kept EXCEPT ![Len(kept)] = g])
    BY DEF Continued
  <2>. QED
    BY <1>6, <1>7, <2>1, ReplaceLine
<1>9. body \in Continued(kept) \/ \E c \in Continued(kept), g \in Residue : body = Append(c, g)
  BY DEF Extended
<1>. QED
  BY <1>7, <1>8, <1>9

\* The number of strings that `lines` makes of a text.
LEMMA CountFacts ==
  ASSUME NEW b \in Seq(Line)
  PROVE  /\ Count(b) \in Nat
         /\ Count(b) <= Len(b)
         /\ Count(b) = 0 => b = <<>> \/ b = <<Blank>>
         /\ LinesAborts(b) => \E n \in 1 .. Len(b) - 1 : b[n] = Blank
<1>1. Len(b) \in Nat /\ (Len(b) = 0 <=> b = <<>>)
  OBVIOUS
<1>2. Count(b) \in Nat /\ Count(b) <= Len(b)
  BY <1>1 DEF Count
<1>3. ASSUME Count(b) = 0, b # <<>> PROVE b = <<Blank>>
  <2>1. Len(b) = 1 /\ b[1] = Blank
    BY <1>1, <1>3 DEF Count
  <2>. QED
    BY <2>1
<1>4. ASSUME NEW n \in 1 .. Count(b), b[n] = Blank PROVE n \in 1 .. Len(b) - 1
  BY <1>1, <1>4 DEF Count
<1>. QED
  BY <1>2, <1>3, <1>4 DEF LinesAborts

-----------------------------------------------------------------------------
(* The invariant. *)

HeaderRead == {"lines", "line", "validate", "compare", "accepted"}
Split      == {"line", "validate", "compare", "accepted"}
Parsing    == {"validate", "compare", "accepted"}

\* The numbers in use are those of the header.
Configured ==
  stage \in HeaderRead
  /\ (phase # 2 \/ (Len(text.header) >= 4 /\ \A n \in 1 .. 4 : ~text.header[n].wide)) =>
    HeaderConfirmed

\* There is an instruction for each line, and none of them is empty.
OnePerLine ==
  /\ stage \in Split => Len(instrs) = Count(text.body) /\ ~LinesAborts(text.body)
  /\ stage \in Parsing => line = Len(instrs) + 1

\* A line that was parsed is placed; one that was not left zeros, and has no
\* shape.
PlacedOrSkipped(n) ==
  \/ instrs[n].inst_addr = cfg.instr_lower + 4 * (n - 1)
  \/ instrs[n] = ZeroInstruction /\ ShapeOf(text.body[n]) = "FMT_ERROR"

Placing ==
  stage \in Split /\ phase # 2 =>
    \A n \in DOMAIN instrs :
      IF n < line THEN PlacedOrSkipped(n) ELSE instrs[n] = ZeroInstruction

Formatted ==
  stage \in Split /\ phase = 2 =>
    \A n \in DOMAIN instrs : n < line => instrs[n].fmt_type = instr_format(instrs[n].inst_no)

LoadInv ==
  /\ LoadTypeOK
  /\ read_amnt <= Size
  /\ stage \in {"read", "parse", "lines"} => line = 1 /\ instrs = <<>>
  /\ Configured
  /\ OnePerLine
  /\ Placing
  /\ Formatted
  /\ AcceptedIsPlaced
  /\ AcceptedIsWellFormed
  /\ AbortsOnlyOnMalformed

-----------------------------------------------------------------------------
(* Every action keeps the invariant. *)

LEMMA LoadInitInv == LoadInit => LoadInv
<1>. SUFFICES ASSUME LoadInit PROVE LoadInv
  OBVIOUS
<1>. USE DEF LoadInit
<1>1. operands \in [1 .. 3 -> Int32]
  <2>1. Stale \subseteq Int32 /\ 0 \in Int32
    BY LoaderAssumption, TextAssumption DEF Int32
  <2>2. operands \in [1 .. 3 -> Stale] \/ operands = [n \in 1 .. 3 |-> 0]
    OBVIOUS
  <2>. QED
    BY <2>1, <2>2
<1>2. text \in File
  BY DEF NothingRead, File
<1>3. cfg \in HeaderFields
  BY DEF Fields, HeaderFields
<1>4. instrs \in Seq(Parsed) /\ Len(instrs) = 0 /\ differences \subseteq DOMAIN instrs
  OBVIOUS
<1>5. file \in File /\ Size \in Nat \ {0}
  BY LoaderAssumption, FileParts DEF Size
<1>6. LoadTypeOK
  BY <1>1, <1>2, <1>3, <1>4, <1>5, LoaderAssumption DEF LoadTypeOK, LoadStage
<1>. QED
  BY <1>5, <1>6 DEF LoadInv, Configured, HeaderRead, OnePerLine, Split, Parsing, Placing,
     Formatted, AcceptedIsPlaced, AcceptedIsWellFormed, AbortsOnlyOnMalformed

\* What holds of the data is not disturbed by going to a point where no more
\* is claimed of them.
LEMMA GotoInv ==
  ASSUME LoadInv, NEW s \in LoadStage, Goto(s),
         s \in HeaderRead => stage \in HeaderRead,
         s \in Split => stage \in Split,
         s \in Parsing => stage \in Parsing \/ (stage = "line" /\ line > Len(instrs)),
         s \notin {"read", "parse", "lines"},
         s = "accepted" => AcceptedIsPlaced' /\ AcceptedIsWellFormed',
         s = "aborted" => AbortsOnlyOnMalformed'
  PROVE  LoadInv'
<1>. USE DEF Goto, LoadInv
<1>1. LoadTypeOK' /\ read_amnt' <= Size'
  BY DEF LoadTypeOK, Size
<1>2. Configured'
  BY DEF Configured, HeaderRead, HeaderConfirmed
<1>3. OnePerLine'
  <2>1. Len(instrs) \in Nat
    BY DEF LoadTypeOK
  <2>. QED
    BY <2>1 DEF OnePerLine, LoadTypeOK
<1>4. Placing' /\ Formatted'
  BY DEF Placing, Formatted, PlacedOrSkipped
<1>5. AcceptedIsPlaced' /\ AcceptedIsWellFormed' /\ AbortsOnlyOnMalformed'
  BY DEF AcceptedIsPlaced, AcceptedIsWellFormed, AbortsOnlyOnMalformed
<1>. QED
  BY <1>1, <1>2, <1>3, <1>4, <1>5

LEMMA ReadInv ==
  ASSUME LoadInv, Read
  PROVE  LoadInv'
<1>. USE DEF Read, LoadInv
<1>1. LoadTypeOK' /\ read_amnt' <= Size'
  BY LoaderAssumption DEF LoadTypeOK, Size
<1>. QED
  BY <1>1 DEF Configured, HeaderRead, OnePerLine, Split, Parsing, Placing, Formatted,
     AcceptedIsPlaced, AcceptedIsWellFormed, AbortsOnlyOnMalformed

LEMMA EndOfFileInv ==
  ASSUME LoadInv, EndOfFile
  PROVE  LoadInv'
<1>. USE DEF EndOfFile, LoadInv
<1>1. file \in File /\ read_amnt \in 1 .. Size
  BY LoaderAssumption, FileParts DEF LoadTypeOK, Size
<1>2. PICK kept \in Kept : \E body \in Extended(kept) :
        text' = [header |-> file.header, body |-> body]
  OBVIOUS
<1>3. PICK body \in Extended(kept) : text' = [header |-> file.header, body |-> body]
  BY <1>2
<1>4. body \in Seq(Line)
  BY <1>1, BufferType
<1>5. text' \in File
  BY <1>1, <1>3, <1>4, FileParts DEF File
<1>6. LoadTypeOK' /\ read_amnt' <= Size'
  BY <1>5 DEF LoadTypeOK, LoadStage, Size
<1>. QED
  BY <1>6 DEF Configured, HeaderRead, OnePerLine, Split, Parsing, Placing, Formatted,
     AcceptedIsPlaced, AcceptedIsWellFormed, AbortsOnlyOnMalformed

\* The numbers of a header of four fields are the configuration.
LEMMA HeaderNumbersFacts ==
  ASSUME text \in File, Len(text.header) >= 4
  PROVE  /\ \A n \in 1 .. 4 : text.header[n].val \in Nat
         /\ HeaderNumbers \in HeaderFields
         /\ cfg' = HeaderNumbers /\ text' = text => HeaderConfirmed'
<1>1. text.header \in Seq(Field)
  BY FileParts
<1>2. \A h \in Seq(Field) : Len(h) >= 4 => \A n \in 1 .. 4 : h[n] \in Field
  OBVIOUS
<1>3. \A f \in Field : f.val \in Nat
  BY DEF Field
<1>4. \A n \in 1 .. 4 : text.header[n].val \in Nat
  BY <1>1, <1>2, <1>3
<1>5. HeaderNumbers \in HeaderFields
  BY <1>4 DEF HeaderNumbers, Fields, HeaderFields
<1>6. ASSUME cfg' = HeaderNumbers, text' = text
      PROVE  HeaderConfirmed'
  BY <1>6 DEF HeaderConfirmed, HeaderNumbers, Fields
<1>. QED
  BY <1>4, <1>5, <1>6

LEMMA ParseHeaderInv ==
  ASSUME LoadInv, ParseHeader
  PROVE  LoadInv'
<1>. USE DEF ParseHeader, LoadInv
<1>1. text \in File /\ Len(text.header) >= 4
  <2>1. text \in File
    BY DEF LoadTypeOK
  <2>. QED
    BY <2>1, FileParts DEF HeaderFails
<1>2. cfg' \in HeaderFields /\ HeaderConfirmed'
  BY <1>1, HeaderNumbersFacts
<1>3. LoadTypeOK' /\ read_amnt' <= Size'
  BY <1>2 DEF LoadTypeOK, LoadStage, Size
<1>. QED
  BY <1>2, <1>3 DEF Configured, OnePerLine, Split, Parsing, Placing, Formatted,
     AcceptedIsPlaced, AcceptedIsWellFormed, AbortsOnlyOnMalformed

\* calloc and malloc.
LEMMA ZeroedFacts ==
  ASSUME NEW c \in Nat
  PROVE  /\ Zeroed(c) \in Seq(Parsed)
         /\ Len(Zeroed(c)) = c
         /\ \A n \in 1 .. c : Zeroed(c)[n] = ZeroInstruction
<1>1. ZeroInstruction \in Parsed
  BY TextAssumption DEF ZeroInstruction, Parsed, Opcode, Format, Int32
<1>2. Zeroed(c) \in Seq(Parsed) /\ Len(Zeroed(c)) = c
  BY <1>1 DEF Zeroed
<1>. QED
  BY <1>2 DEF Zeroed

LEMMA SplitLinesInv ==
  ASSUME LoadInv, SplitLines
  PROVE  LoadInv'
<1>. USE DEF SplitLines, LoadInv
<1>. DEFINE c == Count(text.body)
<1>1. c \in Nat
  BY FileParts, CountFacts DEF LoadTypeOK
<1>2. instrs' \in Seq(Parsed) /\ Len(instrs') = c /\ \A n \in 1 .. c : instrs'[n] = ZeroInstruction
  BY <1>1, ZeroedFacts
<1>. HIDE DEF c
<1>3. LoadTypeOK' /\ read_amnt' <= Size'
  <2>1. differences = {}
    BY DEF LoadTypeOK
  <2>. QED
    BY <1>1, <1>2, <2>1 DEF LoadTypeOK, LoadStage, Size
<1>4. Configured'
  BY DEF Configured, HeaderRead, HeaderConfirmed
<1>5. OnePerLine'
  BY <1>2 DEF OnePerLine, Parsing, c
<1>6. Placing' /\ Formatted'
  <2>1. phase # 2 \/ phase = 2
    OBVIOUS
  <2>2. DOMAIN instrs' = 1 .. c
    BY <1>2
  <2>3. \A n \in 1 .. c : ~(n < 1)
    BY <1>1
  <2>. QED
    BY <1>2, <2>2, <2>3 DEF Placing, Formatted
<1>. QED
  BY <1>3, <1>4, <1>5, <1>6 DEF AcceptedIsPlaced, AcceptedIsWellFormed, AbortsOnlyOnMalformed

\* The entry of one line is all that parsing it changes.
LEMMA EntryFacts ==
  ASSUME LoadTypeOK, line <= Len(instrs), NEW inst \in Parsed,
         instrs' = [instrs EXCEPT ![line] = inst]
  PROVE  /\ instrs' \in Seq(Parsed) /\ Len(instrs') = Len(instrs)
         /\ DOMAIN instrs' = DOMAIN instrs
         /\ instrs'[line] = inst
         /\ \A n \in DOMAIN instrs : n # line => instrs'[n] = instrs[n]
BY DEF LoadTypeOK

\* The line that is parsed next is a line of the text.
LEMMA LineToParse ==
  ASSUME LoadInv, stage = "line", line <= Len(instrs)
  PROVE  /\ line \in DOMAIN instrs /\ line \in Nat
         /\ line \in DOMAIN text.body
         /\ text.body[line] \in Line
         /\ LineAddress \in Nat
<1>. USE DEF LoadInv
<1>1. text.body \in Seq(Line) /\ Len(instrs) = Count(text.body)
  BY FileParts DEF LoadTypeOK, OnePerLine, Split
<1>2. Count(text.body) <= Len(text.body) /\ Len(text.body) \in Nat
  BY <1>1, CountFacts
<1>3. line \in 1 .. Len(instrs) /\ line \in 1 .. Len(text.body)
  BY <1>1, <1>2 DEF LoadTypeOK
<1>4. line \in DOMAIN instrs
  BY <1>3 DEF LoadTypeOK
<1>5. \A b \in Seq(Line), k \in 1 .. Len(text.body) :
        b = text.body => k \in DOMAIN b /\ b[k] \in Line
  OBVIOUS
<1>6. line \in DOMAIN text.body /\ text.body[line] \in Line
  BY <1>1, <1>3, <1>5
<1>7. LineAddress \in Nat
  BY <1>3 DEF LineAddress, LoadTypeOK, HeaderFields
<1>. QED
  BY <1>3, <1>4, <1>6, <1>7

LEMMA ParseLineInv ==
  ASSUME LoadInv, ParseLine
  PROVE  LoadInv'
<1>. USE DEF LoadInv
<1>. DEFINE l == text.body[line]
            v == [n \in DOMAIN l.args |-> Truncate(l.args[n].val)]
            inst == Fill(instr_num(l.name), LineAddress, ShapeOf(l), v)
<1>1. /\ stage = "line" /\ phase # 2 /\ line <= Len(instrs) /\ ShapeOf(l) # "FMT_ERROR"
      /\ instrs' = [instrs EXCEPT ![line] = inst] /\ line' = line + 1
      /\ UNCHANGED <<phase, faults, file, stage, read_amnt, text, cfg, operands, differences>>
  BY DEF ParseLine
<1>2. l \in Line /\ LineAddress \in Nat /\ line \in DOMAIN instrs /\ line \in Nat
  BY <1>1, LineToParse
<1>3. inst \in Parsed
  <2>. HIDE DEF l
  <2>1. /\ l.args \in Seq(Operand) /\ Len(l.args) \in Nat
        /\ \A n \in 1 .. Len(l.args) : l.args[n].val \in Int
    BY <1>2, LineParts
  <2>2. DOMAIN l.args = 1 .. Len(l.args)
    BY <2>1
  <2>3. \A n \in 1 .. Len(l.args) : v[n] \in Int32
    BY <2>1, <2>2, TruncateFacts
  <2>4. Len(Shapes(ShapeOf(l))) \in 0 .. 3 /\ Len(Shapes(ShapeOf(l))) <= Len(l.args)
        /\ ShapeOf(l) \in Format
    BY <1>1, <1>2, ShapeOfFacts, ShapesFacts DEF l
  <2>. HIDE DEF v
  <2>5. \A n \in 1 .. Len(Shapes(ShapeOf(l))) : v[n] \in Int32
    BY <2>1, <2>3, <2>4
  <2>6. instr_num(l.name) \in Opcode
    BY OpcodeFacts
  <2>. QED
    BY <1>2, <2>4, <2>5, <2>6, FillType
<1>4. inst.inst_addr = LineAddress
  BY DEF Fill
<1>. HIDE DEF inst
<1>5. /\ instrs' \in Seq(Parsed) /\ Len(instrs') = Len(instrs)
      /\ DOMAIN instrs' = DOMAIN instrs
      /\ instrs'[line] = inst
      /\ \A n \in DOMAIN instrs : n # line => instrs'[n] = instrs[n]
  BY <1>1, <1>3, EntryFacts
<1>6. LoadTypeOK' /\ read_amnt' <= Size'
  BY <1>1, <1>2, <1>5 DEF LoadTypeOK, Size
<1>7. Configured' /\ OnePerLine'
  BY <1>1, <1>5 DEF Configured, HeaderConfirmed, OnePerLine, Split, Parsing
<1>8. Placing'
  <2>. SUFFICES ASSUME NEW n \in DOMAIN instrs
                PROVE  IF n < line + 1 THEN PlacedOrSkipped(n)'
                       ELSE instrs'[n] = ZeroInstruction
    BY <1>1, <1>5 DEF Placing
  <2>0. n \in Nat
    BY DEF LoadTypeOK
  <2>1. IF n < line THEN PlacedOrSkipped(n) ELSE instrs[n] = ZeroInstruction
    BY <1>1 DEF Placing, Split
  <2>2. CASE n = line
    <3>1. n < line + 1 /\ instrs'[n].inst_addr = cfg'.instr_lower + 4 * (n - 1)
      BY <1>1, <1>2, <1>4, <1>5, <2>2 DEF LineAddress
    <3>. QED
      BY <3>1 DEF PlacedOrSkipped
  <2>3. CASE n # line
    <3>1. instrs'[n] = instrs[n] /\ (n < line + 1 <=> n < line)
      BY <1>2, <1>5, <2>0, <2>3
    <3>. QED
      BY <1>1, <2>1, <3>1 DEF PlacedOrSkipped
  <2>. QED
    BY <2>2, <2>3
<1>. QED
  BY <1>1, <1>6, <1>7, <1>8
     DEF Formatted, AcceptedIsPlaced, AcceptedIsWellFormed, AbortsOnlyOnMalformed

LEMMA SkipLineInv ==
  ASSUME LoadInv, SkipLine
  PROVE  LoadInv'
<1>. USE DEF LoadInv, SkipLine
<1>1. line \in DOMAIN instrs /\ line \in Nat
  BY LineToParse
<1>2. LoadTypeOK' /\ read_amnt' <= Size'
  BY <1>1 DEF LoadTypeOK, Size
<1>3. Configured' /\ OnePerLine'
  BY DEF Configured, HeaderConfirmed, OnePerLine, Split, Parsing
<1>4. Placing'
  <2>. SUFFICES ASSUME NEW n \in DOMAIN instrs
                PROVE  IF n < line + 1 THEN PlacedOrSkipped(n)'
                       ELSE instrs[n] = ZeroInstruction
    BY DEF Placing
  <2>0. n \in Nat
    BY DEF LoadTypeOK
  <2>1. IF n < line THEN PlacedOrSkipped(n) ELSE instrs[n] = ZeroInstruction
    BY DEF Placing, Split
  <2>2. n < line + 1 <=> n < line \/ n = line
    BY <1>1, <2>0
  <2>. QED
    BY <2>1, <2>2, <1>1 DEF PlacedOrSkipped
<1>. QED
  BY <1>2, <1>3, <1>4
     DEF Formatted, AcceptedIsPlaced, AcceptedIsWellFormed, AbortsOnlyOnMalformed

LEMMA LinesParsedInv ==
  ASSUME LoadInv, LinesParsed
  PROVE  LoadInv'
<1>. DEFINE s == IF phase = 1 THEN "validate" ELSE "compare"
<1>1. stage = "line" /\ line > Len(instrs) /\ Goto(s)
  BY DEF LinesParsed
<1>2. s \in {"validate", "compare"}
  OBVIOUS
<1>. HIDE DEF s
<1>. QED
  BY <1>1, <1>2, GotoInv DEF LoadStage, HeaderRead, Split, Parsing

LEMMA ValidateHeaderInv ==
  ASSUME LoadInv, ValidateHeader
  PROVE  LoadInv'
<1>. DEFINE s == IF HeaderConfirmed THEN "compare" ELSE "failed"
<1>1. stage = "validate" /\ Goto(s)
  BY DEF ValidateHeader
<1>2. s \in {"compare", "failed"}
  OBVIOUS
<1>. HIDE DEF s
<1>. QED
  BY <1>1, <1>2, GotoInv DEF LoadStage, HeaderRead, Split, Parsing

\* A field that is read, or not written, is a number.
LEMMA ScannedFieldType ==
  ASSUME text \in File, NEW n \in 1 .. 4, NEW junk \in Nat
  PROVE  ScannedField(n, junk) \in Nat
<1>1. text.header \in Seq(Field) /\ Len(text.header) \in Nat
  BY FileParts
<1>2. \A f \in Field : f.val \in Nat
  BY DEF Field
<1>3. \A h \in Seq(Field) : n <= Len(h) => h[n] \in Field
  OBVIOUS
<1>4. n <= Len(text.header) => text.header[n].val \in Nat
  BY <1>1, <1>2, <1>3
<1>. QED
  BY <1>1, <1>4 DEF ScannedField

\* An array of one value has the type of that value.
LEMMA FilledFacts ==
  ASSUME NEW c \in Nat, NEW z \in Parsed
  PROVE  /\ [n \in 1 .. c |-> z] \in Seq(Parsed)
         /\ Len([n \in 1 .. c |-> z]) = c
OBVIOUS

LEMMA Phase2LinesInv ==
  ASSUME LoadInv, Phase2Lines
  PROVE  LoadInv'
<1>. USE DEF LoadInv
<1>. DEFINE c == Count(text.body)
            unset(j) == [n \in 1 .. c |-> [ZeroInstruction EXCEPT !.inst_addr = j]]
<1>1. /\ stage = "parse" /\ phase = 2 /\ stage' = "line" /\ ~LinesAborts(text.body)
      /\ UNCHANGED <<phase, faults, file, read_amnt, text, line, operands, differences>>
  BY DEF Phase2Lines
<1>2. PICK junk \in Stale :
        /\ cfg' = Fields(ScannedField(1, junk), ScannedField(2, junk),
                         ScannedField(3, junk), ScannedField(4, junk))
        /\ instrs' = unset(junk)
  BY DEF Phase2Lines
<1>3. junk \in Nat /\ text \in File /\ c \in Nat /\ text.header \in Seq(Field)
  BY LoaderAssumption, TextAssumption, FileParts, CountFacts DEF LoadTypeOK
<1>4. cfg' \in HeaderFields
  BY <1>2, <1>3, ScannedFieldType DEF Fields, HeaderFields
<1>5. [ZeroInstruction EXCEPT !.inst_addr = junk] \in Parsed
  BY <1>3, TextAssumption DEF ZeroInstruction, Parsed, Opcode, Format, Int32
<1>6. instrs' \in Seq(Parsed) /\ Len(instrs') = c
  <2>. DEFINE z == [ZeroInstruction EXCEPT !.inst_addr = junk]
  <2>1. instrs' = [n \in 1 .. c |-> z] /\ z \in Parsed
    BY <1>2, <1>5
  <2>. HIDE DEF z, c
  <2>. QED
    BY <1>3, <2>1, FilledFacts
<1>. HIDE DEF c
<1>7. LoadTypeOK' /\ read_amnt' <= Size'
  <2>1. differences = {}
    BY <1>1 DEF LoadTypeOK
  <2>. QED
    BY <1>1, <1>3, <1>4, <1>6, <2>1 DEF LoadTypeOK, LoadStage, Size
<1>8. Configured'
  <2>. SUFFICES ASSUME Len(text.header) >= 4, \A n \in 1 .. 4 : ~text.header[n].wide
                PROVE  HeaderConfirmed'
    BY <1>1 DEF Configured
  <2>1. \A n \in 1 .. 4 : ScannedField(n, junk) = text.header[n].val
    BY <1>3 DEF ScannedField
  <2>2. cfg' = HeaderNumbers
    BY <1>2, <2>1 DEF HeaderNumbers
  <2>. QED
    BY <1>1, <1>3, <2>2, HeaderNumbersFacts
<1>9. OnePerLine'
  BY <1>1, <1>6 DEF OnePerLine, Parsing, c
<1>10. Placing' /\ Formatted'
  <2>1. \A n \in DOMAIN instrs' : ~(n < line')
    BY <1>1, <1>3, <1>6
  <2>. QED
    BY <1>1, <2>1 DEF Placing, Formatted
<1>. QED
  BY <1>1, <1>7, <1>8, <1>9, <1>10
     DEF AcceptedIsPlaced, AcceptedIsWellFormed, AbortsOnlyOnMalformed

\* Operands that were scanned, and those that were left, are of type `int`.
LEMMA ScannedType ==
  ASSUME LoadTypeOK, NEW l \in Line, NEW fmt
  PROVE  Scanned(fmt, l) \in [1 .. 3 -> Int32]
<1>1. ASSUME NEW n \in 1 .. 3, Converts(fmt, l, n) PROVE Truncate(l.args[n].val) \in Int32
  <2>1. n <= Len(l.args)
    BY <1>1 DEF Converts
  <2>2. Len(l.args) \in Nat
    BY LineParts
  <2>3. n \in 1 .. Len(l.args)
    BY <2>1, <2>2
  <2>4. l.args[n].val \in Int
    BY <2>3, LineParts
  <2>. QED
    BY <2>4, TruncateFacts
<1>2. operands \in [1 .. 3 -> Int32]
  BY DEF LoadTypeOK
<1>. QED
  BY <1>1, <1>2 DEF Scanned

LEMMA Phase2LineInv ==
  ASSUME LoadInv, Phase2Line
  PROVE  LoadInv'
<1>. USE DEF LoadInv
<1>. DEFINE l == text.body[line]
            fmt == OpcodeFormat(l)
            addr == IF fmt = "FMT_ECALL" THEN 17 ELSE instrs[line].inst_addr
            inst == Fill(instr_num(l.name), addr, fmt, Scanned(fmt, l))
<1>1. /\ stage = "line" /\ phase = 2 /\ line <= Len(instrs)
      /\ operands' = Scanned(fmt, l)
      /\ instrs' = [instrs EXCEPT ![line] = inst] /\ line' = line + 1
      /\ UNCHANGED <<phase, faults, file, stage, read_amnt, text, cfg, differences>>
  BY DEF Phase2Line
<1>2. l \in Line /\ line \in DOMAIN instrs /\ line \in Nat
  BY <1>1, LineToParse
<1>. HIDE DEF l
<1>3. Scanned(fmt, l) \in [1 .. 3 -> Int32]
  BY <1>2, ScannedType
<1>4. inst \in Parsed
  <2>1. instr_num(l.name) \in Opcode /\ fmt \in Format
    BY OpcodeFacts DEF OpcodeFormat
  <2>2. \A p \in Parsed : p.inst_addr \in Nat
    BY DEF Parsed
  <2>3. instrs[line] \in Parsed
    BY <1>2 DEF LoadTypeOK
  <2>4. addr \in Nat
    BY <2>2, <2>3
  <2>. HIDE DEF fmt, addr
  <2>5. \A n \in 1 .. Len(Shapes(fmt)) : Scanned(fmt, l)[n] \in Int32
    <3>. DEFINE k == Len(Shapes(fmt))
    <3>1. k \in 0 .. 3
      BY ShapesFacts
    <3>. HIDE DEF k
    <3>2. \A n \in 1 .. k : n \in 1 .. 3
      BY <3>1
    <3>3. \A n \in 1 .. k : Scanned(fmt, l)[n] \in Int32
      BY <1>3, <3>2
    <3>. QED
      BY <3>3 DEF k
  <2>. QED
    BY <2>1, <2>4, <2>5, FillType
<1>5. inst.fmt_type = instr_format(inst.inst_no)
  BY DEF Fill, OpcodeFormat
<1>. HIDE DEF inst, fmt
<1>6. /\ instrs' \in Seq(Parsed) /\ Len(instrs') = Len(instrs)
      /\ DOMAIN instrs' = DOMAIN instrs
      /\ instrs'[line] = inst
      /\ \A n \in DOMAIN instrs : n # line => instrs'[n] = instrs[n]
  BY <1>1, <1>4, EntryFacts
<1>7. LoadTypeOK' /\ read_amnt' <= Size'
  BY <1>1, <1>2, <1>3, <1>6 DEF LoadTypeOK, Size
<1>8. Configured' /\ OnePerLine'
  BY <1>1, <1>6 DEF Configured, HeaderConfirmed, OnePerLine, Split, Parsing
<1>9. Formatted'
  <2>. SUFFICES ASSUME NEW n \in DOMAIN instrs, n < line + 1
                PROVE  instrs'[n].fmt_type = instr_format(instrs'[n].inst_no)
    BY <1>1, <1>6 DEF Formatted
  <2>0. n \in Nat
    BY DEF LoadTypeOK
  <2>1. CASE n = line
    BY <1>5, <1>6, <2>1
  <2>2. CASE n # line
    <3>1. n < line /\ instrs'[n] = instrs[n]
      BY <1>2, <1>6, <2>0, <2>2
    <3>. QED
      BY <1>1, <3>1 DEF Formatted, Split
  <2>. QED
    BY <2>1, <2>2
<1>. QED
  BY <1>1, <1>7, <1>8, <1>9
     DEF Placing, AcceptedIsPlaced, AcceptedIsWellFormed, AbortsOnlyOnMalformed

LEMMA Phase2ParsedInv ==
  ASSUME LoadInv, Phase2Parsed
  PROVE  LoadInv'
<1>1. stage = "line" /\ line > Len(instrs) /\ Goto("compare")
  BY DEF Phase2Parsed
<1>. QED
  BY <1>1, GotoInv DEF LoadStage, HeaderRead, Split, Parsing

\* Failing needs no more than the invariant.
LEMMA FailInv ==
  ASSUME LoadInv, ReadError \/ StringifyExits
  PROVE  LoadInv'
<1>1. Goto("failed")
  BY DEF ReadError, StringifyExits
<1>. QED
  BY <1>1, GotoInv DEF LoadStage, HeaderRead, Split, Parsing

\* The assertions of the parsers fail on malformed files.
LEMMA AbortInv ==
  ASSUME LoadInv, HeaderAbort \/ SplitAbort \/ Phase2Abort
  PROVE  LoadInv'
<1>1. Goto("aborted")
  BY DEF HeaderAbort, SplitAbort, Phase2Abort
<1>2. text.body \in Seq(Line)
  BY FileParts DEF LoadInv, LoadTypeOK
<1>3. \/ Len(text.header) < 4 \/ text.body = <<>>
      \/ \E n \in 1 .. Len(text.body) - 1 : text.body[n] = Blank
  <2>1. CASE HeaderAbort
    <3>1. text.body = <<>> \/ Len(text.header) < 4
      BY <2>1 DEF HeaderAbort, HeaderFails
    <3>. QED
      BY <3>1
  <2>2. CASE SplitAbort \/ Phase2Abort
    <3>1. CASE LinesAborts(text.body)
      BY <1>2, <3>1, CountFacts
    <3>2. CASE text.header = <<>>
      <4>1. Len(text.header) = 0
        BY <3>2
      <4>. QED
        BY <4>1
    <3>. QED
      BY <2>2, <3>1, <3>2 DEF SplitAbort, Phase2Abort
  <2>. QED
    BY <2>1, <2>2
<1>4. AbortsOnlyOnMalformed'
  BY <1>1, <1>3 DEF AbortsOnlyOnMalformed, Goto
<1>. QED
  BY <1>1, <1>4, GotoInv DEF LoadStage, HeaderRead, Split, Parsing

\* The text of the zeros of a line that was not parsed is an instruction of
\* a shape, so that the comparison cannot succeed with them.
LEMMA SkippedHasNoText == ShapeOf(Stringify(ZeroInstruction)) # "FMT_ERROR"
<1>1. Stringify(ZeroInstruction) =
        [name |-> "ECALL", args |-> <<RegArg(0), RegArg(0), RegArg(0)>>, form |-> "plain"]
  BY DEF Stringify, ZeroInstruction, OperandsOf, instr_name, Known
<1>2. Matches("FMT_RRR", Stringify(ZeroInstruction))
  BY <1>1 DEF Matches, Converts, Shapes, RegArg
<1>. QED
  BY <1>2 DEF ShapeOf

LEMMA AcceptInv ==
  ASSUME LoadInv, Accept
  PROVE  LoadInv'
<1>. USE DEF LoadInv
<1>1. stage = "compare" /\ ~NoFormat /\ SameText /\ Goto("accepted")
  BY DEF Accept
<1>2. \A n \in DOMAIN instrs : text.body[n] = Stringify(instrs[n])
  BY <1>1 DEF SameText, Written
<1>3. \A n \in DOMAIN instrs : n \in Nat /\ n < line
  BY <1>1 DEF OnePerLine, Parsing, LoadTypeOK
<1>4. AcceptedIsPlaced'
  <2>. SUFFICES ASSUME phase # 2, NEW n \in DOMAIN instrs
                PROVE  instrs[n].inst_addr = cfg.instr_lower + 4 * (n - 1)
    BY <1>1 DEF AcceptedIsPlaced, Goto
  <2>1. PlacedOrSkipped(n)
    BY <1>1, <1>3 DEF Placing, Split
  <2>. QED
    BY <1>2, <2>1, SkippedHasNoText DEF PlacedOrSkipped
<1>5. AcceptedIsWellFormed'
  <2>. SUFFICES ASSUME phase = 2, NEW n \in DOMAIN instrs
                PROVE  WellFormed(instrs[n])
    BY <1>1 DEF AcceptedIsWellFormed, Goto
  <2>1. instrs[n].fmt_type = instr_format(instrs[n].inst_no)
    BY <1>1, <1>3 DEF Formatted, Split
  <2>2. instrs[n].fmt_type # "FMT_ERROR"
    BY <1>1 DEF NoFormat
  <2>3. instr_format("INSTRINVALID") = "FMT_ERROR"
    BY DEF instr_format, RRR, RRI, RI, ROR
  <2>. QED
    BY <2>1, <2>2, <2>3 DEF WellFormed
<1>. QED
  BY <1>1, <1>4, <1>5, GotoInv DEF LoadStage, HeaderRead, Split, Parsing

\* The parser has made one instruction of each line, so that the numbers of
\* lines never differ.
LEMMA NeverDisagree == LoadInv /\ stage = "compare" => LinesAgree
BY DEF LoadInv, LinesAgree, OnePerLine, Split

LEMMA RejectInv ==
  ASSUME LoadInv, Reject
  PROVE  LoadInv'
<1>. USE DEF LoadInv, Reject
<1>1. stage' = "rejected"
  BY NeverDisagree
<1>2. LoadTypeOK' /\ read_amnt' <= Size'
  BY <1>1 DEF LoadTypeOK, LoadStage, Size
<1>. QED
  BY <1>1, <1>2 DEF Configured, HeaderRead, OnePerLine, Split, Parsing, Placing, Formatted,
     AcceptedIsPlaced, AcceptedIsWellFormed, AbortsOnlyOnMalformed

LEMMA CompareNothingInv ==
  ASSUME LoadInv, CompareNothing
  PROVE  LoadInv'
<1>. USE DEF LoadInv
<1>1. PICK s \in {"accepted", "rejected", "aborted"} : Goto(s)
  BY DEF CompareNothing
<1>2. stage = "compare" /\ instrs = <<>>
  BY DEF CompareNothing
<1>3. text.body \in Seq(Line) /\ Count(text.body) = 0
  BY <1>2, FileParts DEF LoadTypeOK, OnePerLine, Split
<1>4. text.body \in {<<>>, <<Blank>>}
  BY <1>3, CountFacts
<1>5. AbortsOnlyOnMalformed'
  BY <1>1, <1>4 DEF AbortsOnlyOnMalformed, Goto
<1>6. AcceptedIsPlaced' /\ AcceptedIsWellFormed'
  BY <1>1, <1>2 DEF AcceptedIsPlaced, AcceptedIsWellFormed, Goto
<1>. QED
  BY <1>1, <1>2, <1>5, <1>6, GotoInv DEF LoadStage, HeaderRead, Split, Parsing

LEMMA UnchangedInv == LoadInv /\ UNCHANGED loadvars => LoadInv'
BY DEF loadvars, LoadInv, LoadTypeOK, Size, Configured, HeaderConfirmed, OnePerLine,
   Placing, PlacedOrSkipped, Formatted, AcceptedIsPlaced, AcceptedIsWellFormed,
   AbortsOnlyOnMalformed

LEMMA LoadNextInv == LoadInv /\ [LoadNext]_loadvars => LoadInv'
<1>. SUFFICES ASSUME LoadInv, [LoadNext]_loadvars PROVE LoadInv'
  OBVIOUS
<1>1. CASE Read
  BY <1>1, ReadInv
<1>2. CASE EndOfFile
  BY <1>2, EndOfFileInv
<1>3. CASE ParseHeader
  BY <1>3, ParseHeaderInv
<1>4. CASE SplitLines
  BY <1>4, SplitLinesInv
<1>5. CASE ParseLine
  BY <1>5, ParseLineInv
<1>6. CASE SkipLine
  BY <1>6, SkipLineInv
<1>7. CASE LinesParsed \/ ValidateHeader
  BY <1>7, LinesParsedInv, ValidateHeaderInv
<1>8. CASE Phase2Lines
  BY <1>8, Phase2LinesInv
<1>9. CASE Phase2Line \/ Phase2Parsed
  BY <1>9, Phase2LineInv, Phase2ParsedInv
<1>10. CASE ReadError \/ StringifyExits
  BY <1>10, FailInv
<1>11. CASE HeaderAbort \/ SplitAbort \/ Phase2Abort
  BY <1>11, AbortInv
<1>12. CASE Accept \/ Reject \/ CompareNothing
  BY <1>12, AcceptInv, RejectInv, CompareNothingInv
<1>13. CASE UNCHANGED loadvars
  BY <1>13, UnchangedInv
<1>. QED
  BY <1>1, <1>2, <1>3, <1>4, <1>5, <1>6, <1>7, <1>8, <1>9, <1>10, <1>11, <1>12, <1>13
     DEF LoadNext, LoadStep

LEMMA LoadSpecInv == LoadSpec => []LoadInv
BY LoadInitInv, LoadNextInv, PTL DEF LoadSpec

-----------------------------------------------------------------------------
(* The theorems. *)

\* Whatever the input, the fields of the loader keep their types: the buffer
\* is never overrun, operands are `int`s, and every line listed as different
\* is the line of an instruction.
THEOREM LoaderTypes == LoadSpec => []LoadTypeOK
<1>1. LoadInv => LoadTypeOK
  BY DEF LoadInv
<1>. QED
  BY <1>1, LoadSpecInv, PTL

\* A program that phase 1 or 3 accepts has its instructions four bytes apart
\* from instr_lower on: lines that the parser leaves as zeros do not get
\* through the comparison.
THEOREM AcceptedProgramsArePlaced == LoadSpec => []AcceptedIsPlaced
<1>1. LoadInv => AcceptedIsPlaced
  BY DEF LoadInv
<1>. QED
  BY <1>1, LoadSpecInv, PTL

\* A program that phase 2 accepts has opcodes of the table, with the format
\* that processor_emulate_regops expects.
THEOREM AcceptedProgramsAreWellFormed == LoadSpec => []AcceptedIsWellFormed
<1>1. LoadInv => AcceptedIsWellFormed
  BY DEF LoadInv
<1>. QED
  BY <1>1, LoadSpecInv, PTL

\* An assertion or a null pointer stops the loader on a malformed file only.
THEOREM OnlyMalformedFilesAbort == LoadSpec => []AbortsOnlyOnMalformed
<1>1. LoadInv => AbortsOnlyOnMalformed
  BY DEF LoadInv
<1>. QED
  BY <1>1, LoadSpecInv, PTL
=============================================================================
