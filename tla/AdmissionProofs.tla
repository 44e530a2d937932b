--------------------------- MODULE AdmissionProofs ---------------------------
(***************************************************************************)
(* The loader implements the safety part of Admission, for every file,     *)
(* size of the buffer, and content of memory that was not written: what is *)
(* accepted was read as it is written, and nothing that object_create may  *)
(* write is refused.                                                       *)
(***************************************************************************)
EXTENDS LoaderProofs, LoaderAdmission

-----------------------------------------------------------------------------
(* From text to instructions and back. *)

\* Admission takes Text with the same constants, and so means the same by it.
LEMMA SameOperators ==
  /\ \A name : A!instr_num(name) = instr_num(name)
  /\ \A body : A!Count(body) = Count(body)
  /\ \A f : A!Canonical(f) <=> Canonical(f)
  /\ A!File = File
<1>1. A!Known = Known /\ A!Blank = Blank /\ A!Int32 = Int32
  BY DEF A!Known, A!RRR, A!RRI, A!RI, A!ROR, Known, RRR, RRI, RI, ROR,
     A!Blank, Blank, A!Int32, Int32
<1>2. \A name : A!instr_num(name) = instr_num(name)
  BY <1>1 DEF A!instr_num, instr_num
<1>3. \A body : A!Count(body) = Count(body)
  BY <1>1 DEF A!Count, Count
<1>4. \A op : A!instr_format(op) = instr_format(op)
  BY DEF A!instr_format, instr_format, A!RRR, A!RRI, A!RI, A!ROR, RRR, RRI, RI, ROR
<1>5. \A fmt : A!Shapes(fmt) = Shapes(fmt)
  BY DEF A!Shapes, Shapes
<1>6. \A fmt, l : A!Matches(fmt, l) <=> Matches(fmt, l)
  BY <1>5 DEF A!Matches, Matches, A!Converts, Converts
<1>7. \A l : A!CanonicalLine(l) <=> CanonicalLine(l)
  BY <1>1, <1>4, <1>5, <1>6 DEF A!CanonicalLine, CanonicalLine
<1>8. \A f : A!Canonical(f) <=> Canonical(f)
  BY <1>7 DEF A!Canonical, Canonical
<1>9. A!Line = Line
  BY <1>1 DEF A!Line, Line, A!Mnemonic, Mnemonic, A!Operand, Operand, A!Form, Form
<1>10. A!File = File
  BY <1>9 DEF A!File, File, A!Field, Field
<1>. QED
  BY <1>2, <1>3, <1>8, <1>10

\* The text of an instruction says what the instruction does.
LEMMA MeaningOfText ==
  ASSUME NEW inst \in Parsed, inst.fmt_type = "FMT_ECALL" => inst.inst_no = "ECALL"
  PROVE  A!Meaning(Stringify(inst)) = [op |-> inst.inst_no, operands |-> OperandsOf(inst)]
<1>1. inst.inst_no \in Opcode
  BY DEF Parsed
<1>2. instr_num("ECALL") = "ECALL"
  BY DEF instr_num, Known
<1>3. instr_num(Stringify(inst).name) = inst.inst_no
  BY <1>1, <1>2, NamesAreInverse DEF Stringify
<1>4. Stringify(inst).args = OperandsOf(inst)
  BY DEF Stringify
<1>. QED
  BY <1>3, <1>4, SameOperators DEF A!Meaning

\* The parts of a line as object_create writes it.
LEMMA CanonicalParts ==
  ASSUME NEW l \in Line, CanonicalLine(l)
  PROVE  /\ l.name \in Known /\ l # Blank
         /\ l = [name |-> l.name, args |-> l.args, form |-> "plain"]
         /\ l.args \in Seq(Operand)
         /\ \A n \in 1 .. Len(l.args) : /\ l.args[n] \in Operand
                                        /\ l.args[n].val \in Int32
                                        /\ l.args[n].shape = Shapes(instr_format(l.name))[n]
<1>1. l.name \in Known /\ l.form = "plain"
  BY DEF CanonicalLine
<1>2. "" \notin Known /\ Blank.name = ""
  BY DEF Known, RRR, RRI, RI, ROR, Blank
<1>3. l # Blank
  BY <1>1, <1>2
<1>4. l \in [name : Mnemonic, args : Seq(Operand), form : Form]
  BY <1>3 DEF Line
<1>5. l = [name |-> l.name, args |-> l.args, form |-> "plain"]
  BY <1>1, <1>4
<1>6. l.args \in Seq(Operand)
  BY <1>4
<1>7. ASSUME NEW n \in 1 .. Len(l.args)
      PROVE  l.args[n] \in Operand /\ n \in DOMAIN l.args
  BY <1>6
<1>8. ASSUME NEW n \in 1 .. Len(l.args)
      PROVE  l.args[n].shape = Shapes(instr_format(l.name))[n]
  <2>1. Len(l.args) = Len(Shapes(instr_format(l.name)))
    BY DEF CanonicalLine
  <2>. QED
    BY <2>1 DEF CanonicalLine, Matches, Converts
<1>9. ASSUME NEW n \in 1 .. Len(l.args) PROVE l.args[n].val \in Int32
  BY <1>7 DEF CanonicalLine
<1>. QED
  BY <1>1, <1>3, <1>5, <1>6, <1>7, <1>8, <1>9

\* An operand is its shape and its value.
LEMMA OperandIs ==
  ASSUME NEW o \in Operand
  PROVE  /\ o.shape = "reg"  => o = RegArg(o.val)
         /\ o.shape = "num"  => o = NumArg(o.val)
         /\ o.shape = "base" => o = BaseArg(o.val)
BY DEF Operand, RegArg, NumArg, BaseArg

\* Sequences of the lengths of operands.
LEMMA ShortSequences ==
  ASSUME NEW s \in Seq(Operand)
  PROVE  /\ Len(s) = 0 => s = <<>>
         /\ Len(s) = 2 => s = <<s[1], s[2]>>
         /\ Len(s) = 3 => s = <<s[1], s[2], s[3]>>
OBVIOUS

\* An instruction with the opcode of a line, the format of that opcode and
\* the values of its operands is written as the line.
LEMMA TextOfFilled ==
  ASSUME NEW l \in Line, CanonicalLine(l), NEW addr, NEW v,
         \A n \in 1 .. Len(l.args) : v[n] = l.args[n].val
  PROVE  LET inst == Fill(instr_num(l.name), addr, instr_format(l.name), v)
         IN  inst.fmt_type # "FMT_ERROR" /\ Stringify(inst) = l
<1>. DEFINE f == instr_format(l.name)
            inst == Fill(instr_num(l.name), addr, f, v)
            a == l.args
<1>1. /\ l.name \in Known
      /\ l = [name |-> l.name, args |-> a, form |-> "plain"]
      /\ a \in Seq(Operand)
      /\ \A n \in 1 .. Len(a) : a[n] \in Operand /\ a[n].shape = Shapes(f)[n]
  BY CanonicalParts
<1>2. Len(a) = Len(Shapes(f))
  BY DEF CanonicalLine
<1>3. inst.fmt_type = f /\ inst.inst_no = instr_num(l.name)
  BY DEF Fill
<1>4. f \in Format \ {"FMT_ERROR"} /\ (f = "FMT_ECALL" => l.name = "ECALL")
  BY <1>1 DEF instr_format, Format, Known
<1>5. OperandsOf(inst) = a
  <2>. HIDE DEF a
  <2>1. \A n \in 1 .. Len(a) : v[n] = a[n].val
    BY DEF a
  <2>2. CASE f = "FMT_RRR"
    <3>1. Shapes(f) = <<"reg", "reg", "reg">> /\ Len(a) = 3 /\ Shapes(f) # <<>>
      BY <1>2, <2>2 DEF Shapes
    <3>2. a[1] = RegArg(v[1]) /\ a[2] = RegArg(v[2]) /\ a[3] = RegArg(v[3])
      BY <1>1, <2>1, <3>1, OperandIs
    <3>3. OperandsOf(inst) = <<RegArg(v[1]), RegArg(v[2]), RegArg(v[3])>>
      BY <2>2, <3>1 DEF OperandsOf, Fill
    <3>. QED
      BY <1>1, <3>1, <3>2, <3>3, ShortSequences
  <2>3. CASE f = "FMT_RRI"
    <3>1. Shapes(f) = <<"reg", "reg", "num">> /\ Len(a) = 3 /\ Shapes(f) # <<>>
      BY <1>2, <2>3 DEF Shapes
    <3>2. a[1] = RegArg(v[1]) /\ a[2] = RegArg(v[2]) /\ a[3] = NumArg(v[3])
      BY <1>1, <2>1, <3>1, OperandIs
    <3>3. OperandsOf(inst) = <<RegArg(v[1]), RegArg(v[2]), NumArg(v[3])>>
      BY <2>3, <3>1 DEF OperandsOf, Fill
    <3>. QED
      BY <1>1, <3>1, <3>2, <3>3, ShortSequences
  <2>4. CASE f = "FMT_ROR"
    <3>1. Shapes(f) = <<"reg", "num", "base">> /\ Len(a) = 3 /\ Shapes(f) # <<>>
      BY <1>2, <2>4 DEF Shapes
    <3>2. a[1] = RegArg(v[1]) /\ a[2] = NumArg(v[2]) /\ a[3] = BaseArg(v[3])
      BY <1>1, <2>1, <3>1, OperandIs
    <3>3. OperandsOf(inst) = <<RegArg(v[1]), NumArg(v[2]), BaseArg(v[3])>>
      BY <2>4, <3>1 DEF OperandsOf, Fill
    <3>. QED
      BY <1>1, <3>1, <3>2, <3>3, ShortSequences
  <2>5. CASE f = "FMT_RI"
    <3>1. Shapes(f) = <<"reg", "num">> /\ Len(a) = 2 /\ Shapes(f) # <<>>
      BY <1>2, <2>5 DEF Shapes
    <3>2. a[1] = RegArg(v[1]) /\ a[2] = NumArg(v[2])
      BY <1>1, <2>1, <3>1, OperandIs
    <3>3. OperandsOf(inst) = <<RegArg(v[1]), NumArg(v[2])>>
      BY <2>5, <3>1 DEF OperandsOf, Fill
    <3>. QED
      BY <1>1, <3>1, <3>2, <3>3, ShortSequences
  <2>6. CASE f = "FMT_ECALL"
    <3>1. Shapes(f) = <<>> /\ Len(a) = 0
      BY <1>2, <2>6 DEF Shapes
    <3>2. OperandsOf(inst) = <<>>
      BY <1>3, <2>6 DEF OperandsOf
    <3>. QED
      BY <1>1, <3>1, <3>2, ShortSequences
  <2>. QED
    BY <1>4, <2>2, <2>3, <2>4, <2>5, <2>6 DEF Format
<1>6. Stringify(inst).name = l.name
  BY <1>1, <1>3, <1>4, NamesAreInverse DEF Stringify
<1>7. Stringify(inst) = [name |-> l.name, args |-> a, form |-> "plain"]
  BY <1>5, <1>6 DEF Stringify
<1>. QED
  BY <1>1, <1>3, <1>4, <1>7

\* sscanf finds the format of the opcode in a line as object_create writes it.
LEMMA ShapeOfCanonical ==
  ASSUME NEW l \in Line, CanonicalLine(l)
  PROVE  ShapeOf(l) = instr_format(l.name)
<1>. DEFINE f == instr_format(l.name)
            a == l.args
<1>1. /\ l.name \in Known
      /\ l = [name |-> l.name, args |-> a, form |-> "plain"]
      /\ a \in Seq(Operand)
  BY CanonicalParts
<1>2. Len(a) = Len(Shapes(f)) /\ Matches(f, l)
  BY DEF CanonicalLine
<1>3. f \in Format \ {"FMT_ERROR"} /\ (f = "FMT_ECALL" => l.name = "ECALL")
  BY <1>1 DEF instr_format, Format, Known
<1>. DEFINE call == [name |-> "ECALL", args |-> <<>>, form |-> "plain"]
<1>4. l = call => Len(a) = 0
  <2>1. call.args = <<>>
    OBVIOUS
  <2>. QED
    BY <2>1
<1>. HIDE DEF call
\* The formats exclude each other, as no alternative of a CASE may hold with
\* another.
<1>5. CASE f = "FMT_RRR"
  <2>1. Shapes(f) = <<"reg", "reg", "reg">> /\ Len(a) = 3
    BY <1>2, <1>5 DEF Shapes
  <2>2. a[2].shape = "reg" /\ a[3].shape = "reg"
    BY <1>2, <2>1 DEF Matches, Converts
  <2>3. ~Matches("FMT_RRI", l) /\ ~Matches("FMT_ROR", l) /\ ~Matches("FMT_RI", l)
    BY <2>2 DEF Matches, Converts, Shapes
  <2>. QED
    BY <1>2, <1>4, <1>5, <2>1, <2>3 DEF ShapeOf, call
<1>6. CASE f = "FMT_RRI"
  <2>1. Shapes(f) = <<"reg", "reg", "num">> /\ Len(a) = 3
    BY <1>2, <1>6 DEF Shapes
  <2>2. a[2].shape = "reg" /\ a[3].shape = "num"
    BY <1>2, <2>1 DEF Matches, Converts
  <2>3. ~Matches("FMT_RRR", l) /\ ~Matches("FMT_ROR", l) /\ ~Matches("FMT_RI", l)
    BY <2>2 DEF Matches, Converts, Shapes
  <2>. QED
    BY <1>2, <1>4, <1>6, <2>1, <2>3 DEF ShapeOf, call
<1>7. CASE f = "FMT_ROR"
  <2>1. Shapes(f) = <<"reg", "num", "base">> /\ Len(a) = 3
    BY <1>2, <1>7 DEF Shapes
  <2>2. a[2].shape = "num"
    BY <1>2, <2>1 DEF Matches, Converts
  <2>3. ~Matches("FMT_RRR", l) /\ ~Matches("FMT_RRI", l)
    BY <2>2 DEF Matches, Converts, Shapes
  <2>. QED
    BY <1>2, <1>4, <1>7, <2>1, <2>3 DEF ShapeOf, call
<1>8. CASE f = "FMT_RI"
  <2>1. Shapes(f) = <<"reg", "num">> /\ Len(a) = 2
    BY <1>2, <1>8 DEF Shapes
  <2>2. ~Matches("FMT_RRR", l) /\ ~Matches("FMT_RRI", l) /\ ~Matches("FMT_ROR", l)
    BY <2>1 DEF Matches, Converts, Shapes
  <2>. QED
    BY <1>2, <1>4, <1>8, <2>1, <2>2 DEF ShapeOf, call
<1>9. CASE f = "FMT_ECALL"
  <2>1. Len(a) = 0
    BY <1>2, <1>9 DEF Shapes
  <2>2. /\ ~Matches("FMT_RRR", l) /\ ~Matches("FMT_RRI", l) /\ ~Matches("FMT_ROR", l)
        /\ ~Matches("FMT_RI", l)
    BY <2>1 DEF Matches, Converts, Shapes
  <2>3. l = call
    BY <1>1, <1>3, <1>9, <2>1, ShortSequences DEF call
  <2>. QED
    BY <1>9, <2>2, <2>3 DEF ShapeOf, call
<1>. QED
  BY <1>3, <1>5, <1>6, <1>7, <1>8, <1>9 DEF Format

\* Only ECALL is taken to have the format of ECALL.
LEMMA CallShape ==
  ASSUME NEW l, ShapeOf(l) = "FMT_ECALL"
  PROVE  instr_num(l.name) = "ECALL"
<1>. DEFINE call == [name |-> "ECALL", args |-> <<>>, form |-> "plain"]
<1>1. l = call
  BY DEF ShapeOf
<1>2. call.name = "ECALL"
  OBVIOUS
<1>. QED
  BY <1>1, <1>2 DEF instr_num, Known

\* The last line of a canonical text is not empty, nor is any other.
LEMMA CanonicalText ==
  ASSUME NEW f \in File, Canonical(f)
  PROVE  /\ Count(f.body) = Len(f.body) /\ f.body # <<>>
         /\ \A n \in 1 .. Len(f.body) : /\ f.body[n] \in Line /\ f.body[n] # Blank
                                         /\ CanonicalLine(f.body[n])
         /\ ~LinesAborts(f.body)
         /\ Len(f.header) = 4
<1>. DEFINE b == f.body
<1>1. b \in Seq(Line) /\ b # <<>> /\ Len(b) \in Nat
  BY FileParts DEF Canonical
<1>2. \A n \in 1 .. Len(b) : n \in DOMAIN b /\ b[n] \in Line
  BY <1>1
<1>3. \A n \in 1 .. Len(b) : CanonicalLine(b[n])
  BY <1>2 DEF Canonical
<1>4. \A n \in 1 .. Len(b) : b[n] # Blank
  BY <1>2, <1>3, CanonicalParts
<1>5. Len(b) \in 1 .. Len(b)
  BY <1>1
<1>. HIDE DEF b
<1>6. Count(b) = Len(b)
  BY <1>4, <1>5 DEF Count
<1>7. ~LinesAborts(b)
  BY <1>4, <1>6 DEF LinesAborts
<1>. QED
  BY <1>1, <1>2, <1>3, <1>4, <1>6, <1>7 DEF Canonical, b

-----------------------------------------------------------------------------
(* What the steps of the loader keep, beside LoadInv. *)

\* Input that can be read as it is, is.
ReadYet ==
  /\ stage = "read" => text = NothingRead
  /\ stage # "read" /\ Intact => text = file

\* The lines of a canonical text that were parsed are written as they were.
RoundTrip ==
  stage \in Split /\ Canonical(text) =>
    \A n \in DOMAIN instrs : n < line =>
      instrs[n].fmt_type # "FMT_ERROR" /\ Stringify(instrs[n]) = text.body[n]

\* The format without operands is that of one opcode.
OpcodeKept ==
  stage \in Split =>
    \A n \in DOMAIN instrs : instrs[n].fmt_type = "FMT_ECALL" => instrs[n].inst_no = "ECALL"

AdmInv == ReadYet /\ RoundTrip /\ OpcodeKept

LEMMA AdmInitInv == LoadInit => AdmInv
BY DEF LoadInit, AdmInv, ReadYet, RoundTrip, OpcodeKept, Split

\* Intact is about the run and not about its state.
LEMMA IntactIsConstant ==
  ASSUME UNCHANGED <<faults, file>>
  PROVE  Intact' = Intact
BY DEF Intact, Size

LEMMA GotoAdm ==
  ASSUME LoadInv, AdmInv, NEW s, Goto(s),
         s # "read", stage = "read" => ~Intact,
         s \in Split => stage \in Split
  PROVE  AdmInv'
<1>1. UNCHANGED <<phase, faults, file, text, instrs, line>> /\ stage' = s
  BY DEF Goto
<1>2. ReadYet'
  BY <1>1, IntactIsConstant DEF AdmInv, ReadYet
<1>3. RoundTrip' /\ OpcodeKept'
  BY <1>1 DEF AdmInv, RoundTrip, OpcodeKept
<1>. QED
  BY <1>2, <1>3 DEF AdmInv

\* Input that can be read as it is ends when all of it has been read.
LEMMA EndOfFileAdm ==
  ASSUME LoadInv, EndOfFile
  PROVE  AdmInv' /\ text' \in File
<1>1. text' \in File
  BY EndOfFileInv DEF LoadInv, LoadTypeOK
<1>2. ASSUME Intact PROVE text' = file
  <2>1. read_amnt = Size
    <3>1. read_amnt \in {Size, PROG_SZ_MAX} /\ read_amnt <= Size /\ read_amnt \in Nat
      BY LoaderAssumption DEF EndOfFile, LoadInv, LoadTypeOK
    <3>2. Size \in Nat /\ Size <= PROG_SZ_MAX /\ PROG_SZ_MAX \in Nat
      BY <1>2, LoaderAssumption, FileParts DEF LoadInv, LoadTypeOK, Intact, Size
    <3>. QED
      BY <3>1, <3>2
  <2>2. Kept = {file.body}
    BY <2>1 DEF Kept
  <2>3. "residue" \notin faults
    BY <1>2 DEF Intact
  <2>4. \A b : Extended(b) = {b}
    <3>1. Residue = {}
      BY <2>3 DEF Residue
    <3>2. \A b : Continued(b) = {b}
      BY <3>1 DEF Continued
    <3>. QED
      BY <3>1, <3>2 DEF Extended
  <2>5. text' = [header |-> file.header, body |-> file.body]
    BY <2>2, <2>4 DEF EndOfFile
  <2>6. file \in File
    BY DEF LoadInv, LoadTypeOK
  <2>. QED
    BY <2>5, <2>6 DEF File
<1>3. stage' = "parse" /\ UNCHANGED <<faults, file>>
  BY DEF EndOfFile
<1>4. ReadYet'
  BY <1>2, <1>3, IntactIsConstant DEF ReadYet
<1>. QED
  BY <1>1, <1>3, <1>4 DEF AdmInv, RoundTrip, OpcodeKept, Split

\* A step that fills entry `line` keeps what is said of the entries.
LEMMA EntryAdm ==
  ASSUME LoadInv, AdmInv, stage = "line", line <= Len(instrs), NEW inst \in Parsed,
         instrs' = [instrs EXCEPT ![line] = inst], line' = line + 1,
         UNCHANGED <<faults, file, stage, text>>,
         inst.fmt_type = "FMT_ECALL" => inst.inst_no = "ECALL",
         Canonical(text) => inst.fmt_type # "FMT_ERROR" /\ Stringify(inst) = text.body[line]
  PROVE  AdmInv'
<1>1. /\ DOMAIN instrs' = DOMAIN instrs
      /\ instrs'[line] = inst
      /\ \A n \in DOMAIN instrs : n # line => instrs'[n] = instrs[n]
  BY EntryFacts DEF LoadInv
<1>2. line \in Nat /\ \A n \in DOMAIN instrs : n \in Nat
  BY DEF LoadInv, LoadTypeOK
<1>3. ReadYet'
  BY IntactIsConstant DEF AdmInv, ReadYet
<1>4. RoundTrip'
  <2>. SUFFICES ASSUME Canonical(text), NEW n \in DOMAIN instrs, n < line + 1
                PROVE  instrs'[n].fmt_type # "FMT_ERROR" /\ Stringify(instrs'[n]) = text.body[n]
    BY <1>1 DEF RoundTrip
  <2>1. CASE n = line
    BY <1>1, <2>1
  <2>2. CASE n # line
    <3>1. n < line /\ instrs'[n] = instrs[n]
      BY <1>1, <1>2, <2>2
    <3>. QED
      BY <3>1 DEF AdmInv, RoundTrip, Split
  <2>. QED
    BY <2>1, <2>2
<1>5. OpcodeKept'
  BY <1>1 DEF AdmInv, OpcodeKept, Split
<1>. QED
  BY <1>3, <1>4, <1>5 DEF AdmInv

LEMMA ParseLineAdm ==
  ASSUME LoadInv, AdmInv, ParseLine
  PROVE  AdmInv'
<1>. DEFINE l == text.body[line]
            v == [n \in DOMAIN l.args |-> Truncate(l.args[n].val)]
            inst == Fill(instr_num(l.name), LineAddress, ShapeOf(l), v)
<1>1. /\ stage = "line" /\ phase # 2 /\ line <= Len(instrs) /\ ShapeOf(l) # "FMT_ERROR"
      /\ instrs' = [instrs EXCEPT ![line] = inst] /\ line' = line + 1
      /\ UNCHANGED <<phase, faults, file, stage, read_amnt, text, cfg, operands, differences>>
  BY DEF ParseLine
<1>2. /\ l \in Line /\ LineAddress \in Nat /\ line \in DOMAIN instrs /\ line \in Nat
      /\ line \in DOMAIN text.body
  BY <1>1, LineToParse
<1>3. inst.fmt_type = ShapeOf(l) /\ inst.inst_no = instr_num(l.name)
  BY DEF Fill
<1>4. inst \in Parsed
  <2>1. /\ instrs' \in Seq(Parsed) /\ DOMAIN instrs' = DOMAIN instrs
    <3>1. instrs' \in Seq(Parsed)
      BY ParseLineInv DEF LoadInv, LoadTypeOK
    <3>. QED
      BY <1>1, <3>1
  <2>2. instrs'[line] = inst
    <3>. HIDE DEF inst
    <3>. QED
      BY <1>1, <1>2
  <2>. HIDE DEF inst
  <2>3. \A s \in Seq(Parsed) : \A n \in DOMAIN s : s[n] \in Parsed
    OBVIOUS
  <2>. QED
    BY <1>2, <2>1, <2>2, <2>3
<1>5. ASSUME Canonical(text)
      PROVE  inst.fmt_type # "FMT_ERROR" /\ Stringify(inst) = l
  <2>1. CanonicalLine(l)
    BY <1>2, <1>5 DEF Canonical
  <2>. HIDE DEF l
  <2>2. ShapeOf(l) = instr_format(l.name)
    BY <1>2, <2>1, ShapeOfCanonical
  <2>3. \A n \in 1 .. Len(l.args) : v[n] = l.args[n].val
    <3>1. /\ l.args \in Seq(Operand)
          /\ \A n \in 1 .. Len(l.args) : l.args[n].val \in Int32
      BY <1>2, <2>1, CanonicalParts
    <3>2. DOMAIN l.args = 1 .. Len(l.args)
      BY <3>1
    <3>3. Int32 \subseteq Int
      BY TextAssumption DEF Int32
    <3>4. \A n \in 1 .. Len(l.args) : Truncate(l.args[n].val) = l.args[n].val
      BY <3>1, <3>3, TruncateFacts
    <3>. QED
      BY <3>2, <3>4
  <2>. HIDE DEF v
  <2>. QED
    BY <1>2, <2>1, <2>2, <2>3, TextOfFilled
<1>6. inst.fmt_type = "FMT_ECALL" => inst.inst_no = "ECALL"
  BY <1>3, CallShape
<1>. HIDE DEF inst
<1>. QED
  BY <1>1, <1>4, <1>5, <1>6, EntryAdm

\* A line as object_create writes it is not skipped.
LEMMA SkipLineAdm ==
  ASSUME LoadInv, AdmInv, SkipLine
  PROVE  AdmInv'
<1>. DEFINE l == text.body[line]
<1>1. /\ stage = "line" /\ line <= Len(instrs) /\ ShapeOf(l) = "FMT_ERROR"
      /\ UNCHANGED <<faults, file, stage, text, instrs>>
  BY DEF SkipLine
<1>2. l \in Line /\ line \in DOMAIN text.body
  BY <1>1, LineToParse
<1>3. ~Canonical(text)
  <2>. SUFFICES ASSUME Canonical(text) PROVE FALSE
    OBVIOUS
  <2>1. CanonicalLine(l)
    BY <1>2 DEF Canonical
  <2>. HIDE DEF l
  <2>2. l.name \in Known /\ instr_format(l.name) = "FMT_ERROR"
    BY <1>1, <1>2, <2>1, ShapeOfCanonical, CanonicalParts
  <2>. QED
    BY <2>2 DEF instr_format, Known
<1>4. ReadYet'
  BY <1>1, IntactIsConstant DEF AdmInv, ReadYet
<1>. QED
  BY <1>1, <1>3, <1>4 DEF AdmInv, RoundTrip, OpcodeKept

LEMMA Phase2LineAdm ==
  ASSUME LoadInv, AdmInv, Phase2Line
  PROVE  AdmInv'
<1>. DEFINE l == text.body[line]
            fmt == OpcodeFormat(l)
            addr == IF fmt = "FMT_ECALL" THEN 17 ELSE instrs[line].inst_addr
            inst == Fill(instr_num(l.name), addr, fmt, Scanned(fmt, l))
<1>1. /\ stage = "line" /\ line <= Len(instrs)
      /\ instrs' = [instrs EXCEPT ![line] = inst] /\ line' = line + 1
      /\ UNCHANGED <<phase, faults, file, stage, read_amnt, text, cfg, differences>>
  BY DEF Phase2Line
<1>2. l \in Line /\ line \in DOMAIN instrs /\ line \in DOMAIN text.body
  BY <1>1, LineToParse
<1>3. inst.fmt_type = fmt /\ inst.inst_no = instr_num(l.name)
  BY DEF Fill
<1>4. inst \in Parsed
  <2>1. instrs' \in Seq(Parsed)
    BY Phase2LineInv DEF LoadInv, LoadTypeOK
  <2>. HIDE DEF inst
  <2>2. instrs'[line] = inst /\ DOMAIN instrs' = DOMAIN instrs
    BY <1>1, <1>2
  <2>3. \A s \in Seq(Parsed) : \A n \in DOMAIN s : s[n] \in Parsed
    OBVIOUS
  <2>. QED
    BY <1>2, <2>1, <2>2, <2>3
<1>5. ASSUME Canonical(text)
      PROVE  inst.fmt_type # "FMT_ERROR" /\ Stringify(inst) = l
  <2>1. CanonicalLine(l)
    BY <1>2, <1>5 DEF Canonical
  <2>. HIDE DEF l
  <2>2. /\ l.name \in Known /\ l.args \in Seq(Operand) /\ l.form = "plain"
        /\ \A n \in 1 .. Len(l.args) : l.args[n].val \in Int32
    BY <1>2, <2>1, CanonicalParts DEF CanonicalLine
  <2>3. fmt = instr_format(l.name)
    BY <2>2 DEF OpcodeFormat, instr_num
  <2>4. Len(l.args) = Len(Shapes(fmt)) /\ Matches(fmt, l) /\ Len(l.args) \in 0 .. 3
    BY <2>1, <2>3, ShapesFacts DEF CanonicalLine
  <2>. HIDE DEF fmt
  <2>5. \A n \in 1 .. Len(l.args) : Scanned(fmt, l)[n] = l.args[n].val
    <3>. SUFFICES ASSUME NEW n \in 1 .. Len(l.args)
                  PROVE  Scanned(fmt, l)[n] = l.args[n].val
      OBVIOUS
    <3>1. n \in 1 .. 3 /\ Converts(fmt, l, n)
      BY <2>4 DEF Matches, Converts
    <3>2. Scanned(fmt, l)[n] = Truncate(l.args[n].val)
      BY <2>2, <3>1 DEF Scanned
    <3>3. Int32 \subseteq Int
      BY TextAssumption DEF Int32
    <3>. QED
      BY <2>2, <3>2, <3>3, TruncateFacts
  <2>. QED
    BY <1>2, <2>1, <2>3, <2>5, TextOfFilled
<1>6. inst.fmt_type = "FMT_ECALL" => inst.inst_no = "ECALL"
  <2>1. \A op : instr_format(op) = "FMT_ECALL" => op = "ECALL"
    BY DEF instr_format
  <2>. QED
    BY <1>3, <2>1 DEF OpcodeFormat
<1>. HIDE DEF inst
<1>. QED
  BY <1>1, <1>4, <1>5, <1>6, EntryAdm

\* The array begins with zeros, which have a format with operands.
LEMMA SplitAdm ==
  ASSUME LoadInv, AdmInv, SplitLines \/ Phase2Lines
  PROVE  AdmInv'
<1>1. UNCHANGED <<faults, file, text, line>> /\ stage' = "line" /\ line = 1
      /\ stage # "read"
  BY DEF SplitLines, Phase2Lines, LoadInv
<1>2. \A n \in DOMAIN instrs' : instrs'[n].fmt_type = "FMT_RRR" /\ ~(n < 1)
  <2>1. Count(text.body) \in Nat
    BY FileParts, CountFacts DEF LoadInv, LoadTypeOK
  <2>2. ZeroInstruction.fmt_type = "FMT_RRR"
        /\ \A j : [ZeroInstruction EXCEPT !.inst_addr = j].fmt_type = "FMT_RRR"
    BY DEF ZeroInstruction
  <2>3. CASE SplitLines
    BY <2>1, <2>2, <2>3 DEF SplitLines, Zeroed
  <2>4. CASE Phase2Lines
    <3>1. PICK junk \in Stale :
            instrs' = [n \in 1 .. Count(text.body) |-> [ZeroInstruction EXCEPT !.inst_addr = junk]]
      BY <2>4 DEF Phase2Lines
    <3>. DEFINE z == [ZeroInstruction EXCEPT !.inst_addr = junk]
    <3>2. z.fmt_type = "FMT_RRR"
      BY <2>2
    <3>. HIDE DEF z
    <3>3. instrs' = [n \in 1 .. Count(text.body) |-> z]
      BY <3>1 DEF z
    <3>. QED
      BY <2>1, <3>2, <3>3
  <2>. QED
    BY <2>3, <2>4
<1>3. ReadYet'
  BY <1>1, IntactIsConstant DEF AdmInv, ReadYet
<1>. QED
  BY <1>1, <1>2, <1>3 DEF AdmInv, RoundTrip, OpcodeKept

LEMMA UnchangedAdm == AdmInv /\ UNCHANGED loadvars => AdmInv'
<1>. SUFFICES ASSUME AdmInv, UNCHANGED loadvars PROVE AdmInv'
  OBVIOUS
<1>1. UNCHANGED <<faults, file, stage, text, instrs, line>>
  BY DEF loadvars
<1>. QED
  BY <1>1, IntactIsConstant DEF AdmInv, ReadYet, RoundTrip, OpcodeKept

LEMMA AdmNextInv == LoadInv /\ AdmInv /\ [LoadNext]_loadvars => AdmInv'
<1>. SUFFICES ASSUME LoadInv, AdmInv, [LoadNext]_loadvars PROVE AdmInv'
  OBVIOUS
<1>1. CASE Read \/ ParseHeader
  <2>1. UNCHANGED <<faults, file, text>> /\ (stage' = stage \/ (stage' = "lines" /\ stage = "parse"))
        /\ stage' \notin Split
    BY <1>1 DEF Read, ParseHeader, Split
  <2>2. ReadYet'
    BY <2>1, IntactIsConstant DEF AdmInv, ReadYet
  <2>. QED
    BY <2>1, <2>2 DEF AdmInv, RoundTrip, OpcodeKept
<1>2. CASE EndOfFile
  BY <1>2, EndOfFileAdm
<1>3. CASE SplitLines \/ Phase2Lines
  BY <1>3, SplitAdm
<1>4. CASE ParseLine \/ SkipLine \/ Phase2Line
  BY <1>4, ParseLineAdm, SkipLineAdm, Phase2LineAdm
<1>5. CASE ReadError
  <2>1. Goto("failed") /\ "read" \in faults
    BY <1>5 DEF ReadError
  <2>. QED
    BY <2>1, GotoAdm DEF Intact, Split
<1>6. CASE HeaderAbort \/ SplitAbort \/ Phase2Abort
  <2>1. Goto("aborted") /\ stage # "read"
    BY <1>6 DEF HeaderAbort, SplitAbort, Phase2Abort
  <2>. QED
    BY <2>1, GotoAdm DEF Split
<1>7. CASE LinesParsed \/ ValidateHeader \/ Phase2Parsed \/ StringifyExits \/ Accept
  <2>1. stage \in Split /\ \E s \in {"validate", "compare", "failed", "accepted"} : Goto(s)
    BY <1>7 DEF LinesParsed, ValidateHeader, Phase2Parsed, StringifyExits, Accept, Split
  <2>. QED
    BY <2>1, GotoAdm DEF Split
<1>8. CASE CompareNothing
  <2>1. stage \in Split /\ \E s \in {"accepted", "rejected", "aborted"} : Goto(s)
    BY <1>8 DEF CompareNothing, Split
  <2>. QED
    BY <2>1, GotoAdm DEF Split
<1>9. CASE Reject
  <2>1. UNCHANGED <<faults, file, text>> /\ stage = "compare" /\ stage' \in {"rejected", "aborted"}
    BY <1>9 DEF Reject
  <2>2. ReadYet'
    BY <2>1, IntactIsConstant DEF AdmInv, ReadYet
  <2>. QED
    BY <2>1, <2>2 DEF AdmInv, RoundTrip, OpcodeKept, Split
<1>10. CASE UNCHANGED loadvars
  BY <1>10, UnchangedAdm
<1>. QED
  BY <1>1, <1>2, <1>3, <1>4, <1>5, <1>6, <1>7, <1>8, <1>9, <1>10 DEF LoadNext, LoadStep

\* The header is looked at again in phase 1 only.
ValidatedInPhase1 == stage = "validate" => phase = 1

LEMMA ValidatedNext == ValidatedInPhase1 /\ [LoadNext]_loadvars => ValidatedInPhase1'
<1>. SUFFICES ASSUME ValidatedInPhase1, [LoadNext]_loadvars PROVE ValidatedInPhase1'
  OBVIOUS
<1>1. CASE LinesParsed
  BY <1>1 DEF LinesParsed, Goto, ValidatedInPhase1
<1>2. CASE \/ Read \/ ReadError \/ EndOfFile \/ ParseHeader \/ HeaderAbort \/ SplitLines
           \/ SplitAbort \/ ParseLine \/ SkipLine \/ ValidateHeader
  BY <1>2 DEF Read, ReadError, EndOfFile, ParseHeader, HeaderAbort, SplitLines, SplitAbort,
     ParseLine, SkipLine, ValidateHeader, Goto, ValidatedInPhase1
<1>3. CASE \/ Phase2Lines \/ Phase2Abort \/ Phase2Line \/ Phase2Parsed \/ StringifyExits
           \/ Accept \/ Reject \/ CompareNothing
  BY <1>3 DEF Phase2Lines, Phase2Abort, Phase2Line, Phase2Parsed, StringifyExits, Accept,
     Reject, CompareNothing, Goto, ValidatedInPhase1
<1>4. CASE UNCHANGED loadvars
  BY <1>4 DEF loadvars, ValidatedInPhase1
<1>. QED
  BY <1>1, <1>2, <1>3, <1>4 DEF LoadNext, LoadStep

LEMMA AdmSpecInv == LoadSpec => [](LoadInv /\ AdmInv /\ ValidatedInPhase1)
<1>1. LoadInit => AdmInv /\ ValidatedInPhase1
  BY AdmInitInv DEF LoadInit, ValidatedInPhase1
<1>2. LoadInv /\ AdmInv /\ [LoadNext]_loadvars => AdmInv'
  BY AdmNextInv
<1>. QED
  BY <1>1, <1>2, ValidatedNext, LoadSpecInv, PTL DEF LoadSpec

-----------------------------------------------------------------------------
(* Every step of the loader is a step of Admission, or none. *)

Shown == IF stage = "accepted" THEN Said ELSE <<>>
Open  == {"read", "parse", "lines", "line", "validate", "compare"}
Shut  == {"rejected", "failed", "aborted"}

\* What the mapping shows of a stage.
LEMMA VerdictFacts ==
  /\ stage \in Open => Verdict = "pending" /\ Shown = <<>>
  /\ stage \in Shut => Verdict = "refused" /\ Shown = <<>>
  /\ stage = "accepted" => Verdict = "accepted" /\ Shown = Said
BY DEF Verdict, Shown, Open, Shut

\* The same of the next state.
LEMMA VerdictFactsNext ==
  /\ stage' \in Open => Verdict' = "pending" /\ Shown' = <<>>
  /\ stage' \in Shut => Verdict' = "refused" /\ Shown' = <<>>
  /\ stage' = "accepted" => Verdict' = "accepted" /\ Shown' = Said'
BY DEF Verdict, Shown, Open, Shut

\* As long as the loader has not decided, Admission does not notice.
LEMMA PendingStutter ==
  ASSUME stage \in Open, stage' \in Open, UNCHANGED <<faults, file, text>>
  PROVE  UNCHANGED A!admission
<1>1. Intact' = Intact /\ Input' = Input
  BY IntactIsConstant DEF Input
<1>. QED
  BY <1>1, VerdictFacts, VerdictFactsNext DEF A!admission, Shown

\* Input that can be read as it is is in the buffer once it is parsed.
LEMMA InputRead ==
  ASSUME AdmInv, stage # "read", Intact
  PROVE  Input = text /\ text = file
BY DEF AdmInv, ReadYet, Input

\* A refusal of anything but a canonical text is allowed.
LEMMA RefuseStep ==
  ASSUME stage \in Open, stage' \in Shut, UNCHANGED <<faults, file, text>>,
         ~(Intact /\ Canonical(Input))
  PROVE  A!Refuse
<1>1. Intact' = Intact /\ Input' = Input
  BY IntactIsConstant DEF Input
<1>. QED
  BY <1>1, VerdictFacts, VerdictFactsNext, SameOperators DEF A!Refuse, Shown

\* At the comparison a canonical text is the text of the array.
LEMMA CanonicalAgrees ==
  ASSUME LoadInv, AdmInv, stage \in Parsing, Canonical(text)
  PROVE  SameText /\ ~NoFormat /\ instrs # <<>> /\ (phase # 2 => HeaderConfirmed)
<1>1. /\ Count(text.body) = Len(text.body) /\ text.body # <<>>
      /\ text.body \in Seq(Line)
      /\ Len(text.header) = 4
  BY CanonicalText, FileParts DEF LoadInv, LoadTypeOK
<1>2. Len(instrs) = Len(text.body) /\ line = Len(instrs) + 1 /\ instrs \in Seq(Parsed)
  BY <1>1 DEF LoadInv, OnePerLine, Parsing, Split, LoadTypeOK
<1>3. \A n \in DOMAIN instrs : n < line
  BY <1>2
<1>4. \A n \in DOMAIN instrs :
        instrs[n].fmt_type # "FMT_ERROR" /\ Stringify(instrs[n]) = text.body[n]
  BY <1>3 DEF AdmInv, RoundTrip, Parsing, Split
<1>5. DOMAIN instrs = DOMAIN text.body
  BY <1>1, <1>2
<1>6. SameText
  <2>1. text.body = [n \in DOMAIN text.body |-> text.body[n]]
    BY <1>1
  <2>. QED
    BY <1>4, <1>5, <2>1 DEF SameText, Written
<1>7. instrs # <<>>
  BY <1>1, <1>2
<1>8. phase # 2 => HeaderConfirmed
  BY DEF LoadInv, Configured, Parsing, HeaderRead
<1>. QED
  BY <1>4, <1>6, <1>7, <1>8 DEF NoFormat

\* Accepted is what the text says.
LEMMA AcceptStep ==
  ASSUME LoadInv, AdmInv, Accept
  PROVE  A!Admit
<1>1. /\ stage = "compare" /\ SameText /\ instrs # <<>> /\ stage' = "accepted"
      /\ UNCHANGED <<faults, file, text, instrs>>
  BY DEF Accept, Goto
<1>2. instrs \in Seq(Parsed) /\ Len(instrs) = Count(text.body)
  BY <1>1 DEF LoadInv, LoadTypeOK, OnePerLine, Split
<1>3. Count(text.body) # 0
  BY <1>1, <1>2
<1>4. text.body # <<>>
  <2>1. Count(<<>>) = 0
    BY DEF Count
  <2>. QED
    BY <1>3, <2>1
<1>5. Input = text /\ Input' = Input /\ Intact' = Intact
  <2>1. text # NothingRead
    BY <1>4 DEF NothingRead
  <2>. QED
    BY <1>1, <2>1, IntactIsConstant DEF Input
<1>6. text.body = [n \in DOMAIN instrs |-> Stringify(instrs[n])]
  BY <1>1 DEF SameText, Written
<1>7. \A n \in DOMAIN instrs : instrs[n] \in Parsed
  BY <1>2
<1>8. \A n \in DOMAIN instrs :
        A!Meaning(text.body[n]) = [op |-> instrs[n].inst_no, operands |-> OperandsOf(instrs[n])]
  BY <1>1, <1>6, <1>7, MeaningOfText DEF AdmInv, OpcodeKept, Split
<1>9. Said' = [n \in DOMAIN text.body |-> A!Meaning(text.body[n])]
  <2>1. Said' = Said
    BY <1>1 DEF Said
  <2>2. DOMAIN text.body = DOMAIN instrs
    BY <1>6
  <2>. QED
    BY <1>8, <2>1, <2>2 DEF Said
<1>10. Verdict = "pending" /\ Verdict' = "accepted" /\ Shown' = Said'
  BY <1>1, VerdictFacts, VerdictFactsNext DEF Open
<1>. QED
  BY <1>3, <1>5, <1>9, <1>10, SameOperators DEF A!Admit, Shown

\* Without an instruction nothing is promised, and the text is not canonical.
LEMMA NothingStep ==
  ASSUME LoadInv, AdmInv, CompareNothing
  PROVE  A!Admit \/ A!Refuse
<1>1. PICK s \in {"accepted", "rejected", "aborted"} :
        (text.body = <<>> => s = "aborted") /\ Goto(s)
  BY DEF CompareNothing
<1>2. /\ stage = "compare" /\ instrs = <<>> /\ stage' = s
      /\ UNCHANGED <<faults, file, text, instrs>>
  BY <1>1 DEF CompareNothing, Goto
<1>3. Count(text.body) = 0
  BY <1>2 DEF LoadInv, OnePerLine, Split
<1>4. CASE s = "accepted"
  <2>1. text # NothingRead
    BY <1>1, <1>4 DEF NothingRead
  <2>2. Input = text /\ Input' = Input /\ Intact' = Intact
    BY <1>2, <2>1, IntactIsConstant DEF Input
  <2>3. Said' = <<>>
    BY <1>2 DEF Said
  <2>4. Verdict = "pending" /\ Verdict' = "accepted" /\ Shown' = Said'
    BY <1>2, <1>4, VerdictFacts, VerdictFactsNext DEF Open
  <2>. QED
    BY <1>3, <2>2, <2>3, <2>4, SameOperators DEF A!Admit, Shown
<1>5. CASE s # "accepted"
  <2>1. ~(Intact /\ Canonical(Input))
    BY <1>2, InputRead, CanonicalAgrees DEF Parsing
  <2>. QED
    BY <1>1, <1>2, <1>5, <2>1, RefuseStep DEF Open, Shut
<1>. QED
  BY <1>4, <1>5

\* The end of the input may damage it, if it cannot be read as it is.
LEMMA EndOfFileStep ==
  ASSUME LoadInv, AdmInv, EndOfFile
  PROVE  [A!AdmissionNext]_A!admission
<1>1. stage = "read" /\ stage' = "parse" /\ UNCHANGED <<faults, file>>
  BY DEF EndOfFile
<1>2. AdmInv' /\ text' \in File
  BY EndOfFileAdm
<1>3. /\ Verdict = "pending" /\ Verdict' = "pending" /\ Shown = <<>> /\ Shown' = <<>>
      /\ Intact' = Intact
  BY <1>1, VerdictFacts, VerdictFactsNext, IntactIsConstant DEF Open
<1>4. Input = file /\ Input' \in File
  BY <1>1, <1>2 DEF AdmInv, ReadYet, Input, LoadInv, LoadTypeOK
<1>5. CASE Intact
  <2>1. Input' = Input
    BY <1>1, <1>2, <1>3, <1>4, <1>5 DEF AdmInv, ReadYet, Input
  <2>. QED
    BY <1>3, <2>1 DEF A!admission, Shown
<1>6. CASE ~Intact
  BY <1>3, <1>4, <1>6, SameOperators DEF A!AdmissionNext, A!Damage, Shown
<1>. QED
  BY <1>5, <1>6

LEMMA AdmissionStep ==
  ASSUME LoadInv, AdmInv, ValidatedInPhase1, [LoadNext]_loadvars
  PROVE  [A!AdmissionNext]_A!admission
<1>1. CASE Read \/ ParseHeader \/ SplitLines \/ ParseLine \/ SkipLine \/ LinesParsed
           \/ Phase2Lines \/ Phase2Line \/ Phase2Parsed
  <2>1. stage \in Open /\ stage' \in Open /\ UNCHANGED <<faults, file, text>>
    BY <1>1 DEF Read, ParseHeader, SplitLines, ParseLine, SkipLine, LinesParsed,
       Phase2Lines, Phase2Line, Phase2Parsed, Goto, Open
  <2>. QED
    BY <2>1, PendingStutter
<1>2. CASE EndOfFile
  BY <1>2, EndOfFileStep
<1>3. CASE ReadError
  <2>1. stage = "read" /\ stage' = "failed" /\ UNCHANGED <<faults, file, text>> /\ ~Intact
    BY <1>3 DEF ReadError, Goto, Intact
  <2>. QED
    BY <2>1, RefuseStep DEF Open, Shut, A!AdmissionNext
<1>4. CASE HeaderAbort \/ SplitAbort \/ Phase2Abort
  <2>1. stage \in {"parse", "lines"} /\ stage' = "aborted" /\ UNCHANGED <<faults, file, text>>
    BY <1>4 DEF HeaderAbort, SplitAbort, Phase2Abort, Goto
  <2>2. ~Canonical(text)
    <3>1. text \in File /\ Len(<<>>) = 0
      BY DEF LoadInv, LoadTypeOK
    <3>2. HeaderFails \/ LinesAborts(text.body) \/ text.header = <<>>
      BY <1>4 DEF HeaderAbort, SplitAbort, Phase2Abort
    <3>. QED
      BY <3>1, <3>2, CanonicalText DEF HeaderFails
  <2>. QED
    BY <2>1, <2>2, InputRead, RefuseStep DEF Open, Shut, A!AdmissionNext
<1>5. CASE ValidateHeader \/ StringifyExits \/ Reject
  <2>1. stage \in {"validate", "compare"} /\ UNCHANGED <<faults, file, text>>
        /\ stage' \in {"compare", "failed", "rejected", "aborted"}
    BY <1>5 DEF ValidateHeader, StringifyExits, Reject, Goto
  <2>2. CASE stage' = "compare"
    BY <2>1, <2>2, PendingStutter DEF Open
  <2>3. CASE stage' # "compare"
    <3>1. (phase = 1 /\ ~HeaderConfirmed) \/ NoFormat \/ ~SameText
      BY <1>5, <2>3 DEF ValidateHeader, StringifyExits, Reject, Goto, ValidatedInPhase1
    <3>2. ~(Intact /\ Canonical(Input))
      BY <2>1, <3>1, InputRead, CanonicalAgrees DEF Parsing
    <3>. QED
      BY <2>1, <2>3, <3>2, RefuseStep DEF Open, Shut, A!AdmissionNext
  <2>. QED
    BY <2>2, <2>3
<1>6. CASE Accept \/ CompareNothing
  BY <1>6, AcceptStep, NothingStep DEF A!AdmissionNext
<1>7. CASE UNCHANGED loadvars
  BY <1>7 DEF loadvars, A!admission, Intact, Size, Input, Verdict, Said
<1>. QED
  BY <1>1, <1>2, <1>3, <1>4, <1>5, <1>6, <1>7 DEF LoadNext, LoadStep

LEMMA AdmissionBegins == LoadInit => A!AdmissionInit
<1>. SUFFICES ASSUME LoadInit PROVE A!AdmissionInit
  OBVIOUS
<1>1. stage = "read" /\ text = NothingRead /\ file \in File
  BY LoaderAssumption DEF LoadInit
<1>2. Input = file /\ Verdict = "pending" /\ Shown = <<>>
  BY <1>1, VerdictFacts DEF Input, Open
<1>3. Intact \in BOOLEAN
  BY DEF Intact
<1>. QED
  BY <1>1, <1>2, <1>3, SameOperators DEF A!AdmissionInit, Shown

\* The loaders implement Admission, up to its liveness.  Whatever they misread
\* on the way, an array that gets through the comparison says of every line
\* what the line says, and a program as object_create writes it, which can be
\* read, is never refused.
THEOREM LoaderImplementsAdmission == LoadSpec => A!AdmissionSafety
<1>1. LoadInit => A!AdmissionInit
  BY AdmissionBegins
<1>2. LoadInv /\ AdmInv /\ ValidatedInPhase1 /\ [LoadNext]_loadvars
        => [A!AdmissionNext]_A!admission
  BY AdmissionStep
<1>. QED
  BY <1>1, <1>2, AdmSpecInv, PTL DEF LoadSpec, A!AdmissionSafety
=============================================================================
