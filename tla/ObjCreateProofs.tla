--------------------------- MODULE ObjCreateProofs ---------------------------
(***************************************************************************)
(* What is extracted from a binary and accepted is the binary, and what is *)
(* extracted from a binary of known instructions is accepted, for every    *)
(* binary that keeps to the assumptions of obj_create.py.                  *)
(***************************************************************************)
EXTENDS AdmissionProofs, ObjCreate, WellFoundedInduction

-----------------------------------------------------------------------------
(* What the filter keeps. *)

\* Induction for a set of numbers: the least number that is missing would
\* follow one that is not.
LEMMA SetInduction ==
  ASSUME NEW S \in SUBSET Nat, 0 \in S, \A n \in S : n + 1 \in S
  PROVE  S = Nat
<1>. DEFINE R == {p \in Nat \X Nat : p[1] < p[2]}
<1>1. IsWellFoundedOn(R, Nat)
  BY NatLessThanWellFounded DEF OpToRel
<1>2. CASE Nat \ S # {}
  <2>1. PICK m \in Nat \ S : \A y \in Nat \ S : ~(<<y, m>> \in R)
    BY <1>1, <1>2, WFMin
  <2>2. m - 1 \in Nat /\ m = (m - 1) + 1
    BY <2>1
  <2>3. <<m - 1, m>> \in R
    BY <2>2
  <2>. QED
    BY <2>1, <2>2, <2>3
<1>. QED
  BY <1>2

\* f gives, for each number up to n, what is kept of so many lines of s.
Keeps(f, s, n) ==
  f = [k \in 0 .. n |->
         IF k = 0 THEN <<>>
         ELSE IF s[k].kind = "zeros" THEN f[k - 1] ELSE Append(f[k - 1], s[k])]

\* A recursive definition defines something only if there is such a function.
LEMMA KeepsExists == ASSUME NEW s PROVE \A n \in Nat : \E f : Keeps(f, s, n)
<1>. DEFINE S == {n \in Nat : \E f : Keeps(f, s, n)}
<1>1. 0 \in S
  <2>1. Keeps([k \in 0 .. 0 |-> <<>>], s, 0)
    BY DEF Keeps
  <2>. QED
    BY <2>1
<1>2. ASSUME NEW n \in S PROVE n + 1 \in S
  <2>1. PICK f : Keeps(f, s, n)
    OBVIOUS
  <2>. DEFINE v == IF s[n + 1].kind = "zeros" THEN f[n] ELSE Append(f[n], s[n + 1])
              g == [k \in 0 .. n + 1 |-> IF k = n + 1 THEN v ELSE f[k]]
              w(k) == IF k = 0 THEN <<>>
                      ELSE IF s[k].kind = "zeros" THEN g[k - 1] ELSE Append(g[k - 1], s[k])
  <2>2. n \in Nat /\ 0 .. n + 1 = (0 .. n) \cup {n + 1}
    OBVIOUS
  <2>3. \A k \in 0 .. n : g[k] = f[k]
    BY <2>2
  <2>4. g[n + 1] = v
    BY <2>2
  <2>5. ASSUME NEW k \in 0 .. n PROVE g[k] = w(k)
    <3>1. CASE k = 0
      BY <2>1, <2>3, <3>1 DEF Keeps
    <3>2. CASE k # 0
      <4>1. k - 1 \in 0 .. n
        BY <3>2
      <4>2. g[k - 1] = f[k - 1] /\ g[k] = f[k]
        BY <2>3, <4>1
      <4>3. f[k] = IF s[k].kind = "zeros" THEN f[k - 1] ELSE Append(f[k - 1], s[k])
        BY <2>1, <3>2 DEF Keeps
      <4>. HIDE DEF g
      <4>. QED
        BY <3>2, <4>2, <4>3
    <3>. QED
      BY <3>1, <3>2
  <2>6. g[n + 1] = w(n + 1)
    <3>1. g[n] = f[n] /\ (n + 1) - 1 = n /\ n + 1 # 0
      BY <2>2, <2>3
    <3>. HIDE DEF g
    <3>. QED
      BY <2>4, <3>1
  <2>7. DOMAIN g = 0 .. n + 1 /\ g = [k \in 0 .. n + 1 |-> g[k]]
    OBVIOUS
  <2>8. g = [k \in 0 .. n + 1 |-> w(k)]
    <3>. HIDE DEF g, w
    <3>. QED
      BY <2>2, <2>5, <2>6, <2>7
  <2>9. Keeps(g, s, n + 1)
    <3>. HIDE DEF g
    <3>. QED
      BY <2>8 DEF Keeps
  <2>. QED
    BY <2>2, <2>9
<1>. QED
  BY <1>1, <1>2, SetInduction

\* What is kept of the first n lines: those that are not zeros, the first of
\* them in front.
KeptFacts(r, s, n) ==
  /\ r \in Seq(Listed)
  /\ \A m \in 1 .. Len(r) : \E k \in 1 .. n : r[m] = s[k] /\ s[k].kind # "zeros"
  /\ \A k \in 1 .. n : s[k].kind # "zeros" => \E m \in 1 .. Len(r) : r[m] = s[k]
  /\ n >= 1 /\ s[1].kind # "zeros" => Len(r) >= 1 /\ r[1] = s[1]

\* Appending keeps what is there.
LEMMA AppendFacts ==
  ASSUME NEW r \in Seq(Listed), NEW l \in Listed
  PROVE  /\ Append(r, l) \in Seq(Listed)
         /\ Len(r) \in Nat /\ Len(Append(r, l)) = Len(r) + 1
         /\ \A m \in 1 .. Len(r) : Append(r, l)[m] = r[m]
         /\ Append(r, l)[Len(r) + 1] = l
OBVIOUS

LEMMA FilteredFacts ==
  ASSUME NEW d \in Dump
  PROVE  KeptFacts(Filtered(d), d.listing, Len(d.listing))
<1>. DEFINE s == d.listing
<1>1. s \in Seq(Listed) /\ Len(s) \in Nat
  BY DEF Dump
<1>2. \A k \in 1 .. Len(s) : s[k] \in Listed
  BY <1>1
<1>. DEFINE h == CHOOSE f : Keeps(f, s, Len(s))
<1>3. Keeps(h, s, Len(s))
  BY <1>1, KeepsExists
<1>4. Filtered(d) = h[Len(s)]
  BY DEF Filtered, Keeps
<1>. HIDE DEF h, s
<1>. DEFINE S == {n \in Nat : n <= Len(s) => KeptFacts(h[n], s, n)}
<1>5. 0 \in S
  <2>1. h[0] = <<>>
    BY <1>1, <1>3 DEF Keeps
  <2>2. KeptFacts(<<>>, s, 0)
    BY DEF KeptFacts
  <2>. QED
    BY <2>1, <2>2
<1>6. ASSUME NEW n \in S PROVE n + 1 \in S
  <2>. SUFFICES ASSUME n + 1 <= Len(s) PROVE KeptFacts(h[n + 1], s, n + 1)
    OBVIOUS
  <2>. DEFINE r == h[n]
  <2>1. n \in Nat /\ n + 1 \in 1 .. Len(s) /\ KeptFacts(r, s, n)
    BY <1>1
  <2>2. h[n + 1] = IF s[n + 1].kind = "zeros" THEN r ELSE Append(r, s[n + 1])
    <3>1. (n + 1) - 1 = n /\ n + 1 # 0 /\ n + 1 \in 0 .. Len(s)
      BY <2>1
    <3>. QED
      BY <1>3, <3>1 DEF Keeps
  <2>3. 1 .. n + 1 = (1 .. n) \cup {n + 1}
    BY <2>1
  <2>4. n = 0 => r = <<>>
    BY <1>1, <1>3 DEF Keeps
  <2>. HIDE DEF r
  <2>5. CASE s[n + 1].kind = "zeros"
    <3>1. h[n + 1] = r
      BY <2>2, <2>5
    <3>2. n + 1 >= 1 /\ s[1].kind # "zeros" => n >= 1
      BY <2>1, <2>5
    <3>. QED
      BY <2>1, <2>3, <2>5, <3>1, <3>2 DEF KeptFacts
  <2>6. CASE s[n + 1].kind # "zeros"
    <3>. DEFINE l == s[n + 1]
                q == Append(r, l)
    <3>1. r \in Seq(Listed) /\ l \in Listed
      BY <1>2, <2>1 DEF KeptFacts
    <3>2. /\ q \in Seq(Listed) /\ Len(r) \in Nat /\ Len(q) = Len(r) + 1
          /\ \A m \in 1 .. Len(r) : q[m] = r[m]
          /\ q[Len(r) + 1] = l
      BY <3>1, AppendFacts
    <3>3. 1 .. Len(q) = (1 .. Len(r)) \cup {Len(r) + 1}
      BY <3>2
    <3>4. h[n + 1] = q
      BY <2>2, <2>6
    <3>. HIDE DEF q
    <3>5. \A m \in 1 .. Len(q) : \E k \in 1 .. n + 1 : q[m] = s[k] /\ s[k].kind # "zeros"
      <4>1. ASSUME NEW m \in 1 .. Len(r)
            PROVE  \E k \in 1 .. n + 1 : q[m] = s[k] /\ s[k].kind # "zeros"
        <5>1. \E k \in 1 .. n : r[m] = s[k] /\ s[k].kind # "zeros"
          BY <2>1 DEF KeptFacts
        <5>. QED
          BY <2>3, <3>2, <5>1
      <4>2. n + 1 \in 1 .. n + 1
        BY <2>3
      <4>. QED
        BY <2>6, <3>2, <3>3, <4>1, <4>2
    <3>6. \A k \in 1 .. n + 1 : s[k].kind # "zeros" => \E m \in 1 .. Len(q) : q[m] = s[k]
      BY <2>1, <2>3, <3>2, <3>3 DEF KeptFacts
    <3>7. s[1].kind # "zeros" => Len(q) >= 1 /\ q[1] = s[1]
      <4>1. CASE n = 0
        BY <2>4, <3>2, <4>1
      <4>2. CASE n # 0
        BY <2>1, <3>2, <4>2 DEF KeptFacts
      <4>. QED
        BY <4>1, <4>2
    <3>. QED
      BY <3>2, <3>4, <3>5, <3>6, <3>7 DEF KeptFacts
  <2>. QED
    BY <2>5, <2>6
<1>7. S = Nat
  BY <1>5, <1>6, SetInduction
<1>. QED
  BY <1>1, <1>4, <1>7 DEF s

-----------------------------------------------------------------------------
(* From the listing to the lines of the file. *)

\* A listing that is not refused is one block of code: each line of what is
\* kept is an instruction, and they follow each other from address zero.
LEMMA KeptIsCode ==
  ASSUME NEW d \in Dump, FromBinary(d)
  PROVE  /\ Filtered(d) \in Seq(Listed) /\ Len(Filtered(d)) >= 1
         /\ \A n \in 1 .. Len(Filtered(d)) :
              Filtered(d)[n].kind = "instruction" /\ Filtered(d)[n].addr = 4 * (n - 1)
<1>. DEFINE r == Filtered(d)
<1>1. KeptFacts(r, d.listing, Len(d.listing))
  BY FilteredFacts
<1>2. d.listing \in Seq(Listed) /\ d.listing # <<>>
      /\ d.listing[1].kind = "instruction" /\ d.listing[1].addr = 0
  BY DEF Dump, FromBinary
<1>3. Len(d.listing) >= 1
  BY <1>2
<1>4. \A n \in 1 .. Len(r) - 1 :
        r[n].kind # "heading" /\ r[n + 1].kind # "heading" /\ r[n].addr + 4 = r[n + 1].addr
  BY DEF FromBinary, ExtractFails, BadListing
<1>. HIDE DEF r
<1>5. r \in Seq(Listed) /\ Len(r) \in Nat /\ Len(r) >= 1 /\ r[1] = d.listing[1]
  BY <1>1, <1>2, <1>3 DEF KeptFacts
<1>6. \A n \in 1 .. Len(r) : r[n] \in Listed
  BY <1>5
<1>7. ASSUME NEW n \in 1 .. Len(r) PROVE r[n].kind = "instruction"
  <2>1. r[n].kind \in {"instruction", "zeros", "heading"}
    BY <1>6 DEF Listed
  <2>2. r[n].kind # "zeros"
    BY <1>1 DEF KeptFacts
  <2>3. r[n].kind # "heading"
    <3>1. CASE n = 1
      BY <1>2, <1>5, <3>1
    <3>2. CASE n # 1
      <4>1. n - 1 \in 1 .. Len(r) - 1 /\ (n - 1) + 1 = n
        BY <1>5, <3>2
      <4>. QED
        BY <1>4, <4>1
    <3>. QED
      BY <3>1, <3>2
  <2>. QED
    BY <2>1, <2>2, <2>3
<1>. DEFINE S == {n \in Nat : n + 1 <= Len(r) => r[n + 1].addr = 4 * n}
<1>8. 0 \in S
  BY <1>2, <1>5
<1>9. ASSUME NEW n \in S PROVE n + 1 \in S
  <2>. SUFFICES ASSUME (n + 1) + 1 <= Len(r) PROVE r[(n + 1) + 1].addr = 4 * (n + 1)
    OBVIOUS
  <2>1. n + 1 \in 1 .. Len(r) - 1 /\ n + 1 <= Len(r)
    BY <1>5
  <2>2. r[n + 1].addr = 4 * n
    BY <2>1
  <2>3. r[n + 1].addr + 4 = r[(n + 1) + 1].addr
    BY <1>4, <2>1
  <2>. QED
    BY <2>2, <2>3
<1>10. S = Nat
  BY <1>8, <1>9, SetInduction
<1>11. ASSUME NEW n \in 1 .. Len(r) PROVE r[n].addr = 4 * (n - 1)
  <2>1. n - 1 \in Nat /\ (n - 1) + 1 = n /\ n <= Len(r)
    BY <1>5
  <2>2. n - 1 \in S
    BY <1>10, <2>1
  <2>. QED
    BY <2>1, <2>2
<1>. QED
  BY <1>5, <1>7, <1>11 DEF r

\* The instructions that are kept are those of the listing.
LEMMA KeptIsListed ==
  ASSUME NEW d \in Dump, FromBinary(d)
  PROVE  /\ \A n \in 1 .. Len(Filtered(d)) : Filtered(d)[n] \in Range(d.listing)
         /\ \A l \in Range(d.listing) : l.kind = "instruction" =>
              \E n \in 1 .. Len(Filtered(d)) : l = Filtered(d)[n]
<1>1. KeptFacts(Filtered(d), d.listing, Len(d.listing))
  BY FilteredFacts
<1>2. DOMAIN d.listing = 1 .. Len(d.listing)
  BY DEF Dump
<1>. DEFINE r == Filtered(d) s == d.listing
<1>3. Range(s) = {s[k] : k \in 1 .. Len(s)}
  BY <1>2 DEF Range
<1>. HIDE DEF r, s
<1>4. ASSUME NEW n \in 1 .. Len(r) PROVE r[n] \in Range(s)
  <2>1. PICK k \in 1 .. Len(s) : r[n] = s[k]
    BY <1>1 DEF KeptFacts, r, s
  <2>. QED
    BY <1>3, <2>1
<1>5. ASSUME NEW l \in Range(s), l.kind = "instruction"
      PROVE  \E n \in 1 .. Len(r) : l = r[n]
  <2>1. PICK k \in 1 .. Len(s) : l = s[k]
    BY <1>3
  <2>2. PICK n \in 1 .. Len(r) : r[n] = s[k]
    BY <1>1, <1>5, <2>1 DEF KeptFacts, r, s
  <2>. QED
    BY <2>1, <2>2
<1>. QED
  BY <1>4, <1>5 DEF r, s

\* instruction_fixup undoes what objdump does to an instruction, at the line
\* that the instruction has in the file.
LEMMA FixupIs ==
  ASSUME NEW l \in Listed, l.kind = "instruction", l.text.name \in Known,
         NEW i \in Nat, l.addr = 4 * i
  PROVE  /\ Fixup(i, l.text) = [name |-> l.text.name, args |-> InBinary(l).operands, form |-> "plain"]
         /\ CanonicalLine(Fixup(i, l.text))
<1>. DEFINE t == l.text
            ops == InBinary(l).operands
            line0 == [name |-> t.name, args |-> ops, form |-> "plain"]
<1>1. t \in Line /\ "unknown" \notin Known /\ "" \notin Known /\ Blank.name = ""
  BY DEF Listed, Known, RRR, RRI, RI, ROR, Blank
<1>2. t \in [name : Mnemonic, args : Seq(Operand), form : Form]
  BY <1>1 DEF Line
<1>3. t = [name |-> t.name, args |-> t.args, form |-> t.form] /\ t.args \in Seq(Operand)
  BY <1>2
<1>4. Disassembled(l)
  BY DEF Listed
<1>5. CanonicalLine(line0) /\ (t.form = "plain" \/ t.name \in Rewritten)
  BY <1>1, <1>4 DEF Disassembled
<1>6. ops = [n \in DOMAIN t.args |->
               IF n = Len(t.args) /\ t.name \in Jumps
               THEN NumArg(t.args[n].val - l.addr) ELSE t.args[n]]
  BY DEF InBinary
<1>7. CASE t.name \in Rewritten
  <2>1. Fixup(i, t) = [t EXCEPT !.form = "plain",
                 !.args = [n \in DOMAIN @ |->
                   IF n = Len(@) /\ t.name \in Jumps THEN NumArg(Relative(@[n].val, i)) ELSE @[n]]]
    BY <1>7 DEF Fixup
  <2>2. \A v : Relative(v, i) = v - l.addr
    BY DEF Relative
  <2>3. Fixup(i, t) = [t EXCEPT !.form = "plain", !.args = ops]
    BY <1>6, <2>1, <2>2
  <2>. HIDE DEF ops
  <2>4. Fixup(i, t) = line0
    BY <1>2, <1>3, <2>3
  <2>. QED
    BY <1>5, <2>4 DEF ops
<1>8. CASE t.name \notin Rewritten
  <2>1. Fixup(i, t) = t /\ t.name \notin Jumps /\ t.form = "plain"
    BY <1>5, <1>8 DEF Fixup, Rewritten
  <2>2. ops = [n \in DOMAIN t.args |-> t.args[n]]
    BY <1>6, <2>1
  <2>3. ops = t.args
    BY <1>3, <2>2
  <2>. HIDE DEF ops
  <2>4. Fixup(i, t) = line0
    BY <1>3, <2>1, <2>3
  <2>. QED
    BY <1>5, <2>4 DEF ops
<1>. QED
  BY <1>7, <1>8

\* The name of a line survives, known or not.
LEMMA FixupName ==
  ASSUME NEW l \in Listed, l.kind = "instruction", NEW i \in Nat
  PROVE  Fixup(i, l.text).name = l.text.name /\ l.text.name \in Known \cup {"unknown"}
<1>1. Disassembled(l) /\ l.text \in Line
  BY DEF Listed
<1>2. l.text.name \in Known \cup {"unknown"}
  BY <1>1 DEF Disassembled, CanonicalLine
<1>3. "" \notin Known \cup {"unknown"} /\ Blank.name = ""
  BY DEF Known, RRR, RRI, RI, ROR, Blank
<1>4. l.text \in [name : Mnemonic, args : Seq(Operand), form : Form]
  BY <1>1, <1>2, <1>3 DEF Line
<1>. QED
  BY <1>2, <1>4 DEF Fixup

\* The lines of the file of a binary, one for each instruction.
LEMMA ExtractedLines ==
  ASSUME NEW d \in Dump, FromBinary(d)
  PROVE  LET r == Filtered(d) b == file.body
         IN  /\ Len(b) = Len(r) /\ DOMAIN b = 1 .. Len(r) /\ Len(r) \in Nat /\ Len(r) >= 1
             /\ \A n \in 1 .. Len(r) : b[n] = Fixup(n - 1, r[n].text) /\ b[n] # Blank
             /\ Count(b) = Len(b)
             /\ Len(file.header) = 4 /\ file.header[1].val = 0
<1>. DEFINE r == Filtered(d)
            b == file.body
<1>1. /\ r \in Seq(Listed) /\ Len(r) >= 1
      /\ \A n \in 1 .. Len(r) : r[n].kind = "instruction" /\ r[n].addr = 4 * (n - 1)
  BY KeptIsCode
<1>2. file = Extracted(d) /\ d.segments[1].vaddr = 0
  BY DEF FromBinary
<1>3. b = [n \in DOMAIN r |-> Fixup(n - 1, r[n].text)]
  <2>1. r # <<>>
    BY <1>1
  <2>. QED
    BY <1>2, <2>1 DEF Extracted
<1>4. file.header = Addresses(d)
  BY <1>2 DEF Extracted
<1>5. Len(file.header) = 4 /\ file.header[1].val = 0
  BY <1>2, <1>4 DEF Addresses, Hex
<1>. HIDE DEF r, b
<1>6. Len(r) \in Nat /\ DOMAIN r = 1 .. Len(r) /\ \A n \in 1 .. Len(r) : r[n] \in Listed
  BY <1>1
<1>7. b = [n \in 1 .. Len(r) |-> Fixup(n - 1, r[n].text)]
  BY <1>3, <1>6
<1>8. Len(b) = Len(r) /\ DOMAIN b = 1 .. Len(r)
      /\ \A n \in 1 .. Len(r) : b[n] = Fixup(n - 1, r[n].text)
  <2>. DEFINE g(n) == Fixup(n - 1, r[n].text)
  <2>1. b = [n \in 1 .. Len(r) |-> g(n)]
    BY <1>7
  <2>. HIDE DEF g
  <2>2. Len(b) = Len(r) /\ DOMAIN b = 1 .. Len(r) /\ \A n \in 1 .. Len(r) : b[n] = g(n)
    BY <1>6, <2>1
  <2>. QED
    BY <2>2 DEF g
<1>9. ASSUME NEW n \in 1 .. Len(r) PROVE b[n] # Blank
  <2>1. n - 1 \in Nat /\ "" \notin Known \cup {"unknown"} /\ Blank.name = ""
    BY DEF Known, RRR, RRI, RI, ROR, Blank
  <2>2. r[n] \in Listed /\ r[n].kind = "instruction" /\ b[n] = Fixup(n - 1, r[n].text)
    BY <1>1, <1>6, <1>8
  <2>3. Fixup(n - 1, r[n].text).name \in Known \cup {"unknown"}
    <3>1. Fixup(n - 1, r[n].text).name = r[n].text.name
          /\ r[n].text.name \in Known \cup {"unknown"}
      BY <2>1, <2>2, FixupName
    <3>. QED
      BY <3>1
  <2>. QED
    BY <2>1, <2>2, <2>3
<1>10. Len(b) \in 1 .. Len(r)
  BY <1>1, <1>6, <1>8
<1>11. Count(b) = Len(b)
  BY <1>9, <1>10 DEF Count
<1>. QED
  BY <1>1, <1>5, <1>6, <1>8, <1>9, <1>11 DEF r, b

-----------------------------------------------------------------------------
(* What the array says of the binary. *)

\* What is accepted, and has an instruction, has been compared.
Compared == stage = "accepted" /\ instrs # <<>> => SameText

LEMMA ComparedNext == Compared /\ [LoadNext]_loadvars => Compared'
<1>. SUFFICES ASSUME Compared, [LoadNext]_loadvars PROVE Compared'
  OBVIOUS
<1>1. CASE Accept
  <2>1. SameText /\ UNCHANGED <<text, instrs>>
    BY <1>1 DEF Accept, Goto
  <2>. QED
    BY <2>1 DEF Compared, SameText, Written
<1>2. CASE CompareNothing
  <2>1. instrs' = <<>>
    BY <1>2 DEF CompareNothing, Goto
  <2>. QED
    BY <2>1 DEF Compared
<1>3. CASE \/ Read \/ ReadError \/ EndOfFile \/ ParseHeader \/ HeaderAbort \/ SplitLines
           \/ SplitAbort \/ ParseLine \/ SkipLine \/ LinesParsed \/ ValidateHeader
  BY <1>3 DEF Read, ReadError, EndOfFile, ParseHeader, HeaderAbort, SplitLines, SplitAbort,
     ParseLine, SkipLine, LinesParsed, ValidateHeader, Goto, Compared
<1>4. CASE Phase2Lines \/ Phase2Abort \/ Phase2Line \/ Phase2Parsed \/ StringifyExits \/ Reject
  BY <1>4 DEF Phase2Lines, Phase2Abort, Phase2Line, Phase2Parsed, StringifyExits, Reject,
     Goto, Compared
<1>5. CASE UNCHANGED loadvars
  BY <1>5 DEF loadvars, Compared, SameText, Written
<1>. QED
  BY <1>1, <1>2, <1>3, <1>4, <1>5 DEF LoadNext, LoadStep

\* An instruction at each line of the binary, if the text of the array is the
\* text of the file.
LEMMA InstructionIs ==
  ASSUME LoadInv, AdmInv, Compared, stage = "accepted", phase # 2,
         NEW d \in Dump, FromBinary(d)
  PROVE  /\ DOMAIN instrs = 1 .. Len(Filtered(d))
         /\ \A n \in 1 .. Len(Filtered(d)) :
              LET l == Filtered(d)[n] IN
              /\ instrs[n].inst_addr = l.addr
              /\ [op |-> instrs[n].inst_no, operands |-> OperandsOf(instrs[n])] = InBinary(l)
<1>. DEFINE r == Filtered(d)
            b == text.body
<1>1. /\ Len(b) = Len(r) /\ DOMAIN b = 1 .. Len(r) /\ Len(r) \in Nat /\ Len(r) >= 1
      /\ \A n \in 1 .. Len(r) : b[n] = Fixup(n - 1, r[n].text)
      /\ Count(b) = Len(b)
      /\ Len(text.header) = 4 /\ text.header[1].val = 0
  BY ExtractedLines DEF FromBinary
<1>2. /\ r \in Seq(Listed)
      /\ \A n \in 1 .. Len(r) : r[n].kind = "instruction" /\ r[n].addr = 4 * (n - 1)
  BY KeptIsCode
<1>. HIDE DEF r, b
<1>3. Len(instrs) = Len(r) /\ instrs \in Seq(Parsed)
  BY <1>1 DEF LoadInv, OnePerLine, Split, LoadTypeOK, b
<1>4. DOMAIN instrs = 1 .. Len(r) /\ \A n \in 1 .. Len(r) : instrs[n] \in Parsed /\ r[n] \in Listed
  BY <1>2, <1>3
<1>5. b = [n \in DOMAIN instrs |-> Stringify(instrs[n])]
  BY <1>1, <1>3 DEF Compared, SameText, Written, b
<1>6. cfg.instr_lower = 0
  <2>1. HeaderConfirmed
    BY DEF LoadInv, Configured, HeaderRead
  <2>. QED
    BY <1>1, <2>1 DEF HeaderConfirmed
<1>7. \A n \in DOMAIN instrs : instrs[n].inst_addr = cfg.instr_lower + 4 * (n - 1)
  BY DEF LoadInv, AcceptedIsPlaced
<1>8. ASSUME NEW n \in 1 .. Len(r)
      PROVE  /\ instrs[n].inst_addr = r[n].addr
             /\ [op |-> instrs[n].inst_no, operands |-> OperandsOf(instrs[n])] = InBinary(r[n])
  <2>. DEFINE l == r[n]
              inst == instrs[n]
  <2>1. /\ l \in Listed /\ l.kind = "instruction" /\ l.addr = 4 * (n - 1) /\ n - 1 \in Nat
        /\ inst \in Parsed /\ b[n] = Fixup(n - 1, l.text) /\ b[n] = Stringify(inst)
        /\ inst.inst_addr = l.addr
    BY <1>1, <1>2, <1>4, <1>5, <1>6, <1>7
  <2>. HIDE DEF l, inst
  <2>2. b[n].name = l.text.name /\ l.text.name \in Known \cup {"unknown"}
    BY <2>1, FixupName
  <2>3. inst.inst_no \in Opcode /\ (inst.fmt_type = "FMT_ECALL" => inst.inst_no = "ECALL")
    <3>1. inst.fmt_type = "FMT_ECALL" => inst.inst_no = "ECALL"
      BY <1>4 DEF AdmInv, OpcodeKept, Split, inst
    <3>. QED
      BY <2>1, <3>1 DEF Parsed
  <2>4. b[n].name \in Known \cup {"(null)"}
    <3>1. "ECALL" \in Known /\ instr_name(inst.inst_no) \in Known \cup {"(null)"}
      BY DEF Known, instr_name
    <3>. QED
      BY <2>1, <3>1 DEF Stringify
  <2>5. l.text.name \in Known
    <3>1. "unknown" \notin Known \cup {"(null)"}
      BY DEF Known, RRR, RRI, RI, ROR
    <3>. QED
      BY <2>2, <2>4, <3>1
  <2>6. b[n] = [name |-> l.text.name, args |-> InBinary(l).operands, form |-> "plain"]
    BY <2>1, <2>5, FixupIs
  <2>7. A!Meaning(Stringify(inst)) = [op |-> inst.inst_no, operands |-> OperandsOf(inst)]
    BY <2>1, <2>3, MeaningOfText
  <2>8. A!Meaning(b[n]) = [op |-> l.text.name, operands |-> InBinary(l).operands]
    BY <2>5, <2>6, SameOperators DEF A!Meaning, instr_num
  <2>9. InBinary(l) = [op |-> l.text.name, operands |-> InBinary(l).operands]
    BY DEF InBinary
  <2>. QED
    BY <2>1, <2>7, <2>8, <2>9 DEF l, inst
<1>. QED
  BY <1>4, <1>8 DEF r

\* The array of an accepted program is the binary it was extracted from.
LEMMA ArrayOfBinary ==
  ASSUME LoadInv, AdmInv, Compared
  PROVE  ArrayIsBinary
<1>. SUFFICES ASSUME stage = "accepted", phase # 2, NEW d \in Dumps, FromBinary(d)
     PROVE  {[addr |-> l.addr, inst |-> InBinary(l)] :
                 l \in {m \in Range(d.listing) : m.kind = "instruction"}}
              = {[addr |-> inst.inst_addr,
                  inst |-> [op |-> inst.inst_no, operands |-> OperandsOf(inst)]] :
                 inst \in Range(instrs)}
  BY DEF ArrayIsBinary
<1>. DEFINE r == Filtered(d)
            listed(l) == [addr |-> l.addr, inst |-> InBinary(l)]
            stored(inst) == [addr |-> inst.inst_addr,
                             inst |-> [op |-> inst.inst_no, operands |-> OperandsOf(inst)]]
            code == {m \in Range(d.listing) : m.kind = "instruction"}
<1>1. d \in Dump
  BY ObjCreateAssumption
<1>2. /\ DOMAIN instrs = 1 .. Len(r)
      /\ \A n \in 1 .. Len(r) : stored(instrs[n]) = listed(r[n])
  BY <1>1, InstructionIs
<1>3. \A n \in 1 .. Len(r) : r[n] \in code
  BY <1>1, KeptIsListed, KeptIsCode
<1>4. \A l \in code : \E n \in 1 .. Len(r) : l = r[n]
  BY <1>1, KeptIsListed
<1>5. Range(instrs) = {instrs[n] : n \in 1 .. Len(r)}
  BY <1>2 DEF Range
<1>. HIDE DEF r, listed, stored, code
<1>6. {listed(l) : l \in code} = {stored(inst) : inst \in Range(instrs)}
  <2>1. ASSUME NEW l \in code PROVE \E inst \in Range(instrs) : listed(l) = stored(inst)
    BY <1>2, <1>4, <1>5
  <2>2. ASSUME NEW inst \in Range(instrs) PROVE \E l \in code : listed(l) = stored(inst)
    BY <1>2, <1>3, <1>5
  <2>. QED
    BY <2>1, <2>2
<1>. QED
  BY <1>6 DEF listed, stored, code

\* The file of a binary whose instructions are known is as a program should
\* be written.
LEMMA BinaryIsCanonical ==
  ASSUME NEW d \in Dump, FromBinary(d),
         \A l \in Range(d.listing) : l.kind = "instruction" => l.text.name \in Known
  PROVE  Canonical(file)
<1>. DEFINE r == Filtered(d)
            b == file.body
<1>1. /\ Len(b) = Len(r) /\ DOMAIN b = 1 .. Len(r) /\ Len(r) \in Nat /\ Len(r) >= 1
      /\ \A n \in 1 .. Len(r) : b[n] = Fixup(n - 1, r[n].text)
      /\ Len(file.header) = 4
  BY ExtractedLines
<1>2. /\ r \in Seq(Listed)
      /\ \A n \in 1 .. Len(r) : r[n].kind = "instruction" /\ r[n].addr = 4 * (n - 1)
  BY KeptIsCode
<1>3. \A n \in 1 .. Len(r) : r[n] \in Listed /\ r[n].text.name \in Known
  BY <1>2, KeptIsListed
<1>. HIDE DEF r, b
<1>4. ASSUME NEW n \in 1 .. Len(r) PROVE CanonicalLine(b[n])
  <2>1. /\ r[n] \in Listed /\ r[n].kind = "instruction" /\ r[n].text.name \in Known
        /\ n - 1 \in Nat /\ r[n].addr = 4 * (n - 1) /\ b[n] = Fixup(n - 1, r[n].text)
    BY <1>1, <1>2, <1>3
  <2>2. CanonicalLine(Fixup(n - 1, r[n].text))
    BY <2>1, FixupIs
  <2>. QED
    BY <2>1, <2>2
<1>5. b # <<>>
  BY <1>1
<1>. QED
  BY <1>1, <1>4, <1>5 DEF Canonical, b

\* What Admission says of a refusal, at any time after it.
RefusedIsIllWritten == stage \in Shut => ~(Intact /\ Canonical(Input))

LEMMA RefusedNext ==
  ASSUME LoadInv, AdmInv, ValidatedInPhase1, RefusedIsIllWritten, [LoadNext]_loadvars
  PROVE  RefusedIsIllWritten'
<1>. SUFFICES ASSUME stage' \in Shut PROVE ~(Intact' /\ Canonical(Input)')
  BY DEF RefusedIsIllWritten
<1>1. Verdict' = "refused"
  BY VerdictFactsNext
<1>2. [A!AdmissionNext]_A!admission
  BY AdmissionStep
<1>3. CASE A!Refuse
  BY <1>3, SameOperators DEF A!Refuse, Canonical
<1>4. CASE UNCHANGED A!admission
  <2>1. Verdict = "refused" /\ Intact' = Intact /\ Input' = Input
    BY <1>1, <1>4 DEF A!admission
  <2>2. stage \in Shut
    BY <2>1 DEF Verdict, Shut
  <2>. QED
    BY <2>1, <2>2 DEF RefusedIsIllWritten, Canonical
<1>5. ~A!Damage /\ ~A!Admit
  BY <1>1 DEF A!Damage, A!Admit
<1>. QED
  BY <1>2, <1>3, <1>4, <1>5 DEF A!AdmissionNext

LEMMA KnownIsAccepted ==
  ASSUME LoadInv, RefusedIsIllWritten
  PROVE  BinariesAreAccepted
<1>. SUFFICES ASSUME Over, faults = {}, Size <= PROG_SZ_MAX, NEW d \in Dumps, FromBinary(d),
                     \A l \in Range(d.listing) : l.kind = "instruction" => l.text.name \in Known
     PROVE  stage = "accepted"
  BY DEF BinariesAreAccepted
<1>1. Canonical(file)
  BY BinaryIsCanonical, ObjCreateAssumption
<1>2. Intact /\ Input = file
  BY DEF Intact, Input, FromBinary
<1>. QED
  BY <1>1, <1>2 DEF RefusedIsIllWritten, Over, Shut

LEMMA BinaryInv ==
  LoadSpec => [](LoadInv /\ AdmInv /\ ValidatedInPhase1 /\ Compared /\ RefusedIsIllWritten)
<1>1. LoadInit => Compared /\ RefusedIsIllWritten
  BY DEF LoadInit, Compared, RefusedIsIllWritten, Shut
<1>. QED
  BY <1>1, ComparedNext, RefusedNext, AdmSpecInv, PTL DEF LoadSpec

\* Nothing that the filters of obj_create.py drop moves what comes after it:
\* each instruction of the binary is in the array, at its address, with its
\* operands and its distance to where it jumps.
THEOREM BinariesAreLoaded == LoadSpec => []ArrayIsBinary
BY BinaryInv, ArrayOfBinary, PTL

\* No spelling that objdump uses for a known instruction is refused: what
\* instruction_fixup rewrites is all there is to rewrite.
THEOREM KnownBinariesAreAccepted == LoadSpec => []BinariesAreAccepted
BY BinaryInv, KnownIsAccepted, PTL
=============================================================================
