---------------------------- MODULE RegisterProofs ----------------------------
(***************************************************************************)
(* What is proved of machine words and of the register file, for every     *)
(* width, number of registers and instruction; the proofs about the two    *)
(* emulators, ProcessorProofs and Phase2Proofs, rest on it.                *)
(***************************************************************************)
EXTENDS Registers, TLAPS

-----------------------------------------------------------------------------
(* The operators on words yield words and bytes. *)

\* Every result of an operation of registers.c or memory.c has the width of
\* a register.
LEMMA WordOperators ==
  ASSUME NEW a \in Word, NEW b \in Word, NEW n
  PROVE  /\ ZeroWord \in Word
         /\ OfInt(n) \in Word
         /\ Add(a, b) \in Word
         /\ Sub(a, b) \in Word
         /\ And(a, b) \in Word
         /\ Or(a, b) \in Word
         /\ Xor(a, b) \in Word
         /\ ShiftLeft(a, n) \in Word
         /\ ShiftRightLogical(a, n) \in Word
         /\ ShiftRightArith(a, n) \in Word
         /\ ZeroExtend(a, n) \in Word
<1>0. XLEN - 1 \in Bit
  BY BitsAssumption DEF XLEN, Bit
<1>1. \A m : OfInt(m) \in Word
  BY DEF OfInt, Word
<1>2. Add(a, b) \in Word /\ Sub(a, b) \in Word
  BY <1>1 DEF Add, Sub
<1>3. And(a, b) \in Word /\ Or(a, b) \in Word /\ Xor(a, b) \in Word
  BY DEF And, Or, Xor, Word
<1>4. ShiftLeft(a, n) \in Word /\ ShiftRightLogical(a, n) \in Word
  BY DEF ShiftLeft, ShiftRightLogical, Word
<1>5. ShiftRightArith(a, n) \in Word
  BY <1>0 DEF ShiftRightArith, Word
<1>6. ZeroWord \in Word /\ ZeroExtend(a, n) \in Word
  BY DEF ZeroWord, ZeroExtend, Word
<1>. QED
  BY <1>1, <1>2, <1>3, <1>4, <1>5, <1>6

\* Extending the sign of one of the bits of a word.
LEMMA SignExtendType ==
  ASSUME NEW a \in Word, NEW n, n - 1 \in Bit
  PROVE  SignExtend(a, n) \in Word
BY DEF SignExtend, Word, Bit

\* A word has eight bytes.
LEMMA ByteOfType ==
  ASSUME NEW a \in Word, NEW n \in 0 .. 7
  PROVE  ByteOf(a, n) \in Byte
<1>1. ASSUME NEW k \in 0 .. BITS - 1
      PROVE  n * BITS + k \in Bit
  <2>1. n = 0 \/ n = 1 \/ n = 2 \/ n = 3 \/ n = 4 \/ n = 5 \/ n = 6 \/ n = 7
    OBVIOUS
  <2>. QED
    BY <2>1, BitsAssumption DEF Bit, XLEN
<1>. QED
  BY <1>1 DEF ByteOf, Byte, Word

-----------------------------------------------------------------------------
(* The register file. *)

RegistersTyped == rs \in BOOLEAN /\ pc \in Nat /\ x \in [Reg -> Word]

\* registers_getreg returns a word for any register number, a negative one
\* or one that is too large included.
LEMMA GetRegType ==
  ASSUME RegistersTyped, NEW r
  PROVE  GetReg(r) \in Word
<1>1. ZeroWord \in Word
  BY DEF ZeroWord, Word
<1>. QED
  BY <1>1 DEF RegistersTyped, GetReg

\* The result of a register operation of registers.c is a word.
LEMMA AluResultType ==
  ASSUME RegistersTyped, NEW inst
  PROVE  AluResult(inst) \in Word
<1>2. GetReg(Operands(inst).rs1) \in Word /\ GetReg(Operands(inst).rs2) \in Word
  BY GetRegType
<1>3. ASSUME NEW n PROVE OfInt(n) \in Word
  BY WordOperators, <1>2
<1>. QED
  BY <1>2, <1>3, WordOperators DEF AluResult

\* The result of a register operation of the object file is a word.
LEMMA ProvidedAluResultType ==
  ASSUME RegistersTyped, NEW inst
  PROVE  ProvidedAluResult(inst) \in Word
<1>. DEFINE a == GetReg(inst.rs1)
            b == IF inst.fmt_type = "FMT_RRR" THEN GetReg(inst.rs2) ELSE OfInt(inst.imm)
<1>1. a \in Word /\ GetReg(inst.rs2) \in Word
  BY GetRegType
<1>2. \A n : OfInt(n) \in Word
  BY WordOperators, <1>1
<1>3. b \in Word
  BY <1>1, <1>2
<1>4. 4 * BITS - 1 \in Bit
  BY BitsAssumption DEF Bit, XLEN
<1>5. \A w \in Word : SignExtend(w, 4 * BITS) \in Word
  BY <1>4, SignExtendType
<1>6. \A w \in Word, v \in Word : \A n :
        /\ Add(w, v) \in Word /\ Sub(w, v) \in Word /\ And(w, v) \in Word
        /\ Or(w, v) \in Word /\ Xor(w, v) \in Word
        /\ ShiftLeft(w, n) \in Word /\ ShiftRightLogical(w, n) \in Word
        /\ ShiftRightArith(w, n) \in Word /\ ZeroExtend(w, n) \in Word
  BY WordOperators
<1>7. \A n : /\ ShiftLeft(b, n) \in Word /\ ShiftLeft(a, n) \in Word
             /\ ShiftRightLogical(a, n) \in Word /\ ShiftRightArith(a, n) \in Word
             /\ SignExtend(ShiftLeft(a, n), 4 * BITS) \in Word
             /\ SignExtend(ShiftRightLogical(ZeroExtend(a, 4 * BITS), n), 4 * BITS) \in Word
             /\ ShiftRightArith(SignExtend(a, 4 * BITS), n) \in Word
  BY <1>1, <1>3, <1>5, <1>6
<1>8. /\ Add(a, b) \in Word /\ Sub(a, b) \in Word
      /\ Or(a, b) \in Word /\ And(a, b) \in Word /\ Xor(a, b) \in Word
      /\ SignExtend(Add(a, b), 4 * BITS) \in Word
      /\ SignExtend(Sub(a, b), 4 * BITS) \in Word
  BY <1>1, <1>3, <1>5, <1>6
<1>. QED
  BY <1>2, <1>7, <1>8 DEF ProvidedAluResult

\* registers_setreg leaves a register file.
LEMMA SetRegType ==
  ASSUME RegistersTyped, NEW r, NEW v \in Word
  PROVE  SetReg(r, v) \in [Reg -> Word]
BY DEF RegistersTyped, SetReg, SetRegS, ProvidedSetReg

\* A register file in which at most one register is not the one of x.
DiffersInOne(y) == \E r \in Reg : \A q \in Reg \ {r} : y[q] = x[q]

\* registers_setreg changes at most one register, and x0 only if asked to.
LEMMA SetRegChanges ==
  ASSUME RegistersTyped, NEW r, NEW v
  PROVE  /\ DiffersInOne(SetReg(r, v))
         /\ r # 0 => SetReg(r, v)[0] = x[0]
         /\ HW2 = "S" => SetReg(r, v)[0] = x[0]
<1>1. 0 \in Reg
  BY RegistersAssumption DEF Reg
<1>2. r \notin Reg => \A q \in Reg : SetReg(r, v)[q] = x[q]
  BY DEF SetReg, SetRegS, ProvidedSetReg, RegistersTyped
<1>3. r \in Reg => \A q \in Reg \ {r} : SetReg(r, v)[q] = x[q]
  BY DEF SetReg, SetRegS, ProvidedSetReg, RegistersTyped
<1>4. HW2 = "S" => SetReg(r, v)[0] = x[0]
  BY <1>1 DEF SetReg, SetRegS, RegistersTyped
<1>. QED
  BY <1>1, <1>2, <1>3, <1>4 DEF DiffersInOne

-----------------------------------------------------------------------------
(* The program counter. *)

LEMMA ModRange == ASSUME NEW n \in Nat, NEW m \in Nat \ {0} PROVE n % m \in 0 .. m - 1
OBVIOUS

LEMMA ModSmall == ASSUME NEW m \in Nat \ {0}, NEW n \in 0 .. m - 1 PROVE n % m = n
OBVIOUS

\* The pc a handler reads fits an unsigned int.
LEMMA GetPcRange ==
  ASSUME RegistersTyped
  PROVE  GetPc \in 0 .. UINT_MAX
<1>1. UINT_MAX + 1 \in Nat \ {0}
  BY RegistersAssumption
<1>. QED
  BY <1>1, ModRange, RegistersAssumption DEF RegistersTyped, GetPc

\* However a handler advances the pc, the next one read is that of the next
\* instruction, or the same one if there is no register file.
LEMMA PcMoves ==
  ASSUME RegistersTyped, UNCHANGED rs,
         \/ pc' = SetPc(NextPc)
         \/ rs /\ pc' = GetPc + 4
  PROVE  /\ pc' \in Nat /\ GetPc' \in {GetPc, NextPc}
         /\ GetPc' = IF rs THEN NextPc ELSE GetPc
<1>1. UINT_MAX + 1 \in Nat \ {0} /\ GetPc + 4 \in Nat
  BY GetPcRange, RegistersAssumption
<1>2. NextPc \in 0 .. UINT_MAX
  <2>1. (GetPc + 4) % (UINT_MAX + 1) \in 0 .. (UINT_MAX + 1) - 1
    BY <1>1, ModRange
  <2>. QED
    BY <2>1, RegistersAssumption DEF NextPc
<1>3. NextPc % (UINT_MAX + 1) = NextPc
  BY <1>1, <1>2, ModSmall, RegistersAssumption
<1>4. GetPc' = IF rs THEN pc' % (UINT_MAX + 1) ELSE 0
  BY DEF GetPc
<1>5. CASE rs
  BY <1>1, <1>2, <1>3, <1>4, <1>5 DEF SetPc, NextPc
<1>6. CASE ~rs
  BY <1>4, <1>6 DEF SetPc, GetPc, RegistersTyped
<1>. QED
  BY <1>5, <1>6 DEF RegistersTyped

-----------------------------------------------------------------------------
(* The handler. *)

\* What a register operation of registers.c does to the register file.
LEMMA ExecuteChangesS ==
  ASSUME RegistersTyped, NEW inst, ExecuteS(inst)
  PROVE  /\ x' \in [Reg -> Word]
         /\ DiffersInOne(x')
         /\ UNCHANGED rs
         /\ HW2 = "S" => x'[0] = x[0]
         /\ HW2 = "S" /\ ~rs => x' = x
         /\ pc' = SetPc(NextPc)
<1>1. x' = SetReg(Operands(inst).rd, AluResult(inst)) /\ UNCHANGED rs /\ pc' = SetPc(NextPc)
  BY DEF ExecuteS
<1>2. AluResult(inst) \in Word
  BY AluResultType
<1>3. HW2 = "S" /\ ~rs => x' = x
  BY <1>1 DEF SetReg, SetRegS
<1>. QED
  BY <1>1, <1>2, <1>3, SetRegType, SetRegChanges
=============================================================================
