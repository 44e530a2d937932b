----------------------------- MODULE AtomicProofs -----------------------------
(***************************************************************************)
(* The loop implements the AtomicMachine, for every width, program, header *)
(* and memory, with either register implementation.                        *)
(***************************************************************************)
EXTENDS ProcessorProofs, ProcessorAtomic

-----------------------------------------------------------------------------
(* The machine means the same by words and instructions. *)

LEMMA SameWords ==
  /\ Atomic!Word = Word /\ Atomic!Byte = Byte
  /\ Atomic!ZeroWord = ZeroWord /\ Atomic!ZeroByte = ZeroByte
  /\ \A w : Atomic!ToNat(w) = ToNat(w)
  /\ \A n : Atomic!OfInt(n) = OfInt(n)
  /\ \A a, b : Atomic!Add(a, b) = Add(a, b)
  /\ \A a, n : Atomic!SignExtend(a, n) = SignExtend(a, n)
  /\ \A a, n : Atomic!ZeroExtend(a, n) = ZeroExtend(a, n)
  /\ \A a, n : Atomic!ByteOf(a, n) = ByteOf(a, n)
  /\ Atomic!XLEN = XLEN
  /\ Atomic!Register = Reg /\ Atomic!ROR = ROR
<1>1. Atomic!XLEN = XLEN /\ Atomic!Bit = Bit
  BY DEF Atomic!XLEN, XLEN, Atomic!Bit, Bit
<1>2. /\ Atomic!Word = Word /\ Atomic!Byte = Byte
      /\ Atomic!ZeroWord = ZeroWord /\ Atomic!ZeroByte = ZeroByte
  BY <1>1 DEF Atomic!Word, Word, Atomic!Byte, Byte, Atomic!ZeroWord, ZeroWord,
     Atomic!ZeroByte, ZeroByte
<1>3. \A w : Atomic!ToNat(w) = ToNat(w)
  BY <1>1 DEF Atomic!ToNat, ToNat
<1>4. \A n : Atomic!OfInt(n) = OfInt(n)
  BY <1>1 DEF Atomic!OfInt, OfInt
<1>5. \A a, b : Atomic!Add(a, b) = Add(a, b)
  BY <1>3, <1>4 DEF Atomic!Add, Add
<1>6. \A a, n : /\ Atomic!SignExtend(a, n) = SignExtend(a, n)
                /\ Atomic!ZeroExtend(a, n) = ZeroExtend(a, n)
  BY <1>1 DEF Atomic!SignExtend, SignExtend, Atomic!ZeroExtend, ZeroExtend
<1>7. \A a, n : Atomic!ByteOf(a, n) = ByteOf(a, n)
  BY DEF Atomic!ByteOf, ByteOf
<1>8. Atomic!Register = Reg /\ Atomic!ROR = ROR
  BY DEF Atomic!Register, Reg, Atomic!ROR, ROR
<1>. QED
  BY <1>1, <1>2, <1>3, <1>4, <1>5, <1>6, <1>7, <1>8

-----------------------------------------------------------------------------
(***************************************************************************)
(* Beside the invariant of the loop: a memory that could not be allocated  *)
(* is empty; when a handler is called the only exception printed is that   *)
(* of the loop head; and what registers.c leaves to memory.c is not for    *)
(* it, whether memory.c looks at the opcode or at the format.              *)
(***************************************************************************)

HeadOnly ==
  stage \in {"regops", "memops"} => printed \cap Exception \subseteq {"EXCEPTION_INSTRUCTION"}

NothingForMemops ==
  HW2 = "S" /\ stage = "memops" => i.inst_no \in ExecutedOps \/ i.fmt_type = "FMT_ECALL"

AtomicInv == Inv /\ HeadOnly /\ NothingForMemops /\ (~mem => size = 0)

LEMMA AtomicSpecInv == Spec => []AtomicInv
<1>1. Init => AtomicInv
  <2>. SUFFICES ASSUME Init PROVE AtomicInv
    OBVIOUS
  <2>1. PICK allocated : InitMemory(cfg.memory_sz, allocated)
    BY DEF Init
  <2>2. ~mem => size = 0
    BY <2>1 DEF InitMemory
  <2>3. HeadOnly /\ NothingForMemops
    BY DEF Init, HeadOnly, NothingForMemops
  <2>. QED
    BY <2>2, <2>3, InitInv DEF AtomicInv
<1>2. AtomicInv /\ [Next]_vars => AtomicInv'
  <2>. SUFFICES ASSUME AtomicInv, [Next]_vars
                PROVE  HeadOnly' /\ NothingForMemops' /\ UNCHANGED <<mem, size>>
    BY NextInv DEF AtomicInv
  <2>1. UNCHANGED <<mem, size>>
    BY DEF Next, Loop, Fetch, FetchOutside, Fetches, Execute, SyscallPrint, RegopsException,
       RegopsPass, RegopsAbort, Store, MemopsStore, Load, MemopsLoad, MemopsException, MemopsPass,
       MemopsAbort, Report, Abort, EndOfLoop, Terminated, memvars, vars
  <2>2. HeadOnly'
    <3>1. CASE \E inst : Fetches(inst)
      BY <3>1 DEF Fetches, HeadPrints, HeadOnly, Exception
    <3>2. CASE stage = "regops" /\ stage' = "memops" /\ printed' \in {printed, printed \cup {"registers"}}
      BY <3>2 DEF AtomicInv, HeadOnly, Exception
    <3>3. CASE stage' \notin {"regops", "memops"}
      BY <3>3 DEF HeadOnly
    <3>4. CASE UNCHANGED vars
      BY <3>4 DEF AtomicInv, HeadOnly, vars
    <3>. QED
      BY <3>1, <3>2, <3>3, <3>4 DEF Next, Loop, Fetch, FetchOutside, Execute, SyscallPrint,
         RegopsException, RegopsPass, RegopsAbort, Store, Load, MemopsException, MemopsPass,
         MemopsAbort, Report, Abort, Proceed, EndOfLoop, Terminated
  <2>3. NothingForMemops'
    <3>1. CASE stage' # "memops"
      BY <3>1 DEF NothingForMemops
    <3>2. CASE Execute \/ SyscallPrint
      BY <3>2, RegistersAssumption DEF NothingForMemops, Execute, SyscallPrint, Proceed,
         RegopsExecute, ExecuteS, RegopsSyscall, SyscallS
    <3>3. CASE RegopsPass
      BY <3>3 DEF NothingForMemops, RegopsPass, RegopsSkips
    <3>4. CASE UNCHANGED vars
      BY <3>4 DEF AtomicInv, NothingForMemops, vars
    <3>. QED
      BY <3>1, <3>2, <3>3, <3>4 DEF Next, Loop, Fetch, FetchOutside, Fetches, RegopsException,
         RegopsAbort, Store, Load, MemopsException, MemopsPass, MemopsAbort, Report, Abort, Proceed,
         EndOfLoop, Terminated
  <2>. QED
    BY <2>1, <2>2, <2>3
<1>. QED
  BY <1>1, <1>2, PTL DEF Spec

-----------------------------------------------------------------------------
(* Loads and stores. *)

\* The place of a bit in its byte.
LEMMA BitOfByte ==
  ASSUME NEW n \in Nat, NEW k \in 0 .. BITS - 1
  PROVE  (n * BITS + k) \div BITS = n /\ (n * BITS + k) % BITS = k
<1>1. BITS \in Nat \ {0}
  BY BitsAssumption
<1>. DEFINE m == n * BITS + k
            q == m \div BITS
            r == m % BITS
<1>2. m \in Nat /\ m = n * BITS + k
  BY <1>1
<1>. HIDE DEF m
<1>3. q \in Nat /\ r \in 0 .. BITS - 1 /\ m = q * BITS + r
  BY <1>1, <1>2
<1>. HIDE DEF q, r
<1>4. ASSUME q < n PROVE FALSE
  <2>1. (q + 1) * BITS <= n * BITS
    BY <1>1, <1>3, <1>4
  <2>. QED
    BY <1>1, <1>2, <1>3, <2>1
<1>5. ASSUME q > n PROVE FALSE
  <2>1. (n + 1) * BITS <= q * BITS
    BY <1>1, <1>3, <1>5
  <2>. QED
    BY <1>1, <1>2, <1>3, <2>1
<1>6. q = n
  BY <1>3, <1>4, <1>5
<1>7. r = k
  BY <1>1, <1>2, <1>3, <1>6
<1>. QED
  BY <1>6, <1>7 DEF q, r, m

\* A load assembles the bytes of its access, the lowest first, and fills the
\* register with zeros or with the sign.
LEMMA LoadIsLittleEndian ==
  ASSUME TypeOK, NEW inst
  PROVE  LET bytes == AccessSize(inst.inst_no)
             v     == LoadValue(inst)
         IN  /\ \A n \in 0 .. bytes - 1 : ByteOf(v, n) = GetByte(ByteAddress(inst, n))
             /\ inst.inst_no \in SignedLoads => v = SignExtend(v, bytes * BITS)
             /\ inst.inst_no \notin SignedLoads => v = ZeroExtend(v, bytes * BITS)
<1>. DEFINE bytes == AccessSize(inst.inst_no)
            bits  == bytes * BITS
            w     == [k \in Bit |-> k < bits /\ GetByte(ByteAddress(inst, k \div BITS))[k % BITS]]
            v     == LoadValue(inst)
<1>1. BITS \in Nat \ {0}
  BY BitsAssumption
<1>2. bytes \in {1, 2, 4, 8}
  BY DEF AccessSize
<1>3. bits \in Nat /\ 1 <= bits /\ bits <= XLEN /\ XLEN \in Nat
  BY <1>1, <1>2 DEF XLEN
<1>4. v = IF inst.inst_no \in SignedLoads THEN SignExtend(w, bits) ELSE w
  BY DEF LoadValue
<1>5. w \in Word /\ \A k \in Bit : w[k] <=> k < bits /\ GetByte(ByteAddress(inst, k \div BITS))[k % BITS]
  BY DEF Word
<1>6. bits = bytes * BITS
  OBVIOUS
<1>. HIDE DEF w, v, bits
<1>7. v \in Word
  BY LoadValueType DEF v
<1>8. \A k \in Bit : k < bits => v[k] = w[k]
  BY <1>4 DEF SignExtend
<1>9. inst.inst_no \in SignedLoads => v = SignExtend(v, bits)
  <2>. SUFFICES ASSUME inst.inst_no \in SignedLoads PROVE v = SignExtend(v, bits)
    OBVIOUS
  <2>1. bits - 1 \in Bit /\ bits - 1 < bits
    BY <1>3 DEF Bit
  <2>2. \A k \in Bit : v[k] = IF k < bits THEN w[k] ELSE w[bits - 1]
    BY <1>4 DEF SignExtend
  <2>3. v[bits - 1] = w[bits - 1]
    BY <2>1, <1>8
  <2>4. \A k \in Bit : SignExtend(v, bits)[k] = v[k]
    BY <1>8, <2>2, <2>3 DEF SignExtend
  <2>5. DOMAIN v = Bit /\ v = [k \in Bit |-> v[k]]
    BY <1>7 DEF Word
  <2>. QED
    BY <2>4, <2>5 DEF SignExtend
<1>10. inst.inst_no \notin SignedLoads => v = ZeroExtend(v, bits)
  <2>. SUFFICES ASSUME inst.inst_no \notin SignedLoads PROVE v = ZeroExtend(v, bits)
    OBVIOUS
  <2>1. \A k \in Bit : v[k] <=> k < bits /\ v[k]
    BY <1>4, <1>5
  <2>2. v = [k \in Bit |-> v[k]] /\ \A k \in Bit : v[k] \in BOOLEAN
    BY <1>7 DEF Word
  <2>3. \A k \in Bit : v[k] = (k < bits /\ v[k])
    BY <2>1, <2>2
  <2>. QED
    BY <2>2, <2>3 DEF ZeroExtend
<1>11. ASSUME NEW n \in 0 .. bytes - 1
       PROVE  ByteOf(v, n) = GetByte(ByteAddress(inst, n))
  <2>1. GetByte(ByteAddress(inst, n)) \in Byte
    BY DEF GetByte, TypeOK, Buffer, ZeroByte, Byte
  <2>2. ASSUME NEW k \in 0 .. BITS - 1
        PROVE  v[n * BITS + k] = GetByte(ByteAddress(inst, n))[k]
    <3>1. n \in Nat /\ n * BITS + k \in Bit /\ n * BITS + k < bits
      <4>1. n = 0 \/ n = 1 \/ n = 2 \/ n = 3 \/ n = 4 \/ n = 5 \/ n = 6 \/ n = 7
        BY <1>2
      <4>2. (n + 1) * BITS <= bits
        <5>1. bytes = 1 \/ bytes = 2 \/ bytes = 4 \/ bytes = 8
          BY <1>2
        <5>. QED
          BY <1>1, <1>6, <4>1, <5>1
      <4>. QED
        BY <1>1, <1>3, <4>1, <4>2 DEF Bit
    <3>2. (n * BITS + k) \div BITS = n /\ (n * BITS + k) % BITS = k
      BY <3>1, BitOfByte
    <3>. DEFINE m == n * BITS + k
    <3>3. m \in Bit /\ m < bits /\ m \div BITS = n /\ m % BITS = k
      BY <3>1, <3>2
    <3>. HIDE DEF m
    <3>4. v[m] = w[m]
      BY <1>8, <3>3
    <3>5. w[m] <=> GetByte(ByteAddress(inst, n))[k]
      BY <1>5, <3>3
    <3>6. w[m] \in BOOLEAN /\ GetByte(ByteAddress(inst, n))[k] \in BOOLEAN
      BY <1>5, <2>1, <3>3 DEF Word, Byte
    <3>. QED
      BY <3>4, <3>5, <3>6 DEF m
  <2>. QED
    BY <2>1, <2>2 DEF ByteOf, Byte
<1>. QED
  BY <1>9, <1>10, <1>11 DEF v, bits

\* A store leaves its bytes, the lowest first, and nothing else.
LEMMA StoreIsLittleEndian ==
  ASSUME TypeOK, NEW inst
  PROVE  \A a \in DOMAIN buffer :
           \/ /\ \A n \in 0 .. AccessSize(inst.inst_no) - 1 : ByteAddress(inst, n) # a
              /\ Stored(inst)[a] = buffer[a]
           \/ \E n \in 0 .. AccessSize(inst.inst_no) - 1 :
                ByteAddress(inst, n) = a /\ Stored(inst)[a] = ByteOf(GetReg(inst.rd), n)
<1>. SUFFICES ASSUME NEW a \in DOMAIN buffer
              PROVE  \/ /\ \A n \in 0 .. AccessSize(inst.inst_no) - 1 : ByteAddress(inst, n) # a
                        /\ Stored(inst)[a] = buffer[a]
                     \/ \E n \in 0 .. AccessSize(inst.inst_no) - 1 :
                          ByteAddress(inst, n) = a /\ Stored(inst)[a] = ByteOf(GetReg(inst.rd), n)
  OBVIOUS
<1>. DEFINE bytes == {n \in 0 .. AccessSize(inst.inst_no) - 1 : ByteAddress(inst, n) = a}
<1>1. Stored(inst)[a] = IF bytes = {} THEN buffer[a]
                        ELSE ByteOf(GetReg(inst.rd), CHOOSE n \in bytes : TRUE)
  BY DEF Stored
<1>2. bytes # {} => (CHOOSE n \in bytes : TRUE) \in bytes
  OBVIOUS
<1>. QED
  BY <1>1, <1>2

-----------------------------------------------------------------------------
(* Where the machine is. *)

LEMMA StatusType == Status' \in {"running", "aborted"} \cup Exception
<1>1. Reported' \in Exception
  <2>1. CASE printed' \cap Exception \subseteq {"EXCEPTION_INSTRUCTION"}
    BY <2>1 DEF Reported, Exception
  <2>2. CASE ~(printed' \cap Exception \subseteq {"EXCEPTION_INSTRUCTION"})
    <3>1. \E ex \in Exception \ {"EXCEPTION_INSTRUCTION"} : ex \in printed'
      BY <2>2
    <3>. QED
      BY <2>2, <3>1 DEF Reported
  <2>. QED
    BY <2>1, <2>2
<1>. QED
  BY <1>1 DEF Status

\* The one exception that the loop returned with.
LEMMA ReportedIs ==
  ASSUME HeadOnly, stage \in {"regops", "memops"}, NEW ex \in Exception, Report(ex)
  PROVE  Status = "running" /\ Status' = ex
<1>1. stage' = "returned" /\ printed' = printed \cup {ex}
  BY DEF Report
<1>2. printed \cap Exception \subseteq {"EXCEPTION_INSTRUCTION"}
  BY DEF HeadOnly
<1>3. CASE ex = "EXCEPTION_INSTRUCTION"
  BY <1>1, <1>2, <1>3 DEF Status, Reported
<1>4. CASE ex # "EXCEPTION_INSTRUCTION"
  <2>1. \A e \in Exception \ {"EXCEPTION_INSTRUCTION"} : e \in printed' <=> e = ex
    BY <1>1, <1>2
  <2>2. (CHOOSE e \in Exception \ {"EXCEPTION_INSTRUCTION"} : e \in printed') = ex
    BY <1>4, <2>1
  <2>3. ~(printed' \cap Exception \subseteq {"EXCEPTION_INSTRUCTION"})
    BY <1>1, <1>4
  <2>4. Reported' = ex
    BY <2>2, <2>3 DEF Reported
  <2>. QED
    BY <1>1, <2>4 DEF Status
<1>. QED
  BY <1>3, <1>4

\* Until an instruction of the program is executed the machine stands on it.
LEMMA AtPlace ==
  ASSUME AtomicInv, stage \in {"regops", "memops"}, FromProgram, GetPc = at
  PROVE  /\ Counter = at /\ Status = "running" /\ Atomic!Runs
         /\ Atomic!Now = i /\ Atomic!Op = i.inst_no
         /\ Atomic!Following = (at + 4) % (UINT_MAX + 1)
         /\ WellFormed(i) /\ i \in Instruction /\ at \in Nat
<1>1. Counter = at /\ Status = "running"
  BY DEF Counter, Astray, Status
<1>2. i = instrs[Index(at)] /\ Index(at) \in DOMAIN instrs
  BY DEF AtomicInv, Inv, InHand, FromProgram
<1>3. Atomic!Place = Index(at)
  BY <1>1 DEF Atomic!Place, Index
<1>4. WellFormed(i) /\ i \in Instruction /\ at \in Nat
  BY ProgramIsWellFormed DEF AtomicInv, Inv, TypeOK
<1>. QED
  BY <1>1, <1>2, <1>3, <1>4 DEF Atomic!Runs, Atomic!Inside, Atomic!Now, Atomic!Op, Atomic!Following

\* Steps of the loop that the machine does not see.
LEMMA Stutters ==
  ASSUME UNCHANGED <<instrs, cfg, x, buffer, size>>, Counter' = Counter, Status' = Status
  PROVE  [Atomic!Execution]_Atomic!atomic
BY DEF Atomic!atomic

\* The counter between the call of a handler and the end of the iteration.
LEMMA AstrayStays ==
  ASSUME AtomicInv, stage \in {"regops", "memops"}, stage' \in {"memops", "report", "returned", "aborted"},
         ~FromProgram, UNCHANGED <<at, cfg, instrs>>
  PROVE  Counter = at /\ Counter' = at /\ ~Atomic!Inside
<1>1. stage = "regops" => GetPc = at
  BY DEF AtomicInv, Inv, Progress, Untouched
<1>2. Counter = at
  BY <1>1 DEF Counter, Astray
<1>3. ~FromProgram'
  BY DEF FromProgram, Index
<1>. QED
  BY <1>2, <1>3 DEF Counter, Astray, Atomic!Inside, Atomic!Place, FromProgram, Index

\* Whatever is executed outside the program is allowed.
LEMMA Strays ==
  ASSUME AtomicInv, Status = "running", ~Atomic!Inside, UNCHANGED <<instrs, cfg, size>>,
         Counter' \in {Counter, (Counter + 4) % (UINT_MAX + 1)},
         x' \in [Reg -> Word], x'[0] = x[0], DiffersInOne(x'), buffer' \in Buffer(size)
  PROVE  Atomic!Stray
<1>1. PICK r \in Reg : \A q \in Reg \ {r} : x'[q] = x[q]
  BY DEF DiffersInOne
<1>2. Atomic!OnlyWrites(r)
  BY <1>1, SameWords DEF Atomic!OnlyWrites
<1>3. buffer' \in [DOMAIN buffer -> Atomic!Byte]
  BY SameWords DEF AtomicInv, Inv, TypeOK, Buffer
<1>4. Status' \in {"running", "aborted"} \cup Atomic!Raised
  <2>1. Status' \in {"running", "aborted"} \cup Exception
    BY StatusType
  <2>. QED
    BY <2>1 DEF Atomic!Raised, Exception
<1>. QED
  BY <1>1, <1>2, <1>3, <1>4, SameWords DEF Atomic!Stray, Atomic!Following

-----------------------------------------------------------------------------
(* The steps of the loop. *)

LEMMA NoRegisterDiffers == x' = x => DiffersInOne(x')
BY RegistersAssumption DEF DiffersInOne, Reg

\* The loop head changes nothing, unless what it found outside the program
\* ends the process.
LEMMA FetchesAtomic ==
  ASSUME AtomicInv, stage = "fetch", NEW inst, Fetches(inst),
         Index(GetPc) \in DOMAIN instrs => inst = instrs[Index(GetPc)] /\ inst \in Instruction
  PROVE  [Atomic!Execution]_Atomic!atomic
<1>1. /\ at' = GetPc /\ GetPc' = GetPc /\ stage' \in {"regops", "aborted"}
      /\ UNCHANGED <<instrs, cfg, x, buffer, size>>
  BY DEF Fetches, regvars, memvars, GetPc
<1>2. Counter = GetPc /\ Counter' = GetPc /\ Status = "running"
  BY <1>1 DEF Counter, Astray, Status
<1>3. CASE stage' = "regops"
  BY <1>1, <1>2, <1>3, Stutters DEF Status
<1>4. CASE stage' = "aborted"
  <2>1. Index(GetPc) \notin DOMAIN instrs
    <3>1. inst.fmt_type = "FMT_ERROR"
      BY <1>4 DEF Fetches, PrintAborts
    <3>. QED
      BY <3>1, WellFormedPrints DEF AtomicInv, Inv, Placed
  <2>2. ~Atomic!Inside
    BY <1>2, <2>1 DEF Atomic!Inside, Atomic!Place, Index
  <2>3. Atomic!Stray
    BY <1>1, <1>2, <2>2, Strays, NoRegisterDiffers DEF AtomicInv, Inv, TypeOK
  <2>. QED
    BY <2>3 DEF Atomic!Execution
<1>. QED
  BY <1>1, <1>3, <1>4

LEMMA FetchAtomic ==
  ASSUME AtomicInv, Fetch \/ FetchOutside
  PROVE  [Atomic!Execution]_Atomic!atomic
<1>1. CASE Fetch
  BY <1>1, FetchesAtomic DEF Fetch, AtomicInv, Inv, TypeOK
<1>2. CASE FetchOutside /\ \E inst \in Garbage : Fetches(inst)
  BY <1>2, FetchesAtomic DEF FetchOutside
<1>3. CASE FetchOutside /\ ~\E inst \in Garbage : Fetches(inst)
  <2>1. /\ stage = "fetch" /\ Index(GetPc) \notin DOMAIN instrs
        /\ stage' = "aborted" /\ at' = GetPc /\ GetPc' = GetPc
        /\ UNCHANGED <<instrs, cfg, x, buffer, size>>
    BY <1>3 DEF FetchOutside, regvars, memvars, GetPc
  <2>2. Counter = GetPc /\ Counter' = GetPc /\ Status = "running"
    BY <2>1 DEF Counter, Astray, Status
  <2>3. ~Atomic!Inside
    BY <2>1, <2>2 DEF Atomic!Inside, Atomic!Place, Index
  <2>4. Atomic!Stray
    BY <2>1, <2>2, <2>3, Strays, NoRegisterDiffers DEF AtomicInv, Inv, TypeOK
  <2>. QED
    BY <2>4 DEF Atomic!Execution
<1>. QED
  BY <1>1, <1>2, <1>3

\* The end of the iteration: an instruction that was not of the program is
\* over.
LEMMA EndOfLoopAtomic ==
  ASSUME AtomicInv, EndOfLoop
  PROVE  [Atomic!Execution]_Atomic!atomic
<1>1. /\ stage = "report" /\ stage' = "fetch" /\ GetPc' = GetPc
      /\ UNCHANGED <<instrs, cfg, x, buffer, size, at>>
  BY DEF EndOfLoop, regvars, memvars, GetPc
<1>2. Counter' = GetPc /\ Status = "running" /\ Status' = "running"
  BY <1>1 DEF Counter, Astray, Status
<1>3. CASE FromProgram
  <2>1. Counter = GetPc
    BY <1>3 DEF Counter, Astray
  <2>. QED
    BY <1>1, <1>2, <2>1, Stutters
<1>4. CASE ~FromProgram
  <2>1. Counter = at /\ ~Atomic!Inside
    BY <1>1, <1>4 DEF Counter, Astray, Atomic!Inside, Atomic!Place, FromProgram, Index
  <2>2. GetPc \in {at, (at + 4) % (UINT_MAX + 1)}
    BY <1>1 DEF AtomicInv, Inv, Progress
  <2>3. Atomic!Stray
    BY <1>1, <1>2, <2>1, <2>2, Strays, NoRegisterDiffers DEF AtomicInv, Inv, TypeOK
  <2>. QED
    BY <2>3 DEF Atomic!Execution
<1>. QED
  BY <1>3, <1>4

\* Where an operation of the program leaves the machine.
LEMMA MovesOn ==
  ASSUME AtomicInv, FromProgram, stage \in {"regops", "memops"}, GetPc = at,
         stage' \in {"memops", "report"}, UNCHANGED <<at, cfg, instrs, rs>>,
         pc' = SetPc(NextPc) \/ (rs /\ pc' = GetPc + 4)
  PROVE  /\ rs => Counter' = Atomic!Following
         /\ ~rs => Counter' = Counter
         /\ Status' = "running"
<1>1. Counter' = GetPc'
  BY DEF Counter, Astray, FromProgram, Index
<1>2. GetPc' = IF rs THEN NextPc ELSE GetPc
  BY PcMoves, RegistersAreTyped DEF AtomicInv, Inv
<1>3. Counter = at /\ Atomic!Following = (at + 4) % (UINT_MAX + 1)
  BY AtPlace
<1>. QED
  BY <1>1, <1>2, <1>3 DEF NextPc, Status

\* The destination of an operation, for the first switch of registers.c and
\* for the handlers that do without one.
LEMMA OnlyDestination ==
  ASSUME AtomicInv, RegopsExecute(i), WellFormed(i)
  PROVE  Atomic!OnlyWrites(i.rd)
<1>. TypeOK /\ X0Hardwired /\ Allocation
  BY DEF AtomicInv, Inv
<1>1. x' \in [Reg -> Word] /\ x'[0] = x[0]
  BY ExecuteChanges DEF AtomicInv, X0Hardwired
<1>2. \A q \in Reg : q # i.rd => x'[q] = x[q]
  <2>1. CASE HW2 = "S" /\ ExecuteS(i)
    <3>1. i.fmt_type \in {"FMT_RRR", "FMT_RRI", "FMT_RI"}
      <4>1. i.inst_no \in RRR \cup RRI \cup RI
        BY <2>1 DEF ExecuteS, ExecutedOps, RegisterOps, ImmediateOps, RRR, RRI, RI
      <4>2. i.inst_no \in RRR \cup RRI \cup RI => i.inst_no \notin ROR /\ i.inst_no # "ECALL"
        BY DEF RRR, RRI, RI, ROR
      <4>3. instr_format(i.inst_no) \in {"FMT_RRR", "FMT_RRI", "FMT_RI"}
        BY <4>1, <4>2 DEF instr_format
      <4>. QED
        BY <4>3 DEF WellFormed
    <3>2. Operands(i).rd = i.rd
      BY <3>1 DEF Operands
    <3>3. x' = SetReg(i.rd, AluResult(i))
      BY <2>1, <3>2 DEF ExecuteS
    <3>. QED
      BY <3>3, <2>1 DEF SetReg, SetRegS, TypeOK
  <2>2. CASE HW2 = "P" /\ ProvidedExecute(i)
    <3>1. x' = [[x EXCEPT ![i.rd] = ProvidedAluResult(i)] EXCEPT ![0] = ZeroWord]
      BY <2>2 DEF ProvidedExecute
    <3>. QED
      BY <3>1 DEF TypeOK, X0Hardwired
  <2>. QED
    BY <2>1, <2>2 DEF RegopsExecute
<1>. QED
  BY <1>1, <1>2, SameWords DEF Atomic!OnlyWrites

\* An operation on registers.
LEMMA ExecuteAtomic ==
  ASSUME AtomicInv, Execute
  PROVE  [Atomic!Execution]_Atomic!atomic
<1>1. /\ stage = "regops" /\ RegopsExecute(i) /\ stage' = "memops"
      /\ UNCHANGED <<cfg, instrs, at, buffer, size>>
  BY DEF Execute, Proceed, memvars
<1>2. /\ x' \in [Reg -> Word] /\ x'[0] = x[0] /\ DiffersInOne(x') /\ rs' = rs /\ (~rs => x' = x)
      /\ pc' = SetPc(NextPc) \/ (rs /\ pc' = GetPc + 4)
  BY <1>1, ExecuteChanges DEF AtomicInv, Inv, X0Hardwired
<1>3. GetPc = at /\ rs \in BOOLEAN /\ buffer \in Buffer(size) /\ Status = "running"
  BY <1>1 DEF AtomicInv, Inv, Progress, Untouched, TypeOK, Status
<1>4. CASE FromProgram
  <2>1. /\ rs => Counter' = Atomic!Following
        /\ ~rs => Counter' = Counter
        /\ Status' = "running"
    BY <1>1, <1>2, <1>3, <1>4, MovesOn
  <2>2. CASE ~rs
    BY <1>1, <1>2, <1>3, <2>1, <2>2, Stutters
  <2>3. CASE rs
    <3>1. Atomic!Runs /\ Atomic!Now = i /\ Atomic!Op = i.inst_no /\ WellFormed(i)
      BY <1>1, <1>3, <1>4, AtPlace
    <3>2. Atomic!OnlyWrites(Atomic!Now.rd)
      BY <1>1, <3>1, OnlyDestination
    <3>3. i.inst_no \in IF HW2 = "S" THEN ExecutedOps ELSE RRR \cup ProvidedRRI \cup {"LUI"}
      BY <1>1 DEF RegopsExecute, ExecuteS, ProvidedExecute
    <3>4. Atomic!Compute
      BY <1>1, <1>3, <2>1, <2>3, <3>1, <3>2, <3>3 DEF Atomic!Compute, Atomic!Continues
    <3>. QED
      BY <3>4 DEF Atomic!Execution
  <2>. QED
    BY <1>3, <2>2, <2>3
<1>5. CASE ~FromProgram
  <2>1. Counter = at /\ Counter' = at /\ ~Atomic!Inside
    BY <1>1, <1>5, AstrayStays
  <2>2. Atomic!Stray
    BY <1>1, <1>2, <1>3, <2>1, Strays
  <2>. QED
    BY <2>2 DEF Atomic!Execution
<1>. QED
  BY <1>4, <1>5

\* The number of a system call is in register a7; it is zero without a
\* register file.
LEMMA SyscallIs ==
  ASSUME AtomicInv
  PROVE  Syscall = x[A7]
<1>1. A7 \in Reg
  BY RegistersAssumption DEF Reg
<1>. QED
  BY <1>1 DEF Syscall, GetReg, AtomicInv, Inv, Allocation, TypeOK

\* System call 23.
LEMMA SyscallAtomic ==
  ASSUME AtomicInv, SyscallPrint
  PROVE  [Atomic!Execution]_Atomic!atomic
<1>1. /\ stage = "regops" /\ RegopsSyscall(i) /\ stage' = "memops"
      /\ UNCHANGED <<cfg, instrs, at, buffer, size>>
  BY DEF SyscallPrint, Proceed, memvars
<1>2. /\ x' = x /\ rs' = rs /\ Syscall = PrintState /\ i.fmt_type = "FMT_ECALL"
      /\ pc' = SetPc(NextPc) \/ (rs /\ pc' = GetPc + 4)
  BY <1>1 DEF RegopsSyscall, SyscallS, ProvidedSyscall, AtomicInv, Inv, Allocation
<1>3. GetPc = at /\ rs \in BOOLEAN /\ buffer \in Buffer(size) /\ x \in [Reg -> Word] /\ Status = "running"
  BY <1>1 DEF AtomicInv, Inv, Progress, Untouched, TypeOK, Status
<1>4. CASE FromProgram
  <2>1. /\ rs => Counter' = Atomic!Following
        /\ ~rs => Counter' = Counter
        /\ Status' = "running"
    BY <1>1, <1>2, <1>3, <1>4, MovesOn
  <2>2. CASE ~rs
    BY <1>1, <1>2, <1>3, <2>1, <2>2, Stutters
  <2>3. CASE rs
    <3>1. Atomic!Runs /\ Atomic!Op = i.inst_no /\ WellFormed(i)
      BY <1>1, <1>3, <1>4, AtPlace
    <3>2. i.inst_no = "ECALL"
      BY <1>2, <3>1 DEF WellFormed, instr_format
    <3>3. x[A7] = Atomic!OfInt(23)
      BY <1>2, SyscallIs, SameWords DEF PrintState
    <3>4. Atomic!Call
      BY <1>1, <1>2, <1>3, <2>1, <2>3, <3>1, <3>2, <3>3 DEF Atomic!Call, Atomic!Continues
    <3>. QED
      BY <3>4 DEF Atomic!Execution
  <2>. QED
    BY <1>3, <2>2, <2>3
<1>5. CASE ~FromProgram
  <2>1. Counter = at /\ Counter' = at /\ ~Atomic!Inside
    BY <1>1, <1>5, AstrayStays
  <2>2. Atomic!Stray
    BY <1>1, <1>2, <1>3, <2>1, Strays, NoRegisterDiffers
  <2>. QED
    BY <2>2 DEF Atomic!Execution
<1>. QED
  BY <1>4, <1>5

\* Executing nothing: the machine sees no step.
LEMMA PassAtomic ==
  ASSUME AtomicInv, stage = "regops" \/ stage = "memops", stage' \in {"memops", "report"},
         UNCHANGED <<regvars, memvars, cfg, instrs, at>>
  PROVE  [Atomic!Execution]_Atomic!atomic
<1>1. Status = "running" /\ Status' = "running" /\ GetPc' = GetPc
  BY DEF Status, GetPc, regvars
<1>2. CASE FromProgram
  <2>1. Counter = GetPc /\ Counter' = GetPc'
    BY <1>2 DEF Counter, Astray, FromProgram, Index
  <2>. QED
    BY <1>1, <2>1, Stutters DEF regvars, memvars
<1>3. CASE ~FromProgram
  BY <1>1, <1>3, AstrayStays, Stutters DEF regvars, memvars
<1>. QED
  BY <1>2, <1>3

\* A step that only ends the run, outside the program.
LEMMA StrayEnds ==
  ASSUME AtomicInv, stage \in {"regops", "memops"}, stage' \in {"returned", "aborted"},
         ~FromProgram, UNCHANGED <<regvars, memvars, cfg, instrs, at>>
  PROVE  [Atomic!Execution]_Atomic!atomic
<1>1. Counter = at /\ Counter' = at /\ ~Atomic!Inside
  BY AstrayStays
<1>2. Status = "running" /\ UNCHANGED <<x, buffer, size>>
  BY DEF Status, regvars, memvars
<1>3. Atomic!Stray
  BY <1>1, <1>2, Strays, NoRegisterDiffers DEF AtomicInv, Inv, TypeOK
<1>. QED
  BY <1>3 DEF Atomic!Execution

\* A step that only ends the run, on the program: the machine stops.
LEMMA StopsAt ==
  ASSUME AtomicInv, stage \in {"regops", "memops"}, GetPc = at, FromProgram,
         UNCHANGED <<regvars, memvars, cfg, instrs, at>>
  PROVE  Atomic!Stops(Status')
<1>1. Counter = at /\ Counter' = at
  BY AtPlace DEF Counter, GetPc, regvars
<1>. QED
  BY <1>1 DEF Atomic!Stops, regvars, memvars

\* An exception of the first handler.
LEMMA RegopsExceptionAtomic ==
  ASSUME AtomicInv, RegopsException
  PROVE  [Atomic!Execution]_Atomic!atomic
<1>1. PICK ex \in Exception : RegopsRaises(i, ex) /\ Report(ex)
  BY DEF RegopsException
<1>2. /\ stage = "regops" /\ stage' = "returned"
      /\ UNCHANGED <<regvars, memvars, cfg, instrs, at>>
  BY <1>1 DEF RegopsException, Report
<1>3. CASE FromProgram
  <2>1. GetPc = at
    BY <1>2 DEF AtomicInv, Inv, Progress, Untouched
  <2>2. Atomic!Runs /\ Atomic!Op = i.inst_no /\ WellFormed(i) /\ i \in Instruction
    BY <1>2, <1>3, <2>1, AtPlace
  <2>3. Status' = ex
    BY <1>1, <1>2, ReportedIs DEF AtomicInv
  <2>4. Atomic!Stops(ex)
    BY <1>2, <1>3, <2>1, <2>3, StopsAt
  <2>5. x[A7] = Syscall
    BY SyscallIs
  <2>6. Exit = Atomic!OfInt(2) /\ PrintState = Atomic!OfInt(23)
    BY SameWords DEF Exit, PrintState
  <2>7. i.fmt_type = "FMT_ECALL" <=> i.inst_no = "ECALL"
    BY <2>2 DEF WellFormed, instr_format, RRR, RRI, RI, ROR
  <2>8. CASE i.inst_no = "ECALL" /\ Syscall \notin {Exit, PrintState}
    <3>1. ex = "EXCEPTION_UNKNOWN_SYSCALL"
      BY <1>1, <2>7, <2>8 DEF RegopsRaises, RaisesS, ProvidedRaises, Decodes
    <3>2. Atomic!Call
      BY <2>2, <2>4, <2>5, <2>6, <2>8, <3>1 DEF Atomic!Call
    <3>. QED
      BY <3>2 DEF Atomic!Execution
  <2>9. CASE i.inst_no = "ECALL" /\ Syscall = Exit
    <3>1. ex = IF HW2 = "S" THEN "EXCEPTION_INSTRUCTION" ELSE "EXCEPTION_EXIT"
      BY <1>1, <2>7, <2>9 DEF RegopsRaises, RaisesS, ProvidedRaises, Decodes
    <3>2. ex \in Atomic!Raised
      BY DEF Atomic!Raised, Exception
    <3>3. Atomic!Call \/ Atomic!Lack
      BY <2>2, <2>4, <2>5, <2>6, <2>9, <3>1, <3>2 DEF Atomic!Call, Atomic!Lack
    <3>. QED
      BY <3>3 DEF Atomic!Execution
  <2>10. CASE ~(i.inst_no = "ECALL" /\ (Syscall = Exit \/ Syscall \notin {Exit, PrintState}))
    <3>1. HW2 = "S" /\ RaisesS(i, ex)
      BY <1>1, <2>10 DEF RegopsRaises, ProvidedRaises
    <3>2. i.inst_no # "ECALL"
      BY <2>7, <2>10, <3>1 DEF RaisesS, Decodes
    <3>3. i.fmt_type # "FMT_ERROR"
      BY <2>2, WellFormedPrints
    <3>4. i.inst_no \notin ExecutedOps /\ ex = "EXCEPTION_INSTRUCTION"
      BY <2>7, <3>1, <3>2, <3>3 DEF RaisesS
    <3>5. i.inst_no \in Opcode
      BY <2>2 DEF Instruction
    <3>6. Atomic!Lack
      <4>1. ex \in Atomic!Raised
        BY DEF Atomic!Raised, Exception
      <4>. QED
        BY <2>2, <2>4, <3>1, <3>2, <3>4, <3>5, <4>1 DEF Atomic!Lack
    <3>. QED
      BY <3>6 DEF Atomic!Execution
  <2>. QED
    BY <2>8, <2>9, <2>10
<1>4. CASE ~FromProgram
  BY <1>2, <1>4, StrayEnds
<1>. QED
  BY <1>3, <1>4

\* The first handler does not die on an instruction of the program.
LEMMA RegopsAbortAtomic ==
  ASSUME AtomicInv, RegopsAbort
  PROVE  [Atomic!Execution]_Atomic!atomic
<1>1. /\ stage = "regops" /\ stage' = "aborted"
      /\ UNCHANGED <<regvars, memvars, cfg, instrs, at>>
  BY DEF RegopsAbort, Abort
<1>2. ~FromProgram
  <2>1. ~WellFormed(i)
    BY DEF RegopsAbort, RegopsAborts, ProvidedAborts, WellFormed, instr_format, RRR, RRI, RI, ROR
  <2>. QED
    BY <1>1, <2>1, ProgramIsWellFormed DEF AtomicInv
<1>. QED
  BY <1>1, <1>2, StrayEnds

\* On the program, the second handler only works beside the object file: what
\* has its format is an instruction that registers.c raises an exception on.
LEMMA MemopPlace ==
  ASSUME AtomicInv, stage = "memops", FromProgram, i.fmt_type = "FMT_ROR"
  PROVE  HW2 = "P" /\ rs /\ GetPc = at /\ i.inst_no \in ROR
<1>1. WellFormed(i)
  BY ProgramIsWellFormed DEF AtomicInv
<1>2. i.inst_no \in ROR
  BY <1>1 DEF WellFormed, instr_format
<1>3. i.inst_no \notin ExecutedOps
  BY <1>2 DEF ExecutedOps, RegisterOps, ImmediateOps, ROR
<1>4. HW2 = "P"
  BY <1>3, RegistersAssumption DEF AtomicInv, NothingForMemops
<1>5. GetPc = at
  BY <1>1 DEF AtomicInv, Inv, Progress, ForMemops, Untouched
<1>. QED
  BY <1>2, <1>4, <1>5 DEF AtomicInv, Inv, Allocation

\* The machine accesses the bytes that the handler does.
LEMMA SameAccess ==
  ASSUME rs, Atomic!Now = i, Atomic!Op = i.inst_no
  PROVE  /\ Atomic!Width = AccessSize(i.inst_no)
         /\ \A n : Atomic!Cell(n) = ByteAddress(i, n)
         /\ \A n : Atomic!Peek(n) = GetByte(ByteAddress(i, n))
         /\ Atomic!Permitted <=> i.rs1 # 0 /\ ~OutOfRange(i)
         /\ Atomic!Read(i.rd) = GetReg(i.rd)
<1>1. Atomic!Width = AccessSize(i.inst_no)
  BY DEF Atomic!Width, AccessSize
<1>2. \A r : Atomic!Read(r) = GetReg(r)
  BY SameWords DEF Atomic!Read, GetReg
<1>3. Atomic!Base = Address(i)
  BY <1>2, SameWords DEF Atomic!Base, Address
<1>4. \A n : Atomic!Cell(n) = ByteAddress(i, n)
  BY <1>3, SameWords DEF Atomic!Cell, ByteAddress
<1>5. \A n : Atomic!Peek(n) = GetByte(ByteAddress(i, n))
  BY <1>4, SameWords DEF Atomic!Peek, GetByte
<1>6. Atomic!Permitted <=> i.rs1 # 0 /\ ~OutOfRange(i)
  BY <1>1, <1>4 DEF Atomic!Permitted, OutOfRange
<1>. QED
  BY <1>1, <1>2, <1>4, <1>5, <1>6

\* An exception of the second handler.
LEMMA MemopsExceptionAtomic ==
  ASSUME AtomicInv, MemopsException
  PROVE  [Atomic!Execution]_Atomic!atomic
<1>1. /\ stage = "memops" /\ stage' = "returned" /\ MemopsFaults(i) /\ Report("EXCEPTION_MEMORY")
      /\ UNCHANGED <<regvars, memvars, cfg, instrs, at>>
  BY DEF MemopsException, Report
<1>2. CASE FromProgram
  <2>1. HW2 = "P" /\ rs /\ GetPc = at /\ i.inst_no \in ROR
    BY <1>1, <1>2, MemopPlace DEF MemopsFaults
  <2>2. Atomic!Runs /\ Atomic!Now = i /\ Atomic!Op = i.inst_no
    BY <1>1, <1>2, <2>1, AtPlace
  <2>3. Status' = "EXCEPTION_MEMORY"
    BY <1>1, ReportedIs DEF AtomicInv, Exception
  <2>4. Atomic!Stops("EXCEPTION_MEMORY")
    BY <1>1, <1>2, <2>1, <2>3, StopsAt
  <2>5. Atomic!Permitted <=> i.rs1 # 0 /\ ~OutOfRange(i)
    BY <2>1, <2>2, SameAccess
  <2>6. i.rs1 = 0 \/ (i.inst_no \in Loads \cup Stores /\ ~Atomic!Permitted)
    BY <1>1, <2>5 DEF MemopsFaults, IsMemop
  <2>7. Atomic!Now.rs1 = i.rs1 /\ i.inst_no \in Atomic!ROR
    BY <2>1, <2>2, SameWords
  <2>8. Atomic!AccessFault
    BY <2>1, <2>2, <2>4, <2>6, <2>7 DEF Atomic!AccessFault
  <2>. QED
    BY <2>8 DEF Atomic!Execution
<1>3. CASE ~FromProgram
  BY <1>1, <1>3, StrayEnds
<1>. QED
  BY <1>2, <1>3

\* An access without a memory.
LEMMA MemopsAbortAtomic ==
  ASSUME AtomicInv, MemopsAbort
  PROVE  [Atomic!Execution]_Atomic!atomic
<1>1. /\ stage = "memops" /\ stage' = "aborted" /\ IsMemop(i) /\ ~mem
      /\ UNCHANGED <<regvars, memvars, cfg, instrs, at>>
  BY DEF MemopsAbort, MemopsAborts, Abort
<1>2. CASE FromProgram
  <2>1. HW2 = "P" /\ rs /\ GetPc = at
    BY <1>1, <1>2, MemopPlace DEF IsMemop
  <2>2. Atomic!Runs /\ Atomic!Now = i /\ Atomic!Op = i.inst_no
    BY <1>1, <1>2, <2>1, AtPlace
  <2>3. Status' = "aborted"
    BY <1>1 DEF Status
  <2>4. Atomic!Stops("aborted")
    BY <1>1, <1>2, <2>1, <2>3, StopsAt
  <2>5. i.rs1 # 0 /\ i.inst_no \in Loads \cup Stores /\ size = 0
    BY <1>1 DEF IsMemop, AtomicInv
  <2>6. Atomic!NoMemory
    BY <2>1, <2>2, <2>4, <2>5 DEF Atomic!NoMemory
  <2>. QED
    BY <2>6 DEF Atomic!Execution
<1>3. CASE ~FromProgram
  BY <1>1, <1>3, StrayEnds
<1>. QED
  BY <1>2, <1>3

\* A store, on the program and outside it.
LEMMA StoreAtomic ==
  ASSUME AtomicInv, Store
  PROVE  [Atomic!Execution]_Atomic!atomic
<1>1. /\ stage = "memops" /\ stage' = "report" /\ Accesses(i) /\ i.inst_no \in Stores
      /\ buffer' = Stored(i) /\ pc' = SetPc(NextPc)
      /\ UNCHANGED <<cfg, instrs, at, rs, x, mem, size>>
  BY DEF Store, MemopsStore, Proceed
<1>2. IsMemop(i) /\ ~OutOfRange(i) /\ TypeOK
  BY <1>1 DEF Accesses, AtomicInv, Inv
<1>3. buffer' \in Buffer(size)
  BY <1>1, <1>2, StoredType DEF TypeOK
<1>4. CASE FromProgram
  <2>1. HW2 = "P" /\ rs /\ GetPc = at
    BY <1>1, <1>2, <1>4, MemopPlace DEF IsMemop
  <2>2. Atomic!Runs /\ Atomic!Now = i /\ Atomic!Op = i.inst_no
    BY <1>1, <1>4, <2>1, AtPlace
  <2>3. Counter' = Atomic!Following /\ Status' = "running" /\ Status = "running"
    BY <1>1, <1>4, <2>1, MovesOn DEF Status
  <2>4. /\ Atomic!Width = AccessSize(i.inst_no)
        /\ \A n : Atomic!Cell(n) = ByteAddress(i, n)
        /\ Atomic!Permitted
        /\ Atomic!Read(i.rd) = GetReg(i.rd)
    BY <1>2, <2>1, <2>2, SameAccess DEF IsMemop
  <2>5. DOMAIN buffer' = DOMAIN buffer
    BY <1>2, <1>3 DEF TypeOK, Buffer
  <2>6. \A a \in DOMAIN buffer :
          \/ /\ \A n \in 0 .. AccessSize(i.inst_no) - 1 : ByteAddress(i, n) # a
             /\ Stored(i)[a] = buffer[a]
          \/ \E n \in 0 .. AccessSize(i.inst_no) - 1 :
               ByteAddress(i, n) = a /\ Stored(i)[a] = ByteOf(GetReg(i.rd), n)
    BY <1>2, StoreIsLittleEndian
  <2>7. Atomic!Written
    BY <1>1, <2>2, <2>4, <2>5, <2>6, SameWords DEF Atomic!Written
  <2>8. Atomic!StoreBytes
    BY <1>1, <2>1, <2>2, <2>3, <2>4, <2>7 DEF Atomic!StoreBytes, Atomic!Continues, Stores
  <2>. QED
    BY <2>8 DEF Atomic!Execution
<1>5. CASE ~FromProgram
  <2>1. Counter = at /\ Counter' = at /\ ~Atomic!Inside /\ Status = "running"
    BY <1>1, <1>5, AstrayStays DEF Status
  <2>2. Atomic!Stray
    BY <1>1, <1>2, <1>3, <2>1, Strays, NoRegisterDiffers DEF TypeOK
  <2>. QED
    BY <2>2 DEF Atomic!Execution
<1>. QED
  BY <1>4, <1>5

\* A load, on the program and outside it.
LEMMA LoadAtomic ==
  ASSUME AtomicInv, Load
  PROVE  [Atomic!Execution]_Atomic!atomic
<1>. DEFINE v == LoadValue(i)
<1>1. /\ stage = "memops" /\ stage' = "report" /\ Accesses(i) /\ i.inst_no \in Loads
      /\ x' = (IF i.rd = 0 THEN x ELSE SetReg(i.rd, v)) /\ pc' = SetPc(NextPc)
      /\ UNCHANGED <<cfg, instrs, at, rs, mem, size, buffer>>
  BY DEF Load, MemopsLoad, Proceed
<1>2. IsMemop(i) /\ ~OutOfRange(i) /\ TypeOK /\ i.rd \in Nat /\ X0Hardwired
  BY <1>1 DEF Accesses, AtomicInv, Inv, TypeOK, Instruction
<1>3. v \in Word
  BY LoadValueType
<1>. HIDE DEF v
<1>5. x' \in [Reg -> Word] /\ \A q \in Reg : q # i.rd => x'[q] = x[q]
  BY <1>1, <1>2, <1>3 DEF TypeOK, SetReg, SetRegS, ProvidedSetReg
<1>6. x'[0] = x[0]
  BY <1>1, <1>2, <1>3, RegistersAssumption DEF TypeOK, Reg, SetReg, SetRegS, ProvidedSetReg
<1>7. CASE FromProgram
  <2>1. HW2 = "P" /\ rs /\ GetPc = at
    BY <1>1, <1>2, <1>7, MemopPlace DEF IsMemop
  <2>2. Atomic!Runs /\ Atomic!Now = i /\ Atomic!Op = i.inst_no
    BY <1>1, <1>7, <2>1, AtPlace
  <2>3. Counter' = Atomic!Following /\ Status' = "running" /\ Status = "running"
    BY <1>1, <1>7, <2>1, MovesOn DEF Status
  <2>4. /\ Atomic!Width = AccessSize(i.inst_no)
        /\ \A n : Atomic!Peek(n) = GetByte(ByteAddress(i, n))
        /\ Atomic!Permitted
    BY <1>2, <2>1, <2>2, SameAccess DEF IsMemop
  <2>5. Atomic!OnlyWrites(i.rd)
    BY <1>5, <1>6, SameWords DEF Atomic!OnlyWrites
  <2>6. i.rd \in Reg \ {0} => x'[i.rd] = v
    BY <1>1, <1>2, <2>1 DEF TypeOK, SetReg, ProvidedSetReg
  <2>7. Atomic!Loaded(v)
    <3>1. /\ \A n \in 0 .. AccessSize(i.inst_no) - 1 : ByteOf(v, n) = GetByte(ByteAddress(i, n))
          /\ i.inst_no \in SignedLoads => v = SignExtend(v, AccessSize(i.inst_no) * BITS)
          /\ i.inst_no \notin SignedLoads => v = ZeroExtend(v, AccessSize(i.inst_no) * BITS)
      BY <1>2, LoadIsLittleEndian DEF v
    <3>. QED
      BY <2>2, <2>4, <3>1, SameWords DEF Atomic!Loaded, SignedLoads
  <2>8. i.inst_no \notin {"SB", "SH", "SW", "SD"}
    BY <1>1 DEF Loads, SignedLoads
  <2>9. Atomic!LoadBytes
    BY <1>1, <2>1, <2>2, <2>3, <2>4, <2>5, <2>6, <2>7, <2>8, SameWords
       DEF Atomic!LoadBytes, Atomic!Continues
  <2>. QED
    BY <2>9 DEF Atomic!Execution
<1>8. CASE ~FromProgram
  <2>1. Counter = at /\ Counter' = at /\ ~Atomic!Inside /\ Status = "running"
    BY <1>1, <1>8, AstrayStays DEF Status
  <2>2. DiffersInOne(x')
    <3>1. CASE i.rd \in Reg
      BY <1>5, <3>1 DEF DiffersInOne
    <3>2. CASE i.rd \notin Reg
      BY <1>5, <3>2, RegistersAssumption DEF DiffersInOne, Reg
    <3>. QED
      BY <3>1, <3>2
  <2>3. Atomic!Stray
    BY <1>1, <1>2, <1>5, <1>6, <2>1, <2>2, Strays DEF TypeOK
  <2>. QED
    BY <2>3 DEF Atomic!Execution
<1>. QED
  BY <1>7, <1>8

-----------------------------------------------------------------------------
(* The refinement. *)

LEMMA InitAtomic == Init => Atomic!AtomicInit
<1>. SUFFICES ASSUME Init PROVE Atomic!AtomicInit
  OBVIOUS
<1>1. PICK allocated : InitMemory(cfg.memory_sz, allocated)
  BY DEF Init
<1>2. stage = "fetch" /\ x = [r \in Reg |-> ZeroWord]
  BY DEF Init, InitRegisters
<1>. QED
  BY <1>1, <1>2, SameWords DEF Atomic!AtomicInit, Status, InitMemory

\* One case per action of the loop.
LEMMA NextAtomic == AtomicInv /\ [Next]_vars => [Atomic!Execution]_Atomic!atomic
<1>. SUFFICES ASSUME AtomicInv, [Next]_vars PROVE [Atomic!Execution]_Atomic!atomic
  OBVIOUS
<1>1. CASE Fetch \/ FetchOutside
  BY <1>1, FetchAtomic
<1>2. CASE Execute
  BY <1>2, ExecuteAtomic
<1>3. CASE SyscallPrint
  BY <1>3, SyscallAtomic
<1>4. CASE RegopsException
  BY <1>4, RegopsExceptionAtomic
<1>5. CASE RegopsPass
  BY <1>5, PassAtomic DEF RegopsPass, Proceed
<1>6. CASE RegopsAbort
  BY <1>6, RegopsAbortAtomic
<1>7. CASE Store
  BY <1>7, StoreAtomic
<1>8. CASE Load
  BY <1>8, LoadAtomic
<1>9. CASE MemopsException
  BY <1>9, MemopsExceptionAtomic
<1>10. CASE MemopsPass
  BY <1>10, PassAtomic DEF MemopsPass, Proceed
<1>11. CASE MemopsAbort
  BY <1>11, MemopsAbortAtomic
<1>12. CASE EndOfLoop
  BY <1>12, EndOfLoopAtomic
<1>13. CASE UNCHANGED vars
  <2>1. Counter' = Counter
    BY <1>13 DEF Counter, Astray, FromProgram, Index, GetPc, vars, regvars
  <2>2. Status' = Status
    BY <1>13 DEF Status, Reported, vars
  <2>. QED
    BY <1>13, <2>1, <2>2, Stutters DEF vars, regvars, memvars
<1>. QED
  BY <1>1, <1>2, <1>3, <1>4, <1>5, <1>6, <1>7, <1>8, <1>9, <1>10, <1>11, <1>12, <1>13
     DEF Next, Loop, Terminated

\* The loop is a machine that executes one instruction in one step, whatever
\* the program, the widths, the memory and the handlers linked: an operation
\* changes its destination only, a load or store moves the bytes at its
\* address with the lowest first, and an exception comes alone.
THEOREM LoopIsAtomic == Spec => ExecutesAtomically
<1>1. AtomicInv /\ [Next]_vars => [Atomic!Execution]_Atomic!atomic
  BY NextAtomic
<1>. QED
  BY <1>1, InitAtomic, AtomicSpecInv, PTL DEF Spec, ExecutesAtomically, Atomic!AtomicSpec
=============================================================================
