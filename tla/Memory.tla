------------------------------- MODULE Memory -------------------------------
(***************************************************************************)
(* The data memory and `processor_emulate_memops` (memory.c): the handler  *)
(* of loads and stores.  Like the handler of register operations it is a   *)
(* set of actions, one per way it can return.                              *)
(***************************************************************************)
EXTENDS Registers

VARIABLES
  mem,        \* is processor->mem a memory (TRUE) or NULL (FALSE)?
  size,       \* mem->size
  buffer      \* mem->buffer

memvars == <<mem, size, buffer>>

Buffer(n) == [0 .. n - 1 -> Byte]

\* Mutation of InitMemory: the result of the second malloc is not checked.
InitMemoryUnchecked(memory_sz, allocated) ==
  /\ mem = allocated
  /\ size = memory_sz
  /\ buffer = IF allocated THEN [a \in 0 .. size - 1 |-> ZeroByte] ELSE << >>

\* memory_alloc.  When malloc fails it returns NULL, which main does not check.
InitMemory(memory_sz, allocated) ==
  /\ mem = allocated
  /\ size = IF allocated THEN memory_sz ELSE 0
  /\ buffer = [a \in 0 .. size - 1 |-> ZeroByte]

-----------------------------------------------------------------------------
(* memory_getbyte. *)

\* A read outside the buffer yields zero.
GetByte(a) == IF a \in DOMAIN buffer THEN buffer[a] ELSE ZeroByte

-----------------------------------------------------------------------------
(* processor_emulate_memops. *)

Stores      == {"SB", "SH", "SW", "SD"}
SignedLoads == {"LB", "LH", "LW"}
Loads       == SignedLoads \cup {"LBU", "LHU", "LWU", "LD"}

\* The number of bytes an operation accesses.
AccessSize(op) ==
  CASE op \in {"SB", "LB", "LBU"} -> 1
    [] op \in {"SH", "LH", "LHU"} -> 2
    [] op \in {"SW", "LW", "LWU"} -> 4
    [] OTHER                      -> 8

\* base + signed_offset in 64 bits: the low IMMBITS bits of the offset,
\* sign-extended, whatever the parser accepted beyond them.
Address(inst) == ToNat(Add(GetReg(inst.rs1), SignExtend(OfInt(inst.imm), IMMBITS)))

\* address + i, a u64_t, for the i-th byte of the access.
ByteAddress(inst, n) == (Address(inst) + n) % 2^XLEN

\* Mutation of OutOfRange: the last byte of an access is one too far.
OutOfRangeByOne(inst) == ByteAddress(inst, AccessSize(inst.inst_no)) >= size

\* address + size - 1 >= processor->mem->size, again in 64 bits.
OutOfRange(inst) == ByteAddress(inst, AccessSize(inst.inst_no) - 1) >= size

\* The register value a load assembles, least significant byte first.
LoadValue(inst) ==
  LET bits == AccessSize(inst.inst_no) * BITS
      w    == [k \in Bit |-> k < bits /\ GetByte(ByteAddress(inst, k \div BITS))[k % BITS]]
  IN  IF inst.inst_no \in SignedLoads THEN SignExtend(w, bits) ELSE w

\* Mutation of Stored: the highest byte first.
StoredBigEndian(inst) ==
  LET last     == AccessSize(inst.inst_no) - 1
      bytes(a) == {n \in 0 .. last : ByteAddress(inst, n) = a}
  IN  [a \in DOMAIN buffer |->
         IF bytes(a) = {} THEN buffer[a]
         ELSE ByteOf(GetReg(inst.rd), last - CHOOSE n \in bytes(a) : TRUE)]

\* The buffer a store leaves: the low bytes of register r2, least
\* significant byte first.  memory_setbyte drops bytes outside the buffer.
Stored(inst) ==
  LET bytes(a) == {n \in 0 .. AccessSize(inst.inst_no) - 1 : ByteAddress(inst, n) = a}
  IN  [a \in DOMAIN buffer |->
         IF bytes(a) = {} THEN buffer[a]
         ELSE ByteOf(GetReg(inst.rd), CHOOSE n \in bytes(a) : TRUE)]

IsMemop(inst) ==
  /\ inst.fmt_type = "FMT_ROR"
  /\ inst.rs1 # 0
  /\ inst.inst_no \in Loads \cup Stores

\* The range is checked and the access may go ahead.
Accesses(inst) == IsMemop(inst) /\ mem /\ ~OutOfRange(inst)

MemopsStore(inst) ==
  /\ Accesses(inst)
  /\ inst.inst_no \in Stores
  /\ buffer' = Stored(inst)
  /\ pc' = SetPc(NextPc)
  /\ UNCHANGED <<rs, x, mem, size>>

\* Mutation of MemopsLoad: skip_write is not consulted.
LoadWritesX0(inst) ==
  /\ Accesses(inst)
  /\ inst.inst_no \in Loads
  /\ x' = SetReg(inst.rd, LoadValue(inst))
  /\ pc' = SetPc(NextPc)
  /\ UNCHANGED <<rs, mem, size, buffer>>

\* A load into x0 reads memory and leaves the register alone (skip_write).
MemopsLoad(inst) ==
  /\ Accesses(inst)
  /\ inst.inst_no \in Loads
  /\ x' = IF inst.rd = 0 THEN x ELSE SetReg(inst.rd, LoadValue(inst))
  /\ pc' = SetPc(NextPc)
  /\ UNCHANGED <<rs, mem, size, buffer>>

\* Mutation of MemopsFaults: the early return for other formats is missing.
FaultsAnyFormat(inst) == inst.rs1 = 0 \/ (IsMemop(inst) /\ mem /\ OutOfRange(inst))

\* Return -1 with EXCEPTION_MEMORY.  Register x0 is refused as a base before
\* the opcode is looked at.
MemopsFaults(inst) ==
  /\ inst.fmt_type = "FMT_ROR"
  /\ inst.rs1 = 0 \/ (IsMemop(inst) /\ mem /\ OutOfRange(inst))

\* Return 1: not a load or store.
MemopsSkips(inst) ==
  \/ inst.fmt_type # "FMT_ROR"
  \/ inst.rs1 # 0 /\ inst.inst_no \notin Loads \cup Stores

\* The range check dereferences processor->mem.
MemopsAborts(inst) == IsMemop(inst) /\ ~mem
=============================================================================
