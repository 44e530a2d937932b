--------------------------- MODULE AtomicMachine ---------------------------
(***************************************************************************)
(* What the emulation loop promises whatever the widths: a machine that    *)
(* executes the instruction at its counter in one step.  It has neither    *)
(* handlers nor reports, and an instruction either has its whole effect or *)
(* stops the machine and has none.                                         *)
(*                                                                         *)
(* The machine says which register an operation may change and not to what *)
(* (that is for ISA), but says of loads and stores which bytes they move.  *)
(* Outside the program it executes unknown instructions.                   *)
(***************************************************************************)
EXTENDS Words, Instructions, Sequences

CONSTANTS
  NREGS, A7, UINT_MAX, IMMBITS,
  Computed,     \* opcodes that are executed on registers
  Accessing,    \* loads and stores that reach the memory
  Lacking,      \* opcodes that the build does not execute
  Exits         \* does it have the exit system call?

VARIABLES
  program,      \* the instructions
  lower,        \* the address of the first
  counter,      \* the address of the next to execute
  regs,         \* the registers
  ram,          \* the memory
  extent,       \* its size, 0 if it could not be allocated
  status        \* "running", "aborted", or the exception that was raised

atomic == <<program, lower, counter, regs, ram, extent, status>>

Register == 0 .. NREGS - 1
Raised   == {"EXCEPTION_INSTRUCTION", "EXCEPTION_MEMORY", "EXCEPTION_EXIT",
             "EXCEPTION_UNKNOWN_SYSCALL"}

Place  == (counter - lower) \div 4 + 1
Inside == Place \in DOMAIN program
Now    == program[Place]
Op     == Now.inst_no

Following == (counter + 4) % (UINT_MAX + 1)

\* A register that does not exist reads as zero.
Read(r) == IF r \in Register THEN regs[r] ELSE ZeroWord

\* No register changes but r, and never register 0.
OnlyWrites(r) ==
  /\ regs' \in [Register -> Word]
  /\ \A q \in Register : q # r \/ q = 0 => regs'[q] = regs[q]

-----------------------------------------------------------------------------
(* Loads and stores. *)

\* The number of bytes, and the address of each: the sum wraps.
Width   == CASE Op \in {"SB", "LB", "LBU"} -> 1
             [] Op \in {"SH", "LH", "LHU"} -> 2
             [] Op \in {"SW", "LW", "LWU"} -> 4
             [] OTHER                      -> 8
Base    == ToNat(Add(Read(Now.rs1), SignExtend(OfInt(Now.imm), IMMBITS)))
Cell(n) == (Base + n) % 2^XLEN

\* Only the address of the last byte is compared.
Permitted == Now.rs1 # 0 /\ ~(Cell(Width - 1) >= extent)

\* A byte that is not in memory reads as zero.
Peek(n) == IF Cell(n) \in DOMAIN ram THEN ram[Cell(n)] ELSE ZeroByte

\* v has the bytes accessed, the lowest first, and is extended from them.
Loaded(v) ==
  /\ \A n \in 0 .. Width - 1 : ByteOf(v, n) = Peek(n)
  /\ v = IF Op \in {"LB", "LH", "LW"} THEN SignExtend(v, Width * BITS)
         ELSE ZeroExtend(v, Width * BITS)

\* Cells accessed have the bytes of register rd, and others what they had.
Written ==
  /\ DOMAIN ram' = DOMAIN ram
  /\ \A a \in DOMAIN ram :
       \/ (\A n \in 0 .. Width - 1 : Cell(n) # a) /\ ram'[a] = ram[a]
       \/ \E n \in 0 .. Width - 1 : Cell(n) = a /\ ram'[a] = ByteOf(Read(Now.rd), n)

-----------------------------------------------------------------------------
Runs == status = "running" /\ Inside

Continues == counter' = Following /\ UNCHANGED <<program, lower, extent, status>>
Stops(s)  == status' = s /\ UNCHANGED <<program, lower, counter, regs, ram, extent>>

Compute ==
  /\ Runs /\ Op \in Computed
  /\ OnlyWrites(Now.rd)
  /\ UNCHANGED ram /\ Continues

LoadBytes ==
  /\ Runs /\ Op \in Accessing \ {"SB", "SH", "SW", "SD"} /\ Permitted
  /\ OnlyWrites(Now.rd)
  /\ Now.rd \in Register \ {0} => Loaded(regs'[Now.rd])
  /\ UNCHANGED ram /\ Continues

StoreBytes ==
  /\ Runs /\ Op \in Accessing \cap {"SB", "SH", "SW", "SD"} /\ Permitted
  /\ Written
  /\ UNCHANGED regs /\ Continues

\* Register 0 is no base, not even of a jump.
AccessFault ==
  /\ Runs /\ Op \in ROR \ Lacking
  /\ Now.rs1 = 0 \/ (Op \in Accessing /\ ~Permitted)
  /\ Stops("EXCEPTION_MEMORY")

\* A memory that could not be allocated is used all the same.
NoMemory ==
  /\ Runs /\ Op \in Accessing /\ Now.rs1 # 0 /\ extent = 0
  /\ Stops("aborted")

Call ==
  /\ Runs /\ Op = "ECALL"
  /\ \/ regs[A7] = OfInt(23) /\ UNCHANGED <<regs, ram>> /\ Continues
     \/ regs[A7] = OfInt(2) /\ Exits /\ Stops("EXCEPTION_EXIT")
     \/ regs[A7] \notin {OfInt(2), OfInt(23)} /\ Stops("EXCEPTION_UNKNOWN_SYSCALL")

\* What a build lacks has no effect and stops the machine.  With which
\* exception it ought to is not said here, nor that a build may lack it.
Lack ==
  /\ Runs
  /\ Op \in Lacking \/ (Op = "ECALL" /\ regs[A7] = OfInt(2) /\ ~Exits)
  /\ \E s \in Raised : Stops(s)

\* An instruction that is not of the program, executed in several steps.
\* It keeps the sizes of everything, register 0, and the order of addresses.
Stray ==
  /\ status = "running" /\ ~Inside
  /\ counter' \in {counter, Following}
  /\ \E r \in Register : OnlyWrites(r)
  /\ ram' \in [DOMAIN ram -> Byte]
  /\ status' \in {"running", "aborted"} \cup Raised
  /\ UNCHANGED <<program, lower, extent>>

Execution ==
  \/ Compute \/ LoadBytes \/ StoreBytes \/ AccessFault \/ NoMemory \/ Call \/ Lack \/ Stray

\* The entry is anywhere.
AtomicInit ==
  /\ regs = [r \in Register |-> ZeroWord]
  /\ ram = [a \in 0 .. extent - 1 |-> ZeroByte]
  /\ status = "running"

AtomicSpec == AtomicInit /\ [][Execution]_atomic
=============================================================================
