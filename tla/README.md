# A verification of the RISC-V processor emulator

This directory models the emulator of the repository in TLA+, checks small
instances of the model with TLC and proves theorems about all instances with
TLAPS. Paths below are relative to the repository.

    P1  instruction-parsing-justinpdostal/          phase 1: the parser
    P2  registers-machine-justinpdostal/hw2/        phase 2: registers and loop
    P3  the-storage-interface-justinpdostal/src/    phase 3: memory; the final program

Phase 3 contains most of the other two, so its loop and handlers are the ones
modelled in detail; the loaders of all three phases, and the program of phase 2
from its command line to the end of its loop, have modules of their own.

## 1. The system

A program in assembly is turned into a file (`archobj`) of a header line and
one line per instruction. The emulator reads that file from standard input,
parses it into an array, writes the array as text again, compares the two, and
executes the array instruction by instruction, printing its state as it goes.
The output is compared with a stored solution. The emulator is one thread with
no signals, no timers and nothing persistent: what is hard in it is not
concurrency but the protocol between the loop and the two handlers it calls, the
two implementations of one of these that may be linked, parsers that skip what
they cannot read, states no test program reaches, and arithmetic at the edges of
its types. Concurrency, timeouts and crashes are in what surrounds it: a
build that is stopped half way, an emulator stopped by `timeout`, sources that
change meanwhile.

| Component | State | Operations | Correct when |
|---|---|---|---|
| Words (`types.h`, casts in `registers.c`, `memory.c`) | – | arithmetic, shifts, narrowing, widening | results are those of RV64I arithmetic |
| Instruction metadata (`instructions.h`, `utilities.c:83-192`) | constant table `imeta` | `instr_format`, `instr_name`, `instr_num` | every opcode has one format |
| Register file (`registers.c`) | `pc`, `x[32]` | alloc, get/set register, get/set pc | x0 stays zero; the pc moves by one instruction |
| Register handler (`registers.c`, or `objects/registers.o`) | register file | `processor_emulate_regops` | executes its own instructions and no others; an exception changes nothing |
| Data memory (`memory.c`) | `buffer`, `size` | alloc, get/set byte | no access outside the buffer |
| Memory handler (`memory.c`) | register file, memory | `processor_emulate_memops` | little-endian, sign extension, range check, nothing else than loads and stores |
| Loop (`processor.c`) | configuration, array, registers, memory | `processor_emulate` | executes the instruction at the pc, stops on an exception |
| Reports (`utilities.c:199-373`) | static copy of the registers | print instruction, registers, memory, exception | every change is reported |
| Loader (`main.c`) | 16 KiB buffer, configuration, array | read, parse, stringify, compare | hands the loop what the file says, or rejects it |
| Lines, stringification (`utilities.c:30-86, 243-299`) | heap | `lines`, `free_lines`, `stringify_program` | no two programs have the same text; well-formed text comes back as it was |
| Parser, phases 1 and 3 (`P1`, `P3/instructions.c`) | – | `instructions_parse` | one instruction per line, with its address |
| Parser, phase 2 (`P2/instructions.c`) | three operands kept between lines | `instructions_parse` | the format is that of the opcode; nothing of one line in another |
| Phase 1 driver (`P1/main.c`) | – | parse, check the header again, compare | accepts what object_create writes |
| Phase 2 driver and loop (`P2/main.c`, `P2/processor.c`) | as phase 3, no memory | `processor_emulate` | as phase 3 |
| Program extraction (`object_create/obj_create.py`) | – | object dump to archobj | instruction for instruction the binary, distances instead of targets |
| Test pipeline (`Makefile`s, `run_tests.sh`) | files and their times | build steps, comparison | a pass is a pass of the current sources; every test is judged |
| Cache (`P1/cache.h`) | – | – | declared only; there is no implementation |

### How the parts interact

`main` reads the file, calls the parser, stringifies the result and compares it
with the input, allocates registers and memory, and calls `processor_emulate`.
Each iteration of its loop

1. reads the pc through `registers_getpc`, reports it if it is outside the
   bounds of the header, computes an index from it and takes the instruction;
2. offers the instruction to `processor_emulate_regops`, and
3. unless that returned -1, to `processor_emulate_memops`;
4. returns if either returned -1, after printing the exception;
5. prints the memory and the first register that differs from a static copy.

The return values 0 ("executed") and 1 ("not mine") are treated alike, so that
the handlers must be disjoint and both must leave alone what is not theirs. The
pc is moved by the handler that executes the instruction, not by the loop.

### What is hard, and the property that watches it

* *Two handlers, one instruction.* If an instruction were executed by both, the
  pc would move by eight; if the second raised an exception after the first had
  executed, the exception would come after the effect: `PcMovesAtMostOnce`,
  `PreciseException`.
* *One instruction in several calls.* Fetch, two handlers and the reports share the
  registers and the memory; what comes out must be one instruction, with the bytes of a load
  or store in their order, or an exception and nothing else: `ExecutesAtomically`.
* *A report that looks for one change.* `processor_registers_print` stops at
  the first difference from its copy. It is complete only if no instruction ever
  changes two registers, over the whole run: `ShadowTracksRegisters`.
* *x0.* `registers.c` guards it in `registers_setreg`; the object file does not
  and clears it after each register operation. Between two of those a load could
  leave a value in x0, were it not for `skip_write` in `memory.c`: `X0Hardwired`.
* *An index from an address.* The subtraction and division use neither the
  number of instructions nor the alignment of the pc, and a pc out of bounds is
  reported and then used: `FetchMatchesAddress`, `AbortsOnlyOutsideProgram`.
* *A loop whose only exit is an exception.* It ends only if every instruction
  that is handled moves the pc: `LeavesProgram`.
* *Arithmetic.* Byte order, sign extension, offsets of twelve bits in an `int`,
  sums that wrap: `ImplementsISA`.
* *A parser that skips.* A line of no known shape leaves zeros in the array, which
  are an ECALL at address 0; in phase 2 a line that lacks an operand gets that
  of an earlier line. Nothing but the comparison of the texts stands between such
  an instruction and its execution, and the comparison sees neither addresses nor the
  header: `AcceptedIsPlaced`, `AcceptedIsWellFormed`, `ExecutesTheFile`, and as a refinement
  `ImplementsAdmission`. A wide header, whose addresses phase 2 misreads, is outside
  `ExecutesTheFile` (section 3).
* *Assertions on input.* `lines` asserts, missing header fields are NULL:
  `AbortsOnlyOnMalformed`.
* *From the binary to the array.* `obj_create.py` drops lines of a listing, counts the
  rest, and computes distances from the count: `ArrayIsBinary`, `BinariesAreAccepted`.
* *Targets that look made.* A recipe that fails or is stopped leaves its target newer than
  its source, and the recipe of a binary leaves the old binary; solutions do not depend on the
  emulator; the compiler may read a test while it is edited: `PassIsEarned`, `ChainAgrees`,
  `UpToDateIsCurrent`, `EveryTestIsJudged`, `CommandsEnd`, and the violated claim
  `CompleteIsCurrent`.

PROJECT.json lists all hazards with their lines.

## 2. The modules

| Module | Models | Correspondence |
|---|---|---|
| `Words` | C integers | A word is a vector of `8 * BITS` bits; `ToNat`, `OfInt` convert. Each C operator is an operator on vectors. |
| `Instructions` | `struct instruction`, `imeta` | A record; the union of operand formats is flattened in the order in which its members overlay. |
| `Registers` | `registers.c` | `rs` (is the pointer set?), `pc`, `x`; one action per way `processor_emulate_regops` can return. `HW2 = "S"` is `registers.c`, `"P"` the object file. |
| `Memory` | `memory.c` | `mem`, `size`, `buffer`; one action per way `processor_emulate_memops` can return. |
| `Processor` | `processor.c`, the reports | Composes the two. `stage` is the place in the loop body; one action per call and outcome; `FetchOutside` is the read outside the array. The properties are at its end. |
| `AtomicMachine` | – | The abstract specification for any width: one instruction in one step. It says which register an operation may change and which bytes a load or store moves, but leaves the values of operations to `ISA`; `Stray` is anything outside the program. What a build does not execute is a parameter (`Lacking`, `Exits`): such an instruction stops the machine without an effect, and with which exception is left open. |
| `ProcessorAtomic` | – | The refinement mapping from `Processor` to `AtomicMachine`: all but the counter and the status are the variables of the loop. |
| `ISA` | – | The abstract specification: one instruction in one step, registers and bytes are numbers, operations are arithmetic. |
| `ProcessorISA` | – | The refinement mapping from `Processor` to `ISA`. |
| `Claims` | – | Statements of the documentation that the program does not keep. |
| `Text` | lines, `lines`, `sscanf`, `instr_num`, `instr_name`, `stringify_program` | A line is a mnemonic and operands with a shape (register, number, base register); a file is a header and lines. `Canonical` is a file as object_create writes it. |
| `Loader` | `main` and `instructions_parse` of the three phases | `stage` is the place in `main`; one action per read, per line parsed and per outcome. `phase` chooses the parser. |
| `Admission` | – | What a loader promises: it decides once, the array says of each line what the line says, well-written programs are accepted. |
| `LoaderAdmission` | – | The refinement mapping from `Loader` to `Admission`. |
| `ObjCreate` | `obj_create.py` | Pure: a listing and segments to a file. Composed with `Loader`: its properties follow a binary into the array. |
| `Phase2` | phase 2: `main.c`, `processor.c`, the report | Composes `Loader` (phase 2) and `Registers`, from the options to the end of the loop. |
| `TestPipeline` | the Makefiles of phase 3, `run_tests.sh` | Files are what versions of the sources they were made from; `outdated` is all that matters of their times; `point` is the step of the running command. The programmer edits and kills. `raced` and `kept` are histories: tests edited under the compiler, and tests whose old binary a failing compiler left. |
| `MCProcessor`, `MCISA`, `MCClaims`, `MCLoader`, `MCPhase2`, `MCPipeline` | – | Programs, files, binaries and versions for TLC. |
| `RegisterProofs` | – | Lemmas on words, one register write and one move of the pc, for the two emulators. |
| `ProcessorProofs` | – | The inductive invariant of the loop and its theorems. |
| `AtomicProofs` | – | Every step of the loop is a step of `AtomicMachine` or a stutter. |
| `LoaderProofs` | – | The inductive invariant of the loaders and their theorems. |
| `AdmissionProofs` | – | Every step of `Loader` is a step of `Admission` or a stutter. |
| `ObjCreateProofs` | – | What the filters keep, and the theorems that follow a binary into the array. |
| `Phase2Proofs` | – | The inductive invariant of phase 2 and its theorems. |
| `PipelineProofs` | – | The inductive invariant of the pipeline and its theorems. |

### Two register handlers

The Makefile of phase 3 links `objects/registers.o` unless it is called with
`HW2=S`, which links `registers.c`. The object file has no source; the
operators named `Provided...` describe it as its disassembly shows it and are
marked external. Both are modelled because the loop and `memory.c` run with either,
and what is true with one is not always true with the other: with
`registers.c` loads and stores never reach `memory.c`.

The parser is linked from `objects/instructions.o` in either build. It refuses
unknown opcodes and operands that are not in the opcode's format, hence
`WellFormed`; a header and register numbers are taken as they come. With the
object file a register number above 31 is a write outside the register file,
so `core_provided` has none; `registers.c` ignores such writes, and
`core_registers` includes them. The source of phase 3 has a parser too
(`HW1=S`), which is that of phase 1; `Loader` models the source.

### Text without characters

Files are not strings: what tells lines apart for `sscanf` is the shapes of
their operands, and for `strcmp` whether they are spelled as `sprintf` would spell
them. `form` is that spelling: "plain" as sprintf writes, "spaced" with a blank
after each comma (which stops the `%c` of phase 2, not its `%d`), "other" for anything
behind the operands or a number in another spelling. Register numbers in a text are
naturals (`x-1` is left out), mnemonics are shorter than the buffers of the parsers, and
failing allocations of the parser and the width of the buffer of `stringify_program`
are left out. The mnemonic `(null)` is there because it is what `sprintf` writes for
an opcode without a name: phases 1 and 3 accept a line that begins with it.

The text in memory is not terminated: with the fault "residue" the last line may
read as any line of `Garbled`, and a further line, of `Garbled` or empty, may follow (one at
most, `Extended`); a full buffer is cut at any place. With no instruction
at all `strcmp` reads memory that was never written, and any outcome is possible.
Operands that phase 2 has not read yet, and header fields that it never reads, are
any value of `Stale`.

### Recipes and what they leave

The recipes of `.archobj` and `.soln` redirect into their target: the shell empties it before
the command runs, and what a failed, timed-out or killed recipe leaves is damaged (`StartRecipe`,
`Kill`). The recipe of `.bin` runs `gcc -o`: the target is as it was until the linker opens it. A
compiler that fails before that leaves the old binary, and `touch` then makes it newer than the
test (`GiveUp`, `kept`); one that is killed there leaves it outdated (`Kill`). `diff` may fail on
either verdict (`Compared`).

### Undefined behaviour

An index outside the array reads heap memory. What is there is the constant
`Garbage`, any set of instructions, or the read kills the process
(`FetchOutside`). The runs take a zeroed instruction (the opcode `ECALL` with the
format `FMT_RRR`, which is what untouched heap holds), one with a format that is
not its opcode's, and one without a format. The theorems hold for every `Garbage`.
A shift by 64 or more takes the count modulo 64, as the instruction the compiler
emits does. A memory that could not be allocated is a NULL that is dereferenced.

## 3. The runs

Each run takes about three minutes at most.

| Run | Checks | Distinct states |
|---|---|---|
| `core_registers` | the seven invariants, `LeavesProgram` and `ExecutesAtomically`, with `registers.c` | 156,896 |
| `core_provided` | the seven invariants and `ExecutesAtomically`, with the object file | 97,718 |
| `isa_registers` | `ImplementsISA`: operations of `registers.c` except SRL, SRLI | 55,562 |
| `isa_provided` | `ImplementsISA`: all register operations, loads and stores of the default build | 24,556 |
| `loader` | the loaders of the three phases: `LoadTypeOK`, `AcceptedIsPlaced`, `AcceptedIsWellFormed`, `AbortsOnlyOnMalformed`, `ImplementsAdmission`; and what `obj_create.py` gives them: `ArrayIsBinary`, `BinariesAreAccepted` | 456,570 |
| `phase2` | the program of phase 2: `TypeOK2`, `ExecutesTheFile`, `ReportsEveryChange`, `CanonicalRunsToAnEnd` | 492,024 |
| `pipeline` | `PipelineTypeOK`, `PassIsEarned`, `ChainAgrees`, `UpToDateIsCurrent`, `EveryTestIsJudged`, `CommandsEnd` | 587,165 |
| `claim_*` | one statement of the documentation each; TLC shows a run that breaks it | – |

`core_*` starts from every program of at most three instructions over a pool of
ten that makes each handler return in each way it can, plus programs of two
with control flow or missing registers, under five headers: one that fits, one
with an unaligned entry, one whose range is smaller than the program and whose
entry lies below it, one beyond an `unsigned int` with an upper bound too large,
and an empty one; memories of zero to four bytes, and allocations that fail. `isa_*`
starts from programs that set two operands, compute, and leave with a system
call; operands include zero, one, the extremes of a byte and of a word, and
mixed signs. Stores and loads of every width are paired at addresses inside,
across and outside the memory.

`loader` starts each phase on every file of one line of a pool of
five well-written lines (one of each format), eight whose operands have the shape of
another opcode or are missing, seven misspelt ones and the empty line; every file of two
of them of which one is well written or empty; files of three lines, well written or empty,
which do not fit the buffer; headers with no,
one and three fields, some wide; and what `obj_create.py` makes of 106 listings
(jumps both ways, blocks of zeros at each place, a second section, no code) under
one or two segments. `read` may return any amount each time, fail, or leave residue.
What the loader promises is in `Admission`: no file is accepted with another
meaning than its lines have, whatever was misread on the way.

`phase2` executes every program of at most three lines over a pool with each
format, two lines that lack operands, a number beyond `int`, a header that fits,
one with an entry between instructions and one whose addresses fill the arrays they are scanned
into, under all combinations of options, with and without a register file.
`ExecutesTheFile` compares the instruction in hand with the line of the text at the
pc, through the header of the text: it spans the parser, the header, the
index and the loop.

`pipeline` has two tests, one edit of each source, and every interleaving of edits,
commands, failures, timeouts and kills. The emulator as it is at first loops on the
first test.

### Bounds and why they are enough

| Constant | In the program | In the runs | Reason |
|---|---|---|---|
| `BITS` | 8 | 1, 2 | A word still has eight bytes and four widths; sign bits, byte order and wrap-around all occur. `isa_provided` needs 2 so that a byte is more than its sign. |
| `NREGS`, `A7` | 32, 17 | 3 or 4, the last | x0, a register, a7; one more for binary operations. Registers are only told apart by these roles. |
| `UINT_MAX` | 2^32 - 1 | 31, 127 | Small enough for the pc to wrap in a run. |
| `IMMBITS` | 12 | 3 | Offsets of both signs; LUI shifts part of its operand out. |
| program length | any | up to 3 (core), up to 7 (isa) | An interaction takes two iterations: one that changes the state, one that observes it; a system call needs one more to load a7. |
| `size` | any | 0 to 4, 10 | Smaller than, equal to and larger than an access. |
| `INT_MAX` | 2^31 - 1 | 7, 31 | Numbers inside and beyond it, of both signs, and every register number used. |
| `PROG_SZ_MAX` | 16 KiB | 3, 4 lines | Files that fit and that do not; the cut falls on a line, after one, or in one. |
| `Garbled`, `Stale` | any text, any memory | 2 lines, 1 or 2 numbers | A garbled line that is well written and one that does not come back as it was; stale values equal to and other than the right one. |
| `Faults` | any | none, or one | A failing read ends the run, so that the two do not meet. |
| `NARROW` | 2^28 - 1 | 15 | Fields on both sides of it. |
| `Unparsed` | any memory | 3 instructions | One without a format, which ends the program, zeros, and one with a negative register number, which no parser of a register would leave. |
| `TESTS`, `EDITS` | 26, any | 2, 1 | One test that is worked on and one that is not; versions are only compared with the current one. |

There are no state constraints: the state space is finite because a program, a file and
the number of edits are.
A loop that spins is a cycle in it.

### Fairness

`FairSpec` adds weak fairness of `Loop`, the disjunction of all steps of the
loop. The emulator is a single thread that waits for nothing: unless it has
returned or died a step is always enabled, and the operating system eventually
runs it. No fairness is assumed of one outcome over another, nor of any choice
of what lies outside the array. `LeavesProgram` is conditional on the register
file having been allocated; without one the pc reads as zero and the loop spins.
With the object file control-flow instructions spin too (`claim_progress`),
so the property belongs to `core_registers` only. `CanonicalRunsToAnEnd` too has no register
file as an exception.

`FairLoadSpec` and `FairSpec2` have weak fairness of all steps of the program, for the same
reason; standard input is a file, so that `read` does not wait. Only progress is assumed,
no outcome. `PipelineSpec` has weak fairness of `Work`, the steps of make and of its
recipes: compilers and scripts end, and `timeout` ends the emulator, which is why
`GiveUp` is one of them. The programmer owes nothing: edits, commands and kills have
no fairness.

### What the violated claims show

| Run | Statement | What happens |
|---|---|---|
| `claim_memory_range` | out-of-range addresses raise `EXCEPTION_MEMORY` (README.md:67) | an access over the end of the address space passes: `address + size - 1` wraps |
| `claim_exception_exits` | an exception is printed and the program exits (processor.h:55-57) | a pc out of bounds is reported and executed |
| `claim_progress` | handlers progress the pc (processor.h:89-91) | a branch is handled by nobody and fetched for ever |
| `claim_listed` | what README.md:48-52 and 62 list is emulated | with `registers.c` ADDW is an exception |
| `claim_current` | "Create all of the test objects", "Compilation complete" (Makefile:17, 24) | a test is edited while the compiler reads it: the next command finds everything up to date and ends with the solution of the text before the edit |

`claim_listed` is the other side of two runs that pass. In `core_registers` the machine of
`ExecutesAtomically` takes what the build lacks as given (`Lacking`, `Exits`) and says that lacking it
has no effect; this run says that it ought not to be lacking. `isa_registers` leaves out SRL and
SRLI. TLC shows the first violation it meets; each conjunct is violated:

* ADDW, SUBW, loads and stores end the run with `EXCEPTION_INSTRUCTION` before `memory.c` is called
  (registers.c:140), though processor.h:98-100 wants them left alone;
* the exit system call sets `EXCEPTION_EXIT` and has it overwritten by the same default
  (registers.c:92); 01_ecall_exit.soln:5 has "Process exit, register state:";
* SRL of -2 by 1 shifts the sign in (registers.c:133); 15_srl.soln:15 has `0x7fffffffffffffff`.

With the object file the property holds on the same programs.

`claim_current` is the other side of `UpToDateIsCurrent`, which names the two reasons for which a
target that is up to date may be stale. Either is enough to violate the claim: the test was edited under the
compiler, or the compiler failed on the edited test, left the old binary and `touch` dated it after the
edit (object_create/Makefile:44-46).

Other differences met while reading, without a run: system call 23 prints nothing
(registers.c:93). Phase 2 prints every ecall with the address 17 and gives no other
instruction an address (P2/instructions.c:90; 01_ecall_exit.soln:4 has `0x4`). In phase 2
a header field of ten characters fills its array, its terminator is overwritten by
the next field, and the address is read with digits of it (P2/instructions.c:30;
P2/instructions.h:159). The bounds checked are those of the header and
not the number of instructions (processor.c:21-25); the pc is truncated to 32 bits
(registers.c:37-40 and README.md:44); `processor_memory_print` says "No memops
performed so far." whenever all bytes are zero; `lines` asserts on an empty line; a
program ending in a newline is rejected with an empty list of differences;
`stringify_program` writes before its buffer when there is no instruction; `main`
returns 0 after an exception; `HW1=S` does not link; `registers.c` of P2 does not
compile against the headers beside it, which is why `Phase2` takes it as the same
file of phase 3. A block of zeros before the first instruction shifts
every address that the emulator sees, as `obj_create.py` compares neighbours only.

## 4. The theorems

`ProcessorProofs` (the loop) proves, for every `BITS`, `NREGS`, `A7`, `UINT_MAX`, `IMMBITS`,
either `HW2`, every set of programs and headers and every `Garbage`:

| Theorem | States |
|---|---|
| `TypeCorrect` | `Spec => []TypeOK` |
| `ZeroRegister` | `Spec => []X0Hardwired` |
| `ReportIsComplete` | `Spec => []ShadowTracksRegisters` |
| `OneHandlerExecutes` | `Spec => []PcMovesAtMostOnce` |
| `ExceptionsArePrecise` | `Spec => []PreciseException` |
| `FetchIsCorrect` | `Spec => []FetchMatchesAddress` |
| `FaultsAreReported` | `Spec => []AbortsOnlyOutsideProgram` |

*Assumptions.* `BitsAssumption`, `RegistersAssumption` (sizes are positive, a7 exists),
and `ProcessorAssumption`: programs are sequences of well-formed instructions, and
the object file always has a register file, which it does not check for. TLC evaluates
them in every run.

*Argument.* The properties speak of the loop head and of the state in which the
loop returned; none is inductive. `Inv` says what holds in between:

* `Untouched`, at the register handler and after a return: nothing has changed since the fetch;
* at the memory handler the same, if the instruction is one the memory handler
  may still execute or refuse (`ForMemops`). This is the heart of it: an
  instruction executed by the register handler is never one of those
  (`ExecutedIsNotForMemops`), because for a well-formed instruction the opcode fixes
  the format, and because no opcode is on both lists;
* otherwise at most one register differs from the static copy and the pc is the
  address fetched or the next one;
* `InHand` and `Placed`: the instruction in hand is the element of the array at
  the index, and carries the address the parser gave it;
* `Allocation`: without a register file the registers stay zero, so that a report
  that reads zeros agrees with them.

There is a lemma for each action of `Next` that it keeps `Inv`, built on lemmas about the
words (`WordOperators`, `SignExtendType`, `ByteOfType`), the pc (`PcAdvances`), one
register write (`SetRegChanges`) and the report (`RememberCatchesUp`). `Inv` was also
checked with TLC as an invariant of both `core` instances.

### The loaders

`LoaderProofs` proves, for every `INT_MAX` and `PROG_SZ_MAX`, every set of files, faults,
garbled lines and stale values, and for any choice of phases:

| Theorem | States |
|---|---|
| `LoaderTypes` | `LoadSpec => []LoadTypeOK` |
| `AcceptedProgramsArePlaced` | `LoadSpec => []AcceptedIsPlaced` |
| `AcceptedProgramsAreWellFormed` | `LoadSpec => []AcceptedIsWellFormed` |
| `OnlyMalformedFilesAbort` | `LoadSpec => []AbortsOnlyOnMalformed` |

*Assumptions.* `TextAssumption` (`INT_MAX` is a natural) and `LoaderAssumption` (the sets
hold files, lines and numbers; the buffer holds two lines at least). TLC evaluates these in `loader`
and in `phase2`.

*Argument.* `AcceptedIsPlaced` is the hard one, as what it promises is not what the
program compares: addresses are not part of the text. `LoadInv` says what holds
while lines are parsed:

* `Configured`: from the header on, the configuration is what the parser of the
  phase makes of the header, so that the second conversion of phase 1 cannot fail;
* `OnePerLine`: the array has one element for each line, and no line is empty, so that
  the assertion on the numbers of lines never fails (`NeverDisagree`);
* `Placing`: every line passed is either placed at its address or was skipped,
  and then its element is all zeros and the line has no shape (`PlacedOrSkipped`);
* `Formatted`: in phase 2 every element passed has the format of its opcode.

A skipped element would be written as `ECALL x0,x0,x0`, and no line without a shape
is spelled so (`SkippedHasNoText`): where the texts are equal, no line was skipped.
`LoadInv` was checked with TLC on the instance of `loader` before it was proved.

### The refinement

`AdmissionProofs` proves `LoaderImplementsAdmission`: `LoadSpec => A!AdmissionSafety`, which is
`ImplementsAdmission` without its fairness, under the same assumptions. Beside `LoadInv` it needs
`AdmInv`:

* `ReadYet`: input that fits and can be read is in the buffer unchanged once reading is over;
* `RoundTrip`: if the text is canonical, the lines parsed so far are written as they
  were. In phases 1 and 3 this rests on `ShapeOfCanonical` (the formats of `sscanf` exclude each
  other on such lines), in phase 2 on the format of the opcode; in both on
  `TextOfFilled` and on `%d` keeping an `int` (`TruncateFacts`);
* `OpcodeKept`: the format without operands belongs to ECALL alone, as the text of such an
  instruction does not show its opcode.

A step that refuses is then allowed because a canonical text agrees with the array, has an
instruction with a format for each line, and a header that is confirmed
(`CanonicalAgrees`); a step that accepts, because equal texts mean the same (`MeaningOfText`).

Admission promises acceptance for every canonical text, also one whose header has fields of ten
characters: phase 2 misreads such a header, but does not look at it again, and phase 1 does, but
does not misread it (`ValidatedInPhase1`).

### From the binary to the array

`ObjCreateProofs` proves, for every listing and segments, under `ObjCreateAssumption` (the dumps are
listings, in which objdump writes an instruction in the format of its opcode, `Disassembled`):

| Theorem | States |
|---|---|
| `BinariesAreLoaded` | `LoadSpec => []ArrayIsBinary` |
| `KnownBinariesAreAccepted` | `LoadSpec => []BinariesAreAccepted` |

*Argument.* `Filtered` is a recursive function, which says something only because a
function with its equations exists; `KeepsExists` builds it, by induction as sets of numbers allow it
(`SetInduction`), and `FilteredFacts` says what it keeps. As neighbours are compared and the first
line is at address zero, line `n` is at `4 * (n - 1)` (`KeptIsCode`), which is what makes the
distance computed from the number of the line right (`FixupIs`). Three facts of the
loader do the rest: the texts are equal and equal texts mean the same (`Compared`, `MeaningOfText`), which also
excludes names that the emulator does not know, as it writes none of them; an accepted program is placed and
configured; and nothing canonical is refused (`RefusedIsIllWritten`, from the refinement).

### The loop as an atomic machine

`AtomicProofs` proves `LoopIsAtomic`: `Spec => ExecutesAtomically`, which is
`Spec => Atomic!AtomicSpec`, under the assumptions of `ProcessorProofs`. An instruction has its
effect in one step of the loop, the action of the handler that executes it; the calls before and after are
stutters. Beside `Inv` it needs `AtomicInv`:

* `HeadOnly`: when a handler is called no exception is printed but that of the loop head, so
  that the exception the loop returns with is the one the handler raised;
* `NothingForMemops`: with `registers.c` nothing reaches `memory.c` that it would execute;
* a memory that could not be allocated has size zero.

For an instruction of the program, `Untouched` and `InHand` of `Inv` give that the counter, registers and
memory are still those of the fetch when a handler acts. An instruction outside the program may be executed by
both handlers; the mapping holds its counter back until the iteration ends (`Counter`),
and `Stray` says what is left of it: sizes, x0, and a counter that moves by one place or not. The bytes of loads and
stores are `LoadIsLittleEndian` and `StoreIsLittleEndian`: byte `n` of the value in the register is the
byte at the address plus `n`, for every width of a byte, and the rest is its sign or zero.

### Phase 2

`Phase2Proofs` proves, for every set of files, options, widths and numbers of registers, and every
`Unparsed`:

| Theorem | States |
|---|---|
| `Phase2Types` | `Spec2 => []TypeOK2` |
| `EveryChangeIsReported` | `Spec2 => []ReportsEveryChange` |
| `TheFileIsExecuted` | `Spec2 => []ExecutesTheFile` |

*Assumptions.* Those of `Loader` and `Registers`, and `Phase2Assumption`; TLC evaluates them
in `phase2`.

*Argument.* `Inv2` joins `LoadInv` to the loop. An instruction keeps nothing of its line but
opcode and operands, and the link is the comparison, which is over when the loop starts; so its outcome is part of
the invariant (`SameAsText`), with the index (`InHand2`). `Shown` is the
static copy: up to date, or behind by one register after an instruction. `NoFileIsZero` is what makes
that hold without a register file: the report reads zeros, and there is nothing else to read. An instruction in
memory that was never written may name a register below zero; it was this proof that asked what `registers_setreg` does
with one (it compares the number as unsigned, and ignores it), and the run now has such an instruction.

### The pipeline

`PipelineProofs` proves, for every number of tests and edits and whatever the emulator does with a test:

| Theorem | States |
|---|---|
| `PipelineTypes` | `PipelineSpec => []PipelineTypeOK` |
| `ChainsAgree` | `PipelineSpec => []ChainAgrees` |
| `StaleForTwoReasons` | `PipelineSpec => []UpToDateIsCurrent` |
| `NoTestIsMissed` | `PipelineSpec => []EveryTestIsJudged` |
| `PassesAreEarned` | `PipelineSpec => []PassIsEarned` |

*Assumptions.* `PipelineAssumption`, which TLC evaluates in `pipeline`.

*Argument.* A solution may be older than its test in many ways, and what is true of it in each of them is
that it is of the same test as the object and the binary it was made from (`ChainAgrees`); that is the
part without an exception, and it is inductive only with `Reads`: what a recipe is about to write is of the test
that its prerequisite is of, and remains so because nothing but the recipe of the prerequisite can
change that. Whether the whole chain is current is then a question of the binary alone (`BinaryIsCurrent`),
and the two histories are the two ways in which it is not: `UpToDateIsCurrent` says that there is no third.
The rest of `PipelineInv` is what make relies on: what is left to do is the rest of
the order and everything before it is there (`Queue`, `OrderFacts`); a recipe runs for the first target left, which it has
emptied unless it is a binary (`Running`); what is missing has not been made from (`Chain`), so that a target is never
made of nothing; versions only grow (`Grown`); and, for `PassIsEarned`,
`Rebuilt`: from the clean on `make test` finds no emulator, object or whole target older than itself, so that
no old binary can be kept either.

### Only model-checked

* `LeavesProgram`, `CanonicalRunsToAnEnd`, `CommandsEnd` and the liveness part of
  `ImplementsAdmission`: liveness under fairness is out of the prover's reach.
* `ImplementsISA`: the values of operations are sums over bits with powers of two. The provers take `2^k`
  as unknown, so that nothing about the value of `ToNat` or `OfInt` is proved; that an operation yields a word is, and which
  registers and bytes change.
* The violated claims, which are runs and not theorems.

## 5. What is not modelled, and the plan

Not modelled:

* the cache: declared in a header, without code; phase 2 reads its options and drops them;
* the linker script, data of the toolchain;
* the wording and layout of the reports, and the memory report, which has no state;
* the listings `.asm` and `.rawasm` of the pipeline, which nothing is compared with, and
  the pipeline of phase 2, which has no timeouts and moves its files away;
* several commands at a time; the golden outputs are constants (`Correct`);
* `processor_free`, `memory_free`, `registers_free` and `instructions_free`, which the program
  never calls.

Modelled as external, from how it is used: the object files of phase 3, libc, objdump, make's
view of times, the programmer.

Left to do, in this order:

1. The loop of phase 2 as an `AtomicMachine` without loads and stores: `Phase2Proofs` has the invariant.
2. Action properties: no step of the loaders changes an array that is accepted, no step of the pipeline
   makes a version older.
3. The type of `ToNat` (a number below `2^XLEN`), by the induction of `ObjCreateProofs`, and what follows
   for addresses.
