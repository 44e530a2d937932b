----------------------------- MODULE ObjCreate -----------------------------
(***************************************************************************)
(* obj_create.py makes the file of a program from what objdump says of its *)
(* binary: a listing of the code, the segments, and the start address.     *)
(* Each binary of Dumps is a file that the loader may be given; the        *)
(* properties follow its instructions from the binary into the array.      *)
(***************************************************************************)
EXTENDS Loader, Functions

CONSTANTS
  Dumps,          \* what objdump may say of a binary
  NARROW          \* the largest number of fewer than ten characters

Branches  == {"BEQ", "BNE", "BLT", "BGE", "BLTU", "BGEU"}
Jumps     == Branches \cup {"JAL"}
Rewritten == Jumps \cup {"AUIPC", "LUI", "SLLI", "SRLI", "SRAI", "SLLIW", "SRLIW", "SRAIW"}

\* An instruction of the binary as the machine should see it.
InBinary(l) ==
  [op |-> l.text.name,
   operands |-> [n \in DOMAIN l.text.args |->
      IF n = Len(l.text.args) /\ l.text.name \in Jumps
      THEN NumArg(l.text.args[n].val - l.addr) ELSE l.text.args[n]]]

\* objdump writes an instruction in the format of its opcode, except that
\* targets of jumps are absolute and that some numbers are hexadecimal
\* ("other"); immediates and distances have at most 21 bits.
Disassembled(l) ==
  \/ l.text.name = "unknown"
  \/ /\ CanonicalLine([name |-> l.text.name, args |-> InBinary(l).operands, form |-> "plain"])
     /\ \/ l.text.form = "plain"
        \/ l.text.form = "other" /\ l.text.name \in Rewritten

\* The code as objdump lists it: instructions, "..." for a block of zeros,
\* and a heading before each section but the first.
Listed ==
  {l \in [kind : {"instruction", "zeros", "heading"}, addr : Nat, text : Line] :
     l.kind = "instruction" => Disassembled(l)}
Dump   == [listing : Seq(Listed), segments : Seq([vaddr : Nat, memsz : Nat]), start : Nat]

ASSUME ObjCreateAssumption == Dumps \subseteq Dump /\ NARROW \in Nat

\* awk prints lines of three to five fields; "..." is one field.
Filtered(d) ==
  LET kept[n \in 0 .. Len(d.listing)] ==
        IF n = 0 THEN <<>>
        ELSE IF d.listing[n].kind = "zeros" THEN kept[n - 1]
        ELSE Append(kept[n - 1], d.listing[n])
  IN  kept[Len(d.listing)]

\* No segment is an IndexError; initialized data is refused.
BadSegments(d) == Len(d.segments) \notin {1, 2}

\* A heading is no number for int; the addresses of neighbours are compared.
BadListing(d) ==
  LET lines == Filtered(d)
  IN  \E n \in 1 .. Len(lines) - 1 :
        \/ "heading" \in {lines[n].kind, lines[n + 1].kind}
        \/ lines[n].addr + 4 # lines[n + 1].addr

\* What a failing extraction leaves is not a program.
ExtractFails(d) == BadSegments(d) \/ BadListing(d)

\* Mutation of Relative: lines counted from one.
RelativeFromOne(target, i) == target - (i + 1) * 4

Relative(target, i) == target - i * 4

\* instruction_fixup: the last operand of line i, counted from zero, is
\* written in decimal, and as a distance if it is a target.
Fixup(i, l) ==
  IF l.name \in Rewritten
  THEN [l EXCEPT !.form = "plain",
                 !.args = [n \in DOMAIN @ |->
                   IF n = Len(@) /\ l.name \in Jumps THEN NumArg(Relative(@[n].val, i)) ELSE @[n]]]
  ELSE l

Hex(n) == [val |-> n, wide |-> n > NARROW]

\* binary_addresses: bounds of the code, start, and the end of the memory.
Addresses(d) ==
  LET code == d.segments[1]
      data == d.segments[Len(d.segments)]
  IN  <<Hex(code.vaddr), Hex(code.vaddr + code.memsz), Hex(d.start), Hex(data.vaddr + data.memsz)>>

\* Mutation of Extracted: print ends the last line.
ExtractedWithNewline(d) ==
  [header |-> Addresses(d),
   body   |-> Append([n \in DOMAIN Filtered(d) |-> Fixup(n - 1, Filtered(d)[n].text)], Blank)]

\* output_program; the empty program is the end of the first line.
Extracted(d) ==
  [header |-> Addresses(d),
   body   |-> IF Filtered(d) = <<>> THEN <<Blank>>
              ELSE [n \in DOMAIN Filtered(d) |-> Fixup(n - 1, Filtered(d)[n].text)]]

ExtractedFiles == {Extracted(d) : d \in {e \in Dumps : ~ExtractFails(e)}}

-----------------------------------------------------------------------------
(* Properties. *)

\* The binary that the file is made from, if it keeps to the assumptions in
\* the head of obj_create.py: the code is at address zero, and begins there.
FromBinary(d) ==
  /\ ~ExtractFails(d) /\ file = Extracted(d) /\ text = file
  /\ d.segments[1].vaddr = 0
  /\ d.listing # <<>> /\ d.listing[1].kind = "instruction" /\ d.listing[1].addr = 0

\* The array of an accepted program is the binary: each instruction of the
\* binary is there, at its address, with its operands and its distance to
\* where it jumps; nothing that the filters drop moves what comes after it.
ArrayIsBinary ==
  stage = "accepted" /\ phase # 2 =>
    \A d \in Dumps : FromBinary(d) =>
      {[addr |-> l.addr, inst |-> InBinary(l)] : l \in {m \in Range(d.listing) : m.kind = "instruction"}}
        = {[addr |-> inst.inst_addr,
            inst |-> [op |-> inst.inst_no, operands |-> OperandsOf(inst)]] : inst \in Range(instrs)}

\* No program of instructions that the emulator knows is refused by any of
\* the loaders, whatever spelling objdump has used in it.
BinariesAreAccepted ==
  Over /\ faults = {} /\ Size <= PROG_SZ_MAX =>
    \A d \in Dumps :
      FromBinary(d) /\ (\A l \in Range(d.listing) : l.kind = "instruction" => l.text.name \in Known)
        => stage = "accepted"
=============================================================================
