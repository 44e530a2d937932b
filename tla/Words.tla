------------------------------- MODULE Words -------------------------------
(***************************************************************************)
(* Machine words of the emulator.  The C code keeps every register in an   *)
(* `unsigned long`, copies it through `long`, and moves it to and from the *)
(* `unsigned char` buffer of the memory byte by byte.  A word is a vector  *)
(* of bits, a byte a slice of it, and the C operators used by registers.c  *)
(* and memory.c are operators on these vectors, so that the width, the     *)
(* wrap-around and the signedness of each are explicit.                    *)
(*                                                                         *)
(* The number of bits in a byte is a parameter.  A word is always eight    *)
(* bytes and an `int` four, as in the C program, which is BITS = 8; model  *)
(* checking uses one- and two-bit bytes.                                   *)
(***************************************************************************)
EXTENDS Integers

CONSTANT BITS    \* bits in a byte: 8 in the C program

ASSUME BitsAssumption == BITS \in Nat \ {0}

XLEN == 8 * BITS                 \* width of `unsigned long`
Bit  == 0 .. XLEN - 1            \* bit 0 is the least significant
Word == [Bit -> BOOLEAN]
Byte == [0 .. BITS - 1 -> BOOLEAN]

ZeroWord == [k \in Bit |-> FALSE]
ZeroByte == [k \in 0 .. BITS - 1 |-> FALSE]

-----------------------------------------------------------------------------
(* Conversions between words and integers. *)

\* The word congruent to the integer n modulo 2^XLEN (two's complement).
OfInt(n) == [k \in Bit |-> (n \div 2^k) % 2 = 1]

\* The value of a word as an `unsigned long`.
ToNat(w) ==
  LET from[k \in 0 .. XLEN] ==
        IF k = XLEN THEN 0 ELSE (IF w[k] THEN 1 ELSE 0) + 2 * from[k + 1]
  IN  from[0]

\* The value of a word as a `long`.
ToInt(w) == ToNat(w) - (IF w[XLEN - 1] THEN 2^XLEN ELSE 0)

-----------------------------------------------------------------------------
(* Arithmetic, logic and shifts. *)

Add(a, b) == OfInt(ToNat(a) + ToNat(b))
Sub(a, b) == OfInt(ToNat(a) - ToNat(b))

And(a, b) == [k \in Bit |-> a[k] /\ b[k]]
Or(a, b)  == [k \in Bit |-> a[k] \/ b[k]]
Xor(a, b) == [k \in Bit |-> a[k] # b[k]]

\* Shifting a 64-bit operand by 64 or more is undefined in C; the machine
\* instruction the compiler emits uses the low bits of the count.
ShiftCount(b) == ToNat(b) % XLEN

ShiftLeft(a, n)         == [k \in Bit |-> k - n \in Bit /\ a[k - n]]
ShiftRightLogical(a, n) == [k \in Bit |-> k + n \in Bit /\ a[k + n]]
ShiftRightArith(a, n)  ==
  [k \in Bit |-> IF k + n \in Bit THEN a[k + n] ELSE a[XLEN - 1]]

-----------------------------------------------------------------------------
(* Narrowing and widening. *)

\* The low n bits of w, extended to a word with zeros or with bit n - 1.
ZeroExtend(w, n) == [k \in Bit |-> k < n /\ w[k]]
SignExtend(w, n) == [k \in Bit |-> IF k < n THEN w[k] ELSE w[n - 1]]

\* (w >> (n * 8)) & 0xFF
ByteOf(w, n) == [k \in 0 .. BITS - 1 |-> w[n * BITS + k]]
=============================================================================
