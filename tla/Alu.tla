---------------------------------- MODULE Alu ----------------------------------
(***************************************************************************)
(* The arithmetic and bit instructions (opcodes/instructions_arithmetic,   *)
(* _bit, _carry and daa of _misc): what they do to the accumulator and the *)
(* flags.  An instruction exists in up to three forms, with a register, an *)
(* immediate byte or a byte in memory; here the byte is its operand.  The  *)
(* cycles of each form are the subject of CpuRunner.                       *)
(*                                                                         *)
(* Results of and, or, xor, res and set are left open but for their flags. *)
(***************************************************************************)
EXTENDS Integers

CONSTANT Operands   (* The bytes that registers and memory may hold.       *)

Byte == 256
Word == 65536
ASSUME OperandsAssumption == Operands \subseteq 0 .. Byte - 1 /\ 0 \in Operands

VARIABLES
  a,
  flags,     (* [z, n, h, c].                                              *)
  (* The rest is for the properties only.                                  *)
  carry,     (* The carry or borrow of the last operation that has one,    *)
  half,      (*   and the one between its digits, from integers.           *)
  decimal    (* The exact value of the last sum or difference of decimal   *)
             (* numbers, and whether daa has adjusted it.                  *)

alu_vars == <<a, flags, carry, half, decimal>>

Flags == [z : BOOLEAN, n : BOOLEAN, h : BOOLEAN, c : BOOLEAN]
Bit(flag) == IF flag THEN 1 ELSE 0

Result(value, n, h, c) == [value |-> value, flags |-> [z |-> value = 0, n |-> n, h |-> h, c |-> c]]

-----------------------------------------------------------------------------
(* utilities/arithmetic.cppm, for an unsigned type of size values whose    *)
(* half carry comes out of the lower digit.                                *)
check_add_overflow(lhs, rhs, size) == (lhs + rhs) % size < lhs
check_half_add_overflow(lhs, rhs, digit) == (lhs % digit) + (rhs % digit) > digit - 1
check_substract_underflow(lhs, rhs) == lhs < rhs
check_half_substract_underflow(lhs, rhs, digit) == lhs % digit < rhs % digit

HalfByte == 16
HalfWord == 4096

add_a(x, r) ==
  Result((x + r) % Byte, FALSE, check_half_add_overflow(x, r, HalfByte),
         check_add_overflow(x, r, Byte))

sub_a(x, r) ==
  Result((x - r) % Byte, TRUE, check_half_substract_underflow(x, r, HalfByte),
         check_substract_underflow(x, r))

adc_a(x, r, c) ==
  LET result == (x + r + Bit(c)) % Word
  IN  Result(result % Byte, FALSE,
             (x % HalfByte) + (r % HalfByte) + Bit(c) > HalfByte - 1, result > Byte - 1)

(* The carry is taken from a difference of 16 unsigned bits. *)
sbc_a(x, r, c) ==
  LET result == (x - r - Bit(c)) % Word
  IN  Result(result % Byte, TRUE,
             x % HalfByte < (r % HalfByte) + Bit(c), result > Byte - 1)

(* Seeded fault: the carry follows the overflow, as with an addition. *)
inc_with_carry(r, f) ==
  Result((r + 1) % Byte, FALSE, check_half_add_overflow(r, 1, HalfByte), r = Byte - 1)

inc(r, f) == Result((r + 1) % Byte, FALSE, check_half_add_overflow(r, 1, HalfByte), f.c)
dec(r, f) == Result((r - 1) % Byte, TRUE, check_half_substract_underflow(r, 1, HalfByte), f.c)

(* Seeded fault: the upper digit is adjusted after the lower one. *)
daa_in_order(x, f) ==
  LET low  == IF (~f.n /\ x % HalfByte > 9) \/ f.h THEN 6 ELSE 0
      y    == IF f.n THEN (x - low) % Byte ELSE (x + low) % Byte
      high == (~f.n /\ y > 153) \/ f.c
      adjustment == IF high THEN 96 ELSE 0
  IN  Result((IF f.n THEN y - adjustment ELSE y + adjustment) % Byte, f.n, FALSE, high)

daa(x, f) ==
  LET low  == (~f.n /\ x % HalfByte > 9) \/ f.h
      high == (~f.n /\ x > 153) \/ f.c
      adjustment == (IF low THEN 6 ELSE 0) + (IF high THEN 96 ELSE 0)
  IN  Result((IF f.n THEN x - adjustment ELSE x + adjustment) % Byte, f.n, FALSE, high)

-----------------------------------------------------------------------------
(* Shifts and rotations: what becomes of the byte x and the carry c.       *)
rl(x, c)  == Result(((2 * x) % Byte) + Bit(c), FALSE, FALSE, x \div 128 = 1)
rlc(x, c) == Result(((2 * x) % Byte) + x \div 128, FALSE, FALSE, x \div 128 = 1)
rr(x, c)  == Result(x \div 2 + 128 * Bit(c), FALSE, FALSE, x % 2 = 1)
rrc(x, c) == Result(x \div 2 + 128 * (x % 2), FALSE, FALSE, x % 2 = 1)
sla(x, c) == Result((2 * x) % Byte, FALSE, FALSE, x \div 128 = 1)
sra(x, c) == Result(x \div 2 + 128 * (x \div 128), FALSE, FALSE, x % 2 = 1)
srl(x, c) == Result(x \div 2, FALSE, FALSE, x % 2 = 1)
swap(x, c) == Result((x % HalfByte) * HalfByte + x \div HalfByte, FALSE, FALSE, FALSE)

Shifted(x, c) ==
  {rl(x, c), rlc(x, c), rr(x, c), rrc(x, c), sla(x, c), sra(x, c), srl(x, c), swap(x, c)}

(* rla, rlca, rra and rrca always clear z. *)
RotatedA(x, c) ==
  {[r EXCEPT !.flags.z = FALSE] : r \in {rl(x, c), rlc(x, c), rr(x, c), rrc(x, c)}}

-----------------------------------------------------------------------------
(* Words: hl + r16, and sp + e8 where e8 is a signed byte.                 *)
Signed(e8) == IF e8 < 128 THEN e8 ELSE e8 - Byte

add_hl(hl, r16, f) ==
  [value |-> (hl + r16) % Word,
   flags |-> [z |-> f.z, n |-> FALSE, h |-> check_half_add_overflow(hl, r16, HalfWord),
              c |-> check_add_overflow(hl, r16, Word)]]

add_sp(sp, e8) ==
  [value |-> (sp + Signed(e8)) % Word,
   flags |-> [z |-> FALSE, n |-> FALSE,
              h |-> check_half_add_overflow(sp % Byte, e8, HalfByte),
              c |-> check_add_overflow(sp % Byte, e8, Byte)]]

-----------------------------------------------------------------------------
Decimals  == {x \in 0 .. Byte - 1 : x % HalfByte <= 9 /\ x \div HalfByte <= 9}
Number(x) == 10 * (x \div HalfByte) + (x % HalfByte)

NotDecimal == [state |-> "none", value |-> 0]
Decimal(r, value) ==
  IF a \in Decimals /\ r \in Decimals THEN [state |-> "binary", value |-> value] ELSE NotDecimal

(* What an instruction other than an addition or subtraction leaves.       *)
NoSum == carry' = flags'.c /\ half' = flags'.h /\ decimal' = NotDecimal

(* Loads, and whatever else leaves the flags alone. *)
Load(x) ==
  /\ a' = x
  /\ decimal' = NotDecimal
  /\ UNCHANGED <<flags, carry, half>>

(* pop af: whatever flags were saved, or any others. *)
pop_af(x) ==
  /\ a' = x
  /\ flags' \in Flags
  /\ NoSum

Add(r) ==
  /\ a' = add_a(a, r).value
  /\ flags' = add_a(a, r).flags
  /\ carry' = (a + r >= Byte)
  /\ half' = ((a % HalfByte) + (r % HalfByte) >= HalfByte)
  /\ decimal' = Decimal(r, Number(a) + Number(r))

Adc(r) ==
  /\ a' = adc_a(a, r, flags.c).value
  /\ flags' = adc_a(a, r, flags.c).flags
  /\ carry' = (a + r + Bit(carry) >= Byte)
  /\ half' = ((a % HalfByte) + (r % HalfByte) + Bit(carry) >= HalfByte)
  /\ decimal' = Decimal(r, Number(a) + Number(r) + Bit(carry))

Sub(r) ==
  /\ a' = sub_a(a, r).value
  /\ flags' = sub_a(a, r).flags
  /\ carry' = (a - r < 0)
  /\ half' = ((a % HalfByte) - (r % HalfByte) < 0)
  /\ decimal' = Decimal(r, Number(a) - Number(r))

Sbc(r) ==
  /\ a' = sbc_a(a, r, flags.c).value
  /\ flags' = sbc_a(a, r, flags.c).flags
  /\ carry' = (a - r - Bit(carry) < 0)
  /\ half' = ((a % HalfByte) - (r % HalfByte) - Bit(carry) < 0)
  /\ decimal' = Decimal(r, Number(a) - Number(r) - Bit(carry))

(* cp: the flags of a subtraction. *)
Cp(r) ==
  /\ flags' = sub_a(a, r).flags
  /\ carry' = (a < r)
  /\ half' = (a % HalfByte < r % HalfByte)
  /\ decimal' = NotDecimal
  /\ UNCHANGED a

(* inc and dec of another register or of memory: a loop counter, say. *)
Count(r) ==
  /\ flags' \in {inc(r, flags).flags, dec(r, flags).flags}
  /\ half' = flags'.h
  /\ decimal' = NotDecimal
  /\ UNCHANGED <<a, carry>>

CountA ==
  /\ \E out \in {inc(a, flags), dec(a, flags)} : a' = out.value /\ flags' = out.flags
  /\ half' = flags'.h
  /\ decimal' = NotDecimal
  /\ UNCHANGED carry

Daa ==
  /\ a' = daa(a, flags).value
  /\ flags' = daa(a, flags).flags
  /\ carry' = flags'.c
  /\ half' = flags'.h
  /\ decimal' = IF decimal.state = "binary" THEN [decimal EXCEPT !.state = "adjusted"]
                ELSE NotDecimal

(* or, xor; and sets h. *)
Logic(value) ==
  /\ a' = value
  /\ \E h \in BOOLEAN : flags' = Result(value, FALSE, h, FALSE).flags
  /\ NoSum

Cpl ==
  /\ a' = Byte - 1 - a
  /\ flags' = [flags EXCEPT !.n = TRUE, !.h = TRUE]
  /\ half' = TRUE
  /\ decimal' = NotDecimal
  /\ UNCHANGED carry

(* scf, ccf. *)
SetCarry ==
  /\ flags' \in {[flags EXCEPT !.n = FALSE, !.h = FALSE, !.c = c] : c \in {TRUE, ~flags.c}}
  /\ NoSum
  /\ UNCHANGED a

ShiftA ==
  /\ \E out \in Shifted(a, flags.c) \cup RotatedA(a, flags.c) :
       a' = out.value /\ flags' = out.flags
  /\ NoSum

(* Shifts and bit tests of another register or of memory. *)
Shift(x) ==
  /\ \E out \in Shifted(x, flags.c) : flags' = out.flags
  /\ NoSum
  /\ UNCHANGED a

TestBit ==
  /\ \E z \in BOOLEAN : flags' = [flags EXCEPT !.z = z, !.n = FALSE, !.h = TRUE]
  /\ half' = TRUE
  /\ decimal' = NotDecimal
  /\ UNCHANGED <<a, carry>>

(* Additions of words, for their flags. *)
AddWords ==
  /\ \/ \E hl, r16 \in {x * Byte + y : x, y \in {0, 15, 128, 255}} :
            flags' = add_hl(hl, r16, flags).flags
     \/ \E sp, e8 \in {0, 15, 128, 255} : flags' = add_sp(sp, e8).flags
  /\ NoSum
  /\ UNCHANGED a

-----------------------------------------------------------------------------
AluInit ==
  /\ a = 0
  /\ flags = [z |-> FALSE, n |-> FALSE, h |-> FALSE, c |-> FALSE]
  /\ carry = FALSE
  /\ half = FALSE
  /\ decimal = NotDecimal

AluNext ==
  \/ \E r \in Operands :
       \/ Load(r) \/ pop_af(r) \/ Logic(r)
       \/ Add(r) \/ Adc(r) \/ Sub(r) \/ Sbc(r) \/ Cp(r)
       \/ Count(r) \/ Shift(r)
  \/ CountA \/ Daa \/ Cpl \/ SetCarry \/ ShiftA \/ TestBit \/ AddWords

AluSpec == AluInit /\ [][AluNext]_alu_vars

-----------------------------------------------------------------------------
AluTypeOK ==
  /\ a \in 0 .. Byte - 1
  /\ flags \in Flags
  /\ decimal \in [state : {"none", "binary", "adjusted"}, value : Int]

(* Numbers of many bytes are added and subtracted byte by byte: the carry  *)
(* the next byte starts from is that of the integers, although a loop      *)
(* loads, counts and complements between two bytes, and the code finds it  *)
(* in three ways (a wrapped sum, a comparison, the upper half of a word).  *)
CarriesAreExact == flags.c = carry /\ flags.h = half

(* Decimal numbers: when two digits each were added or subtracted, with or *)
(* without the carry of the digits before, daa leaves the two digits of    *)
(* the result and the decimal carry for the next.                          *)
DecimalArithmetic ==
  decimal.state = "adjusted" =>
    /\ a \in Decimals
    /\ Number(a) = decimal.value % 100
    /\ flags.c = (decimal.value \notin 0 .. 99)

(* Each rotation has an inverse, flags included, and swap undoes itself: a *)
(* byte and the carry are never damaged by being rotated back and forth.   *)
RotationsUndo(x, c) ==
  LET left  == rl(x, c)
      right == rr(x, c)
  IN  /\ rr(left.value, left.flags.c).value = x
      /\ rr(left.value, left.flags.c).flags.c = c
      /\ rl(right.value, right.flags.c).value = x
      /\ rl(right.value, right.flags.c).flags.c = c
      /\ rrc(rlc(x, c).value, c).value = x
      /\ rlc(rrc(x, c).value, c).value = x
      /\ swap(swap(x, c).value, c).value = x

(* Adding words is adding their bytes from the lower to the upper one: an  *)
(* add hl gives the sum and the flags of add and adc on the bytes.         *)
WordsAreBytes(hl, r16, f) ==
  LET low  == add_a(hl % Byte, r16 % Byte)
      high == adc_a(hl \div Byte, r16 \div Byte, low.flags.c)
      sum  == add_hl(hl, r16, f)
  IN  /\ sum.value = high.value * Byte + low.value
      /\ sum.flags.h = high.flags.h
      /\ sum.flags.c = high.flags.c

(* The carry that add sp finds in the lower bytes, unsigned, is the one    *)
(* its upper byte needs, although the operand is added as a signed number. *)
SignedOffsetCarries(sp, e8) ==
  LET sum == add_sp(sp, e8)
  IN  /\ sum.value % Byte = add_a(sp % Byte, e8).value
      /\ sum.value \div Byte =
           (sp \div Byte + Bit(sum.flags.c) - (IF e8 < 128 THEN 0 ELSE 1)) % Byte
==============================================================================
