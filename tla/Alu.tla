-------------------------------- MODULE Alu --------------------------------
(***************************************************************************)
(* The arithmetic of the instructions (cpu.cpp), as operators on the value *)
(* of the operand and the flags of the PSW.  A word is of WordBits bits, a *)
(* byte of half of that; the count of ASH and ASHC is scaled with the      *)
(* word, so that "32" of the code is twice a word here too.                *)
(*                                                                         *)
(* An instruction on a register sees the whole register, one on memory     *)
(* only the byte or word it names; the code has a branch for each, which   *)
(* differ in the high byte of the register only.  That a result stored in  *)
(* the PSW itself leaves the flags alone is not part of this module.       *)
(***************************************************************************)
EXTENDS Integers

CONSTANT WordBits

ASSUME WordBitsAssumption == WordBits \in {2 * n : n \in 1..8}

ByteSize == 2 ^ (WordBits \div 2)
WordSize == 2 ^ WordBits
LongSize == WordSize * WordSize
Shifts == 0 .. 4 * WordBits - 1              \* 0 .. 077 of a 16 bit word

Words == 0 .. WordSize - 1

Size(byte) == IF byte THEN ByteSize ELSE WordSize
Low(x, byte) == x % Size(byte)
High(x, byte) == IF byte THEN x - Low(x, byte) ELSE 0

\* The top bit of x, which has the given number of values.
Top(x, size) == x % size >= size \div 2
SIGN(x, byte) == Top(x, Size(byte))
IS_0(x, byte) == Low(x, byte) = 0
Bit(b) == IF b THEN 1 ELSE 0

Flags == [n : BOOLEAN, z : BOOLEAN, v : BOOLEAN, c : BOOLEAN]

\* N and Z tell of the value x, V and C are as given.
NZVC(x, byte, v, c) == [n |-> SIGN(x, byte), z |-> IS_0(x, byte), v |-> v, c |-> c]

setPSW_flags_nzv(f, x, byte) == NZVC(x, byte, FALSE, f.c)

\* The rotates and shifts set V to the exclusive or of N and C.
Rotated(x, byte, c) == NZVC(x, byte, SIGN(x, byte) # c, c)

Result(value, flags) == [value |-> value, flags |-> flags]

-----------------------------------------------------------------------------
(***************************************************************************)
(* One operand x.  The value of the destination becomes .value; TST leaves *)
(* it.                                                                     *)
(***************************************************************************)
SingleOps == {"SWAB", "CLR", "COM", "INC", "DEC", "NEG", "ADC", "SBC", "TST",
              "ROR", "ROL", "ASR", "ASL", "SXT"}
WordOnly == {"SWAB", "SXT"}

Swab(x) ==
  LET y == (x % ByteSize) * ByteSize + x \div ByteSize
  IN  Result(y, NZVC(y, TRUE, FALSE, FALSE))

Sxt(f) ==
  Result(IF f.n THEN WordSize - 1 ELSE 0, [n |-> f.n, z |-> ~f.n, v |-> FALSE, c |-> f.c])

Clr(x, byte) ==
  Result(High(x, byte), [n |-> FALSE, z |-> TRUE, v |-> FALSE, c |-> FALSE])

Com(x, byte) ==
  LET y == High(x, byte) + Size(byte) - 1 - Low(x, byte)
  IN  Result(y, NZVC(y, byte, FALSE, TRUE))

Inc(x, byte, f) ==
  LET y == High(x, byte) + Low(x + 1, byte)
  IN  Result(y, NZVC(y, byte, Low(y, byte) = Size(byte) \div 2, f.c))

Dec(x, byte, f) ==
  LET y == High(x, byte) + Low(x - 1, byte)
  IN  Result(y, NZVC(y, byte, Low(y, byte) = Size(byte) \div 2 - 1, f.c))

Neg(x, byte) ==
  LET y == High(x, byte) + Low(-x, byte)
  IN  Result(y, NZVC(y, byte, Low(y, byte) = Size(byte) \div 2, ~IS_0(y, byte)))

Adc(x, byte, f) ==
  LET y == High(x, byte) + Low(x + Bit(f.c), byte)
  IN  Result(y, NZVC(y, byte, Low(x, byte) = Size(byte) \div 2 - 1 /\ f.c,
                              Low(x, byte) = Size(byte) - 1 /\ f.c))

Sbc(x, byte, f) ==
  LET y == High(x, byte) + Low(x - Bit(f.c), byte)
  IN  Result(y, NZVC(y, byte, Low(x, byte) = Size(byte) \div 2 /\ f.c,
                              IS_0(x, byte) /\ f.c))

Tst(x, byte) == Result(x, NZVC(x, byte, FALSE, FALSE))

Ror(x, byte, f) ==
  LET y == High(x, byte) + Low(x, byte) \div 2 + Bit(f.c) * (Size(byte) \div 2)
  IN  Result(y, Rotated(y, byte, x % 2 = 1))

Rol(x, byte, f) ==
  LET y == High(x, byte) + Low(2 * x + Bit(f.c), byte)
  IN  Result(y, Rotated(y, byte, SIGN(x, byte)))

Asr(x, byte) ==
  LET y == High(x, byte) + Low(x, byte) \div 2 + Bit(SIGN(x, byte)) * (Size(byte) \div 2)
  IN  Result(y, Rotated(y, byte, x % 2 = 1))

Asl(x, byte) ==
  LET y == High(x, byte) + Low(2 * x, byte)
  IN  Result(y, Rotated(y, byte, SIGN(x, byte)))

single_operand_instructions(op, x, byte, f) ==
  CASE op = "SWAB" -> Swab(x)
    [] op = "CLR" -> Clr(x, byte)
    [] op = "COM" -> Com(x, byte)
    [] op = "INC" -> Inc(x, byte, f)
    [] op = "DEC" -> Dec(x, byte, f)
    [] op = "NEG" -> Neg(x, byte)
    [] op = "ADC" -> Adc(x, byte, f)
    [] op = "SBC" -> Sbc(x, byte, f)
    [] op = "TST" -> Tst(x, byte)
    [] op = "ROR" -> Ror(x, byte, f)
    [] op = "ROL" -> Rol(x, byte, f)
    [] op = "ASR" -> Asr(x, byte)
    [] op = "ASL" -> Asl(x, byte)
    [] op = "SXT" -> Sxt(f)

-----------------------------------------------------------------------------
(***************************************************************************)
(* Two operands: s of the source, d of the destination.  Of a byte         *)
(* instruction s has the byte only; d is the whole register where the      *)
(* destination is one.                                                     *)
(***************************************************************************)

\* MOVB to a register extends the sign.
Mov(s, byte, register, f) ==
  Result(IF byte /\ register /\ SIGN(s, TRUE) THEN s + WordSize - ByteSize ELSE s,
         setPSW_flags_nzv(f, s, byte))

Cmp(s, d, byte) ==
  LET b == Low(d, byte)
      t == Low(s - b, byte)
  IN  Result(d, NZVC(t, byte,
                  SIGN(s, byte) # SIGN(b, byte) /\ SIGN(b, byte) = SIGN(t, byte),
                  s < b))

Sub(s, d) ==
  LET t == Low(d - s, FALSE)
  IN  Result(t, NZVC(t, FALSE,
                  SIGN(d, FALSE) # SIGN(s, FALSE) /\ SIGN(s, FALSE) = SIGN(t, FALSE),
                  d < s))

Add(s, d) ==
  LET t == Low(d + s, FALSE)
  IN  Result(t, NZVC(t, FALSE,
                  SIGN(s, FALSE) = SIGN(d, FALSE) /\ SIGN(s, FALSE) # SIGN(t, FALSE),
                  t < s))

\* The four that compute with numbers.
WholeWordOps == {"ADD", "SUB"}
ArithmeticOps == {"MOV", "CMP", "ADD", "SUB"}

double_arithmetic(op, s, d, byte, register, f) ==
  CASE op = "MOV" -> Mov(s, byte, register, f)
    [] op = "CMP" -> Cmp(s, d, byte)
    [] op = "ADD" -> Add(s, d)
    [] op = "SUB" -> Sub(s, d)

\* The bits of a word, on which & is an intersection, | a union and & ~ a
\* difference; ^ takes the bits that one of its operands has.
BitOf(x, k) == (x \div 2 ^ k) % 2
Bits(x) == {k \in 0 .. WordBits - 1 : BitOf(x, k) = 1}
Number(bits) == CHOOSE x \in Words : Bits(x) = bits

LogicalOps == {"BIT", "BIC", "BIS", "XOR"}

\* stored becomes the destination's value.
Logic(y, stored, byte, f) == Result(stored, setPSW_flags_nzv(f, y, byte))

\* s is of the source, of the register for XOR
double_logical(op, s, d, byte, f) ==
  LET y == Number(CASE op = "BIT" -> Bits(Low(d, byte)) \cap Bits(s)
                    [] op = "BIC" -> Bits(d) \ Bits(s)
                    [] op = "BIS" -> Bits(d) \cup Bits(s)
                    [] op = "XOR" -> (Bits(d) \ Bits(s)) \cup (Bits(s) \ Bits(d)))
  IN  Logic(y, IF op = "BIT" THEN d ELSE y, byte, f)

-----------------------------------------------------------------------------
(***************************************************************************)
(* MUL and DIV.  hi and lo are the register and the one it makes a pair    *)
(* with; .lo replaces .hi when the register is odd.                        *)
(***************************************************************************)
Signed(x, size) == (x % size) - (IF Top(x, size) THEN size ELSE 0)
Long(hi, lo) == hi * WordSize + lo
Pair(hi, lo, flags) == [hi |-> hi, lo |-> lo, flags |-> flags]

Fits(x) == -(WordSize \div 2) <= x /\ x < WordSize \div 2

Mul(hi, x) ==
  LET p == Signed(hi, WordSize) * Signed(x, WordSize)
  IN  Pair((p % LongSize) \div WordSize, p % WordSize,
           [n |-> p < 0, z |-> p = 0, v |-> FALSE, c |-> ~Fits(p)])

\* C++ division rounds towards zero.
Abs(x) == IF x < 0 THEN -x ELSE x
Quotient(a, b) == IF (a < 0) = (b < 0) THEN Abs(a) \div Abs(b) ELSE -(Abs(a) \div Abs(b))

Div(hi, lo, x) ==
  LET a == Signed(Long(hi, lo), LongSize)
      b == Signed(x, WordSize)
      q == Quotient(a, b)
      Over(f) == Pair(hi, lo, f)
  IN  IF b = 0
        THEN Over([n |-> FALSE, z |-> TRUE, v |-> TRUE, c |-> TRUE])
      ELSE IF b = -1 /\ a = -(LongSize \div 2)
        THEN Over([n |-> FALSE, z |-> FALSE, v |-> TRUE, c |-> FALSE])
      ELSE LET f == [n |-> q < 0, z |-> q = 0, v |-> ~Fits(q), c |-> FALSE]
           IN  IF Fits(q) THEN Pair(q % WordSize, (a - q * b) % WordSize, f) ELSE Over(f)

-----------------------------------------------------------------------------
(***************************************************************************)
(* The shifts by a count.  The left shift keeps the value in a register of *)
(* the size of a long, the right shift in one twice that size.             *)
(***************************************************************************)
ShiftLeftLastSign(x, shift, size) ==         \* V from the last sign only
  LET At(i) == (x * 2 ^ i) % LongSize
  IN  [value |-> At(shift),
       c |-> Top(At(shift - 1), size),
       v |-> Top(At(shift), size) # Top(x, size)]

ShiftLeft(x, shift, size) ==
  LET At(i) == (x * 2 ^ i) % LongSize
  IN  [value |-> At(shift),
       c |-> Top(At(shift - 1), size),
       v |-> \E i \in 1..shift : Top(At(i), size) # Top(x, size)]

\* y | sign_extend: all bits from size up are set.
Extended(y, size) == (y % size) + (LongSize * LongSize - size)

ShiftRight(x, shift, size) ==
  LET sign == Top(x, size)
      Wide(y) == IF sign THEN Extended(y, size) ELSE y
      once == (Wide(x) \div 2 ^ (4 * WordBits - shift - 1)) % LongSize
      all == (Wide(once) \div 2) % LongSize
  IN  [value |-> all, c |-> once % 2 = 1, v |-> Top(all, size) # sign]

shifter(x, shift, long) ==
  LET size == IF long THEN LongSize ELSE WordSize
      sign == Top(x, size)
      r == IF shift = 0 THEN [value |-> x, c |-> FALSE, v |-> FALSE]
           ELSE IF shift < 2 * WordBits THEN ShiftLeft(x, shift, size)
           ELSE IF shift = 2 * WordBits
             THEN [value |-> IF sign THEN LongSize - 1 ELSE 0, c |-> sign, v |-> FALSE]
           ELSE ShiftRight(x, shift, size)
  IN  Result(r.value % size,
             [n |-> Top(r.value, size), z |-> r.value % size = 0, v |-> r.v, c |-> r.c])

Ash(hi, x) == shifter(hi, x % (4 * WordBits), FALSE)
Ashc(hi, lo, x) == shifter(Long(hi, lo), x % (4 * WordBits), TRUE)

-----------------------------------------------------------------------------
(***************************************************************************)
(* The conditional branches.                                               *)
(***************************************************************************)
Branches == {"BR", "BNE", "BEQ", "BGE", "BLT", "BGT", "BLE", "BPL", "BMI", "BHI",
             "BLOS", "BVC", "BVS", "BCC", "BCS"}

conditional_branch_instructions_evaluate(op, f) ==
  CASE op = "BR" -> TRUE
    [] op = "BNE" -> ~f.z
    [] op = "BEQ" -> f.z
    [] op = "BGE" -> f.n = f.v
    [] op = "BLT" -> f.n # f.v
    [] op = "BGT" -> f.n = f.v /\ ~f.z
    [] op = "BLE" -> f.n # f.v \/ f.z
    [] op = "BPL" -> ~f.n
    [] op = "BMI" -> f.n
    [] op = "BHI" -> ~f.c /\ ~f.z
    [] op = "BLOS" -> f.c \/ f.z
    [] op = "BVC" -> ~f.v
    [] op = "BVS" -> f.v
    [] op = "BCC" -> ~f.c
    [] op = "BCS" -> f.c

=============================================================================
