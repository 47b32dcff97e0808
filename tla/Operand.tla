------------------------------ MODULE Operand ------------------------------
(***************************************************************************)
(* The value of an operand by its addressing mode, three times in cpu.cpp: *)
(* getGAM, which the execution uses; addressing_to_string, which the       *)
(* disassembler shows; and peek_dst, for the durations.  The last two may  *)
(* not disturb a device: peek_word answers nothing in the I/O page.  They  *)
(* look at the instruction space only, and take the size of the operand    *)
(* from bit 15 of the instruction.                                         *)
(*                                                                         *)
(* mem has an instruction ("i") and a data ("d") space, functions of the   *)
(* even addresses to words; NoWord is where peek_word has no answer, and   *)
(* what a read that traps gives.  value is that of the register as the     *)
(* instruction begins, pc is where the extra word of the operand is.       *)
(***************************************************************************)
EXTENDS Alu, FiniteSets

CONSTANTS Places,         \* the even addresses, 0, 2, ... of a small memory
          Contents,       \* the words in it
          NoWord          \* no such place, or one in the I/O page

ASSUME PlacesAssumption == \E n \in 1..8 : Places = {2 * k : k \in 0 .. n - 1}
ASSUME ContentsAssumption == Contents \subseteq Words
ASSUME NoWordAssumption == NoWord \notin Int

d_i_spaces == {"i", "d"}
Memories == [d_i_spaces -> [Places -> Contents \cup {NoWord}]]
Pointers == 0 .. 2 * Cardinality(Places) - 1

(***************************************************************************)
(* What the operand belongs to: SUB, which is a word instruction with bit  *)
(* 15 set; MFPI, MFPD, MTPI and MTPD ("MFP"), which read and write words   *)
(* of the previous mode, here one of the two spaces; and all others.       *)
(***************************************************************************)
Forms == [name : {"other"}, bit15 : BOOLEAN, previous : {"d"}]
         \cup [name : {"SUB"}, bit15 : {TRUE}, previous : {"d"}]
         \cup [name : {"MFP"}, bit15 : BOOLEAN, previous : d_i_spaces]

\* (Rn)+ and -(Rn) of a byte move a register by one, but SP and PC.
Step(byte, reg) == IF byte /\ reg < 6 THEN 1 ELSE 2

At(words, a) == words[a % (2 * Cardinality(Places))]     \* addresses wrap around

-----------------------------------------------------------------------------
(* getGAM.                                                                 *)

\* bus::read, but for devices; a word at an odd address traps.
read(mem, space, a, byte) ==
  LET word == At(mem[space], a - (a % 2))
  IN  IF word = NoWord \/ (a % 2 = 1 /\ ~byte) THEN NoWord
      ELSE IF ~byte THEN word
      ELSE IF a % 2 = 1 THEN word \div ByteSize ELSE word % ByteSize

readVia(mem, space, pointer, byte) ==
  IF pointer = NoWord THEN NoWord ELSE read(mem, space, pointer, byte)

GamAddress(mem, byte, mode, reg, value, pc) ==
  LET r == IF reg = 7 THEN pc ELSE value
      isR7_space == IF reg = 7 THEN "i" ELSE "d"
      next_word == read(mem, "i", pc, FALSE)
      after == IF reg = 7 THEN pc + 2 ELSE value   \* x(PC): the PC has moved on
      indexed == IF next_word = NoWord THEN NoWord ELSE after + next_word
  IN  CASE mode \in {1, 2} -> r
        [] mode = 3 -> read(mem, isR7_space, r, FALSE)
        [] mode = 4 -> r - Step(byte, reg)
        [] mode = 5 -> read(mem, isR7_space, r - 2, FALSE)
        [] mode = 6 -> indexed
        [] mode = 7 -> readVia(mem, "d", indexed, FALSE)

read_space(mode, reg) == IF mode \in {1, 2, 4} /\ reg = 7 THEN "i" ELSE "d"

\* The stack pointer of the previous mode is not followed.
getGAM(mem, form, mode, reg, value, pc) ==
  LET byte == form.bit15 /\ form.name = "other"
      space == IF form.name = "MFP" THEN form.previous ELSE read_space(mode, reg)
  IN  CASE mode = 0 /\ form.name = "MFP" /\ reg = 6 -> NoWord
        [] mode = 0 /\ ~(form.name = "MFP" /\ reg = 6) ->
             (IF reg = 7 THEN pc ELSE value) % Size(byte)
        [] mode # 0 -> readVia(mem, space, GamAddress(mem, byte, mode, reg, value, pc), byte)

-----------------------------------------------------------------------------
(* What may not disturb a device.                                          *)

OrZero(v) == IF v = NoWord THEN 0 ELSE v

\* A word, also from an odd address.
peek_word(mem, a) ==
  LET word == At(mem["i"], a - (a % 2))
      behind == OrZero(At(mem["i"], a - (a % 2) + 2))
  IN  CASE word = NoWord \/ a % 2 = 0 -> word
        [] OTHER -> word \div ByteSize + ByteSize * (behind % ByteSize)

peekVia(mem, pointer) == IF pointer = NoWord THEN NoWord ELSE peek_word(mem, pointer)

Masked(v, byte) == IF v = NoWord THEN NoWord ELSE v % Size(byte)

\* Mutant: -(Rn) moves by two, whatever the size.
addressing_to_stringByTwo(mem, bit15, mode, reg, value, pc) ==
  LET next_word == peek_word(mem, pc)
      word == CASE mode = 0 -> value
                [] mode \in {1, 2} ->
                     IF mode = 2 /\ reg = 7 THEN next_word ELSE peek_word(mem, value)
                [] mode = 3 -> peekVia(mem, IF reg = 7 THEN next_word ELSE peek_word(mem, value))
                [] mode = 4 -> peek_word(mem, value - 2)
                [] mode = 5 -> peekVia(mem, peek_word(mem, value - 2))
                [] mode = 6 -> peek_word(mem, value + next_word)
                [] mode = 7 -> peekVia(mem, peek_word(mem, value + next_word))
  IN  IF next_word = NoWord THEN NoWord ELSE Masked(word, bit15)

\* It gives up when the word behind the instruction cannot be read, needed or not.
addressing_to_string(mem, bit15, mode, reg, value, pc) ==
  LET next_word == peek_word(mem, pc)
      word == CASE mode = 0 -> value
                [] mode \in {1, 2} ->
                     IF mode = 2 /\ reg = 7 THEN next_word ELSE peek_word(mem, value)
                [] mode = 3 -> peekVia(mem, IF reg = 7 THEN next_word ELSE peek_word(mem, value))
                [] mode = 4 -> peek_word(mem, value - Step(bit15, reg))
                [] mode = 5 -> peekVia(mem, peek_word(mem, value - 2))
                [] mode = 6 -> peek_word(mem, value + next_word)
                [] mode = 7 -> peekVia(mem, peek_word(mem, value + next_word))
  IN  IF next_word = NoWord THEN NoWord ELSE Masked(word, bit15)

\* peek_dst answers 0 for what it cannot read.
peek_dst(mem, bit15, mode, reg, value, pc) ==
  LET next_word == peek_word(mem, pc)
      Operand(v) == OrZero(Masked(v, bit15))
  IN  CASE next_word = NoWord -> 0
        [] next_word # NoWord /\ mode = 0 -> Operand(value)
        [] next_word # NoWord /\ mode \in {1, 2} ->
             Operand(IF mode = 2 /\ reg = 7 THEN next_word ELSE peek_word(mem, value))
        [] next_word # NoWord /\ mode = 3 ->
             Operand(peekVia(mem, IF reg = 7 THEN next_word ELSE peek_word(mem, value)))
        [] next_word # NoWord /\ mode = 4 -> Operand(peek_word(mem, value - Step(bit15, reg)))
        [] next_word # NoWord /\ mode = 5 -> Operand(peekVia(mem, peek_word(mem, value - 2)))
        [] next_word # NoWord /\ mode = 6 -> Operand(peek_word(mem, value + next_word))
        [] next_word # NoWord /\ mode = 7 ->
             Operand(peekVia(mem, peek_word(mem, value + next_word)))

=============================================================================
