------------------------------- MODULE Decode -------------------------------
(***************************************************************************)
(* The three places of cpu.cpp that take an instruction word apart on      *)
(* their own: the execution (double_operand_instructions and what step()   *)
(* tries after it), the disassembler, and the table of durations.          *)
(***************************************************************************)
EXTENDS Integers, Sequences

Instructions == 0 .. 65535

Operation(i) == (i \div 4096) % 8            \* bits 12..14
IsByte(i) == i >= 32768
Opcode(i) == (i \div 64) % 64                \* of the one operand instructions
Eis(i) == (i \div 512) % 8                   \* of the register instructions
Src(i) == (i \div 64) % 64
Dst(i) == i % 64
Mode(field) == field \div 8
Reg(field) == field % 8

\* A table is a function; what it does not list is no instruction.
NoName == "none"
Look(table, i) == IF i \in DOMAIN table THEN table[i] ELSE NoName

\* Entries are pairs of a set of codes and what the codes stand for.
Table(entries) ==
  [i \in UNION {e[1] : e \in entries} |-> (CHOOSE e \in entries : i \in e[1])[2]]

DoubleNames == <<"MOV", "CMP", "BIT", "BIC", "BIS">>

SingleNames == Table({<<{\o50}, "CLR">>, <<{\o51}, "COM">>, <<{\o52}, "INC">>,
  <<{\o53}, "DEC">>, <<{\o54}, "NEG">>, <<{\o55}, "ADC">>, <<{\o56}, "SBC">>,
  <<{\o57}, "TST">>, <<{\o60}, "ROR">>, <<{\o61}, "ROL">>, <<{\o62}, "ASR">>,
  <<{\o63}, "ASL">>, <<{\o65}, "MFP">>, <<{\o66}, "MTP">>})

EisNames == Table({<<{0}, "MUL">>, <<{1}, "DIV">>, <<{2}, "ASH">>, <<{3}, "ASHC">>,
  <<{4}, "XOR">>, <<{7}, "SOB">>})

BranchNames == Table({<<{1}, "BR">>, <<{2}, "BNE">>, <<{3}, "BEQ">>, <<{4}, "BGE">>,
  <<{5}, "BLT">>, <<{6}, "BGT">>, <<{7}, "BLE">>, <<{128}, "BPL">>, <<{129}, "BMI">>,
  <<{130}, "BHI">>, <<{131}, "BLOS">>, <<{132}, "BVC">>, <<{133}, "BVS">>,
  <<{134}, "BCC">>, <<{135}, "BCS">>})

MiscNames == Table({<<{0}, "HALT">>, <<{1}, "WAIT">>, <<{2}, "RTI">>, <<{3}, "BPT">>,
  <<{4}, "IOT">>, <<{5}, "RESET">>, <<{6}, "RTT">>, <<{7}, "MFPT">>,
  <<\o200 .. \o207, "RTS">>, <<\o230 .. \o237, "SPL">>,
  <<{\o240, \o260}, "NOP">>, <<\o241 .. \o257 \cup \o261 .. \o277, "CC">>})

\* EMT and TRAP take the low byte as they like.
CallNames == Table({<<{\o210}, "EMT">>, <<{\o211}, "TRAP">>})

Branch(i) == Look(BranchNames, i \div 256)
Call(i) == Look(CallNames, i \div 256)
Misc(i) == Look(MiscNames, i)
Jump(i) == IF i \div 64 = 1 THEN "JMP" ELSE IF i \div 512 = 4 THEN "JSR" ELSE NoName

\* The first of a sequence of names that is one.
FirstName(names) ==
  IF \E n \in DOMAIN names : names[n] # NoName
  THEN names[CHOOSE n \in DOMAIN names :
               names[n] # NoName /\ \A k \in 1 .. n - 1 : names[k] = NoName]
  ELSE NoName

-----------------------------------------------------------------------------
(***************************************************************************)
(* Execution.  NoName is the reserved instruction, trap 010.  MTPS, MFPS   *)
(* and MFPT trap there as well, but after they are recognised.             *)
(***************************************************************************)
ExecSingle(i) ==
  CASE Opcode(i) = 3 -> IF IsByte(i) THEN NoName ELSE "SWAB"
    [] Opcode(i) = \o64 -> IF IsByte(i) THEN "MTPS" ELSE "MARK"
    [] Opcode(i) = \o67 -> IF IsByte(i) THEN "MFPS" ELSE "SXT"
    [] OTHER -> Look(SingleNames, Opcode(i))

ExecDouble(i) ==
  CASE Operation(i) = 0 -> ExecSingle(i)
    [] Operation(i) = 6 -> IF IsByte(i) THEN "SUB" ELSE "ADD"
    [] Operation(i) = 7 -> IF IsByte(i) THEN NoName ELSE Look(EisNames, Eis(i))
    [] OTHER -> DoubleNames[Operation(i)]

\* One cannot jump to a register.
ExecJump(i) == IF Mode(Dst(i)) = 0 THEN NoName ELSE Jump(i)

Executed(i) == FirstName(<<ExecDouble(i), Branch(i), Misc(i), Call(i), ExecJump(i)>>)

\* The words after the first that an operand takes from the program.
OperandWords(field) ==
  IF Mode(field) \in {6, 7} \/ (Mode(field) \in {2, 3} /\ Reg(field) = 7) THEN 1 ELSE 0

TwoFields(i) == Operation(i) \in 1..6

\* Whether the destination field is an operand, not a count or part of the code.
HasOperand(i, name) ==
  \/ Operation(i) = 7 /\ name # "SOB"
  \/ name \in {"SWAB", "SXT", "JMP", "JSR"}
  \/ \E n \in DOMAIN SingleNames : name = SingleNames[n]

ExecutedWords(i) ==
  LET name == Executed(i)
  IN  IF name = NoName THEN 1
      ELSE IF TwoFields(i) THEN 1 + OperandWords(Src(i)) + OperandWords(Dst(i))
      ELSE IF HasOperand(i, name) THEN 1 + OperandWords(Dst(i))
      ELSE 1

-----------------------------------------------------------------------------
(***************************************************************************)
(* The disassembler.  It names the floating point instructions "?".        *)
(***************************************************************************)
ShownSingle(i) ==
  CASE Opcode(i) = 3 -> IF IsByte(i) THEN NoName ELSE "SWAB"
    [] Opcode(i) = \o64 -> IF IsByte(i) THEN "MTPS" ELSE "MARK"
    [] Opcode(i) = \o67 -> IF IsByte(i) THEN "MFPS" ELSE "SXT"
    [] OTHER -> Look(SingleNames, Opcode(i))

ShownDouble(i) ==
  CASE Operation(i) = 0 -> ShownSingle(i)
    [] Operation(i) = 6 -> IF IsByte(i) THEN "SUB" ELSE "ADD"
    [] Operation(i) = 7 -> IF IsByte(i) THEN "?" ELSE Look(EisNames, Eis(i))
    [] OTHER -> DoubleNames[Operation(i)]

Shown(i) == FirstName(<<ShownDouble(i), Branch(i), Misc(i), Call(i), Jump(i)>>)

\* The words it lists: it takes the low six bits of everything but the
\* branches and the miscellaneous instructions for an operand.
ShownWords(i) ==
  IF TwoFields(i) THEN 1 + OperandWords(Src(i)) + OperandWords(Dst(i))
  ELSE IF ShownDouble(i) \notin {NoName, "?"} THEN 1 + OperandWords(Dst(i))
  ELSE IF Shown(i) \in {"JMP", "JSR"} THEN 1 + OperandWords(Dst(i))
  ELSE 1

-----------------------------------------------------------------------------
(***************************************************************************)
(* The duration in ns.  w is the value of the destination operand          *)
(* (peek_dst), reg that of the register, taken whether the branch branches.*)
(***************************************************************************)
ByMode(times, mode) == times[mode + 1]
SrcDstTime(mode) == ByMode(<<0, 300, 300, 750, 450, 900, 600, 1050>>, mode)
MtpTime(mode) == ByMode(<<900, 1650, 1650, 2100, 1800, 2250, 2100, 2550>>, mode)
JmpTime(mode) == ByMode(<<0, 1950, 1950, 2250, 1950, 2400, 2100, 2550>>, mode)

BranchTime(i, taken) == IF Branch(i) = NoName THEN 0 ELSE IF taken THEN 600 ELSE 300

\* The columns of a double operand instruction (timings_double_operand).
timings_double_operand(col0, col1, col2, col2c, src, dst, dst_reg) ==
  IF dst = 0
  THEN (IF src = 0 THEN col0 ELSE col1) + (IF dst_reg = 7 THEN 300 ELSE 0)
  ELSE col2 + (IF src # 0 /\ dst >= 6 THEN col2c ELSE 0)

MiscTime(i) ==
  Look(Table({<<{0}, 1050>>, <<{1}, 450>>, <<{2, 6, 7}, 1500>>, <<{5}, 10000000>>,
              <<{4}, 3300>>, <<{3} \cup 8..63, 0>>}), i)

PcTime(i) == IF Mode(Dst(i)) = 0 /\ Reg(Dst(i)) = 7 THEN 300 ELSE 0
ToRegister(i, yes, no) == IF Mode(Dst(i)) = 0 THEN yes ELSE no

\* Shared by the word and the byte forms.
SingleTime(i, w) ==
  CASE Opcode(i) = \o54 -> ToRegister(i, 750, 1500)
    [] Opcode(i) \in {\o50, \o51, \o52, \o53, \o55, \o56, \o61, \o63}
         -> ToRegister(i, 300, 1200) + PcTime(i)
    [] Opcode(i) = \o57 -> ToRegister(i, 300, 450) + PcTime(i)
    [] Opcode(i) \in {\o60, \o62}
         -> ToRegister(i, 300, 1200) + PcTime(i) + (IF w % 2 = 1 THEN 150 ELSE 0)
    [] OTHER -> 0

Group0Time(i, w, taken) ==
  CASE Opcode(i) = 0 -> MiscTime(i)
    [] Opcode(i) = 1 \/ Opcode(i) \in \o40 .. \o47 -> JmpTime(Mode(Dst(i)))
    [] Opcode(i) = 2 -> 1050
    [] Opcode(i) \in {3, \o67} -> ToRegister(i, 300, 1200) + PcTime(i)
    [] Opcode(i) = \o64 -> 900
    [] Opcode(i) = \o65 -> 1500
    [] Opcode(i) = \o66 -> MtpTime(Mode(Dst(i)))
    [] Opcode(i) \in \o50 .. \o63 -> SingleTime(i, w)
    [] OTHER -> BranchTime(i, taken)

Group10Time(i, w, taken) ==
  IF Branch(i) # NoName THEN BranchTime(i, taken)
  ELSE IF Opcode(i) \in \o40 .. \o43 THEN 3300
  ELSE IF Opcode(i) \in \o44 .. \o47 THEN 600
  ELSE SingleTime(i, w)

MovTime(i) ==
  LET src == Mode(Src(i))
      dst == Mode(Dst(i))
  IN  IF dst = 0
      THEN IF Reg(Dst(i)) = 7 THEN (IF src = 0 THEN 300 ELSE 450)
                              ELSE (IF src = 0 THEN 600 ELSE 750)
      ELSE ByMode(<<0, 1200, 1200, 1650, 1350, 1800, 1500, 1950>>, dst)
             + (IF dst >= 6 /\ src # 0 THEN 150 ELSE 0)

DoubleTime(i) ==
  LET src == Mode(Src(i))
      dst == Mode(Dst(i))
      Ef(col2) == timings_double_operand(300, 450, col2, 150, src, dst, Reg(Dst(i)))
  IN  SrcDstTime(src) +
      (IF Operation(i) = 1 /\ ~IsByte(i) THEN MovTime(i)
       ELSE SrcDstTime(dst) + Ef(IF Operation(i) \in {2, 3} THEN 450 ELSE 1200))

EisTime(i, w, reg) ==
  LET dst == Mode(Dst(i))
  IN  CASE Eis(i) = 0 -> 3300 + SrcDstTime(Eis(i))
        [] Eis(i) = 1 -> IF w = 0 THEN 900 ELSE 7050 + (w * 150) \div 65535
        [] Eis(i) \in {2, 3} -> SrcDstTime(dst) + ToRegister(i, 750, 900) + 150 * (w % 64)
        [] Eis(i) = 4 -> timings_double_operand(300, 300, 1200, 0, Eis(i), dst, Reg(Dst(i)))
                           + SrcDstTime(Eis(i)) + SrcDstTime(dst)
        [] Eis(i) = 7 -> IF reg >= 1 THEN 600 ELSE 750
        [] OTHER -> 0

calc_instruction_duration(i, w, reg, taken) ==
  CASE Operation(i) \in 1..6 -> DoubleTime(i)
    [] Operation(i) = 7 -> IF IsByte(i) THEN 0 ELSE EisTime(i, w, reg)
    [] OTHER -> IF IsByte(i) THEN Group10Time(i, w, taken) ELSE Group0Time(i, w, taken)

=============================================================================
