--------------------------- MODULE MachineChecks ---------------------------
(***************************************************************************)
(* The arithmetic of the CPU, the decoding of instructions, their operands,*)
(* the tables of the I/O page and the snapshot of a machine (Alu, Decode,  *)
(* Operand, IoPage, Snapshot), asked for the answer to every input and     *)
(* compared with a second definition.                                      *)
(* last is what was asked last, and the answer.                            *)
(***************************************************************************)
EXTENDS Alu, Decode, Operand, IoPage

Snap == INSTANCE Snapshot

VARIABLE last

Idle == [unit |-> "idle"]

\* The flags that do not matter to an instruction: all clear, and all set.
AllFlags(state) == [n |-> state, z |-> state, v |-> state, c |-> state]
SomeFlags == {AllFlags(state) : state \in BOOLEAN}

Answer(record) == last' = record

ExecuteSingle ==
  last = Idle /\ \E op \in SingleOps, x \in Words, byte \in BOOLEAN, f \in Flags :
    /\ byte => op \notin WordOnly
    /\ Answer([unit |-> "single", op |-> op, x |-> x, byte |-> byte, f |-> f,
            r |-> single_operand_instructions(op, x, byte, f)])

\* A byte that comes from or goes to memory has nothing above it.
ExecuteDouble ==
  last = Idle /\ \E op \in ArithmeticOps, s \in Words, d \in Words, byte \in BOOLEAN, register \in BOOLEAN :
    \E f \in SomeFlags :
      /\ byte => op \notin WholeWordOps /\ s < ByteSize
      /\ byte /\ ~register => d < ByteSize
      /\ Answer([unit |-> "double", op |-> op, s |-> s, d |-> d, byte |-> byte,
              register |-> register, f |-> f,
              r |-> double_arithmetic(op, s, d, byte, register, f)])

ExecuteLogical ==
  last = Idle /\ \E op \in LogicalOps, s \in Words, d \in Words, byte \in BOOLEAN, f \in SomeFlags :
    /\ byte => op # "XOR" /\ s < ByteSize
    /\ Answer([unit |-> "logical", op |-> op, s |-> s, d |-> d, byte |-> byte, f |-> f,
               r |-> double_logical(op, s, d, byte, f)])

ExecuteMul ==
  last = Idle /\ \E hi \in Words, x \in Words :
    Answer([unit |-> "mul", hi |-> hi, x |-> x, r |-> Mul(hi, x)])

ExecuteDiv ==
  last = Idle /\ \E hi \in Words, lo \in Words, x \in Words :
    Answer([unit |-> "div", hi |-> hi, lo |-> lo, x |-> x, r |-> Div(hi, lo, x)])

ExecuteAsh ==
  last = Idle /\ \E hi \in Words, x \in Shifts :
    Answer([unit |-> "shift", v |-> hi, size |-> WordSize, x |-> x, r |-> Ash(hi, x)])

ExecuteAshc ==
  last = Idle /\ \E hi \in Words, lo \in Words, x \in Shifts :
    Answer([unit |-> "shift", v |-> Long(hi, lo), size |-> LongSize, x |-> x,
         r |-> Ashc(hi, lo, x)])

\* CMP, and then every branch
CompareAndBranch ==
  last = Idle /\ \E s \in Words, d \in Words :
    LET f == Cmp(s, d, FALSE).flags
    IN  Answer([unit |-> "branch", s |-> s, d |-> d,
             taken |-> {op \in Branches : conditional_branch_instructions_evaluate(op, f)}])

DecodeInstruction ==
  last = Idle /\ \E i \in Instructions :
    Answer([unit |-> "decode", i |-> i, does |-> Executed(i), shows |-> Shown(i),
         takes |-> ExecutedWords(i), lists |-> ShownWords(i),
         time |-> calc_instruction_duration(i, 1, 1, TRUE)])

\* The PC is at the instruction, the operand's own word behind it.
TakeOperand ==
  last = Idle /\ \E mem \in Memories, form \in Forms,
     mode \in 0..7, reg \in {0, 6, 7}, value \in Pointers, pc \in Places :
    /\ reg = 6 => value % 2 = 0
    /\ reg = 7 => value = pc - 2
    /\ Answer([unit |-> "operand", mem |-> mem, form |-> form, mode |-> mode,
            reg |-> reg, pc |-> pc,
            used |-> getGAM(mem, form, mode, reg, value, pc),
            shown |-> addressing_to_string(mem, form.bit15, mode, reg, value, pc),
            timed |-> peek_dst(mem, form.bit15, mode, reg, value, pc)])

AccessIo ==
  last = Idle /\ \E a \in Page, byte \in BOOLEAN :
    Answer([unit |-> "io", a |-> a, byte |-> byte, reads |-> read_IO(a, byte),
         writes |-> write_IO(a, byte)])

RequestProgramInterrupt ==
  last = Idle /\ \E n \in 0..127 : Answer([unit |-> "pir", value |-> 512 * n, r |-> WritePir(512 * n)])

\* Machines that main() can have made and a program has used.
Lines == [1..2 -> {"tcp-server", "tcp-client", "posix", "pst", "none"}]
Plain == Snap!configure(Snap!NewBus, <<"tcp-server", "tcp-server">>)
Cpus == [mmu_object : {0}, register : [(0..1) \X (0..1) -> Snap!Bits], sp : [0..3 -> Snap!Bits],
         state : [0..1 -> Snap!Bits], delayed_trap : {{}, {1}}, queued_interrupts : {{}, {1}},
         any_queued_interrupts : Snap!Bits]
Mmus == {Snap!NewMmu, [Snap!NewMmu EXCEPT !.errors = 1],
         [Snap!NewMmu EXCEPT !.MMR[0] = 1, !.pages[<<0, "i">>].par = 1]}
Backends == {[type |-> t, size |-> n, overlay |-> {}] : t \in {"file", "nbd"}, n \in {0, 1}}
DiskControllers == [registers : [0..1 -> Snap!Bits], position : Snap!Bits,
                    backends : {{}} \cup {{b} : b \in Backends}]
UsedPlain == [Plain EXCEPT !.memory[1] = 1, !.dc11 = 1, !.tm11 = 1, !.console_switches = 1]

Resumed(m) ==
  Answer([unit |-> "snapshot", m |-> m, b |-> Snap!deserialize(Snap!serialize(m)),
          r |-> Snap!Resume(Snap!serialize(m), Plain.dz11.channels)])

TakeSnapshot ==
  /\ last = Idle
  /\ \/ \E c \in Cpus : Resumed([UsedPlain EXCEPT !.cpu = c])
     \/ \E m \in Mmus, waiting \in Snap!Bits, registers \in [0..1 -> Snap!Bits], lines \in Lines,
          k \in [lf_csr : Snap!Bits, wall_clock : Snap!Bits] :
          Resumed([UsedPlain EXCEPT !.mmu = m, !.kw11 = k,
                     !.tty = [registers |-> registers, waiting |-> waiting],
                     !.dz11 = [registers |-> registers, channels |-> lines]])
     \/ \E rk \in DiskControllers, rl \in DiskControllers, used \in Snap!Bits :
          Resumed([UsedPlain EXCEPT !.rk05 = rk, !.rl02 = rl, !.rp06.registers[0] = used])

Forget == last # Idle /\ last' = Idle

CheckInit == last = Idle

CheckNext == \/ ExecuteSingle \/ ExecuteDouble \/ ExecuteLogical
             \/ ExecuteMul \/ ExecuteDiv \/ ExecuteAsh \/ ExecuteAshc
             \/ CompareAndBranch \/ DecodeInstruction \/ TakeOperand
             \/ AccessIo \/ RequestProgramInterrupt
             \/ TakeSnapshot
             \/ Forget

CheckSpec == CheckInit /\ [][CheckNext]_last

-----------------------------------------------------------------------------
(***************************************************************************)
(* What the arithmetic is compared with: the integers.  exact is the       *)
(* result without a limit on its size, carry the C flag it must leave.     *)
(***************************************************************************)
InRange(n, size) == -(size \div 2) <= n /\ n < size \div 2

ExactSingle(op, u, size, f) ==
  LET s == Signed(u, size)
      c == Bit(f.c)
  IN  CASE op = "CLR" -> 0
        [] op = "COM" -> -1 - s
        [] op = "INC" -> s + 1
        [] op = "DEC" -> s - 1
        [] op = "NEG" -> -s
        [] op = "ADC" -> s + c
        [] op = "SBC" -> s - c
        [] op = "TST" -> s
        [] op = "ASL" -> 2 * s
        [] op = "ROL" -> 2 * s + c
        [] op = "ASR" -> s \div 2
        [] op = "ROR" -> (u \div 2) - c * (size \div 2)
        [] op = "SXT" -> IF f.n THEN -1 ELSE 0

CarrySingle(op, u, size, f) ==
  CASE op \in {"INC", "DEC", "SXT"} -> f.c
    [] op \in {"CLR", "TST"} -> FALSE
    [] op = "COM" -> TRUE
    [] op = "NEG" -> u # 0
    [] op = "ADC" -> u + Bit(f.c) >= size
    [] op = "SBC" -> u - Bit(f.c) < 0
    [] op \in {"ASL", "ROL"} -> 2 * u >= size
    [] op \in {"ASR", "ROR"} -> u % 2 = 1

\* y, of the given size, with flags f is what exact and carry demand.
Correct(y, size, f, exact, carry) ==
  /\ y % size = exact % size
  /\ f.n = (Signed(y, size) < 0)
  /\ f.z = (y % size = 0)
  /\ f.c = carry

SingleCorrect(t) ==
  LET size == Size(t.byte)
      u == t.x % size
      exact == ExactSingle(t.op, u, size, t.f)
  IN  IF t.op = "SWAB"
      THEN /\ \A k \in 0 .. WordBits - 1 :
                BitOf(t.r.value, k) = BitOf(t.x, (k + WordBits \div 2) % WordBits)
           /\ t.r.flags = [n |-> Signed(t.r.value, ByteSize) < 0,
                           z |-> t.r.value % ByteSize = 0, v |-> FALSE, c |-> FALSE]
      ELSE /\ Correct(t.r.value, size, t.r.flags, exact, CarrySingle(t.op, u, size, t.f))
           /\ t.r.value \div size = t.x \div size
           /\ t.r.flags.v = IF t.op \in {"ASR", "ROR"} THEN t.r.flags.n # t.r.flags.c
                                                       ELSE ~InRange(exact, size)

ExactDouble(op, s, d) ==
  CASE op = "MOV" -> s
    [] op = "CMP" -> s - d
    [] op = "ADD" -> d + s
    [] op = "SUB" -> d - s

CarryDouble(op, s, d, size, f) ==
  CASE op = "MOV" -> f.c
    [] op = "CMP" -> s < d
    [] op = "ADD" -> s + d >= size
    [] op = "SUB" -> d < s

DoubleCorrect(t) ==
  LET size == Size(t.byte)
      u == t.d % size
      exact == ExactDouble(t.op, Signed(t.s, size), Signed(u, size))
      result == IF t.op = "CMP" THEN exact ELSE t.r.value
  IN  /\ Correct(result, size, t.r.flags, exact, CarryDouble(t.op, t.s, u, size, t.f))
      /\ t.r.flags.v = ~InRange(exact, size)
      /\ t.r.value = CASE t.op = "CMP" -> t.d
                       [] t.op = "MOV" /\ t.byte /\ ~t.register -> t.s
                       [] OTHER -> exact % WordSize

\* Every bit is that of the operands' bits at its place; N, Z and V tell of the
\* byte or word with these bits.
LogicBit(op, s, d) ==
  CASE op = "BIT" -> s * d
    [] op = "BIC" -> (1 - s) * d
    [] op = "BIS" -> s + d - s * d
    [] op = "XOR" -> (s + d) % 2

LogicalCorrect(t) ==
  LET Wanted(k) == LogicBit(t.op, BitOf(t.s, k), BitOf(t.d, k))
      top == (IF t.byte THEN WordBits \div 2 ELSE WordBits) - 1
  IN  /\ IF t.op = "BIT" THEN t.r.value = t.d
         ELSE t.r.value \in Words /\ \A k \in 0 .. WordBits - 1 : BitOf(t.r.value, k) = Wanted(k)
      /\ t.r.flags = [n |-> Wanted(top) = 1, z |-> \A k \in 0 .. top : Wanted(k) = 0,
                      v |-> FALSE, c |-> t.f.c]

MulCorrect(t) ==
  LET exact == Signed(t.hi, WordSize) * Signed(t.x, WordSize)
  IN  /\ Signed(Long(t.r.hi, t.r.lo), LongSize) = exact
      /\ t.r.flags = [n |-> exact < 0, z |-> exact = 0, v |-> FALSE,
                      c |-> ~InRange(exact, WordSize)]

\* The quotient q and remainder are those of a division that rounds towards
\* zero; where q has no room the registers stay and V is set.
DivCorrect(t) ==
  LET a == Signed(Long(t.hi, t.lo), LongSize)
      b == Signed(t.x, WordSize)
      q == Signed(t.r.hi, WordSize)
      rest == Signed(t.r.lo, WordSize)
      Room == \E n \in -(WordSize \div 2) .. WordSize \div 2 - 1 :
                LET r == a - n * b
                IN  Abs(r) < Abs(b) /\ (r # 0 => (r < 0) = (a < 0))
  IN  IF Room
      THEN /\ a = q * b + rest /\ Abs(rest) < Abs(b)
           /\ rest # 0 => (rest < 0) = (a < 0)
           /\ t.r.flags = [n |-> q < 0, z |-> q = 0, v |-> FALSE, c |-> FALSE]
      ELSE /\ t.r.hi = t.hi /\ t.r.lo = t.lo
           /\ t.r.flags.v /\ t.r.flags.c = (b = 0)

\* The count is a signed number: to the left, or to the right.
ShiftCorrect(t) ==
  LET count == Signed(t.x, 4 * WordBits)
      Exact(n) == IF n >= 0 THEN Signed(t.v, t.size) * 2 ^ n
                            ELSE Signed(t.v, t.size) \div 2 ^ (-n)
      lost == IF count > 0 THEN ((t.v * 2 ^ count) \div t.size) % 2
              ELSE IF count < 0 THEN Exact(count + 1) % 2 ELSE 0
  IN  /\ Correct(t.r.value, t.size, t.r.flags, Exact(count), lost = 1)
      /\ t.r.value < t.size
      /\ t.r.flags.v = \E n \in 0 .. count :
                         (Exact(n) % t.size >= t.size \div 2) # (Exact(0) < 0)

\* After CMP of s and d, the branches in taken are those whose name says so.
BranchCorrect(t) ==
  LET s == Signed(t.s, WordSize)
      d == Signed(t.d, WordSize)
      Holds == [BR |-> TRUE, BNE |-> s # d, BEQ |-> s = d, BGE |-> s >= d, BLT |-> s < d,
                BGT |-> s > d, BLE |-> s <= d, BHI |-> t.s > t.d, BLOS |-> t.s <= t.d,
                BCC |-> t.s >= t.d, BCS |-> t.s < t.d,
                BVS |-> ~InRange(s - d, WordSize), BVC |-> InRange(s - d, WordSize)]
  IN  \A op \in DOMAIN Holds : (op \in t.taken) = Holds[op]

\* Every arithmetic instruction computes what its operands mean as signed and
\* unsigned integers: N and Z tell of the result, V is set where the signed result
\* has no room and C where the unsigned one has none; MUL and DIV likewise.  BIT,
\* BIC, BIS and XOR work on every bit for itself.  ASH and ASHC multiply or divide
\* by a power of two, with C the last bit lost and V where the sign changed on the
\* way.  After CMP the branches order the operands, signed and unsigned
\* (cpu.cpp, double_operand_instructions and those it calls, shifter, and
\* conditional_branch_instructions_evaluate with the flags of CMP).
InstructionsCompute ==
  CASE last.unit = "single" -> SingleCorrect(last)
    [] last.unit = "double" -> DoubleCorrect(last)
    [] last.unit = "logical" -> LogicalCorrect(last)
    [] last.unit = "mul" -> MulCorrect(last)
    [] last.unit = "div" -> DivCorrect(last)
    [] last.unit = "shift" -> ShiftCorrect(last)
    [] last.unit = "branch" -> BranchCorrect(last)
    [] OTHER -> TRUE

-----------------------------------------------------------------------------
\* What the disassembler shows is what is executed, but it has a name as well
\* for what is not: the floating point instructions, and a jump to a register.
\* It takes the operand field of four instructions for an operand that is none,
\* and the table of durations forgets BPT, MFPD and MTPD.
NoOperand == {"SOB", "MARK", "MTPS", "MFPS"}
NoTime(i, name) == name \in {"BPT", "MTPS", "MFPS"} \/ (IsByte(i) /\ name \in {"MFP", "MTP"})
DecodersAgree ==
  last.unit = "decode" =>
    IF last.does = NoName
    THEN last.shows \in {NoName, "?"} \/ (last.shows \in {"JMP", "JSR"} /\ last.lists = 1)
    ELSE /\ last.shows = last.does
         /\ last.does \notin NoOperand => last.lists = last.takes
         /\ last.time = 0 => NoTime(last.i, last.does)

\* Where the debugger looks at another place than the instruction: at a word
\* relative to the PC; in the data space, where that is not the instruction
\* space as well (bus.cpp:938); in memory of another mode (MFPI, MFPD, MTPI, MTPD);
\* and at -(Rn) of SUB, which it takes for a byte (cpu.cpp:1800, 2248).
LooksElsewhere(t) ==
  \/ t.reg = 7 /\ t.mode \notin {2, 3}
  \/ t.mem["i"] # t.mem["d"] /\ t.mode # 0 /\ ~(t.reg = 7 /\ t.mode = 2)
  \/ t.form.name = "MFP" /\ t.mode # 0
  \/ t.form.name = "SUB" /\ t.mode = 4 /\ t.reg < 6

\* Where getGAM gets a value, the one shown is that value, or its low byte
\* where bit 15 is set: of SUB, MFPD and MTPD too, which use the whole word.  The
\* value that the duration is computed from is the one used, for the shifts, the
\* rotates and the divisions, which are the ones it is computed for.
OperandsAgree ==
  last.unit = "operand" /\ last.used # NoWord /\ peek_word(last.mem, last.pc) # NoWord
  /\ ~LooksElsewhere(last) =>
    /\ last.shown = last.used % Size(last.form.bit15)
    /\ last.form.name = "other" => last.timed = last.used

\* What the disassembler shows of an instruction is what step() executes: its
\* name, the words of the program that it takes, and the value of its operand;
\* and what is executed takes time, by which the line clock advances (disassemble,
\* addressing_to_string, calc_instruction_duration and peek_dst against
\* decode_instruction and getGAM).  The differences are those named above; and
\* the registers shown are those before the instruction, so that an operand that
\* an earlier one of the same instruction moves is not the one that is used.
DebuggerShowsWhatRuns == DecodersAgree /\ OperandsAgree

-----------------------------------------------------------------------------
\* What is only read (the maintenance, printer, MMR1 and MMR2 registers, and
\* the bytes of the registers of the CPU), and what is only written (the bytes
\* of MMR3).
OneWay(a, byte) ==
  \/ read_IO(a, byte) \in {"maint", "lp11", "mmr1", "mmr2"}
  \/ byte /\ (read_IO(a, byte) = "cpu" \/ write_IO(a, byte) = "mmr3")

\* The one word that a device answers for without a register: the DC11 has four
\* lines of four registers each, and its window goes a word further (dc11.h:19).
\* There read_word and write_word take elements behind registers, connected and
\* input_lock (dc11.cpp:178), whatever these are in the memory of the program.
NoRegister == Devices["dc11"].end - 2 .. Devices["dc11"].end - 1

IoCorrect(t) ==
  t.a % 2 = 0 =>
    /\ ~OneWay(t.a, t.byte) => t.reads = t.writes
    /\ \A d \in Attached : t.a \in Window(d) =>
         t.reads = d /\ (RegisterOf(d, t.a) < Devices[d].registers <=> t.a \notin NoRegister)

PirCorrect(t) ==
  LET set == {n \in 1..7 : BitOf(t.value, n + 8) = 1}
      highest == IF set = {} THEN 0 ELSE CHOOSE n \in set : \A k \in set : k <= n
  IN  /\ t.r \div 512 = t.value \div 512
      /\ (t.r \div 2) % 8 = highest /\ (t.r \div 32) % 8 = highest

\* An even address is answered by the same register or device whether it is
\* read or written; the window of a device is never hidden by another, and the
\* device has a register for every word of it, but for exactly one: the DC11 is
\* asked for a 17th register, which it does not have; PIR encodes the highest
\* request (bus.cpp, the two tables).
IoPageConsistent == /\ last.unit = "io" => IoCorrect(last)
                    /\ last.unit = "pir" => PirCorrect(last)

-----------------------------------------------------------------------------
\* What is left of a machine that was saved and resumed.
Kept(m) == [m EXCEPT !.cpu.queued_interrupts = {}, !.mmu = Snap!NewMmu, !.tty.waiting = 0,
                     !.rp06 = Snap!NewDisk, !.dz11 = Plain.dz11, !.dc11 = 0, !.tm11 = 0,
                     !.console_switches = 0, !.mmu_object = 1]

\* The lines of a DZ11 are the kinds that were saved, but a PSTI line.
LinesKept(saved, back) ==
  /\ back.registers = saved.registers
  /\ \A i \in 1..2 : back.channels[i] = saved.channels[i] \/ saved.channels[i] = "pst"

SnapshotCorrect(m, b, r) ==
  IF m.rk05.backends \cup m.rl02.backends # {} THEN r = Snap!Crashed
  ELSE /\ r = Kept(m)
       /\ Snap!Resume(Snap!serialize(r), Plain.dz11.channels) = r
       /\ LinesKept(m.dz11, b.dz11)

\* A machine that is resumed from its snapshot is the one that was saved, but
\* for what the snapshot leaves out (the queue of interrupts, cpu.cpp:2770, the
\* characters that wait, the pack of an RP06, the tape) and what resuming undoes
\* (the MMU, reset when it joins the bus, bus.cpp:111, and the serial lines,
\* which main() replaces).  Its CPU works on the MMU that the bus deleted
\* (cpu.cpp:23, bus.cpp:221).  Saved again it stays as it is.  With a disk in
\* an RK05 or RL02 there is no resuming.
SnapshotKeepsTheRest ==
  last.unit = "snapshot" => SnapshotCorrect(last.m, last.b, last.r)

=============================================================================
