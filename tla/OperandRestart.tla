--------------------------- MODULE OperandRestart ---------------------------
(***************************************************************************)
(* Restarting an instruction after an MMU fault.  The addressing modes     *)
(* (getGAM in cpu.cpp) move registers before the instruction is known to   *)
(* complete.  MMR1 records each move, MMR2 the address of the instruction, *)
(* so that the fault handler can undo the moves and start over.  A fault   *)
(* sets an error bit in MMR0, which locks both until the handler clears it *)
(* (mmu.cpp).                                                              *)
(*                                                                         *)
(* Register values do not matter here, only how far each has moved since   *)
(* the instruction began.  R7 as an operand register takes its place in    *)
(* MMR1, but what restores it is MMR2.                                     *)
(***************************************************************************)
EXTENDS Integers, Sequences, SequencesExt

CONSTANTS Regs,           \* the registers operands use
          Addresses       \* the addresses of the instructions

ASSUME RegsAssumption == Regs \subseteq 0..7 /\ 6 \in Regs

Modes == 0..7
SP == 6

(***************************************************************************)
(* How the instructions use their operands:                                *)
(*   "double"  CMP, BIT, BIC, BIS, ADD, SUB: read source and destination,  *)
(*             write                                                       *)
(*   "mov"     MOV, MOVB: read source, destination address, write          *)
(*   "single"  SWAB, COM ... SXT, MUL, DIV, ASH, ASHC, XOR: read           *)
(*             destination, write                                          *)
(*   "clr"     CLR: destination address, write                             *)
(*   "jmp"     JMP: destination address                                    *)
(*   "jsr"     JSR: destination address, push, record the push             *)
(*   "mfp"     MFPI, MFPD: destination address, read, push                 *)
(*   "mtp"     MTPI, MTPD: pop, destination address, write                 *)
(* Those that write nothing, such as CMP, end after the read; that step is *)
(* the write here, as it changes nothing.                                  *)
(***************************************************************************)
TwoOperands == {"double", "mov"}
StackKinds == {"jsr", "mfp", "mtp"}
Kinds == TwoOperands \cup {"single", "clr", "jmp"} \cup StackKinds

VARIABLES stage,          \* where the instruction is
          pc,             \* its address
          kind,           \* its kind, and whether it works on bytes
          bytes,
          moved,          \* [Regs -> Int]: change since the instruction began
          MMR1,           \* the recorded moves, newest first, at most two
          MMR2,
          locked,         \* isMMR1Locked(): an error bit of MMR0 is set
          fault           \* history: the instruction whose fault set the lock

restartVars == <<stage, pc, kind, bytes, moved, MMR1, MMR2, locked, fault>>
instr == <<pc, kind, bytes>>

Stages == {"idle", "fetch", "src", "src_pointer", "src_value", "dst", "dst_pointer",
           "dst_value", "pop", "push", "record", "write", "done", "aborted"}

NoMoves == [r \in Regs |-> 0]
NoFault == [kind |-> "none"]

\* What undoing the entries of MMR1 subtracts from register r.
Undone(entries, r) ==
  LET delta(n) == IF Len(entries) >= n /\ entries[n].reg = r
                  THEN entries[n].delta ELSE 0
  IN  delta(1) + delta(2)

RestartInit ==
  /\ stage = "idle"
  /\ pc \in Addresses
  /\ kind = "jmp"
  /\ bytes = FALSE
  /\ moved = NoMoves
  /\ MMR1 = <<>>
  /\ MMR2 = 0
  /\ locked = FALSE
  /\ fault = NoFault

-----------------------------------------------------------------------------
(* Registers and their record.                                             *)

\* add_to_MMR1: shift left by a byte, so the third newest entry drops out.
add_to_MMR1(r, delta) ==
  IF locked THEN MMR1
  ELSE SubSeq(<<[reg |-> r, delta |-> delta]>> \o MMR1, 1, IF MMR1 = <<>> THEN 1 ELSE 2)

Move(r, delta) == [moved EXCEPT ![r] = @ + delta]

\* The MMU sets MMR0, unless it is locked, traps and throws.
Abort ==
  /\ stage' = "aborted"
  /\ locked' = TRUE
  /\ fault' = IF locked THEN fault ELSE [kind |-> kind, pc |-> pc, moved |-> moved']

-----------------------------------------------------------------------------
(* step(): MMRStartInstruction, then the fetch.                            *)

\* Mutant: the lock is not looked at.
MMRStartUnconditional(a) == MMR1' = <<>> /\ MMR2' = a

MMRStartInstruction(a) ==
  IF locked THEN UNCHANGED <<MMR1, MMR2>> ELSE MMR1' = <<>> /\ MMR2' = a

Start(a, k, b) ==
  /\ stage = "idle"
  /\ pc' = a
  /\ kind' = k
  /\ bytes' = (b /\ k \in TwoOperands \cup {"single", "clr"})
  /\ MMRStartInstruction(a)
  /\ stage' = "fetch"
  /\ UNCHANGED <<moved, locked, fault>>

Fetch ==
  /\ stage = "fetch"
  /\ stage' = IF kind \in TwoOperands THEN "src" ELSE IF kind = "mtp" THEN "pop" ELSE "dst"
  /\ UNCHANGED <<instr, moved, MMR1, MMR2, locked, fault>>

-----------------------------------------------------------------------------
(* getGAM.                                                                 *)

\* What follows the operand: the value of a source is always read, the one
\* of a destination when read_value is set, and by MFPI and MFPD.
AfterSource == "dst"
AfterDestination ==
  CASE kind = "jmp" -> "done"
    [] kind \in {"double", "single", "mov", "clr", "mtp"} -> "write"
    [] kind \in {"jsr", "mfp"} -> "push"
After(operand) == IF operand = "src" THEN AfterSource ELSE AfterDestination
ReadsValue(operand) == operand = "src" \/ kind \in {"double", "single", "mfp"}

ValueStage(operand) ==
  IF ReadsValue(operand)
  THEN IF operand = "src" THEN "src_value" ELSE "dst_value"
  ELSE After(operand)

ByteDelta(r) == IF bytes /\ r < 6 THEN 1 ELSE 2

\* Mode 0: the register itself; JMP and JSR refuse it.  A destination is
\* written without an access that could fault.
GamRegister ==
  /\ stage = "src" \/ (stage = "dst" /\ kind \notin {"jmp", "jsr"})
  /\ stage' = IF stage = "src" THEN "dst" ELSE IF kind = "mfp" THEN "push" ELSE "done"
  /\ UNCHANGED <<instr, moved, MMR1, MMR2, locked, fault>>

\* Mode 1, and modes 6 and 7 after the fetch of the index word.
GamPlain(m) ==
  /\ stage \in {"src", "dst"}
  /\ m \in {1, 6, 7}
  /\ stage' = IF m = 7 THEN (IF stage = "src" THEN "src_pointer" ELSE "dst_pointer")
              ELSE ValueStage(stage)
  /\ UNCHANGED <<instr, moved, MMR1, MMR2, locked, fault>>

\* Modes 2 to 5: how far the register moves.
GamDelta(m, r) ==
  CASE m = 2 -> ByteDelta(r) [] m = 3 -> 2 [] m = 4 -> -ByteDelta(r) [] m = 5 -> -2

\* Modes 2, 3 (after the read of the pointer), 4 and 5 move and record.
GamMoves(m, r) ==
  /\ stage \in {"src", "dst"}
  /\ m \in 2..5
  /\ moved' = Move(r, GamDelta(m, r))
  /\ MMR1' = add_to_MMR1(r, GamDelta(m, r))
  /\ stage' = IF m = 5 THEN (IF stage = "src" THEN "src_pointer" ELSE "dst_pointer")
              ELSE ValueStage(stage)
  /\ UNCHANGED <<instr, MMR2, locked, fault>>

\* The pointer of modes 5 and 7 is read after the register moved.
GamPointer ==
  /\ stage \in {"src_pointer", "dst_pointer"}
  /\ stage' = ValueStage(IF stage = "src_pointer" THEN "src" ELSE "dst")
  /\ UNCHANGED <<instr, moved, MMR1, MMR2, locked, fault>>

GamValue ==
  /\ stage \in {"src_value", "dst_value"}
  /\ stage' = After(IF stage = "src_value" THEN "src" ELSE "dst")
  /\ UNCHANGED <<instr, moved, MMR1, MMR2, locked, fault>>

-----------------------------------------------------------------------------
(* The rest of the instruction.                                            *)

\* putGAM, put_result.
Write ==
  /\ stage = "write"
  /\ stage' = "done"
  /\ UNCHANGED <<instr, moved, MMR1, MMR2, locked, fault>>

\* push_stack moves the stack pointer before it writes.
Push ==
  /\ stage = "push"
  /\ moved' = Move(SP, -2)
  /\ stage' = IF kind = "jsr" THEN "record" ELSE "done"
  /\ UNCHANGED <<instr, MMR1, MMR2, locked, fault>>

PushFaults ==
  /\ stage = "push"
  /\ moved' = Move(SP, -2)
  /\ MMR1' = MMR1
  /\ Abort
  /\ UNCHANGED <<instr, MMR2>>

\* JSR records its push once the push is done.
RecordPush ==
  /\ stage = "record"
  /\ MMR1' = add_to_MMR1(SP, -2)
  /\ stage' = "done"
  /\ UNCHANGED <<instr, moved, MMR2, locked, fault>>

\* pop_stack moves the stack pointer after it read.
Pop ==
  /\ stage = "pop"
  /\ moved' = Move(SP, 2)
  /\ stage' = "dst"
  /\ UNCHANGED <<instr, MMR1, MMR2, locked, fault>>

\* An access faults: the fetch, a pointer, an index word, a value, a pop, a
\* write.  Mode 3 reads its pointer and modes 6 and 7 their index word before
\* anything moves.
AccessFaults ==
  /\ stage \in {"fetch", "src", "src_pointer", "src_value", "dst", "dst_pointer",
                "dst_value", "pop", "write"}
  /\ moved' = moved
  /\ MMR1' = MMR1
  /\ Abort
  /\ UNCHANGED <<instr, MMR2>>

\* An access to an odd address throws, without a trap.
OddAddress ==
  /\ stage \in {"src", "src_pointer", "src_value", "dst", "dst_pointer", "dst_value",
                "pop", "push", "write"}
  /\ stage' = "done"
  /\ UNCHANGED <<instr, moved, MMR1, MMR2, locked, fault>>

\* The instruction is complete, or the trap(0250) that ended it is.
Retire ==
  /\ stage \in {"done", "aborted"}
  /\ stage' = "idle"
  /\ kind' = "jmp" /\ bytes' = FALSE /\ moved' = NoMoves
  /\ UNCHANGED <<pc, MMR1, MMR2, locked, fault>>

\* The program writes MMR0, which always takes the error bits away.
ClearErrors ==
  /\ stage = "idle" /\ locked
  /\ locked' = FALSE
  /\ UNCHANGED <<stage, instr, moved, MMR1, MMR2, fault>>

\* It may also set them, when it leaves the MMU off.
SetErrors ==
  /\ stage = "idle" /\ ~locked
  /\ locked' = TRUE
  /\ fault' = NoFault
  /\ UNCHANGED <<stage, instr, moved, MMR1, MMR2>>

\* RESET in kernel mode: mmu::reset(true).
ResetMmu ==
  /\ stage = "idle"
  /\ MMR1' = <<>>
  /\ MMR2' = 0
  /\ locked' = FALSE
  /\ UNCHANGED <<stage, instr, moved, fault>>

-----------------------------------------------------------------------------
RestartNext ==
  \/ \E a \in Addresses, k \in Kinds, b \in BOOLEAN : Start(a, k, b)
  \/ Fetch
  \/ GamRegister
  \/ \E m \in {1, 6, 7} : GamPlain(m)
  \/ \E m \in 2..5, r \in Regs : GamMoves(m, r)
  \/ GamPointer \/ GamValue \/ Write \/ Push \/ PushFaults \/ RecordPush \/ Pop
  \/ AccessFaults \/ OddAddress \/ Retire \/ ClearErrors \/ SetErrors
  \/ ResetMmu

RestartSpec == RestartInit /\ [][RestartNext]_restartVars

-----------------------------------------------------------------------------
MovedEntry == [reg : Regs, delta : {-2, -1, 1, 2}]

RestartTypeOK ==
  /\ stage \in Stages
  /\ pc \in Addresses
  /\ kind \in Kinds
  /\ bytes \in BOOLEAN
  /\ moved \in [Regs -> -4..4]
  /\ MMR1 \in Seq(MovedEntry) /\ Len(MMR1) <= 2
  /\ MMR2 \in Addresses \cup {0}
  /\ locked \in BOOLEAN
  /\ fault = NoFault \/ fault \in [kind : Kinds, pc : Addresses, moved : [Regs -> -4..4]]

(***************************************************************************)
(* An instruction that does not use the stack can be restarted wherever it *)
(* faults, and as long as the handler needs: until the error bits are      *)
(* cleared, however many instructions run and fault again in between, MMR2 *)
(* is the address of the instruction whose fault set them, and undoing     *)
(* MMR1 gives the registers it began with.  JSR, MFPI, MFPD, MTPI and MTPD *)
(* are excepted: push_stack and pop_stack move the stack pointer without a *)
(* record (cpu.cpp:1478, 1487); JSR's comes after its push (1600).         *)
(***************************************************************************)
Restartable ==
  locked /\ fault # NoFault /\ fault.kind \notin StackKinds =>
    /\ MMR2 = fault.pc
    /\ \A r \in Regs \ {7} : fault.moved[r] = Undone(MMR1, r)
=============================================================================
