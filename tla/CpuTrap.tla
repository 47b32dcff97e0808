------------------------------ MODULE CpuTrap ------------------------------
(***************************************************************************)
(* Traps, interrupts and the kernel stack of class cpu (cpu.cpp): trap(),  *)
(* push_stack(), pop_stack(), RTI/RTT, setPSW() and the way step() reaches *)
(* them.  trap() is re-entered while it runs: its vector fetch and its     *)
(* pushes go through the MMU, which calls trap(0250) and throws, and a     *)
(* push below the stack limit calls trap(04).  frames is the C++ call      *)
(* stack of those activations; a C++ exception is the unwinding of it.     *)
(*                                                                         *)
(* Addresses are data: the first page holds the vectors and the emergency  *)
(* stack at 4, the next one the kernel stack.  The PSW of every vector     *)
(* selects kernel mode, as operating systems set them up.                  *)
(***************************************************************************)
EXTENDS Integers, Sequences, SequencesExt

CONSTANTS Vectors,        \* trap and interrupt vectors in use
          VectorIpl,      \* [Vectors -> 0..7]: priority in each vector's PSW
          Requests,       \* <<level, vector>> pairs of the interrupts
          StackPage,      \* first address of the kernel stack's page
          StackTop,       \* kernel stack pointer the program starts with
          DefaultLimit,   \* 0400: the limit when the register is 0
          YellowBytes,    \* 32: bytes of yellow zone below the limit
          Limits,         \* values the program stores in the limit register
          Mappings        \* sets of unmapped pages the program sets up

AddressSpace == 65536         \* addresses have 16 bits

ASSUME VectorsAssumption ==
  /\ Vectors \subseteq Nat \ {0}
  /\ {4, 8, 168} \subseteq Vectors             \* 04, 010, 0250
  /\ VectorIpl \in [Vectors -> 0..7]
  /\ Requests \subseteq (1..7) \X Vectors
ASSUME StackAssumption ==
  /\ StackTop \in 0..(AddressSpace - 1) /\ StackPage \in Nat
  /\ 4 <= StackPage /\ StackPage <= StackTop
  /\ DefaultLimit \in Nat /\ YellowBytes \in Nat
  /\ Limits \subseteq Nat
  /\ Mappings \subseteq SUBSET {"vectors", "stack"}
\* bus.cpp keeps only the high byte of the register, so every limit leaves
\* the emergency stack at 4 in the red zone.
ASSUME LimitsAssumption ==
  \A l \in (Limits \ {0}) \cup {DefaultLimit} : l - YellowBytes > 4

Kernel == 0
User == 3
Modes == {Kernel, User}
\* trap() halts at a depth of 3 and tells no higher depths apart, the 127 of
\* a push in the red zone included.
Fatal == 3
NoIpl == -1                   \* new_ipl default: take the vector's priority

Psw == [mode : Modes, prev : Modes, ipl : 0..7]

\* Program counters: the program proper, or the entry of a handler.
Program == 0
Pcs == {Program} \cup Vectors

Junk == [kind |-> "junk"]
PcCell(v) == [kind |-> "pc", value |-> v]
PswCell(v) == [kind |-> "psw", value |-> v]

VARIABLES psw, pc,
          sp,             \* kernel stack pointer
          stack,          \* the words the kernel stack can reach
          slr,            \* stack_limit_register
          depth,          \* processing_trap_depth, up to Fatal
          delayed,        \* delayed_trap.has_value()
          event,          \* "none" or "halt"
          unmapped,       \* pages whose access faults: "vectors", "stack"
          at,             \* "boundary", "scan", "instruction": where step()
                          \* is; "trap": in the innermost trap() of frames
          frames,         \* activations of trap(), innermost last
          origin,         \* history: run mode in which the instruction began
          red,            \* history: this step() pushed in the red zone
          clean           \* history: contexts that trap() saved on the stack,
                          \* innermost last

machine == <<psw, pc, sp, stack, slr, depth, delayed, event, unmapped>>
vars == <<machine, at, frames, origin, red, clean>>

Words == {a \in 0..StackTop : a % 2 = 0}

(***************************************************************************)
(* What the caller of trap() does when it returns: nothing more, throw     *)
(* (the MMU), set depth to Fatal (push_stack in the red zone), or go on with *)
(* step() ("interrupt", "delayed").  step says where the activation is.    *)
(***************************************************************************)
Callers == {"return", "throw", "red", "interrupt", "delayed"}
Steps == {"enter", "fetch", "push_psw", "push_pc", "recover", "leave", "catch"}

CallTrap(v, ipl, caller) ==
  [vector |-> v, ipl |-> ipl, caller |-> caller, step |-> "enter",
   psw |-> psw, pc |-> pc, prev_sp |-> sp, another |-> FALSE]

Top == Last(frames)
SetTop(f) == Append(Front(frames), f)
\* The innermost activation causes another trap.
Nest(f) == Append(SetTop([Top EXCEPT !.another = TRUE]), f)

use_limit == IF slr = 0 THEN DefaultLimit ELSE slr
InYellow(a) == a < use_limit /\ a >= use_limit - YellowBytes
InRed(a) == a < use_limit - YellowBytes

\* add_register(6, -2), on 16 bits
Down(a) == (a - 2) % AddressSpace

Unmapped(a) == (IF a < StackPage THEN "vectors" ELSE "stack") \in unmapped
Odd(a) == a % 2 = 1

\* write_word; the words no modelled stack pointer reaches are not kept.
Store(a, cell) == IF a \in Words THEN [stack EXCEPT ![a] = cell] ELSE stack

\* The words below the stack pointer a are dead.
Live(a) == [w \in Words |-> IF w < a THEN Junk ELSE stack[w]]

Init ==
  /\ psw = [mode |-> Kernel, prev |-> Kernel, ipl |-> 0]
  /\ pc = Program
  /\ sp = StackTop
  /\ stack = [a \in Words |-> Junk]
  /\ slr = DefaultLimit
  /\ depth = 0
  /\ delayed = FALSE
  /\ event = "none"
  /\ unmapped = {}
  /\ at = "boundary"
  /\ frames = <<>>
  /\ origin = Kernel
  /\ red = FALSE
  /\ clean = <<>>

-----------------------------------------------------------------------------
(* step(): a delayed trap and an interrupt come before the instruction.    *)

Begin(f) == frames' = <<f>> /\ at' = "trap"

StepDelayed ==
  /\ at = "boundary" /\ event = "none" /\ delayed
  /\ Begin(CallTrap(4, 7, "delayed"))
  /\ red' = FALSE
  /\ UNCHANGED <<machine, origin, clean>>

StepNotDelayed ==
  /\ at = "boundary" /\ event = "none" /\ ~delayed
  /\ at' = "scan"
  /\ red' = FALSE
  /\ UNCHANGED <<machine, frames, origin, clean>>

StepInterrupt(l, v) ==
  /\ at = "scan" /\ l > psw.ipl
  /\ Begin(CallTrap(v, l, "interrupt"))
  /\ UNCHANGED <<machine, origin, red, clean>>

StepInstruction ==
  /\ at = "scan"
  /\ at' = "instruction"
  /\ origin' = psw.mode
  /\ UNCHANGED <<machine, frames, red, clean>>

-----------------------------------------------------------------------------
(* trap().                                                                 *)

\* Where step() goes on after a trap that it or its instruction caused.
Resumes(caller) == CASE caller = "delayed" -> "scan"
                     [] caller = "interrupt" -> "instruction"
                     [] OTHER -> "boundary"

\* trap() returns with processing_trap_depth = d and the caller goes on: in
\* the activation that caused this one, in step(), or at the next step().
Return(d) ==
  LET rest == Front(frames)
      after == IF Top.caller = "red"
               THEN IF Last(rest).step = "push_psw" THEN "push_pc" ELSE "leave"
               ELSE IF Last(rest).step = "fetch" THEN "catch" ELSE "recover"
  IN  /\ depth' = IF Top.caller = "red" THEN Fatal ELSE d
      /\ frames' = IF rest = <<>> THEN <<>>
                   ELSE [rest EXCEPT ![Len(rest)].step = after]
      /\ at' = IF rest # <<>> THEN "trap" ELSE Resumes(Top.caller)
      /\ delayed' = IF Top.caller = "delayed" THEN FALSE ELSE delayed
      /\ origin' = IF Top.caller = "interrupt" THEN psw'.mode ELSE origin

\* Mutant: trap() gives up one level later.
GivesUpLate == depth >= Fatal

GivesUp == depth + 1 >= Fatal

\* Mutant: EVENT_HALT is not raised.
TrapHaltsSilently ==
  /\ at = "trap" /\ Top.step = "enter" /\ GivesUp
  /\ event' = event
  /\ psw' = psw
  /\ Return(Fatal)
  /\ UNCHANGED <<pc, sp, stack, slr, unmapped, red, clean>>

\* A third trap in a row: EVENT_HALT and break.
TrapHalts ==
  /\ at = "trap" /\ Top.step = "enter" /\ GivesUp
  /\ event' = "halt"
  /\ psw' = psw
  /\ Return(Fatal)
  /\ UNCHANGED <<pc, sp, stack, slr, unmapped, red, clean>>

\* Otherwise a second one goes through vector 4 on the emergency stack.
TrapEnter ==
  LET double == depth + 1 >= 2 /\ psw.mode = Kernel
  IN  /\ at = "trap" /\ Top.step = "enter" /\ ~GivesUp
      /\ depth' = depth + 1
      /\ frames' = SetTop([Top EXCEPT !.vector = IF double THEN 4 ELSE @,
                                      !.psw = psw, !.pc = pc, !.step = "fetch"])
      /\ psw' = [psw EXCEPT !.mode = Kernel]
      /\ sp' = IF double THEN 4 ELSE sp
      /\ clean' = IF double THEN <<>> ELSE clean
      /\ UNCHANGED <<pc, stack, slr, delayed, event, unmapped, at, origin, red>>

NewIpl(f) == IF f.ipl = NoIpl THEN VectorIpl[f.vector] ELSE f.ipl

\* The new PC and PSW; 'previous mode' comes from the interrupted PSW.
TrapFetch ==
  /\ at = "trap" /\ Top.step = "fetch" /\ "vectors" \notin unmapped
  /\ pc' = Top.vector
  /\ psw' = [mode |-> Kernel, prev |-> Top.psw.mode,
             ipl |-> NewIpl(Top)]
  /\ frames' = SetTop([Top EXCEPT !.prev_sp = sp, !.step = "push_psw"])
  /\ UNCHANGED <<sp, stack, slr, depth, delayed, event, unmapped, at, origin, red, clean>>

TrapFetchFaults ==
  /\ at = "trap" /\ Top.step = "fetch" /\ "vectors" \in unmapped
  /\ frames' = Nest(CallTrap(168, NoIpl, "throw"))
  /\ UNCHANGED <<machine, at, origin, red, clean>>

\* Mutant: PC is pushed before PSW.
SavedSwapped(f) == IF f.step = "push_psw" THEN PcCell(f.pc) ELSE PswCell(f.psw)

\* PSW is pushed before PC.
Saved(f) == IF f.step = "push_psw" THEN PswCell(f.psw) ELSE PcCell(f.pc)

\* push_stack(before_psw), push_stack(before_pc): the write succeeds ...
TrapPush ==
  /\ at = "trap" /\ Top.step \in {"push_psw", "push_pc"} /\ ~InRed(sp)
  /\ ~Unmapped(Down(sp)) /\ ~Odd(sp)
  /\ sp' = Down(sp)
  /\ stack' = Store(Down(sp), Saved(Top))
  /\ delayed' = (delayed \/ InYellow(sp))
  /\ frames' = SetTop([Top EXCEPT !.step =
                         IF @ = "push_psw" THEN "push_pc" ELSE "leave"])
  /\ clean' = IF Top.step = "push_pc" /\ ~Top.another
              THEN Append(clean, [psw |-> Top.psw, pc |-> Top.pc, sp |-> Top.prev_sp])
              ELSE clean
  /\ UNCHANGED <<psw, pc, slr, depth, event, unmapped, at, origin, red>>

\* ... or the MMU traps and throws, or the odd address throws without a trap.
TrapPushFaults ==
  /\ at = "trap" /\ Top.step \in {"push_psw", "push_pc"} /\ ~InRed(sp)
  /\ Unmapped(Down(sp)) \/ Odd(sp)
  /\ sp' = Down(sp)
  /\ frames' = IF Unmapped(Down(sp)) THEN Nest(CallTrap(168, NoIpl, "throw"))
               ELSE SetTop([Top EXCEPT !.step = "recover"])
  /\ UNCHANGED <<psw, pc, stack, slr, depth, delayed, event, unmapped, at, origin, red, clean>>

TrapPushRed ==
  /\ at = "trap" /\ Top.step \in {"push_psw", "push_pc"} /\ InRed(sp)
  /\ sp' = 4
  /\ clean' = <<>>
  /\ red' = TRUE
  /\ frames' = Nest(CallTrap(4, 7, "red"))
  /\ UNCHANGED <<psw, pc, stack, slr, depth, delayed, event, unmapped, at, origin>>

\* catch around the pushes: "recover stack".
TrapRecover ==
  /\ at = "trap" /\ Top.step = "recover"
  /\ sp' = Top.prev_sp
  /\ stack' = Live(Top.prev_sp)
  /\ frames' = SetTop([Top EXCEPT !.step = "leave"])
  /\ clean' = <<>>
  /\ UNCHANGED <<psw, pc, slr, depth, delayed, event, unmapped, at, origin, red>>

\* Mutant: processing_trap_depth is not cleared.
TrapLeaveKeepsDepth ==
  /\ at = "trap" /\ Top.step = "leave"
  /\ psw' = psw
  /\ Return(depth)
  /\ UNCHANGED <<pc, sp, stack, slr, event, unmapped, red, clean>>

\* processing_trap_depth = 0: "the trap was processed".
TrapLeave ==
  /\ at = "trap" /\ Top.step = "leave"
  /\ psw' = psw
  /\ Return(0)
  /\ UNCHANGED <<pc, sp, stack, slr, event, unmapped, red, clean>>

\* catch around the vector fetch: only the PSW is put back.
TrapCatch ==
  /\ at = "trap" /\ Top.step = "catch"
  /\ psw' = Top.psw
  /\ Return(depth)
  /\ UNCHANGED <<pc, sp, stack, slr, event, unmapped, red, clean>>

-----------------------------------------------------------------------------
(* The instructions that reach this state.                                 *)

InstrPlain ==
  /\ at = "instruction"
  /\ at' = "boundary"
  /\ UNCHANGED <<machine, frames, origin, red, clean>>

\* An instruction that does not exist; BPT, IOT, EMT and TRAP differ in
\* nothing but the vector.
InstrTrap ==
  /\ at = "instruction"
  /\ Begin(CallTrap(8, NoIpl, "return"))
  /\ UNCHANGED <<machine, origin, red, clean>>

\* An operand on a page that is not there.
InstrFault ==
  /\ at = "instruction"
  /\ Begin(CallTrap(168, NoIpl, "throw"))
  /\ UNCHANGED <<machine, origin, red, clean>>

InstrHalt ==
  /\ at = "instruction"
  /\ IF psw.mode = Kernel
     THEN event' = "halt" /\ at' = "boundary" /\ UNCHANGED frames
     ELSE Begin(CallTrap(8, NoIpl, "return")) /\ UNCHANGED event
  /\ UNCHANGED <<psw, pc, sp, stack, slr, depth, delayed, unmapped, origin, red, clean>>

\* JSR, MFPI, MFPD in kernel mode: push_stack outside trap().
InstrPush ==
  /\ at = "instruction" /\ psw.mode = Kernel /\ ~InRed(sp)
  /\ sp' = Down(sp)
  /\ IF Unmapped(Down(sp))
     THEN Begin(CallTrap(168, NoIpl, "throw")) /\ UNCHANGED <<stack, delayed>>
     ELSE /\ at' = "boundary"
          /\ stack' = IF Odd(sp) THEN stack ELSE Store(Down(sp), Junk)
          /\ delayed' = (delayed \/ (InYellow(sp) /\ ~Odd(sp)))
          /\ UNCHANGED frames
  /\ UNCHANGED <<psw, pc, slr, depth, event, unmapped, origin, red, clean>>

InstrPushRed ==
  /\ at = "instruction" /\ psw.mode = Kernel /\ InRed(sp)
  /\ sp' = 4
  /\ clean' = <<>>
  /\ red' = TRUE
  /\ Begin(CallTrap(4, 7, "red"))
  /\ UNCHANGED <<psw, pc, stack, slr, depth, delayed, event, unmapped, origin>>

\* Mutant: RTI does not limit a user's PSW.
setPSWUnlimited(v, limited) == v

\* setPSW(v, limited)
setPSW(v, limited) ==
  IF limited
  THEN [mode |-> IF v.mode > psw.mode THEN v.mode ELSE psw.mode,
        prev |-> IF v.prev > psw.prev THEN v.prev ELSE psw.prev,
        ipl |-> psw.ipl]
  ELSE v

Popped(a, kind, any) ==
  IF a \in Words /\ stack[a].kind = kind THEN {stack[a].value} ELSE any

\* RTI, RTT in kernel mode.  Words that hold something else are arbitrary.
InstrRti ==
  /\ at = "instruction" /\ psw.mode = Kernel
  /\ ~Unmapped(sp) /\ ~Unmapped(sp + 2) /\ ~Odd(sp) /\ sp + 4 <= StackTop
  /\ at' = "boundary"
  /\ pc' \in Popped(sp, "pc", {Program})
  /\ \E v \in Popped(sp + 2, "psw", [mode : {User}, prev : {User}, ipl : {0}]) :
        psw' = setPSW(v, FALSE)
  /\ sp' = sp + 4
  /\ stack' = Live(sp + 4)
  /\ clean' = IF clean # <<>> /\ Last(clean).sp = sp + 4 THEN Front(clean) ELSE <<>>
  /\ UNCHANGED <<slr, depth, delayed, event, unmapped, frames, origin, red>>

\* The first pop_stack() throws, after a trap or without one.
InstrRtiFaults ==
  /\ at = "instruction" /\ psw.mode = Kernel
  /\ IF Unmapped(sp) THEN Begin(CallTrap(168, NoIpl, "throw"))
     ELSE Odd(sp) /\ at' = "boundary" /\ UNCHANGED frames
  /\ UNCHANGED <<machine, origin, red, clean>>

\* The second one throws: PC is loaded, the stack pointer half way.
InstrRtiFaultsLate ==
  /\ at = "instruction" /\ psw.mode = Kernel
  /\ ~Unmapped(sp) /\ ~Odd(sp) /\ Unmapped(sp + 2) /\ sp + 4 <= StackTop
  /\ pc' \in Popped(sp, "pc", {Program})
  /\ sp' = sp + 2
  /\ clean' = <<>>
  /\ Begin(CallTrap(168, NoIpl, "throw"))
  /\ UNCHANGED <<psw, stack, slr, depth, delayed, event, unmapped, origin, red>>

\* RTI, RTT in user mode: the user's stack holds whatever the user put there.
InstrUserRti(v) ==
  /\ at = "instruction" /\ psw.mode = User
  /\ at' = "boundary"
  /\ pc' = Program
  /\ psw' = setPSW(v, TRUE)
  /\ UNCHANGED <<sp, stack, slr, depth, delayed, event, unmapped, frames, origin, red, clean>>

\* Kernel code moves its stack, sets the limit register or maps pages.
InstrSetup(a, l, m) ==
  /\ at = "instruction" /\ psw.mode = Kernel
  /\ at' = "boundary"
  /\ sp' = a
  /\ stack' = Live(a)
  /\ slr' = l
  /\ unmapped' = m
  /\ clean' = IF a = sp THEN clean ELSE <<>>
  /\ UNCHANGED <<psw, pc, depth, delayed, event, frames, origin, red>>

-----------------------------------------------------------------------------
\* The operator lets a halted machine go on (cmd_go) ...
Continue ==
  /\ at = "boundary" /\ event = "halt"
  /\ event' = "none"
  /\ red' = FALSE
  /\ UNCHANGED <<psw, pc, sp, stack, slr, depth, delayed, unmapped, at, frames,
                 origin, clean>>

\* ... or resets it ("reset hard"): cpu::reset() keeps delayed_trap and the limit register.
Reset ==
  /\ at = "boundary" /\ event = "halt"
  /\ psw' = [mode |-> Kernel, prev |-> Kernel, ipl |-> 0]
  /\ pc' = Program
  /\ sp' = 0
  /\ depth' = 0
  /\ event' = "none"
  /\ unmapped' = {}
  /\ stack' = [a \in Words |-> Junk]
  /\ red' = FALSE
  /\ origin' = Kernel
  /\ clean' = <<>>
  /\ UNCHANGED <<slr, delayed, at, frames>>

Trapping ==
  \/ TrapHalts \/ TrapEnter \/ TrapFetch \/ TrapFetchFaults
  \/ TrapPush \/ TrapPushFaults \/ TrapPushRed
  \/ TrapRecover \/ TrapLeave \/ TrapCatch

Instruction ==
  \/ InstrPlain \/ InstrFault \/ InstrHalt \/ InstrPush \/ InstrPushRed
  \/ InstrTrap \/ InstrRti \/ InstrRtiFaults \/ InstrRtiFaultsLate
  \/ \E v \in Psw : InstrUserRti(v)
  \/ \E a \in {sp, StackTop, StackTop - 1}, l \in Limits, m \in Mappings :
        InstrSetup(a, l, m)

Next ==
  \/ StepDelayed \/ StepNotDelayed \/ StepInstruction
  \/ \E r \in Requests : StepInterrupt(r[1], r[2])
  \/ Trapping
  \/ Instruction
  \/ Continue \/ Reset

Spec == Init /\ [][Next]_vars

-----------------------------------------------------------------------------
Frame == [vector : Vectors, ipl : (0..7) \cup {NoIpl}, caller : Callers,
          step : Steps, psw : Psw, pc : Pcs, prev_sp : 0..StackTop,
          another : BOOLEAN]
Cells == {Junk} \cup {PcCell(v) : v \in Pcs} \cup {PswCell(v) : v \in Psw}
Context == [psw : Psw, pc : Pcs, sp : 0..StackTop]

TypeOK ==
  /\ psw \in Psw
  /\ pc \in Pcs
  /\ sp \in 0..StackTop
  /\ stack \in [Words -> Cells]
  /\ slr \in Limits \cup {DefaultLimit}
  /\ depth \in 0..Fatal
  /\ delayed \in BOOLEAN
  /\ event \in {"none", "halt"}
  /\ unmapped \in Mappings \cup {{}}
  /\ at \in {"boundary", "scan", "instruction", "trap"}
  /\ frames \in Seq(Frame)
  /\ (at = "trap") <=> (frames # <<>>)
  /\ origin \in Modes
  /\ red \in BOOLEAN
  /\ clean \in Seq(Context)

\* trap() re-enters itself at most twice: whatever faults, the third
\* activation halts the machine instead of calling on (cpu.cpp:1674).
NestingBounded == Len(frames) <= 3

\* Between instructions the depth counter is 0 or so high that the next trap
\* halts.  A 1 or 2 left behind would turn the next ordinary trap into a
\* double one, with its vector and stack replaced.
DepthSettles == at # "trap" => depth \in {0, Fatal}

\* A push in the red zone is never survived unnoticed: the machine halts, or
\* the counter is left such that the next trap halts it ("double trap so
\* halt", cpu.cpp:1471).
RedZoneIsFatal == at = "boundary" /\ red => event = "halt" \/ depth = Fatal

\* An instruction that began in user mode ends in kernel mode only at the
\* entry of a handler, never at an address of the program's choice.
KernelEntryAtHandler ==
  at = "boundary" /\ origin = User /\ psw.mode = Kernel => pc \in Vectors

\* RTI gives back the context that trap() saved: PC, PSW and stack pointer,
\* however traps, interrupts and pushes were nested in between.
RtiRestores ==
  [][InstrRti /\ clean # <<>> /\ sp + 4 = Last(clean).sp =>
       pc' = Last(clean).pc /\ psw' = Last(clean).psw]_vars
=============================================================================
