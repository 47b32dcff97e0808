---------------------------- MODULE CpuTrapProofs ----------------------------
(***************************************************************************)
(* What CpuTrap promises, for every set of vectors, stack and limit.       *)
(* Nothing of it is inductive as it stands, because trap() is re-entered   *)
(* at every one of its steps: Nested says which counter value belongs to   *)
(* which activation, RedFalls why a push in the red zone always ends in a  *)
(* halt, UserKept where the user's mode is kept until it comes back, and   *)
(* Saved which words of the stack belong to which saved context.           *)
(***************************************************************************)
EXTENDS CpuTrap, SequenceTheorems, TLAPS

N == Len(frames)

(***************************************************************************)
(* An activation f that caused another one, g, waits at its fetch or at a  *)
(* push.  At the fetch the vectors are unmapped, so that no deeper         *)
(* activation gets beyond its own fetch: the third one halts, and leaves   *)
(* depth = Fatal.                                                          *)
(***************************************************************************)
WaitsFor(f, g, missing) ==
  /\ f.step \in {"fetch", "push_psw", "push_pc"} /\ f.another = TRUE
  /\ g.caller \in {"throw", "red"}
  /\ f.step = "fetch" =>
       /\ "vectors" \in missing
       /\ g.caller = "throw" /\ g.step \in {"enter", "fetch", "catch"}

Waiting == \A i \in 1..(N - 1) : WaitsFor(frames[i], frames[i + 1], unmapped)

\* The counter d in the n-th activation, at this step.
CountsAs(step, d, n) ==
  /\ step = "enter" => d \in {n - 1, Fatal} /\ n <= 3
  /\ step # "enter" => n <= 2
  /\ step \in {"fetch", "push_psw"} => d = n
  /\ step = "push_pc" => d \in {n, Fatal}
  /\ step = "catch" => d = Fatal

InnermostCounts == N > 0 => CountsAs(frames[N].step, depth, N)

Nested == Waiting /\ InnermostCounts /\ DepthSettles

\* Until the machine halts, a push in the red zone leaves the stack pointer
\* at 4, which is in the red zone itself, so that no push succeeds.
RedFalls ==
  red /\ event # "halt" =>
    at = "trap" /\ sp = 4 /\ frames[N].step \in {"enter", "fetch", "push_psw"}

\* An instruction of the user that traps: as long as the handler's PC is not
\* fetched, the mode to go back to is the user's.
BackToUser(f, mode, address) ==
  /\ f.step = "enter" => mode = User
  /\ f.step \in {"fetch", "catch"} => f.psw.mode = User
  /\ f.step \notin {"enter", "fetch", "catch"} => address \in Vectors

UserKept ==
  /\ at = "instruction" => origin = psw.mode
  /\ KernelEntryAtHandler
  /\ at = "trap" /\ frames[1].caller \in {"return", "throw", "red"} /\ origin = User =>
       BackToUser(frames[1], psw.mode, pc)

\* A context c lies above the stack pointer s, its two words are there.
OnStack(c, s, words) ==
  /\ c.sp % 2 = 0 /\ s <= c.sp - 4
  /\ words[c.sp - 4] = PcCell(c.pc) /\ words[c.sp - 2] = PswCell(c.psw)

\* Between its two pushes, trap() has half of a context on the stack.
HalfSaved(f, s, words, saved) ==
  /\ f.step = "push_psw" => s = f.prev_sp
  /\ f.step = "push_pc" /\ f.another = FALSE =>
       /\ f.prev_sp = s + 2 /\ s % 2 = 0 /\ words[s] = PswCell(f.psw)
       /\ \A i \in 1..Len(saved) : f.prev_sp <= saved[i].sp - 4

Contexts ==
  /\ \A i \in 1..Len(clean) : OnStack(clean[i], sp, stack)
  /\ \A i, j \in 1..Len(clean) : i < j => clean[j].sp <= clean[i].sp - 4

HalfContext == N > 0 => HalfSaved(frames[N], sp, stack, clean)

IInv == TypeOK /\ Nested /\ RedFalls /\ UserKept /\ Contexts /\ HalfContext

-----------------------------------------------------------------------------
(***************************************************************************)
(* The operators on the stack of activations.                              *)
(***************************************************************************)

\* The stack of activations has a length, and its elements their type.
LEMMA FramesType ==
  ASSUME TypeOK
  PROVE  /\ N \in Nat /\ (at = "trap" <=> N > 0)
         /\ \A i \in 1..N : frames[i] \in Frame
  <1>1. frames \in Seq(Frame) /\ (at = "trap" <=> frames # <<>>)
    BY DEF TypeOK
  <1>2. frames = <<>> <=> N = 0
    BY <1>1, EmptySeq DEF N
  <1> QED BY <1>1, <1>2, LenProperties, ElementOfSeq DEF N

\* What trap() is in the middle of, and the activations around it.
LEMMA TopIs ==
  ASSUME TypeOK, frames # <<>>
  PROVE  /\ N \in Nat /\ N >= 1
         /\ Top = frames[N] /\ Top \in Frame
         /\ Front(frames) \in Seq(Frame) /\ Len(Front(frames)) = N - 1
         /\ \A i \in 1..(N - 1) : Front(frames)[i] = frames[i]
  <1>1. frames \in Seq(Frame)
    BY DEF TypeOK
  <1>2. N \in Nat /\ N >= 1 /\ N # 0
    BY <1>1, EmptySeq DEF N
  <1>3. \A i \in 1..N : frames[i] \in Frame
    BY <1>1, ElementOfSeq DEF N
  <1>4. Front(frames) = SubSeq(frames, 1, N - 1)
    BY DEF Front, N
  <1>5. /\ Front(frames) \in Seq(Frame) /\ Len(Front(frames)) = N - 1
        /\ \A i \in 1..(N - 1) : Front(frames)[i] = frames[i]
    BY <1>2, <1>3, <1>4, SubSeqProperties
  <1> QED BY <1>2, <1>3, <1>5 DEF Top, Last, N

\* SetTop replaces the innermost activation and nothing else.
LEMMA SetTopIs ==
  ASSUME TypeOK, frames # <<>>, NEW f \in Frame
  PROVE  /\ SetTop(f) \in Seq(Frame) /\ SetTop(f) # <<>>
         /\ Len(SetTop(f)) = N /\ SetTop(f)[N] = f
         /\ \A i \in 1..(N - 1) : SetTop(f)[i] = frames[i]
  <1> DEFINE F == Front(frames)
  <1>1. /\ N \in Nat /\ N >= 1 /\ F \in Seq(Frame) /\ Len(F) = N - 1
        /\ \A i \in 1..(N - 1) : F[i] = frames[i]
    BY TopIs
  <1>2. SetTop(f) = Append(F, f)
    BY DEF SetTop
  <1> HIDE DEF F
  <1>3. /\ SetTop(f) \in Seq(Frame) /\ Len(SetTop(f)) = N /\ SetTop(f)[N] = f
        /\ \A i \in 1..(N - 1) : SetTop(f)[i] = F[i]
    BY <1>1, <1>2, AppendProperties
  <1> QED BY <1>1, <1>3, EmptySeq

\* Nest marks the innermost activation and puts a new one on top.
LEMMA NestIs ==
  ASSUME TypeOK, frames # <<>>, NEW f \in Frame
  PROVE  /\ Nest(f) \in Seq(Frame) /\ Nest(f) # <<>>
         /\ Len(Nest(f)) = N + 1 /\ Nest(f)[N + 1] = f
         /\ Nest(f)[N] = [frames[N] EXCEPT !.another = TRUE]
         /\ \A i \in 1..(N - 1) : Nest(f)[i] = frames[i]
  <1> DEFINE g == [Top EXCEPT !.another = TRUE]
             S == SetTop(g)
  <1>1. N \in Nat /\ N >= 1 /\ Top = frames[N] /\ g \in Frame
    BY TopIs DEF Frame
  <1>2. /\ S \in Seq(Frame) /\ Len(S) = N /\ S[N] = g
        /\ \A i \in 1..(N - 1) : S[i] = frames[i]
    BY <1>1, SetTopIs
  <1>3. Nest(f) = Append(S, f)
    BY DEF Nest
  <1> HIDE DEF S
  <1>4. /\ Nest(f) \in Seq(Frame) /\ Len(Nest(f)) = N + 1 /\ Nest(f)[N + 1] = f
        /\ \A i \in 1..N : Nest(f)[i] = S[i]
    BY <1>1, <1>2, <1>3, AppendProperties
  <1>5. Nest(f) # <<>>
    BY <1>1, <1>4, EmptySeq
  <1> QED BY <1>1, <1>2, <1>4, <1>5

\* A trap out of step() or of an instruction is the only activation.
LEMMA BeginIs ==
  ASSUME NEW f \in Frame, Begin(f)
  PROVE  /\ frames' \in Seq(Frame) /\ frames' # <<>> /\ at' = "trap"
         /\ N' = 1 /\ frames'[1] = f
  BY DEF Begin, N

\* The activation that a caller of trap() makes.
LEMMA CallTrapIs ==
  ASSUME TypeOK, NEW v \in Vectors, NEW ipl \in (0..7) \cup {NoIpl},
         NEW caller \in Callers
  PROVE  CallTrap(v, ipl, caller) \in Frame
  BY DEF TypeOK, CallTrap, Frame, Steps

\* The activation that goes on when the innermost one returns.
ReturnsTo ==
  IF Top.caller = "red"
  THEN IF frames[N - 1].step = "push_psw" THEN "push_pc" ELSE "leave"
  ELSE IF frames[N - 1].step = "fetch" THEN "catch" ELSE "recover"

\* Return ends the innermost activation; the one below it changes its step.
LEMMA ReturnIs ==
  ASSUME TypeOK, frames # <<>>, NEW d, Return(d)
  PROVE  /\ frames' \in Seq(Frame) /\ N' = N - 1
         /\ depth' = IF Top.caller = "red" THEN Fatal ELSE d
         /\ delayed' = IF Top.caller = "delayed" THEN FALSE ELSE delayed
         /\ origin' = IF Top.caller = "interrupt" THEN psw'.mode ELSE origin
         /\ N > 1 =>
              /\ at' = "trap" /\ frames' # <<>> /\ ReturnsTo \in Steps
              /\ frames'[N - 1] = [frames[N - 1] EXCEPT !.step = ReturnsTo]
              /\ \A i \in 1..(N - 2) : frames'[i] = frames[i]
         /\ N = 1 => frames' = <<>> /\ at' = Resumes(Top.caller)
  <1> DEFINE rest == Front(frames)
  <1>1. /\ N \in Nat /\ N >= 1 /\ rest \in Seq(Frame) /\ Len(rest) = N - 1
        /\ \A i \in 1..(N - 1) : rest[i] = frames[i]
    BY TopIs
  <1>2. rest = <<>> <=> N = 1
    BY <1>1, EmptySeq
  <1>3. /\ depth' = IF Top.caller = "red" THEN Fatal ELSE d
        /\ delayed' = IF Top.caller = "delayed" THEN FALSE ELSE delayed
        /\ origin' = IF Top.caller = "interrupt" THEN psw'.mode ELSE origin
    BY DEF Return
  <1>4. CASE N = 1
    <2>1. rest = <<>>
      BY <1>2, <1>4
    <2>2. frames' = <<>> /\ at' = Resumes(Top.caller)
      BY <2>1 DEF Return
    <2>3. <<>> \in Seq(Frame) /\ Len(<<>>) = 0
      BY EmptySeq
    <2>4. frames' \in Seq(Frame) /\ N' = N - 1
      BY <1>4, <2>2, <2>3 DEF N
    <2> QED BY <1>3, <1>4, <2>2, <2>4
  <1>5. CASE N > 1
    <2>1. rest # <<>> /\ Last(rest) = frames[N - 1] /\ N - 1 \in 1..Len(rest)
      BY <1>1, <1>2, <1>5 DEF Last
    <2> DEFINE after == IF Top.caller = "red"
                        THEN IF Last(rest).step = "push_psw" THEN "push_pc" ELSE "leave"
                        ELSE IF Last(rest).step = "fetch" THEN "catch" ELSE "recover"
    <2>11. frames' = [rest EXCEPT ![Len(rest)].step = after] /\ at' = "trap"
      BY <2>1, Zenon DEF Return
    <2>12. after = ReturnsTo /\ Len(rest) = N - 1
      BY <1>1, <2>1 DEF ReturnsTo
    <2> HIDE DEF after, rest
    <2>2. frames' = [rest EXCEPT ![N - 1].step = ReturnsTo] /\ at' = "trap"
      BY <2>11, <2>12
    <2>3. /\ ReturnsTo \in Steps /\ rest[N - 1] = frames[N - 1]
          /\ rest[N - 1] \in Frame
      BY <1>1, <2>1, ElementOfSeq DEF ReturnsTo, Steps
    <2> DEFINE e == [rest[N - 1] EXCEPT !.step = ReturnsTo]
    <2>4. e \in Frame
      BY <2>3 DEF Frame
    <2>5. frames' = [rest EXCEPT ![N - 1] = e]
      BY <2>2
    <2> HIDE DEF e, rest
    <2>6. /\ frames' \in Seq(Frame) /\ Len(frames') = N - 1
          /\ \A i \in 1..(N - 1) :
                frames'[i] = IF i = N - 1 THEN e ELSE rest[i]
      BY <1>1, <2>1, <2>4, <2>5, ExceptSeq
    <2>7. frames' # <<>>
      BY <1>1, <1>5, <2>6, EmptySeq
    <2>8. frames'[N - 1] = [frames[N - 1] EXCEPT !.step = ReturnsTo]
      BY <1>1, <1>5, <2>3, <2>6 DEF e
    <2>9. \A i \in 1..(N - 2) : frames'[i] = frames[i]
      BY <1>1, <1>5, <2>6
    <2>10. N' = N - 1
      BY <2>6 DEF N
    <2> QED BY <1>1, <1>3, <1>5, <2>2, <2>3, <2>6, <2>7, <2>8, <2>9, <2>10
  <1>6. N = 1 \/ N > 1
    BY <1>1
  <1> QED BY <1>4, <1>5, <1>6

-----------------------------------------------------------------------------
(***************************************************************************)
(* Types.                                                                  *)
(***************************************************************************)

\* An address in range stays as it is.
LEMMA InSpace ==
  AddressSpace \in Nat /\ \A a \in 0..(AddressSpace - 1) : a % AddressSpace = a
  BY SMT DEF AddressSpace

\* With the stack limit, addresses in the red zone include the emergency
\* stack, and a push outside of it does not wrap around.
LEMMA RedZone ==
  ASSUME TypeOK
  PROVE  /\ InRed(4)
         /\ ~InRed(sp) => sp > 4 /\ Down(sp) = sp - 2
  <1>1. use_limit - YellowBytes > 4 /\ use_limit \in Nat /\ YellowBytes \in Nat
    BY StackAssumption, LimitsAssumption DEF TypeOK, use_limit
  <1>2. sp \in 0..StackTop /\ StackTop \in 0..(AddressSpace - 1)
    BY StackAssumption DEF TypeOK
  <1>3. InRed(4)
    BY <1>1 DEF InRed
  <1>4. ~InRed(sp) => sp > 4
    BY <1>1, <1>2 DEF InRed
  <1>5. sp > 4 => sp - 2 \in 0..(AddressSpace - 1)
    BY <1>2, InSpace
  <1>6. sp > 4 => Down(sp) = sp - 2
    BY <1>5, InSpace DEF Down
  <1> QED BY <1>3, <1>4, <1>6

\* The emergency stack is there, and nothing may be on it.
LEMMA Empty ==
  StackTop \in Nat /\ 4 \in 0..StackTop /\ <<>> \in Seq(Frame) /\ <<>> \in Seq(Context)
  <1>1. 4 <= StackPage /\ StackPage <= StackTop /\ StackPage \in Nat /\ StackTop \in Nat
    BY StackAssumption, InSpace
  <1> QED BY <1>1, EmptySeq

\* Outside of the red zone, a push does not leave the stack.
LEMMA PushedBelow ==
  ASSUME TypeOK, ~InRed(sp)
  PROVE  /\ Down(sp) = sp - 2 /\ Down(sp) \in 0..StackTop
         /\ sp \in Nat /\ sp > 4
  <1>1. sp \in 0..StackTop /\ StackTop \in Nat
    BY StackAssumption, InSpace DEF TypeOK
  <1>2. sp > 4 /\ Down(sp) = sp - 2
    BY RedZone
  <1> QED BY <1>1, <1>2

\* A word pushed goes to one place of the stack.
LEMMA StoreIs ==
  ASSUME TypeOK, NEW a \in Int, NEW c \in Cells
  PROVE  /\ Store(a, c) \in [Words -> Cells]
         /\ \A w \in Words : Store(a, c)[w] = IF w = a THEN c ELSE stack[w]
  BY DEF TypeOK, Store

\* RTI takes the innermost context away.
LEMMA FrontClean ==
  ASSUME TypeOK, clean # <<>>
  PROVE  /\ Len(clean) \in Nat /\ Len(clean) >= 1
         /\ Last(clean) = clean[Len(clean)] /\ Last(clean) \in Context
         /\ Front(clean) \in Seq(Context) /\ Len(Front(clean)) = Len(clean) - 1
         /\ \A i \in 1..(Len(clean) - 1) : Front(clean)[i] = clean[i]
  <1>1. clean \in Seq(Context)
    BY DEF TypeOK
  <1>2. Len(clean) \in Nat /\ Len(clean) >= 1
    BY <1>1, EmptySeq
  <1>3. \A i \in 1..Len(clean) : clean[i] \in Context
    BY <1>1, ElementOfSeq
  <1> DEFINE n == Len(clean)
  <1>4. Front(clean) = SubSeq(clean, 1, n - 1)
    BY DEF Front
  <1> HIDE DEF n
  <1>5. n \in Nat /\ n >= 1 /\ \A i \in 1..n : clean[i] \in Context
    BY <1>2, <1>3 DEF n
  <1>6. /\ Front(clean) \in Seq(Context) /\ Len(Front(clean)) = n - 1
        /\ \A i \in 1..(n - 1) : Front(clean)[i] = clean[i]
    BY <1>4, <1>5, SubSeqProperties
  <1> QED BY <1>2, <1>3, <1>6 DEF Last, n

\* Moving the stack pointer changes no word above it.
LEMMA LiveIs ==
  ASSUME TypeOK, NEW a \in Int
  PROVE  /\ Live(a) \in [Words -> Cells]
         /\ \A w \in Words : w >= a => Live(a)[w] = stack[w]
  BY DEF TypeOK, Live, Cells, Words

\* What an activation pushes.
LEMMA SavedIs ==
  ASSUME NEW f \in Frame
  PROVE  Saved(f) \in Cells
  BY DEF Saved, Frame, Cells

\* What a pop may give.
LEMMA PoppedIs ==
  ASSUME TypeOK, NEW a \in Int
  PROVE  /\ \A v \in Popped(a, "pc", {Program}) : v \in Pcs
         /\ \A v \in Popped(a, "psw", [mode : {User}, prev : {User}, ipl : {0}]) :
              v \in Psw
  <1>1. CASE a \in Words
    <2>1. stack[a] \in Cells
      BY <1>1 DEF TypeOK
    <2>2. stack[a].kind = "pc" => stack[a].value \in Pcs
      BY <2>1 DEF Cells, Junk, PcCell, PswCell
    <2>3. stack[a].kind = "psw" => stack[a].value \in Psw
      BY <2>1 DEF Cells, Junk, PcCell, PswCell
    <2> QED BY <2>2, <2>3 DEF Popped, Pcs, Psw, Modes, User
  <1>2. CASE a \notin Words
    BY <1>2 DEF Popped, Pcs, Psw, Modes, User
  <1> QED BY <1>1, <1>2

\* The initial state has its types.
LEMMA InitTypes == Init => TypeOK
  <1> SUFFICES ASSUME Init PROVE TypeOK
    OBVIOUS
  <1> USE DEF Init
  <1>1. psw \in Psw /\ pc \in Pcs /\ origin \in Modes
    BY DEF Psw, Modes, Pcs
  <1>2. sp \in 0..StackTop
    BY StackAssumption
  <1>3. stack \in [Words -> Cells]
    BY DEF Cells
  <1>4. frames \in Seq(Frame) /\ clean \in Seq(Context) /\ (at = "trap" <=> frames # <<>>)
    BY EmptySeq
  <1>5. delayed \in BOOLEAN /\ red \in BOOLEAN
    OBVIOUS
  <1>7. depth \in 0..Fatal
    BY DEF Fatal
  <1>6. /\ slr \in Limits \cup {DefaultLimit} /\ event \in {"none", "halt"}
        /\ unmapped \in Mappings \cup {{}}
        /\ at \in {"boundary", "scan", "instruction", "trap"}
    BY Zenon
  <1> HIDE DEF Init
  <1> QED BY <1>1, <1>2, <1>3, <1>4, <1>5, <1>6, <1>7, Zenon DEF TypeOK

\* The steps of step() that begin a trap or go on without one.
LEMMA StepTypes ==
  ASSUME TypeOK,
         \/ StepDelayed \/ StepNotDelayed \/ StepInstruction
         \/ \E r \in Requests : StepInterrupt(r[1], r[2])
  PROVE  TypeOK'
  <1> USE DEF machine
  <1>1. CASE StepDelayed
    <2>1. CallTrap(4, 7, "delayed") \in Frame
      BY CallTrapIs, VectorsAssumption DEF Callers
    <2>2. frames' \in Seq(Frame) /\ frames' # <<>> /\ at' = "trap"
      BY <1>1, <2>1, BeginIs DEF StepDelayed
    <2> QED BY <1>1, <2>2 DEF StepDelayed, TypeOK
  <1>2. CASE StepNotDelayed \/ StepInstruction
    BY <1>2 DEF StepNotDelayed, StepInstruction, TypeOK, Psw
  <1>3. ASSUME NEW r \in Requests, StepInterrupt(r[1], r[2])
        PROVE  TypeOK'
    <2>1. r[1] \in 0..7 /\ r[2] \in Vectors
      BY VectorsAssumption
    <2>2. CallTrap(r[2], r[1], "interrupt") \in Frame
      BY <2>1, CallTrapIs DEF Callers
    <2>3. frames' \in Seq(Frame) /\ frames' # <<>> /\ at' = "trap"
      BY <1>3, <2>2, BeginIs DEF StepInterrupt
    <2> QED BY <1>3, <2>3 DEF StepInterrupt, TypeOK
  <1> QED BY <1>1, <1>2, <1>3

\* The steps inside of trap().
LEMMA TrappingTypes ==
  ASSUME TypeOK, Trapping
  PROVE  TypeOK'
  <1>1. frames # <<>>
    BY DEF TypeOK, Trapping, TrapHalts, TrapEnter, TrapFetch, TrapFetchFaults, TrapPush,
           TrapPushFaults, TrapPushRed, TrapRecover, TrapLeave, TrapCatch
  <1>2. Top \in Frame
    BY <1>1, TopIs
  <1>3. ASSUME NEW d \in 0..Fatal, Return(d), psw' \in Psw,
               UNCHANGED <<pc, sp, stack, slr, unmapped, red, clean>>,
               event' \in {"none", "halt"}
        PROVE  TypeOK'
    <2>1. /\ frames' \in Seq(Frame) /\ (at' = "trap" <=> frames' # <<>>)
          /\ at' \in {"boundary", "scan", "instruction", "trap"}
      <3>1. CASE N = 1
        BY <1>1, <1>3, <3>1, ReturnIs DEF Resumes
      <3>2. CASE N > 1
        BY <1>1, <1>3, <3>2, ReturnIs
      <3> QED BY <1>1, <3>1, <3>2, TopIs
    <2>4. /\ depth' = IF Top.caller = "red" THEN Fatal ELSE d
          /\ delayed' = IF Top.caller = "delayed" THEN FALSE ELSE delayed
          /\ origin' = IF Top.caller = "interrupt" THEN psw'.mode ELSE origin
      BY <1>1, <1>3, ReturnIs
    <2>2. depth' \in 0..Fatal
      BY <1>3, <2>4 DEF Fatal
    <2>5. delayed' \in BOOLEAN
      BY <2>4, Zenon DEF TypeOK
    <2>3. origin' \in Modes
      BY <1>3, <2>4 DEF TypeOK, Psw
    <2> QED BY <1>3, <2>1, <2>2, <2>3, <2>5 DEF TypeOK
  <1>4. CASE TrapHalts
    BY <1>3, <1>4 DEF TrapHalts, TypeOK, Fatal
  <1>5. CASE TrapEnter
    <2> DEFINE double == depth + 1 >= 2 /\ psw.mode = Kernel
               f == [Top EXCEPT !.vector = IF double THEN 4 ELSE @,
                                !.psw = psw, !.pc = pc, !.step = "fetch"]
    <2>1. f \in Frame
      <3>1. psw \in Psw /\ pc \in Pcs /\ 4 \in Vectors
        BY VectorsAssumption DEF TypeOK
      <3> QED BY <1>2, <3>1 DEF Frame, Steps
    <2>2. frames' \in Seq(Frame) /\ frames' # <<>>
      <3>1. frames' = SetTop(f)
        BY <1>5 DEF TrapEnter
      <3> QED BY <1>1, <2>1, <3>1, SetTopIs
    <2>3. depth' \in 0..Fatal
      BY <1>5 DEF TrapEnter, GivesUp, TypeOK, Fatal
    <2>4. sp' \in 0..StackTop /\ clean' \in Seq(Context)
      BY <1>5, Empty DEF TrapEnter, TypeOK
    <2>5. psw' \in Psw
      BY <1>5 DEF TrapEnter, TypeOK, Psw, Modes
    <2> QED BY <1>5, <2>2, <2>3, <2>4, <2>5 DEF TrapEnter, TypeOK
  <1>6. CASE TrapFetch
    <2> DEFINE f == [Top EXCEPT !.prev_sp = sp, !.step = "push_psw"]
    <2>1. f \in Frame
      BY <1>2 DEF Frame, Steps, TypeOK
    <2>2. frames' \in Seq(Frame) /\ frames' # <<>>
      <3>1. frames' = SetTop(f)
        BY <1>6 DEF TrapFetch
      <3> QED BY <1>1, <2>1, <3>1, SetTopIs
    <2>3. pc' \in Pcs
      BY <1>2, <1>6 DEF TrapFetch, Frame, Pcs
    <2>4. psw' \in Psw
      <3>1. Top.psw.mode \in Modes /\ Top.vector \in Vectors
        BY <1>2 DEF Frame, Psw
      <3>2. NewIpl(Top) \in 0..7
        BY <1>2, <3>1, VectorsAssumption DEF NewIpl, Frame
      <3> QED BY <1>6, <3>1, <3>2 DEF TrapFetch, Psw, Modes
    <2> QED BY <1>6, <2>2, <2>3, <2>4 DEF TrapFetch, TypeOK
  <1>7. \A v \in {4, 168}, c \in {"throw", "red"}, l \in {7, NoIpl} :
          CallTrap(v, l, c) \in Frame
    BY CallTrapIs, VectorsAssumption DEF Callers
  <1>8. CASE TrapFetchFaults
    <2>1. frames' \in Seq(Frame) /\ frames' # <<>>
      BY <1>1, <1>7, <1>8, NestIs DEF TrapFetchFaults
    <2> QED BY <1>8, <2>1 DEF TrapFetchFaults, machine, TypeOK
  <1>9. CASE TrapPush
    <2> DEFINE f == [Top EXCEPT !.step = IF @ = "push_psw" THEN "push_pc" ELSE "leave"]
    <2>1. f \in Frame
      BY <1>2 DEF Frame, Steps
    <2>2. frames' \in Seq(Frame) /\ frames' # <<>>
      <3>1. frames' = SetTop(f)
        BY <1>9 DEF TrapPush
      <3> QED BY <1>1, <2>1, <3>1, SetTopIs
    <2>3. sp' = sp - 2 /\ sp' \in 0..StackTop /\ Down(sp) = sp - 2
      BY <1>9, PushedBelow DEF TrapPush
    <2>4. stack' \in [Words -> Cells]
      <3>1. sp - 2 \in Int
        BY <2>3
      <3> QED BY <1>2, <1>9, <2>3, <3>1, SavedIs, StoreIs DEF TrapPush
    <2>5. clean' \in Seq(Context)
      <3>1. [psw |-> Top.psw, pc |-> Top.pc, sp |-> Top.prev_sp] \in Context
        BY <1>2 DEF Frame, Context
      <3> QED BY <1>9, <3>1, AppendProperties DEF TrapPush, TypeOK
    <2>6. delayed' \in BOOLEAN
      BY <1>9 DEF TrapPush, TypeOK, InYellow
    <2> QED BY <1>9, <2>2, <2>3, <2>4, <2>5, <2>6 DEF TrapPush, TypeOK
  <1>10. CASE TrapPushFaults
    <2>1. [Top EXCEPT !.step = "recover"] \in Frame
      BY <1>2 DEF Frame, Steps
    <2>2. frames' \in Seq(Frame) /\ frames' # <<>>
      BY <1>1, <1>7, <1>10, <2>1, NestIs, SetTopIs DEF TrapPushFaults
    <2>3. sp' \in 0..StackTop
      BY <1>10, PushedBelow DEF TrapPushFaults
    <2> QED BY <1>10, <2>2, <2>3 DEF TrapPushFaults, TypeOK
  <1>11. CASE TrapPushRed
    <2>1. frames' \in Seq(Frame) /\ frames' # <<>>
      BY <1>1, <1>7, <1>11, NestIs DEF TrapPushRed
    <2>2. sp' \in 0..StackTop /\ clean' \in Seq(Context)
      BY <1>11, Empty DEF TrapPushRed
    <2> QED BY <1>11, <2>1, <2>2 DEF TrapPushRed, TypeOK
  <1>12. CASE TrapRecover
    <2>1. [Top EXCEPT !.step = "leave"] \in Frame /\ Top.prev_sp \in 0..StackTop
      BY <1>2 DEF Frame, Steps
    <2>2. frames' \in Seq(Frame) /\ frames' # <<>>
      BY <1>1, <1>12, <2>1, SetTopIs DEF TrapRecover
    <2>3. stack' \in [Words -> Cells] /\ clean' \in Seq(Context)
      <3>1. Top.prev_sp \in Int
        BY <2>1, Empty
      <3> QED BY <1>12, <3>1, LiveIs, Empty DEF TrapRecover
    <2> QED BY <1>12, <2>1, <2>2, <2>3 DEF TrapRecover, TypeOK
  <1>13. CASE TrapLeave
    BY <1>3, <1>13 DEF TrapLeave, TypeOK, Fatal
  <1>14. CASE TrapCatch
    <2>1. psw' \in Psw
      BY <1>2, <1>14 DEF TrapCatch, Frame
    <2> QED BY <1>3, <1>14, <2>1 DEF TrapCatch, TypeOK
  <1> QED BY <1>4, <1>5, <1>6, <1>8, <1>9, <1>10, <1>11, <1>12, <1>13, <1>14 DEF Trapping

\* The instructions.
LEMMA InstructionTypes ==
  ASSUME TypeOK, Instruction
  PROVE  TypeOK'
  <1>1. \A v \in {4, 8, 168}, c \in {"return", "throw", "red"}, l \in {7, NoIpl} :
          CallTrap(v, l, c) \in Frame
    BY CallTrapIs, VectorsAssumption DEF Callers
  <1>2. \A f \in Frame : Begin(f) =>
          frames' \in Seq(Frame) /\ frames' # <<>> /\ at' = "trap"
    BY BeginIs
  <1>3. sp \in Int /\ sp + 2 \in Int /\ sp + 4 \in Int /\ StackTop \in Nat
    BY StackAssumption, InSpace DEF TypeOK
  <1>4. CASE InstrPlain
    BY <1>4 DEF InstrPlain, machine, TypeOK
  <1>5. CASE InstrTrap \/ InstrFault
    <2>1. frames' \in Seq(Frame) /\ frames' # <<>> /\ at' = "trap"
      BY <1>1, <1>2, <1>5 DEF InstrTrap, InstrFault
    <2> QED BY <1>5, <2>1 DEF InstrTrap, InstrFault, machine, TypeOK
  <1>6. CASE InstrHalt
    <2>1. CASE psw.mode = Kernel
      BY <1>6, <2>1 DEF InstrHalt, TypeOK
    <2>2. CASE psw.mode # Kernel
      <3>1. frames' \in Seq(Frame) /\ frames' # <<>> /\ at' = "trap"
        BY <1>1, <1>2, <1>6, <2>2 DEF InstrHalt
      <3> QED BY <1>6, <2>2, <3>1 DEF InstrHalt, TypeOK
    <2> QED BY <2>1, <2>2
  <1>7. CASE InstrPush
    <2>1. sp' \in 0..StackTop /\ Down(sp) \in Int
      BY <1>7, PushedBelow DEF InstrPush
    <2>2. CASE Unmapped(Down(sp))
      <3>1. frames' \in Seq(Frame) /\ frames' # <<>> /\ at' = "trap"
        BY <1>1, <1>2, <1>7, <2>2 DEF InstrPush
      <3> QED BY <1>7, <2>1, <2>2, <3>1 DEF InstrPush, TypeOK
    <2>3. CASE ~Unmapped(Down(sp))
      <3>1. Store(Down(sp), Junk) \in [Words -> Cells]
        BY <2>1, StoreIs DEF Cells
      <3>2. stack' \in [Words -> Cells]
        BY <1>7, <2>3, <3>1 DEF InstrPush, TypeOK
      <3>3. delayed' \in BOOLEAN
        BY <1>7, <2>3 DEF InstrPush, TypeOK, InYellow, Odd
      <3> QED BY <1>7, <2>1, <2>3, <3>2, <3>3 DEF InstrPush, TypeOK
    <2> QED BY <2>2, <2>3
  <1>8. CASE InstrPushRed
    <2>1. frames' \in Seq(Frame) /\ frames' # <<>> /\ at' = "trap"
      BY <1>1, <1>2, <1>8 DEF InstrPushRed
    <2>2. sp' \in 0..StackTop /\ clean' \in Seq(Context)
      BY <1>8, Empty DEF InstrPushRed
    <2> QED BY <1>8, <2>1, <2>2 DEF InstrPushRed, TypeOK
  <1>9. CASE InstrRti
    <2>1. pc' \in Pcs /\ psw' \in Psw
      BY <1>3, <1>9, PoppedIs DEF InstrRti, setPSW
    <2>2. sp' \in 0..StackTop
      BY <1>9 DEF InstrRti, TypeOK
    <2>3. stack' \in [Words -> Cells]
      BY <1>3, <1>9, LiveIs DEF InstrRti
    <2>4. clean' \in Seq(Context)
      BY <1>9, FrontClean, Empty DEF InstrRti
    <2> QED BY <1>9, <2>1, <2>2, <2>3, <2>4 DEF InstrRti, TypeOK
  <1>10. CASE InstrRtiFaults
    <2>1. CASE Unmapped(sp)
      <3>1. frames' \in Seq(Frame) /\ frames' # <<>> /\ at' = "trap"
        BY <1>1, <1>2, <1>10, <2>1 DEF InstrRtiFaults
      <3> QED BY <1>10, <3>1 DEF InstrRtiFaults, machine, TypeOK
    <2>2. CASE ~Unmapped(sp)
      BY <1>10, <2>2 DEF InstrRtiFaults, machine, TypeOK
    <2> QED BY <2>1, <2>2
  <1>11. CASE InstrRtiFaultsLate
    <2>1. frames' \in Seq(Frame) /\ frames' # <<>> /\ at' = "trap"
      BY <1>1, <1>2, <1>11 DEF InstrRtiFaultsLate
    <2>2. pc' \in Pcs
      BY <1>3, <1>11, PoppedIs DEF InstrRtiFaultsLate
    <2>3. sp' \in 0..StackTop
      BY <1>3, <1>11 DEF InstrRtiFaultsLate, TypeOK
    <2>4. clean' \in Seq(Context)
      BY <1>11, Empty DEF InstrRtiFaultsLate
    <2> QED BY <1>11, <2>1, <2>2, <2>3, <2>4 DEF InstrRtiFaultsLate, TypeOK
  <1>12. ASSUME NEW v \in Psw, InstrUserRti(v)
         PROVE  TypeOK'
    <2>1. setPSW(v, TRUE) \in Psw
      BY DEF setPSW, Psw, TypeOK
    <2> QED BY <1>12, <2>1 DEF InstrUserRti, TypeOK, Pcs
  <1>13. ASSUME NEW a \in {sp, StackTop, StackTop - 1}, NEW l \in Limits,
                NEW m \in Mappings, InstrSetup(a, l, m)
         PROVE  TypeOK'
    <2>1. a \in 0..StackTop
      BY <1>3, Empty DEF TypeOK
    <2>2. stack' \in [Words -> Cells]
      <3>1. a \in Int
        BY <2>1, <1>3
      <3> QED BY <1>13, <3>1, LiveIs DEF InstrSetup
    <2>3. clean' \in Seq(Context)
      BY <1>13, Empty DEF InstrSetup, TypeOK
    <2> QED BY <1>13, <2>1, <2>2, <2>3 DEF InstrSetup, TypeOK
  <1> QED BY <1>4, <1>5, <1>6, <1>7, <1>8, <1>9, <1>10, <1>11, <1>12, <1>13 DEF Instruction

\* The operator's two commands.
LEMMA OperatorTypes ==
  ASSUME TypeOK, Continue \/ Reset
  PROVE  TypeOK'
  <1>1. CASE Continue
    BY <1>1 DEF Continue, TypeOK
  <1>2. CASE Reset
    <2>1. psw' \in Psw /\ pc' \in Pcs /\ origin' \in Modes
      BY <1>2 DEF Reset, Psw, Modes, Pcs
    <2>2. sp' \in 0..StackTop /\ clean' \in Seq(Context)
      BY <1>2, Empty DEF Reset
    <2>3. stack' \in [Words -> Cells]
      BY <1>2 DEF Reset, Cells
    <2>4. depth' \in 0..Fatal
      BY <1>2 DEF Reset, Fatal
    <2> QED BY <1>2, <2>1, <2>2, <2>3, <2>4 DEF Reset, TypeOK
  <1> QED BY <1>1, <1>2

\* Every step keeps the types.
LEMMA NextTypes ==
  ASSUME TypeOK, [Next]_vars
  PROVE  TypeOK'
  <1>1. CASE UNCHANGED vars
    BY <1>1 DEF vars, machine, TypeOK
  <1> QED BY <1>1, StepTypes, TrappingTypes, InstructionTypes, OperatorTypes DEF Next

-----------------------------------------------------------------------------
(***************************************************************************)
(* The steps outside of trap(): what each of them leaves to it.            *)
(***************************************************************************)
Outside ==
  \/ StepDelayed \/ StepNotDelayed \/ StepInstruction
  \/ \E r \in Requests : StepInterrupt(r[1], r[2])
  \/ Instruction
  \/ Continue \/ Reset

\* A new activation: by an instruction, or between two of them.
Begins(f) ==
  /\ Begin(f) /\ f.step = "enter"
  /\ f.caller \in {"interrupt", "delayed"} \/ (at = "instruction" /\ UNCHANGED <<psw, origin>>)
  /\ depth' = depth

BeginsOrNot ==
  /\ at # "trap" /\ depth' \in {0, depth}
  /\ red' /\ ~red => at' = "trap" /\ sp' = 4
  /\ red' /\ event = "halt" => event' = "halt"
  /\ \/ UNCHANGED frames /\ at' # "trap"
     \/ \E f \in Frame : Begins(f)

\* So does every step of step() ...
LEMMA StepBegins ==
  ASSUME TypeOK,
         \/ StepDelayed \/ StepNotDelayed \/ StepInstruction
         \/ \E r \in Requests : StepInterrupt(r[1], r[2])
  PROVE  BeginsOrNot
  <1> USE DEF machine
  <1>1. CASE StepDelayed
    <2> DEFINE f == CallTrap(4, 7, "delayed")
    <2>1. f \in Frame
      BY CallTrapIs, VectorsAssumption DEF Callers
    <2>2. Begins(f)
      BY <1>1 DEF StepDelayed, Begins, CallTrap
    <2> HIDE DEF f
    <2> QED BY <1>1, <2>1, <2>2 DEF StepDelayed, BeginsOrNot
  <1>2. CASE StepNotDelayed \/ StepInstruction
    BY <1>2 DEF StepNotDelayed, StepInstruction, BeginsOrNot
  <1>3. ASSUME NEW r \in Requests, StepInterrupt(r[1], r[2])
        PROVE  BeginsOrNot
    <2> DEFINE f == CallTrap(r[2], r[1], "interrupt")
    <2>1. f \in Frame
      <3>1. r[1] \in 0..7 /\ r[2] \in Vectors
        BY VectorsAssumption
      <3> QED BY <3>1, CallTrapIs DEF Callers
    <2>2. Begins(f)
      BY <1>3 DEF StepInterrupt, Begins, CallTrap
    <2> HIDE DEF f
    <2> QED BY <1>3, <2>1, <2>2 DEF StepInterrupt, BeginsOrNot
  <1> QED BY <1>1, <1>2, <1>3

\* ... of an instruction ...
LEMMA InstructionBegins ==
  ASSUME TypeOK, Instruction
  PROVE  BeginsOrNot
  <1> USE DEF machine
  <1>1. ASSUME NEW v \in {4, 8, 168}, NEW c \in {"return", "throw", "red"},
               NEW l \in {7, NoIpl}, Begin(CallTrap(v, l, c)), at = "instruction",
               UNCHANGED <<psw, origin, depth>>
        PROVE  at' = "trap" /\ \E f \in Frame : Begins(f)
    <2>1. CallTrap(v, l, c) \in Frame
      BY CallTrapIs, VectorsAssumption DEF Callers
    <2>2. Begins(CallTrap(v, l, c))
      BY <1>1 DEF Begins, CallTrap
    <2> QED BY <1>1, <2>1, <2>2 DEF Begin
  <1>2. CASE InstrPlain
    BY <1>2 DEF InstrPlain, BeginsOrNot
  <1>3. CASE InstrTrap \/ InstrFault
    <2>1. at' = "trap" /\ \E f \in Frame : Begins(f)
      BY <1>1, <1>3 DEF InstrTrap, InstrFault
    <2> QED BY <1>3, <2>1 DEF InstrTrap, InstrFault, BeginsOrNot
  <1>4. CASE InstrHalt
    <2>1. CASE psw.mode = Kernel
      BY <1>4, <2>1 DEF InstrHalt, BeginsOrNot
    <2>2. CASE psw.mode # Kernel
      <3>1. at' = "trap" /\ \E f \in Frame : Begins(f)
        BY <1>1, <1>4, <2>2 DEF InstrHalt
      <3> QED BY <1>4, <2>2, <3>1 DEF InstrHalt, BeginsOrNot
    <2> QED BY <2>1, <2>2
  <1>5. CASE InstrPush
    <2>1. CASE Unmapped(Down(sp))
      <3>1. at' = "trap" /\ \E f \in Frame : Begins(f)
        BY <1>1, <1>5, <2>1 DEF InstrPush
      <3> QED BY <1>5, <2>1, <3>1 DEF InstrPush, BeginsOrNot
    <2>2. CASE ~Unmapped(Down(sp))
      BY <1>5, <2>2 DEF InstrPush, BeginsOrNot
    <2> QED BY <2>1, <2>2
  <1>6. CASE InstrPushRed
    <2>1. at' = "trap" /\ \E f \in Frame : Begins(f)
      BY <1>1, <1>6 DEF InstrPushRed
    <2> QED BY <1>6, <2>1 DEF InstrPushRed, BeginsOrNot
  <1>7. CASE InstrRti
    BY <1>7 DEF InstrRti, BeginsOrNot
  <1>8. CASE InstrRtiFaults
    <2>1. CASE Unmapped(sp)
      <3>1. at' = "trap" /\ \E f \in Frame : Begins(f)
        BY <1>1, <1>8, <2>1 DEF InstrRtiFaults
      <3> QED BY <1>8, <2>1, <3>1 DEF InstrRtiFaults, BeginsOrNot
    <2>2. CASE ~Unmapped(sp)
      BY <1>8, <2>2 DEF InstrRtiFaults, BeginsOrNot
    <2> QED BY <2>1, <2>2
  <1>9. CASE InstrRtiFaultsLate
    <2>1. at' = "trap" /\ \E f \in Frame : Begins(f)
      BY <1>1, <1>9 DEF InstrRtiFaultsLate
    <2> QED BY <1>9, <2>1 DEF InstrRtiFaultsLate, BeginsOrNot
  <1>10. ASSUME NEW v \in Psw, InstrUserRti(v)
         PROVE  BeginsOrNot
    BY <1>10 DEF InstrUserRti, BeginsOrNot
  <1>11. ASSUME NEW a \in {sp, StackTop, StackTop - 1}, NEW l \in Limits,
                NEW m \in Mappings, InstrSetup(a, l, m)
         PROVE  BeginsOrNot
    BY <1>11 DEF InstrSetup, BeginsOrNot
  <1> QED BY <1>2, <1>3, <1>4, <1>5, <1>6, <1>7, <1>8, <1>9, <1>10, <1>11 DEF Instruction

\* ... and of the operator.
LEMMA OutsideBegins ==
  ASSUME TypeOK, Outside
  PROVE  BeginsOrNot
  <1>1. CASE Continue
    BY <1>1 DEF Continue, BeginsOrNot
  <1>2. CASE Reset
    BY <1>2 DEF Reset, BeginsOrNot
  <1> QED BY <1>1, <1>2, StepBegins, InstructionBegins DEF Outside

-----------------------------------------------------------------------------
(***************************************************************************)
(* The nesting of trap() and its counter.                                  *)
(***************************************************************************)
LEMMA OutsideNested ==
  ASSUME TypeOK, Nested, Outside
  PROVE  Nested'
  <1>1. at # "trap" /\ depth' \in {0, depth} /\ depth \in {0, Fatal} /\ N = 0
    BY OutsideBegins, FramesType DEF BeginsOrNot, Nested, DepthSettles
  <1>2. CASE UNCHANGED frames /\ at' # "trap"
    <2>1. N' = 0
      BY <1>1, <1>2 DEF N
    <2> QED BY <1>1, <1>2, <2>1 DEF Nested, Waiting, InnermostCounts, DepthSettles
  <1>3. ASSUME NEW f \in Frame, Begins(f)
        PROVE  Nested'
    <2>1. N' = 1 /\ frames'[1] = f /\ at' = "trap" /\ f.step = "enter" /\ depth' = depth
      BY <1>3, BeginIs DEF Begins
    <2>2. CountsAs(f.step, depth', 1)
      BY <1>1, <2>1 DEF CountsAs
    <2> QED BY <2>1, <2>2 DEF Nested, Waiting, InnermostCounts, DepthSettles
  <1> QED BY <1>2, <1>3, OutsideBegins DEF BeginsOrNot

\* A trap in a trap finds the counter of the activation around it ...
LEMMA CountsDeeper ==
  ASSUME NEW n \in Nat, NEW d \in 0..Fatal, NEW step,
         CountsAs(step, d, n), step \in {"fetch", "push_psw", "push_pc"}
  PROVE  CountsAs("enter", d, n + 1)
  BY DEF CountsAs, Fatal

\* ... and one that goes on after it finds a counter that it accepts.
LEMMA CountsAfter ==
  ASSUME NEW n \in Nat, n <= 2, NEW d \in 0..Fatal,
         NEW step \in {"push_pc", "leave", "catch", "recover"},
         step \in {"push_pc", "catch"} => d = Fatal
  PROVE  CountsAs(step, d, n)
  BY DEF CountsAs, Fatal

\* No activation is deeper than the third.
LEMMA CountsBounded ==
  ASSUME NEW n \in Nat, NEW d \in 0..Fatal, NEW step, CountsAs(step, d, n)
  PROVE  n <= 3
  BY DEF CountsAs

\* A step of the innermost activation that causes no other.
LEMMA SetTopNested ==
  ASSUME TypeOK, Nested, NEW f \in Frame, frames # <<>>, frames' = SetTop(f),
         UNCHANGED <<at, unmapped>>, CountsAs(f.step, depth', N),
         N > 1 => WaitsFor(frames[N - 1], f, unmapped)
  PROVE  Nested'
  <1>1. /\ N \in Nat /\ N >= 1 /\ N' = N /\ frames'[N] = f
        /\ \A i \in 1..(N - 1) : frames'[i] = frames[i]
    BY TopIs, SetTopIs DEF N
  <1>2. at' = "trap"
    BY DEF TypeOK
  <1>3. ASSUME NEW i \in 1..(N - 1)
        PROVE  WaitsFor(frames'[i], frames'[i + 1], unmapped')
    <2>1. CASE i = N - 1
      BY <1>1, <2>1
    <2>2. CASE i # N - 1
      <3>1. frames'[i] = frames[i] /\ frames'[i + 1] = frames[i + 1]
        BY <1>1, <2>2
      <3> QED BY <3>1 DEF Nested, Waiting
    <2> QED BY <2>1, <2>2
  <1> QED BY <1>1, <1>2, <1>3 DEF Nested, Waiting, InnermostCounts, DepthSettles

\* The innermost activation causes another one.
LEMMA NestNested ==
  ASSUME TypeOK, Nested, NEW f \in Frame, frames # <<>>, frames' = Nest(f),
         UNCHANGED <<at, depth, unmapped>>, f.step = "enter",
         WaitsFor([frames[N] EXCEPT !.another = TRUE], f, unmapped)
  PROVE  Nested'
  <1> DEFINE g == [frames[N] EXCEPT !.another = TRUE]
  <1>1. /\ N \in Nat /\ N >= 1 /\ N' = N + 1 /\ frames'[N + 1] = f /\ frames'[N] = g
        /\ \A i \in 1..(N - 1) : frames'[i] = frames[i]
        /\ frames[N] \in Frame
    BY TopIs, NestIs DEF N
  <1>2. g.step = frames[N].step /\ g.caller = frames[N].caller
    BY <1>1 DEF Frame
  <1> HIDE DEF g
  <1>3. at' = "trap"
    BY DEF TypeOK
  <1>4. ASSUME NEW i \in 1..N
        PROVE  WaitsFor(frames'[i], frames'[i + 1], unmapped')
    <2>1. CASE i = N
      BY <1>1, <2>1 DEF g
    <2>2. CASE i = N - 1
      <3>1. WaitsFor(frames[i], frames[N], unmapped) /\ frames'[i] = frames[i] /\ frames'[i + 1] = g
        BY <1>1, <2>2 DEF Nested, Waiting
      <3> QED BY <1>2, <3>1 DEF WaitsFor
    <2>3. CASE i # N /\ i # N - 1
      <3>1. frames'[i] = frames[i] /\ frames'[i + 1] = frames[i + 1] /\ i \in 1..(N - 1)
        BY <1>1, <2>3
      <3> QED BY <3>1 DEF Nested, Waiting
    <2> QED BY <2>1, <2>2, <2>3
  <1>5. CountsAs(f.step, depth', N + 1)
    <2>1. CountsAs(frames[N].step, depth, N)
      BY <1>1 DEF Nested, InnermostCounts
    <2>2. frames[N].step \in {"fetch", "push_psw", "push_pc"}
      BY <1>2 DEF WaitsFor, g
    <2>3. depth \in 0..Fatal
      BY DEF TypeOK
    <2> QED BY <1>1, <2>1, <2>2, <2>3, CountsDeeper
  <1> QED BY <1>1, <1>3, <1>4, <1>5 DEF Nested, Waiting, InnermostCounts, DepthSettles

\* The innermost activation ends.
LEMMA ReturnNested ==
  ASSUME TypeOK, Nested, frames # <<>>, NEW d \in {0, Fatal}, Return(d),
         UNCHANGED unmapped,
         frames[N].step # "catch" => frames[N].step \in {"enter", "leave"},
         d = 0 => frames[N].step = "leave"
  PROVE  Nested'
  <1>1. N \in Nat /\ N >= 1 /\ Top = frames[N] /\ \A i \in 1..N : frames[i] \in Frame
    BY TopIs, FramesType
  <1>2. N' = N - 1 /\ depth' = IF Top.caller = "red" THEN Fatal ELSE d
    BY <1>1, ReturnIs
  <1>3. CASE N = 1
    BY <1>2, <1>3 DEF Nested, Waiting, InnermostCounts, DepthSettles
  <1>4. CASE N > 1
    <2> DEFINE g == [frames[N - 1] EXCEPT !.step = ReturnsTo]
    <2>1. /\ at' = "trap" /\ frames'[N - 1] = g
          /\ \A i \in 1..(N - 2) : frames'[i] = frames[i]
      BY <1>4, ReturnIs
    <2>2. g.step = ReturnsTo /\ g.caller = frames[N - 1].caller
      BY <1>1, <1>4 DEF Frame
    <2> HIDE DEF g
    <2>3. /\ WaitsFor(frames[N - 1], frames[N], unmapped)
          /\ N > 2 => WaitsFor(frames[N - 2], frames[N - 1], unmapped)
          /\ CountsAs(frames[N].step, depth, N)
      BY <1>1, <1>4 DEF Nested, Waiting, InnermostCounts
    <2>4. ReturnsTo \in {"push_pc", "leave", "catch", "recover"}
      BY DEF ReturnsTo
    <2>5. ReturnsTo \in {"push_pc", "catch"} => depth' = Fatal
      BY <1>1, <1>2, <2>3 DEF ReturnsTo, WaitsFor
    <2>6. CountsAs(g.step, depth', N - 1)
      <3>0. depth \in 0..Fatal
        BY DEF TypeOK
      <3>1. N - 1 \in Nat /\ N - 1 <= 2
        BY <1>1, <1>4, <2>3, <3>0, CountsBounded
      <3>2. depth' \in 0..Fatal
        BY <1>2 DEF Fatal
      <3> QED BY <2>2, <2>4, <2>5, <3>1, <3>2, CountsAfter
    <2>7. N > 2 /\ frames[N - 2].step = "fetch" => ReturnsTo = "catch"
      BY <1>1, <2>3 DEF ReturnsTo, WaitsFor
    <2>8. ASSUME NEW i \in 1..(N - 2)
          PROVE  WaitsFor(frames'[i], frames'[i + 1], unmapped')
      <3>1. CASE i = N - 2
        <4>1. frames'[i] = frames[N - 2] /\ frames'[i + 1] = g /\ N > 2
          BY <1>1, <2>1, <3>1
        <4>2. WaitsFor(frames[N - 2], g, unmapped)
          BY <2>2, <2>3, <2>7, <4>1 DEF WaitsFor
        <4> QED BY <4>1, <4>2
      <3>2. CASE i # N - 2
        <4>1. frames'[i] = frames[i] /\ frames'[i + 1] = frames[i + 1] /\ i \in 1..(N - 1)
          BY <1>1, <2>1, <3>2
        <4> QED BY <4>1 DEF Nested, Waiting
      <3> QED BY <3>1, <3>2
    <2>9. /\ Waiting'
          /\ InnermostCounts'
      BY <1>1, <1>2, <1>4, <2>1, <2>6, <2>8 DEF Waiting, InnermostCounts
    <2> QED BY <2>1, <2>9 DEF Nested, DepthSettles
  <1>5. N = 1 \/ N > 1
    BY <1>1
  <1> QED BY <1>3, <1>4, <1>5

\* Every step inside of trap() keeps the nesting.
LEMMA TrappingNested ==
  ASSUME TypeOK, Nested, Trapping
  PROVE  Nested'
  <1>1. frames # <<>>
    BY DEF TypeOK, Trapping, TrapHalts, TrapEnter, TrapFetch, TrapFetchFaults, TrapPush,
           TrapPushFaults, TrapPushRed, TrapRecover, TrapLeave, TrapCatch
  <1>2. /\ N \in Nat /\ N >= 1 /\ Top = frames[N] /\ Top \in Frame
        /\ N > 1 => WaitsFor(frames[N - 1], Top, unmapped)
        /\ CountsAs(Top.step, depth, N) /\ depth \in 0..Fatal
    BY <1>1, TopIs DEF Nested, Waiting, InnermostCounts, TypeOK
  <1>3. CASE TrapHalts
    BY <1>1, <1>2, <1>3, ReturnNested DEF TrapHalts, Fatal
  <1>4. CASE TrapEnter
    <2> DEFINE f == [Top EXCEPT !.vector = IF depth + 1 >= 2 /\ psw.mode = Kernel THEN 4 ELSE @,
                                !.psw = psw, !.pc = pc, !.step = "fetch"]
    <2>1. f \in Frame
      <3>1. psw \in Psw /\ pc \in Pcs /\ 4 \in Vectors
        BY VectorsAssumption DEF TypeOK
      <3> QED BY <1>2, <3>1 DEF Frame, Steps
    <2>2. f.step = "fetch" /\ f.caller = Top.caller
      BY <1>2 DEF Frame
    <2>3. frames' = SetTop(f) /\ depth' = depth + 1 /\ UNCHANGED <<at, unmapped>>
      BY <1>4 DEF TrapEnter
    <2> HIDE DEF f
    <2>4. CountsAs(f.step, depth', N)
      BY <1>2, <1>4, <2>2, <2>3 DEF TrapEnter, GivesUp, CountsAs, Fatal
    <2>5. N > 1 => WaitsFor(frames[N - 1], f, unmapped)
      BY <1>2, <2>2 DEF WaitsFor
    <2> QED BY <1>1, <2>1, <2>3, <2>4, <2>5, SetTopNested
  <1>5. CASE TrapFetch
    <2> DEFINE f == [Top EXCEPT !.prev_sp = sp, !.step = "push_psw"]
    <2>1. f \in Frame
      BY <1>2 DEF Frame, Steps, TypeOK
    <2>2. f.step = "push_psw" /\ f.caller = Top.caller
      BY <1>2 DEF Frame
    <2>3. frames' = SetTop(f) /\ depth' = depth /\ UNCHANGED <<at, unmapped>>
      BY <1>5 DEF TrapFetch
    <2> HIDE DEF f
    <2>4. CountsAs(f.step, depth', N)
      BY <1>2, <1>5, <2>2, <2>3 DEF TrapFetch, CountsAs
    <2>5. N > 1 => WaitsFor(frames[N - 1], f, unmapped)
      BY <1>2, <1>5, <2>2 DEF TrapFetch, WaitsFor
    <2> QED BY <1>1, <2>1, <2>3, <2>4, <2>5, SetTopNested
  <1>6. ASSUME NEW f \in Frame, f.step = "enter", f.caller \in {"throw", "red"},
               Top.step \in {"fetch", "push_psw", "push_pc"},
               Top.step = "fetch" => "vectors" \in unmapped /\ f.caller = "throw"
        PROVE  WaitsFor([frames[N] EXCEPT !.another = TRUE], f, unmapped)
    <2>1. /\ [Top EXCEPT !.another = TRUE].step = Top.step
          /\ [Top EXCEPT !.another = TRUE].another = TRUE
      BY <1>2 DEF Frame
    <2> QED BY <1>2, <1>6, <2>1 DEF WaitsFor
  <1>7. \A v \in {4, 168}, c \in {"throw", "red"}, l \in {7, NoIpl} :
          /\ CallTrap(v, l, c) \in Frame
          /\ CallTrap(v, l, c).step = "enter" /\ CallTrap(v, l, c).caller = c
    <2>1. \A v \in {4, 168}, c \in {"throw", "red"}, l \in {7, NoIpl} :
            CallTrap(v, l, c) \in Frame
      BY CallTrapIs, VectorsAssumption DEF Callers
    <2>2. \A v, c, l : CallTrap(v, l, c).step = "enter" /\ CallTrap(v, l, c).caller = c
      BY DEF CallTrap
    <2> QED BY <2>1, <2>2
  <1>8. CASE TrapFetchFaults
    <2> DEFINE f == CallTrap(168, NoIpl, "throw")
    <2>1. f \in Frame /\ f.step = "enter" /\ f.caller = "throw"
      BY <1>7
    <2>2. /\ frames' = Nest(f) /\ UNCHANGED <<at, depth, unmapped>>
          /\ Top.step = "fetch" /\ "vectors" \in unmapped
      BY <1>8 DEF TrapFetchFaults, machine
    <2> HIDE DEF f
    <2>3. WaitsFor([frames[N] EXCEPT !.another = TRUE], f, unmapped)
      BY <1>6, <2>1, <2>2
    <2> QED BY <1>1, <2>1, <2>2, <2>3, NestNested
  <1>9. CASE TrapPush
    <2> DEFINE f == [Top EXCEPT !.step = IF @ = "push_psw" THEN "push_pc" ELSE "leave"]
    <2>1. f \in Frame
      BY <1>2 DEF Frame, Steps
    <2>2. /\ f.step = IF Top.step = "push_psw" THEN "push_pc" ELSE "leave"
          /\ f.caller = Top.caller
      BY <1>2 DEF Frame
    <2>3. frames' = SetTop(f) /\ depth' = depth /\ UNCHANGED <<at, unmapped>>
      BY <1>9 DEF TrapPush
    <2>4. Top.step \in {"push_psw", "push_pc"}
      BY <1>9 DEF TrapPush
    <2> HIDE DEF f
    <2>5. CountsAs(f.step, depth', N)
      BY <1>2, <2>2, <2>3, <2>4 DEF CountsAs
    <2>6. N > 1 => WaitsFor(frames[N - 1], f, unmapped)
      BY <1>2, <2>2, <2>4 DEF WaitsFor
    <2> QED BY <1>1, <2>1, <2>3, <2>5, <2>6, SetTopNested
  <1>10. CASE TrapPushFaults
    <2>1. CASE Unmapped(Down(sp))
      <3> DEFINE f == CallTrap(168, NoIpl, "throw")
      <3>1. f \in Frame /\ f.step = "enter" /\ f.caller = "throw"
        BY <1>7
      <3>2. /\ frames' = Nest(f) /\ UNCHANGED <<at, depth, unmapped>>
            /\ Top.step \in {"push_psw", "push_pc"}
        BY <1>10, <2>1 DEF TrapPushFaults
      <3> HIDE DEF f
      <3>3. WaitsFor([frames[N] EXCEPT !.another = TRUE], f, unmapped)
        BY <1>6, <3>1, <3>2
      <3> QED BY <1>1, <3>1, <3>2, <3>3, NestNested
    <2>2. CASE ~Unmapped(Down(sp))
      <3> DEFINE f == [Top EXCEPT !.step = "recover"]
      <3>1. f \in Frame /\ f.step = "recover" /\ f.caller = Top.caller
        BY <1>2 DEF Frame, Steps
      <3>2. /\ frames' = SetTop(f) /\ UNCHANGED <<at, depth, unmapped>>
            /\ Top.step \in {"push_psw", "push_pc"}
        BY <1>10, <2>2 DEF TrapPushFaults
      <3> HIDE DEF f
      <3>3. CountsAs(f.step, depth', N)
        BY <1>2, <3>1, <3>2 DEF CountsAs
      <3>4. N > 1 => WaitsFor(frames[N - 1], f, unmapped)
        BY <1>2, <3>1, <3>2 DEF WaitsFor
      <3> QED BY <1>1, <3>1, <3>2, <3>3, <3>4, SetTopNested
    <2> QED BY <2>1, <2>2
  <1>11. CASE TrapPushRed
    <2> DEFINE f == CallTrap(4, 7, "red")
    <2>1. f \in Frame /\ f.step = "enter" /\ f.caller = "red"
      BY <1>7
    <2>2. /\ frames' = Nest(f) /\ UNCHANGED <<at, depth, unmapped>>
          /\ Top.step \in {"push_psw", "push_pc"}
      BY <1>11 DEF TrapPushRed
    <2> HIDE DEF f
    <2>3. WaitsFor([frames[N] EXCEPT !.another = TRUE], f, unmapped)
      BY <1>6, <2>1, <2>2
    <2> QED BY <1>1, <2>1, <2>2, <2>3, NestNested
  <1>12. CASE TrapRecover
    <2> DEFINE f == [Top EXCEPT !.step = "leave"]
    <2>1. f \in Frame /\ f.step = "leave" /\ f.caller = Top.caller
      BY <1>2 DEF Frame, Steps
    <2>2. /\ frames' = SetTop(f) /\ UNCHANGED <<at, depth, unmapped>> /\ Top.step = "recover"
      BY <1>12 DEF TrapRecover
    <2> HIDE DEF f
    <2>3. CountsAs(f.step, depth', N)
      BY <1>2, <2>1, <2>2 DEF CountsAs
    <2>4. N > 1 => WaitsFor(frames[N - 1], f, unmapped)
      BY <1>2, <2>1, <2>2 DEF WaitsFor
    <2> QED BY <1>1, <2>1, <2>2, <2>3, <2>4, SetTopNested
  <1>13. CASE TrapLeave
    BY <1>1, <1>2, <1>13, ReturnNested DEF TrapLeave
  <1>14. CASE TrapCatch
    <2>1. depth = Fatal
      BY <1>2, <1>14 DEF TrapCatch, CountsAs
    <2> QED BY <1>1, <1>2, <1>14, <2>1, ReturnNested DEF TrapCatch, Fatal
  <1> QED BY <1>3, <1>4, <1>5, <1>8, <1>9, <1>10, <1>11, <1>12, <1>13, <1>14 DEF Trapping

-----------------------------------------------------------------------------
(***************************************************************************)
(* A push in the red zone.                                                 *)
(***************************************************************************)
LEMMA OutsideRed ==
  ASSUME TypeOK, RedFalls, Outside
  PROVE  RedFalls'
  <1>1. at # "trap" /\ (red => event = "halt")
    BY OutsideBegins DEF BeginsOrNot, RedFalls
  <1>2. CASE red' /\ event' # "halt"
    <2>1. at' = "trap" /\ sp' = 4
      BY <1>1, <1>2, OutsideBegins DEF BeginsOrNot
    <2>2. PICK f \in Frame : Begins(f)
      BY <2>1, OutsideBegins DEF BeginsOrNot
    <2>3. N' = 1 /\ frames'[1].step = "enter"
      BY <2>2, BeginIs DEF Begins
    <2> QED BY <2>1, <2>3 DEF RedFalls
  <1> QED BY <1>2 DEF RedFalls

\* What the steps of trap() start from.
LEMMA InTrap ==
  ASSUME TypeOK, Trapping
  PROVE  /\ frames # <<>> /\ at = "trap" /\ N \in Nat /\ N >= 1
         /\ Top = frames[N] /\ Top \in Frame /\ frames[1] \in Frame
  <1>1. frames # <<>> /\ at = "trap"
    BY DEF TypeOK, Trapping, TrapHalts, TrapEnter, TrapFetch, TrapFetchFaults, TrapPush,
           TrapPushFaults, TrapPushRed, TrapRecover, TrapLeave, TrapCatch
  <1> QED BY <1>1, TopIs, FramesType

\* What a step that replaces the innermost activation, or causes another
\* one, makes of the stack of activations.
LEMMA SetTopMakes ==
  ASSUME TypeOK, frames # <<>>, NEW f \in Frame, frames' = SetTop(f)
  PROVE  /\ N' = N /\ frames'[N] = f
         /\ N = 1 => frames'[1] = f
         /\ N > 1 => frames'[1] = frames[1]
  <1>1. N \in Nat /\ N >= 1
    BY TopIs
  <1>2. N' = N /\ frames'[N] = f /\ \A i \in 1..(N - 1) : frames'[i] = frames[i]
    BY SetTopIs DEF N
  <1> QED BY <1>1, <1>2

LEMMA NestMakes ==
  ASSUME TypeOK, frames # <<>>, NEW f \in Frame, frames' = Nest(f)
  PROVE  /\ N' = N + 1 /\ frames'[N + 1] = f
         /\ frames'[1].step = frames[1].step /\ frames'[1].psw = frames[1].psw
         /\ frames'[1].caller = frames[1].caller
  <1>1. N \in Nat /\ N >= 1 /\ Top = frames[N] /\ frames[N] \in Frame
    BY TopIs
  <1>2. /\ N' = N + 1 /\ frames'[N + 1] = f
        /\ frames'[N] = [frames[N] EXCEPT !.another = TRUE]
        /\ \A i \in 1..(N - 1) : frames'[i] = frames[i]
    BY NestIs DEF N
  <1>3. CASE N = 1
    BY <1>1, <1>2, <1>3 DEF Frame
  <1>4. CASE N > 1
    BY <1>1, <1>2, <1>4
  <1> QED BY <1>1, <1>2, <1>3, <1>4

LEMMA TrappingRed ==
  ASSUME TypeOK, RedFalls, Trapping
  PROVE  RedFalls'
  <1>1. /\ frames # <<>> /\ at = "trap" /\ N \in Nat /\ N >= 1
        /\ Top = frames[N] /\ Top \in Frame
    BY InTrap
  <1>2. CASE TrapHalts
    BY <1>2 DEF TrapHalts, RedFalls
  <1>3. CASE TrapLeave \/ TrapCatch \/ TrapRecover
    BY <1>1, <1>3 DEF TrapLeave, TrapCatch, TrapRecover, RedFalls
  <1>4. CASE TrapPush \/ TrapPushFaults
    BY <1>1, <1>4, RedZone DEF TrapPush, TrapPushFaults, RedFalls
  <1>5. ASSUME NEW f \in Frame, frames' = SetTop(f) \/ frames' = Nest(f),
               f.step \in {"enter", "fetch", "push_psw"}, at' = "trap",
               red' => sp' = 4 \/ (red /\ event' = event /\ UNCHANGED sp)
        PROVE  RedFalls'
    <2>1. frames'[N'] = f
      BY <1>1, <1>5, SetTopMakes, NestMakes
    <2> QED BY <1>5, <2>1 DEF RedFalls
  <1>6. \A v \in {4, 168}, c \in {"throw", "red"}, l \in {7, NoIpl} :
          CallTrap(v, l, c) \in Frame
    BY CallTrapIs, VectorsAssumption DEF Callers
  <1>7. \A v, c, l : CallTrap(v, l, c).step = "enter"
    BY DEF CallTrap
  <1>8. CASE TrapEnter
    <2> DEFINE f == [Top EXCEPT !.vector = IF depth + 1 >= 2 /\ psw.mode = Kernel THEN 4 ELSE @,
                                !.psw = psw, !.pc = pc, !.step = "fetch"]
    <2>1. f \in Frame
      BY <1>1, VectorsAssumption DEF Frame, Steps, TypeOK
    <2>2. f.step = "fetch"
      BY <1>1 DEF Frame
    <2>3. frames' = SetTop(f)
      BY <1>8 DEF TrapEnter
    <2>4. red' => sp' = 4 \/ (red /\ event' = event /\ UNCHANGED sp)
      BY <1>8 DEF TrapEnter
    <2>5. at' = "trap"
      BY <1>1, <1>8 DEF TrapEnter
    <2> HIDE DEF f
    <2> QED BY <1>5, <2>1, <2>2, <2>3, <2>4, <2>5
  <1>9. CASE TrapFetch
    <2> DEFINE f == [Top EXCEPT !.prev_sp = sp, !.step = "push_psw"]
    <2>1. f \in Frame
      BY <1>1 DEF Frame, Steps, TypeOK
    <2>2. f.step = "push_psw"
      BY <1>1 DEF Frame
    <2>3. frames' = SetTop(f) /\ at' = "trap" /\ UNCHANGED <<red, event, sp>>
      BY <1>1, <1>9 DEF TrapFetch
    <2> HIDE DEF f
    <2> QED BY <1>5, <2>1, <2>2, <2>3
  <1>10. CASE TrapFetchFaults
    <2>1. frames' = Nest(CallTrap(168, NoIpl, "throw")) /\ at' = "trap"
          /\ UNCHANGED <<red, event, sp>>
      BY <1>1, <1>10 DEF TrapFetchFaults, machine
    <2> QED BY <1>5, <1>6, <1>7, <2>1
  <1>11. CASE TrapPushRed
    <2>1. frames' = Nest(CallTrap(4, 7, "red")) /\ at' = "trap" /\ sp' = 4
      BY <1>1, <1>11 DEF TrapPushRed
    <2> QED BY <1>5, <1>6, <1>7, <2>1
  <1> QED BY <1>2, <1>3, <1>4, <1>8, <1>9, <1>10, <1>11 DEF Trapping

-----------------------------------------------------------------------------
(***************************************************************************)
(* From the user's mode into the kernel.                                   *)
(***************************************************************************)

\* A step that begins a trap.
LEMMA BeginsUser ==
  ASSUME TypeOK, UserKept, NEW f \in Frame, Begins(f)
  PROVE  UserKept'
  <1>1. N' = 1 /\ frames'[1] = f /\ at' = "trap" /\ f.step = "enter"
    BY BeginIs DEF Begins
  <1>2. f.caller \in {"interrupt", "delayed"} \/ (at = "instruction" /\ UNCHANGED <<psw, origin>>)
    BY DEF Begins
  <1>3. f.caller \in {"return", "throw", "red"} /\ origin' = User =>
          BackToUser(f, psw'.mode, pc')
    BY <1>1, <1>2 DEF UserKept, BackToUser
  <1> QED BY <1>1, <1>3 DEF UserKept, KernelEntryAtHandler

\* A step that begins none and ends the instruction.
LEMMA EndsUser ==
  ASSUME TypeOK, UserKept, at' = "boundary",
         \/ UNCHANGED <<psw, origin>> /\ at = "instruction"
         \/ UNCHANGED <<psw, pc, origin, at>>
         \/ at = "instruction" /\ UNCHANGED origin /\ origin # User
         \/ UNCHANGED origin /\ psw'.mode = User
         \/ origin' = Kernel
  PROVE  UserKept'
  BY DEF UserKept, KernelEntryAtHandler, Kernel, User

LEMMA OutsideUser ==
  ASSUME TypeOK, UserKept, Outside
  PROVE  UserKept'
  <1>1. CASE \E f \in Frame : Begins(f)
    BY <1>1, BeginsUser
  <1>2. CASE UNCHANGED frames /\ at' # "trap"
    <2> USE DEF machine
    <2>1. CASE StepDelayed \/ \E r \in Requests : StepInterrupt(r[1], r[2])
      BY <1>2, <2>1 DEF StepDelayed, StepInterrupt, Begin
    <2>2. CASE StepNotDelayed
      BY <2>2 DEF StepNotDelayed, UserKept, KernelEntryAtHandler
    <2>3. CASE StepInstruction
      BY <2>3 DEF StepInstruction, UserKept, KernelEntryAtHandler
    <2>4. CASE InstrPlain \/ InstrHalt \/ InstrPush \/ InstrRtiFaults
      <3>1. at' = "boundary" /\ at = "instruction" /\ UNCHANGED <<psw, origin>>
        BY <1>2, <2>4 DEF InstrPlain, InstrHalt, InstrPush, InstrRtiFaults, Begin
      <3> QED BY <3>1, EndsUser
    <2>5. CASE InstrTrap \/ InstrFault \/ InstrPushRed \/ InstrRtiFaultsLate
      BY <1>2, <2>5 DEF InstrTrap, InstrFault, InstrPushRed, InstrRtiFaultsLate, Begin
    <2>6. CASE InstrRti
      <3>1. at' = "boundary" /\ at = "instruction" /\ psw.mode = Kernel /\ UNCHANGED origin
        BY <2>6 DEF InstrRti
      <3>2. origin # User
        BY <3>1 DEF UserKept, Kernel, User
      <3> QED BY <3>1, <3>2, EndsUser
    <2>7. ASSUME NEW v \in Psw, InstrUserRti(v)
          PROVE  UserKept'
      <3>1. at' = "boundary" /\ UNCHANGED origin /\ psw' = setPSW(v, TRUE) /\ psw.mode = User
        BY <2>7 DEF InstrUserRti
      <3>2. v.mode \in Modes
        BY DEF Psw
      <3>3. psw'.mode = User
        BY <3>1, <3>2 DEF setPSW, Modes, Kernel, User
      <3> QED BY <3>1, <3>3, EndsUser
    <2>8. ASSUME NEW a \in {sp, StackTop, StackTop - 1}, NEW l \in Limits,
                  NEW m \in Mappings, InstrSetup(a, l, m)
          PROVE  UserKept'
      <3>1. at' = "boundary" /\ at = "instruction" /\ UNCHANGED <<psw, origin>>
        BY <2>8 DEF InstrSetup
      <3> QED BY <3>1, EndsUser
    <2>9. CASE Continue
      <3>1. at' = "boundary" /\ UNCHANGED <<psw, pc, origin, at>>
        BY <2>9 DEF Continue
      <3> QED BY <3>1, EndsUser
    <2>10. CASE Reset
      <3>1. at' = "boundary" /\ origin' = Kernel
        BY <2>10 DEF Reset
      <3> QED BY <3>1, EndsUser
    <2> QED BY <2>1, <2>2, <2>3, <2>4, <2>5, <2>6, <2>7, <2>8, <2>9, <2>10 DEF Outside, Instruction
  <1> QED BY <1>1, <1>2, OutsideBegins DEF BeginsOrNot

\* The innermost activation ends.
LEMMA ReturnUser ==
  ASSUME TypeOK, Nested, UserKept, at = "trap", frames # <<>>, NEW d, Return(d),
         UNCHANGED pc,
         \/ Top.step = "enter" /\ UNCHANGED psw
         \/ Top.step = "leave" /\ UNCHANGED psw
         \/ Top.step = "catch" /\ psw' = Top.psw
  PROVE  UserKept'
  <1>1. N \in Nat /\ N >= 1 /\ Top = frames[N] /\ Top \in Frame /\ frames[1] \in Frame
    BY TopIs, FramesType
  <1>2. frames[1].caller \in {"return", "throw", "red"} /\ origin = User =>
          BackToUser(frames[1], psw.mode, pc)
    BY DEF UserKept
  <1>3. origin' = IF Top.caller = "interrupt" THEN psw'.mode ELSE origin
    BY ReturnIs
  <1>4. CASE N = 1
    <2>1. frames' = <<>> /\ at' = Resumes(Top.caller)
      BY <1>4, ReturnIs
    <2>2. at' # "trap" /\ (at' = "instruction" <=> Top.caller = "interrupt")
          /\ (at' = "boundary" => Top.caller \in {"return", "throw", "red"})
      BY <1>1, <2>1 DEF Resumes, Frame, Callers
    <2>3. at' = "instruction" => origin' = psw'.mode
      BY <1>3, <2>2
    <2>4. ASSUME at' = "boundary", origin' = User, psw'.mode = Kernel
          PROVE  pc' \in Vectors
      <3>1. origin = User /\ BackToUser(Top, psw.mode, pc)
        BY <1>1, <1>2, <1>3, <1>4, <2>2, <2>4
      <3> QED BY <2>4, <3>1 DEF BackToUser, Kernel, User
    <2> QED BY <2>2, <2>3, <2>4 DEF UserKept, KernelEntryAtHandler
  <1>5. CASE N > 1
    <2>1. /\ at' = "trap" /\ frames'[N - 1] = [frames[N - 1] EXCEPT !.step = ReturnsTo]
          /\ \A i \in 1..(N - 2) : frames'[i] = frames[i]
      BY <1>5, ReturnIs
    <2>2. WaitsFor(frames[N - 1], Top, unmapped) /\ WaitsFor(frames[1], frames[2], unmapped)
      BY <1>1, <1>5 DEF Nested, Waiting
    <2>3. origin' = origin
      BY <1>3, <2>2 DEF WaitsFor
    <2>4. /\ frames[1].step \in {"fetch", "push_psw", "push_pc"}
          /\ frames[1].step = "fetch" /\ N = 2 => ReturnsTo = "catch"
          /\ frames[1].step # "fetch" /\ N = 2 => ReturnsTo \in {"push_pc", "leave", "recover"}
      BY <1>1, <2>2 DEF WaitsFor, ReturnsTo
    <2>5. /\ frames'[1].caller = frames[1].caller /\ frames'[1].psw = frames[1].psw
          /\ frames'[1].step = IF N = 2 THEN ReturnsTo ELSE frames[1].step
      <3>1. CASE N = 2
        BY <1>1, <2>1, <3>1 DEF Frame
      <3>2. CASE N > 2
        BY <1>1, <2>1, <3>2
      <3> QED BY <1>1, <1>5, <3>1, <3>2
    <2>6. frames'[1].caller \in {"return", "throw", "red"} /\ origin' = User =>
            BackToUser(frames'[1], psw'.mode, pc')
      BY <1>2, <2>3, <2>4, <2>5 DEF BackToUser
    <2> QED BY <2>1, <2>6 DEF UserKept, KernelEntryAtHandler
  <1>6. N = 1 \/ N > 1
    BY <1>1
  <1> QED BY <1>4, <1>5, <1>6

\* The innermost activation goes on, or causes another one.
LEMMA TrappingUser ==
  ASSUME TypeOK, Nested, UserKept, Trapping
  PROVE  UserKept'
  <1>1. /\ frames # <<>> /\ at = "trap" /\ N \in Nat /\ N >= 1
        /\ Top = frames[N] /\ Top \in Frame /\ frames[1] \in Frame
    BY InTrap
  <1>2. frames[1].caller \in {"return", "throw", "red"} /\ origin = User =>
          BackToUser(frames[1], psw.mode, pc)
    BY <1>1 DEF UserKept
  <1>3. N > 1 => frames[1].step \in {"fetch", "push_psw", "push_pc"}
    <2>1. N > 1 => WaitsFor(frames[1], frames[2], unmapped)
      BY <1>1 DEF Nested, Waiting
    <2> QED BY <2>1 DEF WaitsFor
  <1>4. ASSUME NEW f \in Frame, frames' = SetTop(f), f.caller = Top.caller,
               UNCHANGED <<at, origin>>, pc' \in {pc} \cup Vectors,
               N = 1 /\ BackToUser(Top, psw.mode, pc) => BackToUser(f, psw'.mode, pc')
        PROVE  UserKept'
    <2>1. CASE N = 1
      <3>1. frames'[1] = f /\ frames[1] = Top
        BY <1>1, <1>4, <2>1, SetTopMakes
      <3> QED BY <1>1, <1>2, <1>4, <2>1, <3>1 DEF UserKept, KernelEntryAtHandler
    <2>2. CASE N > 1
      <3>1. frames'[1] = frames[1]
        BY <1>1, <1>4, <2>2, SetTopMakes
      <3>2. BackToUser(frames[1], psw.mode, pc) => BackToUser(frames'[1], psw'.mode, pc')
        BY <1>3, <1>4, <2>2, <3>1 DEF BackToUser
      <3> QED BY <1>1, <1>2, <1>4, <3>1, <3>2 DEF UserKept, KernelEntryAtHandler
    <2> QED BY <1>1, <2>1, <2>2
  <1>5. ASSUME NEW f \in Frame, frames' = Nest(f), UNCHANGED <<at, origin, psw, pc>>
        PROVE  UserKept'
    <2>1. /\ frames'[1].step = frames[1].step /\ frames'[1].psw = frames[1].psw
          /\ frames'[1].caller = frames[1].caller
      BY <1>1, <1>5, NestMakes
    <2>2. BackToUser(frames[1], psw.mode, pc) => BackToUser(frames'[1], psw'.mode, pc')
      BY <1>5, <2>1 DEF BackToUser
    <2> QED BY <1>1, <1>2, <1>5, <2>1, <2>2 DEF UserKept, KernelEntryAtHandler
  <1>6. CASE TrapHalts \/ TrapLeave \/ TrapCatch
    BY <1>1, <1>6, ReturnUser DEF TrapHalts, TrapLeave, TrapCatch
  <1>7. CASE TrapEnter
    <2> DEFINE f == [Top EXCEPT !.vector = IF depth + 1 >= 2 /\ psw.mode = Kernel THEN 4 ELSE @,
                                !.psw = psw, !.pc = pc, !.step = "fetch"]
    <2>1. f \in Frame
      BY <1>1, VectorsAssumption DEF Frame, Steps, TypeOK
    <2>2. f.step = "fetch" /\ f.psw = psw /\ f.caller = Top.caller
      BY <1>1 DEF Frame
    <2>3. frames' = SetTop(f) /\ Top.step = "enter" /\ UNCHANGED <<at, origin, pc>>
      BY <1>7 DEF TrapEnter
    <2> HIDE DEF f
    <2>4. BackToUser(Top, psw.mode, pc) => BackToUser(f, psw'.mode, pc')
      BY <2>2, <2>3 DEF BackToUser
    <2> QED BY <1>4, <2>1, <2>2, <2>3, <2>4
  <1>8. CASE TrapFetch
    <2> DEFINE f == [Top EXCEPT !.prev_sp = sp, !.step = "push_psw"]
    <2>1. f \in Frame
      BY <1>1 DEF Frame, Steps, TypeOK
    <2>2. f.step = "push_psw" /\ f.caller = Top.caller
      BY <1>1 DEF Frame
    <2>3. frames' = SetTop(f) /\ pc' \in Vectors /\ UNCHANGED <<at, origin>>
      BY <1>1, <1>8 DEF TrapFetch, Frame
    <2> HIDE DEF f
    <2>4. BackToUser(f, psw'.mode, pc')
      BY <2>2, <2>3 DEF BackToUser
    <2> QED BY <1>4, <2>1, <2>2, <2>3, <2>4
  <1>9. \A v \in {4, 168}, c \in {"throw", "red"}, l \in {7, NoIpl} :
          CallTrap(v, l, c) \in Frame
    BY CallTrapIs, VectorsAssumption DEF Callers
  <1>10. CASE TrapFetchFaults \/ TrapPushRed
    BY <1>5, <1>9, <1>10 DEF TrapFetchFaults, TrapPushRed, machine
  <1>11. ASSUME NEW s \in {"push_pc", "leave", "recover"},
                Top.step \in {"push_psw", "push_pc", "recover"},
                frames' = SetTop([Top EXCEPT !.step = s]),
                UNCHANGED <<at, origin, psw, pc>>
         PROVE  UserKept'
    <2> DEFINE f == [Top EXCEPT !.step = s]
    <2>1. f \in Frame /\ f.step = s /\ f.caller = Top.caller
      BY <1>1 DEF Frame, Steps
    <2>2. frames' = SetTop(f)
      BY <1>11
    <2> HIDE DEF f
    <2>3. BackToUser(Top, psw.mode, pc) => BackToUser(f, psw'.mode, pc')
      BY <1>11, <2>1 DEF BackToUser
    <2> QED BY <1>4, <1>11, <2>1, <2>2, <2>3
  <1>12. CASE TrapPush
    <2>1. frames' = SetTop([Top EXCEPT !.step = IF @ = "push_psw" THEN "push_pc" ELSE "leave"])
      BY <1>12 DEF TrapPush
    <2>2. /\ Top.step \in {"push_psw", "push_pc", "recover"}
          /\ UNCHANGED <<at, origin, psw, pc>>
      BY <1>12 DEF TrapPush
    <2>3. CASE Top.step = "push_psw"
      <3>1. frames' = SetTop([Top EXCEPT !.step = "push_pc"])
        BY <2>1, <2>3
      <3> QED BY <1>11, <2>2, <3>1
    <2>4. CASE Top.step # "push_psw"
      <3>1. frames' = SetTop([Top EXCEPT !.step = "leave"])
        BY <2>1, <2>4
      <3> QED BY <1>11, <2>2, <3>1
    <2> QED BY <2>3, <2>4
  <1>13. CASE TrapPushFaults
    <2>1. CASE Unmapped(Down(sp))
      BY <1>5, <1>9, <1>13, <2>1 DEF TrapPushFaults
    <2>2. CASE ~Unmapped(Down(sp))
      <3>1. /\ frames' = SetTop([Top EXCEPT !.step = "recover"])
            /\ Top.step \in {"push_psw", "push_pc", "recover"}
            /\ UNCHANGED <<at, origin, psw, pc>>
        BY <1>13, <2>2 DEF TrapPushFaults
      <3> QED BY <1>11, <3>1
    <2> QED BY <2>1, <2>2
  <1>14. CASE TrapRecover
    <2>1. /\ frames' = SetTop([Top EXCEPT !.step = "leave"])
          /\ Top.step \in {"push_psw", "push_pc", "recover"}
          /\ UNCHANGED <<at, origin, psw, pc>>
      BY <1>14 DEF TrapRecover
    <2> QED BY <1>11, <2>1
  <1> QED BY <1>6, <1>7, <1>8, <1>10, <1>12, <1>13, <1>14 DEF Trapping

-----------------------------------------------------------------------------
(***************************************************************************)
(* The contexts that trap() saved.                                         *)
(***************************************************************************)

\* A context's two words are words of the stack.
LEMMA ContextWords ==
  ASSUME TypeOK, NEW c \in Context, NEW s \in Nat, NEW words, OnStack(c, s, words)
  PROVE  /\ c.sp \in Nat /\ c.sp - 4 \in Words /\ c.sp - 2 \in Words
         /\ s <= c.sp - 4 /\ s <= c.sp - 2
  <1>1. c.sp \in 0..StackTop /\ StackTop \in Nat
    BY Empty DEF Context
  <1> QED BY <1>1 DEF OnStack, Words

\* They stay where they are while the stack pointer goes down and only words
\* below it change.
LEMMA OnStackStays ==
  ASSUME TypeOK, NEW c \in Context, NEW s \in Nat, NEW t \in Nat, NEW words, NEW others,
         OnStack(c, s, words), t <= c.sp - 4,
         \A w \in Words : w >= c.sp - 4 => others[w] = words[w]
  PROVE  OnStack(c, t, others)
  <1>1. c.sp \in Nat /\ c.sp - 4 \in Words /\ c.sp - 2 \in Words
    BY ContextWords
  <1>2. others[c.sp - 4] = words[c.sp - 4] /\ others[c.sp - 2] = words[c.sp - 2]
    BY <1>1
  <1> QED BY <1>2 DEF OnStack

LEMMA ContextsStay ==
  ASSUME TypeOK, Contexts, UNCHANGED clean, sp' \in Nat, sp' <= sp,
         \A w \in Words : w >= sp => stack'[w] = stack[w]
  PROVE  Contexts'
  <1>1. sp \in Nat
    BY Empty DEF TypeOK
  <1>2. ASSUME NEW i \in 1..Len(clean)
        PROVE  OnStack(clean[i], sp', stack')
    <2>1. clean[i] \in Context /\ OnStack(clean[i], sp, stack)
      BY ElementOfSeq DEF TypeOK, Contexts
    <2>2. clean[i].sp \in Nat /\ sp <= clean[i].sp - 4
      BY <1>1, <2>1, ContextWords
    <2>3. \A w \in Words : w \in Int
      BY Empty DEF Words
    <2>4. \A w \in Words : w >= clean[i].sp - 4 => stack'[w] = stack[w]
      BY <1>1, <2>2, <2>3
    <2>5. sp' <= clean[i].sp - 4
      BY <1>1, <2>2
    <2> QED BY <1>1, <2>1, <2>4, <2>5, OnStackStays
  <1> QED BY <1>2 DEF Contexts

\* Without contexts there is nothing to keep.
LEMMA ContextsGone ==
  ASSUME clean' = <<>>
  PROVE  Contexts'
  <1>1. Len(clean') = 0
    BY EmptySeq
  <1> QED BY <1>1 DEF Contexts

\* A step that is not between two pushes has no half context.
LEMMA NoHalf ==
  ASSUME NEW f, NEW s, NEW words, NEW saved, f.step \notin {"push_psw", "push_pc"}
  PROVE  HalfSaved(f, s, words, saved)
  BY DEF HalfSaved

LEMMA OutsideHalf ==
  ASSUME TypeOK, Outside
  PROVE  HalfContext'
  <1>1. CASE UNCHANGED frames /\ at' # "trap"
    <2>1. N' = 0
      BY <1>1, OutsideBegins, FramesType DEF BeginsOrNot, N
    <2> QED BY <2>1 DEF HalfContext
  <1>2. ASSUME NEW f \in Frame, Begins(f)
        PROVE  HalfContext'
    <2>1. N' = 1 /\ frames'[1].step = "enter"
      BY <1>2, BeginIs DEF Begins
    <2> QED BY <2>1, NoHalf DEF HalfContext
  <1> QED BY <1>1, <1>2, OutsideBegins DEF BeginsOrNot

\* RTI takes the innermost context, and leaves the others.
LEMMA RtiContexts ==
  ASSUME TypeOK, Contexts, InstrRti
  PROVE  Contexts'
  <1>1. /\ sp' = sp + 4 /\ stack' = Live(sp + 4)
        /\ clean' = IF clean # <<>> /\ Last(clean).sp = sp + 4 THEN Front(clean) ELSE <<>>
    BY DEF InstrRti
  <1>2. CASE ~(clean # <<>> /\ Last(clean).sp = sp + 4)
    BY <1>1, <1>2, ContextsGone
  <1>3. CASE clean # <<>> /\ Last(clean).sp = sp + 4
    <2> DEFINE n == Len(clean)
    <2>1. /\ n \in Nat /\ n >= 1 /\ Last(clean) = clean[n]
          /\ clean' = Front(clean) /\ Len(clean') = n - 1
          /\ \A i \in 1..(n - 1) : clean'[i] = clean[i]
      BY <1>1, <1>3, FrontClean
    <2>2. \A i \in 1..n : clean[i] \in Context /\ OnStack(clean[i], sp, stack)
      BY ElementOfSeq DEF TypeOK, Contexts
    <2>3. \A i, j \in 1..n : i < j => clean[j].sp <= clean[i].sp - 4
      BY DEF Contexts
    <2> HIDE DEF n
    <2>4. sp \in Nat /\ sp' \in Nat
      BY <1>1, Empty DEF TypeOK
    <2>5. \A w \in Words : w >= sp' => stack'[w] = stack[w]
      BY <1>1, <2>4, LiveIs
    <2>6. ASSUME NEW i \in 1..(n - 1)
          PROVE  OnStack(clean'[i], sp', stack')
      <3>1. clean'[i] = clean[i] /\ clean[i] \in Context /\ OnStack(clean[i], sp, stack)
        BY <2>1, <2>2
      <3>2. sp' <= clean[i].sp - 4
        BY <1>1, <1>3, <2>1, <2>3
      <3>3. \A w \in Words : w \in Int
        BY Empty DEF Words
      <3>4. clean[i].sp \in Nat
        BY <2>4, <3>1, ContextWords
      <3>5. \A w \in Words : w >= clean[i].sp - 4 => stack'[w] = stack[w]
        BY <2>4, <2>5, <3>2, <3>3, <3>4
      <3> QED BY <2>4, <3>1, <3>2, <3>5, OnStackStays
    <2>7. \A i, j \in 1..(n - 1) : i < j => clean'[j].sp <= clean'[i].sp - 4
      BY <2>1, <2>3
    <2> QED BY <2>1, <2>6, <2>7 DEF Contexts
  <1> QED BY <1>2, <1>3

LEMMA OutsideContexts ==
  ASSUME TypeOK, Contexts, Outside
  PROVE  Contexts'
  <1>0. sp \in Nat /\ \A w \in Words : w \in Int
    BY Empty DEF TypeOK, Words
  <1>1. ASSUME UNCHANGED <<sp, stack, clean>>
        PROVE  Contexts'
    BY <1>0, <1>1, ContextsStay
  <1>2. CASE StepDelayed \/ StepNotDelayed \/ StepInstruction
             \/ \E r \in Requests : StepInterrupt(r[1], r[2])
    BY <1>1, <1>2 DEF StepDelayed, StepNotDelayed, StepInstruction, StepInterrupt, machine
  <1>3. CASE InstrPlain \/ InstrTrap \/ InstrFault \/ InstrHalt \/ InstrRtiFaults \/ Continue
    BY <1>1, <1>3 DEF InstrPlain, InstrTrap, InstrFault, InstrHalt, InstrRtiFaults,
                      Continue, machine
  <1>4. CASE InstrPushRed \/ InstrRtiFaultsLate \/ Reset
    BY <1>4, ContextsGone DEF InstrPushRed, InstrRtiFaultsLate, Reset
  <1>5. CASE InstrPush
    <2>1. sp' = sp - 2 /\ sp' \in Nat /\ Down(sp) = sp - 2 /\ UNCHANGED clean
      BY <1>5, PushedBelow, Empty DEF InstrPush
    <2>2. stack' = stack \/ stack' = Store(sp - 2, Junk)
      BY <1>5, <2>1 DEF InstrPush
    <2>3. \A w \in Words : w >= sp => stack'[w] = stack[w]
      <3>1. sp - 2 \in Int /\ Junk \in Cells
        BY <1>0 DEF Cells
      <3> QED BY <1>0, <2>2, <3>1, StoreIs
    <2> QED BY <1>0, <2>1, <2>3, ContextsStay
  <1>6. CASE InstrRti
    BY <1>6, RtiContexts
  <1>7. ASSUME NEW v \in Psw, InstrUserRti(v)
        PROVE  Contexts'
    BY <1>1, <1>7 DEF InstrUserRti
  <1>8. ASSUME NEW a \in {sp, StackTop, StackTop - 1}, NEW l \in Limits,
                NEW m \in Mappings, InstrSetup(a, l, m)
        PROVE  Contexts'
    <2>1. CASE a = sp
      <3>1. stack' = Live(sp) /\ UNCHANGED <<sp, clean>>
        BY <1>8, <2>1 DEF InstrSetup
      <3>2. \A w \in Words : w >= sp => stack'[w] = stack[w]
        BY <1>0, <3>1, LiveIs
      <3> QED BY <1>0, <3>1, <3>2, ContextsStay
    <2>2. CASE a # sp
      BY <1>8, <2>2, ContextsGone DEF InstrSetup
    <2> QED BY <2>1, <2>2
  <1> QED BY <1>2, <1>3, <1>4, <1>5, <1>6, <1>7, <1>8 DEF Outside, Instruction

\* The push of the PC completes a context.
LEMMA PushContext ==
  ASSUME TypeOK, Contexts, NEW f \in Frame, HalfSaved(f, sp, stack, clean),
         f.step = "push_pc", f.another = FALSE, sp > 4,
         sp' = sp - 2, stack' = Store(sp - 2, PcCell(f.pc)),
         clean' = Append(clean, [psw |-> f.psw, pc |-> f.pc, sp |-> f.prev_sp])
  PROVE  Contexts'
  <1> DEFINE c == [psw |-> f.psw, pc |-> f.pc, sp |-> f.prev_sp]
             n == Len(clean)
  <1>1. /\ c \in Context /\ c.sp = f.prev_sp /\ c.pc = f.pc /\ c.psw = f.psw
        /\ f.prev_sp \in 0..StackTop /\ PcCell(f.pc) \in Cells
    BY DEF Frame, Context, Cells
  <1>2. clean \in Seq(Context) /\ n \in Nat
    BY DEF TypeOK
  <1> HIDE DEF c
  <1>3. /\ clean' \in Seq(Context) /\ Len(clean') = n + 1 /\ clean'[n + 1] = c
        /\ \A i \in 1..n : clean'[i] = clean[i]
    BY <1>1, <1>2, AppendProperties DEF c
  <1>4. /\ f.prev_sp = sp + 2 /\ sp % 2 = 0 /\ stack[sp] = PswCell(f.psw)
        /\ \A i \in 1..n : f.prev_sp <= clean[i].sp - 4
    BY DEF HalfSaved
  <1>5. \A i \in 1..n : clean[i] \in Context /\ OnStack(clean[i], sp, stack)
    BY ElementOfSeq DEF TypeOK, Contexts
  <1>6. \A i, j \in 1..n : i < j => clean[j].sp <= clean[i].sp - 4
    BY DEF Contexts
  <1> HIDE DEF n
  <1>7. sp \in 0..StackTop /\ StackTop \in Nat /\ sp - 2 \in Nat
    BY Empty DEF TypeOK
  <1>8. sp \in Words /\ sp - 2 \in Words
    <2>1. (sp - 2) % 2 = 0 /\ sp - 2 \in 0..StackTop
      BY <1>4, <1>7
    <2> QED BY <1>4, <1>7, <2>1 DEF Words
  <1>9. \A w \in Words : stack'[w] = IF w = sp - 2 THEN PcCell(f.pc) ELSE stack[w]
    BY <1>1, <1>7, StoreIs
  <1>10. OnStack(c, sp', stack')
    <2>1. stack'[sp - 2] = PcCell(c.pc) /\ stack'[sp] = PswCell(c.psw)
      BY <1>1, <1>4, <1>7, <1>8, <1>9
    <2>2. c.sp = sp + 2 /\ c.sp - 4 = sp - 2 /\ c.sp - 2 = sp
      BY <1>1, <1>4, <1>7
    <2>3. c.sp % 2 = 0
      BY <1>4, <1>7, <2>2
    <2> QED BY <1>7, <2>1, <2>2, <2>3 DEF OnStack
  <1>14. ASSUME NEW d \in Context, OnStack(d, sp, stack)
          PROVE  OnStack(d, sp', stack')
    <2>1. d.sp \in Nat /\ sp <= d.sp - 4
      BY <1>7, <1>14, ContextWords
    <2>2. \A w \in Words : w \in Int
      BY <1>7 DEF Words
    <2>3. \A w \in Words : w >= d.sp - 4 => stack'[w] = stack[w]
      BY <1>7, <1>9, <2>1, <2>2
    <2>4. d.sp - 4 \in Words /\ d.sp - 2 \in Words
      BY <1>7, <1>14, ContextWords
    <2>5. stack'[d.sp - 4] = stack[d.sp - 4] /\ stack'[d.sp - 2] = stack[d.sp - 2]
      BY <1>7, <2>1, <2>3, <2>4
    <2>6. sp' <= d.sp - 4
      BY <1>7, <2>1
    <2> QED BY <1>14, <2>5, <2>6 DEF OnStack
  <1>11. ASSUME NEW i \in 1..n
         PROVE  OnStack(clean'[i], sp', stack')
    <2>1. clean'[i] = clean[i] /\ clean[i] \in Context /\ OnStack(clean[i], sp, stack)
      BY <1>3, <1>5
    <2>2. OnStack(clean[i], sp', stack')
      BY <1>14, <2>1
    <2> QED BY <2>1, <2>2
  <1>12. ASSUME NEW i \in 1..(n + 1)
         PROVE  OnStack(clean'[i], sp', stack')
    <2>1. CASE i = n + 1
      BY <1>3, <1>10, <2>1
    <2>2. CASE i # n + 1
      BY <1>2, <1>11, <2>2 DEF n
    <2> QED BY <2>1, <2>2
  <1>13. ASSUME NEW i \in 1..(n + 1), NEW j \in 1..(n + 1), i < j
         PROVE  clean'[j].sp <= clean'[i].sp - 4
    <2>1. n \in Nat
      BY <1>2 DEF n
    <2>2. CASE j = n + 1
      <3>1. i \in 1..n /\ clean'[i] = clean[i] /\ clean'[j] = c
        BY <1>3, <1>13, <2>1, <2>2
      <3> QED BY <1>1, <1>4, <3>1
    <2>3. CASE j # n + 1
      <3>1. i \in 1..n /\ j \in 1..n /\ clean'[i] = clean[i] /\ clean'[j] = clean[j]
        BY <1>3, <1>13, <2>1, <2>3
      <3> QED BY <1>6, <1>13, <3>1
    <2> QED BY <2>2, <2>3
  <1> QED BY <1>3, <1>12, <1>13 DEF Contexts

LEMMA TrappingContexts ==
  ASSUME TypeOK, Contexts, HalfContext, Trapping
  PROVE  Contexts'
  <1>1. /\ frames # <<>> /\ at = "trap" /\ N \in Nat /\ N >= 1
        /\ Top = frames[N] /\ Top \in Frame
    BY InTrap
  <1>2. sp \in Nat /\ \A w \in Words : w \in Int
    BY Empty DEF TypeOK, Words
  <1>3. ASSUME UNCHANGED <<sp, stack, clean>>
        PROVE  Contexts'
    BY <1>2, <1>3, ContextsStay
  <1>4. CASE TrapHalts \/ TrapLeave \/ TrapCatch \/ TrapFetch \/ TrapFetchFaults
    BY <1>3, <1>4 DEF TrapHalts, TrapLeave, TrapCatch, TrapFetch, TrapFetchFaults, machine
  <1>5. CASE TrapEnter
    <2>1. clean' = <<>> \/ UNCHANGED <<sp, stack, clean>>
      BY <1>5 DEF TrapEnter
    <2> QED BY <1>3, <2>1, ContextsGone
  <1>6. CASE TrapPushRed \/ TrapRecover
    BY <1>6, ContextsGone DEF TrapPushRed, TrapRecover
  <1>7. CASE TrapPushFaults
    <2>1. sp' = sp - 2 /\ sp' \in Nat /\ UNCHANGED <<stack, clean>>
      BY <1>7, PushedBelow, Empty DEF TrapPushFaults
    <2> QED BY <1>2, <2>1, ContextsStay
  <1>8. CASE TrapPush
    <2>1. /\ sp' = sp - 2 /\ sp' \in Nat /\ sp > 4 /\ stack' = Store(sp - 2, Saved(Top))
          /\ Top.step \in {"push_psw", "push_pc"} /\ Saved(Top) \in Cells
      BY <1>1, <1>8, PushedBelow, SavedIs, Empty DEF TrapPush
    <2>2. CASE Top.step = "push_pc" /\ Top.another = FALSE
      <3>1. HalfSaved(Top, sp, stack, clean)
        BY <1>1 DEF HalfContext
      <3>2. Saved(Top) = PcCell(Top.pc)
        BY <2>2 DEF Saved
      <3>3. clean' = Append(clean, [psw |-> Top.psw, pc |-> Top.pc, sp |-> Top.prev_sp])
        BY <1>8, <2>2 DEF TrapPush
      <3> QED BY <1>1, <2>1, <2>2, <3>1, <3>2, <3>3, PushContext
    <2>3. CASE ~(Top.step = "push_pc" /\ Top.another = FALSE)
      <3>1. Top.another \in BOOLEAN
        BY <1>1 DEF Frame
      <3>2. UNCHANGED clean
        BY <1>8, <2>3, <3>1 DEF TrapPush
      <3>3. sp - 2 \in Int
        BY <1>2
      <3>4. \A w \in Words : w >= sp => stack'[w] = stack[w]
        BY <1>2, <2>1, <3>3, StoreIs
      <3> QED BY <1>2, <2>1, <3>2, <3>4, ContextsStay
    <2> QED BY <2>2, <2>3
  <1> QED BY <1>4, <1>5, <1>6, <1>7, <1>8 DEF Trapping

\* The half context of the innermost activation.
LEMMA TrappingHalf ==
  ASSUME TypeOK, Nested, Contexts, HalfContext, Trapping
  PROVE  HalfContext'
  <1>1. /\ frames # <<>> /\ at = "trap" /\ N \in Nat /\ N >= 1
        /\ Top = frames[N] /\ Top \in Frame
    BY InTrap
  <1>2. ASSUME NEW f \in Frame, f.step \notin {"push_psw", "push_pc"},
               frames' = SetTop(f) \/ frames' = Nest(f)
        PROVE  HalfContext'
    <2>1. frames'[N'] = f
      BY <1>1, <1>2, SetTopMakes, NestMakes
    <2> QED BY <1>2, <2>1, NoHalf DEF HalfContext
  <1>3. CASE TrapHalts \/ TrapLeave \/ TrapCatch
    <2>1. PICK d : Return(d)
      BY <1>3 DEF TrapHalts, TrapLeave, TrapCatch
    <2>2. CASE N = 1
      <3>1. N' = N - 1
        BY <1>1, <2>1, ReturnIs
      <3>2. ~(N' > 0)
        BY <2>2, <3>1
      <3> QED BY <3>2 DEF HalfContext
    <2>3. CASE N > 1
      <3>1. N' = N - 1 /\ frames'[N - 1] = [frames[N - 1] EXCEPT !.step = ReturnsTo]
        BY <1>1, <2>1, <2>3, ReturnIs
      <3>2. WaitsFor(frames[N - 1], frames[N], unmapped) /\ frames[N - 1] \in Frame
        BY <1>1, <2>3, FramesType DEF Nested, Waiting
      <3>3. frames'[N - 1].step = ReturnsTo /\ frames'[N - 1].another = TRUE
        BY <3>1, <3>2 DEF Frame, WaitsFor
      <3>4. ReturnsTo # "push_psw"
        BY DEF ReturnsTo
      <3>5. HalfSaved(frames'[N - 1], sp', stack', clean')
        BY <3>3, <3>4 DEF HalfSaved
      <3> QED BY <3>1, <3>5 DEF HalfContext
    <2> QED BY <1>1, <2>2, <2>3
  <1>4. CASE TrapEnter
    <2> DEFINE f == [Top EXCEPT !.vector = IF depth + 1 >= 2 /\ psw.mode = Kernel THEN 4 ELSE @,
                                !.psw = psw, !.pc = pc, !.step = "fetch"]
    <2>1. f \in Frame
      BY <1>1, VectorsAssumption DEF Frame, Steps, TypeOK
    <2>2. f.step = "fetch"
      BY <1>1 DEF Frame
    <2>3. frames' = SetTop(f)
      BY <1>4 DEF TrapEnter
    <2> HIDE DEF f
    <2> QED BY <1>2, <2>1, <2>2, <2>3
  <1>5. CASE TrapFetch
    <2> DEFINE f == [Top EXCEPT !.prev_sp = sp, !.step = "push_psw"]
    <2>1. f \in Frame
      BY <1>1 DEF Frame, Steps, TypeOK
    <2>2. f.step = "push_psw" /\ f.prev_sp = sp
      BY <1>1 DEF Frame
    <2>3. frames' = SetTop(f) /\ UNCHANGED sp
      BY <1>5 DEF TrapFetch
    <2> HIDE DEF f
    <2>4. HalfSaved(f, sp', stack', clean')
      BY <2>2, <2>3 DEF HalfSaved
    <2> QED BY <1>1, <2>1, <2>3, <2>4, SetTopMakes DEF HalfContext
  <1>6. \A v \in {4, 168}, c \in {"throw", "red"}, l \in {7, NoIpl} :
          CallTrap(v, l, c) \in Frame
    BY CallTrapIs, VectorsAssumption DEF Callers
  <1>7. \A v, c, l : CallTrap(v, l, c).step = "enter"
    BY DEF CallTrap
  <1>8. CASE TrapFetchFaults \/ TrapPushRed
    <2>1. \/ frames' = Nest(CallTrap(168, NoIpl, "throw"))
          \/ frames' = Nest(CallTrap(4, 7, "red"))
      BY <1>8 DEF TrapFetchFaults, TrapPushRed
    <2> QED BY <1>2, <1>6, <1>7, <2>1
  <1>9. CASE TrapPushFaults
    <2>1. [Top EXCEPT !.step = "recover"] \in Frame /\ [Top EXCEPT !.step = "recover"].step = "recover"
      BY <1>1 DEF Frame, Steps
    <2>2. \/ frames' = Nest(CallTrap(168, NoIpl, "throw"))
          \/ frames' = SetTop([Top EXCEPT !.step = "recover"])
      BY <1>9 DEF TrapPushFaults
    <2>3. CallTrap(168, NoIpl, "throw") \in Frame
      BY <1>6 DEF NoIpl
    <2> QED BY <1>2, <1>7, <2>1, <2>2, <2>3
  <1>10. CASE TrapRecover
    <2>1. [Top EXCEPT !.step = "leave"] \in Frame /\ [Top EXCEPT !.step = "leave"].step = "leave"
      BY <1>1 DEF Frame, Steps
    <2>2. frames' = SetTop([Top EXCEPT !.step = "leave"])
      BY <1>10 DEF TrapRecover
    <2> QED BY <1>2, <2>1, <2>2
  <1>11. CASE TrapPush
    <2>1. /\ sp' = sp - 2 /\ sp > 4 /\ sp \in Nat /\ stack' = Store(sp - 2, Saved(Top))
          /\ Top.step \in {"push_psw", "push_pc"} /\ Saved(Top) \in Cells /\ ~Odd(sp)
          /\ frames' = SetTop([Top EXCEPT !.step = IF @ = "push_psw" THEN "push_pc" ELSE "leave"])
      BY <1>1, <1>11, PushedBelow, SavedIs DEF TrapPush
    <2>2. CASE Top.step = "push_pc"
      <3>1. frames' = SetTop([Top EXCEPT !.step = "leave"])
        BY <2>1, <2>2
      <3>2. [Top EXCEPT !.step = "leave"] \in Frame /\ [Top EXCEPT !.step = "leave"].step = "leave"
        BY <1>1 DEF Frame, Steps
      <3> QED BY <1>2, <3>1, <3>2
    <2>3. CASE Top.step = "push_psw"
      <3> DEFINE f == [Top EXCEPT !.step = "push_pc"]
      <3>1. /\ f \in Frame /\ f.step = "push_pc" /\ f.psw = Top.psw /\ f.prev_sp = Top.prev_sp
        BY <1>1 DEF Frame, Steps
      <3>2. frames' = SetTop(f)
        BY <2>1, <2>3
      <3> HIDE DEF f
      <3>3. Top.prev_sp = sp
        BY <1>1, <2>3 DEF HalfContext, HalfSaved
      <3>4. UNCHANGED clean
        BY <1>11, <2>3 DEF TrapPush
      <3>5. f.prev_sp = sp' + 2
        BY <2>1, <3>1, <3>3
      <3>6. sp' % 2 = 0 /\ sp - 2 \in Words
        <4>1. sp % 2 = 0
          BY <2>1 DEF Odd
        <4>2. sp \in 0..StackTop /\ StackTop \in Nat
          BY Empty DEF TypeOK
        <4>3. (sp - 2) % 2 = 0 /\ sp - 2 \in 0..StackTop
          BY <2>1, <4>1, <4>2
        <4> QED BY <2>1, <4>3 DEF Words
      <3>7. stack'[sp'] = PswCell(f.psw)
        <4>1. sp - 2 \in Int
          BY <2>1
        <4>2. stack'[sp - 2] = Saved(Top)
          BY <2>1, <3>6, <4>1, StoreIs
        <4> QED BY <2>1, <2>3, <3>1, <4>2 DEF Saved
      <3>8. \A i \in 1..Len(clean') : f.prev_sp <= clean'[i].sp - 4
        BY <3>1, <3>3, <3>4 DEF Contexts, OnStack
      <3>9. HalfSaved(f, sp', stack', clean')
        BY <3>1, <3>5, <3>6, <3>7, <3>8 DEF HalfSaved
      <3> QED BY <1>1, <3>1, <3>2, <3>9, SetTopMakes DEF HalfContext
    <2> QED BY <2>1, <2>2, <2>3
  <1> QED BY <1>3, <1>4, <1>5, <1>8, <1>9, <1>10, <1>11 DEF Trapping

-----------------------------------------------------------------------------
(***************************************************************************)
(* The invariant.                                                          *)
(***************************************************************************)
LEMMA InitIInv == Init => IInv
  <1> SUFFICES ASSUME Init PROVE IInv
    OBVIOUS
  <1>1. TypeOK
    BY InitTypes
  <1>2. /\ frames = <<>> /\ clean = <<>> /\ at = "boundary" /\ depth = 0
        /\ red = FALSE /\ psw.mode = Kernel
    BY DEF Init
  <1>3. N = 0 /\ Len(clean) = 0
    BY <1>2, EmptySeq DEF N
  <1>4. Nested
    BY <1>2, <1>3 DEF Nested, Waiting, InnermostCounts, DepthSettles
  <1>5. RedFalls
    BY <1>2 DEF RedFalls
  <1>6. UserKept
    <2>1. origin = Kernel
      BY DEF Init
    <2> QED BY <1>2, <2>1 DEF UserKept, KernelEntryAtHandler, Kernel, User
  <1>7. Contexts /\ HalfContext
    BY <1>3 DEF Contexts, HalfContext
  <1> QED BY <1>1, <1>4, <1>5, <1>6, <1>7 DEF IInv

LEMMA NextIInv ==
  ASSUME IInv, [Next]_vars
  PROVE  IInv'
  <1>1. TypeOK'
    BY NextTypes DEF IInv
  <1>2. CASE UNCHANGED vars
    <2>1. UNCHANGED <<psw, pc, sp, stack, slr, depth, delayed, event, unmapped, at, frames,
                      origin, red, clean>>
      BY <1>2 DEF vars, machine
    <2>2. UNCHANGED N
      BY <2>1 DEF N
    <2>3. Nested'
      BY <2>1, <2>2 DEF IInv, Nested, Waiting, InnermostCounts, DepthSettles
    <2>4. RedFalls'
      BY <2>1, <2>2 DEF IInv, RedFalls
    <2>5. UserKept'
      BY <2>1 DEF IInv, UserKept, KernelEntryAtHandler
    <2>6. Contexts' /\ HalfContext'
      BY <2>1, <2>2 DEF IInv, Contexts, HalfContext
    <2> QED BY <1>1, <2>3, <2>4, <2>5, <2>6 DEF IInv
  <1>3. CASE Trapping
    BY <1>1, <1>3, TrappingNested, TrappingRed, TrappingUser, TrappingContexts,
       TrappingHalf DEF IInv
  <1>4. CASE Outside
    BY <1>1, <1>4, OutsideNested, OutsideRed, OutsideUser, OutsideContexts,
       OutsideHalf DEF IInv
  <1> QED BY <1>2, <1>3, <1>4 DEF Next, Outside

LEMMA IInvAlways == Spec => []IInv
  BY InitIInv, NextIInv, PTL DEF Spec

(***************************************************************************)
(* Every variable keeps its type: the stack pointer never leaves the       *)
(* kernel's stack, and the counter processing_trap_depth stays in 0..3.    *)
(***************************************************************************)
THEOREM TypeCorrect == Spec => []TypeOK
  <1>1. IInv => TypeOK
    BY DEF IInv
  <1> QED BY <1>1, IInvAlways, PTL

(***************************************************************************)
(* trap() re-enters itself at most twice, whatever faults on the way to    *)
(* its handler (cpu.cpp:1674), for every set of vectors and every stack.   *)
(***************************************************************************)
THEOREM NeverDeeper == Spec => []NestingBounded
  <1>1. IInv => NestingBounded
    <2> SUFFICES ASSUME IInv PROVE NestingBounded
      OBVIOUS
    <2>1. N \in Nat /\ depth \in 0..Fatal /\ (N > 0 => CountsAs(frames[N].step, depth, N))
      BY FramesType DEF IInv, TypeOK, Nested, InnermostCounts
    <2>2. N <= 3
      BY <2>1, CountsBounded
    <2> QED BY <2>2 DEF NestingBounded, N
  <1> QED BY <1>1, IInvAlways, PTL

(***************************************************************************)
(* Between instructions, processing_trap_depth is 0 or so high that the    *)
(* next trap halts: no trap is taken for a double one because of an        *)
(* earlier one that failed.                                                *)
(***************************************************************************)
THEOREM CounterSettles == Spec => []DepthSettles
  <1>1. IInv => DepthSettles
    BY DEF IInv, Nested
  <1> QED BY <1>1, IInvAlways, PTL

(***************************************************************************)
(* A push in the red zone halts the machine before the next instruction    *)
(* (cpu.cpp:1471): the emergency stack is in the red zone as well.         *)
(***************************************************************************)
THEOREM RedZoneHalts == Spec => []RedZoneIsFatal
  <1>1. IInv => RedZoneIsFatal
    BY DEF IInv, RedFalls, RedZoneIsFatal
  <1> QED BY <1>1, IInvAlways, PTL

(***************************************************************************)
(* No sequence of nested traps, faults and stack pushes lets an            *)
(* instruction of the user's end in kernel mode but at a handler's entry.  *)
(***************************************************************************)
THEOREM UserEntersAtHandler == Spec => []KernelEntryAtHandler
  <1>1. IInv => KernelEntryAtHandler
    BY DEF IInv, UserKept
  <1> QED BY <1>1, IInvAlways, PTL

\* RTI finds the words of the innermost context.
LEMMA RtiFindsContext ==
  ASSUME IInv, InstrRti, clean # <<>>, sp + 4 = Last(clean).sp
  PROVE  pc' = Last(clean).pc /\ psw' = Last(clean).psw
  <1> DEFINE c == Last(clean)
  <1>1. c \in Context /\ OnStack(c, sp, stack)
    BY FrontClean DEF IInv, Contexts
  <1>2. sp \in Nat /\ TypeOK
    BY Empty DEF IInv, TypeOK
  <1>3. sp \in Words /\ sp + 2 \in Words
    <2>1. c.sp - 4 \in Words /\ c.sp - 2 \in Words
      BY <1>1, <1>2, ContextWords
    <2>2. c.sp - 4 = sp /\ c.sp - 2 = sp + 2
      BY <1>2
    <2> QED BY <2>1, <2>2
  <1>4. stack[sp] = PcCell(c.pc) /\ stack[sp + 2] = PswCell(c.psw)
    <2>1. c.sp - 4 = sp /\ c.sp - 2 = sp + 2
      BY <1>2
    <2> QED BY <1>1, <2>1 DEF OnStack
  <1>5. pc' \in {c.pc}
    <2>1. Popped(sp, "pc", {Program}) = {c.pc}
      BY <1>3, <1>4 DEF Popped, PcCell
    <2> QED BY <2>1 DEF InstrRti
  <1>6. psw' = c.psw
    <2> DEFINE any == [mode : {User}, prev : {User}, ipl : {0}]
    <2>1. Popped(sp + 2, "psw", any) = {c.psw}
      BY <1>3, <1>4 DEF Popped, PswCell
    <2>2. PICK v \in Popped(sp + 2, "psw", any) : psw' = setPSW(v, FALSE)
      BY DEF InstrRti
    <2> QED BY <2>1, <2>2 DEF setPSW
  <1> QED BY <1>5, <1>6

(***************************************************************************)
(* RTI gives back the PC and the PSW that trap() pushed, with any number   *)
(* of traps, interrupts and pushes nested in between: nothing but a pop    *)
(* reaches the words above the stack pointer.                              *)
(***************************************************************************)
THEOREM RtiGivesBack == Spec => RtiRestores
  <1>1. IInv /\ [Next]_vars =>
          [InstrRti /\ clean # <<>> /\ sp + 4 = Last(clean).sp =>
             pc' = Last(clean).pc /\ psw' = Last(clean).psw]_vars
    BY RtiFindsContext
  <1> QED BY <1>1, IInvAlways, PTL DEF Spec, RtiRestores
=============================================================================
